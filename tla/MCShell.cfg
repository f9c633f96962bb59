SPECIFICATION FairSpec
CONSTANTS
  MAXARGS = 4
  Args <- SmallArgs
  File <- SmallFile
  Alphabet = {"a", " ", "<", ">", "|", "&", ";", "(", ")"}
  MaxLen = 4
  NPROC = 5
  NPIPES = 2
  PIPESIZE = 1
  Program <- Programs
  Lines <- SmallLines
  MaxLines = 2
  MaxBytes = 1
INVARIANTS Waited ParserCorrect
PROPERTY PromptReturns
CHECK_DEADLOCK FALSE
