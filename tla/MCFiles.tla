------------------------------ MODULE MCFiles ------------------------------
(***************************************************************************)
(* Instances of Files and of Console for TLC.  The table of open files and *)
(* the console share no lock, no channel and no data, so in each behaviour *)
(* one of them moves.                                                      *)
(***************************************************************************)
EXTENDS Files

CONSTANTS p1, p2, x1, x2, a, nl, eof, bs, blank

TwoProcs == {p1, p2}
TwoPipes == {x1, x2}
Symmetric == Permutations(TwoProcs) \cup Permutations(TwoPipes)

VARIABLES part, buf, r, w, e, cons, ip, io, n, target, killed

console == <<buf, r, w, e, cons, ip, io, n, target, killed>>

C == INSTANCE Console WITH
       Text <- {a}, NL <- nl, EOF <- eof, INPUT_BUF <- 2, UINT <- 4, MaxN <- 2
S == INSTANCE Screen WITH
       Cols <- 2, Rows <- 2, NL <- nl, BACKSPACE <- bs, Blank <- blank, Text <- {a}, MaxOut <- 6

ASSUME ConsoleConstants == C!ConsoleAssumption

MCInit == part \in {"files", "console"} /\ Init /\ C!Init
MCNext ==
    \/ part = "files" /\ Next /\ UNCHANGED <<part, console>>
    \/ part = "console" /\ C!Next /\ UNCHANGED <<part, vars>>
MCSpec == MCInit /\ [][MCNext]_<<part, vars, console>>

ImplementsLineInput == C!ImplementsLineInput
\* What the console writes to the screen, evaluated once.
AtBoot == part = "console" /\ e = 0 /\ r = 0 /\ \A p \in Procs : io[p] = "user"
ScreenFaithful == AtBoot => S!ScreenFaithful
=============================================================================
