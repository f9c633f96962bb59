------------------------------ MODULE ShParser ------------------------------
(***************************************************************************)
(* The parser of the shell: gettoken and peek on the characters of a line, *)
(* the recursive descent of parseline, parsepipe, parseexec, parseredirs   *)
(* and parseblock, and nulterminate, which cuts the line into strings.  A  *)
(* pointer into the line is an index; past the line there is a 0.          *)
(***************************************************************************)
EXTENDS Naturals, Sequences, SequencesExt, FiniteSets, FiniteSetsExt

CONSTANTS
    MAXARGS,
    Args, File,       \* bound: argument lists and a file name of commands that are checked
    Alphabet, MaxLen  \* bound: the lines that are checked

NUL == "0"
whitespace == {" "}
symbols == {"<", "|", ">", "&", ";", "(", ")"}

At(s, i) == IF i > Len(s) THEN NUL ELSE s[i]

\* The first index from i on that satisfies P; the end of the line if none does.
First(s, i, P(_)) == Min({j \in i..Len(s) : P(s[j])} \cup {Len(s) + 1})

Skip(s, i) == First(s, i, LAMBDA c : c \notin whitespace)

\* F(v), with v evaluated once.
With(v, F(_)) == CHOOSE y \in {F(x) : x \in {v}} : TRUE

\* The kind of the token at or after i, its first index, the one behind it, and
\* where the next token begins.
TokenEndAtSpace(s, q) ==                 \* faulty: a word ends at a blank only
    CASE At(s, q) = NUL -> q
      [] At(s, q) = ">" /\ At(s, q + 1) = ">" -> q + 2
      [] At(s, q) \in symbols /\ ~(At(s, q) = ">" /\ At(s, q + 1) = ">") -> q + 1
      [] OTHER -> First(s, q, LAMBDA c : c \in whitespace)

TokenEnd(s, q) ==
    CASE At(s, q) = NUL -> q
      [] At(s, q) = ">" /\ At(s, q + 1) = ">" -> q + 2
      [] At(s, q) \in symbols /\ ~(At(s, q) = ">" /\ At(s, q + 1) = ">") -> q + 1
      [] OTHER -> First(s, q, LAMBDA c : c \in whitespace \cup symbols)

gettoken(s, i) == With(Skip(s, i), LAMBDA q :
    [ret |-> IF At(s, q) \notin {NUL} \cup symbols THEN "a"
             ELSE IF TokenEnd(s, q) = q + 2 THEN "+" ELSE At(s, q),
     q |-> q, eq |-> TokenEnd(s, q), next |-> Skip(s, TokenEnd(s, q))])

peek(s, i, toks) == At(s, Skip(s, i)) \in toks
-----------------------------------------------------------------------------
\* Constructors.  A string is the pair of its first index and the one behind it.
execcmd(argv) == [type |-> "EXEC", argv |-> argv]
redircmd(cmd, file, fd) == [type |-> "REDIR", cmd |-> cmd, file |-> file, fd |-> fd]
pipecmd(left, right) == [type |-> "PIPE", left |-> left, right |-> right]
listcmd(left, right) == [type |-> "LIST", left |-> left, right |-> right]
backcmd(cmd) == [type |-> "BACK", cmd |-> cmd]

\* A part of the line is parsed, and the rest begins at "at"; or panic() ends
\* the process that parses.
Parsed(cmd, at) == [ok |-> TRUE, cmd |-> cmd, at |-> at]
Panic == [ok |-> FALSE]
Then(r, F(_)) == With(r, LAMBDA v : IF v.ok THEN F(v) ELSE Panic)

\* The redirections of cmd from i on; O_CREATE comes with descriptor 1.
RECURSIVE parseredirs(_, _, _)
parseredirs(cmd, s, i) ==
    IF ~peek(s, i, {"<", ">"}) THEN Parsed(cmd, i)
    ELSE With(gettoken(s, i), LAMBDA tok : With(gettoken(s, tok.next), LAMBDA file :
           IF file.ret # "a" THEN Panic
           ELSE parseredirs(redircmd(cmd, <<file.q, file.eq>>, IF tok.ret = "<" THEN 0 ELSE 1),
                            s, file.next)))

\* One more argument for the EXEC inside the redirections.
RECURSIVE AddArg(_, _)
AddArg(cmd, arg) ==
    IF cmd.type = "EXEC" THEN execcmd(Append(cmd.argv, arg)) ELSE [cmd EXCEPT !.cmd = AddArg(@, arg)]

\* The loop of parseexec.
RECURSIVE parseargs(_, _, _, _)
parseargs(cmd, argc, s, i) == With(gettoken(s, i), LAMBDA tok :
    IF tok.ret \in {"|", ")", "&", ";", NUL} THEN Parsed(cmd, i)
    ELSE IF tok.ret # "a" \/ argc + 1 >= MAXARGS THEN Panic
    ELSE Then(parseredirs(AddArg(cmd, <<tok.q, tok.eq>>), s, tok.next), LAMBDA r :
           parseargs(r.cmd, argc + 1, s, r.at)))

RECURSIVE parseline(_, _)
parseblock(s, i) == Then(parseline(s, gettoken(s, i).next), LAMBDA line :
    IF ~peek(s, line.at, {")"}) THEN Panic
    ELSE parseredirs(line.cmd, s, gettoken(s, line.at).next))

parseexec(s, i) ==
    IF peek(s, i, {"("}) THEN parseblock(s, i)
    ELSE Then(parseredirs(execcmd(<<>>), s, i), LAMBDA r : parseargs(r.cmd, 0, s, r.at))

RECURSIVE parsepipe(_, _)
parsepipe(s, i) == Then(parseexec(s, i), LAMBDA left :
    IF ~peek(s, left.at, {"|"}) THEN left
    ELSE Then(parsepipe(s, gettoken(s, left.at).next), LAMBDA right :
           Parsed(pipecmd(left.cmd, right.cmd), right.at)))

RECURSIVE parseback(_, _)
parseback(s, r) ==
    IF peek(s, r.at, {"&"}) THEN parseback(s, Parsed(backcmd(r.cmd), gettoken(s, r.at).next)) ELSE r

parseline(s, i) == Then(parsepipe(s, i), LAMBDA pipe : With(parseback(s, pipe), LAMBDA left :
    IF ~peek(s, left.at, {";"}) THEN left
    ELSE Then(parseline(s, gettoken(s, left.at).next), LAMBDA right :
           Parsed(listcmd(left.cmd, right.cmd), right.at))))
-----------------------------------------------------------------------------
\* The indices at which nulterminate stores a 0, and a string afterwards.
RECURSIVE Ends(_)
Ends(c) ==
    CASE c.type = "EXEC" -> {c.argv[k][2] : k \in DOMAIN c.argv}
      [] c.type = "REDIR" -> Ends(c.cmd) \cup {c.file[2]}
      [] c.type = "BACK" -> Ends(c.cmd)
      [] OTHER -> Ends(c.left) \cup Ends(c.right)

nulterminate(s, c) == [i \in DOMAIN s |-> IF i \in Ends(c) THEN NUL ELSE s[i]]

String(s, q) == SubSeq(s, q, First(s, q, LAMBDA c : c = NUL) - 1)

\* A command with its strings instead of pointers to them.
RECURSIVE Strings(_, _)
Strings(s, c) ==
    CASE c.type = "EXEC" -> execcmd([k \in DOMAIN c.argv |-> String(s, c.argv[k][1])])
      [] c.type = "REDIR" -> redircmd(Strings(s, c.cmd), String(s, c.file[1]), c.fd)
      [] c.type = "BACK" -> backcmd(Strings(s, c.cmd))
      [] c.type = "PIPE" -> pipecmd(Strings(s, c.left), Strings(s, c.right))
      [] OTHER -> listcmd(Strings(s, c.left), Strings(s, c.right))

parsecmd(s) == Then(parseline(s, 1), LAMBDA r :
    IF Skip(s, r.at) # Len(s) + 1 THEN Panic
    ELSE With(nulterminate(s, r.cmd), LAMBDA z : [ok |-> TRUE, cmd |-> Strings(z, r.cmd)]))
-----------------------------------------------------------------------------
(* What the parser is compared with: a way to write commands down, and a       *)
(* grammar of lines.                                                           *)

Par(text) == <<"(">> \o text \o <<")">>

\* A command as a line, with the blanks gap around symbols.  A part stands in
\* parentheses unless its type is among those that its place can take as it is.
RECURSIVE Render(_, _)
Render(c, gap) ==
    LET In(part, types) == IF part.type \in types THEN Render(part, gap) ELSE Par(Render(part, gap))
        Op(sym) == gap \o <<sym>> \o gap
    IN  CASE c.type = "EXEC" -> FlattenSeq([k \in DOMAIN c.argv |-> c.argv[k] \o <<" ">>])
          [] c.type = "REDIR" -> In(c.cmd, {"EXEC", "REDIR"}) \o Op(IF c.fd = 0 THEN "<" ELSE ">") \o c.file
          [] c.type = "PIPE" -> In(c.left, {"EXEC", "REDIR"}) \o Op("|") \o In(c.right, {"EXEC", "REDIR", "PIPE"})
          [] c.type = "BACK" -> In(c.cmd, {"EXEC", "REDIR", "PIPE", "BACK"}) \o Op("&")
          [] OTHER -> In(c.left, {"EXEC", "REDIR", "PIPE", "BACK"}) \o Op(";") \o Render(c.right, gap)

Larger(C) ==
    C \cup {redircmd(c, File, fd) : c \in C, fd \in {0, 1}} \cup {backcmd(c) : c \in C}
      \cup {pipecmd(c, d) : c, d \in C} \cup {listcmd(c, d) : c, d \in C}

Commands == Larger(Larger({execcmd(argv) : argv \in Args}))

\* The tokens of a line, each by its kind.
RECURSIVE Tokens(_, _)
Tokens(s, i) ==
    With(gettoken(s, i), LAMBDA tok :
        IF tok.ret = NUL THEN <<>> ELSE <<tok.ret>> \o Tokens(s, tok.next))

\* The grammar: tokens i to j - 1 of T are redirections, a simple command, ...
IsRedirs(T, i, j) == \A k \in i..j - 1 :
    IF (k - i) % 2 = 0 THEN T[k] \in {"<", ">", "+"} /\ k + 1 < j ELSE T[k] = "a"

IsSimple(T, i, j) == \A k \in i..j - 1 :
    T[k] = "a" \/ (T[k] \in {"<", ">", "+"} /\ k + 1 < j /\ T[k + 1] = "a")

RECURSIVE IsLine(_, _, _)
IsBlock(T, i, j) == \E k \in i + 1..j - 1 :
    T[i] = "(" /\ T[k] = ")" /\ IsLine(T, i + 1, k) /\ IsRedirs(T, k + 1, j)

RECURSIVE IsPipe(_, _, _)
IsPipe(T, i, j) ==
    \/ IsSimple(T, i, j) \/ IsBlock(T, i, j)
    \/ \E k \in i..j - 1 :
         T[k] = "|" /\ (IsSimple(T, i, k) \/ IsBlock(T, i, k)) /\ IsPipe(T, k + 1, j)

IsLine(T, i, j) == \E k \in i..j :
    /\ IsPipe(T, i, k)
    /\ \E m \in k..j :
         /\ \A a \in k..m - 1 : T[a] = "&"
         /\ m = j \/ (T[m] = ";" /\ IsLine(T, m + 1, j))

\* The line of a command, written with or without blanks, parses to that very
\* command, and its strings are whole after nulterminate has cut them out of the
\* line; and the shell takes exactly the lines of the grammar, whatever comes
\* last in them or is missing.
ParserFaithful ==
    /\ \A c \in Commands, gap \in {<<>>, <<" ">>} :
         parsecmd(Render(c, gap)) = [ok |-> TRUE, cmd |-> c]
    /\ \A n \in 0..MaxLen : \A s \in [1..n -> Alphabet] :
         parsecmd(s).ok <=> With(Tokens(s, 1), LAMBDA T : IsLine(T, 1, Len(T) + 1))
=============================================================================
