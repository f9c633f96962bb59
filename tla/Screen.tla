------------------------------- MODULE Screen -------------------------------
(***************************************************************************)
(* What consputc does to the screen: cgaputc with the cursor, backspace    *)
(* and scrolling, on the CGA memory crt.  A cell holds a character; cells  *)
(* that are cleared and cells with a blank look the same.                  *)
(***************************************************************************)
EXTENDS Integers, Sequences, SequencesExt

CONSTANTS
    Cols, Rows,       \* 80 and 24; the memory has another row, which stays as it is
    NL, BACKSPACE, Blank,
    Text,             \* other characters
    MaxOut            \* bound: characters of the outputs that are checked

Cells == 0..(Rows + 1) * Cols - 1

\* The cursor is wherever the firmware left it.
Cleared(at) == [pos |-> at, crt |-> [i \in Cells |-> Blank]]

\* The character itself; pos may be the cell behind the last row now.
Put(s, c) ==
    CASE c = NL -> [s EXCEPT !.pos = @ + (Cols - (@ % Cols))]
      [] c = BACKSPACE -> [s EXCEPT !.pos = IF @ > 0 THEN @ - 1 ELSE @]
      [] OTHER -> [s EXCEPT !.pos = @ + 1, !.crt[s.pos] = c]

ScrollShort(s) ==                        \* faulty: the new last row is not cleared
    IF s.pos \div Cols < Rows THEN s
    ELSE [pos |-> s.pos - Cols,
          crt |-> [i \in Cells |-> IF i < (Rows - 1) * Cols THEN s.crt[i + Cols] ELSE s.crt[i]]]

\* memmove, and memset up to the end of the last row.
Scroll(s) ==
    IF s.pos \div Cols < Rows THEN s
    ELSE [pos |-> s.pos - Cols,
          crt |-> [i \in Cells |->
              IF i \in s.pos - Cols..Rows * Cols - 1 THEN Blank
              ELSE IF i < (Rows - 1) * Cols THEN s.crt[i + Cols] ELSE s.crt[i]]]

cgaputc(s, c) == LET t == Scroll(Put(s, c)) IN [t EXCEPT !.crt[t.pos] = Blank]

consputc(at, out) == FoldLeft(cgaputc, Cleared(at), out)
-----------------------------------------------------------------------------
\* The same output on paper, of which the screen shows the rows from top on.
\* The paper is a set of cells with characters; a backspace stops at the top.
Paper(at) == [at |-> at, top |-> 0, ink |-> <<>>]

Typed(p, c) ==
    LET at == CASE c = NL -> (p.at \div Cols + 1) * Cols
                [] c = BACKSPACE -> IF p.at > p.top * Cols THEN p.at - 1 ELSE p.at
                [] OTHER -> p.at + 1
        row == at \div Cols
    IN  [at |-> at,
         top |-> IF row - p.top >= Rows THEN row - Rows + 1 ELSE p.top,
         ink |-> CASE c = NL -> p.ink
                   [] c = BACKSPACE -> SelectSeq(p.ink, LAMBDA i : i[1] # at)
                   [] OTHER -> Append(p.ink, <<p.at, c>>)]

Shows(p) == [i \in 0..Rows * Cols - 1 |->
    IF \E k \in DOMAIN p.ink : p.ink[k][1] = p.top * Cols + i
    THEN p.ink[CHOOSE k \in DOMAIN p.ink : p.ink[k][1] = p.top * Cols + i][2]
    ELSE Blank]

\* The screen shows the last rows of everything that was written, with what was
\* erased gone, and the cursor is where the next character will be: lines that
\* fill the last column, backspaces over the start of a row and scrolling
\* included.  The panic on the position is not reached.
ScreenFaithful ==
    \A at \in 0..Rows * Cols - 1, n \in 0..MaxOut :
      \A out \in [1..n -> Text \cup {NL, BACKSPACE}] :
        LET s == consputc(at, out)
            p == FoldLeft(Typed, Paper(at), out)
        IN  /\ s.pos = p.at - p.top * Cols /\ s.pos \in 0..Rows * Cols - 1
            /\ \A i \in 0..Rows * Cols - 1 : s.crt[i] = Shows(p)[i]
=============================================================================
