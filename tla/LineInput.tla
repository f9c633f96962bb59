----------------------------- MODULE LineInput -----------------------------
(* What the console promises its readers: characters typed are a line that can
   be edited until it is entered, and are then read once, in order. *)
EXTENDS Naturals, Sequences

CONSTANTS Chars, Enter, Size

VARIABLES
    line,             \* typed, and may still be erased
    ready             \* entered, and not yet read

vars == <<line, ready>>

Init == line = <<>> /\ ready = <<>>

\* A character that enters the line, or fills the buffer, makes it readable.
Type(c) ==
    /\ Len(line) + Len(ready) < Size
    /\ IF c \in Enter \/ Len(line) + Len(ready) + 1 = Size
       THEN ready' = ready \o Append(line, c) /\ line' = <<>>
       ELSE line' = Append(line, c) /\ UNCHANGED ready

Erase ==
    /\ \E k \in 0..Len(line) : line' = SubSeq(line, 1, k)
    /\ UNCHANGED ready

Read ==
    /\ ready # <<>>
    /\ ready' = Tail(ready)
    /\ UNCHANGED line

Next == Erase \/ Read \/ \E c \in Chars : Type(c)
Spec == Init /\ [][Next]_vars
=============================================================================
