----------------------------- MODULE ByteStream -----------------------------
(***************************************************************************)
(* What pipe.c promises: a bounded queue of bytes, in the order they were  *)
(* written, that loses, repeats and invents nothing.                       *)
(***************************************************************************)
EXTENDS Naturals, Sequences

CONSTANTS Bytes, Room

VARIABLES
    queue, readopen, writeopen,
    got                 \* the byte a reader received last

vars == <<queue, readopen, writeopen, got>>

Init == queue = <<>> /\ readopen = TRUE /\ writeopen = TRUE /\ got \in Bytes

Put(v) ==
    /\ writeopen /\ Len(queue) < Room
    /\ queue' = Append(queue, v)
    /\ UNCHANGED <<readopen, writeopen, got>>

Get ==
    /\ readopen /\ queue # <<>>
    /\ queue' = Tail(queue)
    /\ got' = Head(queue)
    /\ UNCHANGED <<readopen, writeopen>>

CloseWrite == writeopen /\ writeopen' = FALSE /\ UNCHANGED <<queue, readopen, got>>
CloseRead == readopen /\ readopen' = FALSE /\ UNCHANGED <<queue, writeopen, got>>

Next == (\E v \in Bytes : Put(v)) \/ Get \/ CloseWrite \/ CloseRead
Spec == Init /\ [][Next]_vars
=============================================================================
