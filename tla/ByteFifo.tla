------------------------------ MODULE ByteFifo ------------------------------
(***************************************************************************)
(* What a receive buffer promises: a bounded first-in first-out queue of   *)
(* bytes.  Bytes are appended in the order they arrive and only the oldest *)
(* ones are released; no step loses, repeats or reorders a byte.           *)
(***************************************************************************)
EXTENDS Integers, Sequences

CONSTANTS Byte,      \* the byte values
          Capacity   \* the most bytes the queue may hold

VARIABLE q

Init == q = <<>>

\* Some bytes arrive at the end of the queue.
Put == /\ Len(q') <= Capacity
       /\ Len(q') >= Len(q)
       /\ \A i \in 1 .. Len(q') : q'[i] \in Byte
       /\ \A i \in 1 .. Len(q)  : q'[i] = q[i]

\* The n oldest bytes are released.
Drop(n) == q' = SubSeq(q, n + 1, Len(q))

Next == Put \/ \E n \in 0 .. Len(q) : Drop(n)

Spec == Init /\ [][Next]_q
=============================================================================
