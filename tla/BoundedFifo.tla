---------------------------- MODULE BoundedFifo ----------------------------
(***************************************************************************)
(* What the sending queue of an ALCC socket promises, whatever its layout  *)
(* in memory: a byte stream enters at one end, leaves at the other in the  *)
(* same order, in chunks as long as possible up to MTU, and at most        *)
(* Capacity bytes wait inside.  Byte k is the k-th byte ever accepted, so  *)
(* that a lost, duplicated, reordered or overwritten byte shows.           *)
(***************************************************************************)
EXTENDS Naturals, Sequences

CONSTANTS Capacity,  \* the most bytes that may wait in the queue
          MTU        \* the longest chunk a reader takes

VARIABLES waiting,   \* the bytes inside, oldest first
          accepted,  \* how many bytes have ever entered
          chunk      \* the bytes the last successful read returned

vars == <<waiting, accepted, chunk>>

Init == /\ waiting = <<>>
        /\ accepted = 0
        /\ chunk = <<>>

\* A writer adds the next n bytes of its stream.
Put(n) ==
    /\ Len(waiting) + n <= Capacity
    /\ waiting' = waiting \o [j \in 1..n |-> accepted + j]
    /\ accepted' = accepted + n
    /\ UNCHANGED chunk

\* The reader takes everything, or the MTU oldest bytes when there are more.
Get ==
    LET n == IF Len(waiting) < MTU THEN Len(waiting) ELSE MTU
    IN  /\ waiting # <<>>
        /\ chunk' = SubSeq(waiting, 1, n)
        /\ waiting' = SubSeq(waiting, n + 1, Len(waiting))
        /\ UNCHANGED accepted

Next == Get \/ \E n \in 1..Capacity : Put(n)

Spec == Init /\ [][Next]_vars
=============================================================================
