--------------------------- MODULE CircularQueue ---------------------------
(***************************************************************************)
(* Circular_Queue, the sending queue between the application (one writer,  *)
(* alcc_send) and the packet sender thread (one reader, pkt_sender).  The  *)
(* three builds of the library hold the same class.                        *)
(*                                                                         *)
(* remove() does all its work under lockBuffer and is one action.  insert()*)
(* decides how much fits BEFORE it takes the lock, in up to three separate *)
(* reads of front: bftpd/Makefile compiles libalcc*.cpp with CXXFLAGS,     *)
(* which has no -O, so every mention of front in the source is a load of   *)
(* its own and remove() may run between any two of them.  Each load is an  *)
(* action.  rear is written by the writer only and cannot change under it. *)
(*                                                                         *)
(* Byte k of the stream is the number k.                                   *)
(***************************************************************************)
EXTENDS Integers, Sequences

CONSTANTS MAX,        \* length of cqueue_arr
          MTU,        \* length the reader asks for
          Requests,   \* lengths the writer may ask for
          TotalBytes  \* bytes the writer has to send (bounds the behaviour)

ASSUME QueueAssumption ==
    /\ MAX \in Nat \ {0}
    /\ MTU \in Nat \ {0}
    /\ Requests \subseteq Nat \ {0}
    /\ TotalBytes \in Nat

VARIABLES cqueue_arr,  \* slot -> the byte in it, 0 when never written
          front, rear,
          pc,          \* where the writer is inside insert
          len,         \* insert's parameter, clamped on the way
          accepted,    \* bytes insert has reported as inserted
          removed,     \* bytes remove has returned
          chunk        \* the bytes of the last non-empty remove

writerVars == <<pc, len>>
vars == <<cqueue_arr, front, rear, pc, len, accepted, removed, chunk>>

Slots == 0..(MAX - 1)
fmin(a, b) == IF a < b THEN a ELSE b

Init == /\ cqueue_arr = [i \in Slots |-> 0]
        /\ front = 0
        /\ rear = 0
        /\ pc = "idle"
        /\ len = 0
        /\ accepted = 0
        /\ removed = 0
        /\ chunk = <<>>

-----------------------------------------------------------------------------
(* insert, before the lock.                                                *)

Unlocked == UNCHANGED <<cqueue_arr, front, rear, accepted, removed, chunk>>

\* The call, and the first load: front == rear.
TestEmpty(n) ==
    /\ pc = "idle"
    /\ n <= TotalBytes - accepted
    /\ IF front = rear
         THEN pc' = "copy" /\ len' = fmin(n, MAX)
         ELSE pc' = "test_order" /\ len' = n
    /\ Unlocked

\* The second load: front < rear.
TestOrder ==
    /\ pc = "test_order"
    /\ pc' = IF front < rear THEN "clamp_tail" ELSE "clamp_gap"
    /\ UNCHANGED len
    /\ Unlocked

\* The third load, in either branch.  A length of 0 returns to the caller.
Clamp(room) ==
    /\ len' = fmin(len, room)
    /\ pc' = IF len' = 0 THEN "idle" ELSE "copy"
    /\ Unlocked

\* Mutations: the spare slot is given away.
ClampTailNoSpare == pc = "clamp_tail" /\ Clamp(MAX - rear + front)
ClampGapNoSpare  == pc = "clamp_gap"  /\ Clamp(front - rear)

ClampTail == pc = "clamp_tail" /\ Clamp(MAX - rear + front - 1)
ClampGap  == pc = "clamp_gap"  /\ Clamp(front - rear - 1)

-----------------------------------------------------------------------------
(* insert, under lockBuffer.                                               *)

\* Mutations: an empty queue is taken for a wrapped one; the room before the
\* end of the array is not tested.
FitsUnlessEmpty == (front < rear /\ MAX - rear - 1 >= len) \/ rear < front
FitsAlways      == front <= rear \/ rear < front

FitsBeforeEnd == (front <= rear /\ MAX - rear - 1 >= len) \/ rear < front

\* A negative length reaches memcpy as a huge unsigned one: the process dies.
NegativeCopy ==
    /\ pc = "copy"
    /\ len < 0
    /\ pc' = "fault"
    /\ UNCHANGED len
    /\ Unlocked

Inserted ==
    /\ accepted' = accepted + len
    /\ pc' = "idle"
    /\ UNCHANGED <<len, front, removed, chunk>>

CopyStraight ==
    /\ pc = "copy" /\ len > 0
    /\ FitsBeforeEnd
    /\ cqueue_arr' = [i \in Slots |->
                        IF i \in rear..(rear + len - 1)
                          THEN accepted + 1 + (i - rear) ELSE cqueue_arr[i]]
    /\ rear' = (rear + len) % MAX
    /\ Inserted

CopyWrapped ==
    /\ pc = "copy" /\ len > 0
    /\ ~ FitsBeforeEnd
    /\ cqueue_arr' = [i \in Slots |->
                        IF i >= rear THEN accepted + 1 + (i - rear)
                        ELSE IF i < len - (MAX - rear)
                               THEN accepted + 1 + (MAX - rear) + i
                               ELSE cqueue_arr[i]]
    /\ rear' = len - (MAX - rear)
    /\ Inserted

-----------------------------------------------------------------------------
(* remove and length, wholly under lockBuffer.                             *)

Alive == pc # "fault"

\* The value length() returns.
Length == IF front <= rear THEN rear - front ELSE MAX - front + rear

\* Mutation: remove returns the length it was asked for.
FullChunk == MTU

\* What remove(chunk, MTU) returns when the queue is not empty.
ChunkLength == fmin(MTU, IF front < rear THEN rear - front
                                         ELSE MAX - front + rear)

ReadsBeforeEnd(n) == front < rear \/ (rear < front /\ MAX - front >= n)

Remove ==
    LET n == ChunkLength
    IN  /\ Alive
        /\ front # rear
        /\ IF ReadsBeforeEnd(n)
             THEN /\ chunk' = [j \in 1..n |-> cqueue_arr[front + j - 1]]
                  /\ front' = (front + n) % MAX
             ELSE /\ chunk' = [j \in 1..n |->
                                 IF j <= MAX - front
                                   THEN cqueue_arr[front + j - 1]
                                   ELSE cqueue_arr[j - (MAX - front) - 1]]
                  /\ front' = n - (MAX - front)
        /\ removed' = removed + n
        /\ UNCHANGED <<cqueue_arr, rear, accepted, writerVars>>

\* remove on an empty queue returns 0; the sender thread spins on it.
RemoveNothing == front = rear /\ UNCHANGED vars

\* A dead process takes no step.
Dead == ~ Alive /\ UNCHANGED vars

-----------------------------------------------------------------------------
Insert == \/ \E n \in Requests : TestEmpty(n)
          \/ TestOrder
          \/ ClampTail \/ ClampGap
          \/ NegativeCopy \/ CopyStraight \/ CopyWrapped

Next == Insert \/ Remove \/ RemoveNothing \/ Dead

Spec == Init /\ [][Next]_vars

-----------------------------------------------------------------------------
(* Properties.                                                             *)

TypeOK ==
    /\ cqueue_arr \in [Slots -> Nat]
    /\ front \in Slots
    /\ rear \in Slots
    /\ pc \in {"idle", "test_order", "clamp_tail", "clamp_gap", "copy", "fault"}
    /\ len \in Int
    /\ accepted \in Nat
    /\ removed \in Nat
    /\ chunk \in Seq(Nat)

\* The i-th slot after front (i counts from 0).
Slot(i) == IF front + i < MAX THEN front + i ELSE front + i - MAX

\* Every byte insert said it took and remove has not returned yet is still in
\* the ring, in order, between front and rear, although insert chose its
\* length from reads of front made without the lock.
NothingLost ==
    /\ accepted = removed + Length
    /\ \A i \in 0..(Length - 1) : cqueue_arr[Slot(i)] = removed + 1 + i

\* remove hands out the stream in order, without a gap or a repetition.
ChunkInOrder ==
    \A j \in 1..Len(chunk) : chunk[j] = removed - Len(chunk) + j

\* The length insert is about to copy, chosen without the lock.  It never
\* exceeds the free part of the ring, the spare slot excluded, however far the
\* reader has moved since.  As long as the ring is wrapped (rear < front) it is
\* positive.  Once the reader has come round, or has emptied the ring, it may
\* be negative, by at most rear + 1: insert (libalcc.cpp:36) then computes
\* front - rear - 1 from a front that TestOrder has not seen, and dies in
\* NegativeCopy before it has touched the ring.
ClampIsSafe ==
    pc = "copy" =>
        /\ len <= MAX - 1 - Length
        /\ IF rear < front THEN len >= 1 ELSE len # 0 /\ len >= -(rear + 1)

\* What each of the writer's positions remembers of the tests it has passed:
\* the reader can only bring front closer to rear, so a front that was not
\* past rear stays there.
WriterInPlace ==
    /\ pc \in {"test_order", "clamp_tail", "clamp_gap"} => len \in 1..(MAX - 1)
    /\ pc = "clamp_tail" => front <= rear

\* The inductive invariant.
QueueInvariant ==
    TypeOK /\ WriterInPlace /\ ClampIsSafe /\ NothingLost /\ ChunkInOrder

\* The bytes in the ring, oldest first.
Waiting == [i \in 1..Length |-> cqueue_arr[Slot(i - 1)]]

\* The ring implements the bounded queue of bytes.
Fifo == INSTANCE BoundedFifo WITH Capacity <- MAX - 1, waiting <- Waiting
ImplementsFifo == Fifo!Spec
=============================================================================
