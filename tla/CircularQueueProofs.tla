------------------------ MODULE CircularQueueProofs ------------------------
(***************************************************************************)
(* The sending queue is correct for every length of the ring, every MTU    *)
(* and every schedule of the two threads, as long as no request reaches    *)
(* MAX bytes.  That hypothesis is the one bftpd meets: it never holds more *)
(* than twice xfer_bufsize bytes in hand, and the ring has ten million.    *)
(***************************************************************************)
EXTENDS CircularQueue, TLAPS

\* What the callers guarantee: a request leaves the spare slot free.
Fitting == Requests \subseteq 1..(MAX - 1)

-----------------------------------------------------------------------------
(* Arithmetic of the slots.                                                *)

\* (rear + len) % MAX and (front + len) % MAX leave an index below MAX alone.
LEMMA ModWithin ==
  ASSUME NEW m \in Nat \ {0}, NEW a \in 0..(m - 1)
  PROVE  a % m = a
OBVIOUS

\* A copy that ends exactly at the end of the ring goes back to slot 0.
LEMMA ModWhole ==
  ASSUME NEW m \in Nat \ {0}
  PROVE  m % m = 0
OBVIOUS

\* The ring never holds more than MAX - 1 bytes: front = rear means empty.
LEMMA LengthBounds ==
  ASSUME TypeOK
  PROVE  Length \in 0..(MAX - 1)
BY QueueAssumption DEF TypeOK, Slots, Length

-----------------------------------------------------------------------------
(* insert.                                                                 *)

LEMMA InitEstablishes ==
  ASSUME Fitting, Init
  PROVE  QueueInvariant
BY QueueAssumption
   DEF Init, Fitting, QueueInvariant, TypeOK, WriterInPlace, ClampIsSafe,
       NothingLost, ChunkInOrder, Length, Slots

LEMMA TestsPreserve ==
  ASSUME Fitting, QueueInvariant,
         (\E n \in Requests : TestEmpty(n)) \/ TestOrder
  PROVE  QueueInvariant'
<1> USE QueueAssumption
        DEF Fitting, QueueInvariant, TypeOK, Slots, Unlocked, WriterInPlace
<1>1. ASSUME NEW n \in Requests, TestEmpty(n)
      PROVE  QueueInvariant'
  <2>1. n \in 1..(MAX - 1)
    OBVIOUS
  <2>2. TypeOK' /\ WriterInPlace'
    BY <1>1, <2>1 DEF TestEmpty, fmin
  <2>3. ClampIsSafe'
    BY <1>1, <2>1 DEF TestEmpty, fmin, ClampIsSafe, Length
  <2>4. NothingLost' /\ ChunkInOrder'
    BY <1>1 DEF TestEmpty, NothingLost, ChunkInOrder, Length, Slot
  <2> QED  BY <2>2, <2>3, <2>4
<1>2. CASE TestOrder
  <2>1. TypeOK' /\ WriterInPlace'
    BY <1>2 DEF TestOrder
  <2>2. ClampIsSafe' /\ NothingLost' /\ ChunkInOrder'
    BY <1>2 DEF TestOrder, ClampIsSafe, NothingLost, ChunkInOrder, Length, Slot
  <2> QED  BY <2>1, <2>2
<1> QED  BY <1>1, <1>2

LEMMA ClampsPreserve ==
  ASSUME QueueInvariant, ClampTail \/ ClampGap \/ NegativeCopy
  PROVE  QueueInvariant'
<1> USE QueueAssumption
        DEF QueueInvariant, TypeOK, Slots, Unlocked, WriterInPlace
<1>1. TypeOK' /\ WriterInPlace'
  <2>1. pc' \in {"idle", "copy", "fault"} /\ len' \in Int
    BY DEF ClampTail, ClampGap, NegativeCopy, Clamp, fmin
  <2>2. UNCHANGED <<cqueue_arr, front, rear, accepted, removed, chunk>>
    BY DEF ClampTail, ClampGap, NegativeCopy, Clamp
  <2> QED  BY <2>1, <2>2
<1>2. ClampIsSafe'
  <2>1. CASE ClampTail
    <3>1. /\ len \in 1..(MAX - 1) /\ front <= rear
          /\ UNCHANGED <<front, rear>>
          /\ len' = fmin(len, MAX - rear + front - 1)
          /\ pc' = "copy" => len' # 0
      BY <2>1 DEF ClampTail, Clamp
    <3>2. len' \in Nat /\ len' <= MAX - rear + front - 1
      BY <3>1 DEF fmin
    <3> QED  BY <3>1, <3>2 DEF ClampIsSafe, Length
  <2>2. CASE ClampGap
    <3>1. /\ len \in 1..(MAX - 1)
          /\ UNCHANGED <<front, rear>>
          /\ len' = fmin(len, front - rear - 1)
          /\ pc' = "copy" => len' # 0
      BY <2>2 DEF ClampGap, Clamp
    <3>2. /\ len' \in Int /\ len' <= front - rear - 1
          /\ IF rear < front THEN len' >= 0 ELSE len' >= -(rear + 1)
      BY <3>1 DEF fmin
    <3> QED  BY <3>1, <3>2 DEF ClampIsSafe, Length
  <2>3. CASE NegativeCopy
    BY <2>3 DEF NegativeCopy, ClampIsSafe
  <2> QED  BY <2>1, <2>2, <2>3
<1>3. NothingLost' /\ ChunkInOrder'
  BY DEF ClampTail, ClampGap, NegativeCopy, Clamp, NothingLost, ChunkInOrder,
         Length, Slot
<1> QED  BY <1>1, <1>2, <1>3

LEMMA CopyStraightPreserves ==
  ASSUME QueueInvariant, CopyStraight
  PROVE  QueueInvariant'
<1> USE QueueAssumption DEF Slots
<1>1. /\ cqueue_arr \in [Slots -> Nat]
      /\ front \in Slots /\ rear \in Slots /\ accepted \in Nat
      /\ removed \in Nat /\ chunk \in Seq(Nat)
      /\ len \in Nat \ {0} /\ len <= MAX - 1 - Length
      /\ FitsBeforeEnd
  BY DEF QueueInvariant, TypeOK, CopyStraight, ClampIsSafe
<1>2. rear + len \in 0..(MAX - 1)
  BY <1>1 DEF FitsBeforeEnd, Length
<1>3. rear' = rear + len /\ rear' \in Slots
  BY <1>1, <1>2, ModWithin DEF CopyStraight
<1>4. /\ front' = front /\ removed' = removed /\ chunk' = chunk
      /\ accepted' = accepted + len /\ pc' = "idle" /\ len' = len
  BY DEF CopyStraight, Inserted
<1>5. Length' = Length + len
  BY <1>1, <1>3, <1>4 DEF Length, FitsBeforeEnd
<1>6. TypeOK' /\ WriterInPlace' /\ ClampIsSafe'
  <2>1. cqueue_arr' \in [Slots -> Nat]
    BY <1>1 DEF CopyStraight
  <2> QED  BY <1>1, <1>3, <1>4, <2>1 DEF TypeOK, WriterInPlace, ClampIsSafe
<1>7. NothingLost'
  <2>1. accepted' = removed' + Length'
    BY <1>1, <1>4, <1>5 DEF QueueInvariant, NothingLost, Length
  <2>2. ASSUME NEW i \in 0..(Length' - 1)
        PROVE  cqueue_arr'[Slot(i)'] = removed' + 1 + i
    <3>1. Slot(i)' = Slot(i) /\ Slot(i) \in Slots
      BY <1>1, <1>3, <1>4, <1>5, <2>2, LengthBounds
         DEF Slot, Length, QueueInvariant, FitsBeforeEnd
    <3>2. CASE i < Length
      <4>1. Slot(i) \notin rear..(rear + len - 1)
        BY <1>1, <1>2, <3>2, <2>2
           DEF Slot, Length, FitsBeforeEnd
      <4>2. cqueue_arr'[Slot(i)] = cqueue_arr[Slot(i)]
        BY <3>1, <4>1 DEF CopyStraight
      <4> QED  BY <1>1, <1>4, <2>2, <3>1, <3>2, <4>2
                  DEF QueueInvariant, NothingLost, Length
    <3>3. CASE i >= Length
      <4>1. Slot(i) = rear + (i - Length)
        BY <1>1, <1>2, <1>5, <2>2, <3>3
           DEF Slot, Length, FitsBeforeEnd
      <4>2. cqueue_arr'[Slot(i)] = accepted + 1 + (i - Length)
        BY <1>1, <1>5, <2>2, <3>1, <3>3, <4>1 DEF CopyStraight, Length
      <4> QED  BY <1>1, <1>4, <2>2, <3>1, <4>2
                  DEF QueueInvariant, NothingLost, Length
    <3> QED  BY <1>1, <3>2, <3>3, <2>2 DEF Length
  <2> QED  BY <2>1, <2>2 DEF NothingLost
<1>8. ChunkInOrder'
  BY <1>4 DEF QueueInvariant, ChunkInOrder
<1> QED  BY <1>6, <1>7, <1>8 DEF QueueInvariant

LEMMA CopyWrappedPreserves ==
  ASSUME QueueInvariant, CopyWrapped
  PROVE  QueueInvariant'
<1> USE QueueAssumption DEF Slots
<1>1. /\ cqueue_arr \in [Slots -> Nat]
      /\ front \in Slots /\ rear \in Slots /\ accepted \in Nat
      /\ removed \in Nat /\ chunk \in Seq(Nat)
      /\ len \in Nat \ {0} /\ len <= MAX - 1 - Length
      /\ front <= rear /\ rear + len >= MAX
  BY DEF QueueInvariant, TypeOK, CopyWrapped, ClampIsSafe, FitsBeforeEnd
<1>2. /\ front' = front /\ removed' = removed /\ chunk' = chunk
      /\ accepted' = accepted + len /\ pc' = "idle" /\ len' = len
      /\ rear' = len - (MAX - rear)
  BY DEF CopyWrapped, Inserted
<1>3. rear' \in Slots /\ rear' < front
  BY <1>1, <1>2 DEF Length
<1>4. Length' = Length + len
  BY <1>1, <1>2, <1>3 DEF Length
<1>5. TypeOK' /\ WriterInPlace' /\ ClampIsSafe'
  <2>1. cqueue_arr' \in [Slots -> Nat]
    BY <1>1 DEF CopyWrapped
  <2> QED  BY <1>1, <1>2, <1>3, <2>1 DEF TypeOK, WriterInPlace, ClampIsSafe
<1>6. NothingLost'
  <2>1. accepted' = removed' + Length'
    BY <1>1, <1>2, <1>4 DEF QueueInvariant, NothingLost, Length
  <2>2. ASSUME NEW i \in 0..(Length' - 1)
        PROVE  cqueue_arr'[Slot(i)'] = removed' + 1 + i
    <3>1. i \in Nat /\ i < Length + len /\ Length = rear - front
      BY <1>1, <1>4, <2>2 DEF Length
    <3>2. Slot(i)' = Slot(i) /\ Slot(i) \in Slots
      BY <1>1, <1>2, <1>3, <3>1 DEF Slot
    <3>3. CASE i < Length
      <4>1. Slot(i) = front + i /\ Slot(i) < rear /\ Slot(i) >= rear'
        BY <1>1, <1>3, <3>1, <3>3 DEF Slot
      <4>2. cqueue_arr'[Slot(i)] = cqueue_arr[Slot(i)]
        BY <1>1, <1>2, <3>2, <4>1 DEF CopyWrapped
      <4> QED  BY <1>1, <1>2, <3>1, <3>2, <3>3, <4>2
                  DEF QueueInvariant, NothingLost
    <3>4. CASE i >= Length /\ front + i < MAX
      <4>1. Slot(i) = rear + (i - Length) /\ Slot(i) >= rear
        BY <1>1, <3>1, <3>4 DEF Slot
      <4>2. cqueue_arr'[Slot(i)] = accepted + 1 + (i - Length)
        BY <1>1, <3>1, <3>2, <4>1 DEF CopyWrapped
      <4> QED  BY <1>1, <1>2, <3>1, <3>2, <4>2 DEF QueueInvariant, NothingLost
    <3>5. CASE i >= Length /\ front + i >= MAX
      <4>1. /\ Slot(i) = front + i - MAX /\ Slot(i) < rear
            /\ Slot(i) < len - (MAX - rear)
        BY <1>1, <1>2, <1>3, <3>1, <3>5 DEF Slot
      <4>2. cqueue_arr'[Slot(i)] = accepted + 1 + (MAX - rear) + Slot(i)
        BY <1>1, <3>2, <4>1 DEF CopyWrapped
      <4> QED  BY <1>1, <1>2, <3>1, <3>2, <4>1, <4>2
                  DEF QueueInvariant, NothingLost
    <3> QED  BY <1>1, <3>1, <3>3, <3>4, <3>5
  <2> QED  BY <2>1, <2>2 DEF NothingLost
<1>7. ChunkInOrder'
  BY <1>2 DEF QueueInvariant, ChunkInOrder
<1> QED  BY <1>5, <1>6, <1>7 DEF QueueInvariant

-----------------------------------------------------------------------------
(* remove.                                                                 *)

\* What one remove does to the two ends and to the chunk, in either layout.
LEMMA RemoveEffect ==
  ASSUME QueueInvariant, Remove
  PROVE  LET n == ChunkLength
         IN  /\ n \in 1..Length
             /\ front' \in Slots
             /\ front' = Slot(n)
             /\ Length' = Length - n
             /\ chunk' = [j \in 1..n |-> cqueue_arr[Slot(j - 1)]]
             /\ removed' = removed + n
             /\ UNCHANGED <<cqueue_arr, rear, accepted, pc, len>>
<1> USE QueueAssumption DEF Slots
<1> DEFINE n == ChunkLength
<1>1. /\ front \in Slots /\ rear \in Slots /\ front # rear
      /\ removed' = removed + n
      /\ UNCHANGED <<cqueue_arr, rear, accepted, pc, len>>
  BY DEF QueueInvariant, TypeOK, Remove, writerVars
<1>2. n \in 1..Length /\ Length = IF front < rear THEN rear - front
                                                  ELSE MAX - front + rear
  BY <1>1 DEF ChunkLength, Length, fmin
<1>3. CASE ReadsBeforeEnd(n)
  <2>1. /\ chunk' = [j \in 1..n |-> cqueue_arr[front + j - 1]]
        /\ front' = (front + n) % MAX
    BY <1>3 DEF Remove
  <2>2. front + n \in 0..MAX
    BY <1>1, <1>2, <1>3 DEF ReadsBeforeEnd
  <2>3. front' = Slot(n) /\ front' \in Slots
    <3>1. CASE front + n < MAX
      <4>1. (front + n) % MAX = front + n
        BY <2>2, <3>1, ModWithin
      <4> QED  BY <1>1, <1>2, <2>1, <2>2, <3>1, <4>1 DEF Slot
    <3>2. CASE front + n = MAX
      <4>1. (front + n) % MAX = 0
        BY <3>2, ModWhole
      <4> QED  BY <1>1, <1>2, <2>1, <2>2, <3>2, <4>1 DEF Slot
    <3> QED  BY <2>2, <3>1, <3>2
  <2>4. Length' = Length - n
    BY <1>1, <1>2, <1>3, <2>2, <2>3 DEF Slot, Length, ReadsBeforeEnd
  <2>5. \A j \in 1..n : Slot(j - 1) = front + j - 1
    BY <1>1, <1>2, <2>2 DEF Slot
  <2>6. chunk' = [j \in 1..n |-> cqueue_arr[Slot(j - 1)]]
    BY <2>1, <2>5
  <2> QED  BY <1>1, <1>2, <2>3, <2>4, <2>6
<1>4. CASE ~ ReadsBeforeEnd(n)
  <2>1. /\ chunk' = [j \in 1..n |-> IF j <= MAX - front
                                       THEN cqueue_arr[front + j - 1]
                                       ELSE cqueue_arr[j - (MAX - front) - 1]]
        /\ front' = n - (MAX - front)
    BY <1>4 DEF Remove
  <2>2. rear < front /\ front + n > MAX
    BY <1>1, <1>2, <1>4 DEF ReadsBeforeEnd
  <2>3. front' = Slot(n) /\ front' \in Slots /\ Length' = Length - n
    BY <1>1, <1>2, <2>1, <2>2 DEF Slot, Length
  <2>4. \A j \in 1..n :
           Slot(j - 1) = IF j <= MAX - front THEN front + j - 1
                                             ELSE j - (MAX - front) - 1
    BY <1>1, <1>2, <2>2 DEF Slot
  <2>5. chunk' = [j \in 1..n |-> cqueue_arr[Slot(j - 1)]]
    BY <2>1, <2>4
  <2> QED  BY <1>1, <1>2, <2>3, <2>5
<1> QED  BY <1>3, <1>4

LEMMA RemovePreserves ==
  ASSUME QueueInvariant, Remove
  PROVE  QueueInvariant'
<1> USE QueueAssumption DEF Slots
<1> DEFINE n == ChunkLength
<1>1. /\ n \in 1..Length /\ front' \in Slots /\ front' = Slot(n)
      /\ Length' = Length - n
      /\ chunk' = [j \in 1..n |-> cqueue_arr[Slot(j - 1)]]
      /\ removed' = removed + n
      /\ UNCHANGED <<cqueue_arr, rear, accepted, pc, len>>
  BY RemoveEffect
<1>2. /\ cqueue_arr \in [Slots -> Nat] /\ front \in Slots /\ rear \in Slots
      /\ removed \in Nat /\ len \in Int /\ Length \in 0..(MAX - 1)
  BY LengthBounds DEF QueueInvariant, TypeOK
<1>3. n \in Nat \ {0} /\ n <= Length
  BY <1>1, <1>2
<1> HIDE DEF n
<1>4. \A i \in 0..(Length - 1) : cqueue_arr[Slot(i)] = removed + 1 + i
  BY DEF QueueInvariant, NothingLost
<1>5. chunk' = [j \in 1..n |-> removed + j]
  <2>1. \A j \in 1..n : cqueue_arr[Slot(j - 1)] = removed + j
    BY <1>2, <1>3, <1>4
  <2> QED  BY <1>1, <2>1
<1>6. Len(chunk') = n /\ chunk' \in Seq(Nat)
  BY <1>2, <1>3, <1>5
<1>7. TypeOK' /\ ClampIsSafe'
  <2>1. TypeOK'
    BY <1>1, <1>2, <1>3, <1>6 DEF QueueInvariant, TypeOK
  <2>2. ClampIsSafe'
    <3>1. rear < front' => rear < front
      BY <1>1, <1>2, <1>3 DEF Slot, Length
    <3> QED  BY <1>1, <1>2, <1>3, <3>1 DEF QueueInvariant, ClampIsSafe
  <2> QED  BY <2>1, <2>2
<1>8. WriterInPlace'
  <2>1. front <= rear => front' <= rear
    BY <1>1, <1>2, <1>3 DEF Slot, Length
  <2> QED  BY <1>1, <2>1 DEF QueueInvariant, WriterInPlace
<1>9. NothingLost'
  <2>1. accepted' = removed' + Length'
    BY <1>1, <1>2, <1>3 DEF QueueInvariant, NothingLost
  <2>2. ASSUME NEW i \in 0..(Length' - 1)
        PROVE  cqueue_arr'[Slot(i)'] = removed' + 1 + i
    <3>1. Slot(i)' = Slot(n + i) /\ n + i \in 0..(Length - 1)
      BY <1>1, <1>2, <1>3 DEF Slot
    <3> QED  BY <1>1, <1>2, <1>3, <1>4, <3>1
  <2> QED  BY <2>1, <2>2 DEF NothingLost
<1>10. ChunkInOrder'
  <2>1. ASSUME NEW j \in 1..n
        PROVE  chunk'[j] = removed' - n + j
    <3>1. chunk'[j] = removed + j
      BY <1>5, <2>1
    <3>2. removed' = removed + n
      BY <1>1
    <3> QED  BY <1>2, <1>3, <3>1, <3>2
  <2> QED  BY <1>6, <2>1 DEF ChunkInOrder
<1> QED  BY <1>7, <1>8, <1>9, <1>10 DEF QueueInvariant

-----------------------------------------------------------------------------
LEMMA NextPreserves ==
  ASSUME Fitting, QueueInvariant, [Next]_vars
  PROVE  QueueInvariant'
<1>1. CASE (\E n \in Requests : TestEmpty(n)) \/ TestOrder
  BY <1>1, TestsPreserve
<1>2. CASE ClampTail \/ ClampGap \/ NegativeCopy
  BY <1>2, ClampsPreserve
<1>3. CASE CopyStraight
  BY <1>3, CopyStraightPreserves
<1>4. CASE CopyWrapped
  BY <1>4, CopyWrappedPreserves
<1>5. CASE Remove
  BY <1>5, RemovePreserves
<1>6. CASE RemoveNothing \/ Dead \/ UNCHANGED vars
  BY <1>6 DEF RemoveNothing, Dead, vars, QueueInvariant, TypeOK, WriterInPlace,
              ClampIsSafe, NothingLost, ChunkInOrder, Length, Slot
<1> QED  BY <1>1, <1>2, <1>3, <1>4, <1>5, <1>6 DEF Next, Insert

\* For every ring, MTU and interleaving of insert's unlocked reads with
\* remove, the queue satisfies its inductive invariant.
THEOREM InvariantHolds ==
  ASSUME Fitting
  PROVE  Spec => []QueueInvariant
<1>1. Init => QueueInvariant
  BY InitEstablishes
<1>2. QueueInvariant /\ [Next]_vars => QueueInvariant'
  BY NextPreserves
<1> QED  BY <1>1, <1>2, PTL DEF Spec

\* Every variable of the queue keeps its type.
THEOREM TypeCorrect ==
  ASSUME Fitting
  PROVE  Spec => []TypeOK
<1>1. QueueInvariant => TypeOK
  BY DEF QueueInvariant
<1> QED  BY <1>1, InvariantHolds, PTL

\* Between insert and remove no byte is lost or overwritten.
THEOREM NeverLoses ==
  ASSUME Fitting
  PROVE  Spec => []NothingLost
<1>1. QueueInvariant => NothingLost
  BY DEF QueueInvariant
<1> QED  BY <1>1, InvariantHolds, PTL

\* remove hands out the bytes of the stream one after the other.
THEOREM HandsOutInOrder ==
  ASSUME Fitting
  PROVE  Spec => []ChunkInOrder
<1>1. QueueInvariant => ChunkInOrder
  BY DEF QueueInvariant
<1> QED  BY <1>1, InvariantHolds, PTL

\* A length chosen without the lock never exceeds the room there is when it is
\* copied under it; it is positive while the ring is wrapped, and no smaller
\* than -(rear + 1) when the reader has come round in between.
THEOREM ClampSafe ==
  ASSUME Fitting
  PROVE  Spec => []ClampIsSafe
<1>1. QueueInvariant => ClampIsSafe
  BY DEF QueueInvariant
<1> QED  BY <1>1, InvariantHolds, PTL

-----------------------------------------------------------------------------
(* The ring implements the bounded queue of bytes.                         *)

LEMMA EmptySequence == Len(<<>>) = 0
OBVIOUS

\* What the reader takes is the front of the sequence.
LEMMA Prefix ==
  ASSUME NEW s \in Seq(Nat), NEW n \in 1..Len(s)
  PROVE  SubSeq(s, 1, n) = [j \in 1..n |-> s[j]]
OBVIOUS

\* In a reachable state the ring holds the bytes removed+1 .. accepted.
RingContents ==
  /\ Waiting = [i \in 1..Length |-> removed + i]
  /\ Waiting \in Seq(Nat)
  /\ Len(Waiting) = Length
  /\ Length \in 0..(MAX - 1)
  /\ Length = accepted - removed
  /\ removed \in Nat

LEMMA WaitingBytes == QueueInvariant => RingContents
<1> SUFFICES ASSUME QueueInvariant PROVE RingContents
  OBVIOUS
<1>1. Length \in 0..(MAX - 1) /\ removed \in Nat
  BY LengthBounds DEF QueueInvariant, TypeOK
<1>2. \A i \in 1..Length : cqueue_arr[Slot(i - 1)] = removed + i
  BY <1>1 DEF QueueInvariant, NothingLost
<1>3. Waiting = [i \in 1..Length |-> removed + i]
  BY <1>2 DEF Waiting
<1>4. Waiting \in Seq(Nat) /\ Len(Waiting) = Length
  BY <1>1, <1>3, QueueAssumption
<1> QED  BY <1>1, <1>3, <1>4 DEF QueueInvariant, NothingLost, RingContents

\* A copy of insert is one Put of the abstract queue.
LEMMA CopyIsPut ==
  ASSUME QueueInvariant, QueueInvariant', CopyStraight \/ CopyWrapped
  PROVE  Fifo!Next
<1>1. /\ accepted' = accepted + len /\ removed' = removed /\ chunk' = chunk
      /\ len \in 1..(MAX - 1 - Length)
  BY QueueAssumption, LengthBounds
     DEF QueueInvariant, TypeOK, ClampIsSafe, CopyStraight, CopyWrapped, Inserted
<1>2. RingContents
  BY WaitingBytes
<1>3. RingContents'
  BY WaitingBytes, PTL
<1>4. /\ Length' = Length + len /\ Length \in Nat /\ len \in Nat
      /\ accepted = removed + Length
  <2>1. Length \in Nat /\ Length = accepted - removed /\ removed \in Nat
    BY <1>2, QueueAssumption DEF RingContents
  <2>2. Length' = accepted' - removed'
    BY <1>3 DEF RingContents
  <2>3. len \in Nat /\ accepted \in Nat
    BY <1>1, <2>1, QueueAssumption DEF QueueInvariant, TypeOK
  <2> QED  BY <1>1, <2>1, <2>2, <2>3
<1>5. Waiting' = Waiting \o [j \in 1..len |-> accepted + j]
  BY <1>1, <1>2, <1>3, <1>4 DEF RingContents
<1>6. Fifo!Put(len) /\ len \in 1..(MAX - 1)
  <2>1. Length + len <= MAX - 1 /\ len \in 1..(MAX - 1)
    BY <1>1, <1>4, QueueAssumption
  <2>2. Len(Waiting) = Length
    BY <1>2 DEF RingContents
  <2> QED  BY <1>1, <1>5, <2>1, <2>2 DEF Fifo!Put
<1> QED  BY <1>6 DEF Fifo!Next

\* remove is one Get of the abstract queue.
LEMMA RemoveIsGet ==
  ASSUME QueueInvariant, QueueInvariant', Remove
  PROVE  Fifo!Next
<1> DEFINE n == ChunkLength
<1>1. /\ n \in 1..Length /\ Length' = Length - n
      /\ chunk' = [j \in 1..n |-> cqueue_arr[Slot(j - 1)]]
      /\ removed' = removed + n /\ accepted' = accepted
  BY RemoveEffect
<1>2. RingContents /\ Waiting = [i \in 1..Length |-> cqueue_arr[Slot(i - 1)]]
  BY WaitingBytes DEF Waiting
<1>3. RingContents'
  BY WaitingBytes, PTL
<1>4. n = IF Len(Waiting) < MTU THEN Len(Waiting) ELSE MTU
  <2>1. Length = IF front < rear THEN rear - front ELSE MAX - front + rear
    BY DEF Length, Remove, QueueInvariant, TypeOK, Slots
  <2>2. Length \in Nat /\ Len(Waiting) = Length
    BY <1>2, QueueAssumption DEF RingContents
  <2> QED  BY <2>1, <2>2, QueueAssumption DEF ChunkLength, fmin
<1>5. n \in Nat \ {0} /\ n <= Length /\ Length \in Nat
  BY <1>1, <1>2, QueueAssumption DEF RingContents
<1> HIDE DEF n
<1>6. chunk' = SubSeq(Waiting, 1, n)
  <2>1. \A j \in 1..n : cqueue_arr[Slot(j - 1)] = Waiting[j]
    BY <1>2, <1>5
  <2>2. chunk' = [j \in 1..n |-> Waiting[j]]
    BY <1>1, <2>1
  <2>3. Waiting \in Seq(Nat) /\ n \in 1..Len(Waiting)
    BY <1>2, <1>5 DEF RingContents
  <2> QED  BY <2>2, <2>3, Prefix
<1>7. Waiting' = SubSeq(Waiting, n + 1, Len(Waiting))
  BY <1>1, <1>2, <1>3, <1>5 DEF RingContents
<1>8. Waiting # <<>>
  <2>1. Len(Waiting) # 0
    BY <1>2, <1>5 DEF RingContents
  <2> QED  BY <2>1, EmptySequence
<1> QED  BY <1>1, <1>4, <1>6, <1>7, <1>8 DEF Fifo!Get, Fifo!Next

\* Seen through the bytes between front and rear, the ring is a bounded FIFO
\* queue of MAX - 1 bytes: insert puts at one end what remove gets at the
\* other, and the unlocked reads of insert cannot be told from its outside.
THEOREM RefinesFifo ==
  ASSUME Fitting
  PROVE  Spec => ImplementsFifo
<1>1. Init => Fifo!Init
  BY QueueAssumption DEF Init, Fifo!Init, Waiting, Length
<1>2. QueueInvariant /\ QueueInvariant' /\ [Next]_vars
        => [Fifo!Next]_(Fifo!vars)
  <2> SUFFICES ASSUME QueueInvariant, QueueInvariant', [Next]_vars
               PROVE  [Fifo!Next]_(Fifo!vars)
    OBVIOUS
  <2>1. CASE CopyStraight \/ CopyWrapped
    BY <2>1, CopyIsPut
  <2>2. CASE Remove
    BY <2>2, RemoveIsGet
  <2>3. CASE \/ \E n \in Requests : TestEmpty(n)
             \/ TestOrder \/ ClampTail \/ ClampGap \/ NegativeCopy
             \/ RemoveNothing \/ Dead \/ UNCHANGED vars
    <3>1. UNCHANGED <<cqueue_arr, front, rear, accepted, chunk>>
      BY <2>3 DEF TestEmpty, TestOrder, ClampTail, ClampGap, Clamp,
                  NegativeCopy, RemoveNothing, Dead, Unlocked, vars
    <3> QED  BY <3>1 DEF Fifo!vars, Waiting, Length, Slot
  <2> QED  BY <2>1, <2>2, <2>3 DEF Next, Insert
<1> QED  BY <1>1, <1>2, InvariantHolds, PTL DEF Spec, ImplementsFifo, Fifo!Spec
=============================================================================
