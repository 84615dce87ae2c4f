------------------------- MODULE AlccDeliveryProofs -------------------------
(***************************************************************************)
(* What the receiver of an ALCC socket counts, for every window and MTU.   *)
(*                                                                         *)
(* It never counts a packet that was not acknowledged, on a connection     *)
(* whose sequence numbers do not wrap and span at most half of the circle: *)
(* for every order of acknowledgements and starting report.  Across a wrap *)
(* an acknowledgement from before it is taken for new, so that the         *)
(* assumption cannot be dropped.                                           *)
(*                                                                         *)
(* If all packets are full, it counts exactly the acknowledged packets,    *)
(* across any number of wraps, but for one at most for each acknowledgement *)
(* that ended inside a packet, until an acknowledgement names the byte     *)
(* numbered 0 or one from before a wrap is taken for new.                  *)
(*                                                                         *)
(* In both cases the socket implements SlidingWindow, until the latter.    *)
(***************************************************************************)
EXTENDS AlccSocketProofs, FiniteSetTheorems

\* No sequence number of the stream is 0 or wraps.
NoWrap ==
    FirstSeq > 0 /\ FirstSeq + StreamBytes < MODULUS /\ StreamBytes <= MODULUS \div 2

-----------------------------------------------------------------------------
(* Arithmetic and the stream.                                              *)

LEMMA WholePackets ==
  ASSUME NEW d \in Nat, NEW m \in Nat \ {0}
  PROVE  d \div m \in Nat /\ (d \div m) * m <= d
BY SMT

LEMMA MultipleOrder ==
  ASSUME NEW a \in Nat, NEW b \in Nat, NEW m \in Nat \ {0}, a * m <= b * m
  PROVE  a <= b
<1> SUFFICES ASSUME a > b
             PROVE  FALSE
  OBVIOUS
<1> DEFINE c == a - b
<1>1. c \in Nat /\ c >= 1 /\ a = b + c
  OBVIOUS
<1>2. a * m = b * m + c * m
  BY <1>1, SMT
<1>3. c * m >= m
  BY <1>1, SMT
<1> QED  BY <1>2, <1>3, SMT

LEMMA OneMore ==
  ASSUME NEW n \in Nat, NEW m \in Nat
  PROVE  (n + 1) * m = n * m + m /\ n * m \in Nat
BY SMT

\* The positions of the stream, in order.
LEMMA Positions ==
  ASSUME TypeOK, EndsInOrder, NEW j \in 0..sentSeq, NEW k \in 0..sentSeq
  PROVE  /\ End(j) \in Nat /\ End(k) \in Nat
         /\ j <= k => End(j) <= End(k) /\ End(k) - End(j) <= (k - j) * MTU
         /\ End(j) <= End(k) => j <= k
<1>1. End(j) \in Nat /\ End(k) \in Nat /\ sentSeq \in Nat
  BY DEF End, sentSeq, TypeOK
<1>2. ASSUME NEW i \in Packets, NEW l \in 0..(i - 1)
      PROVE  End(l) < End(i) /\ End(i) - End(l) <= (i - l) * MTU
  BY <1>1, <1>2 DEF EndsInOrder, End, Packets
<1>3. CASE j = k
  <2>1. (k - j) * MTU = 0
    BY <1>1, <1>3, SocketAssumption
  <2> QED  BY <1>1, <1>3, <2>1
<1>4. CASE j < k
  BY <1>1, <1>2, <1>4 DEF Packets
<1>5. CASE k < j
  <2>1. End(k) < End(j)
    BY <1>1, <1>2, <1>5 DEF Packets
  <2> QED  BY <1>1, <1>5, <2>1
<1> QED  BY <1>1, <1>3, <1>4, <1>5

\* Without a wrap the wire shows the position itself.
LEMMA WireIsPosition ==
  ASSUME NoWrap, NEW p \in Nat, p <= StreamBytes
  PROVE  Wire(p) = FirstSeq + p
<1>1. FirstSeq + p \in 0..(MODULUS - 1) /\ MODULUS \in Nat \ {0}
  BY SocketAssumption DEF NoWrap
<1> DEFINE q == FirstSeq + p
<1>2. q \in 0..(MODULUS - 1)
  BY <1>1
<1> HIDE DEF q
<1>3. q % MODULUS = q
  BY <1>1, <1>2, SMT
<1> QED  BY <1>3 DEF Wire, q

-----------------------------------------------------------------------------
LEMMA InitDelivery == Init => DeliveryInvariant
<1> SUFFICES ASSUME Init
             PROVE  DeliveryInvariant
  OBVIOUS
<1>1. ends = <<>> /\ sentSeq = 0 /\ Packets = {} /\ Written = 0
  BY DEF Init, sentSeq, Packets, Written, End
<1> QED
  BY <1>1, SocketAssumption
     DEF Init, DeliveryInvariant, EndsInOrder, CountedUpTo

\* Steps that leave the packets and ack_receiver alone.
LEMMA FrameDelivery ==
  ASSUME DeliveryInvariant, UNCHANGED <<ends, receiverVars, ccRuns, alive>>,
         Written + queued' <= StreamBytes
  PROVE  DeliveryInvariant'
<1>1. sentSeq' = sentSeq /\ Packets' = Packets /\ Written' = Written
  BY DEF sentSeq, Packets, Written, End
<1>2. EndsInOrder' /\ CountedUpTo'
  BY <1>1 DEF DeliveryInvariant, EndsInOrder, CountedUpTo, End, receiverVars
<1> QED  BY <1>1, <1>2 DEF DeliveryInvariant, receiverVars

LEMMA TransmitDelivery ==
  ASSUME SocketInvariant, DeliveryInvariant, Transmit
  PROVE  DeliveryInvariant'
<1> USE DEF SocketInvariant, DeliveryInvariant
<1> DEFINE size == IF queued < MTU THEN queued ELSE MTU
<1>1. /\ UNCHANGED <<receiverVars, ccRuns, alive>>
      /\ queued > 0 /\ queued' = queued - size /\ ends' = Append(ends, Written + size)
  BY DEF Transmit, SenderAt
<1>2. /\ size \in 1..MTU /\ size <= queued /\ queued \in Nat /\ MTU \in Nat
      /\ StreamBytes \in Nat
  BY <1>1, SocketAssumption DEF TypeOK
<1>3. Written \in Nat /\ sentSeq \in Nat /\ sentSeq \in 0..sentSeq
  BY Positions DEF Written, TypeOK, sentSeq
<1> HIDE DEF size
<1>4. /\ ends' \in Seq(Nat) /\ sentSeq' = sentSeq + 1
      /\ ends'[sentSeq + 1] = Written + size
      /\ \A k \in Packets : ends'[k] = ends[k]
      /\ Packets' = Packets \cup {sentSeq + 1}
  BY <1>1, <1>2, <1>3 DEF TypeOK, sentSeq, Packets
<1>5. \A k \in 0..sentSeq : End(k)' = End(k)
  BY <1>4 DEF End, Packets
<1>6. Written' = Written + size
  BY <1>3, <1>4 DEF Written, End
<1>7. EndsInOrder'
  <2>1. ASSUME NEW j \in 0..sentSeq
        PROVE  /\ End(j)' < ends'[sentSeq + 1]
               /\ ends'[sentSeq + 1] - End(j)' <= (sentSeq + 1 - j) * MTU
    <3>1. /\ End(j) \in Nat /\ End(j) <= Written
          /\ Written - End(j) <= (sentSeq - j) * MTU
      BY <1>3, Positions DEF Written
    <3>2. sentSeq - j \in Nat /\ (sentSeq - j) + 1 = sentSeq + 1 - j
      BY <1>3
    <3>3. /\ (sentSeq + 1 - j) * MTU = (sentSeq - j) * MTU + MTU
          /\ (sentSeq - j) * MTU \in Nat
      BY <1>2, <3>2, OneMore
    <3> QED  BY <1>2, <1>3, <1>4, <1>5, <3>1, <3>3
  <2>2. ASSUME NEW k \in Packets, NEW j \in 0..(k - 1)
        PROVE  End(j)' < ends'[k] /\ ends'[k] - End(j)' <= (k - j) * MTU
    <3>1. j \in 0..sentSeq /\ ends'[k] = ends[k]
      BY <1>3, <1>4 DEF Packets
    <3> QED  BY <1>5, <3>1 DEF EndsInOrder
  <2> QED  BY <1>3, <1>4, <2>1, <2>2 DEF EndsInOrder
<1>8. CountedUpTo'
  <2>1. UNCHANGED <<tcpSeq, rcvSeq, reported>> /\ rcvSeq \in Nat
    BY <1>1 DEF receiverVars, TypeOK
  <2>2. Written' >= Written /\ Written' \in Nat /\ tcpSeq - FirstSeq \in Int
    BY <1>2, <1>3, <1>6, SocketAssumption DEF TypeOK
  <2> QED  BY <1>3, <1>4, <1>5, <2>1, <2>2 DEF CountedUpTo
<1>9. Written' + queued' <= StreamBytes
  BY <1>1, <1>2, <1>3, <1>6
<1> QED  BY <1>1, <1>7, <1>8, <1>9 DEF receiverVars

\* ack_receiver changes no packet.
LEMMA ReceiverFrame ==
  ASSUME DeliveryInvariant, UNCHANGED senderVars
  PROVE  /\ sentSeq' = sentSeq /\ EndsInOrder' /\ Written' + queued' <= StreamBytes
         /\ \A k : End(k)' = End(k)
BY DEF DeliveryInvariant, EndsInOrder, Packets, Written, End, sentSeq, senderVars

LEMMA StartDelivery ==
  ASSUME NoWrap, SocketInvariant, DeliveryInvariant, NEW k \in Packets,
         OutgoingReport(k)
  PROVE  DeliveryInvariant'
<1> USE DEF SocketInvariant, DeliveryInvariant
<1>1. /\ UNCHANGED <<senderVars, rcvSeq>> /\ tcpSeq = 0 /\ tcpSeq' = Wire(End(k - 1))
      /\ alive' = ~ ccRuns /\ ccRuns' = TRUE
  BY DEF OutgoingReport
<1>2. rcvSeq = 0
  BY <1>1 DEF CountedUpTo
<1>3. k - 1 \in 0..sentSeq /\ sentSeq \in 0..sentSeq
  BY DEF Packets, TypeOK, sentSeq
<1>4. End(k - 1) \in Nat /\ End(k - 1) <= StreamBytes
  <2>1. /\ End(k - 1) \in Nat /\ Written \in Nat /\ End(k - 1) <= Written
    BY <1>3, Positions DEF Written
  <2> QED  BY <2>1, SocketAssumption DEF TypeOK
<1>5. tcpSeq' = FirstSeq + End(k - 1)
  BY <1>1, <1>4, WireIsPosition
<1>6. CountedUpTo'
  <2>1. /\ k - 1 \in 0..sentSeq' /\ End(k - 1)' = End(k - 1) /\ rcvSeq' = 0
        /\ Written' = Written
    BY <1>1, <1>2, <1>3, ReceiverFrame DEF Written
  <2>2. tcpSeq' - FirstSeq = End(k - 1) /\ End(k - 1) <= Written
    BY <1>3, <1>4, <1>5, Positions, SocketAssumption DEF Written
  <2>3. tcpSeq' - FirstSeq \in 0..Written'
    BY <1>3, <1>4, <2>1, <2>2, Positions DEF Written
  <2> QED  BY <1>4, <2>1, <2>2, <2>3 DEF CountedUpTo
<1>7. tcpSeq' # 0
  BY <1>4, <1>5, SocketAssumption DEF NoWrap
<1>8. alive'
  <2>1. ~ ccRuns
    BY <1>1
  <2> QED  BY <1>1, <2>1, Zenon
<1> QED  BY <1>1, <1>6, <1>7, <1>8, ReceiverFrame

LEMMA AckDelivery ==
  ASSUME NoWrap, SocketInvariant, DeliveryInvariant, NEW p \in 0..Written,
         NewAck(p) \/ OldAck(p)
  PROVE  DeliveryInvariant'
<1> USE DEF SocketInvariant, DeliveryInvariant
<1> DEFINE ack == Wire(p)
           q == tcpSeq - FirstSeq
<1>1. /\ HandleAck(p) /\ UNCHANGED <<senderVars, ccRuns, alive>>
      /\ \/ p > reported /\ reported' = p
         \/ p <= reported /\ reported' = reported
  BY DEF NewAck, OldAck, HandleAck
<1>2. /\ sentSeq \in Nat /\ MTU \in Nat \ {0} /\ StreamBytes \in Nat
      /\ FirstSeq \in Nat /\ MODULUS \in Nat \ {0} /\ reported \in Nat /\ rcvSeq \in Nat
      /\ tcpSeq \in Nat
  BY SocketAssumption DEF TypeOK, sentSeq
<1>3. Written \in Nat /\ Written <= StreamBytes /\ p \in Nat /\ p <= StreamBytes
  <2>1. Written \in Nat /\ queued \in Nat
    BY <1>2, Positions DEF Written, TypeOK
  <2> QED  BY <1>2, <2>1
<1>4. ack = FirstSeq + p
  BY <1>3, WireIsPosition
<1>5. reported <= reported' /\ p <= reported' /\ reported' \in Nat
  BY <1>1, <1>2, <1>3
<1>6. sentSeq' = sentSeq /\ Written' = Written /\ \A j : End(j)' = End(j)
  BY <1>1, ReceiverFrame DEF Written
<1> HIDE DEF ack
<1>7. CASE ~ Accepted(ack)
  <2>1. UNCHANGED <<tcpSeq, rcvSeq>>
    BY <1>1, <1>7 DEF HandleAck, ack
  <2>2. CountedUpTo'
    BY <1>2, <1>5, <1>6, <2>1 DEF CountedUpTo
  <2> QED  BY <1>1, <2>1, <2>2, ReceiverFrame
<1>8. CASE Accepted(ack)
  <2>1. tcpSeq > 0 /\ rcvSeq' = rcvSeq + Advance(ack) /\ tcpSeq' = ack
    BY <1>1, <1>8 DEF HandleAck, Accepted, ack
  <2>2. q \in 0..Written /\ q \in Nat /\ tcpSeq = FirstSeq + q
    BY <1>2, <1>3, <2>1 DEF CountedUpTo
  <2>3. PICK j \in rcvSeq..sentSeq : End(j) <= q
    BY <1>2, <2>1 DEF CountedUpTo
  <2> HIDE DEF q
  <2>4. ack >= tcpSeq
    <3> SUFFICES ASSUME ack < tcpSeq
                 PROVE  FALSE
      BY <1>2, <1>3, <1>4, <2>2
    <3>1. tcpSeq - ack <= StreamBytes
      BY <1>2, <1>3, <1>4, <2>2
    <3>2. tcpSeq - ack > MODULUS \div 2
      BY <1>2, <1>3, <1>4, <1>8, <2>2 DEF Accepted
    <3>3. MODULUS \div 2 \in Nat
      BY <1>2, DivNat
    <3> QED  BY <1>2, <1>3, <1>4, <2>2, <3>1, <3>2, <3>3 DEF NoWrap
  <2> DEFINE d == p - q
             n == d \div MTU
             l == sentSeq - j
  <2>5. d \in Nat /\ ack - tcpSeq = d
    BY <1>2, <1>3, <1>4, <2>2, <2>4
  <2>6. Advance(ack) = n
    BY <2>4, <2>5 DEF Advance
  <2>7. /\ j \in 0..sentSeq /\ l \in Nat /\ End(j) \in Nat
        /\ Written - End(j) <= l * MTU
    BY <1>2, <2>3, Positions DEF Written
  <2>8. d <= l * MTU
    BY <1>2, <1>3, <2>2, <2>3, <2>7, OneMore
  <2> HIDE DEF d
  <2>9. n \in Nat /\ n * MTU <= d
    BY <1>2, <2>5, WholePackets
  <2> HIDE DEF n
  <2>10. n <= l
    <3>1. n * MTU <= l * MTU
      BY <1>2, <2>5, <2>7, <2>8, <2>9, OneMore
    <3> QED  BY <1>2, <2>7, <2>9, <3>1, MultipleOrder
  <2>11. End(j + n) <= p /\ j + n \in rcvSeq'..sentSeq
    <3>1. j + n \in 0..sentSeq /\ (j + n) - j = n /\ j <= j + n
      BY <1>2, <2>7, <2>9, <2>10
    <3>2. End(j + n) \in Nat /\ End(j + n) - End(j) <= n * MTU
      BY <2>7, <3>1, Positions
    <3>3. n * MTU \in Nat /\ n * MTU <= p - q
      BY <1>2, <2>5, <2>9, OneMore DEF d
    <3>4. End(j + n) <= p
      BY <1>3, <2>2, <2>3, <2>7, <3>2, <3>3
    <3> QED  BY <1>2, <2>1, <2>3, <2>6, <2>9, <3>1, <3>4
  <2>12. tcpSeq' # 0 /\ tcpSeq' - FirstSeq = p
    BY <1>2, <1>3, <1>4, <2>1, <2>2, <2>4
  <2>13. CountedUpTo'
    BY <1>5, <1>6, <2>11, <2>12 DEF CountedUpTo
  <2> QED  BY <1>1, <2>12, <2>13, ReceiverFrame
<1> QED  BY <1>7, <1>8

-----------------------------------------------------------------------------
LEMMA NextDelivery ==
  ASSUME NoWrap
  PROVE  SocketInvariant /\ DeliveryInvariant /\ [Next]_vars => DeliveryInvariant'
<1> SUFFICES ASSUME SocketInvariant, DeliveryInvariant, [Next]_vars
             PROVE  DeliveryInvariant'
  OBVIOUS
<1>1. ASSUME NEW n \in Writes, alcc_send(n)
      PROVE  DeliveryInvariant'
  <2>1. /\ UNCHANGED <<ends, receiverVars, ccRuns, alive>>
        /\ Written + queued' <= StreamBytes
    <3>1. Written \in Nat /\ queued \in Nat /\ n \in Nat
      BY SocketAssumption DEF SocketInvariant, TypeOK, Written, End, sentSeq
    <3> QED  BY <1>1, <3>1 DEF alcc_send
  <2> QED  BY <2>1, FrameDelivery
<1>2. CASE Transmit
  BY <1>2, TransmitDelivery
<1>3. CASE \/ StartBatch \/ EndBatch \/ SpendPermit \/ CountInFlight \/ RecordTime
           \/ CC_logic \/ Dead \/ UNCHANGED vars
  <2>1. UNCHANGED <<ends, queued, receiverVars, ccRuns, alive>>
    BY <1>3 DEF Dead, StartBatch, EndBatch, SpendPermit, CountInFlight, RecordTime, SenderAt,
                CC_logic, LoadInFlight, LoadTempS, Load, AddPermits, vars, senderVars
  <2> QED  BY <2>1, FrameDelivery DEF DeliveryInvariant
<1>4. ASSUME NEW k \in Packets, OutgoingReport(k)
      PROVE  DeliveryInvariant'
  BY <1>4, StartDelivery
<1>5. ASSUME NEW p \in 0..Written, NewAck(p) \/ OldAck(p)
      PROVE  DeliveryInvariant'
  BY <1>5, AckDelivery
<1>6. 1..Written \subseteq 0..Written
  OBVIOUS
<1> QED  BY <1>1, <1>2, <1>3, <1>4, <1>5, <1>6 DEF Next, Sender

\* The inductive invariant of the receiver's count holds while no sequence
\* number wraps.
THEOREM DeliveryHolds ==
  ASSUME NoWrap
  PROVE  Spec => []DeliveryInvariant
<1>1. Spec => []SocketInvariant
  BY InvariantHolds
<1> QED  BY <1>1, InitDelivery, NextDelivery, PTL DEF Spec

\* rcvSeq never counts a packet whose bytes were not all acknowledged, whatever
\* was repeated, reordered or lost.
THEOREM OnlyDelivered ==
  ASSUME NoWrap
  PROVE  Spec => []CountsOnlyDelivered
<1>1. SocketInvariant /\ DeliveryInvariant => CountsOnlyDelivered
  <2> SUFFICES ASSUME SocketInvariant, DeliveryInvariant
               PROVE  CountsOnlyDelivered
    OBVIOUS
  <2> DEFINE D == {k \in Packets : ends[k] <= reported}
  <2>1. sentSeq \in Nat /\ rcvSeq \in Nat /\ reported \in Nat
    BY DEF SocketInvariant, TypeOK, sentSeq
  <2>2. 1..rcvSeq \subseteq D
    <3>1. CASE rcvSeq = 0
      BY <3>1
    <3>2. CASE rcvSeq # 0
      <4>1. PICK j \in 0..sentSeq : rcvSeq <= j /\ End(j) <= reported
        <5>1. tcpSeq # 0 /\ tcpSeq - FirstSeq \in Int /\ tcpSeq - FirstSeq <= reported
          BY <2>1, <3>2, SocketAssumption
             DEF DeliveryInvariant, CountedUpTo, SocketInvariant, TypeOK
        <5>2. PICK j \in rcvSeq..sentSeq : End(j) <= tcpSeq - FirstSeq
          BY <5>1 DEF DeliveryInvariant, CountedUpTo
        <5>3. j \in 0..sentSeq /\ End(j) \in Nat
          BY <2>1, <5>2, EndIsNat DEF SocketInvariant
        <5> QED  BY <2>1, <5>1, <5>2, <5>3
      <4> SUFFICES ASSUME NEW k \in 1..rcvSeq
                   PROVE  k \in Packets /\ ends[k] <= reported
        OBVIOUS
      <4>2. k \in Packets /\ k \in 0..sentSeq /\ k <= j /\ End(k) = ends[k]
        BY <2>1, <4>1 DEF Packets, End
      <4>3. End(k) <= End(j) /\ End(k) \in Nat /\ End(j) \in Nat
        BY <4>2, Positions DEF SocketInvariant, DeliveryInvariant
      <4> QED  BY <2>1, <4>1, <4>2, <4>3
    <3> QED  BY <3>1, <3>2
  <2>3. D \in SUBSET (1..sentSeq) /\ IsFiniteSet(1..sentSeq)
    BY <2>1, FS_Interval DEF Packets
  <2>4. Cardinality(1..rcvSeq) = rcvSeq
    BY <2>1, FS_Interval
  <2>5. (1..rcvSeq) \in SUBSET D
    BY <2>2
  <2> HIDE DEF D
  <2>6. IsFiniteSet(D)
    BY <2>3, FS_Subset, Zenon
  <2>7. Cardinality(1..rcvSeq) <= Cardinality(D)
    BY <2>5, <2>6, FS_Subset, Zenon
  <2> QED  BY <2>4, <2>7 DEF CountsOnlyDelivered, AckedPackets, D
<1>2. Spec => []SocketInvariant
  BY InvariantHolds
<1> QED  BY <1>1, <1>2, DeliveryHolds, PTL

-----------------------------------------------------------------------------
(* Starting twice, for any constants.                                      *)

\* No packet ends behind the last one.
EndsBelow == \A k \in 0..sentSeq : End(k) <= Written

Numbered == AtSomePosition /\ DiesOnlyAtZero /\ EndsBelow

LEMMA InitNumbered == Init => Numbered
<1> SUFFICES ASSUME Init
             PROVE  Numbered
  OBVIOUS
<1>1. alive /\ ~ ccRuns
  BY DEF Init
<1>2. EndsBelow
  BY DEF Init, EndsBelow, sentSeq, End, Written
<1> QED  BY <1>1, <1>2 DEF Numbered, AtSomePosition, DiesOnlyAtZero

\* Steps that leave ack_receiver alone; the stream may grow.
LEMMA FrameNumbered ==
  ASSUME Numbered, UNCHANGED <<tcpSeq, ccRuns, alive>>,
         0..Written \subseteq 0..Written', EndsBelow'
  PROVE  Numbered'
BY DEF Numbered, AtSomePosition, DiesOnlyAtZero, Wire

LEMMA NextNumbered == SocketInvariant /\ Numbered /\ [Next]_vars => Numbered'
<1> SUFFICES ASSUME SocketInvariant, Numbered, [Next]_vars
             PROVE  Numbered'
  OBVIOUS
<1> USE DEF SocketInvariant
<1>1. CASE Transmit
  <2> DEFINE size == IF queued < MTU THEN queued ELSE MTU
  <2>1. /\ ends' = Append(ends, Written + size) /\ UNCHANGED <<tcpSeq, ccRuns, alive>>
        /\ size \in Nat /\ ends \in Seq(Nat) /\ Written \in Nat
    BY <1>1, SocketAssumption
       DEF Transmit, SenderAt, receiverVars, TypeOK, Written, End, sentSeq
  <2> HIDE DEF size
  <2>2. Written' = Written + size
    BY <2>1 DEF Written, End, sentSeq
  <2>3. 0..Written \subseteq 0..Written'
    BY <2>1, <2>2
  <2>4. EndsBelow'
    <3>1. sentSeq \in Nat /\ sentSeq' = sentSeq + 1
      BY <2>1 DEF sentSeq
    <3>2. ASSUME NEW k \in 0..sentSeq
          PROVE  End(k)' = End(k) /\ End(k) \in Nat /\ End(k) <= Written
      BY <2>1, <3>1, EndIsNat DEF End, sentSeq, Numbered, EndsBelow
    <3>3. ASSUME NEW k \in 0..sentSeq'
          PROVE  End(k)' <= Written'
      <4>1. CASE k = sentSeq'
        BY <2>1, <2>2, <4>1 DEF Written
      <4>2. CASE k # sentSeq'
        <5>1. k \in 0..sentSeq
          BY <3>1, <3>3, <4>2
        <5>2. End(k)' = End(k) /\ End(k) \in Nat /\ End(k) <= Written
          BY <3>2, <5>1
        <5> QED  BY <2>1, <2>2, <5>2
      <4> QED  BY <4>1, <4>2
    <3> QED  BY <3>3 DEF EndsBelow
  <2> QED  BY <2>1, <2>3, <2>4, FrameNumbered
<1>2. ASSUME NEW k \in Packets, OutgoingReport(k)
      PROVE  Numbered'
  <2>1. /\ tcpSeq = 0 /\ tcpSeq' = Wire(End(k - 1)) /\ alive' = ~ ccRuns
        /\ Written' = Written
    BY <1>2 DEF OutgoingReport, senderVars, Written, End, sentSeq
  <2>2. \E p \in 0..Written' : tcpSeq' = Wire(p)'
    <3>1. k - 1 \in 0..sentSeq /\ sentSeq \in 0..sentSeq /\ sentSeq \in Nat
      BY DEF Packets, TypeOK, sentSeq
    <3>2. End(k - 1) \in 0..Written
      BY <3>1, EndIsNat DEF Written, Numbered, EndsBelow
    <3> QED  BY <2>1, <3>2 DEF Wire
  <2>3. ccRuns => \E p \in 0..Written' : Wire(p)' = 0
    BY <2>1 DEF Numbered, AtSomePosition, Wire
  <2>4. ~ alive' => \E p \in 0..Written' : Wire(p)' = 0
    BY <2>1, <2>3, Zenon
  <2>5. EndsBelow'
    BY <1>2 DEF OutgoingReport, senderVars, Numbered, EndsBelow, Written, End, sentSeq
  <2> QED  BY <2>2, <2>4, <2>5 DEF Numbered, AtSomePosition, DiesOnlyAtZero
<1>3. ASSUME NEW p \in 0..Written, NewAck(p) \/ OldAck(p)
      PROVE  Numbered'
  <2>1. /\ UNCHANGED <<ccRuns, alive>> /\ Written' = Written
        /\ tcpSeq' = tcpSeq \/ tcpSeq' = Wire(p)
    BY <1>3 DEF NewAck, OldAck, HandleAck, senderVars, Written, End, sentSeq
  <2>2. Wire(p)' = Wire(p)
    BY DEF Wire
  <2>3. AtSomePosition'
    BY <2>1, <2>2 DEF Numbered, AtSomePosition, Wire
  <2>4. DiesOnlyAtZero'
    BY <2>1 DEF Numbered, DiesOnlyAtZero, Wire
  <2>5. EndsBelow'
    BY <1>3 DEF NewAck, OldAck, HandleAck, senderVars, Numbered, EndsBelow, Written, End,
                sentSeq
  <2> QED  BY <2>3, <2>4, <2>5 DEF Numbered
<1>4. CASE \/ \E n \in Writes : alcc_send(n)
           \/ StartBatch \/ EndBatch \/ SpendPermit \/ CountInFlight \/ RecordTime
           \/ CC_logic \/ Dead \/ UNCHANGED vars
  <2>1. UNCHANGED <<ends, tcpSeq, ccRuns, alive>>
    BY <1>4
       DEF alcc_send, StartBatch, EndBatch, SpendPermit, CountInFlight, RecordTime,
           SenderAt, CC_logic, LoadInFlight, LoadTempS, Load, AddPermits, Dead, vars,
           senderVars, receiverVars
  <2>2. Written' = Written /\ EndsBelow'
    BY <2>1 DEF Numbered, EndsBelow, Written, End, sentSeq
  <2> QED  BY <2>1, <2>2, FrameNumbered
<1>5. 1..Written \subseteq 0..Written
  OBVIOUS
<1> QED  BY <1>1, <1>2, <1>3, <1>4, <1>5 DEF Next, Sender

\* Whatever the constants, the order of reports and acknowledgements and the
\* packets: a second start of CC_logic, which ends the process, needs a stream
\* that reaches the byte numbered 0.
THEOREM DeathNeedsZero == Spec => []DiesOnlyAtZero
<1>1. Spec => []SocketInvariant
  BY InvariantHolds
<1>2. Numbered => DiesOnlyAtZero
  BY DEF Numbered
<1> QED  BY <1>1, <1>2, InitNumbered, NextNumbered, PTL DEF Spec

-----------------------------------------------------------------------------
(* Across wraps: every packet is full, and the two windows and one packet  *)
(* that WindowBound allows take less than half of the circle.              *)

FullAcrossWraps ==
    /\ \A n \in Writes : n % MTU = 0
    /\ (2 * CWND + 1) * MTU < MODULUS \div 2

\* Laps and the rest.
LEMMA LapAndRest ==
  ASSUME NEW a \in Nat, NEW m \in Nat \ {0}
  PROVE  /\ a % m \in 0..(m - 1) /\ a \div m \in Nat
         /\ a = (a \div m) * m + (a % m) /\ (a \div m) * m \in Nat
BY SMT

LEMMA WholeMultiple ==
  ASSUME NEW n \in Nat, NEW m \in Nat \ {0}
  PROVE  (n * m) \div m = n /\ n * m \in Nat
BY SMT

LEMMA ProductOrder ==
  ASSUME NEW a \in Nat, NEW b \in Nat, NEW m \in Nat, a <= b
  PROVE  /\ a * m <= b * m /\ b * m - a * m = (b - a) * m
         /\ a * m \in Nat /\ b * m \in Nat /\ (b - a) * m \in Nat
<1> DEFINE c == b - a
<1>1. c \in Nat /\ b = a + c
  OBVIOUS
<1> HIDE DEF c
<1>2. b * m = a * m + c * m /\ a * m \in Nat /\ c * m \in Nat
  BY <1>1, SMT
<1> QED  BY <1>2 DEF c

\* Adding or removing whole packets leaves whole packets.
LEMMA WholeSum ==
  ASSUME NEW a \in Nat, NEW b \in Nat, NEW m \in Nat \ {0}, a % m = 0, b % m = 0
  PROVE  (a + b) % m = 0
<1> DEFINE p == a \div m
           q == b \div m
<1>1. p \in Nat /\ q \in Nat /\ a = p * m /\ b = q * m
  BY LapAndRest
<1> HIDE DEF p, q
<1>2. a + b = (p + q) * m
  BY <1>1, SMT
<1>3. \A n \in Nat : (n * m) % m = 0
  BY SMT
<1> QED  BY <1>1, <1>2, <1>3

LEMMA WholeLess ==
  ASSUME NEW a \in Nat \ {0}, NEW m \in Nat \ {0}, a % m = 0
  PROVE  a >= m /\ (a - m) % m = 0
<1> DEFINE p == a \div m
<1>1. p \in Nat /\ a = p * m
  BY LapAndRest
<1> HIDE DEF p
<1>2. p # 0
  BY <1>1, SMT
<1> DEFINE q == p - 1
<1>3. q \in Nat /\ p = q + 1
  BY <1>1, <1>2
<1> HIDE DEF q
<1>4. a = q * m + m /\ q * m \in Nat
  BY <1>1, <1>3, OneMore
<1>5. (q * m) % m = 0
  BY <1>3, SMT
<1>6. a - m = q * m
  BY <1>4
<1> QED  BY <1>4, <1>5, <1>6

\* Going forward by less than half of the circle, the difference of the numbers
\* on the wire tells the distance, and an earlier number is a wrapped one.
LEMMA ForwardOnCircle ==
  ASSUME NEW m \in Nat \ {0}, NEW x \in Nat, NEW y \in Nat,
         x <= y, y - x < m \div 2
  PROVE  /\ y % m >= x % m => (y % m) - (x % m) = y - x
         /\ y % m < x % m => /\ m - (x % m) + (y % m) = y - x
                             /\ (x % m) - (y % m) > m \div 2
<1> DEFINE a == y % m
           t == x % m
           l == x \div m
           n == y \div m
           h == m \div 2
<1>1. t \in 0..(m - 1) /\ l \in Nat /\ x = l * m + t /\ l * m \in Nat
  BY LapAndRest
<1>2. a \in 0..(m - 1) /\ n \in Nat /\ y = n * m + a /\ n * m \in Nat
  BY LapAndRest
<1>3. h \in Nat /\ h + h <= m
  BY SMT
<1> HIDE DEF a, t, l, n, h
<1>4. y - x < h
  BY DEF h
<1>5. ASSUME n = l
      PROVE  /\ a >= t
             /\ a - t = y - x
  BY <1>1, <1>2, <1>5
<1>6. ASSUME n = l + 1
      PROVE  /\ a < t /\ t - a > h
             /\ m - t + a = y - x
  <2>1. n * m = l * m + m
    BY <1>1, <1>6, OneMore
  <2>2. m - t + a = y - x
    BY <1>1, <1>2, <2>1
  <2>3. a < t /\ t - a > h
    BY <1>1, <1>2, <1>3, <1>4, <2>2
  <2> QED  BY <2>2, <2>3
<1>7. ASSUME n < l
      PROVE  FALSE
  <2>1. n + 1 <= l /\ (n + 1) * m = n * m + m /\ n + 1 \in Nat
    BY <1>1, <1>2, <1>7, OneMore
  <2>2. (n + 1) * m <= l * m
    BY <1>1, <1>2, <2>1, ProductOrder
  <2> QED  BY <1>1, <1>2, <2>1, <2>2
<1>8. ASSUME n > l + 1
      PROVE  FALSE
  <2>1. (l + 1) * m = l * m + m /\ (l + 1 + 1) * m = (l + 1) * m + m
    BY <1>1, OneMore
  <2>2. (l + 1 + 1) * m <= n * m
    BY <1>1, <1>2, <1>8, ProductOrder
  <2> QED  BY <1>1, <1>2, <1>3, <1>4, <2>1, <2>2
<1>9. /\ a >= t => a - t = y - x
      /\ a < t => m - t + a = y - x /\ t - a > h
  BY <1>1, <1>2, <1>5, <1>6, <1>7, <1>8
<1> QED  BY <1>9 DEF a, t, h

\* Two stretches of the stream hold as many whole packets as both together,
\* or one fewer if the point between them is inside a packet.
LEMMA SplitPackets ==
  ASSUME NEW a \in Nat, NEW p \in Nat, NEW m \in Nat \ {0}, a <= p
  PROVE  LET e == (p \div m) - (a \div m) - ((p - a) \div m)
         IN  e \in {0, 1} /\ (a % m = 0 => e = 0)
<1> DEFINE A == a \div m
           P == p \div m
           D == (p - a) \div m
           r == a % m
           t == p % m
           d == (p - a) % m
           e == P - A - D
<1>1. r \in 0..(m - 1) /\ A \in Nat /\ a = A * m + r
  BY LapAndRest
<1>2. t \in 0..(m - 1) /\ P \in Nat /\ p = P * m + t
  BY LapAndRest
<1>3. p - a \in Nat
  OBVIOUS
<1>4. d \in 0..(m - 1) /\ D \in Nat /\ p - a = D * m + d
  BY <1>3, LapAndRest
<1> HIDE DEF A, P, D, r, t, d
<1>5. e \in Int /\ P = A + D + e
  BY <1>1, <1>2, <1>4
<1> HIDE DEF e
<1>6. P * m = A * m + D * m + e * m /\ e * m \in Int
  BY <1>1, <1>2, <1>4, <1>5, SMT
<1>7. e * m = r + d - t
  <2>1. A * m \in Int /\ D * m \in Int /\ P * m \in Int
    BY <1>1, <1>2, <1>4, OneMore
  <2> QED  BY <1>1, <1>2, <1>4, <1>6, <2>1
<1>8. e * m < 2 * m /\ e * m > 0 - m
  BY <1>1, <1>2, <1>4, <1>7
<1>9. e < 2 /\ e > -1
  BY <1>5, <1>8, SMT
<1>10. e \in {0, 1}
  BY <1>5, <1>9
<1>11. r = 0 => e = 0
  BY <1>1, <1>2, <1>4, <1>7, <1>10
<1> QED  BY <1>10, <1>11 DEF e, A, P, D, r

\* k whole packets fit up to a if and only if k is at most a \div m.
LEMMA PacketsUpTo ==
  ASSUME NEW k \in Nat, NEW a \in Nat, NEW m \in Nat \ {0}
  PROVE  k * m <= a <=> k <= a \div m
<1> DEFINE A == a \div m
           r == a % m
<1>1. r \in 0..(m - 1) /\ A \in Nat /\ a = A * m + r /\ A * m \in Nat
  BY LapAndRest
<1> HIDE DEF A, r
<1>2. k <= A => k * m <= A * m /\ k * m \in Nat
  BY <1>1, ProductOrder
<1>3. A + 1 <= k => (A + 1) * m <= k * m /\ (A + 1) * m = A * m + m /\ k * m \in Nat
  BY <1>1, ProductOrder, OneMore
<1> QED  BY <1>1, <1>2, <1>3 DEF A

\* Positions of a stream of full packets.
LEMMA FullPositions ==
  ASSUME TypeOK, ExactInvariant
  PROVE  /\ \A k \in 0..sentSeq : End(k) = k * MTU
         /\ Written = sentSeq * MTU /\ Written \in Nat
         /\ sentSeq \in Nat /\ rcvSeq \in Nat /\ MTU \in Nat \ {0}
         /\ reported \in Nat /\ StreamBytes \in Nat /\ Written <= StreamBytes
<1>1. /\ sentSeq \in Nat /\ rcvSeq \in Nat /\ MTU \in Nat \ {0}
      /\ StreamBytes \in Nat /\ queued \in Nat /\ reported \in Nat
  BY SocketAssumption DEF TypeOK, ExactInvariant, sentSeq
<1>2. 0 * MTU = 0
  BY <1>1
<1>3. ASSUME NEW k \in 0..sentSeq
      PROVE  End(k) = k * MTU
  BY <1>1, <1>2, <1>3 DEF ExactInvariant, End, Packets
<1>4. Written = sentSeq * MTU /\ Written \in Nat
  BY <1>1, <1>3, OneMore DEF Written
<1>5. Written <= StreamBytes
  BY <1>1, <1>4 DEF ExactInvariant
<1> QED  BY <1>1, <1>3, <1>4, <1>5

\* What is sent and not acknowledged is less than half of the circle.
LEMMA InHalfCircle ==
  ASSUME FullAcrossWraps, SocketInvariant, ExactInvariant, ccRuns, Led
  PROVE  Written - reported < MODULUS \div 2
<1> USE DEF SocketInvariant
<1>1. /\ sentSeq \in Nat /\ rcvSeq \in Nat /\ rcvSeqLast \in Nat /\ CWND \in Nat
      /\ MTU \in Nat \ {0} /\ MODULUS \in Nat \ {0} /\ reported \in Nat
      /\ pktsInFlight \in Int /\ tempS \in Int /\ sPkts \in Nat
  BY SocketAssumption DEF TypeOK, sentSeq
<1>2. sentSeq - rcvSeqLast <= Committed
  <2>1. CASE pc = "sent"
    <3>1. tempS >= 1 /\ pktsInFlight = sentSeq - 1 - rcvSeqLast
      BY <1>1, <2>1
         DEF PermitsCoverBatch, BatchOpen, InFlightAccounting, Counted
    <3> QED  BY <1>1, <2>1, <3>1 DEF Committed
  <2>2. CASE pc = "spent"
    <3>1. tempS >= 0 /\ pktsInFlight = sentSeq - 1 - rcvSeqLast
      BY <1>1, <2>2
         DEF PermitsCoverBatch, BatchOpen, InFlightAccounting, Counted
    <3> QED  BY <1>1, <2>2, <3>1 DEF Committed
  <2>3. CASE pc \notin {"sent", "spent"}
    <3>1. tempS >= 0 /\ pktsInFlight = sentSeq - rcvSeqLast
      BY <1>1, <2>3
         DEF PermitsCoverBatch, BatchOpen, InFlightAccounting, Counted
    <3> QED  BY <1>1, <2>3, <3>1 DEF Committed
  <2> QED  BY <2>1, <2>2, <2>3
<1>3. Committed \in Int /\ Committed <= 2 * CWND + 1 /\ rcvSeqLast <= rcvSeq
  BY <1>1 DEF Committed, WindowBound, SettledInOrder
<1>4. rcvSeqLast <= sentSeq
  BY <1>1 DEF SettledInOrder, Recorded
<1> DEFINE d == sentSeq - rcvSeqLast
           w == 2 * CWND + 1
<1>5. d \in Nat /\ w \in Nat /\ d <= w
  BY <1>1, <1>2, <1>3, <1>4
<1>6. w * MTU < MODULUS \div 2
  BY DEF FullAcrossWraps
<1>7. MODULUS \div 2 \in Nat
  BY <1>1, DivNat
<1>8. /\ sentSeq * MTU - rcvSeqLast * MTU = d * MTU
      /\ rcvSeqLast * MTU \in Nat /\ sentSeq * MTU \in Nat
  BY <1>1, <1>4, ProductOrder
<1> HIDE DEF d, w
<1>9. d * MTU <= w * MTU /\ d * MTU \in Nat /\ w * MTU \in Nat
  BY <1>1, <1>5, ProductOrder
<1>10. rcvSeqLast * MTU <= reported
  <2>1. rcvSeq <= reported \div MTU
    BY DEF ExactInvariant, Led
  <2>2. reported \div MTU \in Nat
    BY <1>1, DivNat
  <2>3. rcvSeqLast <= reported \div MTU
    BY <1>1, <1>3, <2>1, <2>2
  <2> QED  BY <1>1, <2>3, PacketsUpTo
<1>11. Written = sentSeq * MTU
  BY FullPositions
<1> QED  BY <1>1, <1>6, <1>7, <1>8, <1>9, <1>10, <1>11

\* An acknowledgement of the first p bytes, no older than the last, is taken, and
\* counts the whole packets between the two, on either side of a wrap.
LEMMA AdvanceExact ==
  ASSUME FullAcrossWraps, SocketInvariant, ExactInvariant, ccRuns, Led,
         NEW p \in reported..Written
  PROVE  Accepted(Wire(p)) /\ Advance(Wire(p)) = (p - reported) \div MTU
<1> USE DEF SocketInvariant
<1>1. reported \in Nat /\ Written \in Nat /\ p \in Nat
  BY FullPositions
<1>2. FirstSeq \in Nat /\ MODULUS \in Nat \ {0}
  BY SocketAssumption
<1> DEFINE d == p - reported
           x == FirstSeq + reported
           y == FirstSeq + p
           a == Wire(p)
<1>3. x \in Nat /\ y \in Nat /\ x <= y /\ y - x = d /\ d \in Nat
  BY <1>1, <1>2
<1>4. y - x < MODULUS \div 2
  <2>1. Written - reported < MODULUS \div 2 /\ MODULUS \div 2 \in Nat
    BY <1>2, InHalfCircle, DivNat
  <2> QED  BY <1>1, <1>2, <2>1
<1>5. tcpSeq = x % MODULUS /\ a = y % MODULUS /\ tcpSeq # 0
  BY DEF ExactInvariant, Wire, Led
<1> HIDE DEF x, y, d
<1>6. a \in Nat /\ tcpSeq \in Nat /\ tcpSeq > 0
  BY <1>2, <1>3, <1>5, LapAndRest
<1>7. /\ a >= tcpSeq => a - tcpSeq = d
      /\ a < tcpSeq => MODULUS - tcpSeq + a = d /\ tcpSeq - a > MODULUS \div 2
  <2>1. /\ y % MODULUS >= x % MODULUS => (y % MODULUS) - (x % MODULUS) = y - x
        /\ y % MODULUS < x % MODULUS =>
              /\ MODULUS - (x % MODULUS) + (y % MODULUS) = y - x
              /\ (x % MODULUS) - (y % MODULUS) > MODULUS \div 2
    BY <1>2, <1>3, <1>4, ForwardOnCircle
  <2> QED  BY <1>3, <1>5, <2>1
<1> HIDE DEF a
<1>8. Accepted(a)
  BY <1>6, <1>7 DEF Accepted
<1>9. Advance(a) = d \div MTU
  BY <1>6, <1>7 DEF Advance
<1> QED  BY <1>8, <1>9 DEF a, d

LEMMA InitExact == Init => ExactInvariant
<1> SUFFICES ASSUME Init
             PROVE  ExactInvariant
  OBVIOUS
<1>1. /\ ends = <<>> /\ sentSeq = 0 /\ Packets = {} /\ Written = 0
      /\ queued = 0 /\ rcvSeq = 0 /\ reported = 0 /\ tempS = 1 /\ pc = "test"
      /\ tcpSeq = 0 /\ loaded = {} /\ cuts = 0
  BY DEF Init, sentSeq, Packets, Written, End
<1>2. ~ ccRuns
  BY DEF Init
<1>3. 0 % MTU = 0 /\ 0 \div MTU = 0 /\ StreamBytes \in Nat
  BY SocketAssumption
<1>4. OnePermit
  BY <1>1 DEF OnePermit
<1> QED  BY <1>1, <1>2, <1>3, <1>4 DEF ExactInvariant

\* The last part of ExactInvariant.
Follows == IF ccRuns THEN Led => tcpSeq = Wire(reported) /\ WithinCuts
                     ELSE /\ tcpSeq = 0 /\ rcvSeq = 0 /\ reported = 0
                          /\ loaded = {} /\ OnePermit

\* Steps that leave ack_receiver and CC_logic alone.
LEMMA FrameFollows ==
  ASSUME ExactInvariant, UNCHANGED <<receiverVars, ccRuns, alive, historyVars>>,
         ccRuns \/ (loaded' = loaded /\ OnePermit')
  PROVE  Follows' /\ cuts' = cuts /\ (wentBack' \/ rcvSeq' <= reported' \div MTU)
<1>1. /\ tcpSeq' = tcpSeq /\ rcvSeq' = rcvSeq /\ reported' = reported /\ cuts' = cuts
      /\ ccRuns' = ccRuns /\ wentBack' = wentBack /\ alive' = alive
  BY DEF receiverVars, historyVars
<1>2. Led' <=> Led
  BY <1>1, SMT DEF Led
<1>3. wentBack' \/ rcvSeq' <= reported' \div MTU
  BY <1>1 DEF ExactInvariant
<1>4. CASE ccRuns
  <2>1. WithinCuts' <=> WithinCuts
    BY <1>1 DEF WithinCuts
  <2>2. Led' => tcpSeq' = Wire(reported)' /\ WithinCuts'
    BY <1>1, <1>2, <1>4, <2>1 DEF ExactInvariant, Wire
  <2> QED  BY <1>1, <1>3, <1>4, <2>2 DEF Follows
<1>5. CASE ~ ccRuns
  BY <1>1, <1>3, <1>5 DEF ExactInvariant, Follows
<1> QED  BY <1>4, <1>5

LEMMA FrameExact ==
  ASSUME ExactInvariant,
         UNCHANGED <<ends, receiverVars, ccRuns, alive, historyVars>>,
         Written + queued' <= StreamBytes, queued' % MTU = 0,
         ccRuns \/ (loaded' = loaded /\ OnePermit')
  PROVE  ExactInvariant'
<1>1. sentSeq' = sentSeq /\ Packets' = Packets /\ Written' = Written
  BY DEF sentSeq, Packets, Written, End
<1>2. \A k \in Packets' : ends'[k] = k * MTU
  BY <1>1 DEF ExactInvariant
<1>3. Follows' /\ cuts' = cuts /\ (wentBack' \/ rcvSeq' <= reported' \div MTU)
  BY FrameFollows
<1>4. reported' <= Written' /\ cuts' \in Nat
  BY <1>1, <1>3 DEF ExactInvariant, receiverVars
<1> QED  BY <1>1, <1>2, <1>3, <1>4 DEF ExactInvariant, Follows

\* The steps of pkt_sender between the packets.
LEMMA SenderExact ==
  ASSUME SocketInvariant, ExactInvariant,
         StartBatch \/ EndBatch \/ SpendPermit \/ CountInFlight \/ RecordTime
  PROVE  ExactInvariant'
<1>1. UNCHANGED <<queued, ends, receiverVars, ccVars, ccRuns, alive, historyVars>>
  BY DEF StartBatch, EndBatch, SpendPermit, CountInFlight, RecordTime, SenderAt
<1>2. \/ pc = "sent" /\ pc' = "spent" /\ tempS' = tempS - 1
      \/ pc # "sent" /\ pc' # "sent" /\ tempS' = tempS
  BY DEF StartBatch, EndBatch, SpendPermit, CountInFlight, RecordTime, SenderAt,
         sharedVars
<1>3. sentSeq' = sentSeq /\ sentSeq \in Nat /\ tempS \in Int
  BY <1>1 DEF SocketInvariant, TypeOK, sentSeq
<1>4. OnePermit => OnePermit'
  BY <1>2, <1>3 DEF OnePermit
<1>5. ccRuns \/ (loaded' = loaded /\ OnePermit')
  BY <1>1, <1>4 DEF ExactInvariant, ccVars
<1> QED  BY <1>1, <1>5, FrameExact DEF ExactInvariant

LEMMA TransmitExact ==
  ASSUME SocketInvariant, ExactInvariant, Transmit
  PROVE  ExactInvariant'
<1>1. /\ UNCHANGED <<receiverVars, ccVars, sharedVars, ccRuns, alive, historyVars>>
      /\ pc = "take" /\ pc' = "sent" /\ queued > 0
  BY DEF Transmit, SenderAt
<1>2. queued \in Nat \ {0} /\ queued % MTU = 0 /\ ends \in Seq(Nat)
  BY <1>1 DEF SocketInvariant, TypeOK, ExactInvariant
<1>3. /\ Written = sentSeq * MTU /\ sentSeq \in Nat /\ Written \in Nat
      /\ MTU \in Nat \ {0} /\ StreamBytes \in Nat
  BY FullPositions DEF SocketInvariant
<1>4. queued >= MTU /\ (queued - MTU) % MTU = 0
  BY <1>2, <1>3, WholeLess
<1>5. queued' = queued - MTU /\ ends' = Append(ends, Written + MTU)
  BY <1>2, <1>3, <1>4 DEF Transmit
<1>6. (sentSeq + 1) * MTU = Written + MTU
  BY <1>3, OneMore
<1>7. /\ sentSeq' = sentSeq + 1 /\ ends'[sentSeq + 1] = Written + MTU
      /\ \A k \in Packets : ends'[k] = ends[k]
      /\ Packets' = Packets \cup {sentSeq + 1}
  BY <1>2, <1>3, <1>5, <1>6 DEF sentSeq, Packets
<1>8. \A k \in Packets' : ends'[k] = k * MTU
  BY <1>6, <1>7 DEF ExactInvariant
<1>9. Written' = Written + MTU
  BY <1>3, <1>7 DEF Written, End
<1>10. Written' + queued' <= StreamBytes /\ queued' % MTU = 0
  BY <1>2, <1>3, <1>4, <1>5, <1>9 DEF ExactInvariant
<1>11. OnePermit => OnePermit'
  BY <1>1, <1>3, <1>7 DEF OnePermit, sharedVars, SocketInvariant, TypeOK
<1>12. ccRuns \/ (loaded' = loaded /\ OnePermit')
  BY <1>1, <1>11 DEF ExactInvariant, ccVars
<1>13. Follows' /\ cuts' = cuts /\ (wentBack' \/ rcvSeq' <= reported' \div MTU)
  BY <1>1, <1>12, FrameFollows
<1>14. reported' <= Written' /\ cuts' \in Nat
  <2>1. reported' = reported /\ reported \in Nat
    BY <1>1 DEF receiverVars, SocketInvariant, TypeOK
  <2> QED  BY <1>3, <1>9, <1>13, <2>1 DEF ExactInvariant
<1> QED  BY <1>8, <1>10, <1>13, <1>14 DEF ExactInvariant, Follows

\* The first report is that of the first packet: there is one permit.  Any
\* later one that is taken ends the process.
LEMMA StartExact ==
  ASSUME SocketInvariant, ExactInvariant, NEW k \in Packets, OutgoingReport(k)
  PROVE  ExactInvariant'
<1>1. /\ UNCHANGED <<senderVars, rcvSeq, reported, ccVars, sharedVars, historyVars>>
      /\ tcpSeq' = Wire(End(k - 1)) /\ ccRuns'
  BY DEF OutgoingReport
<1>2. /\ sentSeq' = sentSeq /\ Packets' = Packets /\ Written' = Written
      /\ queued' = queued /\ ends' = ends /\ cuts' = cuts /\ wentBack' = wentBack
  BY <1>1 DEF sentSeq, Packets, Written, End, senderVars, historyVars
<1>3. CASE ccRuns
  <2>1. ~ alive'
    BY <1>3, Zenon DEF OutgoingReport
  <2>2. ~ Led'
    BY <2>1 DEF Led
  <2> QED  BY <1>1, <1>2, <2>2 DEF ExactInvariant
<1>4. CASE ~ ccRuns
  <2>1. rcvSeq = 0 /\ reported = 0 /\ OnePermit
    BY <1>4 DEF ExactInvariant
  <2>2. sentSeq <= 1 /\ sentSeq \in Nat
    BY <2>1 DEF OnePermit, SocketInvariant, PermitsCoverBatch, BatchOpen, TypeOK, sentSeq
  <2>3. k = 1 /\ End(k - 1) = 0
    BY <2>2 DEF Packets, End
  <2>4. tcpSeq' = Wire(reported)' /\ reported' = 0 /\ rcvSeq' = 0
    BY <1>1, <2>1, <2>3 DEF Wire
  <2>5. WithinCuts'
    <3>1. 0 % MTU = 0 /\ 0 \div MTU = 0 /\ cuts \in Nat
      BY SocketAssumption DEF ExactInvariant
    <3> QED  BY <1>2, <2>4, <3>1 DEF WithinCuts
  <2> QED  BY <1>1, <1>2, <2>1, <2>4, <2>5 DEF ExactInvariant
<1> QED  BY <1>3, <1>4

\* How far the count falls behind: an acknowledgement that starts where a packet
\* ended counts all the packets it covers; one that starts inside a packet may
\* miss one, for which that start has paid.
LEMMA CutsPay ==
  ASSUME NEW a \in Nat, NEW p \in Nat, a <= p, NEW m \in Nat \ {0},
         NEW n \in Nat, NEW c \in Nat, NEW b \in Nat,
         IF a % m = 0 THEN n \in ((a \div m) - c)..(a \div m)
                      ELSE n \in ((a \div m) + 1 - c)..(a \div m),
         b >= c, p % m # 0 => b >= c + 1
  PROVE  IF p % m = 0
           THEN n + ((p - a) \div m) \in ((p \div m) - b)..(p \div m)
           ELSE n + ((p - a) \div m) \in ((p \div m) + 1 - b)..(p \div m)
<1> DEFINE A == a \div m
           P == p \div m
           D == (p - a) \div m
           e == P - A - D
<1>1. e \in {0, 1} /\ (a % m = 0 => e = 0)
  BY SplitPackets
<1>2. A \in Nat /\ P \in Nat /\ D \in Nat
  <2>1. p - a \in Nat
    OBVIOUS
  <2> QED  BY <2>1, DivNat
<1>3. P = A + D + e
  BY <1>1, <1>2
<1>4. IF a % m = 0 THEN n \in (A - c)..A ELSE n \in (A + 1 - c)..A
  OBVIOUS
<1> HIDE DEF A, P, D, e
<1>5. IF p % m = 0 THEN n + D \in (P - b)..P ELSE n + D \in (P + 1 - b)..P
  <2>1. CASE a % m = 0
    BY <1>1, <1>2, <1>3, <1>4, <2>1
  <2>2. CASE a % m # 0
    BY <1>1, <1>2, <1>3, <1>4, <2>2
  <2> QED  BY <2>1, <2>2
<1> QED  BY <1>5 DEF P, D

LEMMA WiderRange ==
  ASSUME NEW r, NEW A \in Nat, NEW c \in Nat, NEW d \in Nat, d >= c
  PROVE  /\ r \in (A - c)..A => r \in (A - d)..A
         /\ r \in (A + 1 - c)..A => r \in (A + 1 - d)..A
BY SMT

LEMMA AckExact ==
  ASSUME FullAcrossWraps, SocketInvariant, ExactInvariant, NEW p \in 0..Written,
         NewAck(p) \/ OldAck(p)
  PROVE  ExactInvariant'
<1>1. /\ HandleAck(p) /\ UNCHANGED <<senderVars, ccRuns, alive>> /\ ccRuns /\ alive
      /\ wentBack' = (wentBack \/ (p < reported /\ Accepted(Wire(p))))
  BY DEF NewAck, OldAck, HandleAck
<1>2. /\ sentSeq \in Nat /\ rcvSeq \in Nat /\ MTU \in Nat \ {0} /\ reported \in Nat
      /\ Written \in Nat /\ p \in Nat /\ reported <= Written /\ cuts \in Nat
  BY FullPositions DEF SocketInvariant, ExactInvariant
<1>3. /\ sentSeq' = sentSeq /\ Packets' = Packets /\ Written' = Written
      /\ queued' = queued /\ ends' = ends
  BY <1>1 DEF sentSeq, Packets, Written, End, senderVars
<1>4. /\ \/ p > reported /\ reported' = p
         \/ p <= reported /\ reported' = reported
      /\ cuts' \in Nat /\ cuts' >= cuts
      /\ p > reported /\ p % MTU # 0 => cuts' >= cuts + 1
  <2>1. ASSUME p % MTU # 0
        PROVE  Inside(p)
    <3> SUFFICES ASSUME NEW k \in 0..sentSeq
                 PROVE  p # End(k)
      BY DEF Inside
    <3>1. k \in Nat /\ End(k) = k * MTU
      BY <1>2, FullPositions DEF SocketInvariant
    <3>2. (k * MTU) % MTU = 0
      BY <1>2, <3>1, WholeMultiple
    <3> QED  BY <2>1, <3>1, <3>2
  <2>2. CASE NewAck(p)
    BY <1>2, <2>1, <2>2 DEF NewAck
  <2>3. CASE OldAck(p)
    BY <1>2, <2>3 DEF OldAck
  <2> QED  BY <2>2, <2>3
<1>5. reported' <= Written' /\ reported' \in Nat /\ reported <= reported'
  BY <1>2, <1>3, <1>4
<1>6. ~ wentBack' => ~ wentBack
  BY <1>1, Zenon
<1>7. reported \div MTU <= reported' \div MTU
  <2>1. (reported \div MTU) * MTU <= reported /\ reported \div MTU \in Nat
    BY <1>2, WholePackets
  <2>2. (reported \div MTU) * MTU <= reported'
    BY <1>2, <1>5, <2>1, OneMore
  <2> QED  BY <1>2, <1>5, <2>1, <2>2, PacketsUpTo
<1>8. ASSUME ~ Accepted(Wire(p)), p > reported => ~ Led
      PROVE  ExactInvariant'
  <2>1. tcpSeq' = tcpSeq /\ rcvSeq' = rcvSeq
    BY <1>1, <1>8 DEF HandleAck
  <2>2. wentBack' \/ rcvSeq' <= reported' \div MTU
    <3>1. wentBack \/ rcvSeq <= reported \div MTU
      BY DEF ExactInvariant
    <3>2. reported \div MTU \in Nat /\ reported' \div MTU \in Nat
      BY <1>2, <1>5, DivNat
    <3> QED  BY <1>2, <1>6, <1>7, <2>1, <3>1, <3>2
  <2>3. Led' => Led
    BY <1>1, <1>6, <2>1, Zenon DEF Led
  <2>4. Led' => reported' = reported /\ cuts' >= cuts
    BY <1>2, <1>4, <1>8, <2>3
  <2>5. ASSUME Led'
        PROVE  tcpSeq' = Wire(reported)' /\ WithinCuts'
    <3>1. tcpSeq = Wire(reported) /\ WithinCuts
      BY <1>1, <2>3, <2>5 DEF ExactInvariant
    <3>2. tcpSeq' = Wire(reported)'
      BY <2>1, <2>4, <2>5, <3>1 DEF Wire
    <3>3. reported \div MTU \in Nat
      BY <1>2, DivNat
    <3> DEFINE A == reported \div MTU
    <3>4. /\ IF reported % MTU = 0 THEN rcvSeq \in (A - cuts)..A
                                   ELSE rcvSeq \in (A + 1 - cuts)..A
      BY <3>1 DEF WithinCuts
    <3> DEFINE whole == reported % MTU = 0
    <3>5. IF whole THEN rcvSeq \in (A - cuts')..A ELSE rcvSeq \in (A + 1 - cuts')..A
      <4>1. cuts' \in Nat /\ cuts' >= cuts /\ cuts \in Nat /\ rcvSeq \in Nat /\ A \in Nat
        BY <1>2, <1>4, <3>3
      <4> HIDE DEF A, whole
      <4>2. IF whole THEN rcvSeq \in (A - cuts)..A ELSE rcvSeq \in (A + 1 - cuts)..A
        BY <3>4 DEF whole
      <4> QED  BY <4>1, <4>2, WiderRange, Zenon
    <3> HIDE DEF A
    <3>6. WithinCuts'
      BY <2>1, <2>4, <2>5, <3>5 DEF WithinCuts, A
    <3> QED  BY <3>2, <3>6
  <2> QED  BY <1>1, <1>3, <1>4, <1>5, <2>2, <2>5 DEF ExactInvariant
<1>9. ASSUME Led, p >= reported
      PROVE  ExactInvariant'
  <2>1. Accepted(Wire(p)) /\ Advance(Wire(p)) = (p - reported) \div MTU
    <3>1. p \in reported..Written
      BY <1>2, <1>9
    <3> QED  BY <1>1, <1>9, <3>1, AdvanceExact
  <2>2. rcvSeq' = rcvSeq + ((p - reported) \div MTU) /\ tcpSeq' = Wire(p)
    BY <1>1, <2>1 DEF HandleAck
  <2>3. reported' = p
    BY <1>2, <1>4, <1>9
  <2>4. WithinCuts
    BY <1>1, <1>9 DEF ExactInvariant
  <2>5. p % MTU # 0 => cuts' >= cuts + 1 \/ (p = reported /\ cuts' >= cuts)
    BY <1>2, <1>4, <1>9
  <2>6. WithinCuts'
    <3>1. CASE p = reported
      <4>1. (p - reported) \div MTU = 0
        BY <1>2, <3>1, SMT
      <4>2. rcvSeq' = rcvSeq /\ reported' = reported
        BY <1>2, <2>2, <2>3, <3>1, <4>1
      <4> DEFINE A == reported \div MTU
      <4>3. A \in Nat
        BY <1>2, DivNat
      <4>4. IF reported % MTU = 0 THEN rcvSeq \in (A - cuts)..A
                                  ELSE rcvSeq \in (A + 1 - cuts)..A
        BY <2>4 DEF WithinCuts
      <4> DEFINE whole == reported % MTU = 0
      <4>5. IF whole THEN rcvSeq \in (A - cuts')..A
                     ELSE rcvSeq \in (A + 1 - cuts')..A
        <5>1. cuts' \in Nat /\ cuts' >= cuts /\ cuts \in Nat /\ rcvSeq \in Nat /\ A \in Nat
          BY <1>2, <1>4, <4>3
        <5> HIDE DEF A, whole
        <5>2. IF whole THEN rcvSeq \in (A - cuts)..A
                       ELSE rcvSeq \in (A + 1 - cuts)..A
          BY <4>4 DEF whole
        <5> QED  BY <5>1, <5>2, WiderRange, Zenon
      <4> HIDE DEF A
      <4> QED  BY <4>2, <4>5 DEF WithinCuts, A
    <3>2. CASE p > reported
      <4>1. /\ IF reported % MTU = 0
                 THEN rcvSeq \in ((reported \div MTU) - cuts)..(reported \div MTU)
                 ELSE rcvSeq \in ((reported \div MTU) + 1 - cuts)..(reported \div MTU)
            /\ reported <= p /\ cuts' >= cuts /\ (p % MTU # 0 => cuts' >= cuts + 1)
        BY <1>2, <1>4, <2>4, <3>2 DEF WithinCuts
      <4>2. IF p % MTU = 0
              THEN rcvSeq' \in ((p \div MTU) - cuts')..(p \div MTU)
              ELSE rcvSeq' \in ((p \div MTU) + 1 - cuts')..(p \div MTU)
        BY <1>2, <1>4, <2>2, <4>1, CutsPay
      <4> QED  BY <2>3, <4>2 DEF WithinCuts
    <3> QED  BY <1>2, <1>9, <3>1, <3>2
  <2>7. rcvSeq' <= reported' \div MTU
    BY <1>5, <2>6, DivNat DEF WithinCuts
  <2>8. tcpSeq' = Wire(reported)'
    BY <2>2, <2>3 DEF Wire
  <2> QED  BY <1>1, <1>3, <1>4, <1>5, <2>6, <2>7, <2>8 DEF ExactInvariant
<1>10. ASSUME Accepted(Wire(p)), p < reported \/ ~ Led
       PROVE  ExactInvariant'
  <2>1. wentBack'
    <3>1. CASE p < reported
      BY <1>1, <1>10, <3>1, Zenon
    <3>2. CASE ~ Led
      <4>1. tcpSeq # 0
        BY <1>10 DEF Accepted, SocketInvariant, TypeOK
      <4> QED  BY <1>1, <3>2, <4>1, Zenon DEF Led
    <3> QED  BY <1>10, <3>1, <3>2
  <2>2. ~ Led'
    BY <2>1 DEF Led
  <2> QED  BY <1>1, <1>3, <1>4, <1>5, <2>1, <2>2 DEF ExactInvariant
<1> QED  BY <1>2, <1>8, <1>9, <1>10

LEMMA NextExact ==
  ASSUME FullAcrossWraps
  PROVE  SocketInvariant /\ ExactInvariant /\ [Next]_vars => ExactInvariant'
<1> SUFFICES ASSUME SocketInvariant, ExactInvariant, [Next]_vars
             PROVE  ExactInvariant'
  OBVIOUS
<1>1. ASSUME NEW n \in Writes, alcc_send(n)
      PROVE  ExactInvariant'
  <2>1. /\ UNCHANGED <<ends, pc, receiverVars, ccVars, sharedVars, ccRuns, alive,
                       historyVars>>
        /\ queued' = queued + n /\ Written + queued + n <= StreamBytes
    BY <1>1 DEF alcc_send
  <2>2. Written \in Nat /\ queued \in Nat /\ n \in Nat /\ MTU \in Nat \ {0}
    BY SocketAssumption DEF SocketInvariant, TypeOK, Written, End, sentSeq
  <2>3. Written + queued' <= StreamBytes /\ queued' % MTU = 0
    <3>1. queued % MTU = 0 /\ n % MTU = 0
      BY DEF ExactInvariant, FullAcrossWraps
    <3>2. (queued + n) % MTU = 0
      BY <2>2, <3>1, WholeSum
    <3> QED  BY <2>1, <2>2, <3>2
  <2>4. ccRuns \/ (loaded' = loaded /\ OnePermit')
    BY <2>1 DEF ExactInvariant, ccVars, sharedVars, OnePermit, sentSeq
  <2> QED  BY <2>1, <2>3, <2>4, FrameExact
<1>2. CASE Transmit
  BY <1>2, TransmitExact
<1>3. CASE StartBatch \/ EndBatch \/ SpendPermit \/ CountInFlight \/ RecordTime
  BY <1>3, SenderExact
<1>4. CASE CC_logic
  <2>1. UNCHANGED <<ends, queued, receiverVars, ccRuns, alive, historyVars>>
    BY <1>4 DEF CC_logic, LoadInFlight, LoadTempS, Load, AddPermits, senderVars
  <2>2. ccRuns
    BY <1>4
       DEF CC_logic, LoadInFlight, LoadTempS, Load, AddPermits, ExactInvariant
  <2> QED  BY <2>1, <2>2, FrameExact DEF ExactInvariant
<1>5. CASE Dead \/ UNCHANGED vars
  <2>1. UNCHANGED <<ends, queued, receiverVars, ccRuns, alive, loaded, historyVars>>
    BY <1>5 DEF Dead, vars, senderVars, ccVars
  <2>2. OnePermit => OnePermit'
    BY <1>5 DEF Dead, vars, senderVars, sharedVars, OnePermit, sentSeq
  <2> QED  BY <2>1, <2>2, FrameExact DEF ExactInvariant
<1>6. ASSUME NEW k \in Packets, OutgoingReport(k)
      PROVE  ExactInvariant'
  BY <1>6, StartExact
<1>7. ASSUME NEW p \in 0..Written, NewAck(p) \/ OldAck(p)
      PROVE  ExactInvariant'
  BY <1>7, AckExact
<1>8. 1..Written \subseteq 0..Written
  OBVIOUS
<1> QED  BY <1>1, <1>2, <1>3, <1>4, <1>5, <1>6, <1>7, <1>8 DEF Next, Sender

\* The inductive invariant of the count holds across wraps.
THEOREM ExactAcrossWraps ==
  ASSUME FullAcrossWraps
  PROVE  Spec => []ExactInvariant
<1>1. Spec => []SocketInvariant
  BY InvariantHolds
<1> QED  BY <1>1, InitExact, NextExact, PTL DEF Spec

\* The packets acknowledged to the last byte.
LEMMA AckedExactly ==
  ASSUME SocketInvariant, ExactInvariant
  PROVE  AckedPackets = reported \div MTU
<1> DEFINE A == reported \div MTU
<1>1. /\ sentSeq \in Nat /\ MTU \in Nat \ {0} /\ reported \in Nat
      /\ Written = sentSeq * MTU /\ Written \in Nat /\ reported <= Written
  BY FullPositions DEF SocketInvariant, ExactInvariant
<1>2. A \in Nat /\ A <= sentSeq
  <2>1. A \in Nat /\ A * MTU <= reported
    BY <1>1, WholePackets
  <2> HIDE DEF A
  <2>2. A * MTU <= sentSeq * MTU
    BY <1>1, <2>1, OneMore
  <2> QED  BY <1>1, <2>1, <2>2, MultipleOrder
<1>3. \A k \in Packets : ends[k] <= reported <=> k <= A
  <2> SUFFICES ASSUME NEW k \in Packets
               PROVE  ends[k] <= reported <=> k <= A
    OBVIOUS
  <2>1. k \in Nat /\ ends[k] = k * MTU
    BY <1>1 DEF Packets, ExactInvariant
  <2> QED  BY <1>1, <2>1, PacketsUpTo
<1> HIDE DEF A
<1>4. {k \in Packets : ends[k] <= reported} = 1..A
  BY <1>1, <1>2, <1>3 DEF Packets
<1>5. Cardinality(1..A) = A
  BY <1>2, FS_Interval
<1> QED  BY <1>4, <1>5 DEF AckedPackets, A

\* When every packet is full, ack_receiver counts the acknowledged packets
\* exactly, before and after any number of wraps, but for one packet at most
\* for each acknowledgement that ended inside a packet, as long as no
\* acknowledgement names the byte numbered 0 or comes from before a wrap.
THEOREM CountedExactly ==
  ASSUME FullAcrossWraps
  PROVE  Spec => []CountsExactly
<1>1. SocketInvariant /\ ExactInvariant => CountsExactly
  <2> SUFFICES ASSUME SocketInvariant, ExactInvariant, Led
               PROVE  rcvSeq \in (AckedPackets - cuts)..AckedPackets
    BY DEF CountsExactly
  <2>1. AckedPackets = reported \div MTU
    BY AckedExactly
  <2>2. MTU \in Nat \ {0} /\ reported \in Nat /\ rcvSeq \in Nat /\ cuts \in Nat
    BY FullPositions DEF SocketInvariant, ExactInvariant
  <2>3. reported \div MTU \in Nat
    BY <2>2, DivNat
  <2>4. CASE ccRuns
    BY <2>1, <2>2, <2>3, <2>4 DEF ExactInvariant, WithinCuts
  <2>5. CASE ~ ccRuns
    <3>1. rcvSeq = 0 /\ reported = 0
      BY <2>5 DEF ExactInvariant
    <3>2. 0 \div MTU = 0
      BY <2>2
    <3> QED  BY <2>1, <2>2, <3>1, <3>2
  <2> QED  BY <2>4, <2>5
<1>2. Spec => []SocketInvariant
  BY InvariantHolds
<1> QED  BY <1>1, <1>2, ExactAcrossWraps, PTL

-----------------------------------------------------------------------------
(* The socket implements the sliding window.                               *)

\* What is acknowledged was sent.
ReportedSent == reported <= Written

LEMMA NextReportedSent ==
  ASSUME SocketInvariant, ReportedSent, [Next]_vars
  PROVE  ReportedSent'
<1> USE DEF SocketInvariant, ReportedSent
<1>1. sentSeq \in Nat /\ Written \in Nat /\ reported \in Nat
  BY DEF TypeOK, sentSeq, Written, End
<1>2. CASE Transmit
  <2> DEFINE size == IF queued < MTU THEN queued ELSE MTU
  <2>1. /\ ends' = Append(ends, Written + size) /\ reported' = reported
        /\ size \in Nat /\ ends \in Seq(Nat)
    BY <1>2, SocketAssumption DEF Transmit, SenderAt, receiverVars, TypeOK
  <2> HIDE DEF size
  <2>2. Written' = Written + size
    BY <1>1, <2>1 DEF Written, End, sentSeq
  <2> QED  BY <1>1, <2>1, <2>2
<1>3. CASE \E p \in 1..Written : NewAck(p)
  <2>1. PICK p \in 1..Written : reported' = p /\ ends' = ends
    BY <1>3 DEF NewAck, HandleAck, senderVars
  <2> QED  BY <1>1, <2>1 DEF Written, End, sentSeq
<1>4. CASE UNCHANGED <<ends, reported>>
  BY <1>4 DEF Written, End, sentSeq
<1>5. CASE \/ \E n \in Writes : alcc_send(n)
           \/ StartBatch \/ EndBatch \/ SpendPermit \/ CountInFlight \/ RecordTime
           \/ CC_logic \/ \E k \in Packets : OutgoingReport(k)
           \/ \E p \in 0..Written : OldAck(p)
           \/ Dead \/ UNCHANGED vars
  <2>1. UNCHANGED <<ends, reported>>
    BY <1>5
       DEF alcc_send, StartBatch, EndBatch, SpendPermit, CountInFlight, RecordTime,
           SenderAt, CC_logic, LoadInFlight, LoadTempS, Load, AddPermits,
           OutgoingReport, OldAck, HandleAck, Dead, vars, senderVars, receiverVars
  <2> QED  BY <1>4, <2>1
<1> QED  BY <1>2, <1>3, <1>5 DEF Next, Sender

\* pkt_sender passes a packet to TCP while two windows are not counted at most:
\* what CC_logic has granted covers the packet, and what the receiver settled
\* it has counted.
LEMMA TransmitIsSend ==
  ASSUME SocketInvariant, ReportedSent, Transmit
  PROVE  Window!Send
<1> USE DEF SocketInvariant, ReportedSent
<1> DEFINE size == IF queued < MTU THEN queued ELSE MTU
           n == sentSeq
           D == {k \in Packets : ends[k] <= reported}
<1>1. /\ ends' = Append(ends, Written + size) /\ ends \in Seq(Nat)
      /\ UNCHANGED <<rcvSeq, rcvSeqLast, reported>>
      /\ pc = "take" /\ sPkts > 0 /\ size \in Nat \ {0}
      /\ n \in Nat /\ Written \in Nat /\ reported \in Nat
  BY SocketAssumption
     DEF Transmit, SenderAt, receiverVars, TypeOK, sentSeq, Written, End
<1> HIDE DEF size
<1>2. /\ sentSeq' = n + 1 /\ ends'[n + 1] = Written + size
      /\ \A k \in 1..n : ends'[k] = ends[k]
      /\ n = sentSeq
  BY <1>1 DEF sentSeq
<1> HIDE DEF n
<1>3. n < rcvSeq + (2 * CWND + 1)
  <2>1. pktsInFlight = n - rcvSeqLast /\ tempS >= 1
    BY <1>1, <1>2
       DEF InFlightAccounting, Counted, PermitsCoverBatch, TypeOK
  <2>2. pktsInFlight + tempS <= 2 * CWND + 1 /\ rcvSeqLast <= rcvSeq
    BY <1>1, <2>1 DEF WindowBound, Committed, SettledInOrder, TypeOK
  <2>3. rcvSeq \in Nat /\ rcvSeqLast \in Nat /\ tempS \in Int /\ 2 * CWND \in Nat
    BY SocketAssumption DEF TypeOK
  <2> QED  BY <1>1, <2>1, <2>2, <2>3
<1>4. D' = D
  <2> DEFINE last == ends'[n + 1]
  <2>1. ~ (last <= reported)
    <3>1. Written + size \in Nat /\ Written + size > reported
      BY <1>1
    <3>2. last = Written + size
      BY <1>2
    <3> HIDE DEF last
    <3> QED  BY <1>1, <3>1, <3>2
  <2>2. Packets = 1..n /\ Packets' = 1..(n + 1)
    BY <1>2 DEF Packets
  <2>3. /\ n \in Nat /\ reported' = reported
        /\ \A k \in 1..n : ends'[k] = ends[k]
    BY <1>1, <1>2
  <2>4. D' = {k \in 1..(n + 1) : ends'[k] <= reported}
    BY <2>2, <2>3
  <2>5. D = {k \in 1..n : ends[k] <= reported}
    BY <2>2
  <2> HIDE DEF D
  <2> QED  BY <2>1, <2>3, <2>4, <2>5
<1> QED  BY <1>1, <1>2, <1>3, <1>4 DEF Window!Send, AckedPackets, n, D

\* An acknowledgement only adds to what is acknowledged and to what is counted.
LEMMA AckIsReceive ==
  ASSUME SocketInvariant, CountsOnlyDelivered',
         NEW p \in 0..Written, NewAck(p) \/ OldAck(p)
  PROVE  Window!Receive
<1> DEFINE D == {k \in Packets : ends[k] <= reported}
           E == {k \in Packets : ends[k] <= reported'}
<1>1. /\ UNCHANGED <<ends, sentSeq>> /\ reported \in Nat /\ sentSeq \in Nat
      /\ \A k \in Packets : ends[k] \in Nat
      /\ rcvSeq \in Nat /\ p \in Nat
  BY DEF SocketInvariant, TypeOK, NewAck, OldAck, HandleAck, senderVars, sentSeq,
         Packets, Written, End
<1>2. reported' \in Nat /\ reported <= reported'
  BY <1>1 DEF NewAck, OldAck
<1>3. rcvSeq' \in Nat /\ rcvSeq <= rcvSeq'
  <2> DEFINE ack == Wire(p)
  <2>1. ack \in 0..(MODULUS - 1) /\ TypeOK
    BY <1>1, WireRange DEF SocketInvariant
  <2>2. rcvSeq' = rcvSeq \/ rcvSeq' = rcvSeq + Advance(ack)
    BY DEF NewAck, OldAck, HandleAck
  <2> HIDE DEF ack
  <2>3. Advance(ack) \in Nat
    BY <2>1, AdvanceNat
  <2> QED  BY <1>1, <2>2, <2>3
<1>4. D' = E
  BY <1>1 DEF Packets
<1>5. D \subseteq E /\ E \subseteq 1..sentSeq
  BY <1>1, <1>2 DEF Packets
<1> HIDE DEF D, E
<1>6. IsFiniteSet(1..sentSeq) /\ Cardinality(1..sentSeq) = sentSeq
  BY <1>1, FS_Interval
<1>7. IsFiniteSet(E) /\ Cardinality(E) <= sentSeq /\ Cardinality(E) \in Nat
  BY <1>5, <1>6, FS_Subset, FS_CardinalityType
<1>8. Cardinality(D) <= Cardinality(E) /\ Cardinality(D) \in Nat
  BY <1>5, <1>7, FS_Subset, FS_CardinalityType
<1>9. Cardinality(D') \in Cardinality(D)..sentSeq
  BY <1>1, <1>4, <1>7, <1>8
<1>10. rcvSeq' <= Cardinality(D')
  BY DEF CountsOnlyDelivered, AckedPackets, D
<1>11. rcvSeq' \in rcvSeq..Cardinality(D')
  BY <1>1, <1>3, <1>4, <1>7, <1>10
<1> QED  BY <1>1, <1>9, <1>11 DEF Window!Receive, AckedPackets, D

LEMMA StepIsWindowStep ==
  ASSUME SocketInvariant, ReportedSent, CountsOnlyDelivered', [Next]_vars
  PROVE  [Window!Next]_(Window!vars)
<1>1. CASE Transmit
  BY <1>1, TransmitIsSend DEF Window!Next
<1>2. CASE \E p \in 0..Written : NewAck(p) \/ OldAck(p)
  BY <1>2, AckIsReceive DEF Window!Next
<1>3. CASE \/ \E n \in Writes : alcc_send(n)
           \/ StartBatch \/ EndBatch \/ SpendPermit \/ CountInFlight \/ RecordTime
           \/ CC_logic \/ \E k \in Packets : OutgoingReport(k)
           \/ Dead \/ UNCHANGED vars
  <2>1. UNCHANGED <<ends, reported, rcvSeq>>
    BY <1>3
       DEF alcc_send, StartBatch, EndBatch, SpendPermit, CountInFlight, RecordTime,
           SenderAt, CC_logic, LoadInFlight, LoadTempS, Load, AddPermits,
           OutgoingReport, Dead, vars, senderVars, receiverVars
  <2> QED  BY <2>1 DEF Window!vars, AckedPackets, Packets, sentSeq
<1>4. 1..Written \subseteq 0..Written
  OBVIOUS
<1> QED  BY <1>1, <1>2, <1>3, <1>4 DEF Next, Sender

LEMMA InitIsWindowInit == Init => Window!Init
<1> SUFFICES ASSUME Init
             PROVE  Window!Init
  OBVIOUS
<1>1. sentSeq = 0 /\ {k \in Packets : ends[k] <= reported} = {} /\ rcvSeq = 0
  BY DEF Init, sentSeq, Packets
<1> QED  BY <1>1, FS_EmptySet DEF Window!Init, AckedPackets

\* Seen from its two ends, the socket is a sliding window of two windows and a
\* packet, with all that its threads read late and in pieces: without a wrap,
\* for any packets and acknowledgements.
THEOREM RefinesWindow ==
  ASSUME NoWrap
  PROVE  Spec => ImplementsWindow
<1>1. Init => ReportedSent
  BY DEF Init, Written, End, sentSeq, ReportedSent
<1>2. SocketInvariant /\ ReportedSent /\ [Next]_vars => ReportedSent'
  BY NextReportedSent
<1>3. Spec => []CountsOnlyDelivered
  BY OnlyDelivered
<1>4. Spec => []SocketInvariant
  BY InvariantHolds
<1>5. SocketInvariant /\ ReportedSent /\ CountsOnlyDelivered' /\ [Next]_vars
        => [Window!Next]_(Window!vars)
  BY StepIsWindowStep
<1> QED
  BY <1>1, <1>2, <1>3, <1>4, <1>5, InitIsWindowInit, PTL
     DEF Spec, ImplementsWindow, Window!Spec

\* No acknowledgement from before a wrap has been taken for a new one.
NeverBack == ~ wentBack

\* Across any number of wraps it is that window for full packets, wherever the
\* acknowledgements end and even if one of them names the byte numbered 0, as long
\* as none from before a wrap is taken for a new one.
THEOREM RefinesAcrossWraps ==
  ASSUME FullAcrossWraps
  PROVE  Spec /\ []NeverBack => ImplementsWindow
<1>1. SocketInvariant /\ ExactInvariant => ReportedSent
  BY DEF ExactInvariant, ReportedSent
<1>2. SocketInvariant /\ ExactInvariant /\ NeverBack => CountsOnlyDelivered
  <2> SUFFICES ASSUME SocketInvariant, ExactInvariant, NeverBack
               PROVE  rcvSeq <= AckedPackets
    BY DEF CountsOnlyDelivered
  <2>1. AckedPackets = reported \div MTU
    BY AckedExactly
  <2> QED  BY <2>1 DEF ExactInvariant, NeverBack
<1>3. Spec => []ExactInvariant
  BY ExactAcrossWraps
<1>4. Spec => []SocketInvariant
  BY InvariantHolds
<1>5. SocketInvariant /\ ReportedSent /\ CountsOnlyDelivered' /\ [Next]_vars
        => [Window!Next]_(Window!vars)
  BY StepIsWindowStep
<1> QED
  BY <1>1, <1>2, <1>3, <1>4, <1>5, InitIsWindowInit, PTL
     DEF Spec, ImplementsWindow, Window!Spec
=============================================================================
