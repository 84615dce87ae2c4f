-------------------------- MODULE CopaSocketProofs --------------------------
(***************************************************************************)
(* A Copa socket counts no packet that was not acknowledged, and its list  *)
(* of unacknowledged packets holds one entry too many for each packet that *)
(* was counted too early: for every stream, MTU, window and modulus, until *)
(* an acknowledgement from before a wrap is taken for a new one.           *)
(*                                                                         *)
(* With a window below half of the sequence numbers, and once told of the  *)
(* first packet, it counts all that was acknowledged; no RTT sample is too *)
(* long or negative; and the socket implements SlidingWindow.              *)
(***************************************************************************)
EXTENDS CopaSocket, FiniteSetTheorems, WellFoundedInduction, TLAPS

-----------------------------------------------------------------------------
(* Arithmetic.                                                             *)

\* Multiples of MTU.
LEMMA NextMultiple ==
  ASSUME NEW n \in Nat, NEW m \in Nat
  PROVE  (n + 1) * m = n * m + m /\ n * m \in Nat
BY SMT

\* Fewer packets have fewer bytes ...
LEMMA MultipleGrows ==
  ASSUME NEW a \in Nat, NEW b \in Nat, NEW m \in Nat, a <= b
  PROVE  a * m <= b * m /\ a * m \in Nat /\ b * m \in Nat
<1> DEFINE c == b - a
<1>1. c \in Nat /\ b = a + c
  OBVIOUS
<1>2. b * m = a * m + c * m /\ a * m \in Nat /\ c * m \in Nat
  BY <1>1, SMT
<1> QED  BY <1>2

\* ... and the other way round.
LEMMA MultipleOrder ==
  ASSUME NEW a \in Nat, NEW b \in Nat, NEW m \in Nat \ {0}, a * m <= b * m
  PROVE  a <= b
<1> SUFFICES ASSUME a > b
             PROVE  FALSE
  OBVIOUS
<1> DEFINE c == a - b
<1>1. c \in Nat /\ c >= 1 /\ a = b + c
  OBVIOUS
<1>2. a * m = b * m + c * m
  BY <1>1, SMT
<1>3. c * m >= m
  BY <1>1, SMT
<1> QED  BY <1>2, <1>3, SMT

\* Whole packets in a difference.
LEMMA WholePackets ==
  ASSUME NEW d \in Nat, NEW m \in Nat \ {0}
  PROVE  d \div m \in Nat /\ (d \div m) * m <= d
BY SMT

\* A set of natural numbers has a smallest one.
LEMMA SmallestExists ==
  ASSUME NEW S, S \subseteq Nat, S # {}
  PROVE  \E m \in S : \A k \in S : m <= k
<1> DEFINE R == OpToRel(<, Nat)
<1>1. IsWellFoundedOn(R, Nat)
  BY NatLessThanWellFounded
<1>2. \A x, y \in Nat : <<x, y>> \in R <=> x < y
  BY DEF OpToRel
<1> HIDE DEF R
<1>3. PICK m \in S : \A k \in S : ~ (<<k, m>> \in R)
  BY <1>1, WFMin, Zenon
<1>4. \A k \in S : ~ (k < m)
  BY <1>2, <1>3
<1> QED  BY <1>4

\* A number in laps of m and what is left over.
LEMMA LapAndRest ==
  ASSUME NEW a \in Nat, NEW m \in Nat \ {0}
  PROVE  /\ a % m \in 0..(m - 1) /\ a \div m \in Nat
         /\ a = (a \div m) * m + (a % m) /\ (a \div m) * m \in Nat
BY SMT

\* There is only one way to write it so.
LEMMA RestIsUnique ==
  ASSUME NEW q \in Nat, NEW m \in Nat \ {0}, NEW r \in 0..(m - 1)
  PROVE  (q * m + r) % m = r /\ (q * m + r) \div m = q
BY SMTT(30)

\* Two positions, x and y, on a circle of m numbers; t is the number of x,
\* with m for 0.  Going forward from t to the number of y is never longer than
\* going from x to y.
LEMMA Around ==
  ASSUME NEW m \in Nat \ {0}, NEW x \in Nat \ {0}, NEW y \in Nat
  PROVE  LET a == y % m
             t == IF x % m = 0 THEN m ELSE x % m
         IN  /\ t \in 1..m /\ a \in 0..(m - 1)
             /\ x <= y /\ a >= t => a - t <= y - x
             /\ x <= y /\ a < t => m - t + a <= y - x
<1> DEFINE a == y % m
           t == IF x % m = 0 THEN m ELSE x % m
           l == IF x % m = 0 THEN (x \div m) - 1 ELSE x \div m
           n == y \div m
<1>1. /\ x % m \in 0..(m - 1) /\ x \div m \in Nat
      /\ x = (x \div m) * m + (x % m) /\ (x \div m) * m \in Nat
  BY LapAndRest
<1>2. a \in 0..(m - 1) /\ n \in Nat /\ y = n * m + a /\ n * m \in Nat
  BY LapAndRest
<1>3. t \in 1..m /\ l \in Nat /\ x = l * m + t /\ l * m \in Nat
  <2>1. CASE x % m = 0
    <3>1. x \div m # 0
      BY <1>1, <2>1
    <3>2. l \in Nat /\ x \div m = l + 1
      BY <1>1, <2>1, <3>1
    <3>3. (x \div m) * m = l * m + m /\ l * m \in Nat
      BY <3>2, NextMultiple
    <3> QED  BY <1>1, <2>1, <3>2, <3>3
  <2>2. CASE x % m # 0
    BY <1>1, <2>2
  <2> QED  BY <2>1, <2>2
<1> HIDE DEF a, t, l, n
<1>4. \A i, j \in Nat : i < j => i * m + m <= j * m
  BY NextMultiple, MultipleGrows
<1>5. CASE n = l
  <2>1. y - x = a - t
    BY <1>2, <1>3, <1>5
  <2> QED  BY <1>2, <1>3, <2>1 DEF a, t
<1>6. CASE n < l
  <2>1. n * m + m <= l * m
    BY <1>2, <1>3, <1>4, <1>6
  <2>2. y < x
    BY <1>2, <1>3, <2>1
  <2> QED  BY <1>2, <1>3, <2>2 DEF a, t
<1>7. CASE l < n
  <2>1. l * m + m <= n * m
    BY <1>2, <1>3, <1>4, <1>7
  <2>2. a - t <= y - x /\ m - t + a <= y - x /\ ~ (y < x)
    BY <1>2, <1>3, <2>1
  <2> QED  BY <1>2, <1>3, <2>2 DEF a, t
<1> QED  BY <1>2, <1>3, <1>5, <1>6, <1>7

\* The number after d more bytes, with m for 0: one subtraction is enough.
LEMMA GoForward ==
  ASSUME NEW m \in Nat \ {0}, NEW x \in Nat \ {0}, NEW d \in 1..m
  PROVE  LET t == IF x % m = 0 THEN m ELSE x % m
             n == t + d
         IN  (IF n > m THEN n - m ELSE n)
               = IF (x + d) % m = 0 THEN m ELSE (x + d) % m
<1> DEFINE t == IF x % m = 0 THEN m ELSE x % m
           q == x \div m
<1>1. /\ x % m \in 0..(m - 1) /\ q \in Nat
      /\ x = q * m + (x % m) /\ q * m \in Nat
  BY LapAndRest
<1>2. /\ (q + 1) * m = q * m + m /\ (q + 1) * m \in Nat
      /\ q + 1 \in Nat /\ 0 \in 0..(m - 1)
  BY <1>1, NextMultiple
<1> HIDE DEF q
<1>3. \A r \in 0..(m - 1) : (q * m + r) % m = r /\ ((q + 1) * m + r) % m = r
  BY <1>1, <1>2, RestIsUnique
<1>4. CASE x % m = 0
  <2>1. CASE d = m
    <3>1. x + d = (q + 1) * m + 0
      BY <1>1, <1>2, <1>4, <2>1
    <3>2. (x + d) % m = 0
      BY <1>2, <1>3, <3>1
    <3> QED  BY <1>4, <2>1, <3>2
  <2>2. CASE d # m
    <3>1. x + d = q * m + d /\ d \in 0..(m - 1) /\ d # 0
      BY <1>1, <1>4, <2>2
    <3> QED  BY <1>3, <1>4, <3>1
  <2> QED  BY <2>1, <2>2
<1>5. CASE x % m # 0
  <2> DEFINE n == (x % m) + d
  <2>1. CASE n < m
    <3>1. x + d = q * m + n /\ n \in 0..(m - 1) /\ n # 0
      BY <1>1, <2>1
    <3> HIDE DEF n
    <3>2. (x + d) % m = n
      BY <1>3, <3>1
    <3> QED  BY <1>1, <1>5, <2>1, <3>1, <3>2 DEF n
  <2>2. CASE n >= m
    <3>1. x + d = (q + 1) * m + (n - m) /\ n - m \in 0..(m - 1)
      BY <1>1, <1>2, <2>2
    <3>2. (x + d) % m = n - m
      BY <1>3, <3>1
    <3> QED  BY <1>1, <1>5, <2>2, <3>1, <3>2
  <2> QED  BY <1>1, <2>1, <2>2
<1> QED  BY <1>4, <1>5

-----------------------------------------------------------------------------
(* The stream.                                                             *)

\* The positions of the stream are natural numbers.
LEMMA PositionNat ==
  ASSUME SenderTypes, NEW k \in 0..sentSeq
  PROVE  End(k) \in Nat
BY DEF SenderTypes, End, sentSeq

\* They grow with the packets.
LEMMA PositionOrder ==
  ASSUME SenderTypes, EndsInOrder, NEW j \in 0..sentSeq, NEW k \in 0..sentSeq
  PROVE  (j <= k => End(j) <= End(k)) /\ (End(j) <= End(k) => j <= k)
<1>1. End(j) \in Nat /\ End(k) \in Nat
  BY PositionNat
<1>2. ASSUME NEW i \in Packets, NEW l \in 0..(i - 1)
      PROVE  End(l) < End(i)
  BY <1>2 DEF EndsInOrder, End, Packets
<1>3. CASE j = k
  BY <1>1, <1>3
<1>4. CASE j < k
  BY <1>1, <1>2, <1>4 DEF Packets
<1>5. CASE k < j
  BY <1>1, <1>2, <1>5 DEF Packets
<1> QED  BY <1>3, <1>4, <1>5

\* The first packets are at most MTU bytes each, so that those which are
\* counted were sent, and acknowledged.
LEMMA CountedWereSent ==
  ASSUME TypeOK, EndsInOrder, CountedAcked
  PROVE  rcvSeq + toCount <= sentSeq /\ rcvSeq + toCount <= AckedPackets
<1> USE DEF TypeOK, ReceiverTypes, SenderTypes
<1> DEFINE n == rcvSeq + toCount
           D == {k \in Packets : ends[k] <= reported}
<1>1. n \in Nat /\ sentSeq \in Nat /\ MTU \in Nat \ {0}
  BY CopaAssumption DEF sentSeq
<1>2. Written <= sentSeq * MTU /\ Written \in Nat
  <2>1. CASE sentSeq = 0
    BY <1>1, <2>1 DEF Written, End
  <2>2. CASE sentSeq # 0
    BY <1>1, <2>2, PositionNat DEF Written, End, EndsInOrder, Packets
  <2> QED  BY <2>1, <2>2
<1>3. n * MTU <= reported /\ reported <= Written /\ n * MTU \in Nat
      /\ sentSeq * MTU \in Nat
  BY <1>1, NextMultiple DEF CountedAcked
<1>4. n * MTU <= sentSeq * MTU
  BY <1>2, <1>3
<1>5. n <= sentSeq
  BY <1>1, <1>4, MultipleOrder
<1>6. 1..n \subseteq D
  <2> SUFFICES ASSUME NEW k \in 1..n
               PROVE  k \in Packets /\ ends[k] <= reported
    OBVIOUS
  <2>1. k \in Packets /\ k \in Nat /\ ends[k] \in Nat
    BY <1>1, <1>5 DEF Packets, sentSeq
  <2>2. ends[k] <= k * MTU
    BY <2>1 DEF EndsInOrder
  <2>3. k * MTU <= n * MTU /\ k * MTU \in Nat
    BY <1>1, <2>1, MultipleGrows
  <2> QED  BY <1>3, <2>1, <2>2, <2>3
<1>7. IsFiniteSet(D)
  <2>1. D \in SUBSET (1..sentSeq) /\ IsFiniteSet(1..sentSeq)
    BY <1>1, FS_Interval DEF Packets
  <2> HIDE DEF D
  <2> QED  BY <2>1, FS_Subset, Zenon
<1>8. Cardinality(1..n) = n
  BY <1>1, FS_Interval
<1>9. Cardinality(1..n) <= Cardinality(D)
  <2>1. (1..n) \in SUBSET D
    BY <1>6
  <2> HIDE DEF D, n
  <2> QED  BY <1>7, <2>1, FS_Subset, Zenon
<1> QED  BY <1>5, <1>8, <1>9 DEF AckedPackets

-----------------------------------------------------------------------------
LEMMA InitEstablishes == Init => CopaInvariant
<1> SUFFICES ASSUME Init
             PROVE  CopaInvariant
  OBVIOUS
<1>1. /\ ends = <<>> /\ sentSeq = 0 /\ Packets = {} /\ pc = "gate" /\ Written = 0
      /\ seqNumbersList = {} /\ senderTimestampList = {}
      /\ unacknowledged_packets = {} /\ tcpSeq = 0 /\ rcvSeq = 0 /\ toCount = 0
      /\ reported = 0 /\ overtaken = 0 /\ Announced = 0 /\ ticked = FALSE
      /\ sample = "none"
  BY DEF Init, sentSeq, Packets, Announced, Written, End
<1>2. TypeOK
  <2>1. slow_start \in BOOLEAN /\ ticked \in BOOLEAN /\ wentBack \in BOOLEAN
    BY Zenon DEF Init
  <2> QED
    BY <1>1, <2>1, CopaAssumption
       DEF Init, TypeOK, SenderTypes, ListTypes, ReceiverTypes, WindowTypes
<1>3. EntriesLeft
  <2>1. {k \in unacknowledged_packets : k <= rcvSeq} = {} /\ ~ OvertakenInHand
    BY <1>1 DEF OvertakenInHand
  <2> QED  BY <1>1, <2>1, FS_EmptySet DEF EntriesLeft
<1>4. CountedAcked
  BY <1>1, CopaAssumption DEF CountedAcked
<1> QED
  BY <1>1, <1>2, <1>3, <1>4
     DEF CopaInvariant, EndsInOrder, RecordedInTurn, TickedInTurn, InStep

\* alc_send and the steps of the gate: no packet is made, none is recorded.
LEMMA GatePreserves ==
  ASSUME CopaInvariant,
         Admit \/ FindNothing \/ \E n \in Writes : alcc_send(n)
  PROVE  CopaInvariant'
<1> USE DEF CopaInvariant, TypeOK
<1>1. /\ UNCHANGED <<ends, lists, clock, tcpSeq, rcvSeq, reportVars,
                     _largest_ack, windowVars, observed, history>>
      /\ queued' \in Nat
      /\ \/ pc' = pc
         \/ pc \in {"gate", "take"} /\ pc' \in {"gate", "take"}
  BY CopaAssumption
     DEF Admit, FindNothing, alcc_send, SenderAt, SenderTypes, lists, clock
<1>2. sentSeq' = sentSeq /\ Packets' = Packets /\ Written' = Written
      /\ Announced' = Announced
  BY <1>1 DEF sentSeq, Packets, Written, End, Announced, SenderTypes
<1>3. SenderTypes' /\ ListTypes' /\ ReceiverTypes' /\ WindowTypes'
  BY <1>1, <1>2
     DEF SenderTypes, ListTypes, ReceiverTypes, WindowTypes, lists, clock, reportVars,
         windowVars, observed, history
<1>4. EndsInOrder' /\ RecordedInTurn' /\ TickedInTurn'
  BY <1>1, <1>2
     DEF EndsInOrder, End, RecordedInTurn, TickedInTurn, lists, clock, reportVars
<1>5. InStep'
  BY <1>1 DEF InStep, Position, Wire, reportVars, observed, history
<1>6. (CountedAcked => CountedAcked') /\ (EntriesLeft => EntriesLeft')
  BY <1>1, <1>2
     DEF CountedAcked, EntriesLeft, OvertakenInHand, lists, reportVars, observed
<1> QED  BY <1>1, <1>3, <1>4, <1>5, <1>6 DEF history

LEMMA TransmitPreserves ==
  ASSUME CopaInvariant, Transmit
  PROVE  CopaInvariant'
<1> USE DEF CopaInvariant, TypeOK
<1> DEFINE size == IF queued < MTU THEN queued ELSE MTU
<1>1. /\ UNCHANGED <<lists, clock, tcpSeq, rcvSeq, reportVars, _largest_ack,
                     windowVars, observed, history>>
      /\ pc = "take" /\ pc' = "sent" /\ queued > 0
      /\ queued' = queued - size /\ ends' = Append(ends, Written + size)
  BY DEF Transmit, SenderAt, clock
<1>2. size \in 1..MTU /\ size <= queued /\ queued' \in Nat
  BY <1>1, CopaAssumption DEF SenderTypes
<1>3. Written \in Nat /\ sentSeq \in Nat
  BY PositionNat DEF Written, SenderTypes, sentSeq
<1> HIDE DEF size
<1>4. /\ ends' \in Seq(Nat) /\ sentSeq' = sentSeq + 1
      /\ ends'[sentSeq'] = Written + size
      /\ \A k \in Packets : ends'[k] = ends[k]
      /\ Packets' = Packets \cup {sentSeq'}
  BY <1>1, <1>2, <1>3 DEF SenderTypes, sentSeq, Packets
<1>5. \A k \in 0..sentSeq : End(k)' = End(k)
  BY <1>4 DEF End, Packets
<1>6. Announced = sentSeq /\ Announced' = sentSeq
  BY <1>1, <1>3, <1>4 DEF Announced
<1>7. SenderTypes' /\ ListTypes' /\ ReceiverTypes' /\ WindowTypes'
  BY <1>1, <1>2, <1>4
     DEF SenderTypes, ListTypes, ReceiverTypes, WindowTypes, lists, clock, reportVars,
         windowVars, observed, history
<1>8. EndsInOrder'
  <2>1. Written <= sentSeq * MTU
    BY <1>3, CopaAssumption, NextMultiple DEF EndsInOrder, Written, End, Packets
  <2>2. (sentSeq + 1) * MTU = sentSeq * MTU + MTU /\ sentSeq * MTU \in Nat
    BY <1>3, CopaAssumption, NextMultiple
  <2>3. ends'[sentSeq'] <= sentSeq' * MTU
    BY <1>2, <1>3, <1>4, <2>1, <2>2, CopaAssumption
  <2>4. \A j \in 0..sentSeq : End(j)' < ends'[sentSeq']
    BY <1>2, <1>3, <1>4, <1>5, PositionNat, PositionOrder DEF Written
  <2>5. \A k \in Packets : \A j \in 0..(k - 1) : End(j)' < ends'[k]
    BY <1>3, <1>4, <1>5 DEF EndsInOrder, Packets
  <2>6. \A k \in Packets : ends'[k] <= k * MTU
    BY <1>4 DEF EndsInOrder
  <2> QED  BY <1>3, <1>4, <2>3, <2>4, <2>5, <2>6 DEF EndsInOrder, Packets
<1>9. RecordedInTurn' /\ TickedInTurn' /\ InStep'
  BY <1>1, <1>3, <1>4, <1>6
     DEF RecordedInTurn, TickedInTurn, InStep, Position, Wire, lists, clock, reportVars,
         observed, history
<1>10. CountedAcked => CountedAcked'
  <2>1. Written' = Written + size
    BY <1>3, <1>4 DEF Written, End
  <2> QED  BY <1>1, <1>2, <1>3, <2>1 DEF CountedAcked, reportVars, ReceiverTypes
<1>11. CountedAcked /\ EntriesLeft => EntriesLeft'
  <2> SUFFICES ASSUME CountedAcked, EntriesLeft
               PROVE  EntriesLeft'
    OBVIOUS
  <2>1. ~ OvertakenInHand
    BY <1>3, <1>6 DEF OvertakenInHand
  <2>2. rcvSeq < sentSeq'
    BY <1>3, <1>4, CountedWereSent DEF ReceiverTypes
  <2>3. ~ OvertakenInHand'
    BY <1>1, <1>3, <1>4, <2>2 DEF OvertakenInHand, ReceiverTypes
  <2> QED  BY <1>1, <1>6, <2>1, <2>3 DEF EntriesLeft, lists, observed
<1> QED  BY <1>1, <1>7, <1>8, <1>9, <1>10, <1>11 DEF history

\* The first two places and the clock: the list that onACK works on does not
\* change, and the clock has the time of the latest packet.
LEMMA RecordPreserves ==
  ASSUME CopaInvariant, RecordTime \/ RecordStamp \/ SetTick
  PROVE  CopaInvariant'
<1> USE DEF CopaInvariant, TypeOK
<1>1. /\ UNCHANGED <<queued, ends, unacknowledged_packets, ticked, tcpSeq, rcvSeq,
                     reportVars, _largest_ack, windowVars, observed, history>>
      /\ \/ /\ pc = "sent" /\ pc' = "recorded"
            /\ seqNumbersList' = seqNumbersList \cup {sentSeq}
            /\ UNCHANGED <<senderTimestampList, cur_tick>>
         \/ /\ pc = "recorded" /\ pc' = "stamped"
            /\ senderTimestampList' = senderTimestampList \cup {sentSeq}
            /\ UNCHANGED <<seqNumbersList, cur_tick>>
         \/ /\ pc = "stamped" /\ pc' = "timed"
            /\ cur_tick' = sentSeq
            /\ UNCHANGED <<seqNumbersList, senderTimestampList>>
  BY DEF RecordTime, RecordStamp, SetTick, SenderAt, lists
<1>2. sentSeq' = sentSeq /\ Packets' = Packets /\ Written' = Written
      /\ Announced' = Announced /\ sentSeq \in Packets /\ sentSeq \in Nat
  BY <1>1 DEF sentSeq, Packets, Written, End, Announced, SenderTypes, RecordedInTurn
<1>3. ListTypes' /\ RecordedInTurn'
  BY <1>1, <1>2 DEF ListTypes, RecordedInTurn
<1>4. SenderTypes' /\ ReceiverTypes' /\ WindowTypes'
  BY <1>1, <1>2
     DEF SenderTypes, ReceiverTypes, WindowTypes, reportVars, windowVars, observed,
         history
<1>5. TickedInTurn'
  <2> SUFFICES ASSUME ticked'
               PROVE  TickedInTurn'
    BY DEF TickedInTurn
  <2>1. /\ ticked /\ UNCHANGED <<toCount, rcvSeq>>
        /\ seqNumbersList \subseteq seqNumbersList'
    BY <1>1 DEF reportVars
  <2>2. toCount > 0 /\ rcvSeq + 1 \in seqNumbersList
        /\ (cur_tick = 0 \/ cur_tick >= rcvSeq + 1)
    BY <2>1 DEF TickedInTurn
  <2>3. rcvSeq + 1 <= sentSeq
    BY <1>2, <2>2 DEF ListTypes, Packets, ReceiverTypes
  <2>4. cur_tick' = cur_tick \/ cur_tick' = sentSeq
    BY <1>1
  <2> QED  BY <1>2, <2>1, <2>2, <2>3, <2>4 DEF TickedInTurn
<1>6. EndsInOrder' /\ InStep'
  BY <1>1, <1>2
     DEF EndsInOrder, End, InStep, Position, Wire, reportVars, observed, history
<1>7. (CountedAcked => CountedAcked') /\ (EntriesLeft => EntriesLeft')
  BY <1>1, <1>2 DEF CountedAcked, EntriesLeft, OvertakenInHand, reportVars, observed
<1> QED  BY <1>1, <1>3, <1>4, <1>5, <1>6, <1>7 DEF history

\* onPktSent: the packet joins the list.  If it was counted before, it becomes
\* an entry that is there for good.
LEMMA AnnouncePreserves ==
  ASSUME CopaInvariant, onPktSent
  PROVE  CopaInvariant'
<1> USE DEF CopaInvariant, TypeOK
<1>1. /\ UNCHANGED <<queued, ends, seqNumbersList, senderTimestampList, clock,
                     tcpSeq, rcvSeq, reportVars, _largest_ack, windowVars, observed,
                     history>>
      /\ pc = "timed" /\ pc' = "gate"
      /\ unacknowledged_packets' = unacknowledged_packets \cup {sentSeq}
  BY DEF onPktSent, SenderAt, clock
<1>2. /\ sentSeq' = sentSeq /\ Packets' = Packets /\ Written' = Written
      /\ sentSeq \in Nat \ {0}
      /\ Announced = sentSeq - 1 /\ Announced' = sentSeq
  BY <1>1 DEF sentSeq, Packets, Written, End, Announced, SenderTypes, RecordedInTurn
<1>3. ListTypes' /\ RecordedInTurn'
  <2>1. unacknowledged_packets' \subseteq 1..sentSeq
    BY <1>1, <1>2 DEF RecordedInTurn
  <2> QED  BY <1>1, <1>2, <2>1 DEF ListTypes, RecordedInTurn
<1>4. SenderTypes' /\ ReceiverTypes' /\ WindowTypes' /\ TickedInTurn'
  BY <1>1
     DEF SenderTypes, ReceiverTypes, WindowTypes, TickedInTurn, clock, reportVars,
         windowVars, observed, history
<1>5. EntriesLeft => EntriesLeft'
  <2> SUFFICES ASSUME EntriesLeft
               PROVE  EntriesLeft'
    OBVIOUS
  <2> DEFINE left == {k \in unacknowledged_packets : k <= rcvSeq}
             leftNow == {k \in unacknowledged_packets' : k <= rcvSeq}
  <2>1. left \in SUBSET (1..(sentSeq - 1)) /\ sentSeq \notin left
    <3>1. unacknowledged_packets \subseteq 1..(sentSeq - 1)
      BY <1>2 DEF RecordedInTurn
    <3>2. left \subseteq unacknowledged_packets
      OBVIOUS
    <3> HIDE DEF left
    <3>3. sentSeq \notin 1..(sentSeq - 1)
      BY <1>2
    <3> QED  BY <3>1, <3>2, <3>3
  <2>2. IsFiniteSet(left)
    BY <1>2, <2>1, FS_Interval, FS_Subset
  <2>3. ~ OvertakenInHand' /\ (OvertakenInHand <=> sentSeq <= rcvSeq)
    BY <1>1, <1>2 DEF OvertakenInHand
  <2>4. Cardinality(left) + (IF OvertakenInHand THEN 1 ELSE 0) = overtaken
        /\ Cardinality(left) \in Nat
    BY <2>2, FS_CardinalityType DEF EntriesLeft
  <2>5. Cardinality(leftNow) = overtaken
    <3>1. CASE sentSeq <= rcvSeq
      <4>1. leftNow = left \cup {sentSeq}
        BY <1>1, <3>1
      <4> HIDE DEF left, leftNow
      <4>2. Cardinality(leftNow) = Cardinality(left) + 1
        BY <2>1, <2>2, <4>1, FS_AddElement, Zenon
      <4> QED  BY <2>3, <2>4, <3>1, <4>2
    <3>2. CASE ~ (sentSeq <= rcvSeq)
      <4>1. leftNow = left
        BY <1>1, <3>2
      <4> HIDE DEF left, leftNow
      <4> QED  BY <2>3, <2>4, <3>2, <4>1
    <3> QED  BY <3>1, <3>2
  <2>6. (rcvSeq + 1)..sentSeq \subseteq unacknowledged_packets'
    <3>1. (rcvSeq + 1)..(sentSeq - 1) \subseteq unacknowledged_packets
      BY <1>2 DEF EntriesLeft
    <3> QED  BY <1>1, <1>2, <3>1 DEF ReceiverTypes
  <2>7. /\ leftNow = {k \in unacknowledged_packets' : k <= rcvSeq'}
        /\ rcvSeq' = rcvSeq /\ overtaken' = overtaken
    BY <1>1 DEF observed
  <2> HIDE DEF leftNow
  <2>8. Cardinality(leftNow) + (IF OvertakenInHand' THEN 1 ELSE 0) = overtaken'
    BY <2>3, <2>4, <2>5, <2>7
  <2> QED  BY <1>2, <2>6, <2>7, <2>8 DEF EntriesLeft
<1>6. EndsInOrder' /\ InStep' /\ (CountedAcked => CountedAcked')
  BY <1>1, <1>2
     DEF EndsInOrder, End, InStep, Position, CountedAcked, Wire, reportVars, observed,
         history
<1> QED  BY <1>1, <1>3, <1>4, <1>5, <1>6 DEF history

LEMMA SenderPreserves ==
  ASSUME CopaInvariant, Sender \/ \E n \in Writes : alcc_send(n)
  PROVE  CopaInvariant'
BY GatePreserves, TransmitPreserves, RecordPreserves, AnnouncePreserves DEF Sender

-----------------------------------------------------------------------------
(* ack_receiver.                                                           *)

\* The receiver's steps leave the stream and the sender alone.
LEMMA StreamFrame ==
  ASSUME CopaInvariant, UNCHANGED senderVars
  PROVE  /\ SenderTypes' /\ EndsInOrder'
         /\ sentSeq' = sentSeq /\ Packets' = Packets /\ Written' = Written
         /\ Announced' = Announced
BY DEF CopaInvariant, TypeOK, SenderTypes, EndsInOrder, End, sentSeq, Packets, Written,
       Announced, senderVars

\* A place on the circle of sequence numbers; only the place of 0 may be 0.
LEMMA OnRange ==
  ASSUME NEW a \in Nat, NEW b \in Nat, NEW m \in Nat \ {0}
  PROVE  /\ (a + b) % m \in 0..(m - 1)
         /\ (a + b) % m # 0 => a + b > 0
<1>1. a + b \in Nat
  OBVIOUS
<1>2. 0 % m = 0
  BY SMT
<1> QED  BY <1>1, <1>2, LapAndRest

\* The count starts at the packet of the first report.  (Its number may be 0,
\* in which case it is as if there had been no report.)
LEMMA StartPreserves ==
  ASSUME CopaInvariant, NEW k \in Packets, OutgoingReport(k)
  PROVE  CopaInvariant'
<1> USE DEF CopaInvariant, TypeOK
<1>1. /\ UNCHANGED <<senderVars, lists, clock, rcvSeq, reportVars, _largest_ack,
                     windowVars, observed, wentBack>>
      /\ tcpSeq = 0 /\ toCount = 0 /\ tcpSeq' = Wire(End(k - 1))
      /\ startsAt' = End(k - 1)
  BY DEF OutgoingReport
<1>2. /\ SenderTypes' /\ EndsInOrder' /\ sentSeq' = sentSeq /\ Packets' = Packets
      /\ Written' = Written /\ Announced' = Announced
  BY <1>1, StreamFrame
<1>3. /\ startsAt' \in Nat /\ FirstSeq \in Nat /\ MODULUS \in Nat \ {0}
      /\ rcvSeq = 0 /\ toCount = 0 /\ reported = 0
  <2>1. k - 1 \in 0..sentSeq
    BY DEF Packets, SenderTypes, sentSeq
  <2> QED  BY <1>1, <2>1, PositionNat, CopaAssumption DEF InStep
<1>4. tcpSeq' = (FirstSeq + startsAt') % MODULUS /\ tcpSeq' \in 0..(MODULUS - 1)
  <2>1. tcpSeq' = (FirstSeq + startsAt') % MODULUS
    BY <1>1 DEF Wire
  <2> QED  BY <1>3, <2>1, OnRange
<1>5. ListTypes' /\ ReceiverTypes' /\ WindowTypes' /\ RecordedInTurn' /\ TickedInTurn'
  BY <1>1, <1>2, <1>3, <1>4
     DEF ListTypes, ReceiverTypes, WindowTypes, RecordedInTurn, TickedInTurn, lists,
         clock, reportVars, windowVars, observed, senderVars
<1>6. InStep'
  <2>1. rcvSeq' = 0 /\ toCount' = 0 /\ reported' = 0 /\ 0 * MTU = 0
        /\ sample' = "none"
    BY <1>1, <1>3, CopaAssumption DEF reportVars, observed, InStep
  <2>2. Position' = startsAt'
    BY <1>3, <2>1 DEF Position
  <2>3. tcpSeq' # 0 => FirstSeq + startsAt' > 0
    BY <1>3, <1>4, OnRange
  <2> QED  BY <1>1, <1>4, <2>1, <2>2, <2>3 DEF InStep, Wire
<1>7. (CountedAcked => CountedAcked') /\ (EntriesLeft => EntriesLeft')
  BY <1>1, <1>2 DEF CountedAcked, EntriesLeft, OvertakenInHand, lists, reportVars,
                    observed
<1> QED  BY <1>1, <1>2, <1>5, <1>6, <1>7

\* Whatever was acknowledged, tcpSeq is the number of a position.
LEMMA OnTheCircle ==
  ASSUME CopaInvariant, tcpSeq # 0
  PROVE  /\ Position \in Nat /\ rcvSeq * MTU \in Nat /\ startsAt \in Nat
         /\ Position = startsAt + rcvSeq * MTU
         /\ FirstSeq + Position \in Nat \ {0} /\ MODULUS \in Nat \ {0}
         /\ tcpSeq = IF (FirstSeq + Position) % MODULUS = 0
                       THEN MODULUS ELSE (FirstSeq + Position) % MODULUS
<1>1. rcvSeq \in Nat /\ startsAt \in Nat /\ MTU \in Nat /\ FirstSeq \in Nat
      /\ MODULUS \in Nat \ {0}
  BY CopaAssumption DEF CopaInvariant, TypeOK, ReceiverTypes
<1>2. rcvSeq * MTU \in Nat
  BY <1>1, NextMultiple
<1>3. Position = startsAt + rcvSeq * MTU
  BY DEF Position
<1>4. FirstSeq + Position > 0 /\ tcpSeq = IF Wire(Position) = 0 THEN MODULUS
                                                             ELSE Wire(Position)
  BY DEF CopaInvariant, InStep
<1> QED  BY <1>1, <1>2, <1>3, <1>4 DEF Wire

\* The packets an acknowledgement of position p adds to those counted are full
\* packets before p, if p is not behind what was counted.
LEMMA CountFits ==
  ASSUME CopaInvariant, tcpSeq # 0, NEW p \in Nat, Position <= p
  PROVE  /\ numAcks(Wire(p)) \in Nat
         /\ (rcvSeq + numAcks(Wire(p))) * MTU <= p
<1> DEFINE base == rcvSeq * MTU
           x == FirstSeq + Position
           y == FirstSeq + p
           a == Wire(p)
           n == numAcks(a)
<1>1. /\ MTU \in Nat \ {0} /\ MODULUS \in Nat \ {0} /\ rcvSeq \in Nat /\ base \in Nat
      /\ x \in Nat \ {0} /\ y \in Nat /\ startsAt \in Nat /\ Position = startsAt + base
  BY OnTheCircle, CopaAssumption DEF CopaInvariant, TypeOK, ReceiverTypes
<1>2. tcpSeq = IF x % MODULUS = 0 THEN MODULUS ELSE x % MODULUS
  BY OnTheCircle
<1>3. a = y % MODULUS
  BY DEF Wire
<1>4. x <= y /\ y - x = p - Position
  BY <1>1, CopaAssumption
<1> HIDE DEF base, x, y, a
<1>5. /\ tcpSeq \in 1..MODULUS /\ a \in 0..(MODULUS - 1)
      /\ a >= tcpSeq => a - tcpSeq <= y - x
      /\ a < tcpSeq => MODULUS - tcpSeq + a <= y - x
  <2>1. LET b == y % MODULUS
            t == IF x % MODULUS = 0 THEN MODULUS ELSE x % MODULUS
        IN  /\ t \in 1..MODULUS /\ b \in 0..(MODULUS - 1)
            /\ x <= y /\ b >= t => b - t <= y - x
            /\ x <= y /\ b < t => MODULUS - t + b <= y - x
    BY <1>1, Around
  <2> QED  BY <1>2, <1>3, <1>4, <2>1
<1>6. PICK d \in Nat : n = d \div MTU /\ d <= p - Position
  <2>1. CASE a >= tcpSeq
    BY <1>4, <1>5, <2>1 DEF numAcks
  <2>2. CASE a < tcpSeq
    <3>1. n = (MODULUS - tcpSeq + a) \div MTU
      BY <1>5, <2>2 DEF numAcks
    <3>2. MODULUS - tcpSeq + a \in Nat /\ MODULUS - tcpSeq + a <= p - Position
      BY <1>1, <1>4, <1>5, <2>2
    <3> QED  BY <3>1, <3>2
  <2> QED  BY <1>5, <2>1, <2>2
<1>7. n \in Nat /\ n * MTU <= d
  BY <1>1, <1>6, WholePackets
<1> HIDE DEF n
<1>8. (rcvSeq + n) * MTU = base + n * MTU /\ n * MTU \in Nat
  BY <1>1, <1>7, SMT DEF base
<1>9. (rcvSeq + n) * MTU <= p
  BY <1>1, <1>6, <1>7, <1>8
<1> QED  BY <1>7, <1>9 DEF n, a

\* What an acknowledgement of any position adds is a number of packets.
LEMMA CountIsNat ==
  ASSUME CopaInvariant, tcpSeq # 0, NEW p \in Nat
  PROVE  numAcks(Wire(p)) \in Nat
<1>1. Wire(p) \in 0..(MODULUS - 1) /\ tcpSeq \in 1..MODULUS /\ MTU \in Nat \ {0}
      /\ MODULUS \in Nat \ {0}
  BY CopaAssumption, LapAndRest DEF Wire, CopaInvariant, TypeOK, ReceiverTypes
<1> DEFINE a == Wire(p)
           d == IF a >= tcpSeq THEN a - tcpSeq ELSE MODULUS - tcpSeq + a
<1>2. d \in Nat
  BY <1>1
<1>3. numAcks(a) = d \div MTU
  BY DEF numAcks
<1> HIDE DEF a, d
<1> QED  BY <1>1, <1>2, <1>3, WholePackets DEF a

\* A step of AckPreserves and ExactAck: what a report does.
LEMMA AckStep ==
  ASSUME CopaInvariant,
         \/ \E p \in 1..Written : NewAck(p)
         \/ \E p \in 0..Written : OldAck(p)
  PROVE  \E p \in 0..Written :
           /\ p \in Nat /\ Written \in Nat /\ p <= Written /\ reported \in Nat
           /\ UNCHANGED <<senderVars, lists, clock, tcpSeq, rcvSeq, _largest_ack,
                          windowVars, observed, startsAt>>
           /\ toCount = 0 /\ tcpSeq # 0 /\ before' = reported
           /\ toCount' = IF Accepted(Wire(p)) THEN numAcks(Wire(p)) ELSE 0
           /\ wentBack' = (wentBack \/ (Accepted(Wire(p)) /\ p < Position))
           /\ \/ p > reported /\ reported' = p
              \/ p <= reported /\ reported' = reported
<1>1. Written \in Nat /\ reported \in Nat
  BY PositionNat DEF Written, CopaInvariant, TypeOK, SenderTypes, ReceiverTypes, sentSeq
<1>2. PICK p \in 0..Written :
        /\ HandleAck(p)
        /\ \/ p > reported /\ reported' = p
           \/ p <= reported /\ reported' = reported
  BY <1>1 DEF NewAck, OldAck
<1>3. p \in Nat /\ p <= Written
  BY <1>1
<1> QED  BY <1>1, <1>2, <1>3 DEF HandleAck

LEMMA AckPreserves ==
  ASSUME CopaInvariant,
         \/ \E p \in 1..Written : NewAck(p)
         \/ \E p \in 0..Written : OldAck(p)
  PROVE  CopaInvariant'
<1> USE DEF CopaInvariant, TypeOK
<1>1. PICK p \in 0..Written :
        /\ p \in Nat /\ Written \in Nat /\ p <= Written /\ reported \in Nat
        /\ UNCHANGED <<senderVars, lists, clock, tcpSeq, rcvSeq, _largest_ack,
                       windowVars, observed, startsAt>>
        /\ toCount = 0 /\ tcpSeq # 0 /\ before' = reported
        /\ toCount' = IF Accepted(Wire(p)) THEN numAcks(Wire(p)) ELSE 0
        /\ wentBack' = (wentBack \/ (Accepted(Wire(p)) /\ p < Position))
        /\ \/ p > reported /\ reported' = p
           \/ p <= reported /\ reported' = reported
  BY AckStep
<1>2. /\ SenderTypes' /\ EndsInOrder' /\ sentSeq' = sentSeq /\ Packets' = Packets
      /\ Written' = Written /\ Announced' = Announced
  BY <1>1, StreamFrame
<1>3. /\ reported' \in Nat /\ reported <= reported' /\ p <= reported'
      /\ (reported <= Written => reported' <= Written)
  BY <1>1
<1>4. toCount' \in Nat
  <2>1. numAcks(Wire(p)) \in Nat
    BY <1>1, CountIsNat
  <2> QED  BY <1>1, <2>1
<1>5. ASSUME ~ wentBack', CountedAcked
      PROVE  (rcvSeq + toCount') * MTU <= reported'
  <2>1. CASE Accepted(Wire(p))
    <3>1. Position <= p
      <4>1. ~ (p < Position)
        BY <1>1, <1>5, <2>1, Zenon
      <4>2. p \in Nat /\ Position \in Nat
        BY <1>1, OnTheCircle
      <4> QED  BY <4>1, <4>2
    <3>2. /\ numAcks(Wire(p)) \in Nat
          /\ (rcvSeq + numAcks(Wire(p))) * MTU <= p
      BY <1>1, <3>1, CountFits
    <3>3. toCount' = numAcks(Wire(p))
      BY <1>1, <2>1
    <3> HIDE DEF CopaInvariant, TypeOK
    <3>4. (rcvSeq + toCount') * MTU \in Nat
      BY <3>2, <3>3, CopaAssumption, NextMultiple
         DEF CopaInvariant, TypeOK, ReceiverTypes
    <3> QED  BY <1>1, <1>3, <3>2, <3>3, <3>4
  <2>2. CASE ~ Accepted(Wire(p))
    <3>1. (rcvSeq + 0) * MTU <= reported /\ (rcvSeq + 0) * MTU \in Nat
      BY <1>1, <1>5, CopaAssumption, NextMultiple DEF CountedAcked, ReceiverTypes
    <3> QED  BY <1>1, <1>3, <2>2, <3>1
  <2> QED  BY <2>1, <2>2
<1>6. wentBack' \in BOOLEAN /\ (wentBack => wentBack')
  BY <1>1, Zenon DEF ReceiverTypes
<1>7. ListTypes' /\ ReceiverTypes' /\ WindowTypes' /\ RecordedInTurn'
  BY <1>1, <1>2, <1>3, <1>4, <1>6
     DEF ListTypes, ReceiverTypes, WindowTypes, RecordedInTurn, lists, clock,
         windowVars, observed, senderVars
<1>8. TickedInTurn'
  BY <1>1, <1>4 DEF TickedInTurn, clock
<1>9. InStep'
  BY <1>1 DEF InStep, Position, Wire, observed
<1>10. ~ wentBack' => CountedAcked' /\ EntriesLeft'
  <2> SUFFICES ASSUME ~ wentBack'
               PROVE  CountedAcked' /\ EntriesLeft'
    OBVIOUS
  <2>1. CountedAcked /\ EntriesLeft
    BY <1>6
  <2>2. CountedAcked'
    BY <1>1, <1>2, <1>3, <1>5, <2>1 DEF CountedAcked
  <2>3. EntriesLeft'
    BY <1>1, <1>2, <2>1 DEF EntriesLeft, OvertakenInHand, lists, observed
  <2> QED  BY <2>2, <2>3
<1> QED  BY <1>2, <1>7, <1>8, <1>9, <1>10

\* What the window may become.
LEMMA WindowStep ==
  ASSUME WindowTypes, update_intersend_time
  PROVE  _the_window' \in 2..MaxWindow /\ slow_start' \in BOOLEAN
<1>1. CASE UNCHANGED <<_the_window, slow_start>>
  BY <1>1 DEF WindowTypes
<1>2. CASE \E target \in Targets :
             /\ _the_window < MaxWindow
             /\ _the_window' = Floored(_the_window + 1)
             /\ slow_start' = (_the_window + 1 < target)
  <2>1. slow_start' \in BOOLEAN
    BY <1>2
  <2>2. _the_window' = Floored(_the_window + 1) /\ _the_window < MaxWindow
    BY <1>2
  <2> QED  BY <2>1, <2>2, CopaAssumption DEF WindowTypes, Floored
<1>3. CASE /\ slow_start' = slow_start /\ _the_window' <= MaxWindow
           /\ \E step \in Steps : _the_window' = Floored(_the_window + step)
  BY <1>3, CopaAssumption DEF WindowTypes, Floored
<1>4. CASE /\ slow_start' = slow_start
           /\ \E step \in Steps : _the_window' = Floored(_the_window - step)
  BY <1>4, CopaAssumption DEF WindowTypes, Floored
<1> QED  BY <1>1, <1>2, <1>3, <1>4 DEF update_intersend_time

\* If seq is on the list, one entry goes, the oldest: it is not after seq.
LEMMA OldestGoes ==
  ASSUME NEW seq, seq \in unacknowledged_packets,
         unacknowledged_packets \subseteq Nat
  PROVE  \E m \in unacknowledged_packets :
            /\ m <= seq
            /\ Taken(seq) = unacknowledged_packets \ {m}
<1> DEFINE U == unacknowledged_packets
<1>1. PICK m \in U : \A k \in U : m <= k
  BY SmallestExists
<1>2. \A k \in U : (\A j \in U : k <= j) <=> k = m
  <2> SUFFICES ASSUME NEW k \in U
               PROVE  (\A j \in U : k <= j) <=> k = m
    OBVIOUS
  <2>1. k \in Nat /\ m \in Nat /\ m <= k
    BY <1>1
  <2>2. ASSUME \A j \in U : k <= j
        PROVE  k = m
    <3>1. k <= m
      BY <2>2
    <3> QED  BY <2>1, <3>1
  <2> QED  BY <1>1, <2>2
<1>3. {k \in U : \A j \in U : k <= j} = {m}
  BY <1>2, Zenon
<1> QED  BY <1>1, <1>3 DEF Taken

\* set_timestamp: the clock and nothing else.
LEMMA TickPreserves ==
  ASSUME CopaInvariant, Tick
  PROVE  CopaInvariant'
<1> USE DEF CopaInvariant, TypeOK
<1>1. /\ UNCHANGED <<senderVars, lists, tcpSeq, rcvSeq, reportVars, _largest_ack,
                     windowVars, observed, history>>
      /\ toCount > 0 /\ rcvSeq + 1 \in seqNumbersList
      /\ cur_tick' = 0 /\ ticked' = TRUE
  BY DEF Tick
<1>2. /\ SenderTypes' /\ EndsInOrder' /\ sentSeq' = sentSeq /\ Packets' = Packets
      /\ Written' = Written /\ Announced' = Announced
  BY <1>1, StreamFrame
<1>3. ListTypes' /\ ReceiverTypes' /\ WindowTypes' /\ RecordedInTurn'
  BY <1>1, <1>2
     DEF ListTypes, ReceiverTypes, WindowTypes, RecordedInTurn, lists, reportVars,
         windowVars, observed, senderVars, history
<1>4. TickedInTurn' /\ InStep'
  BY <1>1
     DEF TickedInTurn, InStep, Position, Wire, lists, reportVars, observed, history
<1>5. (CountedAcked => CountedAcked') /\ (EntriesLeft => EntriesLeft')
  BY <1>1, <1>2
     DEF CountedAcked, EntriesLeft, OvertakenInHand, lists, reportVars, observed
<1> QED  BY <1>1, <1>2, <1>3, <1>4, <1>5 DEF history

\* A packet is counted: an entry leaves the list if the packet is there;
\* otherwise the packet is the one in pkt_sender's hand.
LEMMA CountPreserves ==
  ASSUME CopaInvariant, CountPacket
  PROVE  CopaInvariant'
<1> USE DEF CopaInvariant, TypeOK
<1> DEFINE seq == rcvSeq + 1
           U == unacknowledged_packets
           left == {k \in U : k <= rcvSeq}
           leftNow == {k \in U' : k <= seq}
<1>1. /\ UNCHANGED <<senderVars, seqNumbersList, senderTimestampList, cur_tick,
                     reported, before, history>>
      /\ ticked' = FALSE
      /\ toCount > 0 /\ toCount' = toCount - 1 /\ rcvSeq' = seq
      /\ tcpSeq' = Wrapped(tcpSeq + MTU)
      /\ overtaken' = IF seq \in U THEN overtaken ELSE overtaken + 1
      /\ \/ /\ seq \in seqNumbersList /\ onACK(seq)
            /\ _largest_ack' = IF seq > _largest_ack THEN seq ELSE _largest_ack
         \/ /\ seq \notin seqNumbersList
            /\ UNCHANGED <<_largest_ack, windowVars, unacknowledged_packets, sample>>
  BY DEF CountPacket, TickedInTurn
<1>2. /\ SenderTypes' /\ EndsInOrder' /\ sentSeq' = sentSeq /\ Packets' = Packets
      /\ Written' = Written /\ Announced' = Announced
  BY <1>1, StreamFrame
<1>3. /\ rcvSeq \in Nat /\ toCount \in Nat /\ seq \in Nat \ {0} /\ sentSeq \in Nat
      /\ Announced \in Nat /\ Announced \in {sentSeq - 1, sentSeq}
      /\ U \subseteq 1..Announced
  <2>1. rcvSeq \in Nat /\ toCount \in Nat /\ sentSeq \in Nat
    BY DEF ReceiverTypes, SenderTypes, sentSeq
  <2>2. Announced \in {sentSeq - 1, sentSeq} /\ Announced \in Nat
    BY <2>1 DEF Announced, RecordedInTurn
  <2> QED  BY <2>1, <2>2 DEF RecordedInTurn
<1>4. \/ /\ seq \notin U /\ U' = U
      \/ /\ seq \in U
         /\ \E m \in U : m <= seq /\ U' = U \ {m}
  <2>1. CASE seq \in U
    <3>1. U' = Taken(seq)
      BY <1>1, <2>1 DEF ListTypes, onACK
    <3>2. U \subseteq Nat
      BY <1>3
    <3> QED  BY <2>1, <3>1, <3>2, OldestGoes
  <2>2. CASE seq \notin U
    <3>1. Taken(seq) = U
      BY <2>2 DEF Taken
    <3> QED  BY <1>1, <2>2, <3>1 DEF onACK
  <2> QED  BY <2>1, <2>2
<1>5. U' \subseteq U
  BY <1>4
<1>6. tcpSeq # 0
  BY <1>1 DEF InStep
<1>7. InStep' /\ tcpSeq' \in 0..MODULUS
  <2> DEFINE x == FirstSeq + Position
  <2>1. rcvSeq * MTU \in Nat /\ seq * MTU = rcvSeq * MTU + MTU
    BY <1>3, CopaAssumption, NextMultiple
  <2>2. /\ x \in Nat \ {0} /\ MODULUS \in Nat \ {0} /\ startsAt \in Nat
        /\ Position = startsAt + rcvSeq * MTU
        /\ tcpSeq = IF x % MODULUS = 0 THEN MODULUS ELSE x % MODULUS
    BY <1>6, OnTheCircle
  <2>3. Position' = Position + MTU
    <3>1. rcvSeq' = seq /\ startsAt' = startsAt
      BY <1>1 DEF history
    <3> HIDE DEF seq
    <3>2. Position' = startsAt + seq * MTU
      BY <3>1 DEF Position
    <3> QED  BY <2>1, <2>2, <3>2, CopaAssumption
  <2>4. FirstSeq + Position' = x + MTU
    BY <2>2, <2>3, CopaAssumption
  <2> HIDE DEF x, seq
  <2>5. LET t == IF x % MODULUS = 0 THEN MODULUS ELSE x % MODULUS
            n == t + MTU
        IN  (IF n > MODULUS THEN n - MODULUS ELSE n)
              = IF (x + MTU) % MODULUS = 0 THEN MODULUS ELSE (x + MTU) % MODULUS
    BY <2>2, CopaAssumption, GoForward
  <2>6. tcpSeq' = IF (x + MTU) % MODULUS = 0 THEN MODULUS ELSE (x + MTU) % MODULUS
    BY <1>1, <2>2, <2>5 DEF Wrapped
  <2>7. (x + MTU) % MODULUS \in 0..(MODULUS - 1) /\ x + MTU > 0
    BY <2>2, CopaAssumption, SMT
  <2>8. tcpSeq' \in 1..MODULUS
    BY <2>2, <2>6, <2>7
  <2>9. Wire(Position)' = (x + MTU) % MODULUS
    BY <2>4 DEF Wire
  <2> QED  BY <2>4, <2>6, <2>7, <2>8, <2>9 DEF InStep
<1>8. ReceiverTypes'
  <2>1. ticked' \in BOOLEAN
    BY <1>1
  <2>2. wentBack' \in BOOLEAN
    BY <1>1, Zenon DEF history, ReceiverTypes
  <2> QED  BY <1>1, <1>3, <1>7, <2>1, <2>2 DEF ReceiverTypes, history
<1>9. WindowTypes'
  <2>1. CASE onACK(seq)
    <3>1. _the_window' \in 2..MaxWindow /\ slow_start' \in BOOLEAN
      BY <2>1, WindowStep DEF onACK
    <3>2. sample' \in {"none", "timely", "late", "short", "negative", "unstamped"}
      BY <2>1 DEF onACK, Sampled
    <3>3. num_pkts_acked' \in Nat
      BY <2>1 DEF onACK, WindowTypes
    <3> QED  BY <1>1, <1>3, <3>1, <3>2, <3>3 DEF WindowTypes, windowVars
  <2>2. CASE UNCHANGED <<_largest_ack, windowVars, sample>>
    BY <1>1, <2>2 DEF WindowTypes, windowVars
  <2> QED  BY <1>1, <2>1, <2>2
<1>10. ListTypes' /\ RecordedInTurn' /\ TickedInTurn'
  BY <1>1, <1>2, <1>5 DEF ListTypes, RecordedInTurn, TickedInTurn, senderVars
<1>11. CountedAcked => CountedAcked'
  <2>1. rcvSeq' + toCount' = rcvSeq + toCount
    BY <1>1, <1>3
  <2> QED  BY <1>1, <1>2, <2>1 DEF CountedAcked
<1>12. IsFiniteSet(left) /\ seq \notin left /\ Cardinality(left) \in Nat
  <2>1. left \subseteq U /\ \A k \in left : k <= rcvSeq
    OBVIOUS
  <2> HIDE DEF left
  <2>2. seq \notin left
    BY <1>3, <2>1
  <2>3. left \in SUBSET (1..Announced) /\ IsFiniteSet(1..Announced)
    BY <1>3, <2>1, FS_Interval
  <2>4. IsFiniteSet(left)
    BY <2>3, FS_Subset, Zenon
  <2> QED  BY <2>2, <2>4, FS_CardinalityType
<1>13. OvertakenInHand' <=> Announced < sentSeq /\ sentSeq <= seq
  BY <1>1, <1>2 DEF OvertakenInHand
<1>14. ASSUME CountedAcked, EntriesLeft
       PROVE  EntriesLeft'
  <2>1. seq <= sentSeq /\ seq..Announced \subseteq U
    <3>1. rcvSeq + toCount <= sentSeq
      BY <1>14, CountedWereSent
    <3> QED  BY <1>1, <1>3, <1>14, <3>1 DEF EntriesLeft
  <2>2. Cardinality(left) + (IF OvertakenInHand THEN 1 ELSE 0) = overtaken
    BY <1>14 DEF EntriesLeft
  <2>3. Cardinality(leftNow) + (IF OvertakenInHand' THEN 1 ELSE 0) = overtaken'
    <3>1. CASE seq \in U
      <4>1. PICK m \in U : m <= seq /\ U' = U \ {m}
        BY <1>4, <3>1
      <4>2. leftNow = (left \cup {seq}) \ {m} /\ m \in left \cup {seq}
        <5>1. \A k \in U : k <= seq <=> k <= rcvSeq \/ k = seq
          BY <1>3
        <5>2. leftNow = {k \in U \ {m} : k <= seq}
          BY <4>1
        <5>3. \A k : k \in leftNow <=> k \in U /\ k # m /\ k <= seq
          BY <5>2
        <5>4. \A k : k \in left \cup {seq} <=> k \in U /\ k <= seq
          BY <1>3, <3>1, <5>1
        <5> HIDE DEF left, leftNow
        <5> QED  BY <4>1, <5>3, <5>4, Zenon
      <4>3. ~ OvertakenInHand /\ ~ OvertakenInHand'
        BY <1>3, <1>13, <3>1 DEF OvertakenInHand
      <4> HIDE DEF left, leftNow, seq
      <4>4. /\ IsFiniteSet(left \cup {seq})
            /\ Cardinality(left \cup {seq}) = Cardinality(left) + 1
        BY <1>12, FS_AddElement, Zenon
      <4>5. Cardinality(leftNow) = Cardinality(left \cup {seq}) - 1
        BY <4>2, <4>4, FS_RemoveElement, Zenon
      <4> QED  BY <1>1, <1>12, <2>2, <3>1, <4>3, <4>4, <4>5
    <3>2. CASE seq \notin U
      <4>1. U' = U
        BY <1>4, <3>2
      <4>2. leftNow = left
        <5>1. \A k \in U : k <= seq <=> k <= rcvSeq
          BY <1>3, <3>2
        <5> QED  BY <4>1, <5>1
      <4>3. Announced = sentSeq - 1 /\ seq = sentSeq
        BY <1>3, <2>1, <3>2
      <4>4. ~ OvertakenInHand /\ OvertakenInHand'
        BY <1>3, <1>13, <4>3 DEF OvertakenInHand
      <4> HIDE DEF left, leftNow
      <4> QED  BY <1>1, <1>12, <2>2, <3>2, <4>2, <4>4
    <3> QED  BY <3>1, <3>2
  <2>4. (seq + 1)..Announced \subseteq U'
    <3> SUFFICES ASSUME NEW k \in (seq + 1)..Announced
                 PROVE  k \in U'
      OBVIOUS
    <3>1. k \in U /\ k > seq
      BY <1>3, <2>1
    <3> QED  BY <1>3, <1>4, <3>1
  <2> HIDE DEF seq
  <2> QED  BY <1>1, <1>2, <2>3, <2>4 DEF EntriesLeft
<1> QED  BY <1>1, <1>2, <1>7, <1>8, <1>9, <1>10, <1>11, <1>14 DEF history

-----------------------------------------------------------------------------
LEMMA NextPreserves == CopaInvariant /\ [Next]_vars => CopaInvariant'
<1> SUFFICES ASSUME CopaInvariant, [Next]_vars
             PROVE  CopaInvariant'
  OBVIOUS
<1>1. CASE Sender \/ \E n \in Writes : alcc_send(n)
  BY <1>1, SenderPreserves
<1>2. CASE \E k \in Packets : OutgoingReport(k)
  BY <1>2, StartPreserves
<1>3. CASE \/ \E p \in 1..Written : NewAck(p)
           \/ \E p \in 0..Written : OldAck(p)
  BY <1>3, AckPreserves
<1>4. CASE Tick \/ CountPacket
  BY <1>4, TickPreserves, CountPreserves
<1>5. CASE UNCHANGED vars
  <2>1. /\ SenderTypes' /\ EndsInOrder' /\ sentSeq' = sentSeq /\ Packets' = Packets
        /\ Written' = Written /\ Announced' = Announced
    BY <1>5, StreamFrame DEF vars
  <2>2. TypeOK' /\ RecordedInTurn' /\ TickedInTurn' /\ InStep'
    BY <1>5, <2>1
       DEF vars, senderVars, lists, clock, reportVars, windowVars, observed, history,
           CopaInvariant, TypeOK, ListTypes, ReceiverTypes, WindowTypes, RecordedInTurn,
           TickedInTurn, InStep, Position, Wire
  <2>3. (CountedAcked => CountedAcked') /\ (EntriesLeft => EntriesLeft')
        /\ wentBack' = wentBack
    BY <1>5, <2>1
       DEF vars, lists, reportVars, observed, history, CountedAcked, EntriesLeft,
           OvertakenInHand
  <2> QED  BY <2>1, <2>2, <2>3 DEF CopaInvariant
<1> QED  BY <1>1, <1>2, <1>3, <1>4, <1>5 DEF Next

\* At every step of pkt_sender and ack_receiver, however the window moves and
\* whatever is acknowledged, CopaInvariant holds.
THEOREM InvariantHolds == Spec => []CopaInvariant
BY InitEstablishes, NextPreserves, PTL DEF Spec

\* The variables keep their types; the window never goes below 2.
THEOREM TypeCorrect == Spec => []TypeOK
<1>1. CopaInvariant => TypeOK
  BY DEF CopaInvariant
<1> QED  BY <1>1, InvariantHolds, PTL

\* As long as ack_receiver does not take an acknowledgement from before a wrap
\* for a new one, it counts no packet that was not acknowledged: before and
\* after any number of wraps, and whichever report it took for the first.
THEOREM OnlyDelivered == Spec => []CountsOnlyDelivered
<1>1. CopaInvariant => CountsOnlyDelivered
  BY CountedWereSent DEF CopaInvariant, CountsOnlyDelivered
<1> QED  BY <1>1, InvariantHolds, PTL

\* unacknowledged_packets holds the packets in flight and one entry more for
\* each packet that was counted before onPktSent, as long as ack_receiver does
\* not take an acknowledgement from before a wrap for a new one.
THEOREM LeftoversAreExact == Spec => []LeftoversExact
<1>1. CopaInvariant => LeftoversExact
  BY DEF CopaInvariant, LeftoversExact
<1> QED  BY <1>1, InvariantHolds, PTL

-----------------------------------------------------------------------------
(* The window below half of the sequence numbers: every acknowledged packet *)
(* is counted, in time.                                                    *)

\* The packets in flight are less than half of the circle.
SmallWindow == MaxWindow * MTU < MODULUS \div 2

\* Between positions less than m apart, going forward on the circle is exact.
LEMMA ExactlyAround ==
  ASSUME NEW m \in Nat \ {0}, NEW x \in Nat \ {0}, NEW y \in Nat,
         x <= y, y - x < m \div 2
  PROVE  LET a == y % m
             t == IF x % m = 0 THEN m ELSE x % m
         IN  /\ a >= t => a - t = y - x
             /\ a < t => m - t + a = y - x /\ t - a > m \div 2
<1> DEFINE a == y % m
           t == IF x % m = 0 THEN m ELSE x % m
           l == IF x % m = 0 THEN (x \div m) - 1 ELSE x \div m
           n == y \div m
           h == m \div 2
<1>1. /\ x % m \in 0..(m - 1) /\ x \div m \in Nat
      /\ x = (x \div m) * m + (x % m) /\ (x \div m) * m \in Nat
  BY LapAndRest
<1>2. a \in 0..(m - 1) /\ n \in Nat /\ y = n * m + a /\ n * m \in Nat
  BY LapAndRest
<1>3. t \in 1..m /\ l \in Nat /\ x = l * m + t /\ l * m \in Nat
  <2>1. CASE x % m = 0
    <3>1. x \div m # 0
      BY <1>1, <2>1
    <3>2. l \in Nat /\ x \div m = l + 1
      BY <1>1, <2>1, <3>1
    <3>3. (x \div m) * m = l * m + m /\ l * m \in Nat
      BY <3>2, NextMultiple
    <3> QED  BY <1>1, <2>1, <3>2, <3>3
  <2>2. CASE x % m # 0
    BY <1>1, <2>2
  <2> QED  BY <2>1, <2>2
<1>4. h \in Nat /\ h + h <= m
  BY SMT
<1> HIDE DEF a, t, l, n, h
<1>5. y - x < h
  BY DEF h
<1>6. CASE n = l
  <2>1. a - t = y - x /\ a >= t
    BY <1>2, <1>3, <1>6
  <2> QED  BY <1>2, <1>3, <2>1 DEF a, t
<1>7. CASE n = l + 1
  <2>1. n * m = l * m + m
    BY <1>3, <1>7, NextMultiple
  <2>2. m - t + a = y - x
    BY <1>2, <1>3, <2>1
  <2>3. a < t /\ t - a > h
    BY <1>2, <1>3, <1>4, <1>5, <2>2
  <2> QED  BY <1>2, <1>3, <2>2, <2>3 DEF a, t, h
<1>8. CASE n < l
  <2>1. n + 1 <= l /\ (n + 1) * m = n * m + m
    BY <1>2, <1>3, <1>8, NextMultiple
  <2>2. (n + 1) * m <= l * m
    BY <1>2, <1>3, <2>1, MultipleGrows
  <2> QED  BY <1>2, <1>3, <2>1, <2>2
<1>9. CASE n > l + 1
  <2>1. (l + 1) * m = l * m + m /\ (l + 1 + 1) * m = (l + 1) * m + m
    BY <1>3, NextMultiple
  <2>2. (l + 1 + 1) * m <= n * m
    BY <1>2, <1>3, <1>9, MultipleGrows
  <2> QED  BY <1>2, <1>3, <1>4, <1>5, <2>1, <2>2
<1> QED  BY <1>2, <1>3, <1>6, <1>7, <1>8, <1>9

\* Whole packets in a difference, up to the last.
LEMMA WholeExact ==
  ASSUME NEW s \in Nat, NEW m \in Nat \ {0}, NEW d \in Nat
  PROVE  d \div m \in Nat /\ s * m + d < (s + (d \div m) + 1) * m
<1> DEFINE n == d \div m
<1>1. n \in Nat /\ d < n * m + m /\ n * m \in Nat
  BY SMT
<1> HIDE DEF n
<1>2. (s + n + 1) * m = s * m + n * m + m /\ s * m \in Nat
  BY <1>1, SMT
<1> QED  BY <1>1, <1>2 DEF n

\* The bytes not counted yet fit into the window.
LEMMA InWindow ==
  ASSUME CopaInvariant, WithinWindow, SmallWindow
  PROVE  Written - rcvSeq * MTU < MODULUS \div 2
<1> USE DEF CopaInvariant, TypeOK
<1>1. /\ sentSeq \in Nat /\ rcvSeq \in Nat /\ MaxWindow \in Nat /\ MTU \in Nat \ {0}
      /\ _largest_ack \in Int /\ Written \in Nat
  BY CopaAssumption, PositionNat
     DEF SenderTypes, ReceiverTypes, WindowTypes, sentSeq, Written
<1>2. sentSeq <= rcvSeq + MaxWindow
  BY <1>1 DEF WithinWindow
<1>3. Written <= sentSeq * MTU
  <2>1. CASE sentSeq = 0
    BY <1>1, <2>1 DEF Written, End
  <2>2. CASE sentSeq # 0
    BY <1>1, <2>2 DEF Written, End, EndsInOrder, Packets
  <2> QED  BY <2>1, <2>2
<1>4. /\ sentSeq * MTU <= (rcvSeq + MaxWindow) * MTU /\ sentSeq * MTU \in Nat
      /\ (rcvSeq + MaxWindow) * MTU \in Nat
  BY <1>1, <1>2, MultipleGrows
<1>5. /\ (rcvSeq + MaxWindow) * MTU = rcvSeq * MTU + MaxWindow * MTU
      /\ rcvSeq * MTU \in Nat /\ MaxWindow * MTU \in Nat
  BY <1>1, SMT
<1>6. MODULUS \div 2 \in Nat
  BY CopaAssumption, SMT
<1> QED  BY <1>1, <1>3, <1>4, <1>5, <1>6 DEF SmallWindow

\* An acknowledgement of new bytes is accepted whenever it has a packet to
\* count, and all of its packets are counted.
LEMMA CountFitsExactly ==
  ASSUME CopaInvariant, WithinWindow, SmallWindow, tcpSeq # 0, startsAt = 0,
         NEW p \in Nat, rcvSeq * MTU <= p, p <= Written
  PROVE  /\ Accepted(Wire(p)) /\ numAcks(Wire(p)) \in Nat
         /\ p < (rcvSeq + numAcks(Wire(p)) + 1) * MTU
<1> DEFINE base == rcvSeq * MTU
           x == FirstSeq + base
           y == FirstSeq + p
           a == Wire(p)
           d == p - base
<1>1. /\ base \in Nat /\ x \in Nat \ {0} /\ MODULUS \in Nat \ {0} /\ Position = base
      /\ tcpSeq = IF x % MODULUS = 0 THEN MODULUS ELSE x % MODULUS
  BY OnTheCircle
<1>2. /\ MTU \in Nat \ {0} /\ rcvSeq \in Nat /\ FirstSeq \in Nat
      /\ y \in Nat /\ Written \in Nat
  BY CopaAssumption, PositionNat
     DEF CopaInvariant, TypeOK, SenderTypes, ReceiverTypes, Written, sentSeq
<1>3. a = y % MODULUS
  BY DEF Wire
<1>4. x <= y /\ y - x = d /\ d \in Nat
  BY <1>1, <1>2
<1>5. y - x < MODULUS \div 2
  <2>1. Written - base < MODULUS \div 2 /\ MODULUS \div 2 \in Nat
    BY <1>1, InWindow, SMT
  <2> QED  BY <1>1, <1>2, <1>4, <2>1
<1> HIDE DEF base, x, y, a, d
<1>6. /\ a >= tcpSeq => a - tcpSeq = y - x
      /\ a < tcpSeq => MODULUS - tcpSeq + a = y - x /\ tcpSeq - a > MODULUS \div 2
  <2>1. LET b == y % MODULUS
            t == IF x % MODULUS = 0 THEN MODULUS ELSE x % MODULUS
        IN  /\ b >= t => b - t = y - x
            /\ b < t => MODULUS - t + b = y - x /\ t - b > MODULUS \div 2
    BY <1>1, <1>2, <1>4, <1>5, ExactlyAround
  <2> QED  BY <1>1, <1>3, <2>1
<1>7. a \in Nat /\ tcpSeq \in Nat /\ tcpSeq > 0
  BY <1>1, <1>2, <1>3, LapAndRest DEF CopaInvariant, TypeOK, ReceiverTypes
<1>8. Accepted(a)
  BY <1>6, <1>7 DEF Accepted
<1>9. numAcks(a) = d \div MTU
  BY <1>4, <1>6, <1>7 DEF numAcks
<1>10. base + d = p
  BY <1>1 DEF d
<1>11. numAcks(a) \in Nat /\ base + d < (rcvSeq + numAcks(a) + 1) * MTU
  BY <1>2, <1>4, <1>9, WholeExact DEF base
<1> QED  BY <1>8, <1>10, <1>11 DEF a

LEMMA ExactInit == Init => ExactInvariant
<1> SUFFICES ASSUME Init
             PROVE  ExactInvariant
  OBVIOUS
<1>1. /\ sentSeq = 0 /\ pc = "gate" /\ rcvSeq = 0 /\ toCount = 0 /\ reported = 0
      /\ _largest_ack = -1 /\ sample = "none"
  BY DEF Init, sentSeq
<1>2. MTU \in Nat \ {0} /\ MaxWindow \in Nat /\ MaxWindow >= 2 /\ (0 + 0 + 1) * MTU = MTU
  BY CopaAssumption
<1> QED
  BY <1>1, <1>2 DEF ExactInvariant, WithinWindow, CountsAll, SamplesTimely

\* AllFull speaks of the packets so far.
LEMMA FullBefore ==
  ASSUME CopaInvariant, AllFull', UNCHANGED ends \/ Transmit
  PROVE  AllFull
<1>1. CASE UNCHANGED ends
  BY <1>1 DEF AllFull, Packets, sentSeq
<1>2. CASE Transmit
  <2>1. /\ sentSeq \in Nat /\ sentSeq' = sentSeq + 1
        /\ \A k \in Packets : ends'[k] = ends[k]
    BY <1>2 DEF Transmit, CopaInvariant, TypeOK, SenderTypes, Packets, sentSeq
  <2> QED  BY <2>1 DEF AllFull, Packets
<1> QED  BY <1>1, <1>2

\* The gate lets a packet pass only if the window has room for it.
LEMMA ExactSender ==
  ASSUME CopaInvariant, ExactInvariant, Sender \/ \E n \in Writes : alcc_send(n)
  PROVE  ExactInvariant'
<1> USE DEF CopaInvariant, TypeOK, ExactInvariant
<1>1. UNCHANGED <<rcvSeq, toCount, reported, before, _largest_ack, _the_window,
                  sample, overtaken, startsAt, wentBack>>
  BY DEF Sender, Admit, FindNothing, Transmit, RecordTime, RecordStamp, SetTick,
         onPktSent, SenderAt, alcc_send, reportVars, windowVars, observed, history
<1>2. /\ sentSeq \in Nat /\ _largest_ack \in Int /\ rcvSeq \in Nat
      /\ _the_window \in 2..MaxWindow /\ MaxWindow \in Nat
  BY CopaAssumption DEF SenderTypes, ReceiverTypes, WindowTypes, sentSeq
<1>3. WithinWindow'
  <2>1. CASE Admit
    <3>1. sentSeq' = sentSeq /\ sentSeq + 1 < _largest_ack + 1 + _the_window
      BY <2>1 DEF Admit, sentSeq
    <3> QED  BY <1>1, <1>2, <3>1 DEF WithinWindow
  <2>2. CASE Transmit
    <3>1. sentSeq' = sentSeq + 1 /\ pc = "take" /\ pc' = "sent"
      BY <2>2 DEF Transmit, SenderAt, sentSeq, SenderTypes
    <3> QED  BY <1>1, <1>2, <3>1 DEF WithinWindow
  <2>3. CASE \/ FindNothing \/ RecordTime \/ RecordStamp \/ SetTick \/ onPktSent
             \/ \E n \in Writes : alcc_send(n)
    <3>1. sentSeq' = sentSeq /\ (pc' = pc \/ pc' # "take")
      BY <2>3 DEF FindNothing, RecordTime, RecordStamp, SetTick, onPktSent, SenderAt,
                  alcc_send, sentSeq
    <3> QED  BY <1>1, <1>2, <3>1 DEF WithinWindow
  <2> QED  BY <2>1, <2>2, <2>3 DEF Sender
<1>4. CountsAll'
  BY <1>1 DEF CountsAll, Led
<1>5. SamplesTimely'
  <2>1. UNCHANGED ends \/ Transmit
    BY DEF Sender, Admit, FindNothing, RecordTime, RecordStamp, SetTick, onPktSent,
           alcc_send
  <2> QED  BY <1>1, <2>1, FullBefore DEF SamplesTimely, Led
<1> QED  BY <1>3, <1>4, <1>5

LEMMA ExactAck ==
  ASSUME SmallWindow, CopaInvariant, ExactInvariant,
         \/ \E p \in 1..Written : NewAck(p)
         \/ \E p \in 0..Written : OldAck(p)
  PROVE  ExactInvariant'
<1> USE DEF CopaInvariant, TypeOK, ExactInvariant
<1>1. PICK p \in 0..Written :
        /\ p \in Nat /\ Written \in Nat /\ p <= Written /\ reported \in Nat
        /\ UNCHANGED <<senderVars, lists, clock, tcpSeq, rcvSeq, _largest_ack,
                       windowVars, observed, startsAt>>
        /\ toCount = 0 /\ tcpSeq # 0 /\ before' = reported
        /\ toCount' = IF Accepted(Wire(p)) THEN numAcks(Wire(p)) ELSE 0
        /\ wentBack' = (wentBack \/ (Accepted(Wire(p)) /\ p < Position))
        /\ \/ p > reported /\ reported' = p
           \/ p <= reported /\ reported' = reported
  BY AckStep
<1>2. UNCHANGED <<ends, pc, sample, overtaken>>
  BY <1>1 DEF senderVars, observed
<1>3. Led' => Led
  <2>1. wentBack => wentBack'
    BY <1>1, Zenon
  <2> QED  BY <1>1, <2>1 DEF Led
<1>4. CountsAll'
  <2> SUFFICES ASSUME Led'
               PROVE  /\ reported' < (rcvSeq + toCount' + 1) * MTU
                      /\ reported < (rcvSeq + 1) * MTU
    BY <1>1 DEF CountsAll
  <2>1. startsAt = 0 /\ ~ wentBack /\ ~ wentBack'
    BY <1>1, <1>3 DEF Led
  <2>2. rcvSeq \in Nat /\ rcvSeq + 0 = rcvSeq /\ MTU \in Nat \ {0}
    BY CopaAssumption DEF ReceiverTypes
  <2>3. rcvSeq * MTU <= reported /\ reported < (rcvSeq + 1) * MTU
    BY <1>1, <2>1, <2>2 DEF CountedAcked, CountsAll, Led
  <2>4. /\ rcvSeq * MTU \in Nat /\ (rcvSeq + 1) * MTU \in Nat
        /\ Position = rcvSeq * MTU
    BY <1>1, <2>1, <2>2, NextMultiple, OnTheCircle
  <2>5. CASE p > reported /\ reported' = p
    <3>1. rcvSeq * MTU <= p
      BY <1>1, <2>3, <2>4, <2>5
    <3>2. /\ Accepted(Wire(p)) /\ numAcks(Wire(p)) \in Nat
          /\ p < (rcvSeq + numAcks(Wire(p)) + 1) * MTU
      BY <1>1, <2>1, <3>1, CountFitsExactly
    <3>3. toCount' = numAcks(Wire(p))
      BY <1>1, <3>2
    <3> QED  BY <2>3, <2>5, <3>2, <3>3
  <2>6. CASE p <= reported /\ reported' = reported
    <3>1. toCount' = 0
      <4> SUFFICES ASSUME Accepted(Wire(p))
                   PROVE  numAcks(Wire(p)) = 0
        BY <1>1
      <4> DEFINE n == numAcks(Wire(p))
      <4>1. Position <= p
        <5>1. ~ (p < Position)
          BY <1>1, <2>1, Zenon
        <5>2. p \in Nat /\ Position \in Nat
          BY <1>1, OnTheCircle
        <5> QED  BY <5>1, <5>2
      <4>2. n \in Nat /\ (rcvSeq + n) * MTU <= p
        BY <1>1, <4>1, CountFits
      <4> HIDE DEF n
      <4> SUFFICES ASSUME n # 0
                   PROVE  FALSE
        BY DEF n
      <4>3. rcvSeq + 1 <= rcvSeq + n /\ rcvSeq + 1 \in Nat /\ rcvSeq + n \in Nat
        BY <2>2, <4>2
      <4>4. (rcvSeq + 1) * MTU <= (rcvSeq + n) * MTU /\ (rcvSeq + n) * MTU \in Nat
        BY <2>2, <4>3, MultipleGrows
      <4> QED  BY <1>1, <2>3, <2>4, <2>6, <4>2, <4>4
    <3> QED  BY <2>2, <2>3, <2>6, <3>1
  <2> QED  BY <1>1, <2>3, <2>5, <2>6
<1>5. WithinWindow' /\ SamplesTimely'
  <2>1. AllFull' => AllFull
    BY <1>2, FullBefore
  <2>2. sentSeq' = sentSeq
    BY <1>2 DEF sentSeq
  <2> QED  BY <1>1, <1>2, <1>3, <2>1, <2>2 DEF WithinWindow, SamplesTimely
<1> QED  BY <1>4, <1>5

\* A packet is counted: it was acknowledged by the present report first, and its
\* time is missing only if pkt_sender still has the packet in its hand.
LEMMA ExactCount ==
  ASSUME CopaInvariant, ExactInvariant, CountPacket
  PROVE  ExactInvariant'
<1> USE DEF CopaInvariant, TypeOK, ExactInvariant
<1> DEFINE seq == rcvSeq + 1
           U == unacknowledged_packets
<1>1. /\ UNCHANGED <<ends, pc, reported, before, startsAt, wentBack>>
      /\ toCount > 0 /\ toCount' = toCount - 1 /\ rcvSeq' = seq
      /\ overtaken' = IF seq \in U THEN overtaken ELSE overtaken + 1
      /\ \/ /\ seq \in seqNumbersList /\ sample' = Sampled(seq)
            /\ cur_tick = 0 \/ cur_tick >= seq
            /\ _largest_ack' = IF seq > _largest_ack THEN seq ELSE _largest_ack
         \/ /\ seq \notin seqNumbersList
            /\ UNCHANGED <<_largest_ack, sample>>
  BY DEF CountPacket, onACK, senderVars, history, TickedInTurn
<1>2. /\ rcvSeq \in Nat /\ toCount \in Nat /\ seq \in Nat \ {0} /\ overtaken \in Nat
      /\ reported \in Nat /\ before \in Nat /\ _largest_ack \in Int /\ MTU \in Nat \ {0}
      /\ MaxWindow \in Nat /\ sentSeq \in Nat /\ sentSeq' = sentSeq
      /\ U \subseteq seqNumbersList /\ U \subseteq senderTimestampList
  BY <1>1, CopaAssumption
     DEF SenderTypes, ReceiverTypes, WindowTypes, ListTypes, sentSeq
<1>3. WithinWindow'
  <2>1. _largest_ack <= _largest_ack' /\ _largest_ack' <= seq /\ _largest_ack' \in Int
    BY <1>1, <1>2 DEF WithinWindow
  <2>2. overtaken' = 0 => _largest_ack' = seq
    BY <1>1, <1>2 DEF WithinWindow
  <2> DEFINE taken == IF pc = "take" THEN 1 ELSE 0
             latest == _largest_ack'
  <2>3. taken \in Int /\ latest \in Int /\ _largest_ack <= latest
        /\ sentSeq + taken <= _largest_ack + MaxWindow
    BY <2>1 DEF WithinWindow
  <2> HIDE DEF seq, taken, latest
  <2>4. sentSeq + taken <= latest + MaxWindow
    BY <1>2, <2>3
  <2>5. overtaken' = 0 => _largest_ack' = IF rcvSeq' = 0 THEN -1 ELSE rcvSeq'
    BY <1>1, <1>2, <2>2
  <2> QED  BY <1>1, <1>2, <2>1, <2>4, <2>5 DEF WithinWindow, taken, latest
<1>4. Led' <=> Led
  BY <1>1 DEF Led
<1>5. CountsAll'
  <2> SUFFICES ASSUME Led
               PROVE  /\ reported' < (rcvSeq' + toCount' + 1) * MTU
                      /\ before' < (rcvSeq' + 1) * MTU
    BY <1>4 DEF CountsAll
  <2>1. rcvSeq' + toCount' = rcvSeq + toCount
    BY <1>1, <1>2
  <2>2. seq * MTU <= (seq + 1) * MTU /\ seq * MTU \in Nat /\ (seq + 1) * MTU \in Nat
    BY <1>2, MultipleGrows
  <2>3. before < seq * MTU /\ reported < (rcvSeq + toCount + 1) * MTU
    BY <1>1 DEF CountsAll
  <2> HIDE DEF seq
  <2> QED  BY <1>1, <1>2, <2>1, <2>2, <2>3
<1>6. SamplesTimely'
  <2> SUFFICES ASSUME AllFull', Led
               PROVE  \/ sample' \in {"none", "timely", "short"}
                      \/ sample' = "unstamped" /\ overtaken' > 0
    BY <1>4 DEF SamplesTimely
  <2>1. AllFull
    BY <1>1, FullBefore
  <2>2. CASE seq \notin seqNumbersList
    <3>1. sample' = sample /\ overtaken' = overtaken + 1
      BY <1>1, <1>2, <2>2
    <3> QED  BY <1>2, <2>1, <3>1 DEF SamplesTimely
  <2>3. CASE seq \in seqNumbersList /\ seq \notin senderTimestampList
    <3>1. seq \notin U
      BY <1>2, <2>3
    <3>2. overtaken' = overtaken + 1 /\ sample' = Sampled(seq)
      BY <1>1, <2>3, <3>1
    <3>3. sample' = "unstamped"
      BY <2>3, <3>2 DEF Sampled
    <3> QED  BY <1>2, <3>2, <3>3
  <2>4. CASE seq \in seqNumbersList /\ seq \in senderTimestampList
    <3>1. sample' = Sampled(seq) /\ (cur_tick = 0 \/ cur_tick >= seq)
      BY <1>1, <2>4
    <3>2. End(seq) = seq * MTU
      BY <1>2, <2>1, <2>4 DEF AllFull, ListTypes, End
    <3>3. before < seq * MTU
      BY <1>1 DEF CountsAll
    <3>4. seq * MTU <= (rcvSeq + toCount) * MTU /\ (rcvSeq + toCount) * MTU \in Nat
          /\ seq * MTU \in Nat
      BY <1>1, <1>2, MultipleGrows
    <3>5. (rcvSeq + toCount) * MTU <= reported
      BY DEF CountedAcked, Led
    <3> HIDE DEF seq
    <3>6. End(seq) <= reported
      BY <1>2, <3>2, <3>4, <3>5
    <3> QED  BY <2>4, <3>1, <3>2, <3>3, <3>6 DEF Sampled
  <2> QED  BY <2>2, <2>3, <2>4
<1> QED  BY <1>3, <1>5, <1>6

LEMMA ExactNext ==
  ASSUME SmallWindow
  PROVE  CopaInvariant /\ ExactInvariant /\ [Next]_vars => ExactInvariant'
<1> SUFFICES ASSUME CopaInvariant, ExactInvariant, [Next]_vars
             PROVE  ExactInvariant'
  OBVIOUS
<1>1. CASE Sender \/ \E n \in Writes : alcc_send(n)
  BY <1>1, ExactSender
<1>2. CASE (\E k \in Packets : OutgoingReport(k)) \/ Tick \/ UNCHANGED vars
  <2>1. UNCHANGED <<ends, pc, rcvSeq, toCount, reported, before, _largest_ack, sample,
                    overtaken, wentBack>>
    BY <1>2 DEF OutgoingReport, Tick, vars, senderVars, reportVars, observed, history
  <2>2. AllFull' => AllFull
    BY <2>1, FullBefore
  <2>3. sentSeq' = sentSeq
    BY <2>1 DEF sentSeq
  <2>4. CASE UNCHANGED startsAt
    BY <2>1, <2>2, <2>3, <2>4
       DEF ExactInvariant, WithinWindow, CountsAll, SamplesTimely, Led
  <2>5. CASE \E k \in Packets : OutgoingReport(k)
    <3>1. rcvSeq = 0 /\ toCount = 0 /\ reported = 0 /\ sample = "none"
      BY <2>5 DEF OutgoingReport, CopaInvariant, InStep
    <3>2. MTU \in Nat \ {0} /\ (0 + 0 + 1) * MTU = MTU
      BY CopaAssumption
    <3> QED
      BY <2>1, <2>3, <3>1, <3>2
         DEF ExactInvariant, WithinWindow, CountsAll, SamplesTimely
  <2> QED  BY <1>2, <2>4, <2>5 DEF Tick, vars, history
<1>3. CASE \/ \E p \in 1..Written : NewAck(p)
           \/ \E p \in 0..Written : OldAck(p)
  BY <1>3, ExactAck
<1>4. CASE CountPacket
  BY <1>4, ExactCount
<1> QED  BY <1>1, <1>2, <1>3, <1>4 DEF Next

\* With the window below half of the sequence numbers every whole MTU that was
\* acknowledged is counted, across any number of wraps, as long as ack_receiver
\* follows the connection.
THEOREM ExactHolds ==
  ASSUME SmallWindow
  PROVE  Spec => []ExactInvariant
BY ExactInit, ExactNext, InvariantHolds, PTL DEF Spec

\* With full packets, and as long as ack_receiver follows the connection, an RTT
\* sample never ends after the first report that acknowledges its packet and
\* never before the packet was taken, whichever thread set the clock last; only
\* after an early acknowledgement the packet's time may be missing.
THEOREM TimelySamples ==
  ASSUME SmallWindow
  PROVE  Spec => []SamplesTimely
<1>1. ExactInvariant => SamplesTimely
  BY DEF ExactInvariant
<1> QED  BY <1>1, ExactHolds, PTL

\* With full packets and none acknowledged early, the window has room for the
\* next packet once everything has been acknowledged and counted.
THEOREM NeverShutForGood ==
  ASSUME SmallWindow
  PROVE  Spec => []NeverShut
<1>1. CopaInvariant /\ ExactInvariant => NeverShut
  <2> SUFFICES ASSUME CopaInvariant, ExactInvariant,
                      AllFull, Led, overtaken = 0, toCount = 0, reported = Written
               PROVE  sentSeq + 1 < _largest_ack + 1 + _the_window
    BY DEF NeverShut
  <2> USE DEF CopaInvariant, TypeOK, ExactInvariant
  <2>1. /\ sentSeq \in Nat /\ rcvSeq \in Nat /\ _the_window \in Nat /\ _the_window >= 2
        /\ MTU \in Nat \ {0}
    BY CopaAssumption DEF SenderTypes, ReceiverTypes, WindowTypes, sentSeq
  <2>2. Written = sentSeq * MTU
    <3>1. CASE sentSeq = 0
      BY <2>1, <3>1 DEF Written, End
    <3>2. CASE sentSeq # 0
      BY <2>1, <3>2 DEF Written, End, AllFull, Packets
    <3> QED  BY <3>1, <3>2
  <2>3. sentSeq <= rcvSeq
    <3> SUFFICES ASSUME rcvSeq + 1 <= sentSeq
                 PROVE  FALSE
      BY <2>1
    <3>1. (rcvSeq + 1) * MTU <= sentSeq * MTU /\ (rcvSeq + 1) * MTU \in Nat
          /\ sentSeq * MTU \in Nat
      BY <2>1, MultipleGrows
    <3>2. sentSeq * MTU < (rcvSeq + 1) * MTU
      BY <2>1, <2>2 DEF CountsAll
    <3> QED  BY <3>1, <3>2
  <2>4. _largest_ack = IF rcvSeq = 0 THEN -1 ELSE rcvSeq
    BY DEF WithinWindow
  <2> QED  BY <2>1, <2>3, <2>4
<1> QED  BY <1>1, InvariantHolds, ExactHolds, PTL

-----------------------------------------------------------------------------
(* The socket implements the sliding window.                               *)

\* pkt_sender looked at _largest_ack some time ago, but the window it found
\* open has not closed over the packet it is about to send.
LEMMA TransmitIsSend ==
  ASSUME CopaInvariant, CountedAcked, WithinWindow, Transmit
  PROVE  Window!Send
<1> DEFINE size == IF queued < MTU THEN queued ELSE MTU
           n == sentSeq
           D == {k \in Packets : ends[k] <= reported}
<1>1. /\ ends' = Append(ends, Written + size) /\ ends \in Seq(Nat)
      /\ UNCHANGED <<rcvSeq, reported>>
      /\ pc = "take" /\ size \in Nat \ {0} /\ n \in Nat
  BY CopaAssumption
     DEF Transmit, SenderAt, reportVars, CopaInvariant, TypeOK, SenderTypes, sentSeq
<1>2. Written \in Nat /\ reported \in Nat /\ reported <= Written
  BY PositionNat
     DEF CopaInvariant, TypeOK, SenderTypes, ReceiverTypes, CountedAcked, Written,
         sentSeq
<1> HIDE DEF size
<1>3. /\ sentSeq' = n + 1 /\ ends'[n + 1] = Written + size
      /\ \A k \in 1..n : ends'[k] = ends[k]
      /\ n = sentSeq
  BY <1>1, <1>2 DEF sentSeq
<1> HIDE DEF n
<1>4. n < rcvSeq + MaxWindow
  <2>1. n + 1 <= _largest_ack + MaxWindow /\ _largest_ack <= rcvSeq
    BY <1>1, <1>3 DEF WithinWindow
  <2>2. _largest_ack \in Int /\ rcvSeq \in Nat /\ MaxWindow \in Nat
    BY CopaAssumption DEF CopaInvariant, TypeOK, ReceiverTypes, WindowTypes
  <2> QED  BY <1>1, <2>1, <2>2
<1>5. AckedPackets' = AckedPackets
  <2> DEFINE last == ends'[n + 1]
  <2>1. ~ (last <= reported)
    <3>1. Written + size \in Nat /\ Written + size > reported
      BY <1>1, <1>2
    <3>2. last = Written + size
      BY <1>3
    <3> HIDE DEF last
    <3> QED  BY <1>2, <3>1, <3>2
  <2>2. Packets = 1..n /\ Packets' = 1..(n + 1)
    BY <1>3 DEF Packets
  <2>3. /\ n \in Nat /\ reported' = reported
        /\ \A k \in 1..n : ends'[k] = ends[k]
    BY <1>1, <1>3
  <2>4. D' = {k \in 1..(n + 1) : ends'[k] <= reported}
    BY <2>2, <2>3
  <2>5. D = {k \in 1..n : ends[k] <= reported}
    BY <2>2
  <2>6. AckedPackets = Cardinality(D) /\ AckedPackets' = Cardinality(D')
    BY DEF AckedPackets
  <2> HIDE DEF D
  <2>7. D' = D
    BY <2>1, <2>3, <2>4, <2>5
  <2> QED  BY <2>6, <2>7
<1> QED  BY <1>1, <1>3, <1>4, <1>5 DEF Window!Send, n

\* The packets acknowledged are some of those sent.
LEMMA AckedAreSent ==
  ASSUME CopaInvariant, NEW r \in Nat
  PROVE  LET E == {k \in Packets : ends[k] <= r}
         IN  IsFiniteSet(E) /\ Cardinality(E) \in Nat /\ Cardinality(E) <= sentSeq
<1> DEFINE E == {k \in Packets : ends[k] <= r}
<1>1. sentSeq \in Nat
  BY DEF CopaInvariant, TypeOK, SenderTypes, sentSeq
<1>2. E \subseteq 1..sentSeq
  BY DEF Packets
<1> HIDE DEF E
<1>3. IsFiniteSet(1..sentSeq) /\ Cardinality(1..sentSeq) = sentSeq
  BY <1>1, FS_Interval
<1>4. IsFiniteSet(E) /\ Cardinality(E) <= sentSeq /\ Cardinality(E) \in Nat
  BY <1>2, <1>3, FS_Subset, FS_CardinalityType
<1> QED  BY <1>4 DEF E

\* A report adds to what is acknowledged, and the loop over its packets counts
\* them one by one.
LEMMA AckIsReceive ==
  ASSUME CopaInvariant, rcvSeq + toCount <= AckedPackets,
         NEW p \in Nat, NewAck(p) \/ OldAck(p)
  PROVE  Window!Receive
<1> DEFINE D == {k \in Packets : ends[k] <= reported}
           E == {k \in Packets : ends[k] <= reported'}
<1>1. /\ UNCHANGED <<ends, sentSeq, rcvSeq>> /\ sentSeq \in Nat
      /\ reported \in Nat /\ reported' \in Nat /\ reported <= reported'
      /\ rcvSeq \in Nat /\ toCount \in Nat
      /\ \A k \in Packets : ends[k] \in Nat
  BY DEF CopaInvariant, TypeOK, SenderTypes, ReceiverTypes, NewAck, OldAck, HandleAck,
         senderVars, sentSeq, Packets
<1>2. AckedPackets = Cardinality(D) /\ AckedPackets' = Cardinality(E)
  BY <1>1 DEF AckedPackets, Packets
<1>3. D \subseteq E
  BY <1>1
<1>4. /\ Cardinality(D) \in Nat
      /\ IsFiniteSet(E) /\ Cardinality(E) \in Nat /\ Cardinality(E) <= sentSeq
  BY <1>1, AckedAreSent
<1> HIDE DEF D, E
<1>5. rcvSeq <= Cardinality(D)
  BY <1>1, <1>2, <1>4
<1>6. Cardinality(D) <= Cardinality(E)
  BY <1>3, <1>4, FS_Subset
<1>7. AckedPackets' \in AckedPackets..sentSeq
  BY <1>1, <1>2, <1>4, <1>6
<1>8. rcvSeq' \in rcvSeq..AckedPackets'
  BY <1>1, <1>2, <1>4, <1>5, <1>6
<1> QED  BY <1>1, <1>7, <1>8 DEF Window!Receive

LEMMA CountIsReceive ==
  ASSUME CopaInvariant, rcvSeq + toCount <= AckedPackets, CountPacket
  PROVE  Window!Receive
<1>1. /\ UNCHANGED <<ends, reported>> /\ sentSeq' = sentSeq /\ sentSeq \in Nat
      /\ toCount > 0 /\ toCount \in Nat /\ rcvSeq \in Nat /\ rcvSeq' = rcvSeq + 1
      /\ reported \in Nat
  BY DEF CopaInvariant, TypeOK, SenderTypes, ReceiverTypes, CountPacket, senderVars,
         sentSeq
<1>2. AckedPackets' = AckedPackets
  BY <1>1 DEF AckedPackets, Packets
<1>3. AckedPackets \in Nat /\ AckedPackets <= sentSeq
  BY <1>1, AckedAreSent DEF AckedPackets
<1>4. AckedPackets' \in AckedPackets..sentSeq
  BY <1>1, <1>2, <1>3
<1>5. rcvSeq' \in rcvSeq..AckedPackets'
  BY <1>1, <1>2, <1>3
<1> QED  BY <1>1, <1>4, <1>5 DEF Window!Receive

LEMMA StepIsWindowStep ==
  ASSUME CopaInvariant, WithinWindow, ~ wentBack, [Next]_vars
  PROVE  [Window!Next]_(Window!vars)
<1>1. CountedAcked /\ rcvSeq + toCount <= AckedPackets
  BY CountedWereSent DEF CopaInvariant
<1>2. CASE Transmit
  BY <1>1, <1>2, TransmitIsSend DEF Window!Next
<1>3. CASE \/ \E p \in 1..Written : NewAck(p)
           \/ \E p \in 0..Written : OldAck(p)
  <2>1. PICK p \in Nat : NewAck(p) \/ OldAck(p)
    BY <1>3
  <2> QED  BY <1>1, <2>1, AckIsReceive DEF Window!Next
<1>4. CASE CountPacket
  BY <1>1, <1>4, CountIsReceive DEF Window!Next
<1>5. CASE \/ \E n \in Writes : alcc_send(n)
           \/ Admit \/ FindNothing \/ RecordTime \/ RecordStamp \/ SetTick \/ onPktSent
           \/ (\E k \in Packets : OutgoingReport(k)) \/ Tick \/ UNCHANGED vars
  <2>1. UNCHANGED <<ends, reported, rcvSeq>>
    BY <1>5
       DEF alcc_send, Admit, FindNothing, RecordTime, RecordStamp, SetTick, onPktSent,
           SenderAt, OutgoingReport, Tick, vars, senderVars, reportVars
  <2> QED  BY <2>1 DEF Window!vars, AckedPackets, Packets, sentSeq
<1> QED  BY <1>2, <1>3, <1>4, <1>5 DEF Next, Sender

\* Seen from its two ends, a Copa socket is a sliding window of the largest
\* window its RTTs may give it, across any number of wraps, until an
\* acknowledgement from before a wrap is taken for a new one.
THEOREM RefinesWindow ==
  ASSUME SmallWindow
  PROVE  Spec => ImplementsWindow
<1>1. Init => Window!Init
  <2> SUFFICES ASSUME Init
               PROVE  Window!Init
    OBVIOUS
  <2>1. sentSeq = 0 /\ {k \in Packets : ends[k] <= reported} = {} /\ rcvSeq = 0
    BY DEF Init, sentSeq, Packets
  <2> QED  BY <2>1, FS_EmptySet DEF Window!Init, AckedPackets
<1>2. CopaInvariant /\ ExactInvariant /\ [Next]_vars
        => [wentBack' \/ Window!Next]_(Window!vars)
  <2> SUFFICES ASSUME CopaInvariant, ExactInvariant, [Next]_vars, ~ wentBack'
               PROVE  [Window!Next]_(Window!vars)
    OBVIOUS
  <2>1. ~ wentBack
    <3>1. CASE wentBack' = wentBack
      BY <3>1
    <3>2. CASE \/ \E p \in 1..Written : NewAck(p)
               \/ \E p \in 0..Written : OldAck(p)
      <4>1. wentBack => wentBack'
        BY <3>2, Zenon DEF NewAck, OldAck, HandleAck
      <4> QED  BY <4>1
    <3>3. CASE \/ Sender \/ \E n \in Writes : alcc_send(n)
               \/ (\E k \in Packets : OutgoingReport(k)) \/ Tick \/ CountPacket
               \/ UNCHANGED vars
      <4>1. wentBack' = wentBack
        BY <3>3
           DEF Sender, alcc_send, Admit, FindNothing, Transmit, RecordTime, RecordStamp,
               SetTick, onPktSent, SenderAt, OutgoingReport, Tick, CountPacket, vars,
               history
      <4> QED  BY <4>1
    <3> QED  BY <3>2, <3>3 DEF Next
  <2> QED  BY <2>1, StepIsWindowStep DEF ExactInvariant
<1> QED
  BY <1>1, <1>2, InvariantHolds, ExactHolds, PTL
     DEF Spec, ImplementsWindow
=============================================================================
