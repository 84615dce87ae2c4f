-------------------------- MODULE VerusSocketProofs --------------------------
(***************************************************************************)
(* Up to the first restart of slow start, the counters of a Verus socket   *)
(* are right for every packet size, stream, window and delay; the lists of *)
(* packets are in order after any number of restarts, whoever gave         *)
(* restartLock back.                                                       *)
(***************************************************************************)
EXTENDS VerusSocket, FiniteSetTheorems, TLAPS

-----------------------------------------------------------------------------
(* Arithmetic and the helpers.                                             *)

LEMMA ChoiceOfTwo ==
  ASSUME NEW a \in Int, NEW b \in Int
  PROVE  /\ Larger(a, b) \in {a, b} /\ Larger(a, b) >= a /\ Larger(a, b) >= b
         /\ Smaller(a, b) \in {a, b} /\ Smaller(a, b) <= a /\ Smaller(a, b) <= b
BY DEF Larger, Smaller

LEMMA NextMultiple ==
  ASSUME NEW n \in Nat, NEW m \in Nat
  PROVE  (n + 1) * m = n * m + m /\ n * m \in Nat
BY SMT

\* The range of InFlightExact: both sides move, or it is widened.
LEMMA MovedRange ==
  ASSUME NEW x \in Int, NEW y \in Int, NEW a \in Int, NEW b \in Int, NEW s \in Int,
         NEW n \in Nat, y - b = x - a, x \in (a - s)..(a - s + n)
  PROVE  y \in (b - s)..(b - s + n)
OBVIOUS

LEMMA WiderRange ==
  ASSUME NEW a \in Int, NEW b \in Int, NEW c \in Nat, NEW d \in Nat, c <= d,
         NEW x \in (a - b)..(a - b + c)
  PROVE  x \in (a - b)..(a - b + d)
OBVIOUS

\* A list without one of its entries.
LEMMA WithoutEntry ==
  ASSUME NEW list, NEW n
  PROVE  /\ DOMAIN Without(list, n) = DOMAIN list \ {n}
         /\ \A k \in DOMAIN list \ {n} : Without(list, n)[k] = list[k]
BY DEF Without

\* The positions of the stream are natural numbers.
LEMMA PositionNat ==
  ASSUME SenderTypes, NEW k \in 0..sentSeq
  PROVE  End(k) \in Nat
BY DEF SenderTypes, End, sentSeq

\* They grow with the packets.
LEMMA PositionOrder ==
  ASSUME SenderTypes, EndsInOrder, NEW j \in 0..sentSeq, NEW k \in 0..sentSeq
  PROVE  (j <= k => End(j) <= End(k)) /\ (End(j) <= End(k) => j <= k)
<1>1. End(j) \in Nat /\ End(k) \in Nat
  BY PositionNat
<1>2. ASSUME NEW i \in Packets, NEW l \in 0..(i - 1)
      PROVE  End(l) < End(i)
  BY <1>2 DEF EndsInOrder, End, Packets
<1>3. CASE j = k
  BY <1>1, <1>3
<1>4. CASE j < k
  BY <1>1, <1>2, <1>4 DEF Packets
<1>5. CASE k < j
  BY <1>1, <1>2, <1>5 DEF Packets
<1> QED  BY <1>3, <1>4, <1>5

-----------------------------------------------------------------------------
LEMMA InitEstablishes == Init => VerusInvariant
<1> SUFFICES ASSUME Init
             PROVE  VerusInvariant
  OBVIOUS
<1>1. /\ ends = <<>> /\ sentSeq = 0 /\ Packets = {} /\ pc = "lock"
      /\ seqNumbersList = <<>> /\ sendingList = <<>> /\ rpc = "wait"
      /\ seq = 0 /\ toCount = 0 /\ reported = 0 /\ outgoing = 0
      /\ wCrt = 0 /\ overtaken = 0 /\ startingSeq = 0
  BY DEF Init, sentSeq, Packets
<1>2. End(0) = 0 /\ Recorded = 0 /\ Counted = 0 /\ Settled = 0 /\ Remaining = 0
  BY <1>1 DEF End, Recorded, Counted, Settled, Remaining
<1>3. DOMAIN seqNumbersList = {} /\ DOMAIN sendingList = {}
  BY <1>1
<1>4. SenderTypes /\ ListTypes
  BY <1>1, <1>3 DEF Init, SenderTypes, ListTypes, Sending
<1>5. ReceiverTypes
  BY <1>1, <1>2 DEF Init, ReceiverTypes
<1>6. ThreadTypes
  <2>1. slowStart \in BOOLEAN /\ haveSpline \in BOOLEAN
    BY Zenon DEF Init
  <2>2. at \in [{"verus", "curve"} ->
                 Restarting \cup {"sleep", "load", "add", "fit"}]
    BY DEF Init
  <2> QED  BY <2>1, <2>2, VerusAssumption DEF Init, ThreadTypes
<1> QED
  BY <1>1, <1>2, <1>3, <1>4, <1>5, <1>6
     DEF VerusInvariant, TypeOK, EndsInOrder, RecordsOld, OrderedSinceClear,
         CountsFromStart, CountedAcked, AckedRecorded, InFlightExact

\* The application only adds to the queue.
LEMMA ApplicationPreserves ==
  ASSUME VerusInvariant, NEW n \in Writes, alcc_send(n)
  PROVE  VerusInvariant'
<1>1. queued' \in Nat
  BY VerusAssumption DEF alcc_send, VerusInvariant, TypeOK, SenderTypes
<1>2. UNCHANGED <<ends, pc, sPkts, pktTime, began, restartLock, tempS, wCrt,
                  windowVars, pktSeq, lists, countVars, receiverVars, threadVars,
                  top, observed>>
  BY DEF alcc_send, batchVars
<1>3. sentSeq' = sentSeq /\ Packets' = Packets
  BY <1>2 DEF sentSeq, Packets
<1>4. SenderTypes' /\ ListTypes'
  BY <1>1, <1>2, <1>3
     DEF VerusInvariant, TypeOK, SenderTypes, ListTypes, lists, Sending
<1>5. ReceiverTypes' /\ ThreadTypes' /\ EndsInOrder' /\ RecordsOld'
  BY <1>2, <1>3
     DEF VerusInvariant, TypeOK, ReceiverTypes, ThreadTypes, EndsInOrder, RecordsOld,
         windowVars, lists, countVars, receiverVars, threadVars, observed, End
<1>6. /\ OrderedSinceClear' /\ CountsFromStart' /\ CountedAcked'
      /\ AckedRecorded' /\ InFlightExact'
  BY <1>2, <1>3
     DEF VerusInvariant, OrderedSinceClear, CountsFromStart, CountedAcked,
         AckedRecorded, InFlightExact, Recorded, Counted, Settled, Remaining, End,
         lists, countVars, receiverVars, threadVars, observed
<1> QED  BY <1>4, <1>5, <1>6 DEF VerusInvariant, TypeOK

-----------------------------------------------------------------------------
(* ALCCSend.                                                               *)

\* Steps that only take the lock, give it back, or begin and end a batch.
LEMMA BatchPreserves ==
  ASSUME VerusInvariant, LockRestart \/ UnlockRestart \/ StartBatch \/ EndBatch
  PROVE  VerusInvariant'
<1>1. /\ UNCHANGED <<queued, ends, tempS, wCrt, pktSeq, lists, windowVars,
                     countVars, receiverVars, threadVars, top, observed>>
      /\ pc \in {"lock", "test", "take"} /\ pc' \in {"lock", "test", "take"}
      /\ sPkts' \in Nat /\ restartLock' \in {"free", "sender", "verus", "curve"}
      /\ pktTime' \in 0..sentSeq /\ began' \in 0..sentSeq
  BY DEF LockRestart, UnlockRestart, StartBatch, EndBatch, SenderAt, batchVars,
         sentSeq, VerusInvariant, TypeOK, SenderTypes
<1>2. SenderTypes'
  BY <1>1 DEF VerusInvariant, TypeOK, SenderTypes, Sending, sentSeq
<1>3. Recorded' = Recorded /\ Counted' = Counted
  BY <1>1 DEF Recorded, Counted, sentSeq
<1>4. ListTypes'
  BY <1>1 DEF VerusInvariant, TypeOK, ListTypes, lists, Packets, sentSeq
<1> QED
  BY <1>1, <1>2, <1>3, <1>4
     DEF windowVars, lists, countVars, receiverVars, threadVars, observed,
         VerusInvariant, TypeOK, ReceiverTypes,
         ThreadTypes, EndsInOrder, RecordsOld, OrderedSinceClear,
         CountsFromStart, CountedAcked, AckedRecorded, InFlightExact,
         Settled, Remaining, End, Packets, sentSeq, Sending

LEMMA SpendPreserves ==
  ASSUME VerusInvariant, SpendPermit \/ CountInFlight
  PROVE  VerusInvariant'
<1>1. /\ UNCHANGED <<queued, ends, sPkts, pktTime, began, restartLock, pktSeq,
                     lists, windowVars, countVars, receiverVars, threadVars, top, observed>>
      /\ \/ pc = "sent" /\ pc' = "spent" /\ wCrt' = wCrt /\ tempS' = tempS - 1
         \/ pc = "spent" /\ pc' = "counted" /\ wCrt' = wCrt + 1 /\ tempS' = tempS
  BY DEF SpendPermit, CountInFlight, SenderAt, batchVars
<1>2. wCrt' - Counted' = wCrt - Counted /\ Recorded' = Recorded
  BY <1>1 DEF Counted, Recorded, sentSeq, VerusInvariant, TypeOK, SenderTypes
<1>3. Counted' \in Int /\ Counted \in Int
  BY <1>1 DEF Counted, sentSeq, VerusInvariant, TypeOK, SenderTypes
<1>4. InFlightExact'
  <2>1. Settled' = Settled /\ Settled \in Int
    BY <1>1 DEF Settled, countVars, receiverVars, VerusInvariant, TypeOK, ReceiverTypes
  <2>2. /\ wCrt \in Int /\ wCrt' \in Int /\ overtaken \in Nat
        /\ overtaken' = overtaken /\ restarts' = restarts
    BY <1>1 DEF VerusInvariant, TypeOK, SenderTypes, ReceiverTypes, observed
  <2>3. restarts = 0 =>
          wCrt' \in (Counted' - Settled)..(Counted' - Settled + overtaken)
    BY <1>2, <1>3, <2>1, <2>2, MovedRange DEF InFlightExact, VerusInvariant
  <2> QED  BY <2>1, <2>2, <2>3 DEF InFlightExact
<1>5. SenderTypes' /\ ListTypes'
  BY <1>1 DEF VerusInvariant, TypeOK, SenderTypes, ListTypes, Sending, sentSeq, lists,
              Packets
<1>6. EndsInOrder' /\ RecordsOld' /\ AckedRecorded'
  <2>1. \A j : End(j)' = End(j)
    BY <1>1 DEF End
  <2> QED
    BY <1>1, <1>2, <2>1
       DEF VerusInvariant, EndsInOrder, RecordsOld, AckedRecorded, Packets, sentSeq,
           Sending, lists, receiverVars, observed
<1> QED
  BY <1>1, <1>4, <1>5, <1>6
     DEF windowVars, lists, countVars, receiverVars, threadVars, observed,
         VerusInvariant, TypeOK, ReceiverTypes, ThreadTypes,
         OrderedSinceClear, CountsFromStart, CountedAcked,
         Remaining, End, Packets, sentSeq

LEMMA TransmitPreserves ==
  ASSUME VerusInvariant, Transmit
  PROVE  VerusInvariant'
<1> DEFINE size == Smaller(queued, MTU)
<1> USE DEF VerusInvariant, TypeOK
<1>1. /\ UNCHANGED <<sPkts, pktTime, began, restartLock, tempS, wCrt, lists,
                     windowVars, countVars, receiverVars, threadVars, top, observed>>
      /\ pc = "take" /\ pc' = "sent" /\ queued > 0 /\ sPkts > 0
      /\ queued' = queued - size /\ ends' = Append(ends, Written + size)
      /\ pktSeq' = pktSeq + 1
  BY DEF Transmit, SenderAt, batchVars
<1>2. size \in 1..MTU /\ size <= queued /\ queued' \in Nat
  BY <1>1, ChoiceOfTwo, VerusAssumption DEF SenderTypes
<1>3. Written \in Nat /\ sentSeq \in Nat
  BY PositionNat DEF Written, SenderTypes, sentSeq
<1>4. /\ ends' \in Seq(Nat) /\ sentSeq' = sentSeq + 1
      /\ ends'[sentSeq'] = Written + size
      /\ \A k \in Packets : ends'[k] = ends[k]
      /\ Packets' = Packets \cup {sentSeq'}
  BY <1>1, <1>2, <1>3 DEF SenderTypes, sentSeq, Packets
<1>5. \A k \in 0..sentSeq : End(k)' = End(k)
  BY <1>4 DEF End, Packets
<1>6. SenderTypes' /\ ListTypes' /\ ThreadTypes'
  <2>1. SenderTypes'
    BY <1>1, <1>2, <1>3, <1>4 DEF SenderTypes, Sending
  <2>2. ListTypes'
    BY <1>1, <1>3, <1>4 DEF ListTypes, lists
  <2>3. ThreadTypes'
    BY <1>1 DEF ThreadTypes, windowVars, threadVars, observed
  <2> QED  BY <2>1, <2>2, <2>3
<1>7. ReceiverTypes'
  BY <1>1, <1>3, <1>4, <1>5
     DEF ReceiverTypes, receiverVars, countVars, observed
<1>8. Recorded' = Recorded /\ Counted' = Counted /\ Recorded \in 0..sentSeq
  BY <1>1, <1>3, <1>4 DEF Recorded, Counted
<1>9. EndsInOrder'
  <2>1. Written <= sentSeq * MTU
    BY <1>3, VerusAssumption, NextMultiple DEF EndsInOrder, Written, End, Packets
  <2>2. Written + size <= sentSeq' * MTU
    BY <1>2, <1>3, <1>4, <2>1, VerusAssumption, NextMultiple
  <2>3. \A j \in 0..sentSeq : End(j) \in Nat /\ End(j) <= Written
    BY <1>3, PositionNat, PositionOrder DEF Written
  <2> SUFFICES ASSUME NEW k \in Packets'
               PROVE  /\ ends'[k] <= k * MTU
                      /\ \A j \in 0..(k - 1) : End(j)' < ends'[k]
    BY DEF EndsInOrder
  <2>4. CASE k \in Packets
    <3>1. \A j \in 0..(k - 1) : j \in 0..sentSeq
      BY <1>3, <2>4 DEF Packets
    <3> QED  BY <1>4, <1>5, <2>4, <3>1 DEF EndsInOrder
  <2>5. CASE k = sentSeq'
    <3>1. \A j \in 0..(k - 1) : j \in 0..sentSeq
      BY <1>3, <1>4, <2>5
    <3>2. \A j \in 0..(k - 1) : End(j)' <= Written /\ End(j)' \in Nat
      BY <1>5, <2>3, <3>1
    <3> QED  BY <1>2, <1>3, <1>4, <2>2, <2>5, <3>2
  <2> QED  BY <1>4, <2>4, <2>5
<1>10. RecordsOld' /\ OrderedSinceClear'
  BY <1>1, <1>3, <1>4
     DEF RecordsOld, OrderedSinceClear, lists, threadVars, Sending, ListTypes,
         Packets, SenderTypes
<1>11. CountsFromStart' /\ CountedAcked' /\ AckedRecorded' /\ InFlightExact'
  BY <1>1, <1>4, <1>5, <1>8
     DEF CountsFromStart, CountedAcked, AckedRecorded, InFlightExact, Settled,
         Remaining, receiverVars, countVars, observed
<1> QED  BY <1>6, <1>7, <1>9, <1>10, <1>11

\* The two lists.
LEMMA RecordPreserves ==
  ASSUME VerusInvariant, RecordTime \/ RecordWindow
  PROVE  VerusInvariant'
<1> USE DEF VerusInvariant, TypeOK
<1>1. /\ UNCHANGED <<queued, ends, pktTime, began, restartLock, tempS, wCrt,
                     pktSeq, windowVars, countVars, receiverVars, threadVars, top, observed>>
      /\ \/ /\ pc = "counted" /\ pc' = "recorded" /\ sPkts' = sPkts
            /\ seqNumbersList' = Put(seqNumbersList, pktSeq, Entry)
            /\ sendingList' = sendingList
         \/ /\ pc = "recorded" /\ pc' = "take" /\ sPkts' = sPkts - 1
            /\ seqNumbersList' = seqNumbersList
            /\ sendingList' = Put(sendingList, pktSeq, wBar)
  BY DEF RecordTime, RecordWindow, SenderAt, batchVars
<1>2. /\ pktSeq \in 0..sentSeq /\ sentSeq \in Nat /\ sentSeq > 0 /\ wBar \in Nat
      /\ Entry \in [time : 0..sentSeq, packet : Packets, batch : 0..sentSeq]
      /\ Entry.packet = sentSeq
  BY <1>1 DEF SenderTypes, ThreadTypes, Sending, sentSeq, Entry, Packets
<1>3. SenderTypes'
  BY <1>1 DEF SenderTypes, Sending, sentSeq
<1>4. ReceiverTypes' /\ ThreadTypes'
  BY <1>1 DEF ReceiverTypes, ThreadTypes, windowVars, countVars, receiverVars,
              threadVars, observed, sentSeq, End
<1>5. ListTypes'
  <2>2. sentSeq' = sentSeq /\ Packets' = Packets /\ sentSeq \in Packets
    BY <1>1, <1>2 DEF sentSeq, Packets
  <2>3. CASE pc = "counted"
    BY <1>1, <1>2, <2>2, <2>3 DEF ListTypes, Put
  <2>4. CASE pc = "recorded"
    BY <1>1, <1>2, <2>2, <2>4 DEF ListTypes, Put
  <2> QED  BY <1>1, <2>3, <2>4
<1>6. EndsInOrder' /\ CountsFromStart' /\ CountedAcked'
  BY <1>1 DEF End, EndsInOrder, CountsFromStart, CountedAcked, Remaining, Packets,
              sentSeq, countVars, receiverVars, observed
<1>7. InFlightExact'
  <2>1. Counted' = Counted /\ Settled' = Settled
    BY <1>1 DEF Counted, Settled, sentSeq, countVars, receiverVars
  <2> QED  BY <1>1, <2>1 DEF InFlightExact, observed
<1>8. AckedRecorded'
  <2>1. Recorded \in 0..sentSeq /\ Recorded' \in 0..sentSeq /\ Recorded <= Recorded'
    BY <1>1, <1>2 DEF Recorded, sentSeq
  <2>2. End(Recorded)' = End(Recorded')
    BY <1>1 DEF End
  <2>3. /\ End(Recorded) <= End(Recorded')
        /\ End(Recorded) \in Nat /\ End(Recorded') \in Nat
    BY <2>1, PositionOrder, PositionNat
  <2>4. reported' = reported /\ overtaken' = overtaken /\ reported \in Nat
    BY <1>1 DEF receiverVars, observed, ReceiverTypes
  <2> QED  BY <2>2, <2>3, <2>4 DEF AckedRecorded
<1>9. CASE pc = "counted"
  <2>1. /\ seqNumbersList' = Put(seqNumbersList, pktSeq, Entry)
        /\ sendingList' = sendingList /\ pc' = "recorded" /\ sentSeq' = sentSeq
        /\ pktSeq' = pktSeq /\ at' = at
    BY <1>1, <1>9 DEF sentSeq, threadVars
  <2>2. \A n \in DOMAIN seqNumbersList :
          /\ seqNumbersList[n].packet <= sentSeq - 1
          /\ n \in Nat /\ seqNumbersList[n].packet \in Nat
    BY <1>2, <1>9 DEF RecordsOld, Sending, ListTypes, Packets
  <2> DEFINE old == DOMAIN seqNumbersList
             new == seqNumbersList'
  <2>5. /\ DOMAIN new = old \cup {pktSeq} /\ new[pktSeq] = Entry
        /\ \A n \in old \ {pktSeq} : new[n] = seqNumbersList[n]
    BY <2>1 DEF Put
  <2>3. RecordsOld'
    BY <1>2, <2>1, <2>2, <2>5 DEF RecordsOld, Sending
  <2>4. OrderedSinceClear'
    <3> SUFFICES ASSUME \A t \in DOMAIN at : at[t] # "clear"
                 PROVE  /\ DOMAIN new \subseteq 0..pktSeq
                        /\ DOMAIN sendingList \subseteq 0..pktSeq
                        /\ \A j, k \in DOMAIN new : j < k => new[j].packet < new[k].packet
      BY <2>1 DEF OrderedSinceClear
    <3>1. /\ old \subseteq 0..pktSeq /\ DOMAIN sendingList \subseteq 0..pktSeq
          /\ \A j, k \in old :
               j < k => seqNumbersList[j].packet < seqNumbersList[k].packet
      BY DEF OrderedSinceClear
    <3>2. DOMAIN new \subseteq 0..pktSeq
      BY <1>2, <2>5, <3>1
    <3>3. ASSUME NEW j \in DOMAIN new, NEW k \in DOMAIN new, j < k
          PROVE  new[j].packet < new[k].packet
      <4>1. j # pktSeq /\ j \in old /\ new[j] = seqNumbersList[j]
        BY <1>2, <2>5, <3>2, <3>3
      <4>2. CASE k = pktSeq
        BY <1>2, <2>2, <2>5, <4>1, <4>2
      <4>3. CASE k # pktSeq
        BY <2>5, <3>1, <3>3, <4>1, <4>3
      <4> QED  BY <4>2, <4>3
    <3> QED  BY <3>1, <3>2, <3>3
  <2> QED  BY <1>3, <1>4, <1>5, <1>6, <1>7, <1>8, <2>3, <2>4
<1>10. CASE pc = "recorded"
  <2>1. /\ seqNumbersList' = seqNumbersList /\ sentSeq' = sentSeq
        /\ sendingList' = Put(sendingList, pktSeq, wBar) /\ pc' = "take"
        /\ pktSeq' = pktSeq /\ at' = at
    BY <1>1, <1>10 DEF sentSeq, threadVars
  <2>2. RecordsOld'
    BY <1>10, <2>1 DEF RecordsOld, Sending
  <2>3. OrderedSinceClear'
    <3>1. DOMAIN sendingList' = DOMAIN sendingList \cup {pktSeq}
      BY <2>1 DEF Put
    <3> QED  BY <1>2, <2>1, <3>1 DEF OrderedSinceClear
  <2> QED  BY <1>3, <1>4, <1>5, <1>6, <1>7, <1>8, <2>2, <2>3
<1> QED  BY <1>1, <1>9, <1>10

LEMMA SenderPreserves ==
  ASSUME VerusInvariant, ALCCSend
  PROVE  VerusInvariant'
BY BatchPreserves, SpendPreserves, TransmitPreserves, RecordPreserves DEF ALCCSend

-----------------------------------------------------------------------------
(* ALCCReceive: the reports.                                               *)

\* Whole packets in a difference, and what they come to with those before.
LEMMA WholePackets ==
  ASSUME NEW d \in Nat, NEW m \in Nat \ {0}
  PROVE  d \div m \in Nat /\ (d \div m) * m <= d
BY SMT

LEMMA MultipleOrder ==
  ASSUME NEW a \in Nat, NEW b \in Nat, NEW m \in Nat \ {0}, a * m <= b * m
  PROVE  a <= b
<1> SUFFICES ASSUME a > b
             PROVE  FALSE
  OBVIOUS
<1> DEFINE c == a - b
<1>1. c \in Nat /\ c >= 1 /\ a = b + c
  OBVIOUS
<1>2. a * m = b * m + c * m
  BY <1>1, SMT
<1>3. c * m >= m
  BY <1>1, SMT
<1> QED  BY <1>2, <1>3, SMT

LEMMA CountBound ==
  ASSUME NEW s \in Nat, NEW m \in Nat \ {0}, NEW p \in Nat, NEW k \in Nat,
         p <= k * m, s * m <= p
  PROVE  s + ((p - s * m) \div m) <= k
<1> DEFINE d == p - s * m
           n == d \div m
<1>1. s * m \in Nat /\ d \in Nat
  BY SMT
<1>2. n \in Nat /\ n * m <= d
  BY <1>1, WholePackets
<1> HIDE DEF n
<1>3. (s + n) * m = s * m + n * m
  BY <1>2, SMT
<1>4. n * m \in Nat /\ k * m \in Nat
  BY <1>2, SMT
<1>5. (s + n) * m <= k * m
  BY <1>1, <1>2, <1>3, <1>4
<1>6. s + n <= k
  BY <1>2, <1>5, MultipleOrder
<1> QED  BY <1>6 DEF n

LEMMA StartPreserves ==
  ASSUME VerusInvariant, OutgoingReport \/ \E k \in Packets : RetransmitReport(k)
  PROVE  VerusInvariant'
<1> USE DEF VerusInvariant, TypeOK
<1>1. PICK k \in Packets :
        /\ UNCHANGED <<senderVars, restartLock, tempS, wCrt, windowVars, pktSeq, lists,
                       seq, w, room, threadVars, top, restarts, sample,
                       rpc, toCount, reported, before, overtaken>>
        /\ rpc = "wait"
        /\ startingSeq' = IF startingSeq = 0 THEN FirstSeq + End(k - 1) ELSE startingSeq
        /\ \/ k = outgoing + 1 /\ outgoing' = k
           \/ outgoing >= k /\ outgoing' = outgoing
  <2>1. CASE OutgoingReport
    <3>1. outgoing + 1 \in Packets
      BY <2>1 DEF OutgoingReport, ReceiverTypes, Packets, sentSeq
    <3> QED  BY <2>1, <3>1 DEF OutgoingReport, AwaitReport, TakeStart
  <2>2. CASE \E k \in Packets : RetransmitReport(k)
    BY <2>2 DEF RetransmitReport, AwaitReport, TakeStart, Packets, ReceiverTypes,
                sentSeq
  <2> QED  BY <2>1, <2>2
<1>2. /\ sentSeq' = sentSeq /\ Packets' = Packets /\ sentSeq \in Nat /\ k \in 1..sentSeq
      /\ \A j : End(j)' = End(j)
  BY <1>1 DEF senderVars, batchVars, sentSeq, Packets, End
<1>3. End(k - 1) \in Nat /\ startingSeq' \in Nat /\ startingSeq' > 0
  BY <1>1, <1>2, PositionNat, VerusAssumption DEF ReceiverTypes
<1>4. SenderTypes' /\ ListTypes' /\ ThreadTypes' /\ EndsInOrder' /\ RecordsOld'
  BY <1>1, <1>2
     DEF SenderTypes, ListTypes, ThreadTypes, EndsInOrder, RecordsOld,
         senderVars, batchVars, lists, windowVars, threadVars, Sending
<1>5. ReceiverTypes'
  <2>1. outgoing' \in 0..sentSeq /\ outgoing <= outgoing' /\ outgoing \in 0..sentSeq
    BY <1>1, <1>2 DEF ReceiverTypes
  <2>2. End(outgoing) <= End(outgoing') /\ End(outgoing) \in Nat /\ End(outgoing') \in Nat
    BY <2>1, PositionOrder, PositionNat
  <2>3. End(outgoing)' = End(outgoing')
    BY <1>1 DEF End, senderVars, batchVars
  <2> QED  BY <1>1, <1>2, <1>3, <2>1, <2>2, <2>3 DEF ReceiverTypes
<1>6. OrderedSinceClear' /\ CountedAcked' /\ AckedRecorded' /\ InFlightExact'
  BY <1>1, <1>2
     DEF OrderedSinceClear, CountedAcked, AckedRecorded, InFlightExact, Counted,
         Settled, Remaining, Recorded, senderVars, batchVars, lists, threadVars
<1>7. CountsFromStart'
  <2> SUFFICES ASSUME restarts = 0
               PROVE  /\ outgoing' > 0
                      /\ startingSeq' = FirstSeq + seq * MTU
    BY <1>1 DEF CountsFromStart
  <2>1. outgoing' > 0
    BY <1>1, <1>2 DEF ReceiverTypes
  <2>2. CASE outgoing = 0
    <3>1. startingSeq = 0 /\ seq = 0 /\ k = 1
      BY <1>1, <1>2, <2>2 DEF CountsFromStart
    <3> QED  BY <1>1, <2>1, <3>1, VerusAssumption DEF End
  <2>3. CASE outgoing # 0
    <3>1. startingSeq = FirstSeq + seq * MTU
      BY <2>3 DEF CountsFromStart
    <3>2. startingSeq # 0
      BY <3>1, VerusAssumption, NextMultiple DEF ReceiverTypes
    <3> QED  BY <1>1, <2>1, <3>1, <3>2
  <2> QED  BY <2>2, <2>3
<1> QED  BY <1>4, <1>5, <1>6, <1>7

LEMMA CountExact ==
  ASSUME NEW s \in Nat, NEW m \in Nat \ {0}, NEW p \in Nat, s * m <= p
  PROVE  /\ (s + ((p - s * m) \div m)) * m <= p
         /\ p < (s + ((p - s * m) \div m) + 1) * m
<1> DEFINE d == p - s * m
           n == d \div m
<1>1. s * m \in Nat /\ d \in Nat
  BY SMT
<1>2. n \in Nat /\ n * m <= d /\ d < n * m + m
  BY <1>1, SMT
<1> HIDE DEF n
<1>3. (s + n) * m = s * m + n * m /\ (s + n + 1) * m = s * m + n * m + m
  BY <1>2, SMT
<1>4. n * m \in Nat
  BY <1>2, SMT
<1>5. (s + n) * m <= p /\ p < (s + n + 1) * m
  BY <1>1, <1>2, <1>3, <1>4
<1> QED  BY <1>5 DEF n

\* What numAcks adds to seq is covered by whole packets acknowledged.
LEMMA NumAcksBound ==
  ASSUME VerusInvariant, NEW p \in Nat
  PROVE  /\ numAcks(p) \in Nat
         /\ restarts = 0 /\ numAcks(p) > 0 =>
              /\ (seq + numAcks(p)) * MTU <= p
              /\ p <= Written => seq + numAcks(p) <= sentSeq
<1> USE DEF VerusInvariant, TypeOK
<1> DEFINE n == (FirstSeq + p - startingSeq) \div MTU
<1>1. /\ Written \in Nat /\ sentSeq \in Nat /\ Written <= sentSeq * MTU
      /\ sentSeq * MTU \in Nat
  <2>1. sentSeq \in Nat
    BY DEF SenderTypes, sentSeq
  <2>2. Written \in Nat /\ sentSeq * MTU \in Nat
    BY <2>1, PositionNat, NextMultiple, VerusAssumption DEF Written
  <2>3. CASE sentSeq = 0
    BY <2>2, <2>3 DEF Written, End
  <2>4. CASE sentSeq # 0
    <3>1. sentSeq \in Packets
      BY <2>1, <2>4 DEF Packets
    <3> QED  BY <2>1, <2>2, <2>4, <3>1 DEF EndsInOrder, Written, End
  <2> QED  BY <2>1, <2>2, <2>3, <2>4
<1>2. CASE ~ (startingSeq > 0 /\ FirstSeq + p >= startingSeq)
  BY <1>2 DEF numAcks
<1>3. CASE startingSeq > 0 /\ FirstSeq + p >= startingSeq
  <2>1. numAcks(p) = n
    BY <1>3 DEF numAcks
  <2>2. FirstSeq + p - startingSeq \in Nat
    BY <1>1, <1>3, VerusAssumption DEF ReceiverTypes
  <2>3. n \in Nat
    BY <2>2, WholePackets, VerusAssumption
  <2>4. ASSUME restarts = 0
        PROVE  /\ (seq + n) * MTU <= p
               /\ p <= Written => seq + n <= sentSeq
    <3>1. startingSeq = FirstSeq + seq * MTU /\ seq \in Nat
      BY <1>3, <2>4 DEF CountsFromStart, ReceiverTypes
    <3>2. seq * MTU \in Nat
      BY <3>1, NextMultiple, VerusAssumption
    <3>3. FirstSeq + p - startingSeq = p - seq * MTU /\ seq * MTU <= p
      BY <1>1, <2>2, <3>1, <3>2, VerusAssumption
    <3>4. (seq + n) * MTU <= p
      BY <3>1, <3>3, CountExact, VerusAssumption
    <3>5. ASSUME p <= Written
          PROVE  seq + n <= sentSeq
      <4>1. p <= sentSeq * MTU
        BY <1>1, <3>5
      <4> QED  BY <1>1, <3>1, <3>3, <4>1, CountBound, VerusAssumption
    <3> QED  BY <3>4, <3>5
  <2> QED  BY <2>1, <2>3, <2>4
<1> QED  BY <1>2, <1>3

LEMMA AckPreserves ==
  ASSUME VerusInvariant, NEW p \in 0..Written, NewAck(p) \/ OldAck(p)
  PROVE  VerusInvariant'
<1> USE DEF VerusInvariant, TypeOK
<1> DEFINE n == numAcks(p)
<1>1. /\ UNCHANGED <<senderVars, restartLock, tempS, wCrt, windowVars, pktSeq, lists,
                     seq, w, room, threadVars, top, restarts, sample,
                     startingSeq, outgoing>>
      /\ rpc = "wait" /\ toCount' = n
      /\ IF n > 0 THEN rpc' = "count" /\ before' = reported
                  ELSE rpc' = "wait" /\ before' = reported'
  BY DEF NewAck, OldAck, HandleAck, AwaitReport
<1>2. /\ sentSeq' = sentSeq /\ Packets' = Packets /\ sentSeq \in Nat
      /\ \A j : End(j)' = End(j)
  BY <1>1 DEF senderVars, batchVars, sentSeq, Packets, End
<1>3. /\ n \in Nat /\ p \in Nat
      /\ restarts = 0 /\ n > 0 => (seq + n) * MTU <= p /\ seq + n <= sentSeq
  <2>1. p \in Nat /\ p <= Written
    BY <1>2, PositionNat DEF Written
  <2> QED  BY <2>1, NumAcksBound
<1>4. /\ reported' \in Nat /\ reported <= reported' /\ p <= reported'
      /\ reported' <= End(outgoing) /\ overtaken' \in Nat
  <2>1. CASE NewAck(p)
    <3>1. p <= End(outgoing) /\ reported < p /\ reported' = p
          /\ overtaken' \in {overtaken, overtaken + 1}
      BY <2>1 DEF NewAck
    <3> QED  BY <1>3, <3>1 DEF ReceiverTypes
  <2>2. CASE OldAck(p)
    BY <1>3, <2>2 DEF OldAck, ReceiverTypes
  <2> QED  BY <2>1, <2>2
<1>5. SenderTypes' /\ ListTypes' /\ ThreadTypes' /\ EndsInOrder' /\ RecordsOld'
  BY <1>1, <1>2
     DEF SenderTypes, ListTypes, ThreadTypes, EndsInOrder, RecordsOld,
         senderVars, batchVars, lists, windowVars, threadVars, Sending
<1>6. ReceiverTypes'
  BY <1>1, <1>2, <1>3, <1>4 DEF ReceiverTypes
<1>7. OrderedSinceClear'
  BY <1>1 DEF OrderedSinceClear, lists, threadVars
<1>8. CountsFromStart'
  <2>1. restarts = 0 /\ outgoing = 0 => n = 0
    BY <1>1 DEF CountsFromStart, numAcks
  <2> QED  BY <1>1, <2>1 DEF CountsFromStart
<1>9. CountedAcked'
  <2> SUFFICES ASSUME restarts = 0
               PROVE  \/ seq + Remaining' = 0
                      \/ /\ seq + Remaining' \in Packets
                         /\ ends[seq + Remaining'] <= reported'
    BY <1>1, <1>2 DEF CountedAcked, senderVars, batchVars
  <2>1. Remaining' = n
    BY <1>1 DEF Remaining
  <2>2. CASE n = 0
    <3>1. Remaining = 0 /\ reported \in Nat /\ seq \in Nat
      BY <1>1 DEF Remaining, ReceiverTypes
    <3>2. seq = 0 \/ (seq \in Packets /\ ends[seq] <= reported)
      <4>1. seq + Remaining = seq
        BY <3>1
      <4> QED  BY <4>1 DEF CountedAcked
    <3>3. CASE seq = 0
      BY <2>1, <2>2, <3>3
    <3>4. CASE seq \in Packets /\ ends[seq] <= reported
      <4>1. ends[seq] \in Nat
        BY <3>4 DEF SenderTypes, Packets, sentSeq
      <4> QED  BY <1>4, <2>1, <2>2, <3>1, <3>4, <4>1
    <3> QED  BY <3>2, <3>3, <3>4
  <2>3. CASE n > 0
    <3>1. seq + n \in 1..sentSeq /\ (seq + n) * MTU <= p
      BY <1>2, <1>3, <2>3 DEF ReceiverTypes
    <3>2. ends[seq + n] <= (seq + n) * MTU /\ ends[seq + n] \in Nat
      BY <3>1 DEF EndsInOrder, Packets, SenderTypes, sentSeq
    <3>3. (seq + n) * MTU \in Nat
      BY <3>1, NextMultiple, VerusAssumption
    <3> QED  BY <1>3, <1>4, <2>1, <3>1, <3>2, <3>3 DEF Packets
  <2> QED  BY <1>3, <2>2, <2>3
<1>10. AckedRecorded'
  <2> SUFFICES ASSUME overtaken' = 0
               PROVE  reported' <= End(Recorded)
    <3>1. Recorded' = Recorded
      BY <1>1, <1>2 DEF Recorded, senderVars, batchVars
    <3> QED  BY <1>2, <3>1 DEF AckedRecorded
  <2>1. CASE OldAck(p)
    BY <2>1 DEF OldAck, AckedRecorded
  <2>2. CASE NewAck(p)
    <3>1. p <= End(Recorded) /\ reported' = p
      BY <2>2 DEF NewAck, ReceiverTypes
    <3> QED  BY <3>1
  <2> QED  BY <2>1, <2>2
<1>11. InFlightExact'
  <2>1. Counted' = Counted /\ Settled' = Settled /\ Counted \in Int /\ Settled \in Int
    BY <1>1, <1>2 DEF Counted, Settled, senderVars, batchVars, ReceiverTypes
  <2>2. overtaken \in Nat /\ overtaken' \in Nat /\ overtaken <= overtaken'
    BY DEF NewAck, OldAck, ReceiverTypes
  <2>3. wCrt' = wCrt /\ restarts' = restarts /\ wCrt \in Int
    BY <1>1 DEF SenderTypes
  <2>4. restarts = 0 => wCrt \in (Counted - Settled)..(Counted - Settled + overtaken)
    BY DEF InFlightExact
  <2>5. restarts = 0 => wCrt \in (Counted - Settled)..(Counted - Settled + overtaken')
    BY <2>1, <2>2, <2>3, <2>4, WiderRange
  <2> QED  BY <2>1, <2>3, <2>5 DEF InFlightExact
<1> QED  BY <1>5, <1>6, <1>7, <1>8, <1>9, <1>10, <1>11

-----------------------------------------------------------------------------
(* ALCCReceive: the loop.                                                  *)

\* What no step of the loop touches, and what follows from it.
LEMMA LoopFrame ==
  ASSUME VerusInvariant, CountPacket
  PROVE  /\ UNCHANGED <<senderVars, pktSeq, outgoing, reported, threadVars, restarts,
                        overtaken>>
         /\ UNCHANGED <<sentSeq, Packets, Recorded, Counted>>
         /\ \A j : End(j)' = End(j)
         /\ EndsInOrder' /\ AckedRecorded'
<1>1. UNCHANGED <<senderVars, pktSeq, outgoing, reported, threadVars, restarts,
                  overtaken>>
  BY DEF CountPacket, LookUp, CountUnrecorded, ExitSlowStart, StopSending,
         updateUponReceivingPacket, GrowWindow, LoadPermits, AddPermits,
         UnlockAnyway, NextPacket, InLoop, ReceiverAt
<1>2. UNCHANGED <<sentSeq, Packets, Recorded, Counted>>
  BY <1>1 DEF senderVars, batchVars, sentSeq, Packets, Recorded, Counted
<1>3. \A j : End(j)' = End(j)
  BY <1>1 DEF senderVars, batchVars, End
<1>4. EndsInOrder' /\ AckedRecorded'
  BY <1>1, <1>2, <1>3
     DEF VerusInvariant, senderVars, batchVars, EndsInOrder, AckedRecorded
<1> QED  BY <1>1, <1>2, <1>3, <1>4

\* Nothing is added to the lists.
LEMMA LoopLists ==
  ASSUME VerusInvariant, CountPacket,
         \/ UNCHANGED lists
         \/ /\ seqNumbersList' = Without(seqNumbersList, seq)
            /\ sendingList' = Without(sendingList, seq)
  PROVE  ListTypes' /\ RecordsOld' /\ OrderedSinceClear'
<1> USE DEF VerusInvariant, TypeOK
<1>1. /\ UNCHANGED <<senderVars, pktSeq, threadVars, sentSeq, Packets>>
      /\ pc' = pc /\ at' = at
  BY LoopFrame DEF senderVars, batchVars, threadVars
<1>2. /\ DOMAIN seqNumbersList' \subseteq DOMAIN seqNumbersList
      /\ \A n \in DOMAIN seqNumbersList' : seqNumbersList'[n] = seqNumbersList[n]
      /\ DOMAIN sendingList' \subseteq DOMAIN sendingList
      /\ \A n \in DOMAIN sendingList' : sendingList'[n] = sendingList[n]
  BY DEF Without, lists
<1>3. ListTypes'
  BY <1>1, <1>2 DEF ListTypes
<1>4. RecordsOld'
  BY <1>1, <1>2 DEF RecordsOld
<1>5. OrderedSinceClear'
  BY <1>1, <1>2 DEF OrderedSinceClear
<1> QED  BY <1>3, <1>4, <1>5

\* Steps that neither look up a packet nor take one off.
LEMMA GrowPreserves ==
  ASSUME VerusInvariant,
         ExitSlowStart \/ StopSending \/ GrowWindow \/ LoadPermits \/ AddPermits
  PROVE  VerusInvariant'
<1> USE DEF VerusInvariant, TypeOK
<1>1. CountPacket
  BY DEF CountPacket
<1>2. /\ UNCHANGED <<restartLock, wCrt, haveSpline, lists, countVars, w, top,
                     toCount, before, overtaken>>
      /\ rpc \in {"look", "exit", "grow", "load", "add"}
      /\ sample' = "none"
      /\ \/ rpc = "look" /\ rpc' = "exit" /\ room' = room /\ tempS' = tempS
            /\ wBar' = (7 * w) \div 10 /\ slowStart' = FALSE
         \/ rpc = "exit" /\ rpc' = "update" /\ room' = room /\ tempS' = 0
            /\ UNCHANGED windowVars
         \/ rpc = "grow" /\ rpc' = "load" /\ room' = wBar + 1 - wCrt /\ tempS' = tempS
            /\ wBar' = wBar + 1 /\ slowStart' = slowStart
         \/ rpc = "load" /\ rpc' = "add" /\ room' = Larger(0, room - tempS)
            /\ UNCHANGED <<tempS, windowVars>>
         \/ rpc = "add" /\ rpc' = "unlock" /\ room' = 0 /\ tempS' = tempS + room
            /\ UNCHANGED windowVars
  BY DEF ExitSlowStart, StopSending, GrowWindow, LoadPermits, AddPermits, InLoop,
         ReceiverAt, windowVars
<1>3. /\ UNCHANGED <<senderVars, pktSeq, outgoing, reported, threadVars, restarts,
                     sentSeq, Packets, Counted, Settled, Remaining>>
      /\ \A j : End(j)' = End(j)
      /\ EndsInOrder' /\ AckedRecorded'
  BY <1>1, <1>2, LoopFrame DEF Settled, Remaining, countVars
<1>4. ListTypes' /\ RecordsOld' /\ OrderedSinceClear'
  BY <1>1, <1>2, LoopLists
<1>5. tempS' \in Int /\ room' \in Int /\ (rpc' = "add" => room' >= 0) /\ wBar' \in Nat
  BY <1>2, ChoiceOfTwo DEF SenderTypes, ReceiverTypes, ThreadTypes, windowVars
<1>6. SenderTypes'
  BY <1>2, <1>3, <1>5 DEF SenderTypes, senderVars, batchVars
<1>7. ReceiverTypes'
  BY <1>2, <1>3, <1>5 DEF ReceiverTypes, countVars
<1>8. ThreadTypes'
  <2>1. slowStart' \in BOOLEAN /\ haveSpline' \in BOOLEAN
    <3>1. slowStart' = slowStart \/ slowStart' = FALSE
      BY <1>2 DEF windowVars
    <3> QED  BY <1>2, <3>1, Zenon DEF ThreadTypes
  <2> QED  BY <1>2, <1>3, <1>5, <2>1 DEF ThreadTypes, threadVars
<1>9. CountsFromStart' /\ CountedAcked' /\ InFlightExact'
  BY <1>2, <1>3
     DEF CountsFromStart, CountedAcked, InFlightExact, countVars, senderVars, batchVars
<1> QED  BY <1>3, <1>4, <1>6, <1>7, <1>8, <1>9

LEMMA UnlockPreserves ==
  ASSUME VerusInvariant, UnlockAnyway
  PROVE  VerusInvariant'
<1> USE DEF VerusInvariant, TypeOK
<1>1. CountPacket
  BY DEF CountPacket
<1>2. /\ UNCHANGED <<tempS, wCrt, windowVars, lists, countVars, w, room, top,
                     sample, overtaken>>
      /\ restartLock' = "free" /\ rpc = "unlock" /\ toCount' = toCount - 1
      /\ rpc' = (IF toCount > 1 THEN "count" ELSE "wait")
      /\ before' \in {before, reported}
  BY DEF UnlockAnyway, NextPacket, ReceiverAt
<1>3. toCount \in Nat /\ toCount > 0
  BY <1>2 DEF ReceiverTypes
<1>4. /\ UNCHANGED <<senderVars, pktSeq, outgoing, reported, threadVars, restarts,
                     sentSeq, Packets, Counted, Settled, Remaining>>
      /\ \A j : End(j)' = End(j)
      /\ EndsInOrder' /\ AckedRecorded'
  BY <1>1, <1>2, <1>3, LoopFrame DEF Settled, Remaining, countVars
<1>5. ListTypes' /\ RecordsOld' /\ OrderedSinceClear'
  BY <1>1, <1>2, LoopLists
<1>6. SenderTypes' /\ ThreadTypes'
  BY <1>2, <1>4 DEF SenderTypes, ThreadTypes, senderVars, batchVars, threadVars, windowVars
<1>7. ReceiverTypes'
  BY <1>2, <1>3, <1>4 DEF ReceiverTypes, countVars
<1>8. CountsFromStart' /\ CountedAcked' /\ InFlightExact'
  BY <1>2, <1>4
     DEF CountsFromStart, CountedAcked, InFlightExact, countVars, senderVars, batchVars
<1> QED  BY <1>4, <1>5, <1>6, <1>7, <1>8

\* seq goes on to the next packet.
LEMMA LookPreserves ==
  ASSUME VerusInvariant, LookUp
  PROVE  VerusInvariant'
<1> USE DEF VerusInvariant, TypeOK
<1>1. CountPacket
  BY DEF CountPacket
<1>2. /\ UNCHANGED <<restartLock, tempS, wCrt, windowVars, lists, toCount, before,
                     room, top, overtaken>>
      /\ rpc = "count" /\ rpc' = "look"
      /\ seq' = seq + 1 /\ startingSeq' = startingSeq + MTU
      /\ sample' \in {"timely", "late", "unstamped", "windowless"}
      /\ w' = IF seq + 1 \in DOMAIN sendingList THEN sendingList[seq + 1] ELSE w
  BY DEF LookUp, ReceiverAt, Advance, Sampled
<1>3. /\ UNCHANGED <<senderVars, pktSeq, outgoing, reported, threadVars, restarts,
                     sentSeq, Packets, Counted>>
      /\ \A j : End(j)' = End(j)
      /\ EndsInOrder' /\ AckedRecorded'
  BY <1>1, LoopFrame
<1>4. /\ Settled' = Settled
      /\ seq' + Remaining' = seq + Remaining
  BY <1>2 DEF Settled, Remaining, ReceiverTypes
<1>5. ListTypes' /\ RecordsOld' /\ OrderedSinceClear'
  BY <1>1, <1>2, LoopLists
<1>6. SenderTypes' /\ ThreadTypes'
  BY <1>2, <1>3 DEF SenderTypes, ThreadTypes, senderVars, batchVars, threadVars, windowVars
<1>7. ReceiverTypes'
  <2>1. w' \in Nat
    BY <1>2 DEF ReceiverTypes, ListTypes
  <2>2. seq' \in Nat /\ startingSeq' \in Nat
    BY <1>2, VerusAssumption DEF ReceiverTypes
  <2> QED  BY <1>2, <1>3, <2>1, <2>2 DEF ReceiverTypes
<1>8. CountsFromStart'
  <2>1. (seq + 1) * MTU = seq * MTU + MTU /\ seq * MTU \in Nat
    BY NextMultiple, VerusAssumption DEF ReceiverTypes
  <2> QED
    BY <1>2, <1>3, <2>1, VerusAssumption DEF CountsFromStart, ReceiverTypes
<1>9. CountedAcked' /\ InFlightExact'
  BY <1>2, <1>3, <1>4 DEF CountedAcked, InFlightExact, senderVars, batchVars
<1> QED  BY <1>3, <1>5, <1>6, <1>7, <1>8, <1>9

LEMMA UnrecordedPreserves ==
  ASSUME VerusInvariant, CountUnrecorded
  PROVE  VerusInvariant'
<1> USE DEF VerusInvariant, TypeOK
<1>1. CountPacket
  BY DEF CountPacket
<1>2. /\ UNCHANGED <<restartLock, tempS, windowVars, lists, w, room, top, sample,
                     overtaken>>
      /\ rpc = "count" /\ rpc' = (IF toCount > 1 THEN "count" ELSE "wait")
      /\ toCount' = toCount - 1 /\ before' \in {before, reported}
      /\ seq' = seq + 1 /\ startingSeq' = startingSeq + MTU /\ wCrt' = wCrt - 1
  BY DEF CountUnrecorded, NextPacket, ReceiverAt, Advance
<1>3. /\ UNCHANGED <<senderVars, pktSeq, outgoing, reported, threadVars, restarts,
                     sentSeq, Packets, Counted>>
      /\ \A j : End(j)' = End(j)
      /\ EndsInOrder' /\ AckedRecorded'
  BY <1>1, LoopFrame
<1>4. toCount \in Nat /\ toCount > 0 /\ seq \in Nat
  BY <1>2 DEF ReceiverTypes
<1>5. /\ Settled = seq /\ Settled' = seq + 1
      /\ seq' + Remaining' = seq + Remaining
  BY <1>2, <1>4 DEF Settled, Remaining
<1>6. ListTypes' /\ RecordsOld' /\ OrderedSinceClear'
  BY <1>1, <1>2, LoopLists
<1>7. SenderTypes' /\ ThreadTypes'
  BY <1>2, <1>3 DEF SenderTypes, ThreadTypes, senderVars, batchVars, threadVars, windowVars
<1>8. ReceiverTypes'
  <2>1. startingSeq' \in Nat
    BY <1>2, VerusAssumption DEF ReceiverTypes
  <2> QED  BY <1>2, <1>3, <1>4, <2>1 DEF ReceiverTypes
<1>9. CountsFromStart'
  <2>1. (seq + 1) * MTU = seq * MTU + MTU /\ seq * MTU \in Nat
    BY NextMultiple, VerusAssumption DEF ReceiverTypes
  <2> QED
    BY <1>2, <1>3, <2>1, VerusAssumption DEF CountsFromStart, ReceiverTypes
<1>10. CountedAcked'
  BY <1>2, <1>3, <1>5 DEF CountedAcked, senderVars, batchVars
<1>11. InFlightExact'
  <2>1. Counted \in Int /\ wCrt \in Int /\ overtaken \in Nat
    BY DEF Counted, sentSeq, SenderTypes, ReceiverTypes
  <2> QED  BY <1>2, <1>3, <1>4, <1>5, <2>1 DEF InFlightExact
<1> QED  BY <1>3, <1>6, <1>7, <1>8, <1>9, <1>10, <1>11

\* The packet is taken off wCrt and off the lists.
LEMMA SettlePreserves ==
  ASSUME VerusInvariant, updateUponReceivingPacket
  PROVE  VerusInvariant'
<1> USE DEF VerusInvariant, TypeOK
<1>1. CountPacket
  BY DEF CountPacket
<1>2. /\ UNCHANGED <<restartLock, tempS, windowVars, countVars, w, room,
                     toCount, before, overtaken>>
      /\ rpc \in {"look", "update"} /\ rpc' \in {"grow", "unlock"} /\ sample' = "none"
      /\ wCrt' = (IF wCrt > 0 THEN wCrt - 1 ELSE wCrt)
      /\ top' = Larger(top, w)
      /\ seqNumbersList' = Without(seqNumbersList, seq)
      /\ sendingList' = Without(sendingList, seq)
  BY DEF updateUponReceivingPacket, InLoop, ReceiverAt, SettledInFlight
<1>3. /\ UNCHANGED <<senderVars, pktSeq, outgoing, reported, threadVars, restarts,
                     sentSeq, Packets, Counted, Recorded>>
      /\ \A j : End(j)' = End(j)
      /\ EndsInOrder' /\ AckedRecorded'
  BY <1>1, LoopFrame
<1>4. toCount \in Nat /\ toCount > 0 /\ seq \in Nat /\ seq' = seq
  BY <1>2 DEF ReceiverTypes, countVars
<1>5. /\ Settled = seq - 1 /\ Settled' = seq /\ Remaining' = Remaining
      /\ Remaining \in Nat
  BY <1>2, <1>4 DEF Settled, Remaining
<1>6. ListTypes' /\ RecordsOld' /\ OrderedSinceClear'
  BY <1>1, <1>2, LoopLists
<1>7. SenderTypes'
  BY <1>2, <1>3 DEF SenderTypes, senderVars, batchVars
<1>8. ThreadTypes'
  <2>1. top' \in Nat \ {0}
    BY <1>2, ChoiceOfTwo DEF ThreadTypes, ReceiverTypes
  <2> QED  BY <1>2, <1>3, <2>1 DEF ThreadTypes, threadVars, windowVars
<1>9. ReceiverTypes'
  BY <1>2, <1>3, <1>4 DEF ReceiverTypes, countVars
<1>10. CountsFromStart' /\ CountedAcked'
  BY <1>2, <1>3, <1>5 DEF CountsFromStart, CountedAcked, countVars, senderVars, batchVars
<1>11. ASSUME restarts = 0
       PROVE  seq <= Counted + overtaken
  <2>1. sentSeq \in Nat /\ overtaken \in Nat /\ reported \in Nat
    BY DEF SenderTypes, ReceiverTypes, sentSeq
  <2>2. /\ Counted \in Int /\ sentSeq <= Counted + 1
        /\ Recorded \in 0..sentSeq /\ Recorded <= Counted
    BY <2>1 DEF Counted, Recorded, SenderTypes, Sending, sentSeq
  <2> DEFINE k == seq + Remaining
  <2>3. k \in Nat /\ seq <= k
    BY <1>4, <1>5
  <2>4. CASE k = 0
    BY <1>4, <1>5, <2>1, <2>2, <2>4
  <2>5. CASE k \in Packets /\ ends[k] <= reported
    <3>1. k \in 1..sentSeq /\ End(k) <= reported /\ End(k) \in Nat
      BY <2>5, PositionNat, <2>1 DEF End, Packets
    <3>2. CASE overtaken = 0
      <4>1. End(k) <= End(Recorded) /\ End(Recorded) \in Nat
        BY <2>1, <2>2, <3>1, <3>2, PositionNat DEF AckedRecorded
      <4>2. k <= Recorded
        BY <2>1, <2>2, <3>1, <4>1, PositionOrder
      <4> QED  BY <1>4, <2>1, <2>2, <2>3, <4>2
    <3>3. CASE overtaken > 0
      BY <1>4, <2>1, <2>2, <2>3, <3>1, <3>3
    <3> QED  BY <2>1, <3>2, <3>3
  <2> QED  BY <1>11, <2>4, <2>5 DEF CountedAcked
<1>12. InFlightExact'
  <2>1. Counted \in Int /\ wCrt \in Int /\ overtaken \in Nat
    BY DEF Counted, sentSeq, SenderTypes, ReceiverTypes
  <2> QED  BY <1>2, <1>3, <1>4, <1>5, <1>11, <2>1 DEF InFlightExact
<1> QED  BY <1>3, <1>6, <1>7, <1>8, <1>9, <1>10, <1>12

LEMMA ReceiverPreserves ==
  ASSUME VerusInvariant,
         \/ OutgoingReport
         \/ \E k \in Packets : RetransmitReport(k)
         \/ \E p \in 0..Written : NewAck(p) \/ OldAck(p)
         \/ CountPacket
  PROVE  VerusInvariant'
<1>1. ASSUME CountPacket
      PROVE  VerusInvariant'
  BY <1>1, LookPreserves, UnrecordedPreserves, SettlePreserves, GrowPreserves,
     UnlockPreserves DEF CountPacket
<1>2. ASSUME NEW p \in 0..Written, NewAck(p) \/ OldAck(p)
      PROVE  VerusInvariant'
  BY <1>2, AckPreserves
<1>3. ASSUME OutgoingReport \/ \E k \in Packets : RetransmitReport(k)
      PROVE  VerusInvariant'
  BY <1>3, StartPreserves
<1> QED  BY <1>1, <1>2, <1>3

-----------------------------------------------------------------------------
(* ALCCVerus, ALCCCurve and the restart.                                   *)

ThreadPlaces == Restarting \cup {"sleep", "load", "add", "fit"}

\* What a thread leaves alone, and what follows from it.
LEMMA ThreadFrame ==
  ASSUME VerusInvariant, NEW t \in {"verus", "curve"},
         NEW here \in ThreadPlaces, NEW next \in ThreadPlaces, ThreadAt(t, here, next)
  PROVE  /\ UNCHANGED <<senderVars, receiverVars, sample, overtaken>>
         /\ UNCHANGED <<sentSeq, Packets, Recorded, Counted, Remaining>>
         /\ \A j : End(j)' = End(j)
         /\ EndsInOrder' /\ AckedRecorded'
         /\ at' \in [{"verus", "curve"} -> ThreadPlaces]
         /\ at[t] = here /\ at'[t] = next
         /\ \A u \in DOMAIN at : u # t => at'[u] = at[u]
         /\ DOMAIN at' = DOMAIN at /\ DOMAIN at = {"verus", "curve"}
<1> USE DEF VerusInvariant, TypeOK
<1>1. /\ UNCHANGED <<senderVars, receiverVars, sample, overtaken>>
      /\ at[t] = here /\ at' = [at EXCEPT ![t] = next]
  BY DEF ThreadAt
<1>2. UNCHANGED <<sentSeq, Packets, Recorded, Counted, Remaining>>
  BY <1>1 DEF senderVars, batchVars, receiverVars, sentSeq, Packets, Recorded, Counted, Remaining
<1>3. \A j : End(j)' = End(j)
  BY <1>1 DEF senderVars, batchVars, End
<1>4. EndsInOrder' /\ AckedRecorded'
  BY <1>1, <1>2, <1>3 DEF senderVars, batchVars, receiverVars, EndsInOrder, AckedRecorded
<1>5. at \in [{"verus", "curve"} -> ThreadPlaces]
  BY DEF ThreadTypes, ThreadPlaces
<1>6. /\ at' \in [{"verus", "curve"} -> ThreadPlaces]
      /\ at[t] = here /\ at'[t] = next
      /\ \A u \in DOMAIN at : u # t => at'[u] = at[u]
      /\ DOMAIN at' = DOMAIN at /\ DOMAIN at = {"verus", "curve"}
  BY <1>1, <1>5
<1> QED  BY <1>1, <1>2, <1>3, <1>4, <1>6

\* An epoch or a pass of the curve, as far as it matters to the counters.
LEMMA ThreadStepPreserves ==
  ASSUME VerusInvariant, NEW t \in {"verus", "curve"},
         NEW here \in ThreadPlaces \ {"clear"}, NEW next \in ThreadPlaces,
         ThreadAt(t, here, next),
         UNCHANGED <<wCrt, pktSeq, lists, countVars, top, restarts>>,
         restartLock' \in {restartLock, "free"}, tempS' \in Int,
         wBar' \in Nat, slowStart' = slowStart, haveSpline' \in {haveSpline, TRUE},
         si' \in Nat, N' \in 0..Knots
  PROVE  VerusInvariant'
<1> USE DEF VerusInvariant, TypeOK
<1>1. /\ UNCHANGED <<senderVars, receiverVars, sample, overtaken, sentSeq, Packets,
                     Recorded, Counted, Remaining>>
      /\ \A j : End(j)' = End(j)
      /\ EndsInOrder' /\ AckedRecorded'
  BY ThreadFrame
<1>2. /\ at' \in [{"verus", "curve"} -> ThreadPlaces]
      /\ at[t] = here
      /\ \A u \in DOMAIN at : u # t => at'[u] = at[u]
      /\ DOMAIN at' = DOMAIN at /\ DOMAIN at = {"verus", "curve"}
  BY ThreadFrame
<1>3. SenderTypes' /\ ListTypes' /\ RecordsOld'
  BY <1>1 DEF SenderTypes, ListTypes, RecordsOld, senderVars, batchVars, lists
<1>4. ReceiverTypes'
  BY <1>1 DEF ReceiverTypes, receiverVars, countVars
<1>5. ThreadTypes'
  <2>1. slowStart' \in BOOLEAN /\ haveSpline' \in BOOLEAN
    BY Zenon DEF ThreadTypes
  <2> QED  BY <1>2, <2>1 DEF ThreadTypes, ThreadPlaces
<1>6. OrderedSinceClear'
  <2>1. (\A u \in DOMAIN at' : at'[u] # "clear") => \A u \in DOMAIN at : at[u] # "clear"
    BY <1>2
  <2> QED  BY <2>1 DEF OrderedSinceClear, lists
<1>7. CountsFromStart' /\ CountedAcked' /\ InFlightExact'
  BY <1>1 DEF CountsFromStart, CountedAcked, InFlightExact, Settled, senderVars, batchVars,
              receiverVars, countVars
<1> QED  BY <1>1, <1>3, <1>4, <1>5, <1>6, <1>7

LEMMA QuotientInt ==
  ASSUME NEW a \in Int, NEW b \in Nat \ {0}
  PROVE  Quotient(a, b) \in Int
<1>1. a \div b \in Int /\ (-a) \div b \in Int
  BY SMT
<1> QED  BY <1>1 DEF Quotient

LEMMA calcSiNat ==
  ASSUME VerusInvariant, NEW n \in Delays
  PROVE  calcSi(n) \in Nat
<1>1. n \in Nat /\ wBar \in Nat /\ wCrt \in Int /\ tempS \in Int
  BY VerusAssumption DEF VerusInvariant, TypeOK, SenderTypes, ThreadTypes
<1>2. wBar - wCrt - tempS \in Int
  BY <1>1
<1>3. ASSUME n > 1
      PROVE  wBar + Quotient(wCrt * (2 - n), n - 1) \in Int
  <2>1. wCrt * (2 - n) \in Int /\ n - 1 \in Nat \ {0}
    BY <1>1, <1>3, SMT
  <2>2. Quotient(wCrt * (2 - n), n - 1) \in Int
    BY <2>1, QuotientInt
  <2> QED  BY <1>1, <2>2
<1> DEFINE s == IF n > 1 THEN wBar + Quotient(wCrt * (2 - n), n - 1)
                         ELSE wBar - wCrt - tempS
<1>4. s \in Int /\ calcSi(n) = Larger(0, s)
  BY <1>2, <1>3 DEF calcSi
<1> HIDE DEF s
<1> QED  BY <1>4, ChoiceOfTwo

LEMMA EpochPreserves ==
  ASSUME VerusInvariant, Epoch \/ OffTheCurve \/ LoadSi \/ AddSi
  PROVE  VerusInvariant'
<1> USE DEF VerusInvariant, TypeOK
<1>1. PICK here \in {"sleep", "load", "add"}, next \in {"sleep", "load", "add", "lock"} :
        ThreadAt("verus", here, next)
  BY DEF Epoch, OffTheCurve, LoadSi, AddSi
<1>2. here \in ThreadPlaces \ {"clear"} /\ next \in ThreadPlaces
  BY DEF ThreadPlaces, Restarting
<1>3. /\ UNCHANGED <<wCrt, pktSeq, lists, countVars, top, restarts, restartLock,
                     slowStart, haveSpline, N>>
      /\ wBar' \in Windows \cup {wBar} /\ tempS' \in {tempS, tempS + si}
      /\ si' \in {si, 0} \cup {calcSi(n) : n \in Delays}
  BY DEF Epoch, OffTheCurve, LoadSi, AddSi, windowVars
<1>4. wBar' \in Nat /\ tempS' \in Int /\ si' \in Nat /\ N' \in 0..Knots
  BY <1>3, calcSiNat, VerusAssumption DEF SenderTypes, ThreadTypes
<1> QED  BY <1>1, <1>2, <1>3, <1>4, ThreadStepPreserves

LEMMA CurvePreserves ==
  ASSUME VerusInvariant, CurvePass \/ FitSpline \/ FitFails
  PROVE  VerusInvariant'
<1> USE DEF VerusInvariant, TypeOK
<1>1. PICK here \in {"sleep", "fit"}, next \in {"sleep", "fit", "lock"} :
        ThreadAt("curve", here, next)
  BY DEF CurvePass, FitSpline, FitFails
<1>2. here \in ThreadPlaces \ {"clear"} /\ next \in ThreadPlaces
  BY DEF ThreadPlaces, Restarting
<1>3. /\ UNCHANGED <<wCrt, pktSeq, lists, countVars, top, restarts, restartLock,
                     tempS, wBar, slowStart, si>>
      /\ haveSpline' \in {haveSpline, TRUE} /\ N' \in {N, Affordable}
  BY DEF CurvePass, FitSpline, FitFails, windowVars
<1>4. N \in 0..Knots /\ Affordable \in 0..Knots
  <2>1. N \in 0..Knots /\ top \div Ratio \in Nat
    BY WholePackets, VerusAssumption DEF ThreadTypes
  <2> QED  BY <2>1, ChoiceOfTwo, VerusAssumption DEF Affordable
<1>5. wBar \in Nat /\ tempS \in Int /\ si \in Nat
  BY DEF SenderTypes, ThreadTypes
<1> QED  BY <1>1, <1>2, <1>3, <1>4, <1>5, ThreadStepPreserves

\* After the first step of a restart most of the invariant says nothing more:
\* the lists are what remains.
LEMMA RestartPreserves ==
  ASSUME VerusInvariant, NEW t \in {"verus", "curve"}, restartSlowStart(t)
  PROVE  VerusInvariant'
<1> USE DEF VerusInvariant, TypeOK
<1>1. PICK here \in {"lock", "clear", "permit"}, next \in {"clear", "permit", "sleep"} :
        ThreadAt(t, here, next)
  BY DEF restartSlowStart, ResetCounters, ClearLists, PermitFirst
<1>2. /\ UNCHANGED <<senderVars, receiverVars, sample, overtaken, sentSeq, Packets,
                     Recorded, Counted, Remaining>>
      /\ \A j : End(j)' = End(j)
      /\ EndsInOrder' /\ AckedRecorded'
      /\ at' \in [{"verus", "curve"} -> ThreadPlaces]
      /\ at[t] = here /\ at'[t] = next
      /\ \A u \in DOMAIN at : u # t => at'[u] = at[u]
      /\ DOMAIN at' = DOMAIN at /\ DOMAIN at = {"verus", "curve"}
  <2>1. here \in ThreadPlaces /\ next \in ThreadPlaces
    BY DEF ThreadPlaces, Restarting
  <2> QED  BY <1>1, <2>1, ThreadFrame
<1>3. CASE ResetCounters(t)
  <2>1. /\ restartLock' = t /\ wCrt' = 0 /\ pktSeq' = 0 /\ seq' = 0 /\ startingSeq' = 0
        /\ wBar' = 1 /\ slowStart' = TRUE /\ haveSpline' = FALSE
        /\ restarts' = restarts + 1 /\ at'[t] = "clear"
        /\ UNCHANGED <<tempS, lists, si, N, top>>
    BY <1>2, <1>3 DEF ResetCounters, ThreadAt
  <2>2. restarts \in Nat /\ restarts' \in Nat /\ restarts' # 0 /\ sentSeq \in Nat
    BY <2>1 DEF ThreadTypes, SenderTypes, sentSeq
  <2>3. SenderTypes' /\ ListTypes' /\ RecordsOld'
    BY <1>2, <2>1, <2>2 DEF SenderTypes, ListTypes, RecordsOld, senderVars, batchVars, lists
  <2>4. ReceiverTypes'
    BY <1>2, <2>1 DEF ReceiverTypes, receiverVars
  <2>5. ThreadTypes'
    <3>1. slowStart' \in BOOLEAN /\ haveSpline' \in BOOLEAN
      BY <2>1, Zenon
    <3> QED  BY <1>2, <2>1, <2>2, <3>1 DEF ThreadTypes, ThreadPlaces
  <2>6. OrderedSinceClear'
    BY <1>2, <2>1 DEF OrderedSinceClear
  <2>7. CountsFromStart' /\ CountedAcked' /\ InFlightExact'
    BY <2>2 DEF CountsFromStart, CountedAcked, InFlightExact
  <2> QED  BY <1>2, <2>3, <2>4, <2>5, <2>6, <2>7
<1>4. CASE ClearLists(t)
  <2>1. /\ DOMAIN seqNumbersList' = {} /\ DOMAIN sendingList' = {} /\ top' = 1
        /\ UNCHANGED <<restartLock, tempS, wCrt, windowVars, pktSeq, countVars, si, N,
                       restarts>>
    BY <1>4 DEF ClearLists
  <2>2. SenderTypes' /\ ListTypes' /\ RecordsOld'
    BY <1>2, <2>1 DEF SenderTypes, ListTypes, RecordsOld, senderVars, batchVars
  <2>3. ReceiverTypes'
    BY <1>2, <2>1 DEF ReceiverTypes, receiverVars, countVars
  <2>4. ThreadTypes'
    BY <1>2, <2>1 DEF ThreadTypes, ThreadPlaces, windowVars
  <2>5. OrderedSinceClear'
    BY <2>1 DEF OrderedSinceClear
  <2>6. CountsFromStart' /\ CountedAcked' /\ InFlightExact'
    BY <1>2, <2>1 DEF CountsFromStart, CountedAcked, InFlightExact, Settled, senderVars, batchVars,
                receiverVars, countVars
  <2> QED  BY <1>2, <2>2, <2>3, <2>4, <2>5, <2>6
<1>5. CASE PermitFirst(t)
  <2>1. /\ ThreadAt(t, "permit", "sleep")
        /\ tempS' = 1 /\ restartLock' = "free"
        /\ UNCHANGED <<wCrt, windowVars, pktSeq, lists, countVars, si, N, top, restarts>>
    BY <1>5 DEF PermitFirst
  <2>2. "permit" \in ThreadPlaces \ {"clear"} /\ "sleep" \in ThreadPlaces
    BY DEF ThreadPlaces, Restarting
  <2>3. wBar \in Nat /\ si \in Nat /\ N \in 0..Knots
    BY DEF ThreadTypes
  <2> QED  BY <2>1, <2>2, <2>3, ThreadStepPreserves DEF windowVars
<1> QED  BY <1>3, <1>4, <1>5 DEF restartSlowStart

-----------------------------------------------------------------------------
LEMMA NextPreserves == VerusInvariant /\ [Next]_vars => VerusInvariant'
<1> SUFFICES ASSUME VerusInvariant, [Next]_vars
             PROVE  VerusInvariant'
  OBVIOUS
<1>1. ASSUME NEW n \in Writes, alcc_send(n)
      PROVE  VerusInvariant'
  BY <1>1, ApplicationPreserves
<1>2. CASE ALCCSend
  BY <1>2, SenderPreserves
<1>3. CASE \/ OutgoingReport
           \/ \E k \in Packets : RetransmitReport(k)
           \/ \E p \in 0..Written : NewAck(p) \/ OldAck(p)
           \/ CountPacket
  BY <1>3, ReceiverPreserves
<1>4. CASE Epoch \/ OffTheCurve \/ LoadSi \/ AddSi
  BY <1>4, EpochPreserves
<1>5. CASE CurvePass \/ FitSpline \/ FitFails
  BY <1>5, CurvePreserves
<1>6. ASSUME NEW t \in DOMAIN at, restartSlowStart(t)
      PROVE  VerusInvariant'
  <2>1. t \in {"verus", "curve"}
    BY DEF VerusInvariant, TypeOK, ThreadTypes
  <2> QED  BY <1>6, <2>1, RestartPreserves
<1>7. CASE UNCHANGED vars
  <2>1. /\ SenderTypes' /\ ListTypes' /\ ReceiverTypes' /\ ThreadTypes'
    BY <1>7
       DEF vars, senderVars, batchVars, windowVars, lists, countVars, receiverVars, threadVars,
           observed, VerusInvariant, TypeOK, SenderTypes, ListTypes, ReceiverTypes,
           ThreadTypes, End, Packets, sentSeq
  <2>2. EndsInOrder' /\ RecordsOld' /\ OrderedSinceClear' /\ CountsFromStart'
    BY <1>7
       DEF vars, senderVars, batchVars, lists, countVars, receiverVars, threadVars,
           observed, VerusInvariant, EndsInOrder, RecordsOld, OrderedSinceClear,
           CountsFromStart, End, Packets, sentSeq
  <2>3. CountedAcked' /\ AckedRecorded' /\ InFlightExact'
    BY <1>7
       DEF vars, senderVars, batchVars, countVars, receiverVars, observed, VerusInvariant,
           CountedAcked, AckedRecorded, InFlightExact, Recorded, Counted, Settled,
           Remaining, End, Packets, sentSeq
  <2> QED  BY <2>1, <2>2, <2>3 DEF VerusInvariant, TypeOK
<1> QED  BY <1>1, <1>2, <1>3, <1>4, <1>5, <1>6, <1>7 DEF Next

\* At every point of the four threads, whatever the delays, the curve, the
\* acknowledgements and the restarts, VerusInvariant holds.
THEOREM InvariantHolds == Spec => []VerusInvariant
BY InitEstablishes, NextPreserves, PTL DEF Spec

\* The variables keep their types: tempS and wCrt are integers, the numbers on
\* the lists are numbers of packets sent.
THEOREM TypeCorrect == Spec => []TypeOK
<1>1. VerusInvariant => TypeOK
  BY DEF VerusInvariant
<1> QED  BY <1>1, InvariantHolds, PTL

\* Up to the first restart wCrt is exact, but for packets that were
\* acknowledged before ALCCSend had them on record.
THEOREM InFlightIsExact == Spec => []InFlightExact
<1>1. VerusInvariant => InFlightExact
  BY DEF VerusInvariant
<1> QED  BY <1>1, InvariantHolds, PTL

\* Up to the first restart ALCCReceive counts no packet that was not
\* acknowledged, whatever the lengths of the packets.
THEOREM OnlyDelivered == Spec => []CountsOnlyDelivered
<1>1. VerusInvariant => CountsOnlyDelivered
  <2> SUFFICES ASSUME VerusInvariant, restarts = 0
               PROVE  seq + Remaining <= Cardinality({k \in Packets : ends[k] <= reported})
    BY DEF CountsOnlyDelivered
  <2> USE DEF VerusInvariant, TypeOK
  <2> DEFINE n == seq + Remaining
             Acked == {k \in Packets : ends[k] <= reported}
  <2>1. /\ sentSeq \in Nat /\ reported \in Nat /\ seq \in Nat /\ Remaining \in Nat
        /\ \A k \in Packets : ends[k] \in Nat
    BY DEF SenderTypes, ReceiverTypes, Remaining, Packets, sentSeq
  <2>2. /\ IsFiniteSet(Packets) /\ IsFiniteSet(1..n) /\ Cardinality(1..n) = n
    <3>1. n \in Int /\ sentSeq \in Int /\ 1 \in Int /\ n >= 0
      BY <2>1
    <3>2. /\ IsFiniteSet(1..sentSeq) /\ IsFiniteSet(1..n)
          /\ Cardinality(1..n) = IF 1 > n THEN 0 ELSE n - 1 + 1
      BY <3>1, FS_Interval
    <3> QED  BY <3>1, <3>2 DEF Packets
  <2>3. 1..n \subseteq Acked
    <3> SUFFICES ASSUME NEW k \in 1..n
                 PROVE  k \in Packets /\ ends[k] <= reported
      OBVIOUS
    <3>1. n \in Packets /\ ends[n] <= reported
      BY <2>1 DEF CountedAcked
    <3>2. k \in 0..sentSeq /\ n \in 0..sentSeq /\ k <= n /\ k \in Packets
      BY <2>1, <3>1 DEF Packets
    <3>3. End(k) <= End(n)
      BY <3>2, PositionOrder
    <3>4. End(k) = ends[k] /\ End(n) = ends[n]
      BY <3>1, <3>2 DEF End, Packets
    <3> QED  BY <2>1, <3>1, <3>2, <3>3, <3>4
  <2>4. IsFiniteSet(Acked)
    BY <2>2, FS_Subset
  <2>5. Cardinality(1..n) <= Cardinality(Acked)
    BY <2>3, <2>4, FS_Subset
  <2> QED  BY <2>2, <2>5
<1> QED  BY <1>1, InvariantHolds, PTL

\* Records of packets sent before a restart and after it are never mixed,
\* although restartLock is given back by a thread that does not have it.
THEOREM OrderOfRecords == Spec => []RecordsOrdered
<1>1. VerusInvariant => RecordsOrdered
  <2>1. (\A t \in DOMAIN at : at[t] \notin {"clear", "permit"}) =>
          \A t \in DOMAIN at : at[t] # "clear"
    OBVIOUS
  <2> QED  BY <2>1 DEF VerusInvariant, OrderedSinceClear, RecordsOrdered
<1> QED  BY <1>1, InvariantHolds, PTL

-----------------------------------------------------------------------------
(* The first slow start: permits and packets in flight.                    *)

LEMMA CounterTypes ==
  ASSUME VerusInvariant
  PROVE  /\ sentSeq \in Nat /\ Counted \in Int /\ Settled \in Int /\ Committed \in Int
         /\ sPkts \in Nat /\ tempS \in Int /\ wCrt \in Int /\ wBar \in Nat /\ room \in Int
         /\ pc \in {"lock", "test", "take", "sent", "spent", "counted", "recorded"}
         /\ seq \in Nat /\ toCount \in Nat /\ overtaken \in Nat /\ restarts \in Nat
         /\ DOMAIN at = {"verus", "curve"}
BY DEF VerusInvariant, TypeOK, SenderTypes, ReceiverTypes, ThreadTypes, Counted,
       Settled, Committed, sentSeq, Sending

LEMMA PermitsInit == Init => PermitsBounded
BY DEF Init, PermitsBounded, Committed, Counted, Settled, sentSeq

\* Steps that leave the permits alone.
LEMMA PermitsFrame ==
  ASSUME VerusInvariant, PermitsBounded,
         UNCHANGED <<at, restarts, slowStart, wBar, sPkts, pc, tempS, Counted>>,
         Settled' \in Int, Settled <= Settled',
         \/ UNCHANGED <<rpc, room, wCrt>>
         \/ rpc' \in {"wait", "count", "look", "unlock"}
  PROVE  PermitsBounded'
<1> DEFINE settled == Settled'
           spent == IF pc = "spent" THEN 1 ELSE 0
<1>1. Counted \in Int /\ Settled \in Int /\ Committed \in Int /\ wBar \in Nat /\ tempS \in Int
      /\ room \in Int /\ settled \in Int /\ spent \in Int /\ settled - Settled \in Nat
  BY CounterTypes
<1>2. /\ Committed = Counted - Settled + tempS + spent
      /\ Committed' = Counted - settled + tempS + spent
  BY DEF Committed
<1> HIDE DEF spent, settled
<1>3. Committed' = Committed - (settled - Settled)
  BY <1>1, <1>2
<1>4. Committed' \in Int /\ Committed' <= Committed
  BY <1>1, <1>3
<1> QED  BY <1>1, <1>4 DEF PermitsBounded

\* ALCCSend turns a permit into a packet in flight in three steps.
LEMMA PermitsSender ==
  ASSUME VerusInvariant, PermitsBounded, ALCCSend
  PROVE  PermitsBounded'
<1>1. UNCHANGED <<at, restarts, slowStart, wBar, rpc, seq, room>>
  BY DEF ALCCSend, LockRestart, UnlockRestart, StartBatch, EndBatch, Transmit,
         SpendPermit, CountInFlight, RecordTime, RecordWindow, SenderAt, windowVars,
         countVars, receiverVars, threadVars, observed
<1>2. /\ sentSeq \in Nat /\ Counted \in Int /\ Settled \in Int /\ Committed \in Int
      /\ sPkts \in Nat /\ tempS \in Int /\ wCrt \in Int /\ wBar \in Nat /\ room \in Int
      /\ pc \in {"lock", "test", "take", "sent", "spent", "counted", "recorded"}
  BY CounterTypes
<1>3. Settled' = Settled
  BY <1>1 DEF Settled
<1>4. CASE LockRestart \/ UnlockRestart \/ StartBatch \/ EndBatch
  <2>1. /\ pc \in {"lock", "test", "take"} /\ pc' \in {"lock", "test", "take"}
        /\ tempS' = tempS /\ sPkts' \in {sPkts, tempS, 0} /\ wCrt' = wCrt /\ ends' = ends
    BY <1>4 DEF LockRestart, UnlockRestart, StartBatch, EndBatch, SenderAt
  <2>2. Committed' = Committed
    BY <1>3, <2>1 DEF Committed, Counted, sentSeq
  <2>3. restarts = 0 /\ slowStart => tempS >= sPkts'
    BY <1>2, <2>1 DEF PermitsBounded
  <2> QED  BY <1>1, <1>2, <2>1, <2>2, <2>3 DEF PermitsBounded
<1>5. CASE Transmit
  <2>1. /\ pc = "take" /\ pc' = "sent" /\ UNCHANGED <<tempS, sPkts, wCrt>>
        /\ sentSeq' = sentSeq + 1
    BY <1>5 DEF Transmit, SenderAt, sentSeq, VerusInvariant, TypeOK, SenderTypes
  <2>2. Committed' = Committed
    BY <1>2, <1>3, <2>1 DEF Committed, Counted
  <2> QED  BY <1>1, <1>2, <2>1, <2>2 DEF PermitsBounded
<1>6. CASE SpendPermit
  <2>1. /\ pc = "sent" /\ pc' = "spent" /\ tempS' = tempS - 1
        /\ UNCHANGED <<sPkts, wCrt, sentSeq>>
    BY <1>6 DEF SpendPermit, SenderAt, sentSeq
  <2>2. Committed' = Committed
    BY <1>2, <1>3, <2>1 DEF Committed, Counted
  <2> QED  BY <1>1, <1>2, <2>1, <2>2 DEF PermitsBounded
<1>7. CASE CountInFlight
  <2>1. /\ pc = "spent" /\ pc' = "counted" /\ wCrt' = wCrt + 1
        /\ UNCHANGED <<sPkts, tempS, sentSeq>>
    BY <1>7 DEF CountInFlight, SenderAt, sentSeq
  <2>2. Committed' = Committed
    BY <1>2, <1>3, <2>1 DEF Committed, Counted
  <2> QED  BY <1>1, <1>2, <2>1, <2>2 DEF PermitsBounded
<1>8. CASE RecordTime \/ RecordWindow
  <2>1. /\ UNCHANGED <<wCrt, tempS, sentSeq>>
        /\ \/ pc = "counted" /\ pc' = "recorded" /\ sPkts' = sPkts
           \/ pc = "recorded" /\ pc' = "take" /\ sPkts' = sPkts - 1
    BY <1>8 DEF RecordTime, RecordWindow, SenderAt, sentSeq
  <2>2. Committed' = Committed
    BY <1>2, <1>3, <2>1 DEF Committed, Counted
  <2> QED  BY <1>1, <1>2, <2>1, <2>2 DEF PermitsBounded
<1> QED  BY <1>4, <1>5, <1>6, <1>7, <1>8 DEF ALCCSend

\* ALCCReceive takes a packet off, and adds permits.
LEMMA PermitsLoop ==
  ASSUME VerusInvariant, PermitsBounded, CountPacket
  PROVE  PermitsBounded'
<1>1. UNCHANGED <<pc, sPkts, at, restarts, Counted>>
  BY LoopFrame DEF senderVars, batchVars, threadVars
<1>2. /\ Counted \in Int /\ Settled \in Int /\ Committed \in Int
      /\ sPkts \in Nat /\ tempS \in Int /\ wCrt \in Int /\ wBar \in Nat /\ room \in Int
      /\ seq \in Nat
      /\ pc \in {"lock", "test", "take", "sent", "spent", "counted", "recorded"}
  BY CounterTypes
<1>3. CASE LookUp \/ CountUnrecorded \/ UnlockAnyway
  <2>1. /\ UNCHANGED <<slowStart, wBar, tempS>>
        /\ rpc' \in {"wait", "count", "look", "unlock"}
        /\ rpc \in {"count", "unlock"}
        /\ \/ rpc' = "look" /\ seq' = seq + 1
           \/ rpc' # "look" /\ seq' \in {seq, seq + 1}
    BY <1>3 DEF LookUp, CountUnrecorded, UnlockAnyway, NextPacket, ReceiverAt, Advance,
                windowVars, countVars
  <2>2. Settled' \in Int /\ Settled <= Settled'
    BY <1>2, <2>1 DEF Settled
  <2> QED  BY <1>1, <2>1, <2>2, PermitsFrame
<1>4. CASE ExitSlowStart
  BY <1>4 DEF ExitSlowStart, PermitsBounded
<1>5. CASE StopSending
  BY <1>1, <1>5 DEF StopSending, InLoop, ReceiverAt, windowVars, PermitsBounded
<1>6. CASE updateUponReceivingPacket
  <2>1. /\ UNCHANGED <<slowStart, wBar, tempS, room, seq>>
        /\ rpc \in {"look", "update"}
        /\ rpc' = (IF slowStart THEN "grow" ELSE "unlock")
        /\ wCrt' = IF wCrt > 0 THEN wCrt - 1 ELSE wCrt
    BY <1>6 DEF updateUponReceivingPacket, InLoop, ReceiverAt, windowVars, countVars,
                SettledInFlight
  <2>2. Settled = seq - 1 /\ Settled' = seq
    BY <2>1 DEF Settled
  <2>3. Committed' = Committed - 1
    BY <1>1, <1>2, <2>1, <2>2 DEF Committed
  <2>4. ASSUME restarts = 0
        PROVE  wCrt >= 0
    <3>1. toCount > 0 /\ toCount \in Nat
      BY <2>1 DEF VerusInvariant, TypeOK, ReceiverTypes
    <3>2. Remaining \in Nat
      BY <2>1, <3>1 DEF Remaining
    <3>3. seq <= sentSeq /\ sentSeq \in Nat
      BY <1>2, <2>4, <3>2, CounterTypes DEF VerusInvariant, CountedAcked, Packets
    <3>4. Counted >= sentSeq - 1
      BY <3>3 DEF Counted
    <3>5. wCrt >= Counted - Settled
      BY <1>2, <2>4, CounterTypes DEF VerusInvariant, InFlightExact
    <3> QED  BY <1>2, <2>2, <3>3, <3>4, <3>5
  <2> QED  BY <1>1, <1>2, <2>1, <2>3, <2>4 DEF PermitsBounded
<1>7. CASE GrowWindow
  <2>1. /\ UNCHANGED <<slowStart, tempS, wCrt, seq>>
        /\ rpc = "grow" /\ rpc' = "load"
        /\ wBar' = wBar + 1 /\ room' = wBar + 1 - wCrt
    BY <1>7 DEF GrowWindow, InLoop, ReceiverAt, countVars
  <2>2. Settled' = Settled /\ Committed' = Committed
    BY <1>1, <2>1 DEF Settled, Committed
  <2>3. restarts = 0 => wCrt >= Counted - Settled
    BY <1>2, CounterTypes DEF VerusInvariant, InFlightExact
  <2>4. restarts = 0 => Committed + room' <= tempS + wBar + 2
    BY <1>2, <2>1, <2>3 DEF Committed
  <2> QED  BY <1>1, <1>2, <2>1, <2>2, <2>4 DEF PermitsBounded
<1>8. CASE LoadPermits
  <2>1. /\ UNCHANGED <<slowStart, tempS, wCrt, wBar, seq>>
        /\ rpc = "load" /\ rpc' = "add" /\ room' = Larger(0, room - tempS)
    BY <1>8 DEF LoadPermits, InLoop, ReceiverAt, windowVars, countVars
  <2>2. Settled' = Settled /\ Committed' = Committed
    BY <1>1, <2>1 DEF Settled, Committed
  <2>3. room' = 0 \/ room' = room - tempS
    BY <1>2, <2>1, ChoiceOfTwo
  <2>4. restarts = 0 /\ slowStart => tempS >= 0
    <3>1. pc \in {"spent", "counted", "recorded"} => sPkts > 0
      BY DEF VerusInvariant, TypeOK, SenderTypes, Sending
    <3> QED  BY <1>2, <3>1 DEF PermitsBounded
  <2> QED  BY <1>1, <1>2, <2>1, <2>2, <2>3, <2>4 DEF PermitsBounded
<1>9. CASE AddPermits
  <2>1. /\ UNCHANGED <<slowStart, wCrt, wBar, seq>>
        /\ rpc = "add" /\ rpc' = "unlock" /\ tempS' = tempS + room /\ room >= 0
    BY <1>9 DEF AddPermits, InLoop, ReceiverAt, windowVars, countVars, VerusInvariant,
                TypeOK, ReceiverTypes
  <2>2. Settled' = Settled /\ Committed' = Committed + room
    BY <1>1, <1>2, <2>1 DEF Settled, Committed
  <2> QED  BY <1>1, <1>2, <2>1, <2>2 DEF PermitsBounded
<1> QED  BY <1>3, <1>4, <1>5, <1>6, <1>7, <1>8, <1>9 DEF CountPacket

\* What the other two threads do once slow start is over, or to start it again.
LEMMA ThreadsAfterSlowStart ==
  ASSUME VerusInvariant,
         \/ Epoch \/ OffTheCurve \/ LoadSi \/ AddSi
         \/ CurvePass \/ FitSpline \/ FitFails
         \/ \E t \in DOMAIN at : restartSlowStart(t)
  PROVE  /\ ~ slowStart \/ \E t \in DOMAIN at : at[t] # "sleep"
         /\ slowStart' = slowStart \/ restarts' # 0
         /\ restarts' = restarts \/ restarts' # 0
<1>1. DOMAIN at = {"verus", "curve"} /\ restarts \in Nat
  BY CounterTypes
<1>2. CASE Epoch \/ OffTheCurve \/ CurvePass
  BY <1>2 DEF Epoch, OffTheCurve, CurvePass, windowVars
<1>3. CASE LoadSi \/ AddSi \/ FitSpline \/ FitFails
  BY <1>1, <1>3 DEF LoadSi, AddSi, FitSpline, FitFails, ThreadAt, windowVars
<1>4. CASE \E t \in DOMAIN at : restartSlowStart(t)
  BY <1>1, <1>4 DEF restartSlowStart, ResetCounters, ClearLists, PermitFirst, ThreadAt,
                    windowVars
<1> QED  BY <1>2, <1>3, <1>4

LEMMA PermitsNext == VerusInvariant /\ PermitsBounded /\ [Next]_vars => PermitsBounded'
<1> SUFFICES ASSUME VerusInvariant, PermitsBounded, [Next]_vars
             PROVE  PermitsBounded'
  OBVIOUS
<1>1. CASE ALCCSend
  BY <1>1, PermitsSender
<1>2. CASE CountPacket
  BY <1>2, PermitsLoop
<1>3. CASE \/ \E n \in Writes : alcc_send(n)
           \/ OutgoingReport
           \/ \E k \in Packets : RetransmitReport(k)
           \/ \E p \in 0..Written : NewAck(p) \/ OldAck(p)
           \/ UNCHANGED vars
  <2>1. /\ UNCHANGED <<at, restarts, slowStart, wBar, sPkts, pc, tempS, ends, seq>>
        /\ \/ UNCHANGED <<rpc, room, wCrt>>
           \/ rpc = "wait" /\ rpc' \in {"wait", "count"}
    BY <1>3 DEF alcc_send, OutgoingReport, RetransmitReport, NewAck, OldAck, HandleAck,
                AwaitReport, TakeStart, vars, senderVars, batchVars, windowVars, receiverVars,
                countVars, threadVars, observed
  <2>2. Counted' = Counted /\ Settled' = Settled /\ Settled \in Int
    BY <2>1, CounterTypes DEF Counted, Settled, sentSeq
  <2> QED  BY <2>1, <2>2, PermitsFrame
<1>4. CASE \/ Epoch \/ OffTheCurve \/ LoadSi \/ AddSi
           \/ CurvePass \/ FitSpline \/ FitFails
           \/ \E t \in DOMAIN at : restartSlowStart(t)
  <2>1. /\ ~ slowStart \/ \E t \in DOMAIN at : at[t] # "sleep"
        /\ slowStart' = slowStart \/ restarts' # 0
        /\ restarts' = restarts \/ restarts' # 0
    BY <1>4, ThreadsAfterSlowStart
  <2> QED  BY <2>1 DEF PermitsBounded
<1> QED  BY <1>1, <1>2, <1>3, <1>4 DEF Next

\* In the first slow start the permits stay within the window, permits and
\* packets in flight within two, whatever order ALCCSend and ALCCReceive take.
THEOREM SlowStartBounded == Spec => []SlowStartBound
<1>1. VerusInvariant /\ PermitsBounded => SlowStartBound
  BY CounterTypes DEF PermitsBounded, SlowStartBound, Committed
<1> QED  BY <1>1, PermitsInit, PermitsNext, InvariantHolds, PTL DEF Spec

-----------------------------------------------------------------------------
(* Up to the first restart: what is counted.                               *)

\* The end of the n-th packet, if it is full, and of the one after.
LEMMA EndOfPacket ==
  ASSUME NEW n \in Nat, NEW k \in Nat, n <= k
  PROVE  n * MTU \in Nat /\ k * MTU \in Nat /\ n * MTU <= k * MTU
<1>1. MTU \in Nat \ {0} /\ k - n \in Nat
  BY VerusAssumption
<1>2. k * MTU = n * MTU + (k - n) * MTU
  BY <1>1, SMT
<1>3. n * MTU \in Nat /\ (k - n) * MTU \in Nat /\ k * MTU \in Nat
  BY <1>1, SMT
<1> QED  BY <1>2, <1>3

LEMMA CountsAllInit == Init => CountsAll
<1>1. MTU \in Nat \ {0} /\ 0 * MTU = 0 /\ (0 + 0 + 1) * MTU = MTU
  BY VerusAssumption
<1> QED  BY <1>1 DEF Init, CountsAll, Remaining

\* Steps that leave the count alone.
LEMMA CountsAllFrame ==
  ASSUME CountsAll, UNCHANGED <<seq, Remaining, toCount, reported, before, restarts, at>>
  PROVE  CountsAll'
<1>1. Remaining' = Remaining
  OBVIOUS
<1> QED  BY <1>1 DEF CountsAll

LEMMA CountsAllAck ==
  ASSUME VerusInvariant, CountsAll, NEW p \in 0..Written, NewAck(p) \/ OldAck(p)
  PROVE  CountsAll'
<1> USE DEF VerusInvariant, TypeOK
<1> SUFFICES ASSUME restarts = 0
             PROVE  CountsAll'
  BY DEF CountsAll, NewAck, OldAck, HandleAck, AwaitReport
<1> DEFINE n == (p - seq * MTU) \div MTU
<1>1. /\ UNCHANGED <<seq, at, restarts, startingSeq>>
      /\ rpc = "wait" /\ toCount' = numAcks(p)
      /\ IF toCount' > 0 THEN rpc' = "count" /\ before' = reported
                         ELSE rpc' = "wait" /\ before' = reported'
  BY DEF NewAck, OldAck, HandleAck, AwaitReport, threadVars
<1>2. /\ seq \in Nat /\ reported \in Nat /\ MTU \in Nat \ {0} /\ seq * MTU \in Nat
      /\ Remaining = 0 /\ p \in Nat /\ numAcks(p) \in Nat /\ seq + 0 = seq
  <2>1. p \in Nat
    BY PositionNat DEF Written, SenderTypes, sentSeq
  <2> QED  BY <1>1, <2>1, NumAcksBound, NextMultiple, VerusAssumption
              DEF ReceiverTypes, Remaining
<1>3. seq * MTU <= reported /\ reported < (seq + 1) * MTU
  BY <1>2 DEF CountsAll
<1>4. Remaining' = numAcks(p)
  BY <1>1 DEF Remaining
<1>5. \A t \in DOMAIN at : at[t] \notin {"clear", "permit"}
  BY DEF CountsAll
<1>8. startingSeq = IF outgoing = 0 THEN 0 ELSE FirstSeq + seq * MTU
  BY DEF CountsFromStart
<1>9. numAcks(p) = IF outgoing # 0 /\ p >= seq * MTU THEN n ELSE 0
  <2>1. FirstSeq \in Nat \ {0}
    BY VerusAssumption
  <2> SUFFICES ASSUME outgoing # 0
               PROVE  numAcks(p) = IF p >= seq * MTU THEN n ELSE 0
    BY <1>8 DEF numAcks
  <2>2. startingSeq > 0 /\ (FirstSeq + p >= startingSeq <=> p >= seq * MTU)
        /\ FirstSeq + p - startingSeq = p - seq * MTU
    BY <1>2, <1>8, <2>1
  <2> QED  BY <2>2 DEF numAcks
<1>10. CASE NewAck(p)
  <2>1. reported' = p /\ p > reported /\ outgoing # 0
    BY <1>2, <1>10 DEF NewAck, End
  <2>2. seq * MTU <= p /\ numAcks(p) = n
    BY <1>2, <1>3, <1>9, <2>1
  <2>3. (seq + numAcks(p)) * MTU <= p /\ p < (seq + numAcks(p) + 1) * MTU
    BY <1>2, <2>2, CountExact
  <2> QED  BY <1>1, <1>3, <1>4, <1>5, <2>1, <2>3 DEF CountsAll
<1>11. CASE OldAck(p)
  <2>1. reported' = reported /\ p <= reported
    BY <1>11 DEF OldAck
  <2>2. numAcks(p) = 0
    <3> SUFFICES ASSUME p >= seq * MTU, n > 0, n \in Nat
                 PROVE  FALSE
      BY <1>2, <1>9
    <3>1. (seq + n) * MTU <= p
      BY <1>2, CountExact
    <3>2. (seq + 1) * MTU <= (seq + n) * MTU /\ (seq + n) * MTU \in Nat
          /\ (seq + 1) * MTU \in Nat
      <4> HIDE DEF n
      <4>1. seq + 1 \in Nat /\ seq + n \in Nat /\ seq + 1 <= seq + n
        BY <1>2
      <4> QED  BY <4>1, EndOfPacket
    <3> HIDE DEF n
    <3> QED  BY <1>2, <1>3, <2>1, <3>1, <3>2
  <2>3. seq + numAcks(p) = seq
    BY <1>2, <2>2
  <2> QED  BY <1>1, <1>3, <1>4, <1>5, <2>1, <2>2, <2>3 DEF CountsAll
<1> QED  BY <1>10, <1>11

LEMMA CountsAllLoop ==
  ASSUME VerusInvariant, CountsAll, CountPacket
  PROVE  CountsAll'
<1> USE DEF VerusInvariant, TypeOK
<1>1. UNCHANGED <<reported, at, restarts>>
  BY LoopFrame DEF threadVars
<1>2. /\ seq \in Nat /\ toCount \in Nat /\ before \in Nat
      /\ rpc # "wait" => toCount > 0
  BY DEF ReceiverTypes
<1>3. CASE ExitSlowStart \/ StopSending \/ updateUponReceivingPacket \/ GrowWindow
           \/ LoadPermits \/ AddPermits
  <2>1. /\ UNCHANGED <<seq, toCount, before>>
        /\ rpc \notin {"wait", "count"} /\ rpc' \notin {"wait", "count"}
    BY <1>3 DEF ExitSlowStart, StopSending, updateUponReceivingPacket, GrowWindow,
                LoadPermits, AddPermits, InLoop, ReceiverAt, countVars
  <2>2. Remaining' = Remaining
    BY <2>1 DEF Remaining
  <2> QED  BY <1>1, <2>1, <2>2, CountsAllFrame
<1>4. CASE LookUp \/ CountUnrecorded \/ UnlockAnyway
  <2>1. /\ rpc \in {"count", "unlock"} /\ rpc' \in {"wait", "count", "look"}
        /\ \/ /\ rpc = "count" /\ rpc' = "look" /\ toCount' = toCount /\ before' = before
              /\ seq' = seq + 1
           \/ /\ rpc = "count" /\ rpc' # "look" /\ toCount' = toCount - 1 /\ seq' = seq + 1
              /\ (toCount' > 0 => before' = before)
           \/ /\ rpc = "unlock" /\ rpc' # "look" /\ toCount' = toCount - 1 /\ seq' = seq
              /\ (toCount' > 0 => before' = before)
    BY <1>2, <1>4 DEF LookUp, CountUnrecorded, UnlockAnyway, NextPacket, ReceiverAt,
                      Advance, countVars
  <2>2. seq' + Remaining' = seq + Remaining
    BY <1>2, <2>1 DEF Remaining
  <2>3. (seq + 1) * MTU <= (seq + 1 + 1) * MTU /\ (seq + 1) * MTU \in Nat
        /\ (seq + 1 + 1) * MTU \in Nat
    BY <1>2, EndOfPacket
  <2>4. seq' + Remaining' + 1 = seq + Remaining + 1
    BY <2>2
  <2> QED  BY <1>1, <1>2, <2>1, <2>2, <2>3, <2>4 DEF CountsAll
<1> QED  BY <1>3, <1>4 DEF CountPacket

\* The other two threads, up to the first step of a restart.
LEMMA ThreadsBeforeRestart ==
  ASSUME VerusInvariant, restarts' = 0,
         \A t \in DOMAIN at : at[t] \notin {"clear", "permit"},
         \/ Epoch \/ OffTheCurve \/ LoadSi \/ AddSi
         \/ CurvePass \/ FitSpline \/ FitFails
         \/ \E t \in DOMAIN at : restartSlowStart(t)
  PROVE  /\ UNCHANGED <<senderVars, receiverVars, sample, overtaken, pktSeq, lists,
                        countVars, restarts>>
         /\ \A t \in DOMAIN at' : at'[t] \notin {"clear", "permit"}
<1>1. at \in [{"verus", "curve"} -> ThreadPlaces] /\ restarts \in Nat
  BY DEF VerusInvariant, TypeOK, ThreadTypes, ThreadPlaces
<1>2. ~ \E t \in DOMAIN at : restartSlowStart(t)
  BY <1>1 DEF restartSlowStart, ResetCounters, ClearLists, PermitFirst, ThreadAt
<1>3. PICK t \in {"verus", "curve"}, here \in ThreadPlaces,
           next \in ThreadPlaces \ {"clear", "permit"} : ThreadAt(t, here, next)
  BY <1>2 DEF Epoch, OffTheCurve, LoadSi, AddSi, CurvePass, FitSpline, FitFails,
              ThreadPlaces, Restarting
<1>4. UNCHANGED <<pktSeq, lists, countVars, restarts>>
  BY <1>2 DEF Epoch, OffTheCurve, LoadSi, AddSi, CurvePass, FitSpline, FitFails
<1> QED  BY <1>1, <1>3, <1>4, ThreadFrame

LEMMA CountsAllNext == VerusInvariant /\ CountsAll /\ [Next]_vars => CountsAll'
<1> SUFFICES ASSUME VerusInvariant, CountsAll, [Next]_vars
             PROVE  CountsAll'
  OBVIOUS
<1>1. CASE CountPacket
  BY <1>1, CountsAllLoop
<1>2. ASSUME NEW p \in 0..Written, NewAck(p) \/ OldAck(p)
      PROVE  CountsAll'
  BY <1>2, CountsAllAck
<1>3. CASE \/ \E n \in Writes : alcc_send(n)
           \/ ALCCSend
           \/ OutgoingReport \/ \E k \in Packets : RetransmitReport(k)
           \/ UNCHANGED vars
  <2>1. UNCHANGED <<seq, rpc, toCount, reported, before, restarts, at>>
    BY <1>3 DEF alcc_send, ALCCSend, LockRestart, UnlockRestart, StartBatch, EndBatch,
                Transmit, SpendPermit, CountInFlight, RecordTime, RecordWindow, SenderAt,
                OutgoingReport, RetransmitReport, AwaitReport, TakeStart, vars,
                receiverVars, countVars, threadVars, observed
  <2>2. Remaining' = Remaining
    BY <2>1 DEF Remaining
  <2> QED  BY <2>1, <2>2, CountsAllFrame
<1>4. CASE \/ Epoch \/ OffTheCurve \/ LoadSi \/ AddSi
           \/ CurvePass \/ FitSpline \/ FitFails
           \/ \E t \in DOMAIN at : restartSlowStart(t)
  <2> SUFFICES ASSUME restarts' = 0
               PROVE  CountsAll'
    BY DEF CountsAll
  <2>1. restarts = 0
    BY <1>4, CounterTypes, ThreadsAfterSlowStart
  <2>2. \A t \in DOMAIN at : at[t] \notin {"clear", "permit"}
    BY <2>1 DEF CountsAll
  <2>3. /\ UNCHANGED <<seq, rpc, toCount, reported, before>>
        /\ \A t \in DOMAIN at' : at'[t] \notin {"clear", "permit"}
    BY <1>4, <2>2, ThreadsBeforeRestart DEF receiverVars, countVars
  <2>4. Remaining' = Remaining
    BY <2>3 DEF Remaining
  <2> QED  BY <2>1, <2>3, <2>4 DEF CountsAll
<1> QED  BY <1>1, <1>2, <1>3, <1>4 DEF Next

-----------------------------------------------------------------------------
(* Up to the first restart: the lists, and the delays measured with them.  *)

\* The entry under n is that of the n-th packet and has the time of its batch.
InPlace(n) == /\ seqNumbersList[n].packet = n
              /\ OfItsBatch(seqNumbersList[n])

LEMMA ListsInit == Init => ListsExact
<1> SUFFICES ASSUME Init
             PROVE  ListsExact
  OBVIOUS
<1>1. /\ ends = <<>> /\ sentSeq = 0 /\ pc = "lock" /\ rpc = "wait" /\ seq = 0
      /\ DOMAIN seqNumbersList = {} /\ DOMAIN sendingList = {} /\ pktSeq = 0
      /\ pktTime = began
  BY DEF Init, sentSeq
<1> QED  BY <1>1 DEF ListsExact, Settled, Recorded, Sending, InBatch

LEMMA ListsFrame ==
  ASSUME ListsExact,
         UNCHANGED <<pktSeq, pc, ends, batchVars, lists, Settled>>,
         restarts' = 0 /\ overtaken' = 0 => restarts = 0 /\ overtaken = 0
  PROVE  ListsExact'
<1>1. /\ UNCHANGED <<pktSeq, pc, seqNumbersList, sendingList, sentSeq, Recorded,
                     pktTime, began>>
      /\ Settled' = Settled
  BY DEF lists, sentSeq, Recorded, batchVars
<1> QED  BY <1>1 DEF ListsExact, InBatch, OfItsBatch

\* With overtaken = 0 the packet in turn is on record.
LEMMA InTurnRecorded ==
  ASSUME VerusInvariant, restarts = 0, overtaken = 0, seq + Remaining # 0
  PROVE  /\ seq + Remaining \in 1..Recorded /\ End(seq + Remaining) <= reported
         /\ Recorded \in 0..sentSeq
<1> USE DEF VerusInvariant, TypeOK
<1>1. /\ sentSeq \in Nat /\ Recorded \in 0..sentSeq /\ reported \in Nat
  BY DEF SenderTypes, ReceiverTypes, Recorded, sentSeq, Sending
<1>2. /\ seq + Remaining \in 1..sentSeq /\ End(seq + Remaining) <= reported
  BY DEF CountedAcked, Packets, End
<1>3. reported <= End(Recorded)
  BY DEF AckedRecorded
<1>4. End(seq + Remaining) <= End(Recorded)
  BY <1>1, <1>2, <1>3, PositionNat
<1> QED  BY <1>1, <1>2, <1>4, PositionOrder

\* So the packets taken off are packets that ALCCSend is done with.
LEMMA SettledSent ==
  ASSUME VerusInvariant, restarts = 0, overtaken = 0
  PROVE  Settled <= Recorded
<1>1. /\ seq \in Nat /\ toCount \in Nat /\ sentSeq \in Nat
      /\ (rpc # "wait" => toCount > 0)
      /\ (pc \in {"sent", "spent", "counted", "recorded"} => sentSeq > 0)
  BY DEF VerusInvariant, TypeOK, SenderTypes, ReceiverTypes, sentSeq, Sending
<1>2. Remaining \in Nat /\ Settled <= seq /\ Recorded \in Nat
  BY <1>1 DEF Remaining, Settled, Recorded
<1>3. CASE seq + Remaining = 0
  BY <1>1, <1>2, <1>3 DEF Settled
<1>4. CASE seq + Remaining # 0
  <2>1. seq + Remaining \in 1..Recorded
    BY <1>4, InTurnRecorded
  <2> QED  BY <1>1, <1>2, <2>1 DEF Settled
<1> QED  BY <1>3, <1>4

LEMMA ListsSender ==
  ASSUME VerusInvariant, ListsExact, ALCCSend
  PROVE  ListsExact'
<1> USE DEF VerusInvariant, TypeOK
<1>1. UNCHANGED <<restarts, overtaken, rpc, seq, Settled>>
  BY DEF ALCCSend, LockRestart, UnlockRestart, StartBatch, EndBatch, Transmit,
         SpendPermit, CountInFlight, RecordTime, RecordWindow, SenderAt,
         countVars, receiverVars, observed, Settled
<1>2. /\ sentSeq \in Nat /\ Settled \in Int /\ pktSeq \in Nat
      /\ Settled' = Settled
  BY <1>1, CounterTypes DEF SenderTypes
<1> SUFFICES ASSUME restarts = 0, overtaken = 0
             PROVE  ListsExact'
  BY <1>1 DEF ListsExact
<1>3. /\ pktSeq = sentSeq
      /\ DOMAIN seqNumbersList =
           (Settled + 1)..(IF pc \in Sending THEN sentSeq - 1 ELSE sentSeq)
      /\ InBatch
      /\ \A n \in DOMAIN seqNumbersList : InPlace(n)
      /\ DOMAIN sendingList = (Settled + 1)..Recorded
  BY DEF ListsExact, InPlace
<1>4. CASE \/ LockRestart \/ UnlockRestart \/ StartBatch \/ EndBatch
           \/ SpendPermit \/ CountInFlight
  <2>1. /\ UNCHANGED <<pktSeq, ends, sentSeq, seqNumbersList, sendingList>>
        /\ \/ pc \in Sending /\ pc' \in Sending /\ UNCHANGED <<pktTime, began>>
           \/ /\ pc \in {"lock", "test", "take"} /\ pc' \in {"lock", "test", "take"}
              /\ UNCHANGED <<pktTime, began>> \/ pktTime' = began'
    BY <1>4 DEF LockRestart, UnlockRestart, StartBatch, EndBatch, SpendPermit,
                CountInFlight, SenderAt, lists, sentSeq, Sending, batchVars
  <2>2. Recorded' = Recorded
    BY <2>1 DEF Recorded, Sending
  <2>3. InBatch'
    BY <1>3, <2>1 DEF InBatch, Sending
  <2> QED  BY <1>1, <1>2, <1>3, <2>1, <2>2, <2>3
              DEF ListsExact, Sending, InPlace, OfItsBatch
<1>5. CASE Transmit
  <2>1. /\ pc = "take" /\ pc' = "sent" /\ pktSeq' = pktSeq + 1 /\ sentSeq' = sentSeq + 1
        /\ UNCHANGED <<seqNumbersList, sendingList, pktTime, began>>
    BY <1>5 DEF Transmit, SenderAt, lists, sentSeq, SenderTypes, batchVars
  <2>2. Recorded = sentSeq /\ Recorded' = sentSeq
    BY <1>2, <2>1 DEF Recorded
  <2>3. began \in 0..sentSeq
    BY DEF SenderTypes
  <2>4. InBatch'
    BY <1>2, <1>3, <2>1, <2>3 DEF InBatch
  <2> QED  BY <1>1, <1>2, <1>3, <2>1, <2>2, <2>4
              DEF ListsExact, Sending, InPlace, OfItsBatch
<1>6. pc \in {"counted", "recorded"} => Settled + 1 <= sentSeq
  BY <1>2, SettledSent DEF Recorded
<1>7. CASE RecordTime
  <2>1. /\ pc = "counted" /\ pc' = "recorded"
        /\ UNCHANGED <<sendingList, sentSeq, pktSeq, pktTime, began>>
        /\ seqNumbersList' = Put(seqNumbersList, sentSeq, Entry)
    BY <1>3, <1>7 DEF RecordTime, SenderAt, sentSeq, batchVars
  <2>2. Recorded' = Recorded
    BY <2>1 DEF Recorded
  <2>3. /\ DOMAIN seqNumbersList' = DOMAIN seqNumbersList \cup {sentSeq}
        /\ seqNumbersList'[sentSeq] = Entry
        /\ \A n \in DOMAIN seqNumbersList \ {sentSeq} :
             seqNumbersList'[n] = seqNumbersList[n]
    BY <2>1 DEF Put
  <2>6. Entry.packet = sentSeq /\ OfItsBatch(Entry) /\ InBatch'
    BY <1>3, <2>1 DEF Entry, OfItsBatch, InBatch, Sending
  <2>7. \A n \in DOMAIN seqNumbersList' : InPlace(n)'
    BY <1>3, <2>3, <2>6 DEF InPlace, OfItsBatch
  <2>4. Settled + 1 <= sentSeq
    BY <1>6, <2>1
  <2>5. DOMAIN seqNumbersList' = (Settled + 1)..sentSeq
    BY <1>2, <1>3, <2>1, <2>3, <2>4 DEF Sending
  <2> QED  BY <1>1, <1>2, <1>3, <2>1, <2>2, <2>5, <2>6, <2>7
              DEF ListsExact, Sending, InPlace
<1>8. CASE RecordWindow
  <2>1. /\ pc = "recorded" /\ pc' = "take"
        /\ UNCHANGED <<seqNumbersList, sentSeq, pktSeq, pktTime, began>>
        /\ sendingList' = Put(sendingList, sentSeq, wBar)
    BY <1>3, <1>8 DEF RecordWindow, SenderAt, sentSeq, batchVars
  <2>2. Recorded = sentSeq - 1 /\ Recorded' = sentSeq
    BY <2>1 DEF Recorded
  <2>3. DOMAIN sendingList' = DOMAIN sendingList \cup {sentSeq}
    BY <2>1 DEF Put
  <2>4. Settled + 1 <= sentSeq
    BY <1>6, <2>1
  <2>5. DOMAIN sendingList' = (Settled + 1)..sentSeq
    BY <1>2, <1>3, <2>2, <2>3, <2>4
  <2>6. InBatch'
    BY <1>3, <2>1 DEF InBatch, Sending
  <2> QED  BY <1>1, <1>2, <1>3, <2>1, <2>2, <2>5, <2>6
              DEF ListsExact, Sending, InPlace, OfItsBatch
<1> QED  BY <1>4, <1>5, <1>7, <1>8 DEF ALCCSend

LEMMA ListsLoop ==
  ASSUME VerusInvariant, ListsExact, CountPacket
  PROVE  ListsExact'
<1> USE DEF VerusInvariant, TypeOK
<1>1. /\ UNCHANGED <<pktSeq, pc, ends, batchVars, restarts, overtaken, sentSeq, Recorded>>
      /\ UNCHANGED <<pktTime, began>>
  BY LoopFrame DEF senderVars, batchVars
<1> SUFFICES ASSUME restarts = 0, overtaken = 0
             PROVE  ListsExact'
  BY <1>1 DEF ListsExact
<1>2. seq \in Nat /\ toCount \in Nat /\ (rpc # "wait" => toCount > 0)
  BY DEF ReceiverTypes
<1>3. CASE LookUp \/ ExitSlowStart \/ StopSending \/ GrowWindow \/ LoadPermits
           \/ AddPermits \/ UnlockAnyway
  <2>1. /\ UNCHANGED lists
        /\ \/ rpc = "count" /\ rpc' = "look" /\ seq' = seq + 1
           \/ rpc \in {"look", "exit"} /\ rpc' \in {"exit", "update"} /\ seq' = seq
           \/ /\ rpc \in {"grow", "load", "add", "unlock"} /\ seq' = seq
              /\ rpc' \in {"load", "add", "unlock", "count", "wait"}
    BY <1>3 DEF LookUp, ExitSlowStart, StopSending, GrowWindow, LoadPermits, AddPermits,
                UnlockAnyway, NextPacket, InLoop, ReceiverAt, Advance, countVars
  <2>2. Settled' = Settled
    BY <1>2, <2>1 DEF Settled
  <2> QED  BY <1>1, <2>1, <2>2, ListsFrame
<1>4. CASE CountUnrecorded
  <2>1. rpc = "count" /\ ~ OnRecord(seq + 1)
    BY <1>4 DEF CountUnrecorded, NextPacket, ReceiverAt
  <2>2. Settled = seq /\ Remaining = toCount
    BY <2>1 DEF Settled, Remaining
  <2>3. seq + 1 <= Recorded /\ Recorded \in 0..sentSeq
    BY <1>2, <2>1, <2>2, InTurnRecorded
  <2>4. seq + 1 \in DOMAIN seqNumbersList
    BY <1>2, <2>2, <2>3, CounterTypes DEF ListsExact, Recorded, Sending
  <2> QED  BY <1>2, <2>1, <2>4 DEF OnRecord
<1>5. CASE updateUponReceivingPacket
  <2>1. /\ rpc \in {"look", "update"} /\ rpc' \in {"grow", "unlock"} /\ seq' = seq
        /\ seqNumbersList' = Without(seqNumbersList, seq)
        /\ sendingList' = Without(sendingList, seq)
    BY <1>5 DEF updateUponReceivingPacket, InLoop, ReceiverAt, countVars
  <2>2. Settled = seq - 1 /\ Settled' = seq
    BY <2>1 DEF Settled
  <2>3. Recorded' = Recorded /\ sentSeq' = sentSeq /\ sentSeq \in Nat /\ Recorded \in Int
    BY <1>1, CounterTypes DEF Recorded
  <2>4. /\ DOMAIN seqNumbersList' = DOMAIN seqNumbersList \ {seq}
        /\ \A n \in DOMAIN seqNumbersList' : seqNumbersList'[n] = seqNumbersList[n]
        /\ DOMAIN sendingList' = DOMAIN sendingList \ {seq}
    BY <2>1, WithoutEntry
  <2>5. /\ DOMAIN seqNumbersList =
             seq..(IF pc \in Sending THEN sentSeq - 1 ELSE sentSeq)
        /\ DOMAIN sendingList = seq..Recorded
        /\ pktSeq = sentSeq /\ InBatch
        /\ \A n \in DOMAIN seqNumbersList : InPlace(n)
    BY <1>2, <2>2 DEF ListsExact, InPlace
  <2>6. /\ DOMAIN seqNumbersList' =
             (seq + 1)..(IF pc \in Sending THEN sentSeq - 1 ELSE sentSeq)
        /\ DOMAIN sendingList' = (seq + 1)..Recorded
    BY <1>2, <2>3, <2>4, <2>5
  <2>7. InBatch' /\ \A n \in DOMAIN seqNumbersList' : InPlace(n)'
    BY <1>1, <2>4, <2>5 DEF InBatch, InPlace, OfItsBatch
  <2> QED  BY <1>1, <2>2, <2>3, <2>5, <2>6, <2>7 DEF ListsExact, InPlace
<1> QED  BY <1>3, <1>4, <1>5 DEF CountPacket

LEMMA ListsNext ==
  VerusInvariant /\ CountsAll /\ ListsExact /\ [Next]_vars => ListsExact'
<1> SUFFICES ASSUME VerusInvariant, CountsAll, ListsExact, [Next]_vars
             PROVE  ListsExact'
  OBVIOUS
<1>1. CASE ALCCSend
  BY <1>1, ListsSender
<1>2. CASE CountPacket
  BY <1>2, ListsLoop
<1>3. CASE \/ \E n \in Writes : alcc_send(n)
           \/ OutgoingReport
           \/ \E k \in Packets : RetransmitReport(k)
           \/ \E p \in 0..Written : NewAck(p) \/ OldAck(p)
           \/ UNCHANGED vars
  <2>1. /\ UNCHANGED <<pktSeq, pc, ends, batchVars, lists, seq, restarts>>
        /\ \/ rpc' = rpc
           \/ rpc = "wait" /\ rpc' \in {"wait", "count"}
        /\ overtaken' \in {overtaken, overtaken + 1}
    BY <1>3 DEF alcc_send, OutgoingReport, RetransmitReport, NewAck, OldAck, HandleAck,
                AwaitReport, TakeStart, vars, senderVars, batchVars, receiverVars, countVars,
                observed
  <2>2. Settled' = Settled
    BY <2>1 DEF Settled
  <2>3. overtaken' = 0 => overtaken = 0
    BY <2>1, CounterTypes
  <2> QED  BY <2>1, <2>2, <2>3, ListsFrame
<1>4. CASE \/ Epoch \/ OffTheCurve \/ LoadSi \/ AddSi
           \/ CurvePass \/ FitSpline \/ FitFails
           \/ \E t \in DOMAIN at : restartSlowStart(t)
  <2> SUFFICES ASSUME restarts' = 0
               PROVE  ListsExact'
    BY DEF ListsExact
  <2>1. restarts = 0
    BY <1>4, CounterTypes, ThreadsAfterSlowStart
  <2>2. \A t \in DOMAIN at : at[t] \notin {"clear", "permit"}
    BY <2>1 DEF CountsAll
  <2>3. UNCHANGED <<pktSeq, pc, ends, batchVars, lists, seq, rpc, restarts, overtaken>>
    BY <1>4, <2>2, ThreadsBeforeRestart DEF senderVars, batchVars, receiverVars, countVars
  <2>4. Settled' = Settled
    BY <2>3 DEF Settled
  <2> QED  BY <2>3, <2>4, ListsFrame
<1> QED  BY <1>1, <1>2, <1>3, <1>4 DEF Next

\* The packet that ALCCReceive looks up is on record, and it is the present
\* report that acknowledges it.
LEMMA LookUpTimely ==
  ASSUME VerusInvariant, CountsAll, ListsExact, AllFull, restarts = 0, overtaken = 0,
         rpc = "count"
  PROVE  Sampled(seq + 1) = "timely"
<1> USE DEF VerusInvariant, TypeOK
<1> DEFINE n == seq + 1
           k == seq + Remaining
<1>1. /\ seq \in Nat /\ toCount \in Nat /\ toCount > 0 /\ before \in Nat /\ reported \in Nat
      /\ Remaining = toCount /\ Settled = seq /\ sentSeq \in Nat
  BY DEF ReceiverTypes, Remaining, Settled, SenderTypes, sentSeq
<1>2. k \in 1..Recorded /\ End(k) <= reported /\ Recorded \in 0..sentSeq
  BY <1>1, InTurnRecorded
<1>3. n <= k /\ n \in Nat /\ n \in Packets /\ n \in (Settled + 1)..Recorded
  BY <1>1, <1>2 DEF Packets
<1>4. /\ n \in DOMAIN seqNumbersList /\ n \in DOMAIN sendingList
      /\ seqNumbersList[n].packet = n /\ OfItsBatch(seqNumbersList[n])
  <2>1. n <= IF pc \in Sending THEN sentSeq - 1 ELSE sentSeq
    BY <1>1, <1>2, <1>3 DEF Recorded, Sending
  <2> QED  BY <1>1, <1>2, <1>3, <2>1 DEF ListsExact
<1>5. End(n) <= End(k) /\ End(n) \in Nat /\ End(k) \in Nat
  BY <1>1, <1>2, <1>3, PositionOrder, PositionNat DEF Packets
<1>6. before < n * MTU /\ k * MTU <= reported
  BY <1>1 DEF CountsAll
<1>7. n * MTU <= End(n)
  <2>1. CASE n < sentSeq
    <3>1. ends[n] = n * MTU
      BY <1>1, <1>3, <2>1 DEF AllFull, Packets
    <3>2. n * MTU \in Nat
      BY <1>3, EndOfPacket
    <3> QED  BY <1>1, <1>3, <3>1, <3>2 DEF End
  <2>2. CASE n = sentSeq
    <3>1. n = k
      BY <1>1, <1>2, <1>3, <2>2
    <3>2. reported <= End(outgoing) /\ outgoing \in 0..sentSeq
      BY DEF ReceiverTypes
    <3>3. End(outgoing) <= End(n) /\ End(outgoing) \in Nat
      BY <1>1, <2>2, <3>2, PositionOrder, PositionNat
    <3>4. k * MTU \in Nat
      BY <1>3, <3>1, EndOfPacket
    <3> QED  BY <1>1, <1>5, <1>6, <3>1, <3>2, <3>3, <3>4
  <2> QED  BY <1>1, <1>2, <1>3, <2>1, <2>2
<1>8. before < End(n) /\ End(n) <= reported
  <2>1. n * MTU \in Nat
    BY <1>3, EndOfPacket
  <2> QED  BY <1>1, <1>2, <1>5, <1>6, <1>7, <2>1
<1> QED  BY <1>4, <1>8 DEF Sampled

LEMMA TimelyNext ==
  VerusInvariant /\ CountsAll /\ ListsExact /\ SamplesTimely /\ [Next]_vars
    => SamplesTimely'
<1> SUFFICES ASSUME VerusInvariant, CountsAll, ListsExact, SamplesTimely, [Next]_vars,
                    AllFull', restarts' = 0, overtaken' = 0
             PROVE  sample' \in {"none", "timely"}
  BY DEF SamplesTimely
<1>1. sentSeq \in Nat /\ overtaken \in Nat /\ restarts \in Nat
  BY CounterTypes
<1>2. /\ restarts = 0
      /\ \/ UNCHANGED <<ends, sample, overtaken>>
         \/ UNCHANGED <<ends, sample>> /\ overtaken' = overtaken + 1
         \/ Transmit
         \/ LookUp
         \/ sample' = "none"
  <2>1. CASE ALCCSend
    BY <2>1 DEF ALCCSend, LockRestart, UnlockRestart, StartBatch, EndBatch,
                SpendPermit, CountInFlight, RecordTime, RecordWindow, SenderAt, observed,
                Transmit
  <2>2. CASE CountPacket
    BY <2>2 DEF CountPacket, CountUnrecorded, ExitSlowStart, StopSending,
                updateUponReceivingPacket, GrowWindow, LoadPermits, AddPermits,
                UnlockAnyway, NextPacket, InLoop, ReceiverAt, senderVars, batchVars, LookUp
  <2>3. CASE \/ \E n \in Writes : alcc_send(n)
             \/ OutgoingReport
             \/ \E k \in Packets : RetransmitReport(k)
             \/ \E p \in 0..Written : NewAck(p) \/ OldAck(p)
             \/ UNCHANGED vars
    BY <2>3 DEF alcc_send, OutgoingReport, RetransmitReport, NewAck, OldAck, HandleAck,
                AwaitReport, TakeStart, vars, senderVars, batchVars, observed
  <2>4. CASE \/ Epoch \/ OffTheCurve \/ LoadSi \/ AddSi
             \/ CurvePass \/ FitSpline \/ FitFails
             \/ \E t \in DOMAIN at : restartSlowStart(t)
    <3>1. restarts = 0
      BY <1>1, <2>4, ThreadsAfterSlowStart
    <3>2. \A t \in DOMAIN at : at[t] \notin {"clear", "permit"}
      BY <3>1 DEF CountsAll
    <3> QED  BY <2>4, <3>1, <3>2, ThreadsBeforeRestart DEF senderVars, batchVars
  <2> QED  BY <2>1, <2>2, <2>3, <2>4 DEF Next
<1>3. CASE UNCHANGED <<ends, sample, overtaken>>
  BY <1>2, <1>3 DEF SamplesTimely, AllFull, sentSeq
<1>4. CASE overtaken' = overtaken + 1
  BY <1>1, <1>4
<1>5. CASE Transmit
  <2>1. /\ sentSeq' = sentSeq + 1 /\ UNCHANGED <<sample, overtaken, restarts>>
        /\ \A k \in Packets : ends'[k] = ends[k]
    BY <1>5 DEF Transmit, SenderAt, observed, sentSeq, Packets, VerusInvariant, TypeOK,
                SenderTypes
  <2>2. AllFull
    BY <1>1, <2>1 DEF AllFull, Packets
  <2> QED  BY <1>2, <2>1, <2>2 DEF SamplesTimely
<1>6. CASE LookUp
  <2>1. rpc = "count" /\ sample' = Sampled(seq + 1) /\ UNCHANGED <<ends, overtaken>>
    BY <1>6 DEF LookUp, ReceiverAt, senderVars, batchVars
  <2>2. AllFull
    BY <2>1 DEF AllFull, sentSeq
  <2> QED  BY <1>2, <2>1, <2>2, LookUpTimely
<1> QED  BY <1>2, <1>3, <1>4, <1>5, <1>6

\* Up to the first restart: the permits are bounded, every whole MTU that was
\* acknowledged is counted, the lists hold exactly the packets not taken off, with
\* the times of their batches.
THEOREM FirstStartHolds == Spec => []FirstStartInvariant
<1>1. Init => FirstStartInvariant
  <2>1. Init => SamplesTimely
    BY DEF Init, SamplesTimely
  <2> QED  BY <2>1, PermitsInit, CountsAllInit, ListsInit DEF FirstStartInvariant
<1>2. VerusInvariant /\ FirstStartInvariant /\ [Next]_vars => FirstStartInvariant'
  BY PermitsNext, CountsAllNext, ListsNext, TimelyNext DEF FirstStartInvariant
<1> QED  BY <1>1, <1>2, InvariantHolds, PTL DEF Spec

\* With full packets and none acknowledged early, every delay up to the first
\* restart is that of a packet which the present report is the first to
\* acknowledge, measured from the beginning of that packet's batch, and there is
\* a window on record for it.
THEOREM TimelySamples == Spec => []SamplesTimely
<1>1. FirstStartInvariant => SamplesTimely
  BY DEF FirstStartInvariant
<1> QED  BY <1>1, FirstStartHolds, PTL
=============================================================================
