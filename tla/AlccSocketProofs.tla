-------------------------- MODULE AlccSocketProofs --------------------------
(***************************************************************************)
(* The counters of an ALCC socket are right for every window, packet size, *)
(* modulus and environment of AlccSocket: short packets, acknowledgements  *)
(* that overtake the sender's bookkeeping or that were reordered across a  *)
(* wrap included.                                                          *)
(***************************************************************************)
EXTENDS AlccSocket, TLAPS

-----------------------------------------------------------------------------
(* Arithmetic of sequence numbers.                                         *)

LEMMA ModRange ==
  ASSUME NEW a \in Nat, NEW m \in Nat \ {0}
  PROVE  a % m \in 0..(m - 1)
OBVIOUS

LEMMA DivNat ==
  ASSUME NEW a \in Nat, NEW m \in Nat \ {0}
  PROVE  a \div m \in Nat
OBVIOUS

LEMMA SumMonotone ==
  ASSUME NEW a \in Int, NEW b \in Int, NEW c \in Int, NEW d \in Int, b <= a
  PROVE  /\ b + c + d <= a + c + d
         /\ a + c + d \in Int
         /\ b + c + d \in Int
OBVIOUS

\* Every position has a sequence number.
LEMMA WireRange ==
  ASSUME NEW p \in Nat
  PROVE  Wire(p) \in 0..(MODULUS - 1)
<1>1. FirstSeq + p \in Nat
  BY SocketAssumption
<1>2. Wire(p) = (FirstSeq + p) % MODULUS
  BY DEF Wire
<1> QED  BY <1>1, <1>2, ModRange, SocketAssumption

LEMMA EndIsNat ==
  ASSUME TypeOK, NEW k \in 0..sentSeq
  PROVE  End(k) \in Nat
BY DEF End, sentSeq, TypeOK

\* An acknowledgement never makes rcvSeq go back.
LEMMA AdvanceNat ==
  ASSUME TypeOK, NEW ack \in 0..(MODULUS - 1)
  PROVE  Advance(ack) \in Nat
<1>1. CASE ack >= tcpSeq
  BY <1>1, DivNat, SocketAssumption DEF Advance, TypeOK
<1>2. CASE ack < tcpSeq
  <2>1. MODULUS - tcpSeq + ack \in Nat
    BY SocketAssumption DEF TypeOK
  <2> QED  BY <1>2, <2>1, DivNat, SocketAssumption DEF Advance, TypeOK
<1> QED  BY <1>1, <1>2, SocketAssumption DEF TypeOK

-----------------------------------------------------------------------------
LEMMA InitEstablishes == Init => SocketInvariant
<1> SUFFICES ASSUME Init
             PROVE  SocketInvariant
  OBVIOUS
<1>1. /\ ends \in Seq(Nat) /\ sentSeq = 0 /\ pc = "test"
      /\ sPkts = 0 /\ tempS = 1 /\ pktsInFlight = 0 /\ rcvSeqLast = 0
  BY DEF Init, sentSeq
<1>2. Recorded = 0 /\ Counted = 0 /\ Committed = 1
  BY <1>1 DEF Recorded, Counted, Committed
<1>3. TypeOK
  <2>1. paused \in BOOLEAN /\ ccRuns \in BOOLEAN /\ alive \in BOOLEAN
    BY Zenon DEF Init
  <2>2. seqNumbersList = {} /\ loaded = {} /\ tcpSeq \in 0..(MODULUS - 1)
    BY SocketAssumption DEF Init
  <2> QED  BY <1>1, <2>1, <2>2 DEF Init, TypeOK
<1>4. InFlightAccounting /\ SettledInOrder /\ RecordedOnly
  BY <1>1, <1>2 DEF Init, InFlightAccounting, SettledInOrder, RecordedOnly
<1>5. PermitsCoverBatch /\ BatchOpen /\ WindowBound /\ LoadsAreOld
  BY <1>1, <1>2, SocketAssumption
     DEF Init, PermitsCoverBatch, BatchOpen, WindowBound, LoadsAreOld
<1> QED  BY <1>3, <1>4, <1>5 DEF SocketInvariant

\* The application only adds to the queue.
LEMMA SendPreserves ==
  ASSUME SocketInvariant, NEW n \in Writes, alcc_send(n)
  PROVE  SocketInvariant'
<1>1. queued' \in Nat
  BY SocketAssumption DEF alcc_send, SocketInvariant, TypeOK
<1>2. UNCHANGED <<ends, pc, sPkts, receiverVars, ccVars, sharedVars, ccRuns, alive>>
  BY DEF alcc_send
<1> QED
  BY <1>1, <1>2
     DEF receiverVars, ccVars, sharedVars, SocketInvariant, TypeOK,
         InFlightAccounting, SettledInOrder, RecordedOnly, PermitsCoverBatch,
         BatchOpen, WindowBound, LoadsAreOld, Committed, Counted, Recorded, sentSeq

-----------------------------------------------------------------------------
(* pkt_sender.                                                             *)

LEMMA BatchPreserves ==
  ASSUME SocketInvariant, StartBatch \/ EndBatch
  PROVE  SocketInvariant'
<1>1. /\ UNCHANGED <<queued, ends, receiverVars, ccVars, sharedVars, ccRuns, alive>>
      /\ pc \in {"test", "take"} /\ pc' \in {"test", "take"}
      /\ sPkts' \in Nat /\ sPkts' <= tempS /\ tempS \in Nat
  BY DEF StartBatch, EndBatch, SenderAt, SocketInvariant, TypeOK,
         PermitsCoverBatch
<1> QED
  BY <1>1
     DEF receiverVars, ccVars, sharedVars, SocketInvariant, TypeOK,
         InFlightAccounting, SettledInOrder, RecordedOnly, PermitsCoverBatch,
         BatchOpen, WindowBound, LoadsAreOld, Committed, Counted, Recorded, sentSeq

LEMMA TransmitPreserves ==
  ASSUME SocketInvariant, Transmit
  PROVE  SocketInvariant'
<1> DEFINE size == IF queued < MTU THEN queued ELSE MTU
<1>1. /\ UNCHANGED <<sPkts, receiverVars, ccVars, sharedVars, ccRuns, alive>>
      /\ pc = "take" /\ pc' = "sent" /\ sPkts > 0 /\ queued > 0
      /\ queued' = queued - size /\ ends' = Append(ends, Written + size)
  BY DEF Transmit, SenderAt
<1>2. size \in Nat /\ queued' \in Nat /\ Written \in Nat
  BY <1>1, SocketAssumption DEF SocketInvariant, TypeOK, Written, End, sentSeq
<1>3. ends' \in Seq(Nat) /\ sentSeq' = sentSeq + 1 /\ sentSeq \in Nat
  BY <1>1, <1>2 DEF SocketInvariant, TypeOK, sentSeq
<1>4. Recorded' = Recorded /\ Counted' = Counted /\ Committed' = Committed
  BY <1>1, <1>3 DEF Recorded, Counted, Committed, sharedVars
<1>5. TypeOK'
  BY <1>1, <1>2, <1>3
     DEF SocketInvariant, TypeOK, sharedVars, receiverVars, ccVars
<1>6. InFlightAccounting' /\ SettledInOrder' /\ RecordedOnly'
  BY <1>1, <1>4
     DEF SocketInvariant, InFlightAccounting, SettledInOrder, RecordedOnly,
         sharedVars, receiverVars
<1>7. PermitsCoverBatch' /\ BatchOpen'
  BY <1>1, <1>3
     DEF SocketInvariant, PermitsCoverBatch, BatchOpen, sharedVars, TypeOK
<1>8. WindowBound' /\ LoadsAreOld'
  BY <1>1, <1>4
     DEF SocketInvariant, WindowBound, LoadsAreOld, sharedVars, ccVars
<1> QED  BY <1>5, <1>6, <1>7, <1>8 DEF SocketInvariant

\* The three steps after ::send move one packet from the permits to the
\* packets in flight, and then on record.
LEMMA SpendPreserves ==
  ASSUME SocketInvariant, SpendPermit
  PROVE  SocketInvariant'
<1>1. /\ UNCHANGED <<queued, ends, sPkts, receiverVars, ccVars, ccRuns, alive,
                     paused, pktsInFlight, seqNumbersList>>
      /\ pc = "sent" /\ pc' = "spent" /\ tempS' = tempS - 1
      /\ tempS \in Int
  BY DEF SpendPermit, SenderAt, SocketInvariant, TypeOK
<1>2. Recorded' = Recorded /\ Counted' = Counted /\ Committed' = Committed
  BY <1>1 DEF Recorded, Counted, Committed, sentSeq, SocketInvariant, TypeOK
<1> QED
  BY <1>1, <1>2, SocketAssumption
     DEF receiverVars, ccVars, SocketInvariant, TypeOK,
         InFlightAccounting, SettledInOrder, RecordedOnly, PermitsCoverBatch,
         BatchOpen, WindowBound, LoadsAreOld, sentSeq

LEMMA CountPreserves ==
  ASSUME SocketInvariant, CountInFlight
  PROVE  SocketInvariant'
<1>1. /\ UNCHANGED <<queued, ends, sPkts, receiverVars, ccVars, ccRuns, alive,
                     paused, tempS, seqNumbersList>>
      /\ pc = "spent" /\ pc' = "counted" /\ pktsInFlight' = pktsInFlight + 1
      /\ pktsInFlight \in Int /\ tempS \in Int /\ sentSeq \in Nat
  BY DEF CountInFlight, SenderAt, SocketInvariant, TypeOK, sentSeq
<1>2. Recorded' = Recorded /\ Counted' = Counted + 1 /\ Committed' = Committed
  BY <1>1 DEF Recorded, Counted, Committed, sentSeq
<1>3. Counted \in Int
  BY <1>1 DEF Counted
<1> QED
  BY <1>1, <1>2, <1>3
     DEF receiverVars, ccVars, SocketInvariant, TypeOK,
         InFlightAccounting, SettledInOrder, RecordedOnly, PermitsCoverBatch,
         BatchOpen, WindowBound, LoadsAreOld, sentSeq

LEMMA RecordPreserves ==
  ASSUME SocketInvariant, RecordTime
  PROVE  SocketInvariant'
<1>1. /\ UNCHANGED <<queued, ends, receiverVars, ccVars, ccRuns, alive,
                     paused, tempS, pktsInFlight>>
      /\ pc = "counted" /\ pc' = "take" /\ sPkts' = sPkts - 1
      /\ seqNumbersList' = seqNumbersList \cup {sentSeq}
      /\ sentSeq \in Nat \ {0} /\ sPkts \in Nat \ {0} /\ rcvSeqLast \in Nat
  BY DEF RecordTime, SenderAt, SocketInvariant, TypeOK, BatchOpen, sentSeq
<1>2. /\ Recorded = sentSeq - 1 /\ Recorded' = sentSeq
      /\ Counted' = Counted /\ Committed' = Committed /\ sentSeq' = sentSeq
  BY <1>1 DEF Recorded, Counted, Committed, sentSeq
<1>3. RecordedOnly' /\ seqNumbersList' \subseteq 1..sentSeq
  BY <1>1, <1>2 DEF SocketInvariant, RecordedOnly
<1>4. SettledInOrder'
  BY <1>1, <1>2 DEF SocketInvariant, SettledInOrder, receiverVars
<1>5. TypeOK'
  BY <1>1, <1>2, <1>3
     DEF SocketInvariant, TypeOK, receiverVars, ccVars
<1>6. InFlightAccounting' /\ PermitsCoverBatch' /\ BatchOpen'
  BY <1>1, <1>2
     DEF SocketInvariant, InFlightAccounting, PermitsCoverBatch, BatchOpen,
         receiverVars
<1>7. WindowBound' /\ LoadsAreOld'
  BY <1>1, <1>2 DEF SocketInvariant, WindowBound, LoadsAreOld, ccVars
<1> QED  BY <1>3, <1>4, <1>5, <1>6, <1>7 DEF SocketInvariant

-----------------------------------------------------------------------------
(* ack_receiver.                                                           *)

LEMMA OutgoingPreserves ==
  ASSUME SocketInvariant, NEW k \in Packets, OutgoingReport(k)
  PROVE  SocketInvariant'
<1>1. /\ UNCHANGED <<senderVars, rcvSeq, rcvSeqLast, reported, ccVars, sharedVars>>
      /\ tcpSeq' = Wire(End(k - 1)) /\ ccRuns' = TRUE /\ alive' \in BOOLEAN
  BY DEF OutgoingReport
<1>2. tcpSeq' \in 0..(MODULUS - 1)
  <2>1. k - 1 \in 0..sentSeq
    BY DEF Packets, SocketInvariant, TypeOK, sentSeq
  <2>2. End(k - 1) \in Nat
    BY <2>1, EndIsNat DEF SocketInvariant
  <2> QED  BY <1>1, <2>2, WireRange
<1> QED
  BY <1>1, <1>2
     DEF senderVars, ccVars, sharedVars, SocketInvariant, TypeOK,
         InFlightAccounting, SettledInOrder, RecordedOnly, PermitsCoverBatch,
         BatchOpen, WindowBound, LoadsAreOld, Committed, Counted, Recorded, sentSeq

LEMMA AckPreserves ==
  ASSUME SocketInvariant, NEW p \in Nat, reported' \in Nat, HandleAck(p)
  PROVE  SocketInvariant'
<1> DEFINE ack == Wire(p)
           seq == rcvSeq + Advance(ack)
<1>1. UNCHANGED <<senderVars, tempS, paused, ccVars, ccRuns, alive>>
  BY DEF HandleAck
<1>2. /\ ack \in 0..(MODULUS - 1) /\ seq \in Nat /\ seq >= rcvSeq
      /\ rcvSeqLast \in Nat /\ pktsInFlight \in Int /\ sentSeq \in Nat
  <2>1. TypeOK
    BY DEF SocketInvariant
  <2>2. ack \in 0..(MODULUS - 1)
    BY WireRange
  <2> HIDE DEF ack
  <2>3. Advance(ack) \in Nat
    BY <2>1, <2>2, AdvanceNat
  <2>4. rcvSeq \in Nat /\ rcvSeqLast \in Nat /\ pktsInFlight \in Int /\ sentSeq \in Nat
    BY <2>1 DEF TypeOK, sentSeq
  <2> QED  BY <2>2, <2>3, <2>4
<1> HIDE DEF ack, seq
<1>3. Recorded' = Recorded /\ Counted' = Counted /\ sentSeq' = sentSeq
  BY <1>1 DEF Recorded, Counted, sentSeq, senderVars
<1>4. CASE Accepted(ack) /\ seq \in seqNumbersList
  <2>1. /\ rcvSeq' = seq /\ tcpSeq' = ack
        /\ pktsInFlight' = pktsInFlight - (seq - rcvSeqLast)
        /\ rcvSeqLast' = IF seq >= rcvSeqLast + 1 THEN seq ELSE rcvSeqLast
        /\ seqNumbersList' = seqNumbersList \ {seq}
    BY <1>4 DEF HandleAck, Settle, ack, seq
  <2>2. seq >= rcvSeqLast /\ seq <= Recorded /\ Recorded <= Counted
    BY <1>2, <1>4
       DEF SocketInvariant, SettledInOrder, RecordedOnly, TypeOK, Recorded, Counted
  <2>3. rcvSeqLast' = seq
    BY <1>2, <2>1, <2>2
  <2>4. Counted \in Int /\ Recorded \in Int
    BY <1>2 DEF Counted, Recorded
  <2>5. InFlightAccounting' /\ SettledInOrder' /\ RecordedOnly'
    BY <1>2, <1>3, <2>1, <2>2, <2>3, <2>4
       DEF SocketInvariant, InFlightAccounting, SettledInOrder, RecordedOnly
  <2>6. pktsInFlight' <= pktsInFlight /\ pktsInFlight' \in Int
    BY <1>2, <2>1, <2>2
  <2>7. Committed' <= Committed /\ Committed \in Int /\ Committed' \in Int
    <3> DEFINE spent == IF pc = "spent" THEN 1 ELSE 0
    <3>1. spent \in Int /\ tempS \in Int
      BY DEF SocketInvariant, TypeOK
    <3>2. /\ Committed = pktsInFlight + tempS + spent
          /\ Committed' = pktsInFlight' + tempS + spent
      BY <1>1 DEF Committed, senderVars
    <3> HIDE DEF spent
    <3> QED  BY <1>2, <2>6, <3>1, <3>2, SumMonotone
  <2>8. WindowBound' /\ LoadsAreOld'
    BY <1>1, <2>7, SocketAssumption
       DEF SocketInvariant, WindowBound, LoadsAreOld, TypeOK, ccVars
  <2>9. TypeOK' /\ PermitsCoverBatch' /\ BatchOpen'
    BY <1>1, <1>2, <1>3, <2>1, <2>3, <2>6
       DEF SocketInvariant, TypeOK, PermitsCoverBatch, BatchOpen, senderVars,
           ccVars, sentSeq
  <2> QED  BY <2>5, <2>8, <2>9 DEF SocketInvariant
<1>5. CASE ~ (Accepted(ack) /\ seq \in seqNumbersList)
  <2>1. /\ UNCHANGED <<pktsInFlight, rcvSeqLast, seqNumbersList>>
        /\ rcvSeq' \in Nat /\ rcvSeq' >= rcvSeq /\ tcpSeq' \in 0..(MODULUS - 1)
    BY <1>2, <1>5 DEF HandleAck, Settle, ack, seq, SocketInvariant, TypeOK
  <2>2. InFlightAccounting' /\ SettledInOrder' /\ RecordedOnly'
    BY <1>2, <1>3, <2>1
       DEF SocketInvariant, TypeOK, InFlightAccounting, SettledInOrder, RecordedOnly
  <2>3. Committed' = Committed
    BY <1>1, <2>1 DEF Committed, senderVars
  <2>4. WindowBound' /\ LoadsAreOld'
    BY <1>1, <2>3 DEF SocketInvariant, WindowBound, LoadsAreOld, ccVars
  <2>5. TypeOK' /\ PermitsCoverBatch' /\ BatchOpen'
    BY <1>1, <1>3, <2>1
       DEF SocketInvariant, TypeOK, PermitsCoverBatch, BatchOpen, senderVars,
           ccVars, sentSeq
  <2> QED  BY <2>2, <2>4, <2>5 DEF SocketInvariant
<1> QED  BY <1>4, <1>5

-----------------------------------------------------------------------------
(* CC_logic.                                                               *)

LEMMA LoadPreserves ==
  ASSUME SocketInvariant, LoadInFlight \/ LoadTempS
  PROVE  SocketInvariant'
<1>1. UNCHANGED <<senderVars, receiverVars, sharedVars, ccRuns, alive>>
  BY DEF LoadInFlight, LoadTempS, Load
<1>2. /\ Recorded' = Recorded /\ Counted' = Counted /\ sentSeq' = sentSeq
      /\ Committed' = Committed
  BY <1>1 DEF Recorded, Counted, Committed, sentSeq, senderVars, sharedVars
<1>3. TypeOK'
  BY <1>1 DEF LoadInFlight, LoadTempS, Load, SocketInvariant, TypeOK, sentSeq,
              senderVars, receiverVars, sharedVars
<1>4. InFlightAccounting' /\ SettledInOrder' /\ RecordedOnly'
  BY <1>1, <1>2
     DEF SocketInvariant, InFlightAccounting, SettledInOrder, RecordedOnly,
         receiverVars, sharedVars
<1>5. PermitsCoverBatch' /\ BatchOpen' /\ WindowBound'
  BY <1>1, <1>2
     DEF SocketInvariant, PermitsCoverBatch, BatchOpen, WindowBound, senderVars,
         sharedVars
<1>6. LoadsAreOld'
  <2>1. pktsInFlight >= 0 /\ tempS <= CWND /\ tempS \in Int /\ pktsInFlight \in Int
    BY DEF SocketInvariant, InFlightAccounting, WindowBound, TypeOK
  <2>2. Committed <= pktsInFlight + CWND + 1
    BY <2>1, SocketAssumption DEF Committed
  <2> QED
    BY <1>1, <1>2, <2>1, <2>2
       DEF LoadInFlight, LoadTempS, Load, SocketInvariant, LoadsAreOld, sharedVars
<1> QED  BY <1>3, <1>4, <1>5, <1>6 DEF SocketInvariant

LEMMA AddPreserves ==
  ASSUME SocketInvariant, AddPermits
  PROVE  SocketInvariant'
<1> DEFINE room == CWND - ccF - ccT
<1>1. /\ UNCHANGED <<senderVars, receiverVars, pktsInFlight, seqNumbersList,
                     ccRuns, alive>>
      /\ loaded' = {} /\ ccF' = 0 /\ ccT' = 0
      /\ paused' \in BOOLEAN
      /\ tempS' = tempS \/ (room >= 0 /\ tempS' = tempS + room)
  <2>1. paused \in BOOLEAN /\ room \in Int
    BY SocketAssumption DEF SocketInvariant, TypeOK
  <2>2. room >= 0 \/ room < 0
    BY <2>1
  <2>3. CASE paused \/ room < 0
    BY <2>1, <2>3, Zenon DEF AddPermits
  <2>4. CASE ~ (paused \/ room < 0)
    BY <2>1, <2>2, <2>4, Zenon DEF AddPermits
  <2> QED  BY <2>3, <2>4
<1>2. /\ ccT >= tempS /\ ccF >= 0 /\ Committed <= ccF + CWND + 1
      /\ tempS \in Int /\ ccF \in Int /\ ccT \in Int /\ pktsInFlight \in Int
      /\ CWND \in Nat
  BY SocketAssumption DEF AddPermits, SocketInvariant, LoadsAreOld, TypeOK
<1>3. tempS >= 0
  BY <1>2 DEF SocketInvariant, PermitsCoverBatch, BatchOpen, TypeOK
<1>4. Recorded' = Recorded /\ Counted' = Counted /\ sentSeq' = sentSeq
  BY <1>1 DEF Recorded, Counted, sentSeq, senderVars
<1>5. TypeOK'
  BY <1>1, <1>2, <1>4
     DEF SocketInvariant, TypeOK, senderVars, receiverVars, sentSeq
<1>6. InFlightAccounting' /\ SettledInOrder' /\ RecordedOnly'
  BY <1>1, <1>4
     DEF SocketInvariant, InFlightAccounting, SettledInOrder, RecordedOnly,
         receiverVars
<1>7. PermitsCoverBatch' /\ BatchOpen'
  BY <1>1, <1>2, <1>4
     DEF SocketInvariant, PermitsCoverBatch, BatchOpen, senderVars, TypeOK
<1>8. WindowBound'
  <2>1. CASE tempS' = tempS
    BY <1>1, <2>1 DEF SocketInvariant, WindowBound, Committed, senderVars
  <2>2. CASE room >= 0 /\ tempS' = tempS + room
    <3>1. tempS' <= CWND
      BY <1>2, <2>2
    <3>2. Committed' = Committed + room /\ Committed \in Int
      BY <1>1, <1>2, <2>2 DEF Committed, senderVars
    <3>3. Committed' <= 2 * CWND + 1
      BY <1>2, <1>3, <2>2, <3>2
    <3> QED  BY <3>1, <3>3 DEF WindowBound
  <2> QED  BY <1>1, <2>1, <2>2
<1>9. LoadsAreOld'
  BY <1>1 DEF LoadsAreOld
<1> QED  BY <1>5, <1>6, <1>7, <1>8, <1>9 DEF SocketInvariant

-----------------------------------------------------------------------------
LEMMA NextPreserves == SocketInvariant /\ [Next]_vars => SocketInvariant'
<1> SUFFICES ASSUME SocketInvariant, [Next]_vars
             PROVE  SocketInvariant'
  OBVIOUS
<1>1. ASSUME NEW n \in Writes, alcc_send(n)
      PROVE  SocketInvariant'
  BY <1>1, SendPreserves
<1>2. CASE Sender
  BY <1>2, BatchPreserves, TransmitPreserves, SpendPreserves, CountPreserves,
     RecordPreserves DEF Sender
<1>3. ASSUME NEW k \in Packets, OutgoingReport(k)
      PROVE  SocketInvariant'
  BY <1>3, OutgoingPreserves
<1>4. ASSUME NEW p \in 1..Written, NewAck(p)
      PROVE  SocketInvariant'
  <2>1. p \in Nat /\ reported' \in Nat
    BY <1>4 DEF NewAck
  <2> QED  BY <1>4, <2>1, AckPreserves DEF NewAck
<1>5. ASSUME NEW p \in 0..Written, OldAck(p)
      PROVE  SocketInvariant'
  <2>1. p \in Nat /\ reported' \in Nat
    BY <1>5 DEF OldAck, SocketInvariant, TypeOK
  <2> QED  BY <1>5, <2>1, AckPreserves DEF OldAck
<1>6. CASE CC_logic
  BY <1>6, LoadPreserves, AddPreserves DEF CC_logic
<1>7. CASE UNCHANGED vars \/ Dead
  BY <1>7
     DEF Dead, vars, senderVars, receiverVars, ccVars, sharedVars, SocketInvariant,
         TypeOK, InFlightAccounting, SettledInOrder, RecordedOnly,
         PermitsCoverBatch, BatchOpen, WindowBound, LoadsAreOld, Committed,
         Counted, Recorded, sentSeq
<1> QED  BY <1>1, <1>2, <1>3, <1>4, <1>5, <1>6, <1>7 DEF Next

\* The inductive invariant holds in every behaviour.
THEOREM InvariantHolds == Spec => []SocketInvariant
BY InitEstablishes, NextPreserves, PTL DEF Spec

\* Every variable of the socket keeps its type.
THEOREM TypeCorrect == Spec => []TypeOK
<1>1. SocketInvariant => TypeOK
  BY DEF SocketInvariant
<1> QED  BY <1>1, InvariantHolds, PTL

\* pktsInFlight is what was counted less what was settled, never negative,
\* whatever acknowledgements ack_receiver gets and whenever it gets them.
THEOREM InFlightIsExact == Spec => []InFlightAccounting
<1>1. SocketInvariant => InFlightAccounting
  BY DEF SocketInvariant
<1> QED  BY <1>1, InvariantHolds, PTL

\* tempS covers the sender's batch and never goes below zero.
THEOREM PermitsSuffice == Spec => []PermitsCoverBatch
<1>1. SocketInvariant => PermitsCoverBatch
  BY DEF SocketInvariant
<1> QED  BY <1>1, InvariantHolds, PTL

\* However the loads of CC_logic interleave with the sender, at most two
\* windows and one packet are committed.
THEOREM WindowIsBounded == Spec => []WindowBound
<1>1. SocketInvariant => WindowBound
  BY DEF SocketInvariant
<1> QED  BY <1>1, InvariantHolds, PTL
=============================================================================
