----------------------------- MODULE AlccSocket -----------------------------
(***************************************************************************)
(* One ALCCSocket of libalcc/libalcc.cpp between the application and TCP:  *)
(* the threads pkt_sender, ack_receiver and CC_logic, which share tempS    *)
(* (packets that may still be sent), pktsInFlight and seqNumbersList, and  *)
(* the kernel hook that reports the sequence number of every segment that  *)
(* leaves and the acknowledgement number of every segment that arrives.    *)
(*                                                                         *)
(* Each step of pkt_sender that touches a shared variable is an action;    *)
(* CC_logic loads its two atomics and adds to one in three actions;        *)
(* ack_receiver handles one report in one action, since everything else it *)
(* reads is private to it.                                                 *)
(*                                                                         *)
(* The stream of the connection is a count of bytes: position p is the     *)
(* point after its first p bytes, and the wire shows Wire(p).              *)
(***************************************************************************)
EXTENDS Integers, Sequences, FiniteSets

CONSTANTS MTU,          \* bytes in a full packet
          CWND,         \* the fixed window of CC_logic, in packets
          MODULUS,      \* sequence numbers wrap here (2^32 in TCP)
          FirstSeq,     \* sequence number of the first byte of data
          Writes,       \* lengths the application passes to alcc_send
          StreamBytes,  \* bytes the application sends (bounds the behaviour)
          Stale,        \* how far back a reordered acknowledgement may reach
          MaxCuts,      \* how many acknowledgements may name a byte inside a
                        \* packet (bounds the behaviour)
          EarlyAcks     \* may an acknowledgement of a packet arrive before
                        \* pkt_sender has recorded that packet?

ASSUME SocketAssumption ==
    /\ MTU \in Nat \ {0}
    /\ CWND \in Nat \ {0}
    /\ MODULUS \in Nat \ {0}
    /\ FirstSeq \in 0..(MODULUS - 1)
    /\ Writes \subseteq Nat \ {0}
    /\ StreamBytes \in Nat
    /\ Stale \in Nat
    /\ MaxCuts \in Nat
    /\ EarlyAcks \in BOOLEAN

VARIABLES
    queued,          \* bytes waiting in sending_queue
    ends,            \* ends[k] is the position after packet k; sentSeq = Len(ends)
    pc, sPkts,       \* pkt_sender: where it is, and packets left in its for loop
    tempS,           \* tempS without its top bit ...
    paused,          \* ... and its top bit: when set, tempS is negative
    pktsInFlight,
    seqNumbersList,  \* the packets whose sending time is on record
    tcpSeq, rcvSeq, rcvSeqLast,  \* ack_receiver
    reported,        \* the highest position ack_receiver was told of
    loaded, ccF, ccT,            \* CC_logic: which atomics it has read, and what
    ccRuns,          \* has the CC_logic thread been started?
    alive,           \* FALSE once std::terminate has been called
    cuts,            \* history: acknowledgements that named a byte inside a packet
    wentBack         \* history: one older than another was taken for a new one

senderVars   == <<queued, ends, pc, sPkts>>
receiverVars == <<tcpSeq, rcvSeq, rcvSeqLast, reported>>
ccVars       == <<loaded, ccF, ccT>>
sharedVars   == <<tempS, paused, pktsInFlight, seqNumbersList>>
historyVars  == <<cuts, wentBack>>
vars == <<senderVars, receiverVars, ccVars, sharedVars, ccRuns, alive, historyVars>>

sentSeq == Len(ends)
End(k)  == IF k = 0 THEN 0 ELSE ends[k]
Written == End(sentSeq)
Wire(p) == (FirstSeq + p) % MODULUS

Init == /\ queued = 0 /\ ends = <<>>
        /\ pc = "test" /\ sPkts = 0
        /\ tempS = 1 /\ paused = FALSE
        /\ pktsInFlight = 0
        /\ seqNumbersList = {}
        /\ tcpSeq = 0 /\ rcvSeq = 0 /\ rcvSeqLast = 0
        /\ reported = 0
        /\ loaded = {} /\ ccF = 0 /\ ccT = 0
        /\ ccRuns = FALSE
        /\ alive = TRUE
        /\ cuts = 0 /\ wentBack = FALSE

-----------------------------------------------------------------------------
(* The application.  That insert keeps the bytes is CircularQueue's affair. *)

alcc_send(n) ==
    /\ alive
    /\ Written + queued + n <= StreamBytes
    /\ queued' = queued + n
    /\ UNCHANGED <<ends, pc, sPkts, receiverVars, ccVars, sharedVars, ccRuns, alive,
                   historyVars>>

-----------------------------------------------------------------------------
(* pkt_sender.                                                             *)

SenderAt(here, next) ==
    /\ alive
    /\ pc = here
    /\ pc' = next
    /\ UNCHANGED <<receiverVars, ccVars, ccRuns, alive, historyVars>>

\* Mutation: the for loop runs to i <= sPkts.
StartLongBatch ==
    /\ SenderAt("test", "take")
    /\ ~ paused /\ tempS > 0
    /\ sPkts' = tempS + 1
    /\ UNCHANGED <<queued, ends, sharedVars>>

\* while (tempS > 0) sPkts = tempS
StartBatch ==
    /\ SenderAt("test", "take")
    /\ ~ paused /\ tempS > 0
    /\ sPkts' = tempS
    /\ UNCHANGED <<queued, ends, sharedVars>>

\* The for loop is done, or finds the queue empty.
EndBatch ==
    /\ SenderAt("take", "test")
    /\ sPkts = 0 \/ queued = 0
    /\ sPkts' = 0
    /\ UNCHANGED <<queued, ends, sharedVars>>

\* remove, sentSeq++ and ::send.
Transmit ==
    LET size == IF queued < MTU THEN queued ELSE MTU
    IN  /\ SenderAt("take", "sent")
        /\ sPkts > 0 /\ queued > 0
        /\ queued' = queued - size
        /\ ends' = Append(ends, Written + size)
        /\ UNCHANGED <<sPkts, sharedVars>>

SpendPermit ==
    /\ SenderAt("sent", "spent")
    /\ tempS' = tempS - 1
    /\ UNCHANGED <<queued, ends, sPkts, paused, pktsInFlight, seqNumbersList>>

CountInFlight ==
    /\ SenderAt("spent", "counted")
    /\ pktsInFlight' = pktsInFlight + 1
    /\ UNCHANGED <<queued, ends, sPkts, tempS, paused, seqNumbersList>>

\* Mutation: the time is recorded for the next packet.
RecordNext ==
    /\ SenderAt("counted", "take")
    /\ seqNumbersList' = seqNumbersList \cup {sentSeq + 1}
    /\ sPkts' = sPkts - 1
    /\ UNCHANGED <<queued, ends, tempS, paused, pktsInFlight>>

RecordTime ==
    /\ SenderAt("counted", "take")
    /\ seqNumbersList' = seqNumbersList \cup {sentSeq}
    /\ sPkts' = sPkts - 1
    /\ UNCHANGED <<queued, ends, tempS, paused, pktsInFlight>>

-----------------------------------------------------------------------------
(* ack_receiver.                                                           *)

\* The packets whose sending time pkt_sender has recorded are 1 .. Recorded.
Recorded == IF pc \in {"sent", "spent", "counted"} THEN sentSeq - 1 ELSE sentSeq

\* Mutation: every outgoing segment is taken for the first.
OutgoingAlwaysFirst(k) ==
    /\ alive
    /\ End(k) > reported
    /\ tcpSeq' = Wire(End(k - 1))
    /\ ccRuns' = TRUE
    /\ alive' = ~ ccRuns
    /\ UNCHANGED <<senderVars, rcvSeq, rcvSeqLast, reported, ccVars, sharedVars,
                   historyVars>>

\* The hook reports that packet k leaves, perhaps not for the first time.
\* With tcpSeq at 0 it is taken for the first of the connection.  Assigning
\* to cc_loigc_thread while it runs a thread calls std::terminate.
OutgoingReport(k) ==
    /\ alive
    /\ tcpSeq = 0
    /\ End(k) > reported
    /\ tcpSeq' = Wire(End(k - 1))
    /\ ccRuns' = TRUE
    /\ alive' = ~ ccRuns
    /\ UNCHANGED <<senderVars, rcvSeq, rcvSeqLast, reported, ccVars, sharedVars,
                   historyVars>>

\* Mutations: sequence numbers do not wrap; old acknowledgements are taken too.
AcceptedForward(ack) == tcpSeq > 0 /\ ack >= tcpSeq
AcceptedAny(ack)     == tcpSeq > 0

Accepted(ack) == tcpSeq > 0 /\ \/ ack >= tcpSeq
                               \/ tcpSeq - ack > MODULUS \div 2

\* How many packets an accepted acknowledgement adds to rcvSeq.
Advance(ack) == IF ack >= tcpSeq THEN (ack - tcpSeq) \div MTU
                                 ELSE (MODULUS - tcpSeq + ack) \div MTU

\* Mutations: a packet not on record is settled too; an acknowledgement is
\* taken for one packet.
SettleAny(seq) ==
    /\ pktsInFlight' = pktsInFlight - (seq - rcvSeqLast)
    /\ rcvSeqLast' = IF seq >= rcvSeqLast + 1 THEN seq ELSE rcvSeqLast
    /\ seqNumbersList' = seqNumbersList \ {seq}

SettleOne(seq) ==
    IF seq \in seqNumbersList
      THEN /\ pktsInFlight' = pktsInFlight - 1
           /\ rcvSeqLast' = seq
           /\ seqNumbersList' = seqNumbersList \ {seq}
      ELSE UNCHANGED <<pktsInFlight, rcvSeqLast, seqNumbersList>>

\* The packets up to seq have left the network, if seq is on record.
Settle(seq) ==
    IF seq \in seqNumbersList
      THEN /\ pktsInFlight' = pktsInFlight - (seq - rcvSeqLast)
           /\ rcvSeqLast' = IF seq >= rcvSeqLast + 1 THEN seq ELSE rcvSeqLast
           /\ seqNumbersList' = seqNumbersList \ {seq}
      ELSE UNCHANGED <<pktsInFlight, rcvSeqLast, seqNumbersList>>

\* The hook reports an acknowledgement of the first p bytes.
HandleAck(p) ==
    /\ alive /\ ccRuns
    /\ IF Accepted(Wire(p))
         THEN /\ rcvSeq' = rcvSeq + Advance(Wire(p))
              /\ tcpSeq' = Wire(p)
              /\ Settle(rcvSeq')
         ELSE UNCHANGED <<tcpSeq, rcvSeq, rcvSeqLast, pktsInFlight, seqNumbersList>>
    /\ wentBack' = (wentBack \/ (p < reported /\ Accepted(Wire(p))))
    /\ UNCHANGED <<senderVars, tempS, paused, ccVars, ccRuns, alive>>

\* The end of a packet is not the only byte TCP may acknowledge.
Inside(p) == \A k \in 0..sentSeq : p # End(k)

\* An acknowledgement of bytes not acknowledged before.  TCP acknowledges
\* cumulatively, so that it may cover several packets, or a part of one.
NewAck(p) ==
    /\ p > reported
    /\ EarlyAcks \/ p <= End(Recorded)
    /\ Inside(p) => cuts < MaxCuts
    /\ cuts' = IF Inside(p) THEN cuts + 1 ELSE cuts
    /\ reported' = p
    /\ HandleAck(p)

\* A repeated acknowledgement, or one overtaken in the network.  One from
\* before a wrap that arrives after it passes Accepted: the behaviour is bounded
\* to one such mistake.
OldAck(p) ==
    /\ p <= reported
    /\ reported - p <= Stale
    /\ ~ wentBack
    /\ UNCHANGED <<reported, cuts>>
    /\ HandleAck(p)

-----------------------------------------------------------------------------
(* CC_logic: tempS += fmax(0, cwnd - pktsInFlight - tempS).  C++ leaves the *)
(* order of the two loads open.                                            *)

Load(atomic) ==
    /\ alive /\ ccRuns
    /\ atomic \notin loaded
    /\ loaded' = loaded \cup {atomic}
    /\ UNCHANGED <<senderVars, receiverVars, sharedVars, ccRuns, alive, historyVars>>

LoadInFlight == Load("pktsInFlight") /\ ccF' = pktsInFlight /\ UNCHANGED ccT
LoadTempS    == Load("tempS") /\ ccT' = tempS /\ UNCHANGED ccF

\* Mutations: fmax(0, ...) is dropped, the subtraction being signed; tempS is
\* not subtracted.
AddPermitsCleared ==
    /\ alive
    /\ loaded = {"pktsInFlight", "tempS"}
    /\ loaded' = {} /\ ccF' = 0 /\ ccT' = 0
    /\ UNCHANGED <<senderVars, receiverVars, pktsInFlight, seqNumbersList, paused,
                   ccRuns, alive, historyVars>>

AddSigned  == AddPermitsCleared /\ tempS' = tempS + (CWND - ccF - ccT)
AddTooMany == AddPermitsCleared /\ tempS' = tempS + (CWND - ccF)

\* The subtraction is unsigned: below zero it is nearly 2^64, which overflows
\* the conversion to long long; the conversion gives -2^63 on x86-64, and
\* adding that flips the top bit of tempS.  A set top bit has the same effect.
AddPermits ==
    LET room == CWND - ccF - ccT
    IN  /\ alive
        /\ loaded = {"pktsInFlight", "tempS"}
        /\ IF paused \/ room < 0
             THEN paused' = ~ paused /\ UNCHANGED tempS
             ELSE tempS' = tempS + room /\ UNCHANGED paused
        /\ loaded' = {} /\ ccF' = 0 /\ ccT' = 0
        /\ UNCHANGED <<senderVars, receiverVars, pktsInFlight, seqNumbersList,
                       ccRuns, alive, historyVars>>

-----------------------------------------------------------------------------
Sender   == \/ StartBatch \/ EndBatch \/ Transmit
            \/ SpendPermit \/ CountInFlight \/ RecordTime
CC_logic == LoadInFlight \/ LoadTempS \/ AddPermits
Packets  == 1..sentSeq

\* A dead process takes no step.
Dead == ~ alive /\ UNCHANGED vars

Next == \/ \E n \in Writes : alcc_send(n)
        \/ Sender
        \/ \E k \in Packets : OutgoingReport(k)
        \/ \E p \in 1..Written : NewAck(p)
        \/ \E p \in 0..Written : OldAck(p)
        \/ CC_logic
        \/ Dead

Spec == Init /\ [][Next]_vars

\* The threads keep running, the application sends its stream, the first
\* outgoing segment is reported, and so is the acknowledgement of all that
\* was sent.  pkt_sender spins on its test while CC_logic sleeps an epoch of
\* 5 ms between its steps: it sees tempS positive if tempS is so for an epoch
\* again and again.
Fairness ==
    /\ WF_vars(Sender) /\ SF_vars(StartBatch)
    /\ WF_vars(LoadInFlight) /\ WF_vars(LoadTempS) /\ WF_vars(AddPermits)
    /\ WF_vars(\E n \in Writes : alcc_send(n))
    /\ WF_vars(\E k \in Packets : OutgoingReport(k))
    /\ WF_vars(NewAck(Written))

FairSpec == Spec /\ Fairness

-----------------------------------------------------------------------------
(* Properties.                                                             *)

TypeOK ==
    /\ queued \in Nat
    /\ ends \in Seq(Nat)
    /\ pc \in {"test", "take", "sent", "spent", "counted"}
    /\ sPkts \in Nat
    /\ tempS \in Int /\ paused \in BOOLEAN
    /\ pktsInFlight \in Int
    /\ seqNumbersList \subseteq 1..sentSeq
    /\ tcpSeq \in 0..(MODULUS - 1)
    /\ rcvSeq \in Nat /\ rcvSeqLast \in Nat
    /\ reported \in Nat
    /\ loaded \subseteq {"pktsInFlight", "tempS"}
    /\ ccF \in Int /\ ccT \in Int
    /\ ccRuns \in BOOLEAN
    /\ alive \in BOOLEAN

\* The packets pkt_sender has added to pktsInFlight.
Counted == IF pc \in {"sent", "spent"} THEN sentSeq - 1 ELSE sentSeq

\* pktsInFlight is exactly the packets counted by the sender and not settled
\* by the receiver, and so never negative: pkt_sender counts a packet before
\* it puts it on record, and the receiver settles only what is on record.
InFlightAccounting ==
    /\ pktsInFlight = Counted - rcvSeqLast
    /\ pktsInFlight >= 0

\* The permits cover the packets the for loop still means to send, so that
\* tempS never goes below zero although CC_logic computes it from stale reads.
PermitsCoverBatch ==
    tempS >= IF pc = "spent" \/ pc = "counted" THEN sPkts - 1 ELSE sPkts

\* Packets in flight, permits, and the packet between SpendPermit and
\* CountInFlight, which is neither.
Committed == pktsInFlight + tempS + (IF pc = "spent" THEN 1 ELSE 0)

\* What the invariants above rest on: the receiver settles recorded packets in
\* increasing order; CC_logic has read at least the permits that are left,
\* and at most a window and a packet have been committed since it read
\* pktsInFlight.
SettledInOrder == rcvSeqLast <= rcvSeq /\ rcvSeqLast <= Recorded
RecordedOnly   == seqNumbersList \subseteq 1..Recorded
BatchOpen      == pc \in {"sent", "spent", "counted"} => sPkts > 0 /\ sentSeq > 0
LoadsAreOld    ==
    /\ "tempS" \in loaded => ccT >= tempS
    /\ "pktsInFlight" \in loaded => ccF >= 0 /\ Committed <= ccF + CWND + 1

\* What the unsynchronised loads of CC_logic can do at worst: permits never
\* exceed the window, and packets committed never exceed two windows and one.
WindowBound ==
    /\ tempS <= CWND
    /\ Committed <= 2 * CWND + 1

\* The inductive invariant.
SocketInvariant ==
    /\ TypeOK
    /\ InFlightAccounting /\ SettledInOrder /\ RecordedOnly
    /\ PermitsCoverBatch /\ BatchOpen
    /\ WindowBound /\ LoadsAreOld

\* The packets TCP has acknowledged to the last byte.
AckedPackets == Cardinality({k \in Packets : ends[k] <= reported})

\* rcvSeq never counts a packet whose bytes were not all acknowledged, in
\* spite of repeated and reordered acknowledgements and of those that end inside
\* a packet.  Stated as long as the sequence numbers do not wrap.
CountsOnlyDelivered == rcvSeq <= AckedPackets

\* What that rests on: packets hold between one byte and MTU bytes, and tcpSeq
\* is a position which is acknowledged, with at least as many packets up to it
\* as are counted; only the start of the connection may be taken for a later
\* position, if the reports of the first packets are lost.
EndsInOrder ==
    \A k \in Packets : \A j \in 0..(k - 1) :
        End(j) < ends[k] /\ ends[k] - End(j) <= (k - j) * MTU

CountedUpTo ==
    IF tcpSeq = 0
      THEN rcvSeq = 0
      ELSE /\ tcpSeq - FirstSeq \in 0..Written
           /\ rcvSeq = 0 \/ tcpSeq - FirstSeq <= reported
           /\ \E j \in rcvSeq..sentSeq : End(j) <= tcpSeq - FirstSeq

\* Inductive as long as the sequence numbers do not wrap.
DeliveryInvariant ==
    /\ Written + queued <= StreamBytes
    /\ EndsInOrder
    /\ CountedUpTo
    /\ alive /\ (ccRuns => tcpSeq # 0)

\* std::terminate, which a second start of CC_logic calls (libalcc.cpp:233),
\* needs the stream to reach the byte numbered 0: the mark for "not started" is
\* a legal sequence number, and an acknowledgement that names it makes
\* ack_receiver deaf until the next outgoing segment ends the process.
DiesOnlyAtZero == ~ alive => \E p \in 0..Written : Wire(p) = 0

\* What that rests on, for any constants.
AtSomePosition == ccRuns => \E p \in 0..Written : tcpSeq = Wire(p)

\* ack_receiver follows the connection: it has not taken the number 0 for a
\* connection that has not started, nor an acknowledgement from before a wrap
\* for a new one.
Led == alive /\ (ccRuns => tcpSeq # 0) /\ ~ wentBack

\* When every packet is full, and as long as ack_receiver follows the connection,
\* its count is the exact one, before and after the sequence numbers wrap, but
\* for one packet at most for each acknowledgement that ended inside a packet:
\* ack_receiver drops the remainder (libalcc.cpp:246, 254).
CountsExactly == Led => rcvSeq \in (AckedPackets - cuts)..AckedPackets

\* What that rests on: tcpSeq is the number of the next byte to be acknowledged;
\* a packet acknowledged in part has already cost one of the cuts; until
\* CC_logic is started there is one permit, so that it is the first packet
\* whose report starts it.
OnePermit == sentSeq + tempS <= IF pc = "sent" THEN 2 ELSE 1

WithinCuts ==
    IF reported % MTU = 0
      THEN rcvSeq \in ((reported \div MTU) - cuts)..(reported \div MTU)
      ELSE rcvSeq \in ((reported \div MTU) + 1 - cuts)..(reported \div MTU)

\* Inductive with SocketInvariant, across wraps, as long as packets are full.
ExactInvariant ==
    /\ cuts \in Nat
    /\ Written + queued <= StreamBytes /\ queued % MTU = 0
    /\ \A k \in Packets : ends[k] = k * MTU
    /\ reported <= Written
    /\ wentBack \/ rcvSeq <= reported \div MTU
    /\ IF ccRuns THEN Led => tcpSeq = Wire(reported) /\ WithinCuts
                 ELSE /\ tcpSeq = 0 /\ rcvSeq = 0 /\ reported = 0
                      /\ loaded = {} /\ OnePermit

\* Whatever CC_logic makes of its stale reads, at most two windows and a packet
\* are sent beyond what is counted, and only acknowledged packets are counted.
Window == INSTANCE SlidingWindow
            WITH Bound   <- 2 * CWND + 1,
                 sent    <- sentSeq,
                 acked   <- AckedPackets,
                 counted <- rcvSeq

ImplementsWindow == Window!Spec

\* As long as ack_receiver follows the connection, the whole stream reaches
\* TCP and every packet of it is settled for good, but for one at most for each
\* acknowledgement that ended inside a packet.  Each of these takes one packet
\* from the window for the rest of the connection: the stream gets through
\* because there are fewer of them than CWND.
Progress == []Led => <>[](Written = StreamBytes /\ sentSeq - rcvSeqLast <= cuts)

\* The whole stream reaches TCP.
StreamSent == <>(Written = StreamBytes)
=============================================================================
