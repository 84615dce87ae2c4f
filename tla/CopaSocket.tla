----------------------------- MODULE CopaSocket -----------------------------
(***************************************************************************)
(* The ALCCSocket of libalcc/copa/libalcc_copa.cpp: packets leave while    *)
(* their number is below _largest_ack + 1 + _the_window, and each packet   *)
(* the receiver counts as acknowledged gives an RTT sample that moves the  *)
(* window.  pkt_sender records a packet in three places, one after the     *)
(* other and after ::send: seqNumbersList, senderTimestampList and         *)
(* unacknowledged_packets.  ack_receiver takes the packets that a report   *)
(* acknowledges one by one, and the sender may step in between, also       *)
(* between setting the clock that both threads share and reading it.       *)
(*                                                                         *)
(* The stream is a count of bytes, as in AlccSocket.  The window is a      *)
(* whole number here, and the target it follows is any of Targets: how     *)
(* the target follows from the RTTs matters to no property.  The behaviour *)
(* starts when pkt_sender has called init().                               *)
(***************************************************************************)
EXTENDS Integers, Sequences, FiniteSets

CONSTANTS MTU,          \* bytes in a full packet
          MODULUS,      \* sequence numbers wrap here (2^32 in TCP)
          FirstSeq,     \* sequence number of the first byte of data
          Writes,       \* lengths the application passes to alcc_send
          StreamBytes,  \* bytes the application sends (bounds the behaviour)
          Probes,       \* num_probe_pkts
          Targets,      \* target windows
          Steps,        \* by how much the window may move at a time
          MaxWindow,    \* bounds the window
          Stale,        \* by how much an acknowledgement may be out of date
          EarlyAcks     \* may an acknowledgement of a packet arrive before
                        \* pkt_sender has called onPktSent for it?

ASSUME CopaAssumption ==
    /\ MODULUS \in Nat \ {0} /\ MTU \in 1..MODULUS
    /\ FirstSeq \in 0..(MODULUS - 1)
    /\ Writes \subseteq Nat \ {0} /\ StreamBytes \in Nat
    /\ Probes \in Nat /\ Probes >= 2
    /\ Targets \subseteq Nat /\ Steps \subseteq Nat
    /\ MaxWindow \in Nat /\ MaxWindow >= Probes
    /\ Stale \in Nat
    /\ EarlyAcks \in BOOLEAN

VARIABLES
    queued,          \* bytes waiting in sending_queue
    ends,            \* ends[k] is the position after packet k
    pc,              \* pkt_sender: where it is
    seqNumbersList, senderTimestampList,     \* packets recorded in each
    unacknowledged_packets,
    cur_tick,        \* the clock: 0 is ack_receiver's time in the present turn,
                     \* k the time at which pkt_sender took packet k
    ticked,          \* ack_receiver has set it, and not counted the packet yet
    tcpSeq, rcvSeq,  \* ack_receiver
    toCount,         \* packets of the present report still to be counted
    reported,        \* the highest position ack_receiver was told of ...
    before,          \* ... and what it was before the present report
    _largest_ack, _the_window, slow_start, num_pkts_acked,
    sample,          \* history: what the latest RTT sample was
    overtaken,       \* history: counted packets that were not unacknowledged
    startsAt,        \* history: the position at which the count of rcvSeq starts
    wentBack         \* history: an acknowledgement of less than was counted was
                     \* taken for one of more

senderVars   == <<queued, ends, pc>>
lists        == <<seqNumbersList, senderTimestampList, unacknowledged_packets>>
clock        == <<cur_tick, ticked>>
reportVars   == <<toCount, reported, before>>
windowVars   == <<_the_window, slow_start, num_pkts_acked>>
observed     == <<sample, overtaken>>
history      == <<startsAt, wentBack>>
vars == <<senderVars, lists, clock, tcpSeq, rcvSeq, reportVars, _largest_ack,
          windowVars, observed, history>>

sentSeq == Len(ends)
End(k)  == IF k = 0 THEN 0 ELSE ends[k]
Written == End(sentSeq)
Wire(p) == (FirstSeq + p) % MODULUS

Init == /\ queued = 0 /\ ends = <<>> /\ pc = "gate"
        /\ seqNumbersList = {} /\ senderTimestampList = {}
        /\ unacknowledged_packets = {}
        /\ cur_tick = 0 /\ ticked = FALSE
        /\ tcpSeq = 0 /\ rcvSeq = 0
        /\ toCount = 0 /\ reported = 0 /\ before = 0
        /\ _largest_ack = -1
        /\ _the_window = Probes /\ slow_start = TRUE /\ num_pkts_acked = 0
        /\ sample = "none" /\ overtaken = 0
        /\ startsAt = 0 /\ wentBack = FALSE

-----------------------------------------------------------------------------
(* The application and pkt_sender.                                         *)

alcc_send(n) ==
    /\ Written + queued + n <= StreamBytes
    /\ queued' = queued + n
    /\ UNCHANGED <<ends, pc, lists, clock, tcpSeq, rcvSeq, reportVars,
                   _largest_ack, windowVars, observed, history>>

SenderAt(here, next) ==
    /\ pc = here
    /\ pc' = next
    /\ UNCHANGED <<ticked, tcpSeq, rcvSeq, reportVars, _largest_ack, windowVars,
                   observed, history>>

\* The number of the next packet is in the window.  The time since the last
\* packet may close the gate as well; it is open at any time here.
Admit ==
    /\ SenderAt("gate", "take")
    /\ sentSeq + 1 < _largest_ack + 1 + _the_window
    /\ UNCHANGED <<queued, ends, lists, cur_tick>>

FindNothing ==
    /\ SenderAt("take", "gate")
    /\ queued = 0
    /\ UNCHANGED <<queued, ends, lists, cur_tick>>

Transmit ==
    LET size == IF queued < MTU THEN queued ELSE MTU
    IN  /\ SenderAt("take", "sent")
        /\ queued > 0
        /\ queued' = queued - size
        /\ ends' = Append(ends, Written + size)
        /\ UNCHANGED <<lists, cur_tick>>

RecordTime ==
    /\ SenderAt("sent", "recorded")
    /\ seqNumbersList' = seqNumbersList \cup {sentSeq}
    /\ UNCHANGED <<queued, ends, senderTimestampList, unacknowledged_packets,
                   cur_tick>>

\* Mutation: the time is recorded for the packet before.
StampPrevious ==
    /\ SenderAt("recorded", "stamped")
    /\ senderTimestampList' = senderTimestampList \cup {sentSeq - 1}
    /\ UNCHANGED <<queued, ends, seqNumbersList, unacknowledged_packets, cur_tick>>

RecordStamp ==
    /\ SenderAt("recorded", "stamped")
    /\ senderTimestampList' = senderTimestampList \cup {sentSeq}
    /\ UNCHANGED <<queued, ends, seqNumbersList, unacknowledged_packets, cur_tick>>

\* Mutation: the clock is set to the time of the packet before.
TickPrevious ==
    /\ SenderAt("stamped", "timed")
    /\ cur_tick' = sentSeq - 1
    /\ UNCHANGED <<queued, ends, lists>>

\* set_timestamp: the clock goes back to the time at which the packet was taken
\* from the queue, before ::send, whatever ack_receiver has set it to meanwhile.
SetTick ==
    /\ SenderAt("stamped", "timed")
    /\ cur_tick' = sentSeq
    /\ UNCHANGED <<queued, ends, lists>>

onPktSent ==
    /\ SenderAt("timed", "gate")
    /\ unacknowledged_packets' = unacknowledged_packets \cup {sentSeq}
    /\ UNCHANGED <<queued, ends, seqNumbersList, senderTimestampList, cur_tick>>

-----------------------------------------------------------------------------
(* ack_receiver.                                                           *)

\* The packets for which onPktSent has been called are 1 .. Announced.
Announced ==
    IF pc \in {"sent", "recorded", "stamped", "timed"} THEN sentSeq - 1 ELSE sentSeq

\* The hook reports that packet k leaves, perhaps not for the first time.  With
\* tcpSeq at 0 it is taken for the first of the connection: if the reports of
\* the packets before it are lost, rcvSeq counts from there.  A second start
\* ends the process, as in AlccSocket; here it runs on.
OutgoingReport(k) ==
    /\ toCount = 0 /\ tcpSeq = 0
    /\ tcpSeq' = Wire(End(k - 1))
    /\ startsAt' = End(k - 1)
    /\ UNCHANGED <<senderVars, lists, clock, rcvSeq, reportVars, _largest_ack,
                   windowVars, observed, wentBack>>

Accepted(ack) == tcpSeq > 0 /\ \/ ack >= tcpSeq
                               \/ tcpSeq - ack > MODULUS \div 2

\* Mutation: a packet acknowledged in part is counted.
NumAcksUp(ack) == (ack - tcpSeq + MTU - 1) \div MTU

numAcks(ack) == IF ack >= tcpSeq THEN (ack - tcpSeq) \div MTU
                                 ELSE (MODULUS - tcpSeq + ack) \div MTU

\* The position whose number is in tcpSeq between two reports.
Position == startsAt + rcvSeq * MTU

\* The hook reports an acknowledgement of the first p bytes.  The report of a
\* packet precedes the reports of its acknowledgements.
HandleAck(p) ==
    /\ toCount = 0 /\ tcpSeq # 0
    /\ toCount' = IF Accepted(Wire(p)) THEN numAcks(Wire(p)) ELSE 0
    /\ before' = reported
    /\ wentBack' = (wentBack \/ (Accepted(Wire(p)) /\ p < Position))
    /\ UNCHANGED <<senderVars, lists, clock, tcpSeq, rcvSeq, _largest_ack,
                   windowVars, observed, startsAt>>

\* An acknowledgement of bytes not acknowledged before: TCP may acknowledge
\* any number of them, also in the middle of a packet.
NewAck(p) ==
    /\ p > reported
    /\ EarlyAcks \/ p <= End(Announced)
    /\ reported' = p
    /\ HandleAck(p)

\* A repeated acknowledgement, or one overtaken in the network.  One from
\* before a wrap that arrives after it passes Accepted and is counted as nearly
\* MODULUS bytes: the behaviour is bounded to one such mistake.
OldAck(p) ==
    /\ p <= reported
    /\ reported - p <= Stale
    /\ UNCHANGED reported
    /\ HandleAck(p)
    /\ wentBack => toCount' = 0

-----------------------------------------------------------------------------
(* The packets of a report, one by one.                                    *)

\* Mutation: no floor under the window.
Unbounded(w) == w

Floored(w) == IF w < 2 THEN 2 ELSE w

\* update_intersend_time: nothing for the first two windows of probes, then
\* slow start until the window reaches its target, then steps towards it.
update_intersend_time ==
    IF num_pkts_acked < 2 * Probes - 1
      THEN UNCHANGED <<_the_window, slow_start>>
      ELSE \E target \in Targets :
             \/ /\ slow_start
                /\ _the_window < MaxWindow
                /\ _the_window' = Floored(_the_window + 1)
                /\ slow_start' = (_the_window + 1 < target)
             \/ \E step \in Steps :
                  /\ ~ slow_start
                  /\ _the_window < target
                  /\ _the_window' = Floored(_the_window + step)
                  /\ _the_window' <= MaxWindow
                  /\ UNCHANGED slow_start
             \/ \E step \in Steps :
                  /\ ~ slow_start
                  /\ _the_window >= target
                  /\ _the_window' = Floored(_the_window - step)
                  /\ UNCHANGED slow_start
             \/ /\ _the_window = MaxWindow  \* the bound, not the code
                /\ UNCHANGED <<_the_window, slow_start>>

\* Mutation: all entries up to the packet are taken out.
TakenUpTo(seq) == {k \in unacknowledged_packets : k > seq}

\* What onACK leaves of unacknowledged_packets: if seq is there, the loop
\* erases the first element, be it an older packet (it stops there) or seq.
\* After erasing seq the code steps on from the erased element
\* (libalcc_copa.cpp:502), which C++ leaves undefined: the model has the
\* behaviour of std::map with freed nodes left intact.
Taken(seq) ==
    IF seq \in unacknowledged_packets
      THEN unacknowledged_packets \
             {k \in unacknowledged_packets :
                \A j \in unacknowledged_packets : k <= j}
      ELSE unacknowledged_packets

\* The RTT sample of packet seq runs from the time on record for it (if none
\* is, the code reads past the end of the map) to the time in cur_tick.  If that
\* is ack_receiver's own, the sample is timely when the present report is the
\* first to acknowledge the packet; if it is the time at which pkt_sender took
\* a packet, the sample ends too early, or before it began.
Sampled(seq) ==
    CASE seq \notin senderTimestampList -> "unstamped"
      [] seq \in senderTimestampList /\ cur_tick = 0 ->
           IF before < End(seq) /\ End(seq) <= reported THEN "timely" ELSE "late"
      [] seq \in senderTimestampList /\ cur_tick >= seq -> "short"
      [] OTHER -> "negative"

onACK(seq) ==
    /\ sample' = Sampled(seq)
    /\ update_intersend_time
    /\ unacknowledged_packets' = Taken(seq)
    /\ num_pkts_acked' = IF num_pkts_acked < 2 * Probes - 1
                           THEN num_pkts_acked + 1 ELSE num_pkts_acked

\* Mutation: tcpSeq wraps to 0.
WrappedToZero(n) == n % MODULUS

\* if (tcpSeq > 2^32) tcpSeq -= 2^32
Wrapped(n) == IF n > MODULUS THEN n - MODULUS ELSE n

\* One turn of the loop over the packets acknowledged.  If the packet is on
\* record, set_timestamp sets the clock ...
Tick ==
    /\ toCount > 0 /\ ~ ticked
    /\ rcvSeq + 1 \in seqNumbersList
    /\ cur_tick' = 0 /\ ticked' = TRUE
    /\ UNCHANGED <<senderVars, lists, tcpSeq, rcvSeq, reportVars, _largest_ack,
                   windowVars, observed, history>>

\* ... and onACK reads it.  rcvSeq and tcpSeq are private to ack_receiver: they
\* move here.  Beyond the probes, num_pkts_acked is not counted.
CountPacket ==
    LET seq == rcvSeq + 1
    IN  /\ toCount > 0
        /\ toCount' = toCount - 1
        /\ rcvSeq' = seq
        /\ tcpSeq' = Wrapped(tcpSeq + MTU)
        /\ overtaken' = IF seq \in unacknowledged_packets THEN overtaken
                                                          ELSE overtaken + 1
        /\ \/ /\ ticked
              /\ onACK(seq)
              /\ _largest_ack' = IF seq > _largest_ack THEN seq ELSE _largest_ack
           \/ /\ ~ ticked /\ seq \notin seqNumbersList
              /\ UNCHANGED <<_largest_ack, windowVars, unacknowledged_packets, sample>>
        /\ ticked' = FALSE
        /\ UNCHANGED <<senderVars, seqNumbersList, senderTimestampList, cur_tick,
                       reported, before, history>>

-----------------------------------------------------------------------------
Sender  == \/ Admit \/ FindNothing \/ Transmit
           \/ RecordTime \/ RecordStamp \/ SetTick \/ onPktSent
Packets == 1..sentSeq

Next == \/ \E n \in Writes : alcc_send(n)
        \/ Sender
        \/ \E k \in Packets : OutgoingReport(k)
        \/ \E p \in 1..Written : NewAck(p)
        \/ \E p \in 0..Written : OldAck(p)
        \/ Tick
        \/ CountPacket

Spec == Init /\ [][Next]_vars

-----------------------------------------------------------------------------
(* Properties.                                                             *)

SenderTypes ==
    /\ queued \in Nat
    /\ ends \in Seq(Nat)
    /\ pc \in {"gate", "take", "sent", "recorded", "stamped", "timed"}

ListTypes ==
    /\ senderTimestampList \subseteq seqNumbersList
    /\ unacknowledged_packets \subseteq senderTimestampList
    /\ seqNumbersList \subseteq Packets

ReceiverTypes ==
    /\ tcpSeq \in 0..MODULUS
    /\ rcvSeq \in Nat /\ toCount \in Nat
    /\ reported \in Nat /\ before \in 0..reported
    /\ cur_tick \in Nat /\ ticked \in BOOLEAN
    /\ startsAt \in Nat /\ wentBack \in BOOLEAN

WindowTypes ==
    /\ _largest_ack \in Int
    /\ _the_window \in 2..MaxWindow
    /\ slow_start \in BOOLEAN
    /\ num_pkts_acked \in Nat
    /\ sample \in {"none", "timely", "late", "short", "negative", "unstamped"}
    /\ overtaken \in Nat

TypeOK == SenderTypes /\ ListTypes /\ ReceiverTypes /\ WindowTypes

\* The packet in pkt_sender's hand is acknowledged and counted already.
OvertakenInHand == Announced < sentSeq /\ sentSeq <= rcvSeq

\* Each packet counted before onPktSent was called for it leaves one entry in
\* unacknowledged_packets behind for good: onACK erases at most one entry per
\* acknowledgement, the oldest, so that the list never catches up.  No other
\* acknowledged packet stays in the list, and none leaves it before its time.
EntriesLeft ==
    LET leftovers == {k \in unacknowledged_packets : k <= rcvSeq}
    IN  /\ Cardinality(leftovers) + (IF OvertakenInHand THEN 1 ELSE 0) = overtaken
        /\ (rcvSeq + 1)..Announced \subseteq unacknowledged_packets

\* So it is as long as no acknowledgement from before a wrap is taken for a new
\* one after it.
LeftoversExact == ~ wentBack => EntriesLeft

\* The packets TCP has acknowledged to the last byte.
AckedPackets == Cardinality({k \in Packets : ends[k] <= reported})

\* As long as ack_receiver does not take an acknowledgement from before a wrap
\* for a new one, it counts no packet whose bytes were not all acknowledged,
\* whatever the lengths of the packets and whichever report came first, in
\* spite of acknowledgements repeated, reordered or ahead of onPktSent.
CountsOnlyDelivered == ~ wentBack => rcvSeq + toCount <= AckedPackets

\* Packets hold between one byte and MTU bytes.
EndsInOrder ==
    \A k \in Packets : /\ ends[k] <= k * MTU
                       /\ \A j \in 0..(k - 1) : End(j) < ends[k]

\* A packet is recorded in three places, one after the other.
RecordedInTurn ==
    /\ pc \in {"sent", "recorded", "stamped", "timed"} => sentSeq > 0
    /\ pc \in {"recorded", "stamped", "timed"} => sentSeq \in seqNumbersList
    /\ pc \in {"stamped", "timed"} => sentSeq \in senderTimestampList
    /\ unacknowledged_packets \subseteq 1..Announced

\* If pkt_sender sets the clock in a turn of ack_receiver's loop, it does so for
\* the packet in turn or a later one.
TickedInTurn ==
    ticked => /\ toCount > 0
              /\ rcvSeq + 1 \in seqNumbersList
              /\ cur_tick = 0 \/ cur_tick >= rcvSeq + 1

\* tcpSeq is 0 until the count starts, and then the number of the byte after
\* the packets counted, MODULUS for 0.
InStep ==
    LET here == Wire(Position)
    IN  IF tcpSeq = 0
          THEN rcvSeq = 0 /\ toCount = 0 /\ reported = 0 /\ sample = "none"
          ELSE /\ tcpSeq = IF here = 0 THEN MODULUS ELSE here
               /\ FirstSeq + Position > 0

\* As many full packets as were counted, or will be, were acknowledged.
CountedAcked == (rcvSeq + toCount) * MTU <= reported /\ reported <= Written

\* The inductive invariant.
CopaInvariant ==
    /\ TypeOK
    /\ EndsInOrder
    /\ RecordedInTurn
    /\ TickedInTurn
    /\ InStep
    /\ ~ wentBack => CountedAcked /\ EntriesLeft

\* No packet so far was shorter than MTU.
AllFull == \A k \in Packets : ends[k] = k * MTU

\* ack_receiver follows the connection: it was told of the first packet, and has
\* not taken an acknowledgement from before a wrap for a new one.
Led == startsAt = 0 /\ ~ wentBack

\* With full packets, and as long as ack_receiver follows the connection, no RTT
\* sample ends after the first report that acknowledges its packet, nor before
\* it began, although both threads set the clock it is read from.  Only if an
\* acknowledgement overtook pkt_sender may the time of sending be missing.
SamplesTimely ==
    AllFull /\ Led => \/ sample \in {"none", "timely", "short"}
                      \/ sample = "unstamped" /\ overtaken > 0

\* With full packets, none of them overtaken, the window has room for the next
\* packet once all have been acknowledged: nothing would ever open it otherwise.
NeverShut ==
    AllFull /\ Led /\ overtaken = 0 /\ toCount = 0 /\ reported = Written
      => sentSeq + 1 < _largest_ack + 1 + _the_window

\* The gate keeps the packets sent within the largest window of the latest that
\* gave a sample, and no sample is of a packet not counted yet.
WithinWindow ==
    /\ sentSeq + (IF pc = "take" THEN 1 ELSE 0) <= _largest_ack + MaxWindow
    /\ _largest_ack <= rcvSeq
    /\ overtaken = 0 => _largest_ack = IF rcvSeq = 0 THEN -1 ELSE rcvSeq

\* Every whole MTU of what was acknowledged is counted or about to be, and the
\* report before the present one ended short of the packet in turn.
CountsAll ==
    Led => /\ reported < (rcvSeq + toCount + 1) * MTU
           /\ toCount > 0 => before < (rcvSeq + 1) * MTU

\* What holds if the window is below half of the sequence numbers.  With
\* CopaInvariant it is inductive.
ExactInvariant == WithinWindow /\ CountsAll /\ SamplesTimely

\* Wherever the RTTs move the window, and although the gate looks at
\* _largest_ack and the packet leaves later, at most the largest window is sent
\* beyond what is counted, and only acknowledged packets are counted: until an
\* acknowledgement from before a wrap is taken for a new one.
Window == INSTANCE SlidingWindow
            WITH Bound   <- MaxWindow,
                 sent    <- sentSeq,
                 acked   <- AckedPackets,
                 counted <- rcvSeq

ImplementsWindow ==
    Window!Init /\ [][wentBack' \/ Window!Next]_(Window!vars)
=============================================================================
