----------------------------- MODULE VerusSocket -----------------------------
(***************************************************************************)
(* The ALCCSocket of libalcc/verus/libalcc_verus.cpp and its four threads. *)
(* ALCCSend turns the permits tempS into packets and counts them in wCrt;  *)
(* ALCCReceive counts acknowledged packets, and in slow start adds to      *)
(* the window wBar and to tempS; ALCCVerus adds permits once per epoch     *)
(* after slow start; ALCCCurve fits the delay curve.  The last two may     *)
(* restart slow start, which resets everything under restartLock.          *)
(*                                                                         *)
(* ALCCSend holds restartLock while it has permits.  ALCCReceive never     *)
(* takes it and gives it back after each packet (line 767): pthread mutexes*)
(* do not check their owner, so that a thread may work on without a lock   *)
(* it took.  A step is what a thread does between two points where the     *)
(* order of two threads shows in the counters or in the lists.             *)
(*                                                                         *)
(* Packets have their place in the stream, 1 .. Len(ends), and the number  *)
(* pktSeq, which starts again at 0 with each restart.  Sequence numbers do *)
(* not wrap here (SeqDecode has the arithmetic).  Delays and the curve are *)
(* real numbers in the code; only what they decide is kept: whether slow   *)
(* start ends, which window of Windows the curve gives, the delay in epochs*)
(* (Delays), and whether the curve yields no window at all.                *)
(***************************************************************************)
EXTENDS Integers, Sequences, FiniteSets

CONSTANTS MTU,          \* bytes in a full packet
          FirstSeq,     \* sequence number of the first byte of data
          Writes,       \* lengths the application passes to alcc_send
          StreamBytes,  \* bytes the application sends (bounds the behaviour)
          Windows,      \* windows that the delay curve gives (bound)
          Delays,       \* dTBar in epochs, rounded up (bound)
          Knots,        \* N of ALCCCurve at the start: 15
          Ratio,        \* points per knot that ALCCCurve asks for: 5
          MaxPermits,   \* no epoch adds permits while there are more (bound)
          MaxRestarts,  \* restarts of slow start (bound)
          Stale,        \* how far back a repeated acknowledgement may reach
          EarlyAcks     \* may an acknowledgement of a packet arrive before
                        \* ALCCSend has recorded the packet?  A behaviour has
                        \* such acknowledgements or restarts, not both (bound)

ASSUME VerusAssumption ==
    /\ MTU \in Nat \ {0} /\ FirstSeq \in Nat \ {0}
    /\ Writes \subseteq Nat \ {0} /\ StreamBytes \in Nat
    /\ Windows \subseteq Nat \ {0} /\ Delays \subseteq Nat
    /\ Knots \in Nat \ {0} /\ Ratio \in Nat \ {0}
    /\ MaxPermits \in Nat /\ MaxRestarts \in Nat /\ Stale \in Nat
    /\ EarlyAcks \in BOOLEAN

VARIABLES
    queued,          \* bytes waiting in sending_queue
    ends,            \* ends[k] is the position after the k-th packet
    pc, sPkts,       \* ALCCSend: where it is, packets left in its for loop
    pktTime,         \* the time read when its batch began: packets sent by then
    restartLock,     \* who took it last and has not lost it, or "free"
    tempS, wCrt,     \* permits, packets in flight
    wBar, slowStart, haveSpline,
    pktSeq,
    seqNumbersList,  \* number -> the time on record; for the properties also the
                     \* packet and the batch it is the time of
    sendingList,     \* number -> the window it was sent with
    seq, startingSeq, \* ALCCReceive's count and the position it stands for
    rpc,             \* ALCCReceive: where it is
    toCount,         \* packets of the present report still to be counted
    w,               \* the window it has looked up last
    room,            \* permits it is about to add
    outgoing,        \* outgoing packets ALCCReceive was told of
    reported,        \* the highest position it was told is acknowledged ...
    before,          \* ... and what that was before the present report
    at,              \* where ALCCVerus and ALCCCurve are
    si,              \* calcSi: permits that ALCCVerus is about to add
    N, top,          \* ALCCCurve's knots; the highest window with a delay
    restarts,        \* history: how often slow start was restarted,
    began,           \* the packets sent when the present batch began,
    sample,          \* what the sending time just looked up is worth,
    overtaken        \* acknowledgements that came before the record

batchVars    == <<pktTime, began>>
senderVars   == <<queued, ends, pc, sPkts, batchVars>>
windowVars   == <<wBar, slowStart, haveSpline>>
lists        == <<seqNumbersList, sendingList>>
countVars    == <<seq, startingSeq>>
receiverVars == <<rpc, toCount, w, room, outgoing, reported, before>>
threadVars   == <<at, si, N>>
observed     == <<restarts, sample, overtaken>>
vars == <<senderVars, restartLock, tempS, wCrt, windowVars, pktSeq, lists,
          countVars, receiverVars, threadVars, top, observed>>

sentSeq == Len(ends)
End(k)  == IF k = 0 THEN 0 ELSE ends[k]
Written == End(sentSeq)
Packets == 1..sentSeq

Larger(a, b)  == IF a >= b THEN a ELSE b
Smaller(a, b) == IF a <= b THEN a ELSE b
Put(list, number, value) ==
    [k \in DOMAIN list \cup {number} |-> IF k = number THEN value ELSE list[k]]
Without(list, number) == [k \in DOMAIN list \ {number} |-> list[k]]

Init == /\ queued = 0 /\ ends = <<>> /\ pc = "lock" /\ sPkts = 0
        /\ pktTime = 0 /\ began = 0
        /\ restartLock = "free"
        /\ tempS = 1 /\ wCrt = 0
        /\ wBar = 1 /\ slowStart = TRUE /\ haveSpline = FALSE
        /\ pktSeq = 0 /\ seqNumbersList = <<>> /\ sendingList = <<>>
        /\ seq = 0 /\ startingSeq = 0
        /\ rpc = "wait" /\ toCount = 0 /\ w = 0 /\ room = 0
        /\ outgoing = 0 /\ reported = 0 /\ before = 0
        /\ at = [verus |-> "sleep", curve |-> "sleep"]
        /\ si = 0 /\ N = Knots /\ top = 1
        /\ restarts = 0 /\ sample = "none" /\ overtaken = 0

-----------------------------------------------------------------------------
(* The application and ALCCSend.                                           *)

alcc_send(n) ==
    /\ Written + queued + n <= StreamBytes
    /\ queued' = queued + n
    /\ UNCHANGED <<ends, pc, sPkts, batchVars, restartLock, tempS, wCrt, windowVars,
                   pktSeq, lists, countVars, receiverVars, threadVars, top, observed>>

SenderAt(here, next) ==
    /\ pc = here
    /\ pc' = next
    /\ UNCHANGED <<windowVars, countVars, receiverVars, threadVars, top, observed>>

LockRestart ==
    /\ SenderAt("lock", "test")
    /\ restartLock = "free"
    /\ restartLock' = "sender"
    /\ UNCHANGED <<queued, ends, sPkts, batchVars, tempS, wCrt, pktSeq, lists>>

\* Out of permits.  With permits and an empty queue ALCCSend keeps the lock.
UnlockRestart ==
    /\ SenderAt("test", "lock")
    /\ tempS <= 0
    /\ restartLock' = "free"
    /\ UNCHANGED <<queued, ends, sPkts, batchVars, tempS, wCrt, pktSeq, lists>>

\* Mutation: the time is read once and for all.
StartUntimed ==
    /\ SenderAt("test", "take")
    /\ tempS > 0
    /\ sPkts' = tempS
    /\ began' = sentSeq
    /\ UNCHANGED <<queued, ends, pktTime, restartLock, tempS, wCrt, pktSeq, lists>>

\* gettimeofday(&pktTime): once for all packets of the batch.
StartBatch ==
    /\ SenderAt("test", "take")
    /\ tempS > 0
    /\ sPkts' = tempS
    /\ pktTime' = sentSeq
    /\ began' = sentSeq
    /\ UNCHANGED <<queued, ends, restartLock, tempS, wCrt, pktSeq, lists>>

\* The for loop is done, or finds the queue empty.  sPkts and pktTime are set
\* again before they are used.
EndBatch ==
    /\ SenderAt("take", "test")
    /\ sPkts = 0 \/ queued = 0
    /\ sPkts' = 0 /\ pktTime' = 0 /\ began' = 0
    /\ UNCHANGED <<queued, ends, restartLock, tempS, wCrt, pktSeq, lists>>

\* remove, pktSeq++ and ::send.
Transmit ==
    LET size == Smaller(queued, MTU)
    IN  /\ SenderAt("take", "sent")
        /\ sPkts > 0 /\ queued > 0
        /\ queued' = queued - size
        /\ ends' = Append(ends, Written + size)
        /\ pktSeq' = pktSeq + 1
        /\ UNCHANGED <<sPkts, batchVars, restartLock, tempS, wCrt, lists>>

SpendPermit ==
    /\ SenderAt("sent", "spent")
    /\ tempS' = tempS - 1
    /\ UNCHANGED <<queued, ends, sPkts, batchVars, restartLock, wCrt, pktSeq, lists>>

CountInFlight ==
    /\ SenderAt("spent", "counted")
    /\ wCrt' = wCrt + 1
    /\ UNCHANGED <<queued, ends, sPkts, batchVars, restartLock, tempS, pktSeq, lists>>

\* The time on record is that of the batch.
Entry == [time |-> pktTime, packet |-> sentSeq, batch |-> began]

\* Mutation: the time is recorded for the next number.
RecordNext ==
    /\ SenderAt("counted", "recorded")
    /\ seqNumbersList' = Put(seqNumbersList, pktSeq + 1, Entry)
    /\ UNCHANGED <<queued, ends, sPkts, batchVars, restartLock, tempS, wCrt, pktSeq,
                   sendingList>>

RecordTime ==
    /\ SenderAt("counted", "recorded")
    /\ seqNumbersList' = Put(seqNumbersList, pktSeq, Entry)
    /\ UNCHANGED <<queued, ends, sPkts, batchVars, restartLock, tempS, wCrt, pktSeq,
                   sendingList>>

RecordWindow ==
    /\ SenderAt("recorded", "take")
    /\ sendingList' = Put(sendingList, pktSeq, wBar)
    /\ sPkts' = sPkts - 1
    /\ UNCHANGED <<queued, ends, batchVars, restartLock, tempS, wCrt, pktSeq,
                   seqNumbersList>>

-----------------------------------------------------------------------------
(* ALCCReceive: the reports of the hook.                                   *)

\* ALCCSend is done with packets 1 .. Recorded.
Recorded == IF pc \in {"sent", "spent", "counted", "recorded"}
              THEN sentSeq - 1 ELSE sentSeq

\* Threads that are about to restart slow start.
Pending == Cardinality({t \in DOMAIN at : at[t] = "lock"})

AwaitReport ==
    /\ rpc = "wait"
    /\ UNCHANGED <<senderVars, restartLock, tempS, wCrt, windowVars, pktSeq, lists,
                   seq, w, room, threadVars, top, restarts, sample>>

\* The report that packet k leaves gives the starting sequence number while
\* there is none, and is skipped else.
TakeStart(k) ==
    /\ startingSeq' = IF startingSeq = 0 THEN FirstSeq + End(k - 1) ELSE startingSeq
    /\ UNCHANGED <<rpc, toCount, reported, before, overtaken>>

OutgoingReport ==
    /\ AwaitReport
    /\ outgoing < sentSeq
    /\ outgoing' = outgoing + 1
    /\ TakeStart(outgoing')

\* TCP sends a packet again that it takes for lost.
RetransmitReport(k) ==
    /\ AwaitReport
    /\ k <= outgoing /\ End(k) > reported
    /\ UNCHANGED outgoing
    /\ TakeStart(k)

numAcks(p) == IF startingSeq > 0 /\ FirstSeq + p >= startingSeq
                THEN (FirstSeq + p - startingSeq) \div MTU ELSE 0

\* The hook reports an acknowledgement of the first p bytes.  (sscanf writes the
\* four numbers of the report over variables that are narrower than %u and %lu:
\* what lies beside them is left out.)
HandleAck(p) ==
    /\ AwaitReport
    /\ toCount' = numAcks(p)
    /\ IF toCount' > 0 THEN rpc' = "count" /\ before' = reported
                       ELSE rpc' = "wait" /\ before' = reported'
    /\ UNCHANGED <<startingSeq, outgoing>>

\* An acknowledgement of bytes not acknowledged before: TCP may acknowledge any
\* number of them, also in the middle of a packet.  Reports come in order: that
\* of a packet leaving before those of its acknowledgements.
NewAck(p) ==
    /\ reported < p /\ p <= End(outgoing)
    /\ \/ p <= End(Recorded) /\ UNCHANGED overtaken
       \/ /\ p > End(Recorded) /\ EarlyAcks
          /\ Pending + restarts = 0
          /\ overtaken' = overtaken + 1
    /\ reported' = p
    /\ HandleAck(p)

\* A repeated acknowledgement, or one overtaken in the network.
OldAck(p) ==
    /\ p <= reported /\ reported - p <= Stale
    /\ UNCHANGED <<reported, overtaken>>
    /\ HandleAck(p)

-----------------------------------------------------------------------------
(* ALCCReceive: the loop over the packets a report acknowledges.           *)

ReceiverAt(here, next) ==
    /\ rpc = here
    /\ rpc' = next
    /\ UNCHANGED <<senderVars, pktSeq, outgoing, reported, threadVars, restarts>>

InLoop(here, next) ==
    /\ ReceiverAt(here, next)
    /\ sample' = "none"
    /\ UNCHANGED <<toCount, before, overtaken>>

\* The loop is done with a packet.
NextPacket(here) ==
    /\ ReceiverAt(here, IF toCount > 1 THEN "count" ELSE "wait")
    /\ toCount' = toCount - 1
    /\ before' = IF toCount > 1 THEN before ELSE reported

OnRecord(n) == \E k \in DOMAIN seqNumbersList : k <= n

\* The time is that at which the batch of its packet began.
OfItsBatch(entry) == entry.time = entry.batch /\ entry.batch < entry.packet

\* What the time looked up for number n is worth: the delay is that of a packet
\* which the present report is the first to acknowledge, measured from the
\* beginning of its batch, or not.  Without an entry for n the code reads past
\* the end of the map; without one in sendingList it takes the window of an
\* earlier packet.
Sampled(n) ==
    IF n \notin DOMAIN seqNumbersList THEN "unstamped"
    ELSE IF n \notin DOMAIN sendingList THEN "windowless"
    ELSE IF /\ before < End(seqNumbersList[n].packet)
            /\ End(seqNumbersList[n].packet) <= reported
            /\ OfItsBatch(seqNumbersList[n])
      THEN "timely" ELSE "late"

\* Mutation: the position stays where it was.
AdvanceCount == seq' = seq + 1 /\ UNCHANGED startingSeq

Advance == seq' = seq + 1 /\ startingSeq' = startingSeq + MTU

\* The window is looked up in sendingList; else w keeps its last value.
LookUp ==
    /\ ReceiverAt("count", "look")
    /\ OnRecord(seq + 1)
    /\ Advance
    /\ sample' = Sampled(seq + 1)
    /\ w' = IF seq + 1 \in DOMAIN sendingList THEN sendingList[seq + 1] ELSE w
    /\ UNCHANGED <<restartLock, tempS, wCrt, windowVars, lists, toCount, before,
                   room, top, overtaken>>

\* No packet up to this one is on record.
CountUnrecorded ==
    /\ NextPacket("count")
    /\ ~ OnRecord(seq + 1)
    /\ Advance
    /\ wCrt' = wCrt - 1
    /\ UNCHANGED <<restartLock, tempS, windowVars, lists, w, room, top, sample, overtaken>>

\* The delay is above SS_EXIT_THRESHOLD, or the 5000 packets are over.
ExitSlowStart ==
    /\ InLoop("look", "exit")
    /\ slowStart
    /\ wBar' = (7 * w) \div 10
    /\ slowStart' = FALSE
    /\ UNCHANGED <<restartLock, tempS, wCrt, haveSpline, lists, countVars, w, room, top>>

StopSending ==
    /\ InLoop("exit", "update")
    /\ tempS' = 0
    /\ UNCHANGED <<restartLock, wCrt, windowVars, lists, countVars, w, room, top>>

\* Mutation: the last packet in flight is not taken off.
SettledButOne == IF wCrt > 1 THEN wCrt - 1 ELSE wCrt

SettledInFlight == IF wCrt > 0 THEN wCrt - 1 ELSE wCrt

\* The delay goes into wList, and the packet is taken off both lists.
updateUponReceivingPacket ==
    /\ \E here \in {"look", "update"} :
         InLoop(here, IF slowStart THEN "grow" ELSE "unlock")
    /\ wCrt' = SettledInFlight
    /\ top' = Larger(top, w)
    /\ seqNumbersList' = Without(seqNumbersList, seq)
    /\ sendingList' = Without(sendingList, seq)
    /\ UNCHANGED <<restartLock, tempS, windowVars, countVars, w, room>>

\* wBar ++; tempS += fmax(0, wBar - wCrt - tempS)
GrowWindow ==
    /\ InLoop("grow", "load")
    /\ wBar' = wBar + 1
    /\ room' = wBar + 1 - wCrt
    /\ UNCHANGED <<restartLock, tempS, wCrt, slowStart, haveSpline, lists, countVars,
                   w, top>>

\* Mutation: the permits still there are not subtracted.
LoadNothing ==
    /\ InLoop("load", "add")
    /\ room' = Larger(0, room)
    /\ UNCHANGED <<restartLock, tempS, wCrt, windowVars, lists, countVars, w, top>>

LoadPermits ==
    /\ InLoop("load", "add")
    /\ room' = Larger(0, room - tempS)
    /\ UNCHANGED <<restartLock, tempS, wCrt, windowVars, lists, countVars, w, top>>

AddPermits ==
    /\ InLoop("add", "unlock")
    /\ tempS' = tempS + room
    /\ room' = 0
    /\ UNCHANGED <<restartLock, wCrt, windowVars, lists, countVars, w, top>>

\* restartLock is given back, whoever has it.
UnlockAnyway ==
    /\ NextPacket("unlock")
    /\ restartLock' = "free"
    /\ UNCHANGED <<tempS, wCrt, windowVars, lists, countVars, w, room, top,
                   sample, overtaken>>

-----------------------------------------------------------------------------
(* ALCCVerus and ALCCCurve.                                                *)

ThreadAt(t, here, next) ==
    /\ at[t] = here
    /\ at' = [at EXCEPT ![t] = next]
    /\ UNCHANGED <<senderVars, receiverVars, sample, overtaken>>

Bounded == overtaken = 0 /\ restarts + Pending < MaxRestarts

\* An epoch gives a new window; it gives no permits if dEst has come down to
\* dMin with two packets or more in flight (dMinStop).
Epoch ==
    /\ \/ ThreadAt("verus", "sleep", "load")
       \/ ThreadAt("verus", "sleep", "sleep") /\ wCrt >= 2
    /\ ~ slowStart
    /\ tempS <= MaxPermits
    /\ wBar' \in Windows
    /\ UNCHANGED <<restartLock, tempS, wCrt, slowStart, haveSpline, pktSeq, lists,
                   countVars, si, N, top, restarts>>

\* The spline is below the delay everywhere: "can't map delay on delay curve".
OffTheCurve ==
    /\ ThreadAt("verus", "sleep", "lock")
    /\ ~ slowStart /\ haveSpline
    /\ Bounded
    /\ UNCHANGED <<restartLock, tempS, wCrt, windowVars, pktSeq, lists, countVars,
                   si, N, top, restarts>>

\* Division of C++: towards zero.
Quotient(a, b) == IF a >= 0 THEN a \div b ELSE -((-a) \div b)

calcSi(n) == Larger(0, IF n > 1 THEN wBar + Quotient(wCrt * (2 - n), n - 1)
                                ELSE wBar - wCrt - tempS)

LoadSi ==
    /\ ThreadAt("verus", "load", "add")
    /\ \E n \in Delays : si' = calcSi(n)
    /\ UNCHANGED <<restartLock, tempS, wCrt, windowVars, pktSeq, lists, countVars,
                   N, top, restarts>>

AddSi ==
    /\ ThreadAt("verus", "add", "sleep")
    /\ tempS' = tempS + si
    /\ si' = 0
    /\ UNCHANGED <<restartLock, wCrt, windowVars, pktSeq, lists, countVars,
                   N, top, restarts>>

\* while (max_i/N < 5) N--
Affordable == Smaller(N, top \div Ratio)

\* A pass of ALCCCurve: with a knot left it fits the spline, else slow start
\* is restarted.  N keeps its value: at 0 the passes do nothing any more.
CurvePass ==
    /\ N > 0 /\ ~ slowStart
    /\ N' = Affordable
    /\ IF N' > 0 THEN ThreadAt("curve", "sleep", "fit")
                 ELSE ThreadAt("curve", "sleep", "lock") /\ Bounded
    /\ UNCHANGED <<restartLock, tempS, wCrt, windowVars, pktSeq, lists, countVars,
                   si, top, restarts>>

FitSpline ==
    /\ ThreadAt("curve", "fit", "sleep")
    /\ haveSpline' = TRUE
    /\ UNCHANGED <<restartLock, tempS, wCrt, wBar, slowStart, pktSeq, lists, countVars,
                   si, N, top, restarts>>

\* alglib throws an exception.
FitFails ==
    /\ ThreadAt("curve", "fit", "lock")
    /\ Bounded
    /\ UNCHANGED <<restartLock, tempS, wCrt, windowVars, pktSeq, lists, countVars,
                   si, N, top, restarts>>

-----------------------------------------------------------------------------
(* restartSlowStart, called by thread t.                                   *)

ResetCounters(t) ==
    /\ ThreadAt(t, "lock", "clear")
    /\ restartLock = "free"
    /\ restartLock' = t
    /\ wBar' = 1 /\ slowStart' = TRUE /\ haveSpline' = FALSE
    /\ wCrt' = 0 /\ pktSeq' = 0
    /\ seq' = 0 /\ startingSeq' = 0
    /\ restarts' = restarts + 1
    /\ UNCHANGED <<tempS, lists, si, N, top>>

\* Mutation: the sending times are kept.
ClearWindows(t) ==
    /\ ThreadAt(t, "clear", "permit")
    /\ sendingList' = <<>>
    /\ top' = 1
    /\ UNCHANGED <<seqNumbersList, restartLock, tempS, wCrt, windowVars, pktSeq,
                   countVars, si, N, restarts>>

ClearLists(t) ==
    /\ ThreadAt(t, "clear", "permit")
    /\ seqNumbersList' = <<>> /\ sendingList' = <<>>
    /\ top' = 1
    /\ UNCHANGED <<restartLock, tempS, wCrt, windowVars, pktSeq, countVars,
                   si, N, restarts>>

\* "sending the first packet for slow start"
PermitFirst(t) ==
    /\ ThreadAt(t, "permit", "sleep")
    /\ tempS' = 1
    /\ restartLock' = "free"
    /\ UNCHANGED <<wCrt, windowVars, pktSeq, lists, countVars, si, N, top, restarts>>

-----------------------------------------------------------------------------
ALCCSend == \/ LockRestart \/ UnlockRestart \/ StartBatch \/ EndBatch \/ Transmit
            \/ SpendPermit \/ CountInFlight \/ RecordTime \/ RecordWindow
CountPacket == \/ LookUp \/ CountUnrecorded \/ ExitSlowStart \/ StopSending
               \/ updateUponReceivingPacket
               \/ GrowWindow \/ LoadPermits \/ AddPermits \/ UnlockAnyway
restartSlowStart(t) == ResetCounters(t) \/ ClearLists(t) \/ PermitFirst(t)

Next == \/ \E n \in Writes : alcc_send(n)
        \/ ALCCSend
        \/ OutgoingReport
        \/ \E k \in Packets : RetransmitReport(k)
        \/ \E p \in 0..Written : NewAck(p) \/ OldAck(p)
        \/ CountPacket
        \/ Epoch \/ OffTheCurve \/ LoadSi \/ AddSi
        \/ CurvePass \/ FitSpline \/ FitFails
        \/ \E t \in DOMAIN at : restartSlowStart(t)

Spec == Init /\ [][Next]_vars

\* The threads run, and one that waits for restartLock gets it if the lock is
\* free again and again; the application sends its stream; what leaves is
\* reported, and so is the acknowledgement of all that was sent.
Fairness ==
    /\ WF_vars(ALCCSend) /\ WF_vars(CountPacket)
    /\ WF_vars(Epoch) /\ WF_vars(LoadSi) /\ WF_vars(AddSi)
    /\ WF_vars(CurvePass) /\ WF_vars(FitSpline)
    /\ \A t \in {"verus", "curve"} : SF_vars(restartSlowStart(t))
    /\ WF_vars(\E n \in Writes : alcc_send(n))
    /\ WF_vars(OutgoingReport)
    /\ WF_vars(NewAck(Written))

FairSpec == Spec /\ Fairness

-----------------------------------------------------------------------------
(* Properties.                                                             *)

Restarting == {"lock", "clear", "permit"}
Sending    == {"sent", "spent", "counted"}

SenderTypes ==
    /\ queued \in Nat /\ ends \in Seq(Nat)
    /\ pc \in Sending \cup {"lock", "test", "take", "recorded"}
    /\ (pc \in Sending \cup {"recorded"} => sentSeq > 0 /\ sPkts > 0)
    /\ sPkts \in Nat
    /\ pktTime \in 0..sentSeq /\ began \in 0..sentSeq
    /\ restartLock \in {"free", "sender", "verus", "curve"}
    /\ tempS \in Int /\ wCrt \in Int
    /\ pktSeq \in 0..sentSeq

ListTypes ==
    /\ DOMAIN seqNumbersList \subseteq 0..sentSeq
    /\ \A n \in DOMAIN seqNumbersList :
         seqNumbersList[n] \in [time : 0..sentSeq, packet : Packets, batch : 0..sentSeq]
    /\ DOMAIN sendingList \subseteq 0..sentSeq
    /\ \A n \in DOMAIN sendingList : sendingList[n] \in Nat

ReceiverTypes ==
    /\ seq \in Nat /\ startingSeq \in Nat
    /\ rpc \in {"wait", "count", "look", "exit", "update", "grow", "load",
               "add", "unlock"}
    /\ toCount \in Nat /\ (rpc = "wait" <=> toCount = 0)
    /\ w \in Nat /\ room \in Int /\ (rpc = "add" => room >= 0)
    /\ outgoing \in 0..sentSeq
    /\ reported \in Nat /\ reported <= End(outgoing)
    /\ before \in 0..reported
    /\ sample \in {"none", "timely", "late", "unstamped", "windowless"}
    /\ overtaken \in Nat

ThreadTypes ==
    /\ wBar \in Nat /\ slowStart \in BOOLEAN /\ haveSpline \in BOOLEAN
    /\ at \in [{"verus", "curve"} ->
                 Restarting \cup {"sleep", "load", "add", "fit"}]
    /\ si \in Nat /\ N \in 0..Knots /\ top \in Nat \ {0}
    /\ restarts \in Nat

TypeOK == SenderTypes /\ ListTypes /\ ReceiverTypes /\ ThreadTypes

\* No packet but perhaps the last was shorter than MTU.
AllFull == \A k \in 1..(sentSeq - 1) : ends[k] = k * MTU

\* Packets that ALCCSend has added to wCrt, and packets ALCCReceive has taken
\* from it.
Counted == IF pc \in {"sent", "spent"} THEN sentSeq - 1 ELSE sentSeq
Settled == IF rpc \in {"look", "exit", "update"} THEN seq - 1 ELSE seq

\* Packets of the present report that seq does not count yet.
Remaining == IF rpc \in {"wait", "count"} THEN toCount ELSE toCount - 1

\* Up to the first restart wCrt is what ALCCSend has counted less what
\* ALCCReceive has taken off, although the two record and look up a packet in
\* several steps: a packet not on record is taken off in another branch.  Only
\* acknowledgements that overtake the record may leave wCrt too high.
InFlightExact ==
    restarts = 0 => wCrt \in (Counted - Settled)..(Counted - Settled + overtaken)

\* Up to the first restart no packet is counted whose bytes were not all
\* acknowledged, although startingSeq goes on by MTU for a short packet too.
CountsOnlyDelivered ==
    restarts = 0 =>
        seq + Remaining <= Cardinality({k \in Packets : ends[k] <= reported})

\* With full packets and none overtaken, every delay up to the first restart is
\* that of a packet which the report at hand is the first to acknowledge, with a
\* window on record for it, and is measured from the time at which the batch of
\* that very packet began: not from when the packet itself was sent, nor from an
\* earlier batch.
SamplesTimely ==
    AllFull /\ restarts = 0 /\ overtaken = 0 => sample \in {"none", "timely"}

\* In the first slow start the permits never exceed the window, and permits and
\* packets in flight together never exceed two windows, although ALCCReceive
\* reads wCrt and tempS one after the other while ALCCSend moves permits from
\* one to the other.
SlowStartBound ==
    restarts = 0 /\ slowStart => /\ tempS <= wBar
                                 /\ Counted - Settled + tempS <= 2 * wBar

\* Outside of a restart no number on record is ahead of pktSeq, and numbers are
\* in the order the packets were sent: a packet sent before a restart is not
\* taken for one sent after it, even if ALCCSend was in the middle of a batch.
RecordsOrdered ==
    (\A t \in DOMAIN at : at[t] \notin {"clear", "permit"}) =>
        /\ DOMAIN seqNumbersList \subseteq 0..pktSeq
        /\ DOMAIN sendingList \subseteq 0..pktSeq
        /\ \A j, k \in DOMAIN seqNumbersList :
             j < k => seqNumbersList[j].packet < seqNumbersList[k].packet

-----------------------------------------------------------------------------
(* What these rest on.                                                     *)

\* Packets end one after the other, none is empty or longer than MTU.
EndsInOrder ==
    \A k \in Packets : /\ ends[k] <= k * MTU
                       /\ \A j \in 0..(k - 1) : End(j) < ends[k]

\* A packet that is being sent is not on record.
RecordsOld ==
    \A n \in DOMAIN seqNumbersList :
        seqNumbersList[n].packet <= (IF pc \in Sending THEN sentSeq - 1 ELSE sentSeq)

\* From the moment the lists are cleared, they are in order.
OrderedSinceClear ==
    (\A t \in DOMAIN at : at[t] # "clear") =>
        /\ DOMAIN seqNumbersList \subseteq 0..pktSeq
        /\ DOMAIN sendingList \subseteq 0..pktSeq
        /\ \A j, k \in DOMAIN seqNumbersList :
             j < k => seqNumbersList[j].packet < seqNumbersList[k].packet

\* Up to the first restart startingSeq stands for seq full packets.
CountsFromStart ==
    restarts = 0 =>
        IF outgoing = 0 THEN startingSeq = 0 /\ seq = 0 /\ rpc = "wait"
                        ELSE startingSeq = FirstSeq + seq * MTU

\* Up to the first restart, what is counted or about to be was acknowledged.
CountedAcked ==
    restarts = 0 => \/ seq + Remaining = 0
                    \/ /\ seq + Remaining \in Packets
                       /\ ends[seq + Remaining] <= reported

\* Acknowledgements stay behind the record, but for those that overtook it.
AckedRecorded == overtaken = 0 => reported <= End(Recorded)

\* All of these together: what the two threads that count packets know of each
\* other at every point of their loops.  The conjunction is inductive.
VerusInvariant ==
    /\ TypeOK /\ EndsInOrder /\ RecordsOld /\ OrderedSinceClear
    /\ CountsFromStart /\ CountedAcked /\ AckedRecorded /\ InFlightExact

\* Permits and packets in flight of the first slow start, with the packet whose
\* permit is spent and that is not counted yet.
Committed == Counted - Settled + tempS + (IF pc = "spent" THEN 1 ELSE 0)

\* What ALCCReceive may add at each point of its loop in the first slow start:
\* what it read of wCrt and tempS is never too little, although ALCCSend goes on
\* between the two.  The other two threads rest, and a batch has its permits.
PermitsBounded ==
    restarts = 0 /\ slowStart =>
        /\ \A t \in DOMAIN at : at[t] = "sleep"
        /\ tempS >= (IF pc \in {"spent", "counted", "recorded"} THEN sPkts - 1 ELSE sPkts)
        /\ tempS <= wBar /\ Committed <= 2 * wBar
        /\ rpc \notin {"exit", "update"}
        /\ (rpc = "grow" => wCrt >= 0)
        /\ (rpc = "load" => room <= wBar /\ Committed + room <= 2 * wBar)
        /\ (rpc = "add" => tempS + room <= wBar /\ Committed + room <= 2 * wBar)

\* Up to the first restart, what is counted or about to be is every whole MTU of
\* what was acknowledged, and the report before ended short of the packet in turn.
CountsAll ==
    restarts = 0 =>
        /\ \A t \in DOMAIN at : at[t] \notin {"clear", "permit"}
        /\ (seq + Remaining) * MTU <= reported
        /\ reported < (seq + Remaining + 1) * MTU
        /\ toCount > 0 => before < (seq + 1) * MTU

\* A batch has its time, and the packet being sent belongs to the batch.
InBatch == pktTime = began /\ (pc \in Sending => began < sentSeq)

\* Up to the first restart and the first early acknowledgement, the lists hold
\* the packets sent and not taken off, each under its place in the stream and
\* with the time of its batch.
ListsExact ==
    restarts = 0 /\ overtaken = 0 =>
        /\ pktSeq = sentSeq
        /\ DOMAIN seqNumbersList =
             (Settled + 1)..(IF pc \in Sending THEN sentSeq - 1 ELSE sentSeq)
        /\ InBatch
        /\ \A n \in DOMAIN seqNumbersList : /\ seqNumbersList[n].packet = n
                                             /\ OfItsBatch(seqNumbersList[n])
        /\ DOMAIN sendingList = (Settled + 1)..Recorded

\* What holds up to the first restart only.  With VerusInvariant it is inductive.
FirstStartInvariant == PermitsBounded /\ CountsAll /\ ListsExact /\ SamplesTimely

-----------------------------------------------------------------------------
\* In normal mode a delay curve is computed ("in normal mode we should compute
\* the delay curve", libalcc_verus.cpp:810), or slow start is restarted.
CurveComputed ==
    (~ slowStart /\ restarts < MaxRestarts)
        ~> (slowStart \/ haveSpline \/ Pending > 0 \/ restarts = MaxRestarts)
=============================================================================
