# Verification of ALCC

ALCC runs a congestion-control protocol in the application, on top of TCP. A
server links `libalcc`, replaces `accept`, `send` and `close` by `alcc_accept`,
`alcc_send` and `alcc_close`, and gets per connection a sending queue and a few
threads that decide when TCP is given the next packet. A kernel module reports
the TCP sequence and acknowledgement numbers of the connection back to the
process. This directory models that machinery in TLA+, checks it with TLC and
proves its most important invariants with TLAPS.

## 1. The system

### Components

| Component | Code | State | Operations |
|---|---|---|---|
| Sending queue | `Circular_Queue` in `libalcc/libalcc.cpp` (same class in the Copa and Verus builds) | byte ring `cqueue_arr`, `front`, `rear`, `lockBuffer` | `insert`, `remove`, `length` |
| ALCC socket, fixed window | `ALCCSocket` in `libalcc/libalcc.{h,cpp}` | atomics `tempS`, `pktsInFlight`; map `seqNumbersList`; `sentSeq`, `rcvSeq`, `rcvSeqLast`, `tcpSeq`, `terminateThreads` | threads `pkt_sender`, `ack_receiver`, `CC_logic` |
| Socket API | `alcc_accept`, `alcc_send`, `alcc_close` | `alccSocketList`: descriptor -> socket | the three calls |
| Netfilter hook | `libalcc/netfilter/alcc_kernel.c` | one netlink socket | `hfunc` (arriving), `hfunc2` (leaving), `send_to_alcc` |
| Copa | `libalcc/copa/` | window, intersend time, `unacknowledged_packets`, RTT windows, utility mode | `pkt_sender`, `ack_receiver`, `onACK`, `onPktSent`, `update_delta`, ... |
| Verus | `libalcc/verus/` | window `wBar`, permits `tempS`, `wCrt` in flight, slow-start state, delay curve, `restartLock`, `seqNumbersList` and `sendingList` | `ALCCSend`, `ALCCReceive`, `ALCCCurve`, `ALCCVerus`, `restartSlowStart` |
| bftpd | `Applications/bftpd/commands.c` | one process per control connection, `sock1` | `dataconn`, the RETR loop, `do_dirlist`, `test_abort` |
| Everything else | genericCC, sprout_alcc, native Verus, its Android client, Artifacts, channelTraces | third-party or scripts | used for comparison only |

### How they interact

`dataconn` calls `alcc_accept`, which makes an `ALCCSocket`, starts its
`pkt_sender` and `ack_receiver`, and puts it in `alccSocketList`. RETR reads the
file and calls `alcc_send` until the queue has taken everything. `pkt_sender`
takes packets of up to `MTU` bytes out of the queue while `tempS` is positive,
writes each to TCP, then takes one from `tempS`, adds one to `pktsInFlight` and
puts the packet into `seqNumbersList`. The kernel hook reports each segment that
leaves and each that arrives. `ack_receiver` takes the first leaving segment for
the start of the connection and starts `CC_logic`; from every acknowledgement it
computes how many packets were acknowledged, looks the last one up in
`seqNumbersList` and reduces `pktsInFlight`. Every 5 ms `CC_logic` fills `tempS`
up to the window. `alcc_close` sleeps until the queue is empty, sets
`terminateThreads` and closes the descriptor.

### What is hard here

* `insert` chooses its length from reads of `front` made without the lock.
* Three threads share three variables that are updated one after the other;
  `CC_logic` computes with two loads that need not fit together, in unsigned
  arithmetic that wraps.
* Acknowledgements are cumulative, repeated, reordered, and may end inside a
  packet; they may be handled before the sender has recorded the packet; their
  numbers wrap at 2^32, and one of them, 0, also means "not started".
* Copa's sender records a packet in three places after sending it; its receiver
  takes the packets of a report one by one; both set the clock from which the
  receiver reads the end of an RTT sample; the RTT estimates forget samples
  they may still need when the period they cover changes.
* Verus has four threads; two of them may restart slow start, which resets the
  counters and lists of all. `restartLock` is to keep the sender out of that,
  but the receiver, which never takes it, gives it back after every packet.
* Nothing joins the threads of a closed connection, closes their netlink socket
  or erases their list entry, and descriptors are reused. A sender may be out of
  permits for good, and `alcc_close` waits for it.

`PROJECT.json` lists the hazards line by line with the properties that cover
them.

## 2. Modules

### BoundedFifo and CircularQueue

`BoundedFifo` is what the queue promises: `Put` appends the next bytes of the
writer's stream if they fit, `Get` hands out the oldest bytes, at most `MTU`.

`CircularQueue` is the class. `remove` runs under `lockBuffer` and is one action.
`insert` is split at every read of `front` it makes before it takes the lock
(`TestEmpty`, `TestOrder`, `ClampTail`/`ClampGap`), because `bftpd/Makefile` (and
its `_original` and `_copa` variants) compiles the library without optimisation:
each mention of `front` is a load. The locked part is `CopyStraight`,
`CopyWrapped` or, for a negative length, `NegativeCopy`. A byte is named after
its position in the stream, so a lost, repeated or overwritten byte shows.

A negative length does occur: when `remove` brings `front` around the end of the
ring between the test of line 33 and the read of line 36, `front - rear - 1` is
below zero, passes `len == 0` and reaches `memcpy`. The model stops the process
there (`pc = "fault"`), and the run takes this action. The properties are about
what is in the ring until then, and `ClampIsSafe` says how far below zero the length
may be: by `rear + 1` at most, and never while the ring is wrapped.

### AlccSocket and SeqDecode

`AlccSocket` is one socket of the fixed-window build. Correspondence:

| Code | Model |
|---|---|
| `while (tempS > 0)`, `sPkts = tempS` | `StartBatch` |
| `remove`, `sentSeq++`, `::send` | `Transmit`; the loop's end or an empty queue is `EndBatch` |
| `tempS -= 1`; `pktsInFlight += 1`; `seqNumbersList[sentSeq] = pktTime` | `SpendPermit`; `CountInFlight`; `RecordTime` |
| report of a leaving segment | `OutgoingReport(k)`, any packet not acknowledged yet (retransmissions included) |
| report of an arriving segment | `NewAck(p)` or `OldAck(p)` for any byte `p`, both through `HandleAck` |
| `cc_loigc_thread = thread(...)` a second time, which calls `std::terminate` | `alive'` in `OutgoingReport`, then `Dead` |
| `tempS += fmax(0, cwnd - pktsInFlight - tempS)` | `LoadInFlight`, `LoadTempS` in either order, then `AddPermits` |
| `tempS` | `tempS` and `paused`: unsigned wrap-around flips the top bit of the 64-bit value, nothing else; `paused` is that bit |

The stream is counted in bytes; `ends[k]` is the position after packet `k`, and
`Wire` turns a position into a sequence number modulo `MODULUS`. The 100 ms the
sender sleeps first, the logs and the delays computed for them are left out.
`std::map` is used by two threads without a lock; each access is atomic in the
model, so what a data race does to the tree itself is not covered.

TCP may acknowledge any byte. One inside a packet costs the connection the rest of
that packet: lines 246 and 254 round the count down and set `tcpSeq` to the byte.
`cuts` counts such acknowledgements (at most `MaxCuts`). An acknowledgement from
before a wrap that arrives after it passes `ack_seq >= tcpSeq` and counts nearly
2^32 bytes; `wentBack` says that this has happened, and `OldAck` lets it happen
once. An acknowledgement that names the byte numbered 0 sets `tcpSeq` to the mark
for "not started": the receiver is deaf, and the next segment that leaves starts
`CC_logic` a second time. `Led` says that none of the last two has happened.

`AlccSocket` writes the packet count of an acknowledgement as `Advance`.
`SeqDecode` has the C++ expression itself, with its widths: a 64-bit quotient cut
to an `int` whose sign is taken for the wrap. It proves that this is the forward
distance in whole packets, for both MTUs of the library. Verus counts with a
signed `startingSeq` that moves on by `MTU` and is never wrapped; `VerusCount` is
that expression. These numbers are beyond TLC, which has 32-bit integers.

### SlidingWindow

What a socket promises, seen from its two ends: packets leave one by one (`Send`),
never `Bound` or more ahead of what is counted; what is acknowledged and what is
counted only grow, and only what is acknowledged is counted (`Receive`). The
fixed-window socket implements it with `2 * CWND + 1`, the Copa socket with
`MaxWindow`; in both runs a bound smaller by one is violated. The Verus socket does
not: outside of slow start its permits have no bound (section 3, Bounds).

### SocketLifecycle

One bftpd process, whose session opens several data connections: `alcc_accept`
(or a plain connect in active mode, or an accept that fails), `alcc_send`,
`Abort` (`test_abort` closes the descriptor and not the socket), the wait, stop
and close of `alcc_close`, the 226 replies, and the threads of every connection
ever opened, which go on after it is closed.

| Code | Model |
|---|---|
| `bind` of `ack_receiver` to `getpid()` | `Bind` |
| what `CC_logic`, once started, makes of `tempS` | `CC_logic`: any number of permits up to `MaxPermits`, or none, at any time |
| `while (tempS > 0 && !terminateThreads)` | `StartBatch`, `Exit` |
| the `for` loop, which looks at neither | `Take`, `SendPacket`, `EndBatch` |
| `::send` returns -1 (descriptor closed, connection reset) and `z += ret` | `SendFails` |
| another `::send` on a connection that was reset: SIGPIPE | `BrokenPipe` |
| the client resets the connection | `Reset` |

A sender has one permit, the initial `tempS`, and gets others only if its receiver
listens. Permits may run dry and stay so, as `AlccSocket` shows they do.
The queue is never full, and a packet stands for a call of `alcc_send`. STOR,
compressed and ASCII transfers and the failure of `read` are left out.

`alcc_close` of the fixed-window and of the Copa build deletes the `ALCCSocket`
before it closes the descriptor (`DeleteSocket`); its `std::thread` members are
joinable, so that their destructors end the process. Verus has that line
commented out (`CloseSocket`). The variable `deletes` says which build it is.

### CopaSocket

The socket of the Copa build. There is no `tempS`: `pkt_sender` sends while
`seq_num < _largest_ack + 1 + get_the_window()`.

| Code | Model |
|---|---|
| the test of the inner loop | `Admit` (the window; see below for the pacing) |
| `remove` and `::send`; an empty queue | `Transmit`; `FindNothing` |
| `seqNumbersList`, `senderTimestampList`, `set_timestamp`, `onPktSent` | `RecordTime`, `RecordStamp`, `SetTick`, `onPktSent` |
| report of a leaving segment | `OutgoingReport(k)`, any packet; the first report received sets `tcpSeq` |
| report of an arriving segment | `NewAck(p)` or `OldAck(p)`, through `HandleAck` |
| a turn of the loop over the packets acknowledged | `Tick` (`set_timestamp`, if the packet is on record), then `CountPacket`, which holds `onACK` and `update_intersend_time` |

An acknowledgement may name any byte, also one inside a packet. `startsAt` is where
the count starts if the reports of the first packets are lost.

`cur_tick` belongs to both threads. The receiver sets it (790) and reads it in
`onACK` (450); in between the sender may set it (628) to the time at which it took
its packet (604), before a `::send` that may block. `cur_tick` is 0 in the model
for the receiver's own time and `k` for that of packet `k`; `sample` says what the
RTT sample came out as: timely, late, short (it ends too early), negative,
or without a time on record. A sample of a packet on record cannot be negative: the
time that the sender puts in between is of that packet or of a later one.
`onACK` goes on from an erased element of the map (502); `Taken` has what `std::map`
does while the freed node is intact, which C++ does not promise.

The window is the real number
of the code rounded up, which decides the same packets. Its target is any member
of `Targets`, its step any of `Steps`: how they follow from the RTTs matters to no
property. Nothing is ever reported lost: the loop of `onACK` stops at the first
older packet (line 485) before it gets to the lines that count losses.

The pacing test `_last_send_time + get_intersend_time() * train_length <= cur_time`
reads a `cur_time` that is refreshed only behind it. The model lets the sender go
on at any time, which is right for safety; no liveness is claimed.

### VerusSocket

The socket of the Verus build with its four threads. A step is what a thread does
between two points where the order of two threads shows.

| Code | Model |
|---|---|
| `ALCCSend`: `restartLock`, `while (tempS > 0)` | `LockRestart`, `StartBatch`, `UnlockRestart` |
| its `for` loop | `Transmit`, `SpendPermit`, `CountInFlight`, `RecordTime`, `RecordWindow`, and `EndBatch` |
| `ALCCReceive`: the reports | `OutgoingReport`, `RetransmitReport`, `NewAck`, `OldAck` |
| a turn of its loop | `LookUp` or `CountUnrecorded`; then `ExitSlowStart`, `StopSending`; `updateUponReceivingPacket`; in slow start `GrowWindow`, `LoadPermits`, `AddPermits`; `UnlockAnyway` |
| `ALCCVerus`: an epoch | `Epoch`, `LoadSi`, `AddSi`; `OffTheCurve` |
| `ALCCCurve`: a pass | `CurvePass`, `FitSpline`, `FitFails` |
| `restartSlowStart` | `ResetCounters`, `ClearLists`, `PermitFirst` |

Delays and the curve are real numbers in the code. The model keeps what they
decide and lets it be anything: whether slow start ends (`ExitSlowStart` or not),
which window the curve gives (`Windows`), how many epochs a delay takes
(`Delays`), whether the curve has no window for a delay (`OffTheCurve`), whether
the fit throws (`FitFails`). What decides the knots of the spline is kept exactly:
`top` is the highest window with a delay on record and `N` the number of knots.

`pktTime` is read once per batch (531) and put on record for each of its packets.
An entry of `seqNumbersList` holds that time and, for the properties, the packet
and the batch it belongs to. An acknowledgement may name any byte.

Further abstractions: `wCrt > 0` and the
subtraction behind it are one step, as are the reset and each of the two groups
of lists that `restartSlowStart` clears, and the two lists the receiver takes a
packet off; the order of two reads of `wCrt` and `tempS` matters in slow start,
where they are two steps, and not in `calcSi`, where they are one. `sscanf` with
`%u` and `%lu` writes more bytes than the `__u16` and `__u32` of lines 612-615 have,
over variables beside them; which ones is the compiler's choice, and the model
takes the four numbers as they were sent.

### RTTWindow

`rtt-window.cc`: four `ExtremeWindow`s and the smoothed RTT. `clear_old_hist` and
`new_sample` are operators from a window to a set of windows, with one element:
the number of samples popped is the one the loop stops at. The field `live` of the
model is the set of all samples that no call has found too old; the deque of the
code is right if it reports the extreme of these. The smoothed RTT is any value
between the old one and the sample, so that periods grow and shrink at will. Times
do not go back and RTTs are positive in the model. Copa's clock, set by two threads,
does not promise that: a time that goes back by more than the gap between two
samples is outside of `RTTWindow`, and may also trip the assertion of
`estimators.cc:13`.

## 3. Runs

| Run | Checks | Result |
|---|---|---|
| `CircularQueue` | types, `NothingLost`, `ChunkInOrder`, `ClampIsSafe`, the inductive `QueueInvariant`, refinement of `BoundedFifo` | holds |
| `AlccSocket` | types, `InFlightAccounting`, `PermitsCoverBatch`, `WindowBound`, `CountsOnlyDelivered`, the inductive `SocketInvariant` and `DeliveryInvariant`, refinement of `SlidingWindow`; short packets, reordering, early acknowledgements and one inside a packet | holds |
| `AlccSocketWrap` | `CountsExactly`, `DiesOnlyAtZero`, `Progress` across a wrap; full packets, an acknowledgement inside a packet, one from before the wrap after it, no early one | holds |
| `AlccSocketShort` | `StreamSent` with packets shorter than `MTU` | violated |
| `SocketLifecycle` | types, `NothingDuplicated`, `AtMostOneMissing`, `WaitsOnlyForPermits`, `LifecycleInvariant` | holds |
| `SocketLifecycleTail` | `SuccessIsComplete`: 226 means the whole file | violated |
| `SocketLifecycleForeign` | `OwnStream`: a listing holds no bytes of an earlier file | violated |
| `SocketLifecycleSecond` | `EveryTransferEnds`: the second transfer of a session ends | violated |
| `RTTWindow` | types, `ReportsExtreme`, `EstimatesOrdered`, the inductive `WindowInvariant` | holds |
| `CopaSocket` | types, `LeftoversExact`, `CountsOnlyDelivered`, `SamplesTimely`, `NeverShut`, the inductive `CopaInvariant`, refinement of `SlidingWindow`; short packets, reordering, early acknowledgements, any first report, a wrap, an acknowledgement from before it | holds |
| `VerusSocket` | types, `InFlightExact`, `CountsOnlyDelivered`, `SamplesTimely`, `SlowStartBound`, `RecordsOrdered`, the inductive `VerusInvariant`; short packets, early acknowledgements and some inside a packet, a restart | holds |
| `VerusCurve` | `CurveComputed`: in normal mode a delay curve is computed, or slow start restarts | violated |

The violated runs state what a comment or a reply of the program says and show
what the code does; `PROJECT.json` quotes each. In short:

* `AlccSocketShort`: the remainder of a division by `MTU` is never taken off
  `pktsInFlight`. After a window of them the connection stops. A packet
  acknowledged before it is recorded leaks in the same way (`EarlyAcks = TRUE`
  with full packets in `AlccSocketShort.cfg` shows it).
* What the passing runs leave to the code is stated in their properties.
  `CircularQueue` takes the copy of a negative length (line 36), which kills the
  process. `AlccSocketWrap` takes an acknowledgement of the byte numbered 0, after
  which the process dies, and one from before the wrap, after which `rcvSeq` is
  ahead of what was sent: `CountsExactly` and `Progress` are about connections to which
  neither happens (`Led`), and count a packet less for each acknowledgement inside
  a packet. Each of these also takes a packet from the window for good, so that
  `CWND` of them stop the connection; `MaxCuts = CWND` shows it. `CopaSocket` states
  its count up to the first acknowledgement from before a wrap in the same way.
* `CopaSocket` states `SamplesTimely` and `NeverShut` while all packets are full
  (and, for the latter, none was overtaken). Short packets break both: `rcvSeq`
  falls behind what was acknowledged, so packets are counted late, their RTT
  samples are too large, and in the end the window is full of packets that are
  not in flight. Samples that are too short do occur, since both threads set the
  clock. Copa's `tcpSeq > pow(2,32)` leaves 2^32 itself unwrapped; the
  run passes through it and shows that the next report is still counted right,
  and the mutant that wraps to 0 shows why it had better not wrap there.
* `SocketLifecycle*`: `alcc_close` looks at the queue and not at the packet in
  the sender's hand; threads outlive their descriptor; the netlink address of the
  process stays with the first receiver. In a build that deletes the socket the
  first `alcc_close` ends the process: `DeleteSocket` does, and the runs that are
  about a second connection use the other build (`Deletes = {FALSE}`).
* `VerusCurve`: `while (max_i/N < 5) N--` brings `N` to 0 in a pass with fewer than
  five windows on record, and slow start is restarted. `N` is set to 15 when the
  thread starts and never again: after the next slow start every pass fails
  `N > 0`, there is no curve, and the passes that should notice (the restart of
  line 849) cannot happen any more.
* `VerusSocket` states `InFlightExact`, `CountsOnlyDelivered`, `SamplesTimely` and
  `SlowStartBound` up to the first restart. A restart while `ALCCReceive` is in its
  loop breaks them: the loop goes on from `seq = 0`, `startingSeq = 0` and sets
  `startingSeq` to multiples of `MTU` that are no sequence numbers, and a batch of
  `ALCCSend` that was under way takes its permits from the one of the new slow
  start. `RecordsOrdered` is what survives: records of before and after a restart
  are never mixed.

### Bounds

* `CircularQueue`: `MAX = 5`, `MTU = 2`, 14 bytes: the ring wraps almost three
  times, requests of every length 1..4 meet every alignment, a chunk may be
  shorter than, equal to or split at the end. `TotalBytes` only ends the run.
* `AlccSocket`: 7 bytes in writes of 1 or 2, `MTU = CWND = 2`: four to seven
  packets, twice the window and more, so stale loads of `CC_logic` overlap a
  whole batch. `Stale = 8` lets every earlier acknowledgement reappear. One
  acknowledgement ends inside a packet (`MaxCuts = 1`). `MODULUS = 64` keeps this
  run away from a wrap.
* `AlccSocketWrap`: `MODULUS = 22`, start at 15: six packets, the wrap inside of the
  fourth, whose second byte is the one numbered 0. Two windows and a packet are 10
  bytes, just below half of the circle, as the proofs assume (`FullAcrossWraps`).
  `Stale = 4` brings acknowledgements back from before the wrap, and one taken for
  a new one is enough (`OldAck`). One acknowledgement ends inside a packet.
* `AlccSocketShort`: 6 bytes, no acknowledgement inside a packet and none repeated:
  the stall needs short packets only.
* `SocketLifecycle`: two connections on two descriptors, so that a descriptor
  is reused, or not, while the older thread holds a packet; files of three packets,
  so that some can be in the queue, one in the hand and one in the stream; up to two
  permits, so that a batch is longer than one packet or not. Sessions with a third
  connection are left to the proofs. No symmetry, as the run checks liveness.
* `RTTWindow`: five samples of three RTTs, gaps 0, 1, 3 and 5 against periods
  from 0 (half of the smallest RTT) to 24, unlimited at the first sample: deques of
  up to five samples are cut at both ends, with ties in value and in time.
* `CopaSocket`: 15 bytes in writes of 3, `MTU = 2`: eight to ten packets, full or
  short as the next write comes in time or not. The circle of 22 starts at 16 and
  full packets end on it exactly after the third. Three probes, windows from 2 to 4:
  the probing phase, slow start and both directions of the window are reached, and a
  step of 4 runs into the floor. `Stale = 3` brings acknowledgements back from
  before the wrap; one taken for a new one is enough (`OldAck`).
* `VerusSocket`: 5 bytes in writes of 2 or 3, `MTU = 2`: two to four packets, full,
  short or a full one after a short one, acknowledged at any byte. `Knots = 2` and
  `Ratio = 2` stand for 15 and 5, so that a pass finds enough windows, or too few. One
  restart (`MaxRestarts`), by either thread; a behaviour has restarts or early
  acknowledgements, not both (`Bounded`, `NewAck`). `MaxPermits = 0` lets an epoch add
  permits only when all are used: without a bound an idle connection collects permits
  for ever. A delay takes one epoch or three, both branches of `calcSi`. `Stale = 0`
  repeats the last acknowledgement; the counting never looks back, so that older ones
  are counted as that one is.
* `VerusCurve`: full packets and two restarts, which is one more than it takes to
  bring `N` to 0.

The systems end: `RTTWindow` when the samples are used up, `CircularQueue` when
the bytes are used up (the reader spins on an empty queue), `SocketLifecycle` with
the session (`Done`). These are explicit
stuttering steps; deadlock is checked everywhere.

### Fairness

`AlccSocket`: each thread keeps running (weak fairness on the sender's next step
and on each step of `CC_logic`), the application sends what it has, and the
report of the first leaving segment and of the acknowledgement of everything sent
arrive eventually (TCP retransmits; a lost report is made up for by a later one).
`StartBatch` is strongly fair: `pkt_sender` spins on `tempS > 0` without a pause
while `CC_logic` sleeps 5 ms after each step, so it sees every value that
`CC_logic` leaves for an epoch. `SocketLifecycle`: the process goes on with a
command it has begun and each thread runs, with `StartBatch` strongly fair for the
same reason; `CC_logic` and the client owe nothing. `EveryTransferEnds` of
`SocketLifecycleSecond` itself assumes that a listening socket is never out of
permits for good, so that its violation is not a matter of permits running dry.
`VerusSocket`: each thread keeps running, the stream is sent, reported and
acknowledged. A thread that waits for `restartLock` gets it if it is free again and
again (strong fairness); `CurveComputed` does not depend on it, since a restart
that waits counts as an answer.

## 4. Proofs

All theorems hold for every value of the constants that meets the named
assumptions; none depends on the bounds of the runs.

* `CircularQueueProofs`. `QueueInvariant` is inductive under `Fitting` (every request
  leaves the spare slot free: bftpd asks for at most 2,000,000 bytes, the ring has
  10,000,000). `NothingLost` alone is not inductive: between its reads the writer
  holds a length that must still be right after the reader moves. `ClampIsSafe` says
  so, for a negative one too, and `WriterInPlace` says what the writer's position
  remembers of the tests it passed. From it follow `TypeCorrect`, `NeverLoses` (what
  is in the ring is what was put in and not yet taken out), `HandsOutInOrder` (what
  `remove` returns), `ClampSafe`, and `RefinesFifo`: the initial state maps to the
  initial state of `BoundedFifo`; the copy steps map to `Put`, `Remove` to `Get`, all
  else to a stutter.
* `AlccSocketProofs`. `SocketInvariant` joins the checked invariants with what
  they rest on: acknowledged packets are settled in order and only when on record
  (`SettledInOrder`, `RecordedOnly`), a packet being sent holds a permit
  (`BatchOpen`), and what `CC_logic` has loaded is at least what is left
  (`LoadsAreOld`). It needs no assumption on the acknowledgements: any report at
  any time keeps the counters consistent. Theorems: `InvariantHolds`,
  `TypeCorrect`, `InFlightIsExact`, `PermitsSuffice`, `WindowIsBounded`.
* `AlccDeliveryProofs`. `DeliveryInvariant`: `tcpSeq` is a position that is
  acknowledged, with at least as many packets up to it as are counted. From it
  `OnlyDelivered`, under `NoWrap`: no sequence number of the stream is 0 or wraps.
  It cannot be had without that for any packets and any order of acknowledgements:
  see section 3.
  `DeathNeedsZero` needs no assumption: `tcpSeq` is the number of some position of
  the stream once `CC_logic` runs (`AtSomePosition`), so that it is 0 again only if
  the stream reaches the byte numbered 0.
  For streams that wrap any number of times there is `FullAcrossWraps`: packets are
  full, and two windows and a packet are less than half of the circle (the code's
  window of 20 packets is far below). Acknowledgements may end anywhere and come
  in any order. Then `ExactInvariant` is inductive: as long as the receiver follows
  the connection, `tcpSeq` is the number of the byte after what was reported, and
  the packets counted are those acknowledged less one at most for each
  acknowledgement inside a packet (`WithinCuts`: a packet that is open has
  already cost one). The window comes in through `WindowBound`: as little is in
  flight, an acknowledgement behind `tcpSeq` by more than half of the circle is ahead
  of it around the circle, and counts as such. Before `CC_logic` runs there is one
  permit (`OnePermit`), so that the report that starts it is of the first packet.
  Theorems: `ExactAcrossWraps`, `CountedExactly`.
  `RefinesWindow`, under `NoWrap`, and `RefinesAcrossWraps`, under
  `FullAcrossWraps` and as long as no acknowledgement from before a wrap was taken
  for a new one: the socket implements `SlidingWindow`. `Transmit` maps to `Send`,
  since the permits of the batch are part of `WindowBound` and what is settled is
  counted; acknowledgements map to `Receive`.
* `CopaSocketProofs`. `CopaInvariant`: packets are recorded in three places in
  turn, `tcpSeq` is the number of the byte after the packets counted (with 2^32
  for 0), and no more full packets are counted than were acknowledged. Streams
  may wrap any number of times, since a Copa receiver moves `tcpSeq` on by `MTU`
  and never takes it from an acknowledgement; `Around` and `GoForward` say what
  that comes to on the circle. Nothing is assumed of the acknowledgements; what
  is said of the count holds until one from before a wrap is taken for a new one.
  `TickedInTurn` is about the clock: what the sender sets it to in a turn of the
  receiver is the time of the packet in turn or of a later one.
  Theorems: `InvariantHolds`, `TypeCorrect`, `OnlyDelivered`,
  `LeftoversAreExact`. The last one needs the others: an entry is left behind
  for good only if its packet was counted while `pkt_sender` held it, and that
  no packet is counted before it was sent is `CountedWereSent`.
  With `SmallWindow`, the largest window below half of the sequence numbers, the count
  is also complete. `ExactInvariant` adds that the gate keeps what is sent within a
  window of `_largest_ack` (`WithinWindow`) and that every whole packet of what was
  reported is counted or about to be (`CountsAll`, while `Led`): a report is never so
  far ahead that it is taken for an old one. From it `ExactHolds`, `TimelySamples`,
  `NeverShutForGood` (without early acknowledgements the largest packet counted is
  `_largest_ack`, and the window is never below 2), and `RefinesWindow`: the socket
  implements `SlidingWindow`, with `CountPacket` and the reports as `Receive`.
* `VerusSocketProofs`. `VerusInvariant` holds for every delay, curve, order of
  acknowledgements and number of restarts. Up to the first restart
  `startingSeq` is `FirstSeq + seq * MTU`, so that what is counted was
  acknowledged, and acknowledgements are behind the record unless they overtook
  it; after any number of restarts the records are older than the packet in hand
  and the two lists are in order since they were cleared, although the receiver
  gives back a `restartLock` that it does not have. Theorems: `InvariantHolds`,
  `TypeCorrect`, `InFlightIsExact`, `OnlyDelivered`, `OrderOfRecords`.
  `FirstStartInvariant` is what holds up to the first restart. `SlowStartBound` is not
  inductive: `ALCCReceive` reads `wCrt`, then `tempS`, then adds, and the sender moves
  between. `PermitsBounded` says for each of these points that what is about to be
  added still fits. `CountsAll` and `ListsExact` (the lists hold exactly the packets
  sent and not taken off, with the time of the batch each was sent in) give
  `SamplesTimely`. Theorems: `FirstStartHolds`, `SlowStartBounded`, `TimelySamples`.
* `RTTWindowProofs`. `WindowInvariant` says that each deque stands for its live
  samples (ordered in time, no element worse than a later one, the front the
  extreme, every live sample covered by an element as good and as recent) and
  that `min_rtt` covers what the other windows cover. That needs the covering:
  the deque is enough after a cut at the front only because each sample dropped
  at the back had a successor that lives longer, whatever the period becomes.
  The lemmas follow one window through `Pushed` and `Cleared`. Theorems:
  `InvariantHolds`, `TypeCorrect`, `ExtremesExact`, `OrderHolds` (no negative
  queuing delay).
* `SeqDecode`. `CountIsForward`, with the integer widths of the code. For Verus,
  `VerusCountsOneWrap`: the count is right up to the second wrap of the sequence
  numbers; `VerusStopsAtSecondWrap`: from there on it is 0 for every
  acknowledgement, since `startingSeq` is past 2^32 and the correction adds 2^32
  once. A Verus connection stops after 4 to 8 GB.
* `SocketLifecycleProofs`. `TransferInvariant`: while bftpd serves a passive RETR,
  the descriptor is open on that connection and leads to its `ALCCSocket`
  (`OwnEntry`), and its packets are in its queue, its stream, or the hand of its
  `pkt_sender`, or still to be read (`NearlyComplete`, with "at least": the thread
  of an earlier connection may only add to the stream). Once `alcc_close` has seen
  the queue empty, what is missing is in the hand, and a hand holds one packet
  (`OneInHand`). `LifecycleInvariant` adds the account of all packets
  (`NothingDuplicated`), with what that needs: a socket that has a packet was given
  a descriptor (`OnDescriptor`), so that the packet goes to a stream. Theorems, for
  any number of connections and descriptors: `InvariantHolds`, `TypeCorrect`,
  `AtMostOnePacketMissing`, `OncePerPacket`. The lemmas on `Occurs` count a value in
  one sequence through the cardinality of its places. The account over all
  connections counts pairs of a connection and a place (`Places`) instead of adding
  up, which would be an induction: an append adds a pair, a `Tail` is a bijection of
  the pairs that stay.

`ExactInvariant` of `AlccSocket` and of `CopaSocket` and `FirstStartInvariant` are in
no run, since what they are for is (`CountsExactly`, `SamplesTimely`, `NeverShut`,
`SlowStartBound`). They hold on the instances of `AlccSocketWrap`, `CopaSocket` and
`VerusSocket` too when added to the `INVARIANTS` there.

Every invariant and every refinement that a passing run checks is proved. Only
model-checked are the liveness properties, as liveness under fairness is outside of
what the proof system does: `Progress` and `WaitsOnlyForPermits`, and what the
violated runs show. Nothing is proved of the Verus window after a restart beyond
`RecordsOrdered` and the types, since the counters are not right any more then
(section 3).

## 5. Not modelled

* Of Copa: `update_delta` and `is_copa`, which choose a mode from RTTs and clocks,
  the pacing of `pkt_sender`, and how the target window follows from the RTTs.
  They are floating-point decisions; what they decide (the window, when the sender
  goes on) may be anything in the model, so that the properties do not depend
  on them.
* Of Verus: how the delay estimate and the window follow from delays and curve,
  and the fit of the spline (alglib). The model leaves their outcomes open.
* Of the hook: the reports of two connections of a process at one receiver. The
  reports carry ports, and the receivers compare one of them with the fixed port
  60001; which of two receivers acts on a report is a matter of the ports bftpd is
  configured with and not of this code. That the second receiver of a process gets
  none is in `SocketLifecycle`.
* What a data race does to the inside of a `std::map`: undefined behaviour without
  outcomes to enumerate. Accesses are atomic in the models.
* The parts of bftpd that never touch the library, the third-party programs used
  for comparison (genericCC, sprout_alcc, native Verus and its Android client),
  scripts, traces and logging: they hold no state of this project. They and the
  vendored numerical library alglib, which the repository contains twice, are
  nearly all of its lines; the lines that the modules stand for are most of the
  three `libalcc` variants, of `rtt-window.cc` and of `alcc_kernel.c`, and the
  data connections of `commands.c`.
