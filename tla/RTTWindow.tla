----------------------------- MODULE RTTWindow -----------------------------
(***************************************************************************)
(* The delay estimates of Copa (libalcc/copa/rtt-window.cc).  An           *)
(* ExtremeWindow reports the smallest (or largest) RTT of the recent past  *)
(* without keeping every sample of it: it keeps a deque in which each      *)
(* sample is no worse than the next.  RTTWindow runs four of them on the   *)
(* same samples with periods that follow the smoothed RTT, so that a       *)
(* period may grow or shrink with every sample.                            *)
(*                                                                         *)
(* A window is a record of the fields of the class; one that is no         *)
(* parameter of the code, live, is the set of all samples that no call has *)
(* found too old, which the deque stands for.  Times are whole numbers     *)
(* (doubles, in milliseconds, in the code).                                *)
(***************************************************************************)
EXTENDS Integers, Sequences

CONSTANTS RTTs,         \* the values a sample may have
          Infinity,     \* numeric_limits<double>::max()
          Period,       \* the initial max_time, 10e3 in the code
          Span,         \* min_rtt covers this many of itself, 20 in the code
          Gaps,         \* times that may pass between two samples
          MaxSamples    \* samples in a behaviour (bounds it)

ASSUME WindowAssumption ==
    /\ RTTs \subseteq Nat \ {0}
    /\ Infinity \in Nat /\ \A r \in RTTs : r < Infinity
    /\ Period \in Nat /\ Span \in Nat
    /\ Gaps \subseteq Nat
    /\ MaxSamples \in Nat

VARIABLES srtt, min_rtt, unjittered_rtt, is_copa_min, is_copa_max,
          now,          \* the time of the latest sample
          samples       \* how many there have been

windows == <<min_rtt, unjittered_rtt, is_copa_min, is_copa_max>>
vars    == <<srtt, windows, now, samples>>

-----------------------------------------------------------------------------
(* ExtremeWindow.                                                          *)

\* a is further from the extreme the window looks for than b.
Worse(w, a, b) == IF w.find_min THEN a > b ELSE a < b

\* The double above 0 that the code starts a maximum from is 0 here.
NoSample(find_min) == IF find_min THEN Infinity ELSE 0

NewWindow(find_min) ==
    [find_min |-> find_min, max_time |-> Period, vals |-> <<>>,
     extreme |-> NoSample(find_min), live |-> {}]

Updated(w, vals, extreme, live) ==
    [w EXCEPT !.vals = vals, !.extreme = extreme, !.live = live]

Expired(w, s, time) == s.t < time - w.max_time

\* Mutations: a sample equal to the extreme is no reason to recompute; the
\* time of the front is taken for its value.
RecomputesStrictly(w, k) == \E i \in 1..k : Worse(w, w.extreme, w.vals[i].v)
FrontTime(w, k)          == w.vals[k + 1].t

\* Of the k samples popped from the front, one was as good as the extreme.
Recomputes(w, k) == \E i \in 1..k : ~ Worse(w, w.vals[i].v, w.extreme)

\* The front after that.
Front(w, k) == w.vals[k + 1].v

\* The k samples at the front are too old, and one is always left.
DropsFront(w, time, k) ==
    /\ \A i \in 1..k : Expired(w, w.vals[i], time)
    /\ k = Len(w.vals) - 1 \/ ~ Expired(w, w.vals[k + 1], time)

Cleared(w, time, k) ==
    Updated(w, SubSeq(w.vals, k + 1, Len(w.vals)),
               IF Recomputes(w, k) THEN Front(w, k) ELSE w.extreme,
               {s \in w.live : ~ Expired(w, s, time)})

clear_old_hist(w, time) ==
    {Cleared(w, time, k) :
     k \in {k \in 0..(Len(w.vals) - 1) : DropsFront(w, time, k)}}

\* Mutation: one worse sample is popped at most.
KeepsAllButOne(w, val, k) ==
    k = IF Len(w.vals) > 0 /\ Worse(w, w.vals[Len(w.vals)].v, val)
          THEN Len(w.vals) - 1 ELSE Len(w.vals)

\* All but the first k samples are worse than val.
KeepsFirst(w, val, k) ==
    /\ k > 0 => ~ Worse(w, w.vals[k].v, val)
    /\ \A i \in (k + 1)..Len(w.vals) : Worse(w, w.vals[i].v, val)

Pushed(w, k, s) ==
    Updated(w, Append(SubSeq(w.vals, 1, k), s),
               IF Worse(w, w.extreme, s.v) THEN s.v ELSE w.extreme,
               w.live \cup {s})

\* The windows new_sample may lead to: one, since k is unique in both places.
new_sample(w, val, time) ==
    UNION {clear_old_hist(Pushed(w, k, [t |-> time, v |-> val]), time) :
           k \in {k \in 0..Len(w.vals) : KeepsFirst(w, val, k)}}

-----------------------------------------------------------------------------
(* RTTWindow.                                                              *)

Least(a, b)    == IF a < b THEN a ELSE b
Greatest(a, b) == IF a > b THEN a ELSE b

Init == /\ srtt = 0
        /\ min_rtt = NewWindow(TRUE)
        /\ unjittered_rtt = NewWindow(TRUE)
        /\ is_copa_min = NewWindow(TRUE)
        /\ is_copa_max = NewWindow(FALSE)
        /\ now = 0 /\ samples = 0

\* A weighted average of the old srtt and the sample, the old srtt being the
\* sample if it was 0.  (The weights matter to no property.)
Smoothed(rtt) ==
    LET old == IF srtt = 0 THEN rtt ELSE srtt
    IN  {r \in RTTs : Least(old, rtt) <= r /\ r <= Greatest(old, rtt)}

\* Mutation: the period of an estimate is not capped by that of min_rtt.
Uncapped(a, b) == b

Capped(a, b) == Least(a, b)

With(w, t) == [w EXCEPT !.max_time = t]

new_rtt_sample(rtt, time) ==
    LET max_time == Greatest(Period, Span * min_rtt.extreme)
    IN  /\ srtt' \in Smoothed(rtt)
        /\ min_rtt' \in new_sample(With(min_rtt, max_time), rtt, time)
        /\ unjittered_rtt' \in
             new_sample(With(unjittered_rtt, Capped(max_time, srtt' \div 2)),
                        rtt, time)
        /\ is_copa_min' \in
             new_sample(With(is_copa_min, Capped(max_time, srtt' * 4)), rtt, time)
        /\ is_copa_max' \in
             new_sample(With(is_copa_max, Capped(max_time, srtt' * 4)), rtt, time)

\* onACK passes on the RTT it measured, and the time.  The windows are made for
\* times that do not decrease and for RTTs above 0, which is what is modelled.
\* libalcc_copa.cpp does not always keep to that: pkt_sender may set the clock
\* back between ack_receiver setting it and onACK reading it (CopaSocket).
Sample(rtt, gap) ==
    /\ samples < MaxSamples
    /\ samples' = samples + 1
    /\ now' = now + gap
    /\ new_rtt_sample(rtt, now')

\* The acknowledgements end.
Done == samples = MaxSamples /\ UNCHANGED vars

Next == (\E rtt \in RTTs, gap \in Gaps : Sample(rtt, gap)) \/ Done

Spec == Init /\ [][Next]_vars

-----------------------------------------------------------------------------
(* Properties.                                                             *)

Samples == [t : Nat, v : RTTs]

WindowType(find_min) ==
    [find_min : {find_min}, max_time : Nat, vals : Seq(Samples),
     extreme : RTTs \cup {NoSample(find_min)}, live : SUBSET Samples]

TypeOK ==
    /\ srtt \in Nat /\ now \in Nat /\ samples \in Nat
    /\ min_rtt \in WindowType(TRUE)
    /\ unjittered_rtt \in WindowType(TRUE)
    /\ is_copa_min \in WindowType(TRUE)
    /\ is_copa_max \in WindowType(FALSE)

\* The extreme a window reports is that of all the samples it has not found
\* too old, those included that it popped from the deque (rtt-window.cc:36).
Reports(w) ==
    IF w.live = {} THEN w.extreme = NoSample(w.find_min)
    ELSE /\ \E s \in w.live : s.v = w.extreme
         /\ \A s \in w.live : ~ Worse(w, w.extreme, s.v)

ReportsExtreme == /\ Reports(min_rtt) /\ Reports(unjittered_rtt)
                  /\ Reports(is_copa_min) /\ Reports(is_copa_max)

\* The queuing delay that Copa derives from two of the estimates, rtt - min_rtt,
\* is never negative, and neither is the spread that is_copa derives
\* (libalcc_copa.cpp:457 has the first as an assertion, commented out).
EstimatesOrdered ==
    /\ min_rtt.extreme <= unjittered_rtt.extreme
    /\ samples > 0 => /\ min_rtt.extreme <= is_copa_min.extreme
                      /\ is_copa_min.extreme <= is_copa_max.extreme

\* The deque stands for the live samples: it is in order of time, no sample is
\* worse than a later one, the front is the extreme, and every live sample has
\* one in the deque that is as good and as recent.
DequeStandsForLive(w, time) ==
    /\ w.live = {} => w.vals = <<>> /\ w.extreme = NoSample(w.find_min)
    /\ w.live # {} => w.vals # <<>> /\ w.extreme = w.vals[1].v
    /\ \A i, j \in 1..Len(w.vals) :
         i <= j => /\ w.vals[i].t <= w.vals[j].t
                   /\ ~ Worse(w, w.vals[i].v, w.vals[j].v)
    /\ \A i \in 1..Len(w.vals) : w.vals[i] \in w.live
    /\ \A s \in w.live :
         \E i \in 1..Len(w.vals) :
           s.t <= w.vals[i].t /\ ~ Worse(w, w.vals[i].v, s.v)
    /\ \A s \in w.live : s.t <= time

\* A sample an estimate still covers is covered by min_rtt as well.
LiveInMin == /\ unjittered_rtt.live \subseteq min_rtt.live
             /\ is_copa_min.live \subseteq min_rtt.live
             /\ is_copa_max.live = is_copa_min.live
             /\ samples > 0 => unjittered_rtt.live # {} /\ is_copa_min.live # {}

\* The inductive invariant.
WindowInvariant ==
    /\ TypeOK
    /\ DequeStandsForLive(min_rtt, now)
    /\ DequeStandsForLive(unjittered_rtt, now)
    /\ DequeStandsForLive(is_copa_min, now)
    /\ DequeStandsForLive(is_copa_max, now)
    /\ LiveInMin
=============================================================================
