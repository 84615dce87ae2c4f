-------------------------- MODULE RTTWindowProofs --------------------------
(***************************************************************************)
(* WindowInvariant of RTTWindow is inductive, for any samples and any       *)
(* periods.                                                                *)
(***************************************************************************)
EXTENDS RTTWindow, SequenceTheorems, TLAPS

USE WindowAssumption

-----------------------------------------------------------------------------
(* Sequences.                                                              *)

\* What new_sample leaves of the deque, and adds to it.
LEMMA PushedSeq ==
  ASSUME NEW S, NEW v \in Seq(S), NEW s \in S, NEW k \in 0..Len(v),
         NEW q, q = Append(SubSeq(v, 1, k), s)
  PROVE  /\ q \in Seq(S) /\ Len(q) = k + 1
         /\ \A i \in 1..k : q[i] = v[i]
         /\ q[k + 1] = s
<1> DEFINE p == SubSeq(v, 1, k)
<1>1. \A i \in 1..k : v[i] \in S
  OBVIOUS
<1>2. /\ p \in Seq(S) /\ Len(p) = k
      /\ \A i \in 1..k : p[i] = v[i]
  BY <1>1, SubSeqProperties, SMT
<1>3. QED
  BY <1>2, AppendProperties

\* What clear_old_hist leaves of it.
LEMMA RestSeq ==
  ASSUME NEW S, NEW v \in Seq(S), NEW k \in 0..(Len(v) - 1),
         NEW q, q = SubSeq(v, k + 1, Len(v))
  PROVE  /\ q \in Seq(S) /\ Len(q) = Len(v) - k
         /\ \A i \in 1..(Len(v) - k) : q[i] = v[k + i]
<1>1. Len(v) \in Nat /\ \A i \in (k + 1)..Len(v) : v[i] \in S
  OBVIOUS
<1>2. QED
  BY <1>1, SubSeqProperties, SMT

-----------------------------------------------------------------------------
(* One window.                                                             *)

\* Worse is a strict order whose incomparable values are equal.
LEMMA WorseOrder ==
  ASSUME NEW fm \in BOOLEAN, NEW w, w.find_min = fm,
         NEW a \in Nat, NEW b \in Nat, NEW c \in Nat
  PROVE  /\ ~ Worse(w, a, a)
         /\ Worse(w, a, b) => ~ Worse(w, b, a)
         /\ ~ Worse(w, a, b) /\ ~ Worse(w, b, c) => ~ Worse(w, a, c)
         /\ ~ Worse(w, a, b) /\ ~ Worse(w, b, a) => a = b
<1>1. CASE fm = TRUE
  BY <1>1, SMT DEF Worse
<1>2. CASE fm = FALSE
  BY <1>2, SMT DEF Worse
<1>3. QED
  BY <1>1, <1>2

\* Any sample is better than none.
LEMMA AnyBeatsNone ==
  ASSUME NEW fm \in BOOLEAN, NEW w, w.find_min = fm, NEW val \in RTTs
  PROVE  Worse(w, NoSample(fm), val)
<1>1. CASE fm = TRUE
  BY <1>1, SMT DEF Worse, NoSample
<1>2. CASE fm = FALSE
  BY <1>2, SMT DEF Worse, NoSample
<1>3. QED
  BY <1>1, <1>2

\* What the type says of a window.
LEMMA WindowFields ==
  ASSUME NEW fm \in BOOLEAN, NEW w \in WindowType(fm)
  PROVE  /\ w.find_min = fm /\ w.max_time \in Nat
         /\ w.vals \in Seq(Samples) /\ Len(w.vals) \in Nat
         /\ w.extreme \in RTTs \cup {NoSample(fm)} /\ w.extreme \in Nat
         /\ w.live \in SUBSET Samples
         /\ \A x \in Samples : x.t \in Nat /\ x.v \in RTTs /\ x.v \in Nat
         /\ \A i \in 1..Len(w.vals) : w.vals[i] \in Samples
         /\ \A x \in w.live : x \in Samples
<1>1. /\ w.find_min = fm /\ w.max_time \in Nat
      /\ w.vals \in Seq(Samples)
      /\ w.extreme \in RTTs \cup {NoSample(fm)}
      /\ w.live \in SUBSET Samples
  BY DEF WindowType
<1>2. NoSample(fm) \in Nat
  BY SMT DEF NoSample
<1>3. \A x \in Samples : x.t \in Nat /\ x.v \in RTTs /\ x.v \in Nat
  <2> SUFFICES ASSUME NEW x \in Samples PROVE x.t \in Nat /\ x.v \in RTTs
    BY WindowAssumption
  <2> QED
    BY DEF Samples
<1>4. Len(w.vals) \in Nat /\ \A i \in 1..Len(w.vals) : w.vals[i] \in Samples
  BY <1>1, ElementOfSeq, LenProperties
<1>5. w.extreme \in Nat
  BY <1>1, <1>2, WindowAssumption
<1>6. QED
  BY <1>1, <1>3, <1>4, <1>5

\* A window with a new deque, extreme and live samples.
LEMMA UpdatedFields ==
  ASSUME NEW fm \in BOOLEAN, NEW w \in WindowType(fm), NEW v, NEW e, NEW l
  PROVE  /\ Updated(w, v, e, l).find_min = fm
         /\ Updated(w, v, e, l).max_time = w.max_time
         /\ Updated(w, v, e, l).vals = v
         /\ Updated(w, v, e, l).extreme = e
         /\ Updated(w, v, e, l).live = l
BY DEF Updated, WindowType

\* A window with a new deque and extreme has the type of a window.
LEMMA UpdatedType ==
  ASSUME NEW fm \in BOOLEAN, NEW w \in WindowType(fm),
         NEW v \in Seq(Samples), NEW e \in RTTs \cup {NoSample(fm)},
         NEW l \in SUBSET Samples
  PROVE  Updated(w, v, e, l) \in WindowType(fm)
BY DEF Updated, WindowType

\* A window that has popped what is worse and pushed a sample of the present
\* stands for the live samples and that one.
LEMMA PushKeeps ==
  ASSUME NEW fm \in BOOLEAN, NEW w \in WindowType(fm), NEW s \in Samples,
         DequeStandsForLive(w, s.t),
         NEW k \in 0..Len(w.vals), KeepsFirst(w, s.v, k)
  PROVE  /\ Pushed(w, k, s) \in WindowType(fm)
         /\ Pushed(w, k, s).max_time = w.max_time
         /\ DequeStandsForLive(Pushed(w, k, s), s.t)
         /\ Pushed(w, k, s).live = w.live \cup {s}
         /\ Pushed(w, k, s).vals[Len(Pushed(w, k, s).vals)] = s
<1> DEFINE p == Pushed(w, k, s)
           time == s.t
           val == s.v
<1> DEFINE n == Len(w.vals)
<1>1. s \in Samples /\ s.t = time /\ s.v = val /\ time \in Nat /\ val \in RTTs
  BY DEF Samples
<1>2. val \in Nat
  BY <1>1, WindowAssumption
<1>3. /\ w.find_min = fm /\ w.max_time \in Nat
      /\ w.vals \in Seq(Samples) /\ n \in Nat
      /\ w.extreme \in RTTs \cup {NoSample(fm)} /\ w.extreme \in Nat
      /\ w.live \in SUBSET Samples
      /\ \A x \in Samples : x.t \in Nat /\ x.v \in RTTs /\ x.v \in Nat
      /\ \A i \in 1..n : w.vals[i] \in Samples
      /\ \A x \in w.live : x \in Samples
  BY WindowFields
<1> HIDE DEF n
<1>4. /\ k \in Nat /\ k <= n /\ k \in 0..n
      /\ \A i \in 1..k : i \in 1..n
      /\ k > 0 => k \in 1..k /\ k \in 1..n /\ 1 \in 1..k
      /\ \A i \in 1..(k + 1) : i \in 1..k \/ i = k + 1
      /\ \A i \in 1..n : i \in 1..k \/ i \in (k + 1)..n
      /\ 1 \in 1..(k + 1) /\ k + 1 \in 1..(k + 1)
      /\ \A i \in 1..k : i \in 1..(k + 1)
  BY <1>3, SMT DEF n
<1>5. /\ w.live = {} => w.vals = <<>> /\ w.extreme = NoSample(fm)
      /\ w.live # {} => w.vals # <<>> /\ w.extreme = w.vals[1].v
      /\ \A i, j \in 1..n :
           i <= j => /\ w.vals[i].t <= w.vals[j].t
                     /\ ~ Worse(w, w.vals[i].v, w.vals[j].v)
      /\ \A i \in 1..n : w.vals[i] \in w.live
      /\ \A x \in w.live :
           \E i \in 1..n : x.t <= w.vals[i].t /\ ~ Worse(w, w.vals[i].v, x.v)
      /\ \A x \in w.live : x.t <= time
  BY <1>3 DEF DequeStandsForLive, n
<1>6. /\ k > 0 => ~ Worse(w, w.vals[k].v, val)
      /\ \A i \in (k + 1)..n : Worse(w, w.vals[i].v, val)
  BY DEF KeepsFirst, n
<1>7. /\ p.find_min = fm /\ p.max_time = w.max_time
      /\ p.vals = Append(SubSeq(w.vals, 1, k), s)
      /\ p.extreme = IF Worse(w, w.extreme, val) THEN val ELSE w.extreme
      /\ p.live = w.live \cup {s}
      /\ p = Updated(w, p.vals, p.extreme, p.live)
  <2> DEFINE v == Append(SubSeq(w.vals, 1, k), s)
             e == IF Worse(w, w.extreme, val) THEN val ELSE w.extreme
             l == w.live \cup {s}
  <2>1. p = Updated(w, v, e, l)
    BY DEF Pushed
  <2> HIDE DEF p, v, e, l
  <2>2. /\ p.find_min = fm /\ p.max_time = w.max_time
        /\ p.vals = v /\ p.extreme = e /\ p.live = l
    BY <2>1, UpdatedFields
  <2>3. QED
    BY <2>1, <2>2, Zenon DEF v, e, l
<1>d. DequeStandsForLive(w, time) /\ KeepsFirst(w, val, k)
  OBVIOUS
<1> HIDE DEF p, time, val
<1>8. /\ p.vals \in Seq(Samples) /\ Len(p.vals) = k + 1
      /\ \A i \in 1..k : p.vals[i] = w.vals[i]
      /\ p.vals[k + 1] = s
  <2> DEFINE q == p.vals
  <2>1. q = Append(SubSeq(w.vals, 1, k), s)
    BY <1>7
  <2> HIDE DEF q
  <2>2. /\ q \in Seq(Samples) /\ Len(q) = k + 1
        /\ \A i \in 1..k : q[i] = w.vals[i]
        /\ q[k + 1] = s
    BY <1>1, <1>3, <2>1, PushedSeq
  <2>3. QED
    BY <2>2 DEF q
<1>9. p \in WindowType(fm)
  <2>1. p.extreme \in RTTs \cup {NoSample(fm)}
    BY <1>1, <1>3, <1>7
  <2>2. p.live \in SUBSET Samples
    BY <1>1, <1>3, <1>7
  <2>3. Updated(w, p.vals, p.extreme, p.live) \in WindowType(fm)
    BY <1>8, <2>1, <2>2, UpdatedType
  <2>4. QED
    BY <1>7, <2>3, Zenon
<1>10. \A a, b : Worse(p, a, b) <=> Worse(w, a, b)
  BY <1>3, <1>7, Zenon DEF Worse
<1>11. /\ \A i \in 1..n : w.vals[i].v \in Nat /\ w.vals[i].t \in Nat
       /\ \A i \in 1..n : w.vals[i].t <= time
       /\ \A x \in w.live : x.v \in Nat /\ x.t \in Nat /\ x.t <= time
  <2>1. \A x \in w.live : x.v \in Nat /\ x.t \in Nat /\ x.t <= time
    <3> SUFFICES ASSUME NEW x \in w.live
                 PROVE  x.v \in Nat /\ x.t \in Nat /\ x.t <= time
      OBVIOUS
    <3>1. QED
      BY <1>3, <1>5
  <2>2. QED
    BY <1>5, <2>1
<1>12. \A i \in 1..k : ~ Worse(w, w.vals[i].v, val)
  <2> SUFFICES ASSUME NEW i \in 1..k PROVE ~ Worse(w, w.vals[i].v, val)
    OBVIOUS
  <2>1. k > 0 /\ i <= k
    BY <1>4, SMT
  <2>2. ~ Worse(w, w.vals[i].v, w.vals[k].v) /\ ~ Worse(w, w.vals[k].v, val)
    BY <1>4, <1>5, <1>6, <2>1
  <2>3. w.vals[i].v \in Nat /\ w.vals[k].v \in Nat
    BY <1>4, <1>11, <2>1
  <2>4. QED
    BY <1>2, <1>3, <2>2, <2>3, WorseOrder
<1>13. p.extreme = p.vals[1].v
  <2>1. CASE w.live = {}
    <3>1. n = 0
      BY <1>5, <2>1, SMT DEF n
    <3>2. k = 0
      BY <1>4, <3>1, SMT
    <3>3. Worse(w, w.extreme, val)
      BY <1>1, <1>3, <1>5, <2>1, AnyBeatsNone
    <3>4. p.vals[1] = s
      BY <1>8, <3>2
    <3>5. QED
      BY <1>1, <1>7, <3>3, <3>4
  <2>2. CASE w.live # {} /\ k > 0
    <3>1. w.extreme = w.vals[1].v /\ p.vals[1] = w.vals[1]
      BY <1>4, <1>5, <1>8, <2>2
    <3>2. ~ Worse(w, w.extreme, val)
      BY <1>4, <1>12, <2>2, <3>1
    <3>3. QED
      BY <1>7, <3>1, <3>2
  <2>3. CASE w.live # {} /\ k = 0
    <3>1. n # 0
      BY <1>3, <1>5, <2>3, EmptySeq DEF n
    <3>2. 1 \in (k + 1)..n
      BY <1>3, <2>3, <3>1, SMT
    <3>3. Worse(w, w.extreme, val)
      BY <1>5, <1>6, <2>3, <3>2
    <3>4. p.vals[1] = s
      BY <1>8, <2>3
    <3>5. QED
      BY <1>1, <1>7, <3>3, <3>4
  <2>4. k > 0 \/ k = 0
    BY <1>4, SMT
  <2>5. QED
    BY <2>1, <2>2, <2>3, <2>4
<1>14. ASSUME NEW i \in 1..(k + 1), NEW j \in 1..(k + 1), i <= j
       PROVE  /\ p.vals[i].t <= p.vals[j].t
              /\ ~ Worse(w, p.vals[i].v, p.vals[j].v)
  <2>1. CASE j \in 1..k
    <3>1. i \in 1..k
      BY <1>4, <1>14, <2>1, SMT
    <3>2. i \in 1..n /\ j \in 1..n
      BY <1>4, <2>1, <3>1
    <3>3. QED
      BY <1>5, <1>8, <1>14, <2>1, <3>1, <3>2
  <2>2. CASE j = k + 1 /\ i \in 1..k
    <3>1. i \in 1..n
      BY <1>4, <2>2
    <3>2. QED
      BY <1>1, <1>8, <1>11, <1>12, <2>2, <3>1
  <2>3. CASE j = k + 1 /\ i = k + 1
    <3>1. p.vals[i] = s /\ p.vals[j] = s
      BY <1>8, <2>3
    <3>2. ~ Worse(w, val, val)
      BY <1>2, <1>3, WorseOrder
    <3>3. time <= time
      BY <1>1, SMT
    <3>4. QED
      BY <1>1, <3>1, <3>2, <3>3
  <2>4. QED
    BY <1>4, <2>1, <2>2, <2>3
<1>15. ASSUME NEW i \in 1..(k + 1)
       PROVE  p.vals[i] \in p.live
  BY <1>4, <1>5, <1>7, <1>8
<1>16. ASSUME NEW x \in p.live
       PROVE  \E i \in 1..(k + 1) :
                x.t <= p.vals[i].t /\ ~ Worse(w, p.vals[i].v, x.v)
  <2>1. ASSUME x.t <= time, ~ Worse(w, val, x.v)
        PROVE  \E i \in 1..(k + 1) :
                 x.t <= p.vals[i].t /\ ~ Worse(w, p.vals[i].v, x.v)
    BY <1>1, <1>4, <1>8, <2>1
  <2>2. CASE x = s
    <3>1. time <= time
      BY <1>1, SMT
    <3>2. ~ Worse(w, val, val)
      BY <1>2, <1>3, WorseOrder
    <3>3. QED
      BY <1>1, <2>1, <2>2, <3>1, <3>2
  <2>3. CASE x \in w.live
    <3>1. PICK i \in 1..n : x.t <= w.vals[i].t /\ ~ Worse(w, w.vals[i].v, x.v)
      BY <1>5, <2>3
    <3>2. CASE i \in 1..k
      BY <1>4, <1>8, <3>1, <3>2
    <3>3. CASE i \in (k + 1)..n
      <4>1. Worse(w, w.vals[i].v, val)
        BY <1>6, <3>3
      <4>2. w.vals[i].v \in Nat /\ x.v \in Nat /\ x.t <= time
        BY <1>11, <2>3
      <4>3. ~ Worse(w, val, x.v)
        BY <1>2, <1>3, <3>1, <4>1, <4>2, WorseOrder
      <4>4. QED
        BY <2>1, <4>2, <4>3
    <3>4. QED
      BY <1>4, <3>2, <3>3
  <2>4. QED
    BY <1>7, <2>2, <2>3
<1>17. \A x \in p.live : x.t <= time
  <2>1. time <= time
    BY <1>1, SMT
  <2>2. QED
    BY <1>1, <1>7, <1>11, <2>1
<1>18. p.live # {} /\ p.vals # <<>>
  <2>1. p.vals # <<>>
    BY <1>4, <1>8, SMT
  <2>2. QED
    BY <1>7, <2>1
<1>19. DequeStandsForLive(p, time)
  <2>1. \A i, j \in 1..Len(p.vals) :
          i <= j => /\ p.vals[i].t <= p.vals[j].t
                    /\ ~ Worse(p, p.vals[i].v, p.vals[j].v)
    BY <1>8, <1>10, <1>14
  <2>2. \A i \in 1..Len(p.vals) : p.vals[i] \in p.live
    BY <1>8, <1>15
  <2>3. \A x \in p.live : \E i \in 1..Len(p.vals) :
          x.t <= p.vals[i].t /\ ~ Worse(p, p.vals[i].v, x.v)
    BY <1>8, <1>10, <1>16
  <2>4. QED
    BY <1>13, <1>17, <1>18, <2>1, <2>2, <2>3 DEF DequeStandsForLive
<1>20. QED
  BY <1>7, <1>8, <1>9, <1>19 DEF p, time

\* A window stands for its live samples at any later time.
LEMMA StandsLater ==
  ASSUME NEW fm \in BOOLEAN, NEW w \in WindowType(fm),
         NEW before \in Nat, NEW time \in Nat, before <= time,
         DequeStandsForLive(w, before)
  PROVE  DequeStandsForLive(w, time)
<1>1. \A x \in w.live : x.t <= time
  <2> SUFFICES ASSUME NEW x \in w.live PROVE x.t <= time
    OBVIOUS
  <2>1. x.t \in Nat /\ x.t <= before
    BY WindowFields DEF DequeStandsForLive
  <2>2. QED
    BY <2>1, SMT
<1>2. QED
  BY <1>1 DEF DequeStandsForLive

\* A sample is not too old if an earlier one is not.
LEMMA NotOlder ==
  ASSUME NEW a \in Nat, NEW b \in Nat, NEW time \in Nat, NEW m \in Nat,
         a <= b, ~ (a < time - m)
  PROVE  ~ (b < time - m)
BY SMT

\* A window that has dropped what is too old stands for the live samples that
\* are not, if its last sample is of the present.
LEMMA ClearKeeps ==
  ASSUME NEW fm \in BOOLEAN, NEW w \in WindowType(fm), NEW time \in Nat,
         DequeStandsForLive(w, time),
         w.vals[Len(w.vals)].t = time,
         NEW k \in 0..(Len(w.vals) - 1), DropsFront(w, time, k),
         NEW c, c = Cleared(w, time, k)
  PROVE  /\ c \in WindowType(fm) /\ c.max_time = w.max_time
         /\ DequeStandsForLive(c, time)
         /\ c.live = {x \in w.live : ~ Expired(w, x, time)}
         /\ c.live # {}
<1> DEFINE n == Len(w.vals)
           m == n - k
<1>1. /\ w.find_min = fm /\ w.max_time \in Nat
      /\ w.vals \in Seq(Samples) /\ n \in Nat
      /\ w.extreme \in RTTs \cup {NoSample(fm)} /\ w.extreme \in Nat
      /\ w.live \in SUBSET Samples
      /\ \A x \in Samples : x.t \in Nat /\ x.v \in RTTs /\ x.v \in Nat
      /\ \A i \in 1..n : w.vals[i] \in Samples
      /\ \A x \in w.live : x \in Samples
  BY WindowFields
<1>2. /\ w.live = {} => w.vals = <<>> /\ w.extreme = NoSample(fm)
      /\ w.live # {} => w.vals # <<>> /\ w.extreme = w.vals[1].v
      /\ \A i, j \in 1..n :
           i <= j => /\ w.vals[i].t <= w.vals[j].t
                     /\ ~ Worse(w, w.vals[i].v, w.vals[j].v)
      /\ \A i \in 1..n : w.vals[i] \in w.live
      /\ \A x \in w.live :
           \E i \in 1..n : x.t <= w.vals[i].t /\ ~ Worse(w, w.vals[i].v, x.v)
      /\ \A x \in w.live : x.t <= time
  BY <1>1 DEF DequeStandsForLive
<1>3. /\ \A i \in 1..k : Expired(w, w.vals[i], time)
      /\ k = n - 1 \/ ~ Expired(w, w.vals[k + 1], time)
  BY DEF DropsFront
<1>4. w.vals[n].t = time /\ k \in 0..(n - 1)
  OBVIOUS
<1>5. /\ c.find_min = fm /\ c.max_time = w.max_time
      /\ c.vals = SubSeq(w.vals, k + 1, n)
      /\ c.extreme = IF Recomputes(w, k) THEN Front(w, k) ELSE w.extreme
      /\ c.live = {x \in w.live : ~ Expired(w, x, time)}
      /\ c = Updated(w, c.vals, c.extreme, c.live)
  <2> DEFINE v == SubSeq(w.vals, k + 1, n)
             e == IF Recomputes(w, k) THEN Front(w, k) ELSE w.extreme
             l == {x \in w.live : ~ Expired(w, x, time)}
  <2>1. c = Updated(w, v, e, l)
    BY DEF Cleared
  <2> HIDE DEF v, e, l
  <2>2. /\ c.find_min = fm /\ c.max_time = w.max_time
        /\ c.vals = v /\ c.extreme = e /\ c.live = l
    BY <2>1, UpdatedFields
  <2>3. QED
    BY <2>1, <2>2, Zenon DEF v, e, l
<1>6. c.vals \in Seq(Samples) /\ Len(c.vals) = m
      /\ \A i \in 1..m : c.vals[i] = w.vals[k + i]
  <2> DEFINE q == c.vals
  <2>1. q = SubSeq(w.vals, k + 1, Len(w.vals))
    BY <1>5
  <2> HIDE DEF q
  <2>2. /\ q \in Seq(Samples) /\ Len(q) = Len(w.vals) - k
        /\ \A i \in 1..(Len(w.vals) - k) : q[i] = w.vals[k + i]
    BY <1>1, <2>1, RestSeq
  <2>3. QED
    BY <2>2 DEF q
<1> HIDE DEF n
<1>7. /\ k \in Nat /\ m \in Nat /\ m > 0
      /\ 1 \in 1..n /\ n \in 1..n /\ k + 1 \in 1..n /\ 1 \in 1..m /\ k + 1 <= n
      /\ \A i \in 1..m : k + i \in 1..n /\ k + 1 <= k + i
      /\ \A i, j \in 1..m : i <= j => k + i <= k + j
      /\ \A i \in 1..n : i \in 1..k \/ (i - k \in 1..m /\ k + (i - k) = i)
      /\ k > 0 => 1 \in 1..k
  BY <1>1, <1>4, SMT
<1> HIDE DEF m
<1>8. \A i \in 1..n : w.vals[i].v \in Nat /\ w.vals[i].t \in Nat
  BY <1>1
<1>9. ~ Expired(w, w.vals[k + 1], time)
  <2>1. CASE k = n - 1
    <3>1. k + 1 = n
      BY <1>1, <2>1, SMT
    <3>2. ~ (time < time - w.max_time)
      BY <1>1, SMT
    <3>3. QED
      BY <1>4, <3>1, <3>2 DEF Expired
  <2>2. QED
    BY <1>3, <2>1
<1>10. ASSUME NEW i \in 1..m
       PROVE  ~ Expired(w, w.vals[k + i], time)
  <2>1. w.vals[k + 1].t <= w.vals[k + i].t
    BY <1>2, <1>7
  <2>2. w.vals[k + 1].t \in Nat /\ w.vals[k + i].t \in Nat
    BY <1>7, <1>8
  <2>3. ~ (w.vals[k + 1].t < time - w.max_time)
    BY <1>9 DEF Expired
  <2>4. ~ (w.vals[k + i].t < time - w.max_time)
    BY <1>1, <2>1, <2>2, <2>3, NotOlder
  <2>5. QED
    BY <2>4 DEF Expired
<1>11. w.live # {} /\ w.extreme = w.vals[1].v
  BY <1>2, <1>7
<1>12. c.extreme = w.vals[k + 1].v
  <2>1. CASE k > 0
    <3>1. ~ Worse(w, w.vals[1].v, w.extreme)
      BY <1>1, <1>11, WorseOrder
    <3>2. Recomputes(w, k)
      BY <1>7, <2>1, <3>1 DEF Recomputes
    <3>3. QED
      BY <1>5, <3>2 DEF Front
  <2>2. CASE k = 0
    <3>1. k + 1 = 1
      BY <2>2, SMT
    <3>2. QED
      BY <1>5, <1>11, <3>1 DEF Front
  <2>3. QED
    BY <1>7, <2>1, <2>2, SMT
<1>13. c.vals[1] = w.vals[k + 1]
  BY <1>6, <1>7
<1>14. c \in WindowType(fm)
  <2>1. c.extreme \in RTTs
    BY <1>1, <1>7, <1>12
  <2>2. c.live \in SUBSET Samples
    BY <1>1, <1>5
  <2>3. Updated(w, c.vals, c.extreme, c.live) \in WindowType(fm)
    BY <1>6, <2>1, <2>2, UpdatedType
  <2>4. QED
    BY <1>5, <2>3, Zenon
<1>15. \A a, b : Worse(c, a, b) <=> Worse(w, a, b)
  BY <1>1, <1>5, Zenon DEF Worse
<1>16. \A i \in 1..m : c.vals[i] \in c.live
  BY <1>2, <1>5, <1>6, <1>7, <1>10
<1>17. c.live # {} /\ c.vals # <<>>
  <2>1. c.vals # <<>>
    BY <1>6, <1>7, SMT
  <2>2. QED
    BY <1>7, <1>16, <2>1
<1>18. \A i, j \in 1..m :
         i <= j => /\ c.vals[i].t <= c.vals[j].t
                   /\ ~ Worse(w, c.vals[i].v, c.vals[j].v)
  <2> SUFFICES ASSUME NEW i \in 1..m, NEW j \in 1..m, i <= j
               PROVE  /\ c.vals[i].t <= c.vals[j].t
                      /\ ~ Worse(w, c.vals[i].v, c.vals[j].v)
    OBVIOUS
  <2>1. k + i \in 1..n /\ k + j \in 1..n /\ k + i <= k + j
    BY <1>7
  <2>2. c.vals[i] = w.vals[k + i] /\ c.vals[j] = w.vals[k + j]
    BY <1>6
  <2>3. QED
    BY <1>2, <2>1, <2>2
<1>19. ASSUME NEW x \in c.live
       PROVE  \E i \in 1..m :
                x.t <= c.vals[i].t /\ ~ Worse(w, c.vals[i].v, x.v)
  <2>1. x \in w.live /\ ~ (x.t < time - w.max_time) /\ x.t \in Nat
    BY <1>1, <1>5 DEF Expired
  <2>2. PICK i \in 1..n : x.t <= w.vals[i].t /\ ~ Worse(w, w.vals[i].v, x.v)
    BY <1>2, <2>1
  <2>3. CASE i \in 1..k
    <3>1. w.vals[i].t < time - w.max_time
      BY <1>3, <2>3 DEF Expired
    <3>2. w.vals[i].t \in Nat
      BY <1>8
    <3>3. QED
      BY <1>1, <2>1, <2>2, <3>1, <3>2, SMT
  <2>4. CASE i - k \in 1..m /\ k + (i - k) = i
    <3>1. c.vals[i - k] = w.vals[i]
      BY <1>6, <2>4
    <3>2. QED
      BY <2>2, <2>4, <3>1
  <2>5. QED
    BY <1>7, <2>3, <2>4
<1>20. DequeStandsForLive(c, time)
  <2>1. \A i, j \in 1..Len(c.vals) :
          i <= j => /\ c.vals[i].t <= c.vals[j].t
                    /\ ~ Worse(c, c.vals[i].v, c.vals[j].v)
    BY <1>6, <1>15, <1>18
  <2>2. \A i \in 1..Len(c.vals) : c.vals[i] \in c.live
    BY <1>6, <1>16
  <2>3. \A x \in c.live : \E i \in 1..Len(c.vals) :
          x.t <= c.vals[i].t /\ ~ Worse(c, c.vals[i].v, x.v)
    BY <1>6, <1>15, <1>19
  <2>4. \A x \in c.live : x.t <= time
    BY <1>2, <1>5
  <2>5. QED
    BY <1>12, <1>13, <1>17, <2>1, <2>2, <2>3, <2>4 DEF DequeStandsForLive
<1>21. QED
  BY <1>5, <1>14, <1>17, <1>20

\* new_sample: the window stands for the samples it stood for and the new one,
\* less those that are too old.
LEMMA NewSampleKeeps ==
  ASSUME NEW fm \in BOOLEAN, NEW w \in WindowType(fm),
         NEW val \in RTTs, NEW time \in Nat,
         DequeStandsForLive(w, time),
         NEW w2 \in new_sample(w, val, time)
  PROVE  /\ w2 \in WindowType(fm) /\ w2.max_time = w.max_time
         /\ DequeStandsForLive(w2, time)
         /\ w2.live = {x \in w.live \cup {[t |-> time, v |-> val]} :
                         ~ Expired(w, x, time)}
         /\ w2.live # {}
<1> DEFINE s == [t |-> time, v |-> val]
<1>1. PICK k \in 0..Len(w.vals) :
        KeepsFirst(w, val, k) /\ w2 \in clear_old_hist(Pushed(w, k, s), time)
  BY Zenon DEF new_sample
<1>s. s \in Samples /\ s.t = time /\ s.v = val
  BY DEF Samples
<1>e. s = [t |-> time, v |-> val]
  OBVIOUS
<1> HIDE DEF s
<1> DEFINE p == Pushed(w, k, s)
<1>2. PICK j \in 0..(Len(p.vals) - 1) :
        DropsFront(p, time, j) /\ w2 = Cleared(p, time, j)
  BY <1>1, Zenon DEF clear_old_hist
<1>3. /\ p \in WindowType(fm) /\ p.max_time = w.max_time
      /\ DequeStandsForLive(p, time)
      /\ p.live = w.live \cup {s}
      /\ p.vals[Len(p.vals)] = s
  <2>1. DequeStandsForLive(w, s.t)
    BY <1>s
  <2>2. QED
    BY <1>1, <1>s, <2>1, PushKeeps
<1> HIDE DEF p
<1>4. p.vals[Len(p.vals)].t = time
  BY <1>3, <1>s
<1>5. /\ w2 \in WindowType(fm) /\ w2.max_time = p.max_time
      /\ DequeStandsForLive(w2, time)
      /\ w2.live = {x \in p.live : ~ Expired(p, x, time)}
      /\ w2.live # {}
  <2>1. j \in 0..(Len(p.vals) - 1) /\ DropsFront(p, time, j)
        /\ w2 = Cleared(p, time, j)
    BY <1>2
  <2>2. QED
    BY <1>3, <1>4, <2>1, ClearKeeps
<1>6. \A x : Expired(p, x, time) <=> Expired(w, x, time)
  BY <1>3 DEF Expired
<1>7. QED
  BY <1>3, <1>5, <1>6, <1>e

-----------------------------------------------------------------------------
(* The four windows.                                                       *)

\* The product in the period of min_rtt is a natural number.
LEMMA ProductNat ==
  ASSUME NEW a \in Nat, NEW b \in Nat
  PROVE  a * b \in Nat
OBVIOUS

\* A window of type and sense, whose period is changed.
LEMMA WithKeeps ==
  ASSUME NEW fm \in BOOLEAN, NEW w \in WindowType(fm), NEW t \in Nat,
         NEW time, DequeStandsForLive(w, time)
  PROVE  /\ With(w, t) \in WindowType(fm) /\ With(w, t).max_time = t
         /\ DequeStandsForLive(With(w, t), time)
         /\ With(w, t).live = w.live
<1>1. /\ With(w, t) \in WindowType(fm) /\ With(w, t).max_time = t
      /\ With(w, t).vals = w.vals /\ With(w, t).extreme = w.extreme
      /\ With(w, t).live = w.live /\ With(w, t).find_min = w.find_min
  BY DEF With, WindowType
<1>2. \A a, b : Worse(With(w, t), a, b) <=> Worse(w, a, b)
  BY <1>1 DEF Worse
<1> DEFINE u == With(w, t)
<1> HIDE DEF u
<1>3. /\ u.vals = w.vals /\ u.extreme = w.extreme /\ u.live = w.live
      /\ u.find_min = w.find_min
      /\ \A a, b : Worse(u, a, b) <=> Worse(w, a, b)
  BY <1>1, <1>2 DEF u
<1>4. DequeStandsForLive(u, time)
  BY <1>3, Zenon DEF DequeStandsForLive
<1>5. QED
  BY <1>1, <1>4 DEF u

\* What a window covers after a sample, when its period is t.
Covered(w, t, val, time) ==
    {x \in w.live \cup {[t |-> time, v |-> val]} : ~ (x.t < time - t)}

\* One window of RTTWindow takes a sample.
LEMMA SampleKeeps ==
  ASSUME NEW fm \in BOOLEAN, NEW w \in WindowType(fm), NEW t \in Nat,
         NEW val \in RTTs, NEW time \in Nat,
         DequeStandsForLive(w, time),
         NEW w2 \in new_sample(With(w, t), val, time)
  PROVE  /\ w2 \in WindowType(fm)
         /\ DequeStandsForLive(w2, time)
         /\ w2.live = Covered(w, t, val, time)
         /\ w2.live # {}
<1> DEFINE u == With(w, t)
<1>1. /\ u \in WindowType(fm) /\ u.max_time = t
      /\ DequeStandsForLive(u, time) /\ u.live = w.live
  BY WithKeeps
<1>2. w2 \in new_sample(u, val, time)
  OBVIOUS
<1> HIDE DEF u
<1>3. /\ w2 \in WindowType(fm)
      /\ DequeStandsForLive(w2, time)
      /\ w2.live = {x \in u.live \cup {[t |-> time, v |-> val]} :
                      ~ Expired(u, x, time)}
      /\ w2.live # {}
  BY <1>1, <1>2, NewSampleKeeps
<1>4. QED
  BY <1>1, <1>3 DEF Expired, Covered

\* The same for a window of either sense.
LEMMA SampleKeepsMin ==
  ASSUME NEW w \in WindowType(TRUE), NEW t \in Nat,
         NEW val \in RTTs, NEW time \in Nat,
         DequeStandsForLive(w, time),
         NEW w2 \in new_sample(With(w, t), val, time)
  PROVE  /\ w2 \in WindowType(TRUE)
         /\ DequeStandsForLive(w2, time)
         /\ w2.live = Covered(w, t, val, time)
         /\ w2.live # {}
<1>1. ASSUME NEW fm \in BOOLEAN, w \in WindowType(fm)
      PROVE  /\ w2 \in WindowType(fm)
             /\ DequeStandsForLive(w2, time)
             /\ w2.live = Covered(w, t, val, time)
             /\ w2.live # {}
  BY <1>1, SampleKeeps
<1>2. QED
  BY <1>1

\* The same for a window that looks for the maximum.
LEMMA SampleKeepsMax ==
  ASSUME NEW w \in WindowType(FALSE), NEW t \in Nat,
         NEW val \in RTTs, NEW time \in Nat,
         DequeStandsForLive(w, time),
         NEW w2 \in new_sample(With(w, t), val, time)
  PROVE  /\ w2 \in WindowType(FALSE)
         /\ DequeStandsForLive(w2, time)
         /\ w2.live = Covered(w, t, val, time)
         /\ w2.live # {}
<1>1. ASSUME NEW fm \in BOOLEAN, w \in WindowType(fm)
      PROVE  /\ w2 \in WindowType(fm)
             /\ DequeStandsForLive(w2, time)
             /\ w2.live = Covered(w, t, val, time)
             /\ w2.live # {}
  BY <1>1, SampleKeeps
<1>2. QED
  BY <1>1

\* What a window with the shorter period covers, one with the longer covers.
LEMMA LongerCoversMore ==
  ASSUME NEW A \in SUBSET Samples, NEW B \in SUBSET Samples, A \subseteq B,
         NEW s, NEW a \in Nat, NEW b \in Nat, a <= b, NEW time \in Nat,
         s \in Samples
  PROVE  {x \in A \cup {s} : ~ (x.t < time - a)}
            \subseteq {x \in B \cup {s} : ~ (x.t < time - b)}
<1> SUFFICES ASSUME NEW x \in A \cup {s}, ~ (x.t < time - a)
             PROVE  ~ (x.t < time - b)
  OBVIOUS
<1>1. x.t \in Nat
  BY DEF Samples
<1>2. QED
  BY <1>1, SMT

\* The windows start out empty.
LEMMA InitInvariant == Init => WindowInvariant
<1> SUFFICES ASSUME Init PROVE WindowInvariant
  OBVIOUS
<1>1. ASSUME NEW fm \in BOOLEAN
      PROVE  /\ NewWindow(fm) \in WindowType(fm)
             /\ DequeStandsForLive(NewWindow(fm), 0)
             /\ NewWindow(fm).live = {}
  <2>1. <<>> \in Seq(Samples) /\ Len(<<>>) = 0
    BY EmptySeq
  <2>2. NewWindow(fm) \in WindowType(fm)
    BY <2>1 DEF NewWindow, WindowType
  <2>3. /\ NewWindow(fm).live = {} /\ NewWindow(fm).vals = <<>>
        /\ NewWindow(fm).find_min = fm
        /\ NewWindow(fm).extreme = NoSample(fm)
    BY DEF NewWindow
  <2>4. \A i \in 1..0 : FALSE
    BY SMT
  <2>5. DequeStandsForLive(NewWindow(fm), 0)
    BY <2>1, <2>3, <2>4 DEF DequeStandsForLive
  <2>6. QED
    BY <2>2, <2>3, <2>5
<1>2. TypeOK
  BY <1>1 DEF Init, TypeOK
<1>3. LiveInMin
  <2>1. /\ min_rtt.live = {} /\ unjittered_rtt.live = {}
        /\ is_copa_min.live = {} /\ is_copa_max.live = {}
    BY <1>1 DEF Init
  <2>2. ~ (samples > 0)
    BY SMT DEF Init
  <2>3. QED
    BY <2>1, <2>2 DEF LiveInMin
<1>4. QED
  BY <1>1, <1>2, <1>3 DEF Init, WindowInvariant

\* Every sample keeps the invariant.
LEMMA StepInvariant == WindowInvariant /\ [Next]_vars => WindowInvariant'
<1> SUFFICES ASSUME WindowInvariant, [Next]_vars PROVE WindowInvariant'
  OBVIOUS
<1>1. ASSUME NEW rtt \in RTTs, NEW gap \in Gaps, Sample(rtt, gap)
      PROVE  WindowInvariant'
  <2> DEFINE time == now + gap
             mt == Greatest(Period, Span * min_rtt.extreme)
             mu == Capped(mt, srtt' \div 2)
             mc == Capped(mt, srtt' * 4)
             s == [t |-> time, v |-> rtt]
  <2>1. now' = time /\ samples' = samples + 1
    BY <1>1 DEF Sample
  <2>2. /\ srtt' \in RTTs
        /\ min_rtt' \in new_sample(With(min_rtt, mt), rtt, time)
        /\ unjittered_rtt' \in new_sample(With(unjittered_rtt, mu), rtt, time)
        /\ is_copa_min' \in new_sample(With(is_copa_min, mc), rtt, time)
        /\ is_copa_max' \in new_sample(With(is_copa_max, mc), rtt, time)
    BY <1>1 DEF Sample, new_rtt_sample, Smoothed
  <2>3. /\ min_rtt \in WindowType(TRUE) /\ unjittered_rtt \in WindowType(TRUE)
        /\ is_copa_min \in WindowType(TRUE) /\ is_copa_max \in WindowType(FALSE)
        /\ now \in Nat /\ samples \in Nat
    BY DEF WindowInvariant, TypeOK
  <2>4. time \in Nat /\ now <= time /\ gap \in Nat
    BY <2>3, WindowAssumption, SMT
  <2>5. s \in Samples
    BY <2>4 DEF Samples
  <2>6. mt \in Nat /\ mu \in Nat /\ mc \in Nat /\ mu <= mt /\ mc <= mt
    <3>1. min_rtt.extreme \in Nat
      BY <2>3, WindowFields
    <3>2. Span * min_rtt.extreme \in Nat
      BY <3>1, WindowAssumption, ProductNat
    <3>3. mt \in Nat
      BY <3>2, WindowAssumption DEF Greatest
    <3>4. srtt' \in Nat
      BY <2>2, WindowAssumption
    <3>5. srtt' \div 2 \in Nat /\ srtt' * 4 \in Nat
      <4>1. \A a \in Nat : a \div 2 \in Nat /\ a * 4 \in Nat
        BY SMT
      <4>2. QED
        BY <3>4, <4>1
    <3> HIDE DEF mt
    <3>6. \A a, b \in Nat : Capped(a, b) \in Nat /\ Capped(a, b) <= a
      BY SMT DEF Capped, Least
    <3>7. QED
      BY <3>3, <3>5, <3>6
  <2> HIDE DEF time, mt, mu, mc, s
  <2>7. s = [t |-> time, v |-> rtt]
    BY DEF s
  <2>8. /\ min_rtt' \in WindowType(TRUE) /\ DequeStandsForLive(min_rtt', time)
        /\ min_rtt.live' = {x \in min_rtt.live \cup {s} : ~ (x.t < time - mt)}
    <3>1. DequeStandsForLive(min_rtt, time)
      BY <2>3, <2>4, StandsLater DEF WindowInvariant
    <3>2. /\ min_rtt \in WindowType(TRUE) /\ mt \in Nat /\ time \in Nat
          /\ min_rtt' \in new_sample(With(min_rtt, mt), rtt, time)
      BY <2>2, <2>3, <2>4, <2>6
    <3>3. /\ min_rtt' \in WindowType(TRUE)
          /\ DequeStandsForLive(min_rtt', time)
          /\ (min_rtt').live = Covered(min_rtt, mt, rtt, time)
          /\ (min_rtt').live # {}
      BY <3>1, <3>2, SampleKeepsMin
    <3>4. QED
      BY <2>7, <3>3 DEF Covered
  <2>9. /\ unjittered_rtt' \in WindowType(TRUE)
        /\ DequeStandsForLive(unjittered_rtt', time)
        /\ unjittered_rtt.live' =
             {x \in unjittered_rtt.live \cup {s} : ~ (x.t < time - mu)}
        /\ unjittered_rtt.live' # {}
    <3>1. DequeStandsForLive(unjittered_rtt, time)
      BY <2>3, <2>4, StandsLater DEF WindowInvariant
    <3>2. /\ unjittered_rtt \in WindowType(TRUE) /\ mu \in Nat /\ time \in Nat
          /\ unjittered_rtt' \in new_sample(With(unjittered_rtt, mu), rtt, time)
      BY <2>2, <2>3, <2>4, <2>6
    <3>3. /\ unjittered_rtt' \in WindowType(TRUE)
          /\ DequeStandsForLive(unjittered_rtt', time)
          /\ (unjittered_rtt').live = Covered(unjittered_rtt, mu, rtt, time)
          /\ (unjittered_rtt').live # {}
      BY <3>1, <3>2, SampleKeepsMin
    <3>4. QED
      BY <2>7, <3>3 DEF Covered
  <2>10. /\ is_copa_min' \in WindowType(TRUE)
         /\ DequeStandsForLive(is_copa_min', time)
         /\ is_copa_min.live' =
              {x \in is_copa_min.live \cup {s} : ~ (x.t < time - mc)}
         /\ is_copa_min.live' # {}
    <3>1. DequeStandsForLive(is_copa_min, time)
      BY <2>3, <2>4, StandsLater DEF WindowInvariant
    <3>2. /\ is_copa_min \in WindowType(TRUE) /\ mc \in Nat /\ time \in Nat
          /\ is_copa_min' \in new_sample(With(is_copa_min, mc), rtt, time)
      BY <2>2, <2>3, <2>4, <2>6
    <3>3. /\ is_copa_min' \in WindowType(TRUE)
          /\ DequeStandsForLive(is_copa_min', time)
          /\ (is_copa_min').live = Covered(is_copa_min, mc, rtt, time)
          /\ (is_copa_min').live # {}
      BY <3>1, <3>2, SampleKeepsMin
    <3>4. QED
      BY <2>7, <3>3 DEF Covered
  <2>11. /\ is_copa_max' \in WindowType(FALSE)
         /\ DequeStandsForLive(is_copa_max', time)
         /\ is_copa_max.live' =
              {x \in is_copa_max.live \cup {s} : ~ (x.t < time - mc)}
    <3>1. DequeStandsForLive(is_copa_max, time)
      BY <2>3, <2>4, StandsLater DEF WindowInvariant
    <3>2. /\ is_copa_max \in WindowType(FALSE) /\ mc \in Nat /\ time \in Nat
          /\ is_copa_max' \in new_sample(With(is_copa_max, mc), rtt, time)
      BY <2>2, <2>3, <2>4, <2>6
    <3>3. /\ is_copa_max' \in WindowType(FALSE)
          /\ DequeStandsForLive(is_copa_max', time)
          /\ (is_copa_max').live = Covered(is_copa_max, mc, rtt, time)
          /\ (is_copa_max').live # {}
      BY <3>1, <3>2, SampleKeepsMax
    <3>4. QED
      BY <2>7, <3>3 DEF Covered
  <2>12. TypeOK'
    <3>1. srtt' \in Nat
      BY <2>2, WindowAssumption
    <3>2. samples' \in Nat
      BY <2>1, <2>3, SMT
    <3>3. QED
      BY <2>1, <2>4, <2>8, <2>9, <2>10, <2>11, <3>1, <3>2 DEF TypeOK
  <2>13. LiveInMin'
    <3>1. /\ unjittered_rtt.live \subseteq min_rtt.live
          /\ is_copa_min.live \subseteq min_rtt.live
          /\ is_copa_max.live = is_copa_min.live
      BY DEF WindowInvariant, LiveInMin
    <3>2. /\ min_rtt.live \in SUBSET Samples
          /\ unjittered_rtt.live \in SUBSET Samples
          /\ is_copa_min.live \in SUBSET Samples
      BY <2>3, WindowFields
    <3>3. unjittered_rtt.live' \subseteq min_rtt.live'
      BY <2>4, <2>5, <2>6, <2>8, <2>9, <3>1, <3>2, LongerCoversMore
    <3>4. is_copa_min.live' \subseteq min_rtt.live'
      BY <2>4, <2>5, <2>6, <2>8, <2>10, <3>1, <3>2, LongerCoversMore
    <3>5. is_copa_max.live' = is_copa_min.live'
      BY <2>10, <2>11, <3>1
    <3>6. QED
      BY <2>9, <2>10, <3>3, <3>4, <3>5 DEF LiveInMin
  <2>14. QED
    BY <2>1, <2>8, <2>9, <2>10, <2>11, <2>12, <2>13 DEF WindowInvariant
<1>2. CASE UNCHANGED vars
  BY <1>2 DEF vars, windows, WindowInvariant, TypeOK, LiveInMin
<1>3. QED
  BY <1>1, <1>2 DEF Next, Done

\* The windows of RTTWindow keep the invariant, for any samples at any times.
THEOREM InvariantHolds == Spec => []WindowInvariant
BY InitInvariant, StepInvariant, PTL DEF Spec

\* The deques hold samples, each window in the order of its find_min, and the
\* extremes are RTTs or the value for no sample.
THEOREM TypeCorrect == Spec => []TypeOK
<1>1. WindowInvariant => TypeOK
  BY DEF WindowInvariant
<1>2. QED
  BY <1>1, InvariantHolds, PTL

-----------------------------------------------------------------------------
\* A window that stands for its live samples reports their extreme.
LEMMA StandsReports ==
  ASSUME NEW fm \in BOOLEAN, NEW w \in WindowType(fm), NEW time \in Nat,
         DequeStandsForLive(w, time)
  PROVE  Reports(w)
<1>1. CASE w.live = {}
  BY <1>1 DEF DequeStandsForLive, Reports
<1>2. CASE w.live # {}
  <2>1. w.find_min = fm /\ \A x \in w.live : x \in Samples /\ x.v \in Nat
    BY WindowFields
  <2>2. 1 \in 1..Len(w.vals)
    <3>1. Len(w.vals) \in Nat /\ Len(w.vals) # 0
      BY <1>2, WindowFields, EmptySeq DEF DequeStandsForLive
    <3>2. QED
      BY <3>1, SMT
  <2>3. w.vals[1] \in w.live /\ w.extreme = w.vals[1].v
    BY <1>2, <2>2 DEF DequeStandsForLive
  <2>4. ASSUME NEW x \in w.live PROVE ~ Worse(w, w.extreme, x.v)
    <3>1. PICK i \in 1..Len(w.vals) : ~ Worse(w, w.vals[i].v, x.v)
      BY DEF DequeStandsForLive
    <3>2. 1 <= i
      BY SMT
    <3>3. ~ Worse(w, w.vals[1].v, w.vals[i].v)
      BY <2>2, <3>2 DEF DequeStandsForLive
    <3>4. w.vals[1].v \in Nat /\ w.vals[i].v \in Nat /\ x.v \in Nat
      BY <2>1, <2>3 DEF DequeStandsForLive
    <3>5. QED
      BY <2>1, <2>3, <3>1, <3>3, <3>4, WorseOrder
  <2>5. QED
    BY <1>2, <2>3, <2>4 DEF Reports
<1>3. QED
  BY <1>1, <1>2

\* The front of a deque that stands for the live samples is their extreme.
LEMMA InvariantReports == WindowInvariant => ReportsExtreme
BY StandsReports DEF WindowInvariant, TypeOK, ReportsExtreme

\* The estimates are the extremes of the samples they cover, although most of
\* these were popped.
THEOREM ExtremesExact == Spec => []ReportsExtreme
BY InvariantHolds, InvariantReports, PTL

\* The extreme of more samples is at least as extreme.
LEMMA InvariantOrdered == WindowInvariant => EstimatesOrdered
<1> SUFFICES ASSUME WindowInvariant PROVE EstimatesOrdered
  OBVIOUS
<1>1. /\ min_rtt \in WindowType(TRUE) /\ unjittered_rtt \in WindowType(TRUE)
      /\ is_copa_min \in WindowType(TRUE) /\ is_copa_max \in WindowType(FALSE)
      /\ Reports(min_rtt) /\ Reports(unjittered_rtt)
      /\ Reports(is_copa_min) /\ Reports(is_copa_max)
  BY InvariantReports DEF WindowInvariant, TypeOK, ReportsExtreme
<1>2. ASSUME NEW w \in WindowType(TRUE), Reports(w),
             w.live \subseteq min_rtt.live
      PROVE  min_rtt.extreme <= w.extreme
  <2>1. w.find_min = TRUE /\ min_rtt.find_min = TRUE
        /\ w.extreme \in Nat /\ min_rtt.extreme \in Nat
        /\ min_rtt.extreme \in RTTs \cup {NoSample(TRUE)}
    BY <1>1, WindowFields
  <2>2. CASE w.live = {}
    <3>1. w.extreme = Infinity
      BY <1>2, <2>1, <2>2 DEF Reports, NoSample
    <3>2. QED
      BY <2>1, <3>1, WindowAssumption, SMT DEF NoSample
  <2>3. CASE w.live # {}
    <3>1. PICK x \in w.live : x.v = w.extreme
      BY <1>2, <2>3 DEF Reports
    <3>2. ~ Worse(min_rtt, min_rtt.extreme, x.v)
      BY <1>1, <1>2 DEF Reports
    <3>3. QED
      BY <2>1, <3>1, <3>2, SMT DEF Worse
  <2>4. QED
    BY <2>2, <2>3
<1>3. min_rtt.extreme <= unjittered_rtt.extreme
      /\ min_rtt.extreme <= is_copa_min.extreme
  BY <1>1, <1>2 DEF WindowInvariant, LiveInMin
<1>4. ASSUME samples > 0 PROVE is_copa_min.extreme <= is_copa_max.extreme
  <2>1. /\ is_copa_min.live # {} /\ is_copa_max.live = is_copa_min.live
        /\ is_copa_max.find_min = FALSE
        /\ is_copa_min.extreme \in Nat /\ is_copa_max.extreme \in Nat
    BY <1>1, <1>4, WindowFields DEF WindowInvariant, LiveInMin
  <2>2. PICK x \in is_copa_min.live : x.v = is_copa_min.extreme
    BY <1>1, <2>1 DEF Reports
  <2>3. ~ Worse(is_copa_max, is_copa_max.extreme, x.v)
    BY <1>1, <2>1 DEF Reports
  <2>4. QED
    BY <2>1, <2>2, <2>3, SMT DEF Worse
<1>5. QED
  BY <1>3, <1>4 DEF EstimatesOrdered

\* Copa's queuing delay is never negative.
THEOREM OrderHolds == Spec => []EstimatesOrdered
BY InvariantHolds, InvariantOrdered, PTL
=============================================================================
