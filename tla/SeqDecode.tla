----------------------------- MODULE SeqDecode -----------------------------
(***************************************************************************)
(* How ack_receiver turns an acknowledgement number into a count of        *)
(* packets, with the widths of the C++ expressions: sequence numbers are   *)
(* 32-bit values kept in 64-bit unsigned variables, the quotient of their  *)
(* difference is stored in an int, and a NEGATIVE int is taken as the sign *)
(* that the sequence numbers wrapped.  Whether the sign bit of the low 32  *)
(* bits of that quotient is set depends on the divisor alone: it happens   *)
(* to be, for the divisors the library is built with.                      *)
(*                                                                         *)
(* libalcc.cpp and libalcc_copa.cpp share that code; Verus has its own,    *)
(* with a starting sequence number that does not wrap.                     *)
(*                                                                         *)
(* AlccSocket writes the outcome as Advance(ack), with MODULUS for 2^32.   *)
(* The numbers here are beyond TLC; the theorems are about them as such.   *)
(***************************************************************************)
EXTENDS Integers, TLAPS

Two31 == 2147483648
Two32 == 4294967296
Two64 == 18446744073709551616

SeqNumbers == {n \in Nat : n < Two32}

\* a - b in unsigned long long.
Sub64(a, b) == IF a >= b THEN a - b ELSE Two64 + a - b

\* An unsigned long long stored in an int: its low 32 bits, signed.
ToInt(q) == LET low == q % Two32
            IN  IF low < Two31 THEN low ELSE low - Two32

\* The acknowledgement is ahead of tcpSeq, or has wrapped.
InOrder(tcpSeq, ack) == tcpSeq > 0 /\ \/ ack >= tcpSeq
                                      \/ tcpSeq - ack > Two31

\* What is added to rcvSeq.
Count(mtu, tcpSeq, ack) ==
    LET num == ToInt(Sub64(ack, tcpSeq) \div mtu)
    IN  IF num < 0 THEN (Two32 - tcpSeq + ack) \div mtu ELSE num

\* The whole packets between the two numbers, going forward round the circle
\* of sequence numbers.
Forward(tcpSeq, ack) == IF ack >= tcpSeq THEN ack - tcpSeq
                                         ELSE Two32 + ack - tcpSeq

-----------------------------------------------------------------------------
(* ALCCReceive of Verus.  startingSeq is a signed long long that is never  *)
(* wrapped, and so is the difference; its quotient is truncated.           *)

VerusMTU == 1448

\* Division of C++: towards zero.
Truncated(a, b) == IF a >= 0 THEN a \div b ELSE -((-a) \div b)

VerusAccepts(startingSeq, ack) ==
    startingSeq > 0 /\ (ack >= startingSeq \/ startingSeq - ack > Two31)

\* tmp_numAcks: the turns of the loop, none if it is not positive.
tmp_numAcks(startingSeq, ack) ==
    LET num == Truncated(ack - startingSeq, VerusMTU)
    IN  IF num < 0 THEN Truncated(Two32 - startingSeq + ack, VerusMTU) ELSE num

VerusCount(startingSeq, ack) ==
    IF VerusAccepts(startingSeq, ack) /\ tmp_numAcks(startingSeq, ack) > 0
      THEN tmp_numAcks(startingSeq, ack) ELSE 0

-----------------------------------------------------------------------------
\* Without a wrap the quotient fits the int.
LEMMA AheadFits ==
  ASSUME NEW d \in SeqNumbers
  PROVE  /\ ToInt(d \div 1448) = d \div 1448 /\ d \div 1448 \in Nat
         /\ ToInt(d \div 1484) = d \div 1484 /\ d \div 1484 \in Nat
BY SMT DEF SeqNumbers, ToInt, Two31, Two32

\* After a wrap the low 32 bits of the quotient have their top bit set.
LEMMA WrapIsNegative ==
  ASSUME NEW d \in SeqNumbers, d > Two31
  PROVE  /\ ToInt((Two64 - d) \div 1448) < 0
         /\ ToInt((Two64 - d) \div 1484) < 0
BY SMT DEF SeqNumbers, ToInt, Two31, Two32, Two64

\* For the MTU of libalcc.h and for the MTU of libalcc_copa.h, an
\* acknowledgement the guard lets through is counted as the whole packets it
\* is ahead by, whether or not it wrapped.
THEOREM CountIsForward ==
  ASSUME NEW mtu \in {1448, 1484},
         NEW tcpSeq \in SeqNumbers, NEW ack \in SeqNumbers,
         InOrder(tcpSeq, ack)
  PROVE  Count(mtu, tcpSeq, ack) = Forward(tcpSeq, ack) \div mtu
<1>1. CASE ack >= tcpSeq
  <2> DEFINE d == ack - tcpSeq
  <2>1. d \in SeqNumbers
    BY <1>1, SMT DEF SeqNumbers, Two32
  <2>2. Sub64(ack, tcpSeq) = d /\ Forward(tcpSeq, ack) = d
    BY <1>1, SMT DEF Sub64, Forward
  <2> HIDE DEF d
  <2>3. ToInt(d \div mtu) = d \div mtu /\ d \div mtu \in Nat
    BY <2>1, AheadFits
  <2>4. ~ (d \div mtu < 0)
    BY <2>3
  <2>5. Count(mtu, tcpSeq, ack) = ToInt(d \div mtu)
    BY <2>2, <2>3, <2>4, SMT DEF Count
  <2> QED  BY <2>2, <2>3, <2>5
<1>2. CASE ack < tcpSeq
  <2> DEFINE d == tcpSeq - ack
  <2>1. d \in SeqNumbers /\ d > Two31
    BY <1>2, SMT DEF InOrder, SeqNumbers, Two31, Two32
  <2>2. /\ Sub64(ack, tcpSeq) = Two64 - d
        /\ Forward(tcpSeq, ack) = Two32 - tcpSeq + ack
    BY <1>2, SMT DEF Sub64, Forward, SeqNumbers, Two64, Two32
  <2>3. ToInt((Two64 - d) \div mtu) < 0
    BY <2>1, WrapIsNegative, SMT
  <2> QED  BY <1>2, <2>2, <2>3, SMT DEF Count
<1> QED  BY <1>1, <1>2, SMT DEF SeqNumbers

\* Up to the second wrap Verus counts the whole packets between startingSeq and
\* the true position of the acknowledgement, startingSeq being ahead of 2^32 as
\* soon as a packet across the wrap has been counted.
THEOREM VerusCountsOneWrap ==
  ASSUME NEW start \in Nat, NEW position \in Nat,
         start > 0, start <= position, position - start < Two31,
         position < 2 * Two32
  PROVE  VerusCount(start, position % Two32) = (position - start) \div VerusMTU
<1> DEFINE d == position - start
           ack == position % Two32
<1>1. d \in Nat /\ d < Two31 /\ position = start + d
  OBVIOUS
<1>2. d \div VerusMTU \in Nat
  BY <1>1, SMT DEF VerusMTU
<1>3. CASE position < Two32
  <2>1. ack = position
    BY <1>3, SMT DEF Two32
  <2>2. ack >= start /\ ack - start = d
    BY <2>1
  <2>3. tmp_numAcks(start, ack) = d \div VerusMTU
    BY <1>1, <1>2, <2>2, SMT DEF tmp_numAcks, Truncated
  <2> QED  BY <1>2, <2>2, <2>3, SMT DEF VerusCount, VerusAccepts
<1>4. CASE position >= Two32
  <2>1. ack = position - Two32
    BY <1>4, SMT DEF Two32
  <2>2. ack \in Nat /\ start - ack = Two32 - d
    BY <1>4, <2>1, SMT DEF Two32
  <2>3. VerusAccepts(start, ack)
    BY <1>1, <2>2, SMT DEF VerusAccepts, Two31, Two32
  <2>4. ack - start < 0 /\ start - ack >= VerusMTU
    BY <1>1, <2>2, SMT DEF Two31, Two32, VerusMTU
  <2>5. Truncated(ack - start, VerusMTU) < 0
    BY <2>2, <2>4, SMT DEF Truncated, VerusMTU
  <2>6. Two32 - start + ack = d
    BY <1>1, <2>2, SMT DEF Two32
  <2>7. tmp_numAcks(start, ack) = Truncated(d, VerusMTU)
    BY <2>5, <2>6 DEF tmp_numAcks
  <2>8. tmp_numAcks(start, ack) = d \div VerusMTU
    BY <1>1, <2>7, SMT DEF Truncated
  <2> QED  BY <1>2, <2>3, <2>8, SMT DEF VerusCount
<1> QED  BY <1>3, <1>4, SMT DEF Two32

\* From the second wrap on, after 8 GB at the most, no acknowledgement is counted
\* any more: the correction adds 2^32 once, and startingSeq is further ahead.
THEOREM VerusStopsAtSecondWrap ==
  ASSUME NEW start \in Nat, NEW position \in Nat,
         start > Two32, position - start < Two31, 2 * Two32 <= position
  PROVE  VerusCount(start, position % Two32) = 0
<1> DEFINE ack == position % Two32
<1>1. ack \in Nat /\ position - ack >= 2 * Two32
  BY SMT DEF Two32
<1>2. Two32 - start + ack < 0
  BY <1>1, SMT DEF Two31, Two32
<1>3. ack - start < 0
  BY <1>2, SMT DEF Two32
<1>4. Truncated(ack - start, VerusMTU) <= 0
  BY <1>1, <1>3, SMT DEF Truncated, VerusMTU
<1>5. Truncated(Two32 - start + ack, VerusMTU) <= 0
  BY <1>1, <1>2, SMT DEF Truncated, VerusMTU, Two32
<1>6. ~ (tmp_numAcks(start, ack) > 0)
  BY <1>1, <1>4, <1>5, SMT DEF tmp_numAcks, Truncated, VerusMTU, Two32
<1> QED  BY <1>6 DEF VerusCount
=============================================================================
