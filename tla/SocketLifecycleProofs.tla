------------------------ MODULE SocketLifecycleProofs ------------------------
(***************************************************************************)
(* For sessions of any number of connections on any descriptors, with      *)
(* files of any length, whatever older threads still do: a transfer that   *)
(* bftpd reports as successful lacks one packet at the most, and a packet  *)
(* is always in exactly one queue, thread or stream.                       *)
(***************************************************************************)
EXTENDS SocketLifecycle, FiniteSetTheorems, SequenceTheorems, TLAPS

-----------------------------------------------------------------------------
(* Counting in sequences.                                                  *)

LEMMA OccursNat ==
  ASSUME NEW S, NEW s \in Seq(S), NEW c
  PROVE  /\ Occurs(c, s) \in Nat
         /\ IsFiniteSet({i \in DOMAIN s : s[i] = c})
<1>1. IsFiniteSet(1..Len(s)) /\ DOMAIN s = 1..Len(s)
  BY FS_Interval
<1> DEFINE T == {i \in DOMAIN s : s[i] = c}
<1>2. T \in SUBSET (1..Len(s))
  BY <1>1
<1> HIDE DEF T
<1>3. IsFiniteSet(T) /\ Cardinality(T) \in Nat
  BY <1>1, <1>2, FS_Subset, FS_CardinalityType, Zenon
<1> QED  BY <1>3 DEF Occurs, T

LEMMA OccursAppend ==
  ASSUME NEW S, NEW s \in Seq(S), NEW x \in S, NEW c
  PROVE  Occurs(c, Append(s, x)) = Occurs(c, s) + (IF x = c THEN 1 ELSE 0)
<1> DEFINE t == Append(s, x)
           n == Len(s) + 1
           A == {i \in DOMAIN s : s[i] = c}
           B == {i \in DOMAIN t : t[i] = c}
<1>1. /\ DOMAIN s = 1..Len(s) /\ DOMAIN t = 1..n /\ Len(s) \in Nat
      /\ t[n] = x /\ \A i \in 1..Len(s) : t[i] = s[i]
  BY AppendProperties
<1>2. IsFiniteSet(A) /\ Cardinality(A) \in Nat
  BY OccursNat DEF Occurs
<1>3. n \notin A
  BY <1>1
<1>4. B = IF x = c THEN A \cup {n} ELSE A
  BY <1>1
<1>5. Occurs(c, t) = Cardinality(B) /\ Occurs(c, s) = Cardinality(A)
  BY DEF Occurs
<1> HIDE DEF A, B, n, t
<1>6. Cardinality(A \cup {n}) = Cardinality(A) + 1
  BY <1>2, <1>3, FS_AddElement, Zenon
<1> QED  BY <1>2, <1>4, <1>5, <1>6 DEF t

LEMMA OccursTail ==
  ASSUME NEW S, NEW s \in Seq(S), s # <<>>, NEW c
  PROVE  Occurs(c, Tail(s)) >= Occurs(c, s) - (IF Head(s) = c THEN 1 ELSE 0)
<1> DEFINE t == Tail(s)
           A == {i \in DOMAIN s : s[i] = c}
           B == {i \in DOMAIN t : t[i] = c}
           f == [i \in A \ {1} |-> i - 1]
<1>1. /\ DOMAIN s = 1..Len(s) /\ DOMAIN t = 1..(Len(s) - 1) /\ Len(s) \in Nat \ {0}
      /\ Head(s) = s[1] /\ \A i \in 1..(Len(s) - 1) : t[i] = s[i + 1]
  BY HeadTailProperties
<1>2. /\ IsFiniteSet(A) /\ Cardinality(A) \in Nat
      /\ IsFiniteSet(B) /\ Cardinality(B) \in Nat
  <2>1. t \in Seq(S)
    BY HeadTailProperties
  <2> QED  BY <2>1, OccursNat DEF Occurs
<1>3. f \in Injection(A \ {1}, B)
  <2>1. \A i \in A \ {1} : i \in Int /\ i - 1 \in B
    BY <1>1
  <2> HIDE DEF A, B
  <2>2. f \in [A \ {1} -> B]
    BY <2>1
  <2>3. \A i, j \in A \ {1} : f[i] = f[j] => i = j
    BY <2>1
  <2> HIDE DEF f
  <2>4. DOMAIN f = A \ {1}
    BY <2>2
  <2> QED  BY <2>2, <2>3, <2>4 DEF Injection, IsInjective
<1>4. Occurs(c, t) = Cardinality(B) /\ Occurs(c, s) = Cardinality(A)
  BY DEF Occurs
<1>5. 1 \in A <=> Head(s) = c
  BY <1>1
<1> HIDE DEF A, B, f, t
<1>6. Cardinality(A \ {1}) <= Cardinality(B)
  BY <1>2, <1>3, FS_Injection, Zenon
<1>7. Cardinality(A \ {1}) = IF 1 \in A THEN Cardinality(A) - 1 ELSE Cardinality(A)
  BY <1>2, FS_RemoveElement, Zenon
<1> QED  BY <1>2, <1>4, <1>5, <1>6, <1>7 DEF t

LEMMA OccursEmpty ==
  ASSUME NEW c
  PROVE  Occurs(c, <<>>) = 0
<1>1. {i \in DOMAIN <<>> : <<>>[i] = c} = {}
  OBVIOUS
<1> QED  BY <1>1, FS_EmptySet DEF Occurs

\* What a thread can count on: the numbers behind Copies and AtMostOneMissing.
LEMMA CopiesNat ==
  ASSUME SocketTypes, NEW c \in Conns, NEW x \in Conns
  PROVE  /\ Occurs(c, queue[x]) \in Nat /\ Occurs(c, stream[x]) \in Nat
         /\ queue[x] \in Seq(Conns) /\ stream[x] \in Seq(Conns)
         /\ hand[x] \in 0..Connections
         /\ Copies(c, x) \in Nat
<1>1. queue[x] \in Seq(Conns) /\ stream[x] \in Seq(Conns) /\ hand[x] \in 0..Connections
  BY DEF SocketTypes
<1>2. Occurs(c, queue[x]) \in Nat /\ Occurs(c, stream[x]) \in Nat
  BY <1>1, OccursNat
<1> QED  BY <1>1, <1>2 DEF Copies

-----------------------------------------------------------------------------
LEMMA InitEstablishes == Init => TransferInvariant
<1> SUFFICES ASSUME Init
             PROVE  TransferInvariant
  OBVIOUS
<1>1. MainTypes
  BY LifecycleAssumption DEF Init, MainTypes
<1>2. SocketTypes
  <2>1. tempS \in [Conns -> Nat] /\ reset \in BOOLEAN
    BY DEF Init
  <2> QED  BY <2>1, LifecycleAssumption DEF Init, SocketTypes
<1>3. Serving /\ OwnEntry /\ OneInHand /\ NearlyComplete /\ AtMostOneMissing
  BY DEF Init, Serving, OwnEntry, OneInHand, NearlyComplete, AtMostOneMissing
<1> QED  BY <1>1, <1>2, <1>3 DEF TransferInvariant, TypeOK

-----------------------------------------------------------------------------
(* The threads.                                                            *)

\* They leave bftpd's own variables alone.
LEMMA ThreadFrame ==
  ASSUME TransferInvariant, Quiet,
         \A c \in Conns : sender[c] = "none" => sender'[c] = "none"
  PROVE  /\ MainTypes' /\ Serving' /\ OwnEntry'
         /\ UNCHANGED <<main, cur, kind, left, replied, terminateThreads>>
BY DEF TransferInvariant, TypeOK, MainTypes, Quiet, mainVars, Serving, OwnEntry,
       Found, fd, Conns

\* They lose no packet, if those which take or send one do not.
LEMMA ThreadKeeps ==
  ASSUME TransferInvariant, SocketTypes',
         UNCHANGED <<main, cur, kind, left, replied>>,
         \A c \in Conns : Occurs(c, stream'[c]) >= Occurs(c, stream[c]),
         main = "send" /\ kind[cur] = "RETR" => Copies(cur, cur)' >= Copies(cur, cur)
  PROVE  NearlyComplete' /\ AtMostOneMissing'
<1> USE DEF TransferInvariant, TypeOK
<1>1. /\ main' = main /\ cur' = cur /\ kind' = kind /\ left' = left
      /\ replied' = replied
  OBVIOUS
<1>2. /\ main # "command" => cur \in Conns
      /\ \A c \in Conns : left[c] \in Nat
      /\ FileLen \in Nat /\ replied \subseteq Conns
  BY LifecycleAssumption DEF MainTypes, Serving
<1>3. \A c \in Conns : /\ Occurs(c, stream[c]) \in Nat /\ Occurs(c, stream'[c]) \in Nat
                       /\ Copies(c, c) \in Nat
  <2>1. ASSUME NEW c \in Conns
        PROVE  stream'[c] \in Seq(Conns)
    BY <2>1 DEF SocketTypes
  <2> QED  BY <2>1, CopiesNat, OccursNat
<1>4. main = "send" /\ kind[cur] = "RETR" => Copies(cur, cur)' \in Nat
  <2> SUFFICES ASSUME main = "send"
               PROVE  Copies(cur, cur)' \in Nat
    OBVIOUS
  <2>1. cur \in Conns /\ cur' = cur
    BY <1>1, <1>2
  <2>2. /\ queue'[cur] \in Seq(Conns) /\ stream'[cur] \in Seq(Conns)
    BY <2>1 DEF SocketTypes
  <2>3. Occurs(cur, queue'[cur]) \in Nat /\ Occurs(cur, stream'[cur]) \in Nat
    BY <2>2, OccursNat
  <2> QED  BY <2>1, <2>3 DEF Copies, Occurs
<1>5. NearlyComplete'
  <2> SUFFICES ASSUME main # "command", kind[cur] = "RETR"
               PROVE  /\ main = "send" => Copies(cur, cur)' + left[cur] >= FileLen
                      /\ main \in {"close", "reply"} =>
                            Occurs(cur, stream[cur])' >= FileLen - 1
    BY <1>1 DEF NearlyComplete
  <2>1. cur \in Conns
    BY <1>2
  <2>2. /\ main = "send" => Copies(cur, cur) + left[cur] >= FileLen
        /\ main \in {"close", "reply"} => Occurs(cur, stream[cur]) >= FileLen - 1
    BY DEF NearlyComplete
  <2>3. Occurs(cur, stream[cur])' = Occurs(cur, stream'[cur])
    BY <1>1 DEF Occurs
  <2>4. ASSUME main = "send"
        PROVE  Copies(cur, cur)' + left[cur] >= FileLen
    BY <1>2, <1>3, <1>4, <2>1, <2>2, <2>4
  <2> QED  BY <1>2, <1>3, <2>1, <2>2, <2>3, <2>4
<1>6. AtMostOneMissing'
  <2> SUFFICES ASSUME NEW c \in replied, kind[c] = "RETR"
               PROVE  Occurs(c, stream[c])' >= FileLen - 1
    BY <1>1 DEF AtMostOneMissing
  <2>1. Occurs(c, stream[c])' = Occurs(c, stream'[c])
    BY DEF Occurs
  <2>2. c \in Conns /\ Occurs(c, stream[c]) >= FileLen - 1
    BY <1>2 DEF AtMostOneMissing
  <2> QED  BY <1>2, <1>3, <2>1, <2>2
<1> QED  BY <1>5, <1>6

\* Steps that move no packet.
LEMMA QuietPreserves ==
  ASSUME TransferInvariant, Quiet, UNCHANGED <<queue, hand, stream>>,
         SocketTypes', OneInHand',
         \A x \in Conns : sender[x] = "none" => sender'[x] = "none"
  PROVE  TransferInvariant'
<1> USE DEF TransferInvariant, TypeOK
<1>1. /\ MainTypes' /\ Serving' /\ OwnEntry'
      /\ UNCHANGED <<main, cur, kind, left, replied, terminateThreads>>
  BY ThreadFrame
<1>2. \A x \in Conns : Occurs(x, stream'[x]) >= Occurs(x, stream[x])
  BY CopiesNat
<1>3. main = "send" /\ kind[cur] = "RETR" => Copies(cur, cur)' >= Copies(cur, cur)
  <2> SUFFICES ASSUME main = "send"
               PROVE  Copies(cur, cur)' >= Copies(cur, cur)
    OBVIOUS
  <2>1. Copies(cur, cur)' = Copies(cur, cur)
    BY <1>1 DEF Copies, Occurs
  <2> QED  BY <2>1, CopiesNat DEF Serving
<1> QED  BY <1>1, <1>2, <1>3, ThreadKeeps

LEMMA BindPreserves ==
  ASSUME TransferInvariant, NEW c \in Conns, Bind(c)
  PROVE  TransferInvariant'
<1> USE DEF TransferInvariant, TypeOK
<1>1. /\ Quiet /\ UNCHANGED <<queue, hand, tempS, stream, sender, reset, alive>>
      /\ terminateThreads' = terminateThreads
      /\ nlOwner' \in {nlOwner, c}
      /\ \/ receiver' = [receiver EXCEPT ![c] = "listening"]
         \/ receiver' = [receiver EXCEPT ![c] = "failed"]
  BY DEF Bind, senderVars, ThreadStep, Quiet
<1>2. SocketTypes'
  BY <1>1 DEF SocketTypes, Conns
<1>3. OneInHand'
  BY <1>1 DEF OneInHand, InBatch
<1> QED  BY <1>1, <1>2, <1>3, QuietPreserves

LEMMA CCPreserves ==
  ASSUME TransferInvariant, NEW c \in Conns, CC_logic(c)
  PROVE  TransferInvariant'
<1> USE DEF TransferInvariant, TypeOK
<1>1. PICK n \in 0..MaxPermits : /\ InBatch(c) => n > 0
                                 /\ tempS' = [tempS EXCEPT ![c] = n]
  BY DEF CC_logic
<1>2. /\ Quiet /\ terminateThreads' = terminateThreads
      /\ UNCHANGED <<queue, hand, stream, sender, reset, alive, receiver, nlOwner>>
  BY DEF CC_logic, ThreadStep, Quiet
<1>3. SocketTypes'
  BY <1>1, <1>2, LifecycleAssumption DEF SocketTypes
<1>4. OneInHand'
  BY <1>1, <1>2 DEF OneInHand, InBatch, SocketTypes
<1> QED  BY <1>2, <1>3, <1>4, QuietPreserves

\* StartBatch, EndBatch, SendFails and Exit take pkt_sender to its next place.
LEMMA MovePreserves ==
  ASSUME TransferInvariant, NEW c \in Conns,
         StartBatch(c) \/ EndBatch(c) \/ SendFails(c) \/ Exit(c)
  PROVE  TransferInvariant'
<1> USE DEF TransferInvariant, TypeOK
<1>1. /\ Quiet /\ terminateThreads' = terminateThreads
      /\ UNCHANGED <<queue, hand, tempS, stream, reset, alive, receiver, nlOwner>>
      /\ \/ sender[c] = "ready" /\ tempS[c] > 0 /\ sender' = [sender EXCEPT ![c] = "batch"]
         \/ sender[c] = "batch" /\ sender' = [sender EXCEPT ![c] = "ready"]
         \/ sender[c] = "holding" /\ sender' = [sender EXCEPT ![c] = "failing"]
         \/ sender[c] = "ready" /\ sender' = [sender EXCEPT ![c] = "gone"]
  BY DEF StartBatch, EndBatch, SendFails, Exit, ThreadStep, Quiet
<1>2. SocketTypes'
  BY <1>1 DEF SocketTypes
<1>3. OneInHand'
  BY <1>1 DEF OneInHand, InBatch, SocketTypes
<1>4. \A x \in Conns : sender[x] = "none" => sender'[x] = "none"
  BY <1>1 DEF SocketTypes
<1> QED  BY <1>1, <1>2, <1>3, <1>4, QuietPreserves

\* The client resets a connection, or a process that writes to one is killed.
LEMMA ResetPreserves ==
  ASSUME TransferInvariant, Reset \/ \E c \in Conns : BrokenPipe(c)
  PROVE  TransferInvariant'
<1> USE DEF TransferInvariant, TypeOK
<1>1. /\ Quiet /\ terminateThreads' = terminateThreads
      /\ UNCHANGED <<queue, hand, tempS, stream, sender, receiver, nlOwner>>
      /\ reset' = reset \/ reset' = TRUE
      /\ alive' = alive \/ alive' = FALSE
  BY DEF Reset, BrokenPipe, Quiet, senderVars
<1>2. SocketTypes'
  BY <1>1 DEF SocketTypes
<1>3. OneInHand'
  BY <1>1 DEF OneInHand, InBatch
<1> QED  BY <1>1, <1>2, <1>3, QuietPreserves

\* remove: what leaves the queue is in the hand, which was empty.
LEMMA TakePreserves ==
  ASSUME TransferInvariant, NEW c \in Conns, Take(c)
  PROVE  TransferInvariant'
<1> USE DEF TransferInvariant, TypeOK
<1>1. /\ Quiet /\ UNCHANGED <<tempS, reset, alive, receiver, nlOwner, stream>>
      /\ sender[c] = "batch" /\ queue[c] # <<>>
      /\ hand' = [hand EXCEPT ![c] = Head(queue[c])]
      /\ queue' = [queue EXCEPT ![c] = Tail(queue[c])]
      /\ sender' = [sender EXCEPT ![c] = "holding"]
  BY DEF Take, ThreadStep
<1>2. /\ MainTypes' /\ Serving' /\ OwnEntry'
      /\ UNCHANGED <<main, cur, kind, left, replied, terminateThreads>>
  <2>1. \A x \in Conns : sender[x] = "none" => sender'[x] = "none"
    BY <1>1 DEF SocketTypes
  <2> QED  BY <1>1, <2>1, ThreadFrame
<1>3. /\ queue[c] \in Seq(Conns) /\ Head(queue[c]) \in Conns
      /\ Tail(queue[c]) \in Seq(Conns)
  BY <1>1, HeadTailProperties DEF SocketTypes
<1>4. SocketTypes'
  BY <1>1, <1>2, <1>3 DEF SocketTypes, Conns
<1>5. OneInHand'
  BY <1>1, <1>3 DEF OneInHand, InBatch, SocketTypes, Conns
<1>6. \A x \in Conns : Occurs(x, stream'[x]) >= Occurs(x, stream[x])
  BY <1>1, CopiesNat
<1>7. main = "send" /\ kind[cur] = "RETR" => Copies(cur, cur)' >= Copies(cur, cur)
  <2> SUFFICES ASSUME main = "send"
               PROVE  Copies(cur, cur)' >= Copies(cur, cur)
    OBVIOUS
  <2>1. cur \in Conns /\ Copies(cur, cur) \in Nat
    BY CopiesNat DEF Serving
  <2>2. CASE c = cur
    <3>1. Occurs(cur, Tail(queue[cur])) >=
            Occurs(cur, queue[cur]) - (IF Head(queue[cur]) = cur THEN 1 ELSE 0)
      BY <1>1, <1>3, <2>2, OccursTail
    <3>2. hand[cur] = 0 /\ cur # 0
      BY <1>1, <2>1, <2>2 DEF OneInHand, Conns
    <3>3. queue'[cur] = Tail(queue[cur]) /\ hand'[cur] = Head(queue[cur])
          /\ stream' = stream /\ cur' = cur
      BY <1>1, <1>2, <2>1, <2>2 DEF SocketTypes
    <3>4. /\ Occurs(cur, queue[cur]) \in Nat /\ Occurs(cur, stream[cur]) \in Nat
          /\ Occurs(cur, Tail(queue[cur])) \in Nat
      BY <1>3, <2>1, <2>2, CopiesNat, OccursNat
    <3>5. Copies(cur, cur)' = Occurs(cur, Tail(queue[cur])) + Occurs(cur, stream[cur])
                              + (IF Head(queue[cur]) = cur THEN 1 ELSE 0)
      BY <3>3 DEF Copies, Occurs
    <3>6. Copies(cur, cur) = Occurs(cur, queue[cur]) + Occurs(cur, stream[cur])
      BY <3>2, <3>4 DEF Copies
    <3> QED  BY <3>1, <3>4, <3>5, <3>6
  <2>3. CASE c # cur
    <3>1. queue'[cur] = queue[cur] /\ hand'[cur] = hand[cur]
          /\ stream' = stream /\ cur' = cur
      BY <1>1, <1>2, <2>1, <2>3 DEF SocketTypes
    <3>2. Copies(cur, cur)' = Copies(cur, cur)
      BY <3>1 DEF Copies, Occurs
    <3> QED  BY <2>1, <3>2
  <2> QED  BY <2>2, <2>3
<1> QED  BY <1>1, <1>2, <1>4, <1>5, <1>6, <1>7, ThreadKeeps

\* ::send: the packet goes from the hand to a stream, and to its own if the
\* descriptor still is the connection's.
LEMMA SendPreserves ==
  ASSUME TransferInvariant, NEW c \in Conns, SendPacket(c)
  PROVE  TransferInvariant'
<1> USE DEF TransferInvariant, TypeOK
<1> DEFINE d == open[fdOf[c]]
<1>1. /\ Quiet /\ UNCHANGED <<queue, reset, alive, receiver, nlOwner>>
      /\ sender[c] \in {"holding", "failing"}
      /\ stream' = [stream EXCEPT ![d] = Append(stream[d], hand[c])]
      /\ hand' = [hand EXCEPT ![c] = 0]
      /\ tempS' = [tempS EXCEPT ![c] = tempS[c] - 1]
      /\ \/ sender' = [sender EXCEPT ![c] = "ready"]
         \/ tempS[c] > 1 /\ sender' = [sender EXCEPT ![c] = "batch"]
  BY DEF SendPacket, ThreadStep, Permits, Peer
<1>2. /\ MainTypes' /\ Serving' /\ OwnEntry'
      /\ UNCHANGED <<main, cur, kind, left, replied, terminateThreads>>
  <2>1. \A x \in Conns : sender[x] = "none" => sender'[x] = "none"
    BY <1>1 DEF SocketTypes
  <2> QED  BY <1>1, <2>1, ThreadFrame
<1>3. hand[c] \in Conns
  BY <1>1 DEF OneInHand, SocketTypes, Conns
<1>4. d = open[fdOf[c]]
  OBVIOUS
<1> HIDE DEF d
<1>5. stream' \in [Conns -> Seq(Conns)]
  <2>1. stream \in [Conns -> Seq(Conns)]
    BY DEF SocketTypes
  <2>2. CASE d \in Conns
    <3>1. stream[d] \in Seq(Conns)
      BY <2>1, <2>2
    <3>2. Append(stream[d], hand[c]) \in Seq(Conns)
      BY <1>3, <3>1, AppendProperties
    <3> QED  BY <1>1, <2>1, <3>2
  <2>3. CASE d \notin Conns
    BY <1>1, <2>1, <2>3
  <2> QED  BY <2>2, <2>3
<1>6. SocketTypes'
  <2>1. tempS[c] \in Nat /\ tempS[c] > 0
    BY <1>1 DEF OneInHand, InBatch, SocketTypes
  <2>2. tempS' \in [Conns -> Nat]
    BY <1>1, <2>1 DEF SocketTypes
  <2>3. sender' \in [Conns -> {"none", "ready", "batch", "holding", "failing", "gone"}]
    BY <1>1 DEF SocketTypes
  <2>4. hand' \in [Conns -> 0..Connections]
    <3>1. hand \in [Conns -> 0..Connections] /\ 0 \in 0..Connections
      BY LifecycleAssumption DEF SocketTypes
    <3> QED  BY <1>1, <3>1
  <2>5. UNCHANGED <<queue, terminateThreads, reset, receiver, nlOwner, alive>>
    BY <1>1, <1>2
  <2> QED  BY <1>5, <2>2, <2>3, <2>4, <2>5 DEF SocketTypes
<1>7. OneInHand'
  BY <1>1 DEF OneInHand, InBatch, SocketTypes
<1>8. \A x \in Conns :
        /\ Occurs(x, stream[x]) \in Nat
        /\ Occurs(x, stream'[x]) = Occurs(x, stream[x])
             + (IF x = d /\ hand[c] = x THEN 1 ELSE 0)
  <2> SUFFICES ASSUME NEW x \in Conns
               PROVE  /\ Occurs(x, stream[x]) \in Nat
                      /\ Occurs(x, stream'[x]) = Occurs(x, stream[x])
                           + (IF x = d /\ hand[c] = x THEN 1 ELSE 0)
    OBVIOUS
  <2>1. stream[x] \in Seq(Conns) /\ Occurs(x, stream[x]) \in Nat
    BY CopiesNat
  <2>2. CASE x = d
    <3>1. stream'[x] = Append(stream[x], hand[c])
      BY <1>1, <2>2 DEF SocketTypes
    <3>2. Occurs(x, Append(stream[x], hand[c]))
            = Occurs(x, stream[x]) + (IF hand[c] = x THEN 1 ELSE 0)
      BY <1>3, <2>1, OccursAppend
    <3> QED  BY <2>1, <2>2, <3>1, <3>2
  <2>3. CASE x # d
    <3>1. stream'[x] = stream[x]
      BY <1>1, <2>3 DEF SocketTypes
    <3> QED  BY <2>1, <2>3, <3>1
  <2> QED  BY <2>2, <2>3
<1>9. main = "send" /\ kind[cur] = "RETR" => Copies(cur, cur)' >= Copies(cur, cur)
  <2> SUFFICES ASSUME main = "send", kind[cur] = "RETR"
               PROVE  Copies(cur, cur)' >= Copies(cur, cur)
    OBVIOUS
  <2>1. cur \in Conns /\ Copies(cur, cur) \in Nat /\ cur # 0
        /\ Occurs(cur, queue[cur]) \in Nat
    BY CopiesNat DEF Serving, Conns
  <2>2. c = cur => d = cur
    BY <1>4 DEF OwnEntry, fd
  <2>3. queue' = queue /\ cur' = cur
        /\ hand'[cur] = IF c = cur THEN 0 ELSE hand[cur]
    BY <1>1, <1>2, <2>1 DEF SocketTypes
  <2>4. Occurs(cur, stream'[cur]) >= Occurs(cur, stream[cur])
          + (IF c = cur /\ hand[cur] = cur THEN 1 ELSE 0)
        /\ Occurs(cur, stream'[cur]) \in Nat /\ Occurs(cur, stream[cur]) \in Nat
    BY <1>8, <2>1, <2>2
  <2>5. Copies(cur, cur)' = Occurs(cur, queue[cur]) + Occurs(cur, stream'[cur])
                            + (IF hand'[cur] = cur THEN 1 ELSE 0)
    BY <2>3 DEF Copies, Occurs
  <2>6. Copies(cur, cur) = Occurs(cur, queue[cur]) + Occurs(cur, stream[cur])
                           + (IF hand[cur] = cur THEN 1 ELSE 0)
    BY DEF Copies
  <2> QED  BY <2>1, <2>3, <2>4, <2>5, <2>6
<1>10. \A x \in Conns : Occurs(x, stream'[x]) >= Occurs(x, stream[x])
  BY <1>8
<1> QED  BY <1>1, <1>2, <1>6, <1>7, <1>9, <1>10, ThreadKeeps

LEMMA ThreadsPreserve ==
  ASSUME TransferInvariant, NEW c \in Conns, Threads(c)
  PROVE  TransferInvariant'
BY BindPreserves, CCPreserves, MovePreserves, TakePreserves, SendPreserves,
   ResetPreserves DEF Threads, Sender

-----------------------------------------------------------------------------
(* bftpd.                                                                  *)

\* A step that moves no packet keeps the counts.
LEMMA SameCounts ==
  ASSUME UNCHANGED <<queue, hand, stream>>
  PROVE  \A c, x : /\ Occurs(c, stream[x])' = Occurs(c, stream[x])
                   /\ Copies(c, x)' = Copies(c, x)
BY DEF Copies, Occurs

\* A new connection has its file before it, and an entry if it has a socket.
LEMMA OpenPreserves ==
  ASSUME TransferInvariant,
         \/ \E f \in Fds, k \in {"RETR", "LIST"} : alcc_accept(k, f)
         \/ \E f \in Fds : Connect(f)
         \/ AcceptFails
  PROVE  TransferInvariant'
<1> USE DEF TransferInvariant, TypeOK
<1>1. /\ UNCHANGED <<deletes, left, replied, queue, hand, tempS,
                     terminateThreads, nlOwner, stream, alive>>
      /\ main = "command" /\ cur < Connections /\ cur' = cur + 1
      /\ \/ sender' = sender \/ sender' = [sender EXCEPT ![cur'] = "ready"]
      /\ \/ receiver' = receiver \/ receiver' = [receiver EXCEPT ![cur'] = "starting"]
      /\ reset' = reset \/ reset' = FALSE
  BY DEF alcc_accept, Connect, Open, AcceptFails
<1>2. cur' \in Conns /\ cur \in 0..Connections
  BY <1>1, LifecycleAssumption DEF MainTypes, Conns
<1>3. PICK k \in Kinds : kind' = [kind EXCEPT ![cur'] = k]
  BY DEF alcc_accept, Connect, Open, AcceptFails, Kinds
<1>4. \/ main' = "command" /\ UNCHANGED <<fdOf, open, alccSocketList>>
      \/ \E f \in Fds :
           /\ fdOf' = [fdOf EXCEPT ![cur'] = f]
           /\ open' = [open EXCEPT ![f] = cur']
           /\ \/ /\ main' = "send" /\ k = "RETR"
                 /\ alccSocketList' = [alccSocketList EXCEPT ![f] = cur']
              \/ /\ main' = "list" /\ k = "LIST"
                 /\ alccSocketList' = [alccSocketList EXCEPT ![f] = cur']
              \/ /\ main' = "send" /\ k = "RETR_PORT"
                 /\ alccSocketList' = alccSocketList
  <2>1. kind'[cur'] = k
    BY <1>2, <1>3 DEF MainTypes
  <2>2. CASE AcceptFails
    BY <1>1, <2>2 DEF AcceptFails
  <2>3. ASSUME NEW f \in Fds, Connect(f)
        PROVE  /\ fdOf' = [fdOf EXCEPT ![cur'] = f]
               /\ open' = [open EXCEPT ![f] = cur']
               /\ main' = "send" /\ k = "RETR_PORT"
               /\ alccSocketList' = alccSocketList
    BY <1>2, <2>1, <2>3 DEF Connect, Open, MainTypes
  <2>4. ASSUME NEW f \in Fds, NEW j \in {"RETR", "LIST"}, alcc_accept(j, f)
        PROVE  /\ fdOf' = [fdOf EXCEPT ![cur'] = f]
               /\ open' = [open EXCEPT ![f] = cur']
               /\ main' = (IF j = "RETR" THEN "send" ELSE "list") /\ k = j
               /\ alccSocketList' = [alccSocketList EXCEPT ![f] = cur']
    BY <1>2, <2>1, <2>4 DEF alcc_accept, Open, MainTypes
  <2>5. ASSUME NEW f \in Fds, NEW j \in {"RETR", "LIST"}, alcc_accept(j, f)
        PROVE  \/ main' = "send" /\ k = "RETR"
               \/ main' = "list" /\ k = "LIST"
    BY <2>4, <2>5
  <2> QED  BY <2>2, <2>3, <2>4, <2>5
<1>5. MainTypes'
  <2>1. kind' \in [Conns -> Kinds \cup {"none"}]
    BY <1>3 DEF MainTypes
  <2>2. main' \in {"command", "list", "send", "close", "reply"}
    BY <1>4
  <2>3. /\ fdOf' \in [Conns -> Fds \cup {0}]
        /\ open' \in [Fds -> 0..Connections]
        /\ alccSocketList' \in [Fds -> 0..Connections]
    <3>1. /\ cur' \in 0..Connections
          /\ fdOf \in [Conns -> Fds \cup {0}]
          /\ open \in [Fds -> 0..Connections]
          /\ alccSocketList \in [Fds -> 0..Connections]
      BY <1>2 DEF MainTypes, Conns
    <3>2. CASE UNCHANGED <<fdOf, open, alccSocketList>>
      BY <3>1, <3>2
    <3>3. ASSUME NEW f \in Fds,
                 fdOf' = [fdOf EXCEPT ![cur'] = f],
                 open' = [open EXCEPT ![f] = cur'],
                 \/ alccSocketList' = [alccSocketList EXCEPT ![f] = cur']
                 \/ alccSocketList' = alccSocketList
          PROVE  /\ fdOf' \in [Conns -> Fds \cup {0}]
                 /\ open' \in [Fds -> 0..Connections]
                 /\ alccSocketList' \in [Fds -> 0..Connections]
      <4> HIDE DEF TransferInvariant
      <4>1. fdOf' \in [Conns -> Fds \cup {0}]
        BY <3>1, <3>3
      <4>2. open' \in [Fds -> 0..Connections]
        BY <3>1, <3>3
      <4>3. alccSocketList' \in [Fds -> 0..Connections]
        BY <3>1, <3>3
      <4> QED  BY <4>1, <4>2, <4>3
    <3> QED  BY <1>4, <3>2, <3>3
  <2>4. cur' \in 0..Connections /\ deletes' \in BOOLEAN
    BY <1>1, <1>2 DEF MainTypes, Conns
  <2> QED  BY <1>1, <2>1, <2>2, <2>3, <2>4 DEF MainTypes
<1>6. SocketTypes'
  BY <1>1, <1>2 DEF SocketTypes
<1>7. kind'[cur'] = k /\ \A c \in Conns : c # cur' => kind'[c] = kind[c]
  BY <1>2, <1>3 DEF MainTypes
<1>8. Serving' /\ OwnEntry'
  <2>1. Serving'
    <3>1. main' # "command" => cur' \in Conns
      BY <1>2
    <3>2. main' = "list" => kind'[cur'] = "LIST"
      BY <1>1, <1>4, <1>7
    <3>3. replied' \subseteq 1..cur'
      BY <1>1, <1>2, LifecycleAssumption DEF Serving
    <3>4. ASSUME NEW c \in Conns, c > cur'
          PROVE  left'[c] = FileLen /\ sender'[c] = "none"
      <4>1. c > cur /\ c # cur'
        BY <1>1, <1>2, <3>4, LifecycleAssumption DEF Conns
      <4> QED  BY <1>1, <4>1 DEF Serving, SocketTypes
    <3> QED  BY <3>1, <3>2, <3>3, <3>4 DEF Serving
  <2>2. OwnEntry'
    <3> SUFFICES ASSUME main' = "send", kind'[cur'] = "RETR"
                 PROVE  open'[fdOf'[cur']] = cur' /\ alccSocketList'[fdOf'[cur']] = cur'
      BY DEF OwnEntry, fd, Found
    <3>1. PICK f \in Fds : /\ fdOf' = [fdOf EXCEPT ![cur'] = f]
                           /\ open' = [open EXCEPT ![f] = cur']
                           /\ alccSocketList' = [alccSocketList EXCEPT ![f] = cur']
      BY <1>4, <1>7
    <3> QED  BY <1>2, <3>1 DEF MainTypes
  <2> QED  BY <2>1, <2>2
<1>9. OneInHand'
  <2> SUFFICES ASSUME NEW c \in Conns
               PROVE  /\ hand'[c] # 0 <=> sender'[c] \in {"holding", "failing"}
                      /\ InBatch(c)' => tempS'[c] > 0
    BY DEF OneInHand
  <2>1. CASE c = cur'
    <3>1. c > cur
      BY <1>1, <1>2, <2>1, LifecycleAssumption
    <3>2. sender[c] = "none"
      BY <3>1 DEF Serving
    <3>3. hand'[c] = 0
      BY <1>1, <3>2 DEF OneInHand
    <3>4. sender'[c] \in {"none", "ready"}
      BY <1>1, <2>1, <3>2 DEF SocketTypes
    <3> QED  BY <3>3, <3>4 DEF InBatch
  <2>2. CASE c # cur'
    <3>1. sender'[c] = sender[c]
      BY <1>1, <2>2 DEF SocketTypes
    <3> QED  BY <1>1, <3>1 DEF OneInHand, InBatch
  <2> QED  BY <2>1, <2>2
<1>10. NearlyComplete'
  <2>1. main' \notin {"close", "reply"} /\ left'[cur'] = FileLen
    BY <1>1, <1>2, <1>4 DEF Serving, MainTypes
  <2>2. Copies(cur', cur') \in Nat /\ FileLen \in Nat
    BY <1>2, CopiesNat, LifecycleAssumption
  <2>3. Copies(cur, cur)' = Copies(cur', cur')
    BY <1>1 DEF Copies, Occurs
  <2> QED  BY <2>1, <2>2, <2>3 DEF NearlyComplete
<1>11. AtMostOneMissing'
  <2> SUFFICES ASSUME NEW c \in replied, kind'[c] = "RETR"
               PROVE  Occurs(c, stream[c])' >= FileLen - 1
    BY <1>1 DEF AtMostOneMissing
  <2>1. c \in Conns /\ c # cur'
    BY <1>1, <1>2 DEF Serving, MainTypes
  <2>2. kind[c] = "RETR"
    BY <1>7, <2>1
  <2> QED  BY <1>1, <2>2, SameCounts DEF AtMostOneMissing
<1> QED  BY <1>5, <1>6, <1>8, <1>9, <1>10, <1>11

\* What the steps of bftpd after a connection is open have in common: all but
\* alcc_send move no packet.
LEMMA RestPreserves ==
  ASSUME TransferInvariant,
         UNCHANGED <<deletes, cur, kind, left, fdOf, alccSocketList, queue,
                     senderVars, reset, receiver, nlOwner, stream>>,
         open' \in [Fds -> 0..Connections],
         terminateThreads' \in [Conns -> BOOLEAN],
         alive' \in BOOLEAN,
         \/ UNCHANGED <<main, open, replied>>
         \/ main = "send" /\ main' = "command" /\ UNCHANGED replied
         \/ main \in {"list", "reply"} /\ main' = "command" /\ replied' = replied \cup {cur}
         \/ /\ main = "send" /\ main' = "close" /\ UNCHANGED replied
            /\ kind[cur] = "RETR" => Occurs(cur, stream[cur]) >= FileLen - 1
         \/ main = "close" /\ main' = "reply" /\ UNCHANGED replied
  PROVE  TransferInvariant'
<1> USE DEF TransferInvariant, TypeOK, senderVars
<1>1. main # "command" => cur \in Conns
  BY DEF Serving
<1>2. MainTypes'
  <2>1. main' \in {"command", "list", "send", "close", "reply"}
    BY DEF MainTypes
  <2>2. replied' \subseteq Conns
    BY <1>1 DEF MainTypes
  <2> QED  BY <2>1, <2>2 DEF MainTypes
<1>3. SocketTypes'
  BY DEF SocketTypes
<1>4. Serving'
  <2>1. main' # "command" => cur' \in Conns
    BY <1>1
  <2>2. main' = "list" => kind'[cur'] = "LIST"
    BY DEF Serving
  <2>3. replied' \subseteq 1..cur'
    <3>1. main # "command" => cur \in 1..cur
      BY <1>1, LifecycleAssumption DEF Conns
    <3> QED  BY <3>1 DEF Serving
  <2> QED  BY <2>1, <2>2, <2>3 DEF Serving
<1>5. OwnEntry' /\ OneInHand'
  BY DEF OwnEntry, OneInHand, InBatch, fd, Found
<1>6. \A c, x : /\ Occurs(c, stream[x])' = Occurs(c, stream[x])
                /\ Copies(c, x)' = Copies(c, x)
  BY SameCounts
<1>7. /\ Copies(cur, cur)' = Copies(cur, cur)
      /\ Occurs(cur, stream[cur])' = Occurs(cur, stream[cur])
  BY DEF Copies, Occurs
<1>8. NearlyComplete'
  BY <1>7 DEF NearlyComplete
<1>9. AtMostOneMissing'
  <2> SUFFICES ASSUME NEW c \in replied', kind[c] = "RETR"
               PROVE  Occurs(c, stream[c]) >= FileLen - 1
    BY <1>6 DEF AtMostOneMissing
  <2>1. CASE c \in replied
    BY <2>1 DEF AtMostOneMissing
  <2>2. CASE c \notin replied
    <3>1. c = cur /\ main \in {"list", "reply"}
      BY <2>2
    <3> QED  BY <3>1 DEF Serving, NearlyComplete
  <2> QED  BY <2>1, <2>2
<1> QED  BY <1>2, <1>3, <1>4, <1>5, <1>8, <1>9

\* A list, an aborted transfer, a missing entry, the deletion of the ALCCSocket,
\* the closing of the descriptor, the reply, and waiting.
LEMMA QuietMainPreserves ==
  ASSUME TransferInvariant,
         \/ Abort \/ FinishList \/ NoEntry \/ AwaitDrain \/ CloseSocket
         \/ DeleteSocket \/ Reply \/ Done
  PROVE  TransferInvariant'
<1> DEFINE Shut == [open EXCEPT ![fd] = 0]
<1>1. /\ open \in [Fds -> 0..Connections] /\ Shut \in [Fds -> 0..Connections]
      /\ terminateThreads \in [Conns -> BOOLEAN] /\ alive \in BOOLEAN
  <2>1. open \in [Fds -> 0..Connections]
    BY DEF TransferInvariant, TypeOK, MainTypes
  <2>2. 0 \in 0..Connections
    BY LifecycleAssumption
  <2>3. Shut \in [Fds -> 0..Connections]
    BY <2>1, <2>2
  <2>4. terminateThreads \in [Conns -> BOOLEAN] /\ alive \in BOOLEAN
    BY DEF TransferInvariant, TypeOK, SocketTypes
  <2> QED  BY <2>1, <2>3, <2>4
<1>2. /\ UNCHANGED <<deletes, cur, kind, left, fdOf, alccSocketList, queue,
                     senderVars, reset, receiver, nlOwner, stream, terminateThreads>>
      /\ open' = open \/ open' = Shut
      /\ alive' = alive \/ alive' = FALSE
      /\ \/ UNCHANGED <<main, open, replied>>
         \/ main = "send" /\ main' = "command" /\ UNCHANGED replied
         \/ main \in {"list", "reply"} /\ main' = "command" /\ replied' = replied \cup {cur}
         \/ main = "close" /\ main' = "reply" /\ UNCHANGED replied
  BY DEF Abort, FinishList, NoEntry, AwaitDrain, CloseSocket, DeleteSocket, Reply,
         Done, vars, mainVars, senderVars
<1> HIDE DEF Shut
<1> QED  BY <1>1, <1>2, RestPreserves

\* alcc_close found the queue empty: what is not in the stream is in the hand.
LEMMA StopPreserves ==
  ASSUME TransferInvariant, StopThreads
  PROVE  TransferInvariant'
<1> USE DEF TransferInvariant, TypeOK
<1>1. /\ UNCHANGED <<deletes, cur, kind, left, fdOf, alccSocketList, queue,
                     senderVars, reset, receiver, nlOwner, stream, open, alive, replied>>
      /\ main = "send" /\ main' = "close" /\ left[cur] = 0 /\ queue[Found] = <<>>
      /\ terminateThreads' = [terminateThreads EXCEPT ![Found] = TRUE]
  BY DEF StopThreads
<1>2. /\ open' \in [Fds -> 0..Connections] /\ terminateThreads' \in [Conns -> BOOLEAN]
      /\ alive' \in BOOLEAN
  BY <1>1 DEF MainTypes, SocketTypes
<1>3. kind[cur] = "RETR" => Occurs(cur, stream[cur]) >= FileLen - 1
  <2> SUFFICES ASSUME kind[cur] = "RETR"
               PROVE  Occurs(cur, stream[cur]) >= FileLen - 1
    OBVIOUS
  <2>1. cur \in Conns /\ Found = cur /\ Copies(cur, cur) + left[cur] >= FileLen
    BY <1>1 DEF Serving, OwnEntry, NearlyComplete
  <2>2. Occurs(cur, queue[cur]) = 0
    BY <1>1, <2>1, OccursEmpty
  <2>3. Occurs(cur, stream[cur]) \in Nat /\ FileLen \in Nat
    BY <2>1, CopiesNat, LifecycleAssumption
  <2> QED  BY <1>1, <2>1, <2>2, <2>3 DEF Copies
<1> QED  BY <1>1, <1>2, <1>3, RestPreserves

\* alcc_send: the packet read from the file is put into a queue, its own in
\* the passive mode.
LEMMA AlccSendPreserves ==
  ASSUME TransferInvariant, alcc_send
  PROVE  TransferInvariant'
<1> USE DEF TransferInvariant, TypeOK
<1>1. /\ UNCHANGED <<deletes, main, cur, kind, fdOf, open, alccSocketList, replied,
                     sender, hand, tempS, terminateThreads, reset, receiver, nlOwner,
                     stream, alive>>
      /\ main = "send" /\ left[cur] > 0
      /\ queue' = [queue EXCEPT ![Found] = Append(queue[Found], cur)]
      /\ left' = [left EXCEPT ![cur] = left[cur] - 1]
  BY DEF alcc_send, senderVars
<1>2. cur \in Conns /\ left[cur] \in 1..FileLen /\ FileLen \in Nat
  BY <1>1, LifecycleAssumption DEF Serving, MainTypes
<1>3. left' \in [Conns -> 0..FileLen] /\ left'[cur] = left[cur] - 1
  <2>1. left[cur] - 1 \in 0..FileLen
    BY <1>2
  <2> QED  BY <1>1, <1>2, <2>1 DEF MainTypes
<1>4. queue' \in [Conns -> Seq(Conns)]
  <2>1. queue \in [Conns -> Seq(Conns)]
    BY DEF SocketTypes
  <2>2. CASE Found \in Conns
    <3>1. Append(queue[Found], cur) \in Seq(Conns)
      BY <1>2, <2>1, <2>2, AppendProperties
    <3> QED  BY <1>1, <2>1, <3>1
  <2>3. CASE Found \notin Conns
    BY <1>1, <2>1, <2>3
  <2> QED  BY <2>2, <2>3
<1>5. MainTypes' /\ SocketTypes'
  BY <1>1, <1>3, <1>4 DEF MainTypes, SocketTypes
<1>6. Serving'
  <2>1. ASSUME NEW c \in Conns, c > cur
        PROVE  left'[c] = FileLen /\ sender'[c] = "none"
    <3>1. c # cur
      BY <1>2, <2>1, LifecycleAssumption DEF Conns
    <3>2. left'[c] = left[c]
      BY <1>1, <3>1 DEF MainTypes
    <3> QED  BY <1>1, <2>1, <3>2 DEF Serving
  <2>2. main' # "command" => cur' \in Conns
    BY <1>1, <1>2
  <2> QED  BY <1>1, <2>1, <2>2 DEF Serving
<1>7. OwnEntry' /\ OneInHand'
  BY <1>1 DEF OwnEntry, OneInHand, InBatch, fd, Found
<1>8. NearlyComplete'
  <2> SUFFICES ASSUME kind[cur] = "RETR"
               PROVE  Copies(cur, cur)' + left'[cur] >= FileLen
    BY <1>1 DEF NearlyComplete
  <2>1. Found = cur /\ Copies(cur, cur) + left[cur] >= FileLen
    BY <1>1 DEF OwnEntry, NearlyComplete
  <2>2. queue[cur] \in Seq(Conns) /\ Occurs(cur, queue[cur]) \in Nat
        /\ Occurs(cur, stream[cur]) \in Nat
    BY <1>2, CopiesNat
  <2>3. Occurs(cur, Append(queue[cur], cur)) = Occurs(cur, queue[cur]) + 1
    BY <1>2, <2>2, OccursAppend
  <2>4. queue'[cur] = Append(queue[cur], cur)
    BY <1>1, <1>2, <2>1 DEF SocketTypes
  <2>5. Copies(cur, cur)' = Occurs(cur, queue'[cur]) + Occurs(cur, stream[cur])
                            + (IF hand[cur] = cur THEN 1 ELSE 0)
    BY <1>1 DEF Copies, Occurs
  <2>6. Copies(cur, cur) = Occurs(cur, queue[cur]) + Occurs(cur, stream[cur])
                           + (IF hand[cur] = cur THEN 1 ELSE 0)
    BY DEF Copies
  <2> QED  BY <1>2, <1>3, <2>1, <2>2, <2>3, <2>4, <2>5, <2>6
<1>9. AtMostOneMissing'
  <2>1. \A c : Occurs(c, stream[c])' = Occurs(c, stream[c])
    BY <1>1 DEF Occurs
  <2> QED  BY <1>1, <2>1 DEF AtMostOneMissing
<1> QED  BY <1>5, <1>6, <1>7, <1>8, <1>9

-----------------------------------------------------------------------------
LEMMA NextPreserves ==
  ASSUME TransferInvariant, [Next]_vars
  PROVE  TransferInvariant'
<1>1. CASE UNCHANGED vars
  BY <1>1 DEF vars, mainVars, senderVars, TransferInvariant, TypeOK, MainTypes,
              SocketTypes, Serving, OwnEntry, Found, fd, OneInHand, InBatch, NearlyComplete,
              AtMostOneMissing, Copies, Occurs
<1>2. CASE Main
  BY <1>2, OpenPreserves, QuietMainPreserves, StopPreserves, AlccSendPreserves DEF Main
<1>3. CASE (\E c \in Conns : Threads(c)) \/ Reset
  BY <1>3, ThreadsPreserve, ResetPreserves
<1>4. CASE Done
  BY <1>4, QuietMainPreserves
<1> QED  BY <1>1, <1>2, <1>3, <1>4 DEF Next

\* The part of it that transfers rest on holds in every session.
LEMMA TransferHolds == Spec => []TransferInvariant
<1>1. TransferInvariant /\ [Next]_vars => TransferInvariant'
  BY NextPreserves
<1> QED  BY InitEstablishes, <1>1, PTL DEF Spec

\* Every variable keeps the type of the member or list it stands for.
THEOREM TypeCorrect == Spec => []TypeOK
<1>1. TransferInvariant => TypeOK
  BY DEF TransferInvariant
<1> QED  BY TransferHolds, <1>1, PTL

\* When the control connection reports a passive RETR successful, at most one
\* packet of the file is not in the stream of its data connection: alcc_close
\* waits for an empty queue, and pkt_sender takes one packet at a time.
THEOREM AtMostOnePacketMissing == Spec => []AtMostOneMissing
<1>1. TransferInvariant => AtMostOneMissing
  BY DEF TransferInvariant
<1> QED  BY TransferHolds, <1>1, PTL

-----------------------------------------------------------------------------
(* The places of packets.                                                  *)

\* What the steps do to a queue, a stream or a hand.
Appended(q, x, v) == [q EXCEPT ![x] = Append(q[x], v)]
Advanced(q, x)    == [q EXCEPT ![x] = Tail(q[x])]
Put(h, x, v)      == [h EXCEPT ![x] = v]

\* What that adds to a count of packets of file c.
One(v, c) == IF v = c THEN 1 ELSE 0

LEMMA PairEqual ==
  ASSUME NEW a, NEW b, NEW c, NEW d, <<a, b>> = <<c, d>>
  PROVE  a = c /\ b = d
OBVIOUS

LEMMA PlacesFinite ==
  ASSUME NEW q \in [Conns -> Seq(Conns)], NEW c
  PROVE  IsFiniteSet(Places(c, q)) /\ Cardinality(Places(c, q)) \in Nat
<1> DEFINE At(x) == {x} \X {i \in DOMAIN q[x] : q[x][i] = c}
           T == {At(x) : x \in Conns}
           f == [x \in Conns |-> At(x)]
<1>1. IsFiniteSet(Conns)
  BY LifecycleAssumption, FS_Interval DEF Conns
<1>2. ASSUME NEW x \in Conns
      PROVE  IsFiniteSet(At(x))
  <2>1. IsFiniteSet({x})
    BY FS_Singleton
  <2>2. IsFiniteSet({i \in DOMAIN q[x] : q[x][i] = c})
    BY OccursNat
  <2> QED  BY <2>1, <2>2, FS_Product, Zenon
<1>3. f \in Surjection(Conns, T)
  BY Zenon DEF Surjection
<1>4. IsFiniteSet(T)
  BY <1>1, <1>3, FS_Surjection, Zenon
<1>5. \A S \in T : IsFiniteSet(S)
  BY <1>2
<1>6. Places(c, q) = UNION T
  BY DEF Places
<1> HIDE DEF T
<1>7. IsFiniteSet(Places(c, q))
  BY <1>4, <1>5, <1>6, FS_UNION, Zenon
<1> QED  BY <1>7, FS_CardinalityType, Zenon

\* A packet put at the end of a sequence is in one place more.
LEMMA PlacesAppend ==
  ASSUME NEW q \in [Conns -> Seq(Conns)], NEW x \in Conns, NEW v \in Conns,
         NEW c \in Conns
  PROVE  Cardinality(Places(c, Appended(q, x, v))) =
           Cardinality(Places(c, q)) + One(v, c)
<1> DEFINE r == Appended(q, x, v)
<1>r. r = [q EXCEPT ![x] = Append(q[x], v)]
  BY DEF Appended
<1> HIDE DEF r
<1> DEFINE n == Len(q[x]) + 1
           new == <<x, n>>
           Q == Places(c, q)
           R == Places(c, r)
<1>1. /\ DOMAIN q[x] = 1..Len(q[x]) /\ DOMAIN r[x] = 1..n /\ Len(q[x]) \in Nat
      /\ r[x][n] = v /\ \A i \in 1..Len(q[x]) : r[x][i] = q[x][i]
      /\ r[x] \in Seq(Conns)
  <2>1. q[x] \in Seq(Conns) /\ r[x] = Append(q[x], v)
    BY <1>r
  <2> QED  BY <2>1, AppendProperties
<1>2. \A y \in Conns : y # x => r[y] = q[y]
  BY <1>r
<1>3. r \in [Conns -> Seq(Conns)]
  BY <1>1, <1>r
<1>at. /\ \A p : p \in Q <=> \E y \in Conns, i \in Nat :
                    i \in DOMAIN q[y] /\ q[y][i] = c /\ p = <<y, i>>
       /\ \A p : p \in R <=> \E y \in Conns, i \in Nat :
                    i \in DOMAIN r[y] /\ r[y][i] = c /\ p = <<y, i>>
  <2>1. \A y \in Conns : /\ DOMAIN q[y] = 1..Len(q[y])
                          /\ DOMAIN r[y] = 1..Len(r[y])
    BY <1>3
  <2> QED  BY <2>1 DEF Places
<1>fin. /\ IsFiniteSet(Q) /\ Cardinality(Q) \in Nat
        /\ IsFiniteSet(R) /\ Cardinality(R) \in Nat
  BY <1>3, PlacesFinite
<1> HIDE DEF Q, R
<1>5. new \notin Q
  <2> SUFFICES ASSUME new \in Q
               PROVE  FALSE
    OBVIOUS
  <2>1. PICK y \in Conns, i \in Nat :
                            i \in DOMAIN q[y] /\ new = <<y, i>>
    BY <1>at
  <2>2. y = x /\ i = n
    BY <2>1
  <2> QED  BY <1>1, <2>1, <2>2
<1> HIDE DEF new, n
<1>6. \A p : p \in Q => p \in R
  <2> SUFFICES ASSUME NEW p, p \in Q
               PROVE  p \in R
    OBVIOUS
  <2>1. PICK y \in Conns, i \in Nat :
            i \in DOMAIN q[y] /\ q[y][i] = c /\ p = <<y, i>>
    BY <1>at
  <2>2. i \in DOMAIN r[y] /\ r[y][i] = c
    <3>1. CASE y = x
      BY <1>1, <2>1, <3>1 DEF n
    <3>2. CASE y # x
      BY <1>2, <2>1, <3>2
    <3> QED  BY <3>1, <3>2
  <2> QED  BY <2>1, <2>2, <1>at
<1>7. \A p \in R : p \in Q \/ (p = new /\ v = c)
  <2> SUFFICES ASSUME NEW p \in R
               PROVE  p \in Q \/ (p = new /\ v = c)
    OBVIOUS
  <2>1. PICK y \in Conns, i \in Nat :
            i \in DOMAIN r[y] /\ r[y][i] = c /\ p = <<y, i>>
    BY <1>at
  <2>2. CASE y = x /\ i = n
    BY <1>1, <2>1, <2>2 DEF new
  <2>3. CASE ~ (y = x /\ i = n)
    <3>1. i \in DOMAIN q[y] /\ q[y][i] = c
      <4>1. CASE y = x
        <5>1. i \in 1..n /\ i # n /\ r[x][i] = c
          BY <1>1, <2>1, <2>3, <4>1
        <5>2. i \in 1..Len(q[x])
          BY <1>1, <5>1 DEF n
        <5> QED  BY <1>1, <4>1, <5>1, <5>2
      <4>2. CASE y # x
        BY <1>2, <2>1, <4>2
      <4> QED  BY <4>1, <4>2
    <3> QED  BY <2>1, <3>1, <1>at
  <2> QED  BY <2>2, <2>3
<1>8. v = c => new \in R
  <2>1. n \in DOMAIN r[x]
    BY <1>1 DEF n
  <2> QED  BY <1>1, <2>1, <1>at DEF new
<1>9. R = IF v = c THEN Q \cup {new} ELSE Q
  BY <1>6, <1>7, <1>8
<1>10. Cardinality(Q \cup {new}) = Cardinality(Q) + 1
  BY <1>fin, <1>5, FS_AddElement, Zenon
<1>11. Cardinality(R) = Cardinality(Q) + (IF v = c THEN 1 ELSE 0)
  BY <1>fin, <1>9, <1>10
<1> QED  BY <1>11 DEF Q, R, r, One

\* A packet taken from the front of a sequence is in one place less; the others
\* move up.
LEMMA PlacesTail ==
  ASSUME NEW q \in [Conns -> Seq(Conns)], NEW x \in Conns, q[x] # <<>>, NEW c
  PROVE  Cardinality(Places(c, Advanced(q, x))) =
           Cardinality(Places(c, q)) - One(Head(q[x]), c)
<1> DEFINE r == Advanced(q, x)
<1>r. r = [q EXCEPT ![x] = Tail(q[x])]
  BY DEF Advanced
<1> HIDE DEF r
<1> DEFINE n == Len(q[x])
           first == <<x, 1>>
           Q == Places(c, q)
           R == Places(c, r)
           S == Q \ {first}
           Back(p) == IF p[1] = x THEN <<x, p[2] + 1>> ELSE p
           f == [p \in R |-> Back(p)]
<1>1. /\ DOMAIN q[x] = 1..n /\ DOMAIN r[x] = 1..(n - 1) /\ n \in Nat \ {0}
      /\ Head(q[x]) = q[x][1] /\ \A i \in 1..(n - 1) : r[x][i] = q[x][i + 1]
      /\ r[x] \in Seq(Conns)
  <2>1. q[x] \in Seq(Conns) /\ r[x] = Tail(q[x])
    BY <1>r
  <2> QED  BY <2>1, HeadTailProperties
<1> HIDE DEF n
<1>2. \A y \in Conns : y # x => r[y] = q[y]
  BY <1>r
<1>3. r \in [Conns -> Seq(Conns)]
  BY <1>1, <1>r
<1>at. /\ \A p : p \in Q <=> \E y \in Conns, i \in Nat :
                    i \in DOMAIN q[y] /\ q[y][i] = c /\ p = <<y, i>>
       /\ \A p : p \in R <=> \E y \in Conns, i \in Nat :
                    i \in DOMAIN r[y] /\ r[y][i] = c /\ p = <<y, i>>
  <2>1. \A y \in Conns : /\ DOMAIN q[y] = 1..Len(q[y])
                          /\ DOMAIN r[y] = 1..Len(r[y])
    BY <1>3
  <2>2. \A p : p \in Q <=> \E y \in Conns, i \in Nat :
                    i \in DOMAIN q[y] /\ q[y][i] = c /\ p = <<y, i>>
    BY <2>1 DEF Places
  <2>3. \A p : p \in R <=> \E y \in Conns, i \in Nat :
                    i \in DOMAIN r[y] /\ r[y][i] = c /\ p = <<y, i>>
    <3> DEFINE I(y) == {i \in DOMAIN r[y] : r[y][i] = c}
    <3>1. \A y \in Conns : I(y) \in SUBSET Nat
      BY <2>1
    <3>2. R = UNION {{y} \X I(y) : y \in Conns}
      BY DEF Places
    <3> HIDE DEF I, R
    <3>3. \A p : p \in R <=> \E y \in Conns, i \in Nat : i \in I(y) /\ p = <<y, i>>
      BY <3>1, <3>2
    <3> QED  BY <3>3 DEF I
  <2> QED  BY <2>2, <2>3, Zenon
<1>fin. /\ IsFiniteSet(Q) /\ Cardinality(Q) \in Nat
        /\ IsFiniteSet(R) /\ Cardinality(R) \in Nat
  BY <1>3, PlacesFinite
<1> HIDE DEF Q, R
<1>5. first \in Q <=> Head(q[x]) = c
  <2>1. first \in Q => q[x][1] = c
    <3> SUFFICES ASSUME first \in Q
                 PROVE  q[x][1] = c
      OBVIOUS
    <3>1. PICK y \in Conns, i \in Nat :
            i \in DOMAIN q[y] /\ q[y][i] = c /\ first = <<y, i>>
      BY <1>at
    <3>2. y = x /\ i = 1
      BY <3>1
    <3> QED  BY <3>1, <3>2
  <2>2. q[x][1] = c => first \in Q
    <3>1. 1 \in DOMAIN q[x]
      BY <1>1
    <3> QED  BY <3>1, <1>at
  <2> QED  BY <1>1, <2>1, <2>2
\* Where a place was before.
<1>6. ASSUME NEW y \in Conns, NEW i \in DOMAIN r[y], r[y][i] = c
      PROVE  Back(<<y, i>>) \in S
  <2>1. CASE y = x
    <3>1. i + 1 \in DOMAIN q[x] /\ q[x][i + 1] = c /\ i + 1 # 1
      <4>1. i \in 1..(n - 1) /\ r[x][i] = c
        BY <1>1, <1>6, <2>1
      <4>2. i + 1 \in 1..n /\ i + 1 # 1
        BY <1>1, <4>1
      <4> QED  BY <1>1, <4>1, <4>2
    <3> DEFINE j == i + 1
    <3>2. j \in Nat /\ j \in DOMAIN q[x] /\ q[x][j] = c /\ j # 1
      BY <1>1, <3>1
    <3>3. Back(<<y, i>>) = <<x, j>>
      BY <2>1
    <3> HIDE DEF j
    <3>4. <<x, j>> \in Q
      BY <3>2, <1>at
    <3>5. <<x, j>> # first
      BY <3>2
    <3> QED  BY <3>3, <3>4, <3>5
  <2>2. CASE y # x
    <3>1. <<y, i>> \in Q
      BY <1>2, <1>6, <2>2, <1>at
    <3> QED  BY <2>2, <3>1
  <2> QED  BY <2>1, <2>2
<1>7. ASSUME NEW p \in R
      PROVE  \E y \in Conns : \E i \in Nat : p = <<y, i>> /\ Back(p) \in S
  <2>1. PICK y \in Conns, i \in Nat :
            i \in DOMAIN r[y] /\ r[y][i] = c /\ p = <<y, i>>
    BY <1>at
  <2> QED  BY <1>6, <2>1
<1>8. ASSUME NEW p \in R, NEW o \in R, Back(p) = Back(o)
      PROVE  p = o
  <2>1. PICK y \in Conns, i \in Nat : p = <<y, i>>
    BY <1>at
  <2>2. PICK z \in Conns, j \in Nat : o = <<z, j>>
    BY <1>at
  <2>3. Back(p) = IF y = x THEN <<x, i + 1>> ELSE <<y, i>>
    BY <2>1
  <2>4. Back(o) = IF z = x THEN <<x, j + 1>> ELSE <<z, j>>
    BY <2>2
  <2> HIDE DEF Back
  <2>5. CASE y = x /\ z = x
    <3>1. <<x, i + 1>> = <<x, j + 1>>
      BY <1>8, <2>3, <2>4, <2>5, Zenon
    <3>2. i + 1 = j + 1
      BY <3>1, PairEqual, Zenon
    <3> QED  BY <2>1, <2>2, <2>5, <3>2
  <2>6. CASE y = x /\ z # x
    <3>1. <<x, i + 1>> = <<z, j>>
      BY <1>8, <2>3, <2>4, <2>6, Zenon
    <3> QED  BY <2>6, <3>1, PairEqual, Zenon
  <2>7. CASE y # x /\ z = x
    <3>1. <<y, i>> = <<x, j + 1>>
      BY <1>8, <2>3, <2>4, <2>7, Zenon
    <3> QED  BY <2>7, <3>1, PairEqual, Zenon
  <2>8. CASE y # x /\ z # x
    <3>1. <<y, i>> = <<z, j>>
      BY <1>8, <2>3, <2>4, <2>8, Zenon
    <3> QED  BY <2>1, <2>2, <3>1
  <2> QED  BY <2>5, <2>6, <2>7, <2>8
<1>9. ASSUME NEW s \in S
      PROVE  \E p \in R : Back(p) = s
  <2>1. PICK y \in Conns, i \in Nat :
            i \in DOMAIN q[y] /\ q[y][i] = c /\ s = <<y, i>>
    BY <1>at
  <2>2. CASE y = x
    <3>1. i \in 2..n
      <4>1. i # 1
        BY <2>1, <2>2
      <4> QED  BY <1>1, <2>1, <2>2, <4>1
    <3> DEFINE j == i - 1
    <3>2. j \in 1..(n - 1) /\ j + 1 = i
      <4>1. n \in Nat
        BY <1>1
      <4> QED  BY <3>1, <4>1
    <3> HIDE DEF j
    <3>3. j \in DOMAIN r[x] /\ r[x][j] = c
      BY <1>1, <2>1, <2>2, <3>2
    <3>4. <<x, j>> \in R
      BY <1>1, <3>2, <3>3, <1>at
    <3>5. Back(<<x, j>>) = s
      BY <2>1, <2>2, <3>2
    <3> QED  BY <3>4, <3>5
  <2>3. CASE y # x
    <3>1. s \in R
      BY <1>2, <2>1, <2>3, <1>at
    <3>2. Back(s) = s
      BY <2>1, <2>3
    <3> QED  BY <3>1, <3>2
  <2> QED  BY <2>2, <2>3
<1> HIDE DEF first
<1>10. f \in Bijection(R, S)
  <2> HIDE DEF S, Back
  <2>1. f \in [R -> S] /\ \A p \in R : f[p] = Back(p)
    BY <1>7
  <2>2. \A p, o \in R : f[p] = f[o] => p = o
    BY <1>8, <2>1
  <2>3. \A s \in S : \E p \in R : f[p] = s
    BY <1>9, <2>1
  <2> HIDE DEF f
  <2>4. DOMAIN f = R
    BY <2>1
  <2> QED
    BY <2>1, <2>2, <2>3, <2>4, Zenon DEF Bijection, Injection, IsInjective, Surjection
<1>11. ExistsBijection(R, S)
  BY <1>10, Zenon DEF ExistsBijection
<1> HIDE DEF f, Back
<1>12. IsFiniteSet(S) /\ Cardinality(S) = Cardinality(R)
  BY <1>fin, <1>11, FS_Bijection, Zenon
<1>13. Cardinality(S) = IF first \in Q THEN Cardinality(Q) - 1 ELSE Cardinality(Q)
  BY <1>fin, FS_RemoveElement, Zenon DEF S
<1>14. Cardinality(R) = Cardinality(Q) - (IF Head(q[x]) = c THEN 1 ELSE 0)
  BY <1>fin, <1>5, <1>12, <1>13
<1> QED  BY <1>14 DEF Q, R, r, One

\* The sockets that have a packet of file c in hand.
Holders(c, h) == {x \in Conns : h[x] = c}

\* A packet comes into an empty hand, or leaves one.
LEMMA HandPut ==
  ASSUME NEW h \in [Conns -> 0..Connections], NEW y \in Conns, NEW v \in Conns,
         h[y] = 0, NEW c \in Conns
  PROVE  /\ Cardinality(Holders(c, h)) \in Nat
         /\ Cardinality(Holders(c, Put(h, y, v))) =
              Cardinality(Holders(c, h)) + One(v, c)
<1> DEFINE H == Holders(c, h)
           G == Holders(c, Put(h, y, v))
<1>1. IsFiniteSet(Conns)
  BY LifecycleAssumption, FS_Interval DEF Conns
<1>2. H \in SUBSET Conns
  BY DEF Holders
<1>3. y \notin H /\ c # 0
  BY DEF Conns, Holders
<1>4. G = IF v = c THEN H \cup {y} ELSE H
  BY <1>3 DEF Holders, Put
<1> HIDE DEF H, G
<1>5. IsFiniteSet(H) /\ Cardinality(H) \in Nat
  BY <1>1, <1>2, FS_Subset, FS_CardinalityType, Zenon
<1>6. Cardinality(H \cup {y}) = Cardinality(H) + 1
  BY <1>3, <1>5, FS_AddElement, Zenon
<1>7. Cardinality(G) = Cardinality(H) + (IF v = c THEN 1 ELSE 0)
  BY <1>4, <1>5, <1>6
<1> QED  BY <1>5, <1>7 DEF H, G, One

LEMMA HandDrop ==
  ASSUME NEW h \in [Conns -> 0..Connections], NEW y \in Conns, h[y] \in Conns,
         NEW c \in Conns
  PROVE  /\ Cardinality(Holders(c, h)) \in Nat
         /\ Cardinality(Holders(c, Put(h, y, 0))) =
              Cardinality(Holders(c, h)) - One(h[y], c)
<1> DEFINE v == h[y]
           g == Put(h, y, 0)
           H == Cardinality(Holders(c, h))
           G == Cardinality(Holders(c, g))
<1>1. g \in [Conns -> 0..Connections] /\ g[y] = 0 /\ v \in Conns
  BY LifecycleAssumption DEF Put
<1>2. h = Put(g, y, v)
  BY DEF Put
<1> HIDE DEF v, g
<1>3. G \in Nat /\ Cardinality(Holders(c, Put(g, y, v)))
                     = G + One(v, c)
  <2>1. /\ g \in [Conns -> 0..Connections] /\ y \in Conns /\ v \in Conns
        /\ g[y] = 0 /\ c \in Conns
    BY <1>1
  <2> HIDE DEF H
  <2> QED  BY <2>1, HandPut
<1>4. H = G + One(v, c)
  BY <1>2, <1>3, Zenon
<1> HIDE DEF G, H
<1>5. H \in Nat /\ G = H - One(v, c)
  BY <1>3, <1>4 DEF One
<1> QED  BY <1>5, Zenon DEF v, g, G, H

\* The numbers that NothingDuplicated adds.
LEMMA AccountNat ==
  ASSUME TypeOK, NEW c \in Conns
  PROVE  /\ Cardinality(Places(c, queue)) \in Nat
         /\ Cardinality(Places(c, stream)) \in Nat
         /\ Cardinality({x \in Conns : hand[x] = c}) \in Nat
         /\ left[c] \in 0..FileLen /\ FileLen \in Nat
<1>1. /\ queue \in [Conns -> Seq(Conns)] /\ stream \in [Conns -> Seq(Conns)]
      /\ left[c] \in 0..FileLen /\ FileLen \in Nat
  BY LifecycleAssumption DEF TypeOK, SocketTypes, MainTypes
<1>2. IsFiniteSet(Conns)
  BY LifecycleAssumption, FS_Interval DEF Conns
<1> DEFINE H == {x \in Conns : hand[x] = c}
<1>3. H \in SUBSET Conns
  OBVIOUS
<1> HIDE DEF H
<1>4. Cardinality(H) \in Nat
  BY <1>2, <1>3, FS_Subset, FS_CardinalityType, Zenon
<1>5. Cardinality(Places(c, queue)) \in Nat /\ Cardinality(Places(c, stream)) \in Nat
  BY <1>1, PlacesFinite
<1> QED  BY <1>1, <1>4, <1>5 DEF H

-----------------------------------------------------------------------------
(* No packet is duplicated.                                                *)

LEMMA InitAccount == Init => OnDescriptor /\ NothingDuplicated
<1> SUFFICES ASSUME Init
             PROVE  OnDescriptor /\ NothingDuplicated
  OBVIOUS
<1>1. OnDescriptor
  BY DEF Init, OnDescriptor
<1>2. ASSUME NEW c \in Conns
      PROVE  /\ Places(c, queue) = {} /\ Places(c, stream) = {}
             /\ {x \in Conns : hand[x] = c} = {}
             /\ FileLen - left[c] = 0
  <2>1. c # 0 /\ FileLen \in Nat
    BY LifecycleAssumption DEF Conns
  <2>2. /\ \A x \in Conns : queue[x] = <<>> /\ stream[x] = <<>> /\ hand[x] = 0
        /\ left[c] = FileLen
    BY DEF Init
  <2>3. \A x \in Conns : DOMAIN queue[x] = {} /\ DOMAIN stream[x] = {}
    BY <2>2
  <2>4. Places(c, queue) = {}
    BY <2>3 DEF Places
  <2>5. Places(c, stream) = {}
    BY <2>3 DEF Places
  <2> QED  BY <2>1, <2>2, <2>4, <2>5
<1>3. Cardinality({}) = 0
  BY FS_EmptySet
<1>4. NothingDuplicated
  BY <1>2, <1>3 DEF NothingDuplicated
<1> QED  BY <1>1, <1>4

\* Steps that move no packet.
LEMMA SameAccount ==
  ASSUME NothingDuplicated, UNCHANGED <<queue, stream, hand, left>>
  PROVE  NothingDuplicated'
BY DEF NothingDuplicated, Places

LEMMA SameDescriptor ==
  ASSUME OnDescriptor, UNCHANGED <<cur, fdOf, alccSocketList>>,
         main' = "send" => main = "send",
         \A c \in Conns : /\ queue'[c] # <<>> => queue[c] # <<>> \/ hand[c] # 0
                          /\ hand'[c] # 0 => queue[c] # <<>> \/ hand[c] # 0
  PROVE  OnDescriptor'
BY DEF OnDescriptor, fd

LEMMA TakeAccount ==
  ASSUME TransferInvariant, OnDescriptor, NothingDuplicated,
         NEW c \in Conns, Take(c)
  PROVE  OnDescriptor' /\ NothingDuplicated'
<1> USE DEF TransferInvariant
<1>1. /\ UNCHANGED <<main, cur, left, fdOf, alccSocketList, stream>>
      /\ sender[c] = "batch" /\ queue[c] # <<>>
      /\ hand' = [hand EXCEPT ![c] = Head(queue[c])]
      /\ queue' = [queue EXCEPT ![c] = Tail(queue[c])]
  BY DEF Take, ThreadStep, Quiet, mainVars
<1>2. /\ queue \in [Conns -> Seq(Conns)] /\ hand \in [Conns -> 0..Connections]
      /\ hand[c] = 0
  BY <1>1 DEF TypeOK, SocketTypes, OneInHand
<1>3. Head(queue[c]) \in Conns
  BY <1>1, <1>2, HeadTailProperties
<1>4. OnDescriptor'
  <2>1. \A x \in Conns : x # c => queue'[x] = queue[x] /\ hand'[x] = hand[x]
    BY <1>1, <1>2
  <2> QED  BY <1>1, <2>1, SameDescriptor
<1>5. ASSUME NEW x \in Conns
      PROVE  Cardinality(Places(x, queue')) + Cardinality(Places(x, stream))
               + Cardinality({y \in Conns : hand'[y] = x}) = FileLen - left[x]
  <2> DEFINE v == Head(queue[c])
             hs == Cardinality({y \in Conns : hand'[y] = x})
  <2>1. Cardinality(Places(x, queue')) =
          Cardinality(Places(x, queue)) - One(v, x)
    <3>1. Cardinality(Places(x, Advanced(queue, c))) =
            Cardinality(Places(x, queue)) - One(v, x)
      BY <1>1, <1>2, PlacesTail, Zenon
    <3>2. queue' = Advanced(queue, c)
      BY <1>1, Zenon DEF Advanced
    <3> QED  BY <3>1, <3>2, Zenon
  <2>2. hs = Cardinality({y \in Conns : hand[y] = x}) + One(v, x)
    <3>2. hand' = Put(hand, c, v) /\ v \in Conns
      BY <1>1, <1>3, Zenon DEF Put
    <3> HIDE DEF v
    <3>1. Cardinality(Holders(x, Put(hand, c, v))) =
            Cardinality(Holders(x, hand)) + One(v, x)
      BY <1>2, <3>2, HandPut, Zenon
    <3> QED  BY <3>1, <3>2, Zenon DEF Holders
  <2>3. Cardinality(Places(x, queue)) + Cardinality(Places(x, stream))
          + Cardinality({y \in Conns : hand[y] = x}) = FileLen - left[x]
    BY DEF NothingDuplicated
  <2> HIDE DEF v, hs
  <2> DEFINE a == Cardinality(Places(x, queue))
             b == Cardinality(Places(x, stream))
             h == Cardinality({y \in Conns : hand[y] = x})
             r == Cardinality(Places(x, queue'))
  <2>4. a \in Nat /\ b \in Nat /\ h \in Nat
    BY AccountNat
  <2> HIDE DEF a, b, h, r
  <2>5. r + b + hs = a + b + h
    <3>1. r = a - One(v, x) /\ hs = h + One(v, x)
      BY <2>1, <2>2 DEF a, h, r
    <3> QED  BY <2>4, <3>1 DEF One
  <2> QED  BY <2>3, <2>5 DEF a, b, h, r, hs
<1>6. NothingDuplicated'
  <2>1. UNCHANGED <<stream, left>>
    BY <1>1
  <2> QED  BY <1>5, <2>1 DEF NothingDuplicated, Places
<1> QED  BY <1>4, <1>6

LEMMA SendAccount ==
  ASSUME TransferInvariant, OnDescriptor, NothingDuplicated,
         NEW c \in Conns, SendPacket(c)
  PROVE  OnDescriptor' /\ NothingDuplicated'
<1> USE DEF TransferInvariant
<1> DEFINE d == open[fdOf[c]]
<1>1. /\ UNCHANGED <<main, cur, left, fdOf, alccSocketList, queue>>
      /\ sender[c] \in {"holding", "failing"} /\ d # 0
      /\ stream' = [stream EXCEPT ![d] = Append(stream[d], hand[c])]
      /\ hand' = [hand EXCEPT ![c] = 0]
  BY DEF SendPacket, ThreadStep, Quiet, Peer, mainVars
<1>2. /\ stream \in [Conns -> Seq(Conns)] /\ hand \in [Conns -> 0..Connections]
      /\ hand[c] # 0 /\ hand[c] \in Conns
  BY <1>1 DEF TypeOK, SocketTypes, OneInHand, Conns
<1>3. d \in Conns
  <2>1. fdOf[c] \in Fds
    BY <1>2 DEF OnDescriptor
  <2>2. d \in 0..Connections
    BY <2>1 DEF TypeOK, MainTypes
  <2> QED  BY <1>1, <2>2, LifecycleAssumption DEF Conns
<1> HIDE DEF d
<1>4. OnDescriptor'
  <2>1. \A x \in Conns : hand'[x] # 0 => hand[x] # 0
    BY <1>1, <1>2
  <2> QED  BY <1>1, <2>1, SameDescriptor
<1>5. ASSUME NEW x \in Conns
      PROVE  Cardinality(Places(x, queue)) + Cardinality(Places(x, stream'))
               + Cardinality({y \in Conns : hand'[y] = x}) = FileLen - left[x]
  <2> DEFINE pkt == hand[c]
             hs == Cardinality({y \in Conns : hand'[y] = x})
  <2>1. Cardinality(Places(x, stream')) =
          Cardinality(Places(x, stream)) + One(pkt, x)
    <3>1. pkt \in Conns /\ d \in Conns /\ stream \in [Conns -> Seq(Conns)]
      BY <1>2, <1>3, Zenon
    <3>2. stream' = Appended(stream, d, pkt)
      BY <1>1, Zenon DEF Appended
    <3> HIDE DEF pkt
    <3>3. Cardinality(Places(x, Appended(stream, d, pkt))) =
            Cardinality(Places(x, stream)) + One(pkt, x)
      BY <3>1, PlacesAppend, Zenon
    <3> QED  BY <3>2, <3>3, Zenon
  <2>2. hs = Cardinality({y \in Conns : hand[y] = x}) - One(pkt, x)
    <3>1. Cardinality(Holders(x, Put(hand, c, 0))) =
            Cardinality(Holders(x, hand)) - One(pkt, x)
      BY <1>2, HandDrop, Zenon
    <3>2. hand' = Put(hand, c, 0)
      BY <1>1, Zenon DEF Put
    <3> QED  BY <3>1, <3>2, Zenon DEF Holders
  <2>3. Cardinality(Places(x, queue)) + Cardinality(Places(x, stream))
          + Cardinality({y \in Conns : hand[y] = x}) = FileLen - left[x]
    BY DEF NothingDuplicated
  <2> HIDE DEF pkt, hs
  <2> DEFINE a == Cardinality(Places(x, queue))
             b == Cardinality(Places(x, stream))
             h == Cardinality({y \in Conns : hand[y] = x})
             r == Cardinality(Places(x, stream'))
  <2>4. a \in Nat /\ b \in Nat /\ h \in Nat
    BY AccountNat
  <2> HIDE DEF a, b, h, r
  <2>5. a + r + hs = a + b + h
    <3>1. r = b + One(pkt, x) /\ hs = h - One(pkt, x)
      BY <2>1, <2>2 DEF b, h, r
    <3> QED  BY <2>4, <3>1 DEF One
  <2> QED  BY <2>3, <2>5 DEF a, b, h, r, hs
<1>6. NothingDuplicated'
  <2>1. UNCHANGED <<queue, left>>
    BY <1>1
  <2> QED  BY <1>5, <2>1 DEF NothingDuplicated, Places
<1> QED  BY <1>4, <1>6

\* alcc_send puts the packet into one queue, be it that of another connection.
LEMMA AlccSendAccount ==
  ASSUME TransferInvariant, OnDescriptor, NothingDuplicated, alcc_send
  PROVE  OnDescriptor' /\ NothingDuplicated'
<1> USE DEF TransferInvariant
<1>1. /\ UNCHANGED <<main, cur, fdOf, alccSocketList, stream, hand>>
      /\ main = "send" /\ Found # 0 /\ left[cur] > 0
      /\ queue' = [queue EXCEPT ![Found] = Append(queue[Found], cur)]
      /\ left' = [left EXCEPT ![cur] = left[cur] - 1]
  BY DEF alcc_send, senderVars
<1>2. /\ queue \in [Conns -> Seq(Conns)] /\ cur \in Conns
      /\ left \in [Conns -> 0..FileLen]
  BY <1>1 DEF TypeOK, SocketTypes, MainTypes, Serving
<1>3. Found \in Conns /\ fdOf[Found] \in Fds
  <2>1. fd \in Fds
    BY <1>1 DEF OnDescriptor
  <2>2. Found \in 0..Connections
    BY <2>1 DEF TypeOK, MainTypes, Found
  <2> QED  BY <1>1, <2>1, <2>2, LifecycleAssumption DEF Conns, OnDescriptor, Found
<1>4. OnDescriptor'
  <2>1. ASSUME NEW x \in Conns, queue'[x] # <<>> \/ hand'[x] # 0
        PROVE  fdOf'[x] \in Fds
    <3>1. CASE x = Found
      BY <1>1, <1>3, <3>1
    <3>2. CASE x # Found
      BY <1>1, <1>2, <2>1, <3>2 DEF OnDescriptor
    <3> QED  BY <3>1, <3>2
  <2> QED  BY <1>1, <2>1 DEF OnDescriptor, fd
<1>5. ASSUME NEW x \in Conns
      PROVE  Cardinality(Places(x, queue')) + Cardinality(Places(x, stream))
               + Cardinality({y \in Conns : hand[y] = x}) = FileLen - left'[x]
  <2>1. Cardinality(Places(x, queue')) =
          Cardinality(Places(x, queue)) + One(cur, x)
    <3> DEFINE y == Found
    <3>1. /\ queue' = Appended(queue, y, cur)
          /\ y \in Conns /\ cur \in Conns /\ queue \in [Conns -> Seq(Conns)]
      BY <1>1, <1>2, <1>3, Zenon DEF Appended
    <3> HIDE DEF y
    <3>2. Cardinality(Places(x, Appended(queue, y, cur))) =
            Cardinality(Places(x, queue)) + One(cur, x)
      BY <3>1, PlacesAppend, Zenon
    <3> QED  BY <3>1, <3>2, Zenon
  <2>2. left'[x] = left[x] - One(cur, x)
    BY <1>1, <1>2, LifecycleAssumption DEF One
  <2>3. Cardinality(Places(x, queue)) + Cardinality(Places(x, stream))
          + Cardinality({y \in Conns : hand[y] = x}) = FileLen - left[x]
    BY DEF NothingDuplicated
  <2> DEFINE a == Cardinality(Places(x, queue))
             b == Cardinality(Places(x, stream))
             h == Cardinality({y \in Conns : hand[y] = x})
             r == Cardinality(Places(x, queue'))
             l == left'[x]
  <2>4. a \in Nat /\ b \in Nat /\ h \in Nat /\ left[x] \in Nat /\ FileLen \in Nat
    BY AccountNat
  <2> HIDE DEF a, b, h, r, l
  <2>5. r + b + h = FileLen - l
    <3>1. /\ r = a + One(cur, x) /\ l = left[x] - One(cur, x)
          /\ a + b + h = FileLen - left[x]
      BY <2>1, <2>2, <2>3 DEF a, b, h, r, l
    <3> QED  BY <2>4, <3>1 DEF One
  <2> QED  BY <2>5 DEF b, h, r, l
<1>6. NothingDuplicated'
  <2>1. UNCHANGED <<stream, hand>>
    BY <1>1
  <2>2. /\ stream' = stream /\ hand' = hand
    BY <2>1
  <2>3. ASSUME NEW x \in Conns
        PROVE  /\ Places(x, queue)' = Places(x, queue')
               /\ Places(x, stream)' = Places(x, stream)
               /\ {y \in Conns : hand[y] = x}' = {y \in Conns : hand[y] = x}
    BY <2>2 DEF Places
  <2> HIDE DEF TransferInvariant
  <2> QED  BY <1>5, <2>3 DEF NothingDuplicated
<1> QED  BY <1>4, <1>6

\* A new connection comes with a descriptor, or without packets.
LEMMA OpenAccount ==
  ASSUME TransferInvariant, OnDescriptor, NothingDuplicated,
         \/ \E f \in Fds, k \in {"RETR", "LIST"} : alcc_accept(k, f)
         \/ \E f \in Fds : Connect(f)
         \/ AcceptFails
  PROVE  OnDescriptor' /\ NothingDuplicated'
<1> USE DEF TransferInvariant
<1>1. /\ UNCHANGED <<queue, stream, hand, left>>
      /\ main = "command" /\ cur < Connections /\ cur' = cur + 1
  BY DEF alcc_accept, Connect, Open, AcceptFails
<1>2. /\ cur' \in Conns
      /\ fdOf \in [Conns -> Fds \cup {0}] /\ alccSocketList \in [Fds -> 0..Connections]
  BY <1>1, LifecycleAssumption DEF TypeOK, MainTypes, Conns
<1>3. ASSUME AcceptFails
      PROVE  OnDescriptor'
  <2>1. /\ UNCHANGED <<queue, hand, fdOf, alccSocketList>> /\ main' # "send"
    BY <1>1, <1>3 DEF AcceptFails
  <2> QED  BY <2>1 DEF OnDescriptor
<1>4. ASSUME NEW f \in Fds,
             fdOf' = [fdOf EXCEPT ![cur'] = f],
             \/ alccSocketList' = [alccSocketList EXCEPT ![f] = cur']
             \/ alccSocketList' = alccSocketList
      PROVE  OnDescriptor'
  <2>1. fdOf'[cur'] = f /\ \A x \in Conns : x # cur' => fdOf'[x] = fdOf[x]
    BY <1>2, <1>4
  <2>2. ASSUME NEW g \in Fds, alccSocketList'[g] # 0
        PROVE  fdOf'[alccSocketList'[g]] \in Fds
    <3>1. CASE alccSocketList'[g] = cur'
      BY <2>1, <3>1
    <3>2. CASE alccSocketList'[g] # cur'
      <4>1. alccSocketList'[g] = alccSocketList[g]
        BY <1>2, <1>4, <3>2
      <4>2. alccSocketList[g] \in Conns /\ fdOf[alccSocketList[g]] \in Fds
        BY <1>2, <2>2, <4>1, LifecycleAssumption DEF OnDescriptor, Conns
      <4> QED  BY <2>1, <3>2, <4>1, <4>2
    <3> QED  BY <3>1, <3>2
  <2>3. ASSUME NEW x \in Conns, queue[x] # <<>> \/ hand[x] # 0
        PROVE  fdOf'[x] \in Fds
    BY <1>4, <2>1, <2>3 DEF OnDescriptor
  <2> QED  BY <1>1, <2>1, <2>2, <2>3 DEF OnDescriptor, fd
<1>5. ASSUME NEW f \in Fds, NEW k \in {"RETR", "LIST"}, alcc_accept(k, f)
      PROVE  OnDescriptor'
  BY <1>4, <1>5 DEF alcc_accept, Open
<1>6. ASSUME NEW f \in Fds, Connect(f)
      PROVE  OnDescriptor'
  BY <1>4, <1>6 DEF Connect, Open
<1> QED  BY <1>1, <1>3, <1>5, <1>6, SameAccount

LEMMA NextAccount ==
  ASSUME TransferInvariant, OnDescriptor, NothingDuplicated, [Next]_vars
  PROVE  OnDescriptor' /\ NothingDuplicated'
<1>1. ASSUME UNCHANGED <<cur, left, fdOf, alccSocketList, queue, hand, stream>>,
             main' = "send" => main = "send"
      PROVE  OnDescriptor' /\ NothingDuplicated'
  BY <1>1, SameAccount, SameDescriptor
<1>2. CASE \/ Abort \/ FinishList \/ NoEntry \/ AwaitDrain \/ StopThreads \/ CloseSocket
           \/ DeleteSocket \/ Reply \/ Reset \/ Done \/ UNCHANGED vars
  <2>1. /\ UNCHANGED <<cur, left, fdOf, alccSocketList, queue, hand, stream>>
        /\ main' = "send" => main = "send"
    BY <1>2 DEF Abort, FinishList, NoEntry, AwaitDrain, StopThreads, CloseSocket,
                DeleteSocket, Reply, Reset, Quiet, Done, vars, mainVars, senderVars
  <2> QED  BY <1>1, <2>1
<1>3. ASSUME NEW c \in Conns, Threads(c)
      PROVE  OnDescriptor' /\ NothingDuplicated'
  <2>1. CASE Take(c)
    BY <2>1, TakeAccount
  <2>2. CASE SendPacket(c)
    BY <2>2, SendAccount
  <2>3. CASE \/ Bind(c) \/ CC_logic(c) \/ StartBatch(c) \/ EndBatch(c)
             \/ SendFails(c) \/ BrokenPipe(c) \/ Exit(c)
    <3>1. /\ UNCHANGED <<cur, left, fdOf, alccSocketList, queue, hand, stream>>
          /\ main' = "send" => main = "send"
      BY <2>3 DEF Bind, CC_logic, StartBatch, EndBatch, SendFails, BrokenPipe, Exit,
                  ThreadStep, Quiet, mainVars, senderVars
    <3> QED  BY <1>1, <3>1
  <2> QED  BY <1>3, <2>1, <2>2, <2>3 DEF Threads, Sender
<1>4. CASE Main
  BY <1>2, <1>4, OpenAccount, AlccSendAccount DEF Main
<1> QED  BY <1>2, <1>3, <1>4 DEF Next

\* The inductive invariant holds in every session.
THEOREM InvariantHolds == Spec => []LifecycleInvariant
<1>1. Init => LifecycleInvariant
  BY InitEstablishes, InitAccount DEF LifecycleInvariant
<1>2. LifecycleInvariant /\ [Next]_vars => LifecycleInvariant'
  BY NextPreserves, NextAccount DEF LifecycleInvariant
<1> QED  BY <1>1, <1>2, PTL DEF Spec

\* Whatever descriptors are reused and transfers aborted, a packet that the
\* server read from a file is in one place: it is not sent twice, and it does not
\* vanish from the process but through a stream.
THEOREM OncePerPacket == Spec => []NothingDuplicated
<1>1. LifecycleInvariant => NothingDuplicated
  BY DEF LifecycleInvariant
<1> QED  BY InvariantHolds, <1>1, PTL
=============================================================================
