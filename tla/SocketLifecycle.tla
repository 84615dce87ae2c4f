--------------------------- MODULE SocketLifecycle ---------------------------
(***************************************************************************)
(* The life of ALCC sockets inside one bftpd process, which serves one     *)
(* control connection and opens a data connection per command:             *)
(* alcc_accept makes an ALCCSocket and starts its threads, alcc_send finds *)
(* it again by file descriptor in alccSocketList, alcc_close waits for the *)
(* queue to drain, stops the threads and closes the descriptor.  Nothing   *)
(* joins the threads, closes their netlink socket or erases the list entry.*)
(*                                                                         *)
(* Data connection c is the c-th of the session.  A packet is named after  *)
(* the file (the connection) it was read for.  How CC_logic computes tempS *)
(* is the matter of AlccSocket; here it makes of tempS whatever it likes,  *)
(* perhaps never anything, once the ack_receiver of its socket listens.    *)
(***************************************************************************)
EXTENDS Integers, Sequences, FiniteSets

CONSTANTS Connections,  \* how many data connections the session opens (bound)
          FileLen,      \* packets in each file (bound)
          Fds,          \* descriptors the process may be given
          Commands,     \* what the data connections are for: see Kinds
          MaxPermits,   \* the most packets tempS may permit (bound)
          Deletes       \* the builds: TRUE where alcc_close deletes the
                        \* ALCCSocket (libalcc.cpp, libalcc_copa.cpp), FALSE
                        \* where that line is commented out (verus)

\* RETR over PASV, RETR over PORT, LIST over PASV, and a PASV command whose
\* accept fails.
Kinds == {"RETR", "RETR_PORT", "LIST", "REFUSED"}

ASSUME LifecycleAssumption ==
    /\ Connections \in Nat \ {0}
    /\ FileLen \in Nat \ {0}
    /\ MaxPermits \in Nat \ {0}
    /\ Commands \subseteq Kinds
    /\ Deletes \subseteq BOOLEAN

VARIABLES deletes,         \* the build: one of Deletes
          main,            \* what the only thread of bftpd itself is doing
          cur, kind,       \* the data connection it serves; c -> what c is for
          left,            \* c -> packets of its file not yet passed to alcc_send
          fdOf,            \* c -> the descriptor c was given
          open,            \* fd -> the connection it is open on, 0 for none
          alccSocketList,  \* fd -> the ALCCSocket last accepted on it, 0 for none
          queue,           \* c -> packets in sending_queue
          sender, hand,    \* c -> where pkt_sender is, and the packet it holds
          tempS,           \* c -> packets its pkt_sender may still send
          terminateThreads,
          reset,           \* has the client reset the open data connection?
          receiver,        \* c -> how ack_receiver fared
          nlOwner,         \* whose netlink socket is bound to getpid(), 0 for none
          stream,          \* c -> packets written to the data connection
          replied,         \* connections whose transfer was reported successful
          alive            \* FALSE once the process has crashed or aborted

mainVars   == <<deletes, main, cur, kind, left, fdOf, open, alccSocketList, replied>>
senderVars == <<sender, hand, tempS>>
vars == <<mainVars, queue, senderVars, terminateThreads, reset, receiver, nlOwner,
          stream, alive>>

Conns == 1..Connections
fd    == fdOf[cur]
\* The ALCCSocket that alcc_send and alcc_close find for the connection.
Found == alccSocketList[fd]

Init == /\ deletes \in Deletes
        /\ main = "command" /\ cur = 0
        /\ left = [c \in Conns |-> FileLen]
        /\ kind = [c \in Conns |-> "none"]
        /\ fdOf = [c \in Conns |-> 0]
        /\ open = [f \in Fds |-> 0]
        /\ alccSocketList = [f \in Fds |-> 0]
        /\ queue = [c \in Conns |-> <<>>]
        /\ sender = [c \in Conns |-> "none"]
        /\ hand = [c \in Conns |-> 0]
        /\ tempS = [c \in Conns |-> 1]
        /\ terminateThreads = [c \in Conns |-> FALSE]
        /\ reset = FALSE
        /\ receiver = [c \in Conns |-> "none"]
        /\ nlOwner = 0
        /\ stream = [c \in Conns |-> <<>>]
        /\ replied = {}
        /\ alive = TRUE

-----------------------------------------------------------------------------
(* bftpd: dataconn, the loop of RETR, and LIST.                            *)

\* A command opens the next data connection on some free descriptor.
Open(k, f) ==
    /\ alive
    /\ main = "command" /\ cur < Connections
    /\ open[f] = 0
    /\ cur' = cur + 1
    /\ kind' = [kind EXCEPT ![cur'] = k]
    /\ fdOf' = [fdOf EXCEPT ![cur'] = f]
    /\ open' = [open EXCEPT ![f] = cur']
    /\ reset' = FALSE
    /\ UNCHANGED <<deletes, left, queue, hand, tempS, terminateThreads,
                   nlOwner, stream, replied, alive>>

\* alcc_accept: a new ALCCSocket with both its threads.
alcc_accept(k, f) ==
    /\ k \in {"RETR", "LIST"}
    /\ Open(k, f)
    /\ alccSocketList' = [alccSocketList EXCEPT ![f] = cur']
    /\ sender' = [sender EXCEPT ![cur'] = "ready"]
    /\ receiver' = [receiver EXCEPT ![cur'] = "starting"]
    /\ main' = IF k = "RETR" THEN "send" ELSE "list"

\* In active mode bftpd connects a plain socket and RETR uses it all the same.
Connect(f) ==
    /\ Open("RETR_PORT", f)
    /\ main' = "send"
    /\ UNCHANGED <<alccSocketList, sender, receiver>>

\* When ::accept fails, alcc_accept makes an ALCCSocket all the same, for
\* descriptor -1; dataconn reports 425.
AcceptFails ==
    /\ alive
    /\ main = "command" /\ cur < Connections
    /\ cur' = cur + 1
    /\ kind' = [kind EXCEPT ![cur'] = "REFUSED"]
    /\ sender' = [sender EXCEPT ![cur'] = "ready"]
    /\ receiver' = [receiver EXCEPT ![cur'] = "starting"]
    /\ UNCHANGED <<deletes, main, left, fdOf, open, alccSocketList, replied, queue, hand,
                   tempS, terminateThreads, reset, nlOwner, stream, alive>>

\* do_dirlist writes to the descriptor itself and closes it with fclose.
FinishList ==
    /\ alive
    /\ main = "list"
    /\ main' = "command"
    /\ open' = [open EXCEPT ![fd] = 0]
    /\ replied' = replied \cup {cur}
    /\ UNCHANGED <<deletes, cur, kind, left, fdOf, alccSocketList, queue, senderVars,
                   terminateThreads, reset, receiver, nlOwner, stream, alive>>

\* Without an entry the ALCCSocket pointer is uninitialised.
NoEntry ==
    /\ alive
    /\ main = "send" /\ Found = 0
    /\ alive' = FALSE
    /\ UNCHANGED <<mainVars, queue, senderVars, terminateThreads, reset, receiver,
                   nlOwner, stream>>

\* Mutation: the loop of RETR reads past the end of the file.
SendPastEnd ==
    /\ alive
    /\ main = "send" /\ Found # 0
    /\ queue' = [queue EXCEPT ![Found] = Append(@, cur)]
    /\ left' = [left EXCEPT ![cur] = @ - 1]
    /\ UNCHANGED <<deletes, main, cur, kind, fdOf, open, alccSocketList, replied,
                   senderVars, terminateThreads, reset, receiver, nlOwner, stream, alive>>

alcc_send ==
    /\ alive
    /\ main = "send" /\ Found # 0 /\ left[cur] > 0
    /\ queue' = [queue EXCEPT ![Found] = Append(@, cur)]
    /\ left' = [left EXCEPT ![cur] = @ - 1]
    /\ UNCHANGED <<deletes, main, cur, kind, fdOf, open, alccSocketList, replied,
                   senderVars, terminateThreads, reset, receiver, nlOwner, stream, alive>>

\* The client sends ABOR and test_abort closes the descriptor, not the ALCCSocket.
Abort ==
    /\ alive
    /\ main = "send" /\ left[cur] > 0
    /\ main' = "command"
    /\ open' = [open EXCEPT ![fd] = 0]
    /\ UNCHANGED <<deletes, cur, kind, left, fdOf, alccSocketList, replied, queue,
                   senderVars, terminateThreads, reset, receiver, nlOwner, stream, alive>>

\* Mutation: alcc_close does not wait for the queue to drain.
StopAtOnce ==
    /\ alive
    /\ main = "send" /\ Found # 0 /\ left[cur] = 0
    /\ terminateThreads' = [terminateThreads EXCEPT ![Found] = TRUE]
    /\ main' = "close"
    /\ UNCHANGED <<deletes, cur, kind, left, fdOf, open, alccSocketList, replied, queue,
                   senderVars, reset, receiver, nlOwner, stream, alive>>

\* alcc_close, once it finds the queue empty, tells the threads to stop ...
StopThreads ==
    /\ alive
    /\ main = "send" /\ Found # 0 /\ left[cur] = 0
    /\ queue[Found] = <<>>
    /\ terminateThreads' = [terminateThreads EXCEPT ![Found] = TRUE]
    /\ main' = "close"
    /\ UNCHANGED <<deletes, cur, kind, left, fdOf, open, alccSocketList, replied, queue,
                   senderVars, reset, receiver, nlOwner, stream, alive>>

\* While the queue is not empty, alcc_close sleeps and looks again.
AwaitDrain ==
    /\ alive
    /\ main = "send" /\ Found # 0 /\ left[cur] = 0
    /\ queue[Found] # <<>>
    /\ UNCHANGED vars

\* ... then the descriptor is closed ...
CloseSocket ==
    /\ alive
    /\ main = "close" /\ ~ deletes
    /\ main' = "reply"
    /\ open' = [open EXCEPT ![fd] = 0]
    /\ UNCHANGED <<deletes, cur, kind, left, fdOf, alccSocketList, replied, queue,
                   senderVars, terminateThreads, reset, receiver, nlOwner, stream, alive>>

\* ... but not if the ALCCSocket is deleted before: its std::thread members are
\* joinable, and their destructors call std::terminate.
DeleteSocket ==
    /\ alive
    /\ main = "close" /\ deletes
    /\ alive' = FALSE
    /\ UNCHANGED <<mainVars, queue, senderVars, terminateThreads, reset, receiver,
                   nlOwner, stream>>

\* "226 BBB File transmission successful."
Reply ==
    /\ alive
    /\ main = "reply"
    /\ main' = "command"
    /\ replied' = replied \cup {cur}
    /\ UNCHANGED <<deletes, cur, kind, left, fdOf, open, alccSocketList, queue,
                   senderVars, terminateThreads, reset, receiver, nlOwner, stream, alive>>

-----------------------------------------------------------------------------
(* The threads of ALCCSocket c, at whatever point bftpd is.                *)

Quiet == alive /\ UNCHANGED <<mainVars, terminateThreads>>
ThreadStep == Quiet /\ UNCHANGED <<reset, alive>>

\* ack_receiver binds to getpid(): one socket of the process can have that.
Bind(c) ==
    /\ ThreadStep
    /\ receiver[c] = "starting"
    /\ IF nlOwner = 0
         THEN nlOwner' = c /\ receiver' = [receiver EXCEPT ![c] = "listening"]
         ELSE receiver' = [receiver EXCEPT ![c] = "failed"] /\ UNCHANGED nlOwner
    /\ UNCHANGED <<queue, senderVars, stream>>

InBatch(c) == sender[c] \in {"batch", "holding", "failing"}

\* CC_logic, which ack_receiver starts, adds permits, or takes them all away when
\* its arithmetic flips the sign of tempS; a batch that is under way goes on.
CC_logic(c) ==
    /\ ThreadStep
    /\ receiver[c] = "listening"
    /\ \E n \in 0..MaxPermits :
        /\ InBatch(c) => n > 0
        /\ tempS' = [tempS EXCEPT ![c] = n]
    /\ UNCHANGED <<queue, sender, hand, receiver, nlOwner, stream>>

\* while (tempS > 0 && !terminateThreads) sPkts = tempS
StartBatch(c) ==
    /\ ThreadStep
    /\ sender[c] = "ready" /\ ~ terminateThreads[c]
    /\ tempS[c] > 0
    /\ sender' = [sender EXCEPT ![c] = "batch"]
    /\ UNCHANGED <<queue, hand, tempS, receiver, nlOwner, stream>>

\* remove: pkt_sender takes a packet out of the queue.  Within a batch it does
\* not look at terminateThreads.
Take(c) ==
    /\ ThreadStep
    /\ sender[c] = "batch" /\ queue[c] # <<>>
    /\ hand' = [hand EXCEPT ![c] = Head(queue[c])]
    /\ queue' = [queue EXCEPT ![c] = Tail(@)]
    /\ sender' = [sender EXCEPT ![c] = "holding"]
    /\ UNCHANGED <<tempS, receiver, nlOwner, stream>>

\* Mutation: the thread ends with its first batch.
EndThread(c) ==
    /\ ThreadStep
    /\ sender[c] = "batch" /\ queue[c] = <<>>
    /\ sender' = [sender EXCEPT ![c] = "gone"]
    /\ UNCHANGED <<queue, hand, tempS, receiver, nlOwner, stream>>

\* The for loop finds the queue empty.
EndBatch(c) ==
    /\ ThreadStep
    /\ sender[c] = "batch" /\ queue[c] = <<>>
    /\ sender' = [sender EXCEPT ![c] = "ready"]
    /\ UNCHANGED <<queue, hand, tempS, receiver, nlOwner, stream>>

\* What the descriptor is open on by now.
Peer(c) == open[fdOf[c]]

\* A packet uses up a permit; the for loop may go on as long as some are left.
Permits(c) ==
    /\ tempS' = [tempS EXCEPT ![c] = @ - 1]
    /\ \/ sender' = [sender EXCEPT ![c] = "ready"]
       \/ tempS[c] > 1 /\ sender' = [sender EXCEPT ![c] = "batch"]

\* Mutation: the packet is kept and sent again.
SendAndKeep(c) ==
    /\ ThreadStep
    /\ sender[c] \in {"holding", "failing"}
    /\ Peer(c) # 0 /\ ~ reset
    /\ stream' = [stream EXCEPT ![Peer(c)] = Append(@, hand[c])]
    /\ Permits(c)
    /\ UNCHANGED <<queue, hand, receiver, nlOwner>>

\* ::send on whatever the descriptor is open on.
SendPacket(c) ==
    /\ ThreadStep
    /\ sender[c] \in {"holding", "failing"}
    /\ Peer(c) # 0 /\ ~ reset
    /\ stream' = [stream EXCEPT ![Peer(c)] = Append(@, hand[c])]
    /\ hand' = [hand EXCEPT ![c] = 0]
    /\ Permits(c)
    /\ UNCHANGED <<queue, receiver, nlOwner>>

\* ::send on a closed descriptor, or on a connection that was reset, returns -1,
\* which the loop adds to z; it tries again with the bytes before the packet.
SendFails(c) ==
    /\ ThreadStep
    /\ sender[c] = "holding"
    /\ Peer(c) = 0 \/ reset
    /\ sender' = [sender EXCEPT ![c] = "failing"]
    /\ UNCHANGED <<queue, hand, tempS, receiver, nlOwner, stream>>

\* Another ::send on a connection that was reset raises SIGPIPE, which bftpd
\* neither handles nor ignores.
BrokenPipe(c) ==
    /\ Quiet
    /\ sender[c] \in {"holding", "failing"}
    /\ Peer(c) # 0 /\ reset
    /\ alive' = FALSE
    /\ UNCHANGED <<queue, senderVars, reset, receiver, nlOwner, stream>>

Exit(c) ==
    /\ ThreadStep
    /\ sender[c] = "ready" /\ terminateThreads[c]
    /\ sender' = [sender EXCEPT ![c] = "gone"]
    /\ UNCHANGED <<queue, hand, tempS, receiver, nlOwner, stream>>

\* The client resets the connection of a file.
Reset ==
    /\ Quiet
    /\ main \in {"send", "close"}
    /\ reset' = TRUE
    /\ UNCHANGED <<queue, senderVars, receiver, nlOwner, stream, alive>>

-----------------------------------------------------------------------------
\* The session is over, or the process is.
Done == (main = "command" \/ ~ alive) /\ UNCHANGED vars

Main == \/ \E f \in Fds, k \in Commands \cap {"RETR", "LIST"} : alcc_accept(k, f)
        \/ \E f \in Fds : "RETR_PORT" \in Commands /\ Connect(f)
        \/ "REFUSED" \in Commands /\ AcceptFails
        \/ Abort \/ FinishList \/ NoEntry \/ alcc_send
        \/ AwaitDrain \/ StopThreads \/ CloseSocket \/ DeleteSocket \/ Reply

Sender(c) == \/ StartBatch(c) \/ Take(c) \/ EndBatch(c) \/ Exit(c)
             \/ SendPacket(c) \/ SendFails(c) \/ BrokenPipe(c)

Threads(c) == Bind(c) \/ CC_logic(c) \/ Sender(c)

Next == Main \/ (\E c \in Conns : Threads(c)) \/ Reset \/ Done

\* bftpd goes on with a command it has begun, and ack_receiver and pkt_sender
\* run; the latter spins on its test while CC_logic sleeps an epoch between its
\* steps, and so sees tempS positive if it is so for an epoch again and again.
Spec == /\ Init /\ [][Next]_vars
        /\ WF_vars(main # "command" /\ Main)
        /\ \A c \in Conns : /\ WF_vars(Bind(c))
                            /\ WF_vars(Sender(c)) /\ SF_vars(StartBatch(c))

-----------------------------------------------------------------------------
(* Properties.                                                             *)

MainTypes ==
    /\ deletes \in BOOLEAN
    /\ main \in {"command", "list", "send", "close", "reply"}
    /\ cur \in 0..Connections
    /\ kind \in [Conns -> Kinds \cup {"none"}]
    /\ left \in [Conns -> 0..FileLen]
    /\ fdOf \in [Conns -> Fds \cup {0}]
    /\ open \in [Fds -> 0..Connections]
    /\ alccSocketList \in [Fds -> 0..Connections]
    /\ replied \subseteq Conns

SocketTypes ==
    /\ queue \in [Conns -> Seq(Conns)]
    /\ sender \in [Conns -> {"none", "ready", "batch", "holding", "failing", "gone"}]
    /\ hand \in [Conns -> 0..Connections]
    /\ tempS \in [Conns -> Nat]
    /\ terminateThreads \in [Conns -> BOOLEAN]
    /\ reset \in BOOLEAN
    /\ receiver \in [Conns -> {"none", "starting", "listening", "failed"}]
    /\ nlOwner \in 0..Connections
    /\ stream \in [Conns -> Seq(Conns)]
    /\ alive \in BOOLEAN

TypeOK == MainTypes /\ SocketTypes

Occurs(c, s) == Cardinality({i \in DOMAIN s : s[i] = c})

\* The packets of file c in the queue, the hand and the stream of x.
Copies(c, x) == Occurs(c, queue[x]) + Occurs(c, stream[x])
                + (IF hand[x] = c THEN 1 ELSE 0)

\* Where the packets of file c are in the sequences of q: <<x, i>> is the i-th
\* place of queue x, or of stream x.
Places(c, q) == UNION {{x} \X {i \in DOMAIN q[x] : q[x][i] = c} : x \in Conns}

\* Every packet passed to alcc_send is in exactly one queue, thread or
\* stream, whichever ALCCSocket the lookup by descriptor gave it to.
NothingDuplicated ==
    \A c \in Conns :
        Cardinality(Places(c, queue)) + Cardinality(Places(c, stream))
            + Cardinality({x \in Conns : hand[x] = c}) = FileLen - left[c]

\* When bftpd reports a PASV transfer successful, alcc_close has seen the
\* queue empty: at most the one packet pkt_sender holds is not in the stream.
AtMostOneMissing ==
    \A c \in replied : kind[c] = "RETR" => Occurs(c, stream[c]) >= FileLen - 1

\* What that rests on.  The connection that is served ...
Serving ==
    /\ main # "command" => cur \in Conns
    /\ main = "list" => kind[cur] = "LIST"
    /\ replied \subseteq 1..cur
    /\ \A c \in Conns : c > cur => left[c] = FileLen /\ sender[c] = "none"

\* ... is found by its descriptor, if it came from alcc_accept; a thread has a
\* packet in its hand only between remove and ::send, and within its batch a
\* permit for it; ...
OwnEntry ==
    main = "send" /\ kind[cur] = "RETR" => open[fd] = cur /\ Found = cur

OneInHand ==
    \A c \in Conns : /\ hand[c] # 0 <=> sender[c] \in {"holding", "failing"}
                     /\ InBatch(c) => tempS[c] > 0

\* ... and none of its packets is lost before its threads are told to stop.
NearlyComplete ==
    main # "command" /\ kind[cur] = "RETR" =>
        /\ main = "send" => Copies(cur, cur) + left[cur] >= FileLen
        /\ main \in {"close", "reply"} => Occurs(cur, stream[cur]) >= FileLen - 1

\* Inductive: what a transfer in the passive mode rests on.
TransferInvariant ==
    /\ TypeOK
    /\ Serving /\ OwnEntry /\ OneInHand
    /\ NearlyComplete /\ AtMostOneMissing

\* A socket that bftpd looks up, or that has a packet, was given a descriptor, so
\* that ::send puts the packet into a stream or fails, and nowhere else.
OnDescriptor ==
    /\ main = "send" => fd \in Fds
    /\ \A f \in Fds : alccSocketList[f] # 0 => fdOf[alccSocketList[f]] \in Fds
    /\ \A c \in Conns : queue[c] # <<>> \/ hand[c] # 0 => fdOf[c] \in Fds

\* The inductive invariant.
LifecycleInvariant == TransferInvariant /\ OnDescriptor /\ NothingDuplicated

\* bftpd serves connection c, a PASV transfer.
Serves(c) == alive /\ cur = c /\ main = "send" /\ kind[c] = "RETR"

\* alcc_close waits for ever only for a sender that is out of permits for ever,
\* whatever commands, aborted ones included, came before, and however the client
\* treats its connections.
WaitsOnlyForPermits ==
    \A c \in Conns : <>[]Serves(c) => <>[](tempS[c] = 0)

\* When a transfer is reported successful (commands.c:1318), the client has
\* been sent all of it.
SuccessIsComplete ==
    \A c \in replied : kind[c] = "RETR" => Occurs(c, stream[c]) = FileLen

\* A directory list reported as submitted (commands.c:1360) holds no bytes of
\* a file transferred earlier.
OwnStream ==
    \A c \in replied : kind[c] = "LIST" => stream[c] = <<>>

\* The client may receive several files in a session (CHANGELOG:547): every
\* PASV transfer that is begun comes to an end, if CC_logic permits packets again
\* and again wherever an ack_receiver listens.
EveryTransferEnds ==
    (\A c \in Conns : []<>(receiver[c] = "listening" => tempS[c] > 0))
        => \A c \in Conns : Serves(c) ~> ~ Serves(c)
=============================================================================
