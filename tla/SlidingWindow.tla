---------------------------- MODULE SlidingWindow ----------------------------
(***************************************************************************)
(* What an ALCC socket promises, whatever its controller decides and       *)
(* whatever its threads read of each other: packets leave one by one, the  *)
(* receiver counts a packet as delivered only once TCP has acknowledged    *)
(* all of it and never takes it back, and no packet leaves that is Bound   *)
(* or more packets ahead of what is counted.                               *)
(***************************************************************************)
EXTENDS Integers

CONSTANTS Bound     \* the most packets sent and not counted

VARIABLES sent,     \* packets passed to TCP
          acked,    \* packets acknowledged to the last byte
          counted   \* packets the receiver has counted as delivered

vars == <<sent, acked, counted>>

Init == sent = 0 /\ acked = 0 /\ counted = 0

\* pkt_sender passes the next packet to TCP.
Send == /\ sent < counted + Bound
        /\ sent' = sent + 1
        /\ UNCHANGED <<acked, counted>>

\* More may be acknowledged, and more of that counted.
Receive == /\ acked' \in acked..sent
           /\ counted' \in counted..acked'
           /\ UNCHANGED sent

Next == Send \/ Receive

Spec == Init /\ [][Next]_vars
=============================================================================
