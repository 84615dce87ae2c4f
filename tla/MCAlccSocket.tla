---------------------------- MODULE MCAlccSocket ----------------------------
(* A connection of a few packets of two bytes for TLC.                     *)
EXTENDS AlccSocket

\* The application fills whole packets.
FullWrites == {MTU}
\* The application also leaves half-filled packets behind.
AnyWrites == {MTU, MTU - 1}
=============================================================================
