--------------------------- MODULE MCVerusSocket ---------------------------
(* A Verus connection of a few packets of two bytes for TLC.               *)
EXTENDS VerusSocket

\* The application fills whole packets.
FullWrites == {MTU}
\* The application also writes lengths that are no whole number of packets.
AnyWrites == {MTU - 1, MTU}
=============================================================================
