---------------------------- MODULE MCCopaSocket ----------------------------
(* A Copa connection of a few packets of two bytes for TLC.                *)
EXTENDS CopaSocket

\* A full packet and one byte more, which leaves in a short packet unless the
\* next write comes in time.
OddWrites == {MTU + 1}
=============================================================================
