-------------------------- MODULE MCCircularQueue --------------------------
(* A ring of five slots for TLC: small enough to wrap several times.        *)
EXTENDS CircularQueue

\* Every length that leaves the spare slot free.
FittingRequests == 1..(MAX - 1)
=============================================================================
