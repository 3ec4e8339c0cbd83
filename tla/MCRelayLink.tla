---------------------------- MODULE MCRelayLink ----------------------------
(* Model values for RelayLink: two addresses the access point may lease.   *)
EXTENDS RelayLink, TLC

CONSTANTS a1, a2

\* Runs without liveness properties do not tell the two addresses apart.
Symmetry == Permutations(Addrs)
=============================================================================
