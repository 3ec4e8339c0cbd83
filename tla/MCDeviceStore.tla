---------------------------- MODULE MCDeviceStore ----------------------------
(* A small instance of DeviceStore. *)
EXTENDS DeviceStore, TLC

CONSTANTS p, q, n1, n2, r1, r2

Symmetry == Permutations(Phones) \cup Permutations(Networks) \cup Permutations(Relays)
=============================================================================
