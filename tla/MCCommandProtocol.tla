------------------------- MODULE MCCommandProtocol -------------------------
(* Instances of CommandProtocol for TLC.  Phones and tabs are only compared *)
(* for equality, so permuting them is sound.                               *)
EXTENDS CommandProtocol, TLC

MCSkews    == {0}
MCSkewed   == {-2, 0}

Symmetry == Permutations(Phones) \cup Permutations(Tabs)
=============================================================================
