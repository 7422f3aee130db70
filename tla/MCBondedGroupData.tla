------------------------- MODULE MCBondedGroupData -------------------------
(* Small instances of BondedGroupData for TLC.                              *)
EXTENDS BondedGroupData, TLC

Perms == Permutations(Ranks) \cup Permutations(Particles)
=============================================================================
