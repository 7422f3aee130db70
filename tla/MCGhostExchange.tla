-------------------------- MODULE MCGhostExchange --------------------------
(***************************************************************************)
(* Instances of GhostExchange for TLC.                                     *)
(***************************************************************************)
EXTENDS GhostExchange

(* Three domains by two.                                                   *)
Grid32 == <<<<0, 3, 6, 10>>, <<0, 3, 6>>, <<0, 1>>>>

(* Particle 0 has a ghost layer, particle 1 is a ghost for its bond only.  *)
Layers == {[t \in {0, 1} |-> 1 - t]}

(* A bonded pair anywhere in the box; the same particles without a bond.   *)
BondedPairs ==
  {[groups |-> <<<<0, 1>>>>, at |-> at] : at \in {p \in [{0, 1} -> Box] : Bonded(<<<<0, 1>>>>, p)}}

FreeParticles == {[groups |-> <<>>, at |-> [t \in {0, 1} |-> p]] : p \in Box}

PairSetups == BondedPairs \cup FreeParticles

=============================================================================
