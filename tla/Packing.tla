------------------------------ MODULE Packing ------------------------------
(***************************************************************************)
(* Selecting elements of an array in order, as the loops of                *)
(* ParticleData::removeParticles and of                                    *)
(* BondedGroupData::moveParticleGroups do.                                 *)
(***************************************************************************)
EXTENDS Integers, Sequences, FiniteSets

(* The elements of s at the places I, packed in order: the loop's counter  *)
(* puts element i at the number of places of I up to i.                    *)
Place(I, i) == Cardinality({j \in I : j <= i})

Packed(s, I) ==
  [k \in 1..Cardinality(I) |-> s[CHOOSE i \in I : Place(I, i) = k]]
=============================================================================
