----------------------------- MODULE MCGPUArray -----------------------------
(* Small instances of GPUArray for TLC. *)
EXTENDS GPUArray, TLC

Perms == Permutations(Arrays) \cup Permutations(Handles)
=============================================================================
