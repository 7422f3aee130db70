--------------------------- MODULE MCParticleData ---------------------------
(* Small instances of ParticleData for TLC. *)
EXTENDS ParticleData, TLC
=============================================================================
