----------------------------- MODULE MCTimeStep -----------------------------
(* Small instances of TimeStep for TLC.                                     *)
EXTENDS TimeStep

\* Rebuild always, check every step, check every other step.
EveryDelay == 0 .. 2
=============================================================================
