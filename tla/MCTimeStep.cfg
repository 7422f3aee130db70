\* Two ranks, three steps in any number of runs, every tuner at every step.
CONSTANTS
  Ranks = {r1, r2}
  Delays <- EveryDelay
  MaxStep = 3
SPECIFICATION Spec
INVARIANTS CollectivesMatch ForcesUseCurrentIndices InvalidListOnlyWithinDelay DistanceCheckComparesSameParticles RCutIsFresh StepsEndWithCurrentForces
PROPERTIES RunsFinish
