SPECIFICATION Spec
CONSTANTS
  cuts <- Grid32
  Communicators = {"Communicator", "CommunicatorGPU"}
  Particles = {0, 1}
  GhostWidths <- Layers
  Setups <- PairSetups
  MaxBond = 1
  CrossLow = TRUE
  ThreeBody = {FALSE, TRUE}
  MaxSteps = 1
INVARIANTS BondedMembersAdjacent
CHECK_DEADLOCK FALSE
