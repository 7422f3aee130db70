SPECIFICATION Spec
CONSTANTS
  cuts <- Grid32
  Communicators = {"Communicator", "CommunicatorGPU"}
  Particles = {0, 1}
  GhostWidths <- Layers
  Setups <- PairSetups
  MaxBond = 1
  CrossLow = FALSE
  ThreeBody = {FALSE, TRUE}
  MaxSteps = 1
INVARIANTS GhostsReceivedOnce LookupFindsParticles BondedMembersAdjacent GhostPositionsCurrent ConstraintsFollowParticlesGPU GhostForcesCurrent ReversePathsReachOwner
PROPERTIES GhostLayerComplete
CHECK_DEADLOCK FALSE
