SPECIFICATION Spec
CONSTANTS
    NPartitions = 3
    m_npartition = 3
    Names <- TwoNames
    NameOf <- MixedNames
    Particles <- FewParticles
    Volume <- SmallVolumes
    Rescales <- OneUp
    Depletants = TRUE
    FirstSteps = {2}
    MaxUpdates = 2
    UIntSize = 3
PROPERTIES LateUpdatesFinish
