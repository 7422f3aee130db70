SPECIFICATION Spec
CONSTANTS
    Setups <- AllSetups
    Particles = {1, 2}
    Boxes <- TryBoxes
    Diameters = {2, 4}
    Moves <- Steps
    Shifts <- Shift1
INVARIANTS TypeOK NoOverlap CountExact TreeCurrent CompleteMeansDone
PROPERTIES OverlapsOnlyVanish
CHECK_DEADLOCK FALSE
