SPECIFICATION Spec
CONSTANTS
    Setups <- RampSetups
    Particles = {1, 2}
    Boxes <- BigBoxes
    Diameters = {2}
    Moves <- Steps
    Shifts <- Shift1
INVARIANTS CompleteIsCurrent
CHECK_DEADLOCK FALSE
