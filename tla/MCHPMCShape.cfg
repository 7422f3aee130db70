SPECIFICATION Spec
CONSTANTS
    Setups <- ShapeSetups
    Particles = {1, 2}
    Boxes <- BigBoxes
    Diameters = {1, 2}
    Moves <- Steps
    Shifts <- Shift1
INVARIANTS NoOverlap
CHECK_DEADLOCK FALSE
