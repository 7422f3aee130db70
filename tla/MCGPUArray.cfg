SPECIFICATION Spec
CONSTANTS
  Arrays = {A, B}
  Handles = {H1, H2}
  Values = {Zero, One}
  Zero = Zero
  MaxN = 2
  None = None
SYMMETRY Perms
INVARIANTS HandlesSeeCurrentData CopiesAgree IInv
PROPERTIES ImplementsPlainArray
CHECK_DEADLOCK FALSE
