SPECIFICATION AnyClientSpec
CONSTANTS
  Arrays = {A}
  Handles = {H1, H2}
  Values = {Zero, One}
  Zero = Zero
  MaxN = 1
  None = None
INVARIANTS AcquiredAtMostOnce
CHECK_DEADLOCK FALSE
