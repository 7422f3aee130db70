SPECIFICATION Spec
CONSTANTS
  W = 2
  H = 2
  D = 1
  cart_ranks <- SquareGridRanks
  p1 = p1
  p2 = p2
  bond = bond
  Particles = {p1, p2}
  Members <- OneBond
  UIntSize = 65536
  CrossLow = TRUE
INVARIANTS
  RanksAreDestinations
