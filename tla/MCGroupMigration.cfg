SPECIFICATION Spec
CONSTANTS
  W = 4
  H = 2
  D = 1
  cart_ranks <- WideGridRanks
  p1 = p1
  p2 = p2
  bond = bond
  Particles = {p1, p2}
  Members <- OneBond
  UIntSize = 65536
  CrossLow = FALSE
INVARIANTS GroupsFollowMembers RanksAreOwners RanksAreDestinations
