\* Constraints: which rank stores a constraint once ghosts are exchanged.
CONSTANTS
  Ranks = {r1, r2}
  Particles = {p1, p2, p3}
  GroupSize = 2
  MaxGroups = 2
SPECIFICATION GhostSpec
INVARIANTS MembersOwnersHoldGroup
