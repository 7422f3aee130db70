\* Pairs among three particles on three ranks, up to three group tags.
CONSTANTS
  Ranks = {r1, r2, r3}
  Particles = {p1, p2, p3}
  GroupSize = 2
  MaxGroups = 3
SYMMETRY Perms
SPECIFICATION Spec
INVARIANTS MembersOwnersHoldGroup LookupInvertsTable GroupTagsPartition
