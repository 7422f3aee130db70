SPECIFICATION Spec
CONSTANTS
  Ranks = {0, 1}
  Root = 0
  MaxTags = 2
  Values = {0, 1}
PROPERTIES RemovalMovesWholeParticle
