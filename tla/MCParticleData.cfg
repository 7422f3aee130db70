SPECIFICATION Spec
CONSTANTS
  Ranks = {0, 1}
  Root = 0
  MaxTags = 3
  Values = {0}
INVARIANTS OneOwnerPerTag LookupInvertsTags TagsPartition LookupTableSize CacheListsActiveTags
