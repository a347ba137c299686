SPECIFICATION MapSpec
CONSTANTS
  MAPPINGS = 2
  PAGE_SIZE = 2
  ENTRIES_PER_TABLE = 2
  USER_TOP = 32
  OUTPUT_TOP = 8
  Virtual = {0, 1, 2, 16, 32}
  Physical = {0, 3, 4, 12}
  None = None
INVARIANTS
  MapTypeOK
  DescriptorsFaithful
  WalksDisjoint
PROPERTY
  MappingsStay
