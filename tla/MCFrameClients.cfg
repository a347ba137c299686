SPECIFICATION Spec
CONSTANTS
  PAGE_SIZE = 2
  CAPACITY = 5
  ADDRESSES = 16
  MaxPages = 2
  Regions <- MCRegions
INVARIANTS
  TypeOK
  HeldFramesCanBeFreed
  NoFrameLost
PROPERTIES
  ReservedNeverHandedOut
  FirstFit
