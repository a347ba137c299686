SPECIFICATION LineageSpec
CONSTANTS
  TASKS = 2
  SLOTS = 2
  NODES = 3
  GENERATIONS = 2
  Objects = {o1}
  EmptyObject = o1
  None = None
  RightArgs <- MCRights
INVARIANTS
  TypeOK
  SlotsCurrent
  OneSlotPerNode
  ParentsCurrent
  Attenuated
PROPERTIES
  RevokeCountsSlots
  ImplementsAuthority
