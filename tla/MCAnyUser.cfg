SPECIFICATION AnyUserSpec
CONSTANTS
  TASKS = 3
  SLOTS = 2
  NODES = 4
  GENERATIONS = 3
  Objects <- MCObjects
  EmptyObject <- EndpointObject
  None = None
  THREADS = 3
  ENDPOINTS = 1
  Messages <- MCMessages
  DefaultMessage <- MCDefault
  BYTES = 4
  TICKS = 8
  MaxSpurious = 1
  MaxLate = 1
  LetterB = 2
  Registers = {1, 2, 5}
INVARIANTS
  KernelType
  HandOver
PROPERTIES
  AllOrNothing
  RevocationIsFinal
CHECK_DEADLOCK FALSE
