SPECIFICATION Spec
CONSTANTS
  TASKS = 3
  SLOTS = 2
  NODES = 4
  GENERATIONS = 3
  Objects <- MCObjects
  EmptyObject <- EndpointObject
  None = None
  THREADS = 3
  ENDPOINTS = 1
  Messages <- MCMessages
  DefaultMessage <- MCDefault
  BYTES = 4
  TICKS = 8
  MaxSpurious = 0
  MaxLate = 0
  LetterA = 1
  LetterB = 2
PROPERTY
  DemoEnds
CHECK_DEADLOCK FALSE
