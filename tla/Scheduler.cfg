SPECIFICATION SchedSpec
CONSTANTS
  TASKS = 3
  TICKS = 2
  Contexts = {empty, saved}
  EmptyContext = empty
  None = None
INVARIANT
  BoundedWaiting
PROPERTIES
  ScheduleNeverIdlesWrongly
  NoStarvation
