SPECIFICATION Spec
CONSTANTS
  THREADS = 3
  ENDPOINTS = 1
  Messages = {m1}
  DefaultMessage = m1
  None = None
INVARIANT
  ReplyAuthorityHeld
