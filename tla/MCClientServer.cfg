SPECIFICATION ClientServerSpec
CONSTANTS
  THREADS = 4
  ENDPOINTS = 1
  Messages <- MCMessages
  DefaultMessage = 0
  None = None
INVARIANTS
  AnswersMatch
  NobodyForgotten
  InboxNotOverwritten
PROPERTY
  EveryCallAnswered
