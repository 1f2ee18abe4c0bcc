CONSTANTS
  chat1 = chat1
  Chat = {chat1}
  NoChat = NoChat
  MaxMessages = 3
  MaxSpawns = 1
  MaxAsides = 2
SPECIFICATION Spec
INVARIANTS TypingMeansWork ScopeOutlivesTurns CleanupComplete
PROPERTIES AnswersInOrder GatewayEnds
CHECK_DEADLOCK FALSE
