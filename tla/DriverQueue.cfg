SPECIFICATION Spec
CONSTANTS
  Engines <- MCEngines
  StartStatuses <- MCStart
  MaxChanges = 2
  MaxPasses = 2
  DispatcherMoves = 1
  MaxTroubles = 1
  Empty = ""
  Trimmed <- MCTrimmed
  Sanitized <- MCSanitized
  Unreadable = Unreadable
  Null = Null
INVARIANTS
  TypeOK
  
  
PROPERTIES
  PilotReplaysInOrder
  
