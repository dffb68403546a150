CONSTANTS
  MaxElements = 5
  MaxQuery = 0
  Room = 32
  Target <- MCTarget
  Host <- MCHost
  Credentials = {}
  PageName <- MCPageName
  Title <- MCTitle
  Message <- MCMessage
  NodeID <- MCNodeID
  Text <- MCText
SPECIFICATION Spec
INVARIANTS
  ClimbsRemoved
CHECK_DEADLOCK FALSE
