CONSTANTS
  MaxElements = 4
  MaxQuery = 4
  Room = 32
  Target <- MCTarget
  Host <- MCHost
  Credentials <- MCCredentials
  PageName <- MCPageName
  Title <- MCTitle
  Message <- MCMessage
  NodeID <- MCNodeID
  Text <- MCText
SPECIFICATION Spec
INVARIANTS
  TypeOK
  PathClean
  PathResolved
  StoredAsWritten
  PageSays
  RedirectReturns
  CredentialsArrive
CHECK_DEADLOCK FALSE
