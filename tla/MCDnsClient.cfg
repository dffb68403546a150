CONSTANTS
  Id <- MCId
  DotStrSize = 6
  Domain <- MCDomain
  Found <- MCFound
  Owner <- MCOwner
  MaxLookups = 2
  MaxCopies = 1
  MaxLost = 1
SPECIFICATION FairSpec
INVARIANTS
  TypeOK
  CodecReplies
  FindsWhatIsSaid
  AnswersOwnRequest
PROPERTIES
  LookupEnds
CHECK_DEADLOCK FALSE
