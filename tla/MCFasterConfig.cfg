CONSTANTS
  MaxCopies = 2
  MaxFaults = 0
  MaxCrashes = 1
  BindsMayFail = TRUE
SPECIFICATION FairAll
INVARIANT ServersOK
PROPERTIES
  SampleGuides
  Follows
  ClientFollows
