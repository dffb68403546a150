CONSTANTS
  MaxCopies = 2
  MaxFaults = 0
  MaxCrashes = 1
  BindsMayFail = FALSE
SPECIFICATION FairAll
PROPERTY PortalServed
