CONSTANTS
  MaxCopies = 2
  MaxFaults = 0
  MaxCrashes = 0
SPECIFICATION SteadySpec
PROPERTY OnlyOnce
