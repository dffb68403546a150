CONSTANTS
  MaxCopies = 2
  MaxFaults = 2
  MaxCrashes = 2
SPECIFICATION Spec
INVARIANTS
  TypeOK
  RulesMirrorLock
  ChainsStayHooked
  RestartCleans
  IInv
PROPERTIES
  SameRuleOnce
  ImplementsSwitch
