CONSTANTS
  c1 = c1
  c2 = c2
  r1 = r1
  r2 = r2
  f1 = f1
  f2 = f2
  None = None
  Conn = {c1, c2}
  Request = {r1, r2}
  Fd = {f1, f2}
  MayFail = TRUE
SPECIFICATION Spec
INVARIANTS
  TypeOK
  OwnDescriptor
  NoDescriptorLeaks
  AnswerFits
  AnsweredInFull
PROPERTY ImplementsSessions
SYMMETRY Same
CHECK_DEADLOCK FALSE
