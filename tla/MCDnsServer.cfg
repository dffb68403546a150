CONSTANTS
  c1 = c1
  c2 = c2
  Client = {c1, c2}
  Id = {1,2}
  Decimal <- MCDecimal
  Name <- MCName
  Type <- EachType
  MaxDatagrams = 2
SPECIFICATION Spec
INVARIANTS
  TypeOK
  WellFormedAnswered
  AtMostOneReply
  ReplyParses
SYMMETRY Senders
