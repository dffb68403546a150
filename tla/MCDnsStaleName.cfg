CONSTANTS
  c1 = c1
  c2 = c2
  Client = {c1}
  Id = {1}
  Decimal <- MCDecimal
  Name <- MCName
  Type = {"A", "other"}
  MaxDatagrams = 2
SPECIFICATION Spec
INVARIANT NameFromPacket
