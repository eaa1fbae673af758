\* Two messages of two accounts, one loss of the link.
SPECIFICATION Spec
CONSTANTS
  m1 = m1  m2 = m2  a1 = a1  a2 = a2  c1 = c1  c2 = c2  d1 = d1
  Msgs = {m1, m2}
  Owner <- MCOwner2
  Codable = {m1, m2}
  CarrierId <- MCCarrierId2
  Delivers = {}
  None = None
  MaxReports = 1
  MaxResets = 1
INVARIANTS MappingRight SettledUntilTimeout
CHECK_DEADLOCK FALSE
