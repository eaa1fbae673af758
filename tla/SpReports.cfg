\* One message that cannot be encoded, one that is reported on twice, a message of
\* a subscriber, one loss of the link.
SPECIFICATION FairSpec
CONSTANTS
  m1 = m1  m2 = m2  a1 = a1  a2 = a2  c1 = c1  c2 = c2  d1 = d1
  Msgs = {m1, m2}
  Owner <- MCOwner2
  Codable = {m1}
  CarrierId <- MCCarrierId2
  Delivers = {d1}
  None = None
  MaxReports = 2
  MaxResets = 1
INVARIANTS TypeOK ReportLossExplained CountedOnce
PROPERTIES SenderReturns
CHECK_DEADLOCK FALSE
