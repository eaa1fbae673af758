\* One message with up to four reports, filtered or not, a reload, an exit.
SPECIFICATION Spec
CONSTANTS
  m1 = m1  m2 = m2  d1 = d1  d2 = d2  p1 = p1
  Msgs = {m1}
  Delivers = {}
  Phones = {p1}
  Phone <- MCPhone
  Fails <- MCFails
  Leaving = {}
  Garbled = {}
  OptionSets <- MCTemplate
  FreqLimit = 1
  Money = 0
  None = None
  Outcomes = {TRUE}
  MaxCuts = 2
  MaxReports = 4
  MaxReloads = 1
  MaxExits = 1
INVARIANTS TypeOK OneFate RefundsCovered StatusKept
