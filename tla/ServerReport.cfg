\* A report overtakes its message on the way to the database.
SPECIFICATION Spec
CONSTANTS
  m1 = m1  m2 = m2  d1 = d1  d2 = d2  p1 = p1
  Msgs = {m1}
  Delivers = {}
  Phones = {p1}
  Phone <- MCPhone
  Fails <- MCNoFails
  Leaving = {}
  Garbled = {}
  OptionSets <- MCNoOption
  FreqLimit = 1
  Money = 0
  None = None
  Outcomes = {TRUE}
  MaxCuts = 0
  MaxReports = 1
  MaxReloads = 0
  MaxExits = 0
INVARIANTS ReportStored
