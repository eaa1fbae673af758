\* The charges, the frequency counter and unsubscription; two messages, a text that
\* cannot be converted.
SPECIFICATION FairSpec
CONSTANTS
  m1 = m1  m2 = m2  d1 = d1  d2 = d2  p1 = p1
  Msgs = {m1, m2}
  Delivers = {d1, d2}
  Phones = {p1}
  Phone <- MCPhone
  Fails <- MCNoFails
  Leaving = {d1, d2}
  Garbled = {d2}
  OptionSets <- MCAllOn
  FreqLimit = 1
  Money = 0
  None = None
  Outcomes = {TRUE, FALSE}
  MaxCuts = 0
  MaxReports = 0
  MaxReloads = 0
  MaxExits = 1
INVARIANTS ArrearsStop
PROPERTIES LimitPasses UnsubscribeKept
