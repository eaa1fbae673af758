\* One account, carriers that are lost, two connections of one gateway: under fairness a BUSY
\* answer does not last.
SPECIFICATION FairSpec
CONSTANTS
  g1 = g1  g2 = g2  m1 = m1  m2 = m2  t1 = t1  p1 = p1  p2 = p2
  Gateways = {g1, g2}
  Pushers = {p1}
  Pullers = {q1, q2}
  Messages = {m1}
  Tests = {t1}
  Limit = 1
  Routes <- MCRoutes
  Carriers <- MCCarriers1
  TestChannel <- MCTestChannel
  NoMessage = NoMessage
  Bye = Bye
  Flaky = {g1, g2}
  MaxCuts = 0
PROPERTIES RetriesSettle
