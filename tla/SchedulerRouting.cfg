\* Two push threads, two gateways, routes that differ, links that are cut.
SPECIFICATION Spec
CONSTANTS
  g1 = g1  g2 = g2  m1 = m1  m2 = m2  t1 = t1  p1 = p1  p2 = p2
  Gateways = {g1, g2}
  Pushers = {p1, p2}
  Pullers = {q1}
  Messages = {m1, m2}
  Tests = {}
  Limit = 1
  Routes <- MCRoutes
  Carriers <- MCCarriers2
  TestChannel <- MCNoTest
  NoMessage = NoMessage
  Bye = Bye
  Flaky = {}
  MaxCuts = 1
INVARIANTS TypeOK AnswersMatchQueues AnswerJustified QueuedWhereAllowed QueueBound
SYMMETRY PushSymmetry
