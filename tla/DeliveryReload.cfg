\* Two gateways, two accounts, a change of the routes while items arrive.
SPECIFICATION Spec
CONSTANTS
  x = x  y = y  r1 = r1  d1 = d1  c1 = c1
  Pushers = {p1, p2}
  Accounts = {x, y}
  Reports = {r1}
  Delivers = {d1}
  Of <- MCOf
  Code <- MCCode
  Tables <- MCTables
  Table0 <- MCOld
  Nobody = Nobody
  None = None
  MaxChanges = 2
  MaxPulls = 1
INVARIANTS TypeOK OneItemEach RightAccount ListCurrent SecondQueueSmall
SYMMETRY Alike
