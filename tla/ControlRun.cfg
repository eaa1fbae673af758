\* A server, a gateway and a client.
SPECIFICATION Spec
CONSTANTS
  Servers = {sv}
  Gateways = {gw}
  Clients = {c}
  Procs = {p1, p2}
  Sessions = {s1, s2}
  None = None
  Window = 4
  Renewal = 2
  MaxStarts = 2
  MaxSignals = 3
  MaxFaults = 2
  MaxBirths = 2
INVARIANTS TypeOK LockRight KillsAccounted NoSecondSession
SYMMETRY Alike
