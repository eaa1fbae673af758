\* Every wait of the main thread ends with a signal; a connection is lost.
SPECIFICATION Spec
CONSTANTS
  x = x  y = y  ia = ia  sa = sa  sb = sb
  Clients = {ia, sa, sb}
  Account <- MCAccount
  Kind <- MCKind
  Threads = {t1, t2}
  Msgs = {m1, m2}
  Owner <- MCOwner
  None = None
  MaxHurries = 0
  MaxLosses = 1
INVARIANTS OneQueue OwnMessages
PROPERTY Fifo
SYMMETRY Alike
