\* A wait of the main thread is cut short.
SPECIFICATION FairSpec
CONSTANTS
  x = x  y = y  ia = ia  sa = sa  sb = sb
  Clients = {ia, sa}
  Account <- MCAccount
  Kind <- MCKind
  Threads = {t1, t2}
  Msgs = {m1}
  Owner <- MCOwner
  None = None
  MaxHurries = 1
  MaxLosses = 1
INVARIANTS TypeOK Kept
PROPERTY Answered
