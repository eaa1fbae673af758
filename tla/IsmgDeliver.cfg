\* Two items, two sessions, a request served in vain; submissions past the end of the
\* counter.
SPECIFICATION FairSpec
CONSTANTS
  x1 = x1  x2 = x2
  Queue <- MCQueue2
  None = None
  SeqMax = 3
  MaxSubmits = 4
  MaxSeconds = 2
  MaxWire = 1
  MaxSessions = 2
  MaxDrops = 1
INVARIANTS TypeOK EarlyExplained LossExplained RepeatsAtWrap
PROPERTIES ReachesClient
CHECK_DEADLOCK FALSE
