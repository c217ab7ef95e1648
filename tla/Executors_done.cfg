\* Two workers, one of which may stop and start again, and two tasks.
SPECIFICATION FairSpec
CONSTANTS
  w1 = w1
  w2 = w2
  Workers = {w1, w2}
  Tasks = {1, 2}
  Programs <- MixedPrograms
  Corrupting <- SecondIsBad
  Bare = {}
  LeaseTimeoutTicks = 1
  MaxNonce = 2
  MaxLag = 1
  Leavers = {w1}
  MaxStops = 1
INVARIANTS
  TypeOK
  ExclusiveWork
PROPERTIES
  TasksGetDone
\* Nothing is left to do once every task is completed.
CHECK_DEADLOCK FALSE
