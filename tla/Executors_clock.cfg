\* A worker goes away with a task and does not come back.
SPECIFICATION LoggedSpec
CONSTANTS
  w1 = w1
  w2 = w2
  Workers = {w1, w2}
  Tasks = {1}
  Programs <- Ordinary
  Corrupting <- NoneIsBad
  Bare = {}
  LeaseTimeoutTicks = 3
  MaxNonce = 2
  MaxLag = 1
  Leavers = {w1}
  MaxStops = 1
PROPERTIES
  LeasesExpire
\* Nothing is left to do once every task is completed.
CHECK_DEADLOCK FALSE
