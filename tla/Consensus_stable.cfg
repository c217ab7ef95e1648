CONSTANTS
  a = a
  b = b
  Nodes = {1, 2, 3}
  Coordinators = {}
  Ops = {a, b}
  Author <- AuthorOf
  Topology <- Star
  InitialLinks <- Star
  Restarters = {}
  Leavers = {}
  MaxHeight = 2
  MaxChanges = 0
SPECIFICATION Spec
INVARIANTS
  TypeOK
PROPERTIES
  ImplementsLog
VIEW StableView
\* Nothing is left to do once every operation is committed and every link
\* change the bound allows has happened.
CHECK_DEADLOCK FALSE
