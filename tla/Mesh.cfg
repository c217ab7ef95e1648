\* Two workers; one may connect again while the task of its old connection runs.
SPECIFICATION Spec
CONSTANTS
  Hub = "h"
  Workers = {"a", "b"}
  Returning = {"a"}
  Users = {"b"}
  MaxCuts = 2
INVARIANTS
  OnlyOverlapSilences
  MembershipSpreads
PROPERTIES
  OperationsSpread
\* Nothing is left to do once the links are quiet.
CHECK_DEADLOCK FALSE
