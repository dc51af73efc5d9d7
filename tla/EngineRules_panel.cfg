SPECIFICATION Spec
CONSTANTS
  None = None
  q1 = q1
  q2 = q2
  terminal = terminal
  Queries = {q1, q2}
  Terminals = {}
  BumpFails = TRUE
  StartFails = TRUE
  MaxChanges = 2
  MaxDays = 1
INVARIANTS
  TypeOK
  SameVersionSameRules
  EarlyCutsBounded
PROPERTIES
  ChangesArrive
