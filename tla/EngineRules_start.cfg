SPECIFICATION Spec
CONSTANTS
  None = None
  q1 = q1
  q2 = q2
  terminal = terminal
  Queries = {q1}
  Terminals = {terminal}
  BumpFails = FALSE
  StartFails = FALSE
  MaxChanges = 3
  MaxDays = 1
INVARIANT SameVersionSameRules
