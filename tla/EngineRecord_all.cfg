SPECIFICATION Spec
CONSTANTS
  q1 = q1
  q2 = q2
  q3 = q3
  phone = phone
  Queries = {q1, q2, q3, phone}
  Others = {phone}
  Programs = TRUE
  PendingCap = 2
  QueueCap = 2
  Faults = TRUE
INVARIANTS
  TypeOK
  NothingLost
PROPERTIES
  WaitEnds
  KeepsThePromise
