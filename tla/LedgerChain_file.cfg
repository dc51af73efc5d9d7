SPECIFICATION Spec
CONSTANTS
  None = None
  MaxAppends = 5
  Damage = {"rows", "head", "count", "field"}
INVARIANTS
  TypeOK
  NoFalseAlarm
  LossStaysVisible
  TruncationCounted
