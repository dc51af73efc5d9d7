SPECIFICATION Spec
CONSTANTS
  Ads = Ads
  Unknown = Unknown
  Expected = Expected
  Self = Self
  Phone = Phone
  NoDevice = NoDevice
  Idle = Idle
  C1 = C1
  C2 = C2
  Phones = {Phone}
  Calls = {C1, C2}
  Labels <- MCLabels
  Names <- MCNames
  Entries <- MCEntries
  CutCategories = {Ads}
  MaximaCategories = {Ads}
  Contracts <- MCContracts
  MaxRules = 2
SYMMETRY MCCalls
INVARIANTS
  TypeOK
  LoopAgrees
  ListedCutsCut
  LetThroughFrees
PROPERTY PageLiftsNothing
