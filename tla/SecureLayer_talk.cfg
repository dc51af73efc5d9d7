CONSTANTS
    MaxData = 3
    MaxOffers = 3
    MaxDrops = 2
    MaxPauses = 1
    Skip = 4096
CHECK_DEADLOCK FALSE
SPECIFICATION Spec
INVARIANTS
    TypeOK
    RootsNeverFork
    NothingRefused
PROPERTY OfferAnswered
