CONSTANTS
    a = a  b = b  x = x
    r1 = r1  r2 = r2
    Ends <- MCEnds
    Rooms <- MCRooms
    Asked = r1
    Scenarios <- MCScenarios
    MaxSalas = 1
    MaxDrops = 1
SPECIFICATION Spec
INVARIANTS
    TypeOK
    CountIsBridges
    TurnSeesSteadyRoom
PROPERTY TheyMeet
CHECK_DEADLOCK FALSE
