CONSTANTS
    t1 = t1  t2 = t2
    Tabs = {t1, t2}
    MaxArchivos = 2
    INTENTOS = 2
    FaultSets <- MCFaults
    Puntual = TRUE
CHECK_DEADLOCK FALSE
SPECIFICATION Spec
INVARIANTS
    TypeOK
    OneReceiver
    ReceiptIsEarned
    EndForgets
PROPERTIES
    FinishesAndSigns
