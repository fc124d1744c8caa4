CONSTANTS
    r1 = r1
    r2 = r2
    r3 = r3
    a = a
    b = b
    c = c
    x = x
    y = y
    Requests = {r1, r2, r3}
    Retention = retention
    Keys = {a, b, c}
    Intents = {x, y}
    Limit = 2
    Scenarios <- MCScenarios
SPECIFICATION Spec
CHECK_DEADLOCK FALSE
INVARIANTS
    TypeOK
    AtMostOnce
    OutcomeTruthful
    RefusalTruthful
    NumbersUniqueIfNamed
    ExecutorAlive
    ReservationsReleased
PROPERTIES
    ReceiptsMoveForward
    AbandonedRunDropped
