SPECIFICATION Spec
CONSTANTS
    RouteWindow = 2
    OrdinaryWindow = 2
    queueUnits = 4
    controlUnits = 1
    identityLimit = 4
    maxRoutes = 2
    frameLimit = 3
    maxRuns = 1
    Scenarios <- CreatingScenarios
INVARIANT
    UnsentRunForgotten
CHECK_DEADLOCK FALSE
