SPECIFICATION Spec
CONSTANTS
    Currency = {1, 2, 3, 4}
    USD = 4
    LP = {1, 2}
    InvalidRate = InvalidRate
    FewEdges = 4
    Graphs <- SmallGraphs
INVARIANTS
    TypeOK
    RoutesAreOptimal
    RejectsExactlyArbitrage
    RatesAreEarned
    RoundsCoverPaths
    EarlyExitIsHarmless
CHECK_DEADLOCK FALSE
