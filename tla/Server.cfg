CONSTANTS
    Requests = {r1, r2, r3}
    Rows = {"reservation", "profile"}
    Plans <- MCPlans
    MaxConns = 2
    Nil = "none"
SPECIFICATION Spec
INVARIANTS
    NothingLeaks
    CleanExitLosesNothing
PROPERTIES
    EveryRequestAnswered
    ShutdownEnds
\* The process ends.
CHECK_DEADLOCK FALSE
