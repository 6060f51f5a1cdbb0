CONSTANTS
    DayLen = 6
    Granularity = 2
    Nil = Nil
    Date = 6
    Rows <- MCRows
    Durations = {1, 2, 3}
    Bookings <- MCBookings
SPECIFICATION Spec
INVARIANTS
    SlotsAreExactlyTheFreeOnes
    SearchComputesAvailableSlots
PROPERTY SearchEnds
\* The search stops when it is done.
CHECK_DEADLOCK FALSE
