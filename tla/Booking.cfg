CONSTANTS
    b1 = b1
    b2 = b2
    s1 = s1
    s2 = s2
    s3 = s3
    shop1 = shop1
    shop2 = shop2
    DayLen = 3
    Granularity = 2
    Nil = Nil
    Requests = {r1, r2}
    Customers = {c1}
    Barbers = {b1}
    Services = {s1}
    Shops = {shop1}
    BarberShop <- OneShop
    ServiceShop <- OneServiceShop
    ServiceBarber <- SharedService
    Dates = {0}
    Rows <- RacingRows
    Durations = {1, 2}
    MaxClock = 1
    MaxWrites = 2
SPECIFICATION Spec
INVARIANTS
    TypeOK
    InFlightOK
    NoDoubleBooking
PROPERTIES
    UnracedBookingIsValid
    ImplementsCalendar
CHECK_DEADLOCK FALSE
