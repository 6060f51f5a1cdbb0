CONSTANTS
    b1 = b1
    b2 = b2
    s1 = s1
    s2 = s2
    s3 = s3
    shop1 = shop1
    shop2 = shop2
    DayLen = 2
    Granularity = 1
    Nil = Nil
    Requests = {r1}
    Customers = {c1}
    Barbers = {b1, b2}
    Services = {s1, s2, s3}
    Shops = {shop1, shop2}
    BarberShop <- TwoShops
    ServiceShop <- TenantServiceShop
    ServiceBarber <- TenantServiceBarber
    Dates = {0, 2}
    Rows <- AdjacentDays
    Durations = {1, 2}
    MaxClock = 0
    MaxWrites = 0
SPECIFICATION Spec
INVARIANTS
    TenantConsistent
    WithinOneDay
    OfferedSlotsFree
    OfferIsBookable
CHECK_DEADLOCK FALSE
