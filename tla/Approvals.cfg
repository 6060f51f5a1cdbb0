CONSTANTS
    b1 = b1
    b2 = b2
    shop1 = shop1
    shop2 = shop2
    cut = cut
    Columns <- TwoColumns
    Values = {1, 2, 9}
    Refused = {9}
    Requests = {q1, q2}
    Calls = {c1, c2}
    Barbers = {b1, b2}
    Shops = {shop1, shop2}
    BarberShop <- TwoShops
    Weekdays = {1, 2}
    Services = {cut}
    ServiceBarber <- OwnService
    Proposals <- MCProposals
    Updates <- MCUpdates
    Nil = Nil
SPECIFICATION Spec
INVARIANTS
    TypeOK
    StagedIsCurrent
    DoneIsDecided
    LiveIsApproved
PROPERTIES
    TenantsAreIsolated
    ImplementsWorkflow
    EveryCallAnswered
\* Every call ends.
CHECK_DEADLOCK FALSE
