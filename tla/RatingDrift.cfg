CONSTANTS
    b1 = b1
    k1 = k1
    k2 = k2
    r1 = r1
    r2 = r2
    Calls = {c1, c2}
    Reservations = {r1, r2}
    Barbers = {b1}
    Customers = {k1, k2}
    BarberOf <- OneBarberOf
    CustomerOf <- TwoCustomersOf
    Scores = {2, 5}
    Nil = Nil
SPECIFICATION Spec
INVARIANT AggregateNeverDrifts
CHECK_DEADLOCK FALSE
