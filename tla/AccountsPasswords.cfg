CONSTANTS
    c1 = c1
    c2 = c2
    c3 = c3
    c4 = c4
    c5 = c5
    c6 = c6
    Calls = {c1, c2, c3, c4, c5}
    Op <- OneCustomer
    Emails = {e1, bad}
    Malformed = {bad}
    Passwords = {p, q, r, long, empty}
    TooShort = {empty}
    TooLong = {long}
    Empty = empty
    Nil = Nil
SPECIFICATION Spec
SYMMETRY PasswordSymmetry
INVARIANTS
    PasswordsAreProven
\* Every call ends.
CHECK_DEADLOCK FALSE
