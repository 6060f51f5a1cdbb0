CONSTANTS
    c1 = c1
    c2 = c2
    c3 = c3
    c4 = c4
    c5 = c5
    c6 = c6
    Calls = {c1, c2, c3, c4, c5}
    Op <- OneBarber
    Emails = {e1, e2, bad}
    Malformed = {bad}
    Passwords = {p, long, empty}
    TooShort = {empty}
    TooLong = {long}
    Empty = empty
    Nil = Nil
SPECIFICATION Spec
INVARIANTS
    TempPasswordReturned
\* Every call ends.
CHECK_DEADLOCK FALSE
