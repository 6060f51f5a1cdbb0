CONSTANTS
    c1 = c1
    c2 = c2
    c3 = c3
    c4 = c4
    c5 = c5
    c6 = c6
    Calls = {c1, c2, c3, c4, c5, c6}
    Op <- TwoTenants
    Emails = {e1, e2, e3}
    Malformed = {}
    Passwords = {p}
    TooShort = {}
    TooLong = {}
    Empty = empty
    Nil = Nil
SPECIFICATION Spec
SYMMETRY TenantSymmetry
INVARIANTS
    TokensAreCurrent
    ShopsHaveTheirOwner
    StaffedByTheOwner
    ServicesHaveTheirBarber
    NobodyEntersHalfOnboarded
PROPERTIES
    StaffIsPermanent
\* Every call ends.
CHECK_DEADLOCK FALSE
