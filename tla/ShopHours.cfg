CONSTANTS
    Calls = {c1, c2, c3}
    Weekdays = {0, 6}
    Rows = {"closed", "open", "bad"}
    Refused = {"bad"}
    Lists <- MCLists
    Nil = "none"
SPECIFICATION Spec
PROPERTIES
    SavesAreAtomic
    EverySaveAnswered
\* Every call ends.
CHECK_DEADLOCK FALSE
