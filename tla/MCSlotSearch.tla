------------------------------ MODULE MCSlotSearch ------------------------------
EXTENDS SlotSearch

Open(from, to) == [working |-> TRUE, start |-> from, end |-> to]
DayOff == [working |-> FALSE, start |-> 0, end |-> 0]

\* The whole day, a morning, a middle part off the grid, an inverted row (the
\* schema lets it in), a day off.
MCRows == {Open(0, 6), Open(0, 3), Open(1, 5), Open(4, 2), DayOff}

Reserve(from, to, status) ==
    [start |-> Date + from, end |-> Date + to, status |-> status]

\* Nothing, an active reservation anywhere, one that no longer holds its slot,
\* and a day with two.
MCBookings ==
    {{}}
    \cup {{Reserve(from, to, "pending")} : from \in 0 .. 2, to \in 3 .. 6}
    \cup {{Reserve(1, 3, status)} : status \in {"completed", "cancelled", "no_show"}}
    \cup {{Reserve(0, 1, "completed"), Reserve(3, 4, "confirmed")},
          {Reserve(1, 2, "cancelled"), Reserve(1, 3, "pending")}}
=============================================================================
