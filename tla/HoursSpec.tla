-------------------------------- MODULE HoursSpec --------------------------------
(***************************************************************************)
(* What saving a shop's hours promises, without transactions or locks: a   *)
(* list of days is saved whole or not at all, and a reader sees nothing in *)
(* between. The models of bookings take SetShopHours for one step.         *)
(***************************************************************************)
EXTENDS Integers, Sequences

CONSTANTS Weekdays, Rows, Refused, Lists, Nil

VARIABLE hours      \* shop_hours of one shop, by weekday

\* The days of a list fit their columns.
Acceptable(list) ==
    \A i \in DOMAIN list : list[i].weekday \in Weekdays /\ list[i].row \notin Refused

\* The i-th day of a list is the last of the first n for that weekday.
LastFor(list, n, weekday, i) ==
    /\ i \in 1 .. n
    /\ list[i].weekday = weekday
    /\ \A j \in (i + 1) .. n : list[j].weekday # weekday

\* The row of a weekday as the first n days of a list leave it.
RowAfter(list, n, weekday, row) ==
    IF \E i \in 1 .. n : LastFor(list, n, weekday, i)
    THEN list[CHOOSE i \in 1 .. n : LastFor(list, n, weekday, i)].row
    ELSE row

Init == hours = [weekday \in Weekdays |-> Nil]

Save(list) ==
    /\ Acceptable(list)
    /\ hours' = [weekday \in Weekdays |-> RowAfter(list, Len(list), weekday, hours[weekday])]

Next == \E list \in Lists : Save(list)

Spec == Init /\ [][Next]_hours
=============================================================================
