------------------------------- MODULE MCShopHours -------------------------------
EXTENDS ShopHours

Day(weekday, row) == [weekday |-> weekday, row |-> row]

\* The same days in both orders, a day twice, part of a week, a time that is
\* none in the second day, a weekday that is none.
MCLists == {<<Day(0, "closed"), Day(6, "closed")>>,
            <<Day(6, "open"), Day(0, "open")>>,
            <<Day(0, "open"), Day(0, "closed")>>,
            <<Day(6, "closed")>>,
            <<Day(0, "open"), Day(6, "bad")>>,
            <<Day(6, "open"), Day(7, "open")>>}
=============================================================================
