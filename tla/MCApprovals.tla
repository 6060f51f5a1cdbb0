------------------------------- MODULE MCApprovals -------------------------------
EXTENDS Approvals, TLC

CONSTANTS b1, b2, shop1, shop2, cut

\* Two shops with a barber each; the service is the first barber's.
TwoShops == b1 :> shop1 @@ b2 :> shop2
OwnService == cut :> b1

\* A service's price and duration, a day's start and end.
TwoColumns == {"first", "second"}
\* A value that the column refuses: a duration of 0, a time that is none.
Bad == 9

Day(weekday, value) ==
    [weekday |-> weekday, diff |-> [column \in TwoColumns |-> value]]

\* The same two days in both orders, and a list whose second day is refused.
MCProposals == {<<Day(1, 1), Day(2, 1)>>, <<Day(2, 2), Day(1, 2)>>, <<Day(1, 1), Day(2, Bad)>>}

\* Updates of different columns of one row, and one that is refused.
MCUpdates == {"first" :> 1, "second" :> 2, "second" :> Bad}
=============================================================================
