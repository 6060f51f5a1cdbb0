------------------------------- MODULE MCBooking -------------------------------
EXTENDS Booking, TLC

CONSTANTS b1, b2, s1, s2, s3, shop1, shop2

Open(from, to) == [working |-> TRUE, start |-> from, end |-> to]
DayOff == [working |-> FALSE, start |-> 0, end |-> 0]

\* One shop, one barber.
OneShop == b1 :> shop1
OneServiceShop == s1 :> shop1
SharedService == s1 :> Nil

\* Two shops with a barber each; s1 is open to every barber of the first shop,
\* s2 belongs to b1, s3 is the second shop's.
TwoShops == b1 :> shop1 @@ b2 :> shop2
TenantServiceShop == s1 :> shop1 @@ s2 :> shop1 @@ s3 :> shop2
TenantServiceBarber == s1 :> Nil @@ s2 :> b1 @@ s3 :> Nil

\* A whole day of three units, a part of it, a day off.
RacingRows == {Open(0, 3), Open(0, 2), DayOff}
\* A whole day of two units: a booking may fill it, and the next day begins
\* where it ends.
AdjacentDays == {Open(0, 2)}
=============================================================================
