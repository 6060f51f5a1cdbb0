-------------------------------- MODULE MCRating --------------------------------
EXTENDS Rating, TLC

CONSTANTS b1, k1, k2, r1, r2

\* Two visits to one barber, by two customers.
OneBarberOf == r1 :> b1 @@ r2 :> b1
TwoCustomersOf == r1 :> k1 @@ r2 :> k2
=============================================================================
