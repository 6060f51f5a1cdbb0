------------------------------- MODULE MCAccounts -------------------------------
EXTENDS Accounts, TLC

CONSTANTS c1, c2, c3, c4, c5, c6

\* Two shops are seeded; their owners log in, one onboards, one adds a service.
TwoTenants == c1 :> "seed" @@ c2 :> "seed" @@ c3 :> "login" @@ c4 :> "login"
              @@ c5 :> "onboard" @@ c6 :> "service"

\* Nothing tells two seed runs, two logins or two addresses apart.
TenantSymmetry ==
    Permutations({c1, c2}) \cup Permutations({c3, c4}) \cup Permutations(Emails)

\* A customer registers, logs in, and changes the password in overlapping calls.
OneCustomer == c1 :> "register" @@ c2 :> "login" @@ c3 :> "password"
               @@ c4 :> "password" @@ c5 :> "password"

PasswordSymmetry == Permutations(Passwords \ (TooShort \cup TooLong))

\* A barber gets a temporary password and changes it.
OneBarber == c1 :> "seed" @@ c2 :> "login" @@ c3 :> "onboard" @@ c4 :> "login"
             @@ c5 :> "password"
=============================================================================
