-------------------------------- MODULE Accounts --------------------------------
(***************************************************************************)
(* Accounts, shops and staff: who exists, who works where, and what a      *)
(* token says about it.                                                    *)
(*                                                                         *)
(* A token is signed at login and never looked up again: every handler      *)
(* behind the middleware believes the role and the shop it carries. So the  *)
(* tenancy of the whole program rests on rows that other calls write, some  *)
(* of them in several statements that may stop in between. A statement is   *)
(* one action; it may fail, or commit and lose its answer (the client has   *)
(* gone, the deadline has passed, the process has died).                    *)
(***************************************************************************)
CONSTANTS
    Calls,          \* calls of the API and runs of the seed command; also the
                    \* ids of the rows that each of them inserts
    Op,             \* what each call does
    Emails,
    Malformed,      \* addresses that binding:"email" refuses
    Passwords,      \* passwords that people choose
    TooShort,       \* passwords that binding:"min=8" refuses
    TooLong,        \* passwords of more than 72 bytes, which bcrypt refuses
    Empty,          \* the password that binding:"required" refuses
    Nil

Ops == {"register", "login", "password", "onboard", "service", "seed"}

ASSUME AccountsAssumption ==
    /\ Op \in [Calls -> Ops]
    /\ Malformed \subseteq Emails
    /\ TooShort \subseteq Passwords /\ TooLong \subseteq Passwords
    /\ Empty \in Passwords => Empty \in TooShort
    /\ Passwords \cap Calls = {}
    /\ Nil \notin Calls

VARIABLES
    user,           \* users, by the call that inserted the row
    shopOwner,      \* shops.owner_id, by the seed run that inserted the shop
    profile,        \* the users with a row in barber_profiles
    service,        \* services, by the call that inserted the row
    token,          \* the tokens that were handed out and have not expired
    pc,             \* the next statement of each call, or its answer
    form            \* the body of each call, with the token it came with

vars == <<user, shopOwner, profile, service, token, pc, form>>

\* The temporary password that call c generates is known as c.
Secrets == Passwords \cup Calls

Roles == {"customer", "barber", "owner"}

User == [email : Emails, role : Roles, shop : Calls \cup {Nil}, password : Secrets]
Service == [shop : Calls, barber : Calls \cup {Nil}]
Claims == [user : Calls, role : Roles, shop : Calls \cup {Nil}]

ASSUME NilIsNoRow == Nil \notin User \cup Service

Credentials == [email : Emails, password : Secrets]
Change == [claims : Claims, current : Secrets, new : Passwords]
Onboarding == [claims : Claims, shop : Calls, email : Emails]
Offer == [claims : Claims, shop : Calls, barber : Calls \cup {Nil}]

Body(op) == CASE op \in {"register", "login", "seed"} -> Credentials
              [] op = "password" -> Change
              [] op = "onboard" -> Onboarding
              [] op = "service" -> Offer

Statements == {"create_user", "create_profile", "create_shop", "find_user", "read_user",
               "update_password", "read_barber", "create_service"}
Answers == {"done", "refused", "unauthorized", "conflict", "not_found", "error", "lost"}

-----------------------------------------------------------------------------

Init ==
    /\ user = [c \in Calls |-> Nil]
    /\ shopOwner = [c \in Calls |-> Nil]
    /\ profile = {}
    /\ service = [c \in Calls |-> Nil]
    /\ token = {}
    /\ pc = [c \in Calls |-> "idle"]
    /\ form = [c \in Calls |-> Nil]

Proceed(c, next) == pc' = [pc EXCEPT ![c] = next] /\ UNCHANGED form

\* A write: it commits and the call proceeds, or its answer is lost. The caller
\* cannot tell "lost" from "error", of which nothing was written.
Written(c, next) == \E p \in {next, "lost"} : Proceed(c, p)

-----------------------------------------------------------------------------
(* Arrival: binding and middleware.                                        *)

\* A mutated form of OwnShop: RequireOwnShop is not mounted.
AnyShop(body) == body.claims.role = "owner"

\* Behind RequireRole("owner") and RequireOwnShop. (An owner whose token has no shop
\* also passes with an empty path segment, which is no id: the first statement fails
\* on it and nothing is written. Here such a call is refused at once.)
OwnShop(body) == body.claims.role = "owner" /\ body.claims.shop = body.shop

\* The seed command binds nothing; it stops where bcrypt refuses.
Accepted(op, body) ==
    CASE op = "seed" -> body.password \notin TooLong
      [] op = "register" -> body.email \notin Malformed /\ body.password \notin TooShort \cup TooLong
      [] op = "login" -> body.email \notin Malformed /\ body.password # Empty
      [] op = "password" -> body.current # Empty /\ body.new \notin TooShort
      [] op = "onboard" -> OwnShop(body) /\ body.email \notin Malformed
      [] op = "service" -> OwnShop(body)

First(op, body) ==
    CASE op \in {"register", "onboard", "seed"} -> "create_user"
      [] op = "login" -> "find_user"
      [] op = "password" -> "read_user"
      [] op = "service" -> IF body.barber = Nil THEN "create_service" ELSE "read_barber"

\* What a caller can type: a password of somebody's choice, or a temporary one
\* that an onboarding has returned.
Typed == Passwords \cup {c \in Calls : Op[c] = "onboard" /\ pc[c] = "done"}

\* What may be sent to call c now. Behind the middleware, a token comes with it.
Bodies(c) ==
    CASE Op[c] \in {"register", "login", "seed"} -> [email : Emails, password : Typed]
      [] Op[c] = "password" -> [claims : token, current : Typed, new : Passwords]
      [] Op[c] = "onboard" -> [claims : token, shop : Calls, email : Emails]
      [] Op[c] = "service" -> [claims : token, shop : Calls, barber : Calls \cup {Nil}]

Receive(c) ==
    /\ pc[c] = "idle"
    /\ \E body \in Bodies(c) :
        /\ form' = [form EXCEPT ![c] = body]
        /\ pc' = [pc EXCEPT ![c] = IF Accepted(Op[c], body) THEN First(Op[c], body)
                                  ELSE "refused"]
    /\ UNCHANGED <<user, shopOwner, profile, service, token>>

-----------------------------------------------------------------------------
(* Statements.                                                             *)

\* A mutated form of NewUser: every barber starts with the same password.
StandardPassword(c) ==
    CASE Op[c] = "register" -> [email |-> form[c].email, role |-> "customer", shop |-> Nil,
                                password |-> form[c].password]
      [] Op[c] = "seed" -> [email |-> form[c].email, role |-> "owner", shop |-> Nil,
                            password |-> form[c].password]
      [] Op[c] = "onboard" -> [email |-> form[c].email, role |-> "barber",
                               shop |-> form[c].shop,
                               password |-> CHOOSE p \in Passwords : p \notin TooShort]

NewUser(c) ==
    CASE Op[c] = "register" -> [email |-> form[c].email, role |-> "customer", shop |-> Nil,
                                password |-> form[c].password]
      [] Op[c] = "seed" -> [email |-> form[c].email, role |-> "owner", shop |-> Nil,
                            password |-> form[c].password]
      [] Op[c] = "onboard" -> [email |-> form[c].email, role |-> "barber",
                               shop |-> form[c].shop, password |-> c]

Taken(email) == \E u \in Calls : user[u] # Nil /\ user[u].email = email

\* INSERT INTO users, with UNIQUE (email).
CreateUser(c) ==
    /\ pc[c] = "create_user"
    /\ IF Taken(form[c].email)
       THEN Proceed(c, "conflict") /\ UNCHANGED user
       ELSE /\ user' = [user EXCEPT ![c] = NewUser(c)]
            /\ Written(c, CASE Op[c] = "register" -> "done"
                            [] Op[c] = "onboard" -> "create_profile"
                            [] Op[c] = "seed" -> "create_shop")
    /\ UNCHANGED <<shopOwner, profile, service, token>>

\* INSERT INTO barber_profiles, a transaction of its own.
CreateProfile(c) ==
    /\ pc[c] = "create_profile"
    /\ profile' = profile \cup {c}
    /\ Written(c, "done")
    /\ UNCHANGED <<user, shopOwner, service, token>>

\* A mutated form of CreateShop: the INSERT and the UPDATE on the pool, not in
\* one transaction.
CreateShopInTwo(c) ==
    /\ pc[c] = "create_shop"
    /\ shopOwner' = [shopOwner EXCEPT ![c] = c]
    /\ \/ user' = [user EXCEPT ![c].shop = c] /\ Written(c, "done")
       \/ UNCHANGED user /\ Proceed(c, "error")
    /\ UNCHANGED <<profile, service, token>>

\* A mutated form of CreateShop: the UPDATE has no WHERE.
MoveEverybody(c) ==
    /\ pc[c] = "create_shop"
    /\ shopOwner' = [shopOwner EXCEPT ![c] = c]
    /\ user' = [u \in Calls |-> IF user[u] = Nil THEN Nil ELSE [user[u] EXCEPT !.shop = c]]
    /\ Written(c, "done")
    /\ UNCHANGED <<profile, service, token>>

\* One transaction: INSERT INTO shops, UPDATE users SET shop_id of the owner.
\* Only the seed command creates shops, for the owner it has just created.
CreateShop(c) ==
    /\ pc[c] = "create_shop"
    /\ shopOwner' = [shopOwner EXCEPT ![c] = c]
    /\ user' = [user EXCEPT ![c].shop = c]
    /\ Written(c, "done")
    /\ UNCHANGED <<profile, service, token>>

ClaimsOf(u) == [user |-> u, role |-> user[u].role, shop |-> user[u].shop]

\* SELECT by e-mail, CheckPassword, GenerateToken.
Login(c) ==
    /\ pc[c] = "find_user"
    /\ \/ \E u \in Calls : /\ user[u] # Nil
                           /\ user[u].email = form[c].email
                           /\ user[u].password = form[c].password
                           /\ token' = token \cup {ClaimsOf(u)}
                           /\ Proceed(c, "done")
       \/ /\ \A u \in Calls : user[u] # Nil => \/ user[u].email # form[c].email
                                               \/ user[u].password # form[c].password
          /\ Proceed(c, "unauthorized")
          /\ UNCHANGED token
    /\ UNCHANGED <<user, shopOwner, profile, service>>

\* A mutated form of ReadUser: the current password is not compared.
ReadUserOnly(c) ==
    /\ pc[c] = "read_user"
    /\ Proceed(c, IF form[c].new \in TooLong THEN "error" ELSE "update_password")
    /\ UNCHANGED <<user, shopOwner, profile, service, token>>

\* SELECT by id, CheckPassword, HashPassword.
ReadUser(c) ==
    /\ pc[c] = "read_user"
    /\ Proceed(c, IF user[form[c].claims.user].password # form[c].current THEN "unauthorized"
                  ELSE IF form[c].new \in TooLong THEN "error" ELSE "update_password")
    /\ UNCHANGED <<user, shopOwner, profile, service, token>>

UpdatePassword(c) ==
    /\ pc[c] = "update_password"
    /\ user' = [user EXCEPT ![form[c].claims.user].password = form[c].new]
    /\ Written(c, "done")
    /\ UNCHANGED <<shopOwner, profile, service, token>>

IsBarber(u) == user[u] # Nil /\ user[u].role = "barber"

\* A mutated form of ReadBarber: the barber is found among the users, not among
\* those with a profile.
ReadBarberUser(c) ==
    /\ pc[c] = "read_barber"
    /\ LET b == form[c].barber
       IN  Proceed(c, IF ~IsBarber(b) THEN "not_found"
                      ELSE IF user[b].shop # form[c].shop THEN "refused" ELSE "create_service")
    /\ UNCHANGED <<user, shopOwner, profile, service, token>>

\* users JOIN barber_profiles, and the comparison of the shops.
ReadBarber(c) ==
    /\ pc[c] = "read_barber"
    /\ LET b == form[c].barber
       IN  Proceed(c, IF b \notin profile \/ ~IsBarber(b) THEN "not_found"
                      ELSE IF user[b].shop # form[c].shop THEN "refused" ELSE "create_service")
    /\ UNCHANGED <<user, shopOwner, profile, service, token>>

CreateService(c) ==
    /\ pc[c] = "create_service"
    /\ service' = [service EXCEPT ![c] = [shop |-> form[c].shop, barber |-> form[c].barber]]
    /\ Written(c, "done")
    /\ UNCHANGED <<user, shopOwner, profile, token>>

\* A statement fails, or its deadline passes; nothing of it stays. A login
\* answers every error with 401.
Fail(c) ==
    /\ pc[c] \in Statements
    /\ Proceed(c, IF pc[c] = "find_user" THEN "unauthorized" ELSE "error")
    /\ UNCHANGED <<user, shopOwner, profile, service, token>>

\* JWT_EXPIRY_HOURS have passed. What it has let in goes on.
Expire(claims) ==
    /\ token' = token \ {claims}
    /\ UNCHANGED <<user, shopOwner, profile, service, pc, form>>

-----------------------------------------------------------------------------

Next ==
    \/ \E c \in Calls : \/ Receive(c) \/ CreateUser(c) \/ CreateProfile(c) \/ CreateShop(c)
                        \/ Login(c) \/ ReadUser(c) \/ UpdatePassword(c)
                        \/ ReadBarber(c) \/ CreateService(c) \/ Fail(c)
    \/ \E claims \in token : Expire(claims)

Spec == Init /\ [][Next]_vars

-----------------------------------------------------------------------------

TypeOK ==
    /\ user \in [Calls -> User \cup {Nil}]
    /\ shopOwner \in [Calls -> Calls \cup {Nil}]
    /\ profile \subseteq Calls
    /\ service \in [Calls -> Service \cup {Nil}]
    /\ token \subseteq Claims
    /\ pc \in [Calls -> {"idle"} \cup Statements \cup Answers]
    /\ DOMAIN form = Calls
    /\ \A c \in Calls : IF pc[c] = "idle" THEN form[c] = Nil ELSE form[c] \in Body(Op[c])

\* A token that is still accepted says what the row of its user says. The only
\* thing that may have become out of date since the login is the missing shop of
\* an owner whose seed run had not finished by then.
TokensAreCurrent ==
    \A claims \in token :
        /\ user[claims.user] # Nil
        /\ claims.role = user[claims.user].role
        /\ \/ claims.shop = user[claims.user].shop
           \/ claims.role = "owner" /\ claims.shop = Nil

\* A shop has its owner, who has it: CreateShop writes both tables or none,
\* whatever becomes of the seed command.
ShopsHaveTheirOwner ==
    \A s \in Calls : shopOwner[s] # Nil =>
        /\ user[shopOwner[s]] # Nil
        /\ user[shopOwner[s]].role = "owner"
        /\ user[shopOwner[s]].shop = s

\* Whoever put a barber or a service into a shop owns that shop. No handler asks
\* the database for it: they compare a path with a token.
StaffedByTheOwner ==
    \A c \in Calls :
        /\ IsBarber(c) => shopOwner[user[c].shop] = form[c].claims.user
        /\ service[c] # Nil => shopOwner[service[c].shop] = form[c].claims.user

\* The barber of a service is one who can be booked, with a profile, and of the
\* shop of the service. The bookings rely on it.
ServicesHaveTheirBarber ==
    \A c \in Calls : service[c] # Nil /\ service[c].barber # Nil =>
        /\ service[c].barber \in profile
        /\ IsBarber(service[c].barber)
        /\ user[service[c].barber].shop = service[c].shop

InitialPassword(u) == IF Op[u] = "onboard" THEN u ELSE form[u].password

\* The changes of the password of u that were written.
Changed(u) ==
    {c \in Calls : Op[c] = "password" /\ pc[c] \in {"done", "lost"} /\ form[c].claims.user = u}

\* A set of passwords that has the first one of u, and with the old password of a
\* change its new one.
Closed(u, known) ==
    /\ InitialPassword(u) \in known
    /\ \A c \in Changed(u) : form[c].current \in known => form[c].new \in known

\* A chain of changes leads from the password that an account was created with to
\* the one it has, each change typed with what the one before it had set: it is in
\* every closed set. Two changes that overlap may both succeed, but none is a
\* link for itself, or for another that is one for it. (The order in which they
\* came about is not part of it.)
PasswordsAreProven ==
    \A u \in Calls : user[u] # Nil =>
        \A known \in SUBSET ({InitialPassword(u)} \cup {form[c].new : c \in Changed(u)}) :
            Closed(u, known) => user[u].password \in known

\* What the models of bookings and approvals take as constant is constant: rows
\* do not vanish, roles and addresses do not change, a barber never changes the
\* shop, an owner gets a shop once, and a service keeps its shop and its barber.
StaffIsPermanent ==
    [][\A c \in Calls :
        /\ user[c] # Nil =>
            /\ user'[c] # Nil
            /\ user'[c].email = user[c].email /\ user'[c].role = user[c].role
            /\ user'[c].shop # user[c].shop => user[c].role = "owner" /\ user[c].shop = Nil
        /\ service[c] # Nil => service'[c] = service[c]
        /\ c \in profile => c \in profile']_vars

\* The account that an onboarding without success may leave behind opens to
\* nobody: nobody is told its password, nobody logs in, so no token is of it, no
\* call comes in its name, and no change of password reaches it.
NobodyEntersHalfOnboarded ==
    \A u \in Calls : Op[u] = "onboard" /\ pc[u] # "done" =>
        /\ \A claims \in token : claims.user # u
        /\ \A c \in Calls : pc[c] # "idle" /\ Op[c] \in {"password", "onboard", "service"} =>
              form[c].claims.user # u
        /\ user[u] # Nil => user[u].password = u

\* "The generated temp password is returned once so the owner can hand it to the
\* barber": an account whose onboarding is over has a password that somebody has.
TempPasswordReturned ==
    \A c \in Calls : IsBarber(c) /\ pc[c] \in Answers => pc[c] = "done"
=============================================================================
