----------------------------- MODULE AccountsProofs -----------------------------
(***************************************************************************)
(* Proofs about Accounts, for any number of calls, shops, addresses and    *)
(* passwords.                                                              *)
(*                                                                         *)
(* That a token is still true is not inductive by itself: one must know    *)
(* which call may still write to a row, and in which state that row is.    *)
(* Inductive says it: a row belongs to the call that inserted it, a shop    *)
(* to the seed run of its owner, and a call behind the middleware carries  *)
(* claims that were true when it came and that no later step falsifies.    *)
(***************************************************************************)
EXTENDS Accounts, TLAPS

\* What TokensAreCurrent says of one token.
Standing(claims) ==
    /\ user[claims.user] # Nil
    /\ claims.role = user[claims.user].role
    /\ \/ claims.shop = user[claims.user].shop
       \/ claims.role = "owner" /\ claims.shop = Nil

Protected == {"password", "onboard", "service"}

\* The claims that a call came with hold on, expired or not.
FormsStand == \A c \in Calls : pc[c] # "idle" /\ Op[c] \in Protected => Standing(form[c].claims)

\* A user row is the one that its call inserted.
Born(u) ==
    /\ pc[u] \notin {"idle", "create_user"}
    /\ \/ Op[u] = "register" /\ user[u].role = "customer" /\ user[u].shop = Nil
       \/ /\ Op[u] = "onboard" /\ user[u].role = "barber"
          /\ user[u].shop = form[u].shop /\ OwnShop(form[u])
       \/ /\ Op[u] = "seed" /\ user[u].role = "owner"
          /\ \/ user[u].shop = Nil /\ shopOwner[u] = Nil
             \/ user[u].shop = u /\ shopOwner[u] = u

UsersBorn == \A u \in Calls : user[u] # Nil => Born(u)

ShopsBorn == \A s \in Calls : shopOwner[s] # Nil =>
    /\ shopOwner[s] = s
    /\ user[s] # Nil /\ user[s].role = "owner" /\ user[s].shop = s

\* The check of CreateServiceHandler: it holds when it is made, and for ever.
Checked(c) == form[c].barber # Nil =>
    /\ form[c].barber \in profile
    /\ IsBarber(form[c].barber)
    /\ user[form[c].barber].shop = form[c].shop

ServicesBorn == \A c \in Calls : service[c] # Nil =>
    /\ Op[c] = "service" /\ pc[c] \notin {"idle", "read_barber", "create_service"}
    /\ service[c] = [shop |-> form[c].shop, barber |-> form[c].barber]
    /\ OwnShop(form[c]) /\ Checked(c)

\* What is known of a call that stands before a statement.
InFlight(c) ==
    /\ pc[c] = "create_user" => /\ Op[c] \in {"register", "onboard", "seed"}
                                /\ Op[c] = "onboard" => OwnShop(form[c])
    /\ pc[c] = "create_profile" => Op[c] = "onboard" /\ user[c] # Nil
    /\ pc[c] = "create_shop" => Op[c] = "seed" /\ user[c] # Nil /\ user[c].shop = Nil
    /\ pc[c] = "find_user" => Op[c] = "login"
    /\ pc[c] \in {"read_user", "update_password"} => Op[c] = "password"
    /\ pc[c] = "read_barber" => Op[c] = "service" /\ OwnShop(form[c]) /\ form[c].barber # Nil
    /\ pc[c] = "create_service" => Op[c] = "service" /\ OwnShop(form[c]) /\ Checked(c)

AllInFlight == \A c \in Calls : InFlight(c)

Inductive ==
    /\ TypeOK
    /\ TokensAreCurrent
    /\ FormsStand
    /\ UsersBorn
    /\ ShopsBorn
    /\ ServicesBorn
    /\ AllInFlight

-----------------------------------------------------------------------------
(* Types.                                                                  *)

\* A call's body has the type of its operation.
LEMMA BodyTypes ==
    ASSUME NEW op \in Ops
    PROVE  /\ op \in {"register", "login", "seed"} => Body(op) = Credentials
           /\ op = "password" => Body(op) = Change
           /\ op = "onboard" => Body(op) = Onboarding
           /\ op = "service" => Body(op) = Offer
BY DEF Ops, Body

\* Whatever is sent to a call has that type.
LEMMA BodiesTyped ==
    ASSUME TypeOK, NEW c \in Calls
    PROVE  Bodies(c) \subseteq Body(Op[c])
<1>1. Op[c] \in Ops
  BY AccountsAssumption
<1>2. Typed \subseteq Secrets
  BY DEF Typed, Secrets
<1>3. token \subseteq Claims
  BY DEF TypeOK
<1>4. CASE Op[c] \in {"register", "login", "seed"}
  <2>1. Bodies(c) = [email : Emails, password : Typed]
    BY <1>4 DEF Bodies
  <2>2. Body(Op[c]) = Credentials
    BY <1>1, <1>4, BodyTypes
  <2> QED
    BY <1>2, <2>1, <2>2 DEF Credentials
<1>5. CASE Op[c] = "password"
  <2>1. Bodies(c) = [claims : token, current : Typed, new : Passwords]
    BY <1>5 DEF Bodies
  <2>2. Body(Op[c]) = Change
    BY <1>1, <1>5, BodyTypes
  <2> QED
    BY <1>2, <1>3, <2>1, <2>2 DEF Change
<1>6. CASE Op[c] = "onboard"
  <2>1. Bodies(c) = [claims : token, shop : Calls, email : Emails]
    BY <1>6 DEF Bodies
  <2>2. Body(Op[c]) = Onboarding
    BY <1>1, <1>6, BodyTypes
  <2> QED
    BY <1>3, <2>1, <2>2 DEF Onboarding
<1>7. CASE Op[c] = "service"
  <2>1. Bodies(c) = [claims : token, shop : Calls, barber : Calls \cup {Nil}]
    BY <1>7 DEF Bodies
  <2>2. Body(Op[c]) = Offer
    BY <1>1, <1>7, BodyTypes
  <2> QED
    BY <1>3, <2>1, <2>2 DEF Offer
<1> QED
  BY <1>1, <1>4, <1>5, <1>6, <1>7 DEF Ops

\* What the body of a call that has come consists of.
LEMMA FormTypes ==
    ASSUME TypeOK, NEW c \in Calls, pc[c] # "idle"
    PROVE  /\ Op[c] \in {"register", "login", "seed"} => form[c] \in Credentials
           /\ Op[c] = "password" => form[c] \in Change
           /\ Op[c] = "onboard" => form[c] \in Onboarding
           /\ Op[c] = "service" => form[c] \in Offer
           /\ Op[c] \in Protected => form[c].claims \in Claims
<1>1. Op[c] \in Ops /\ form[c] \in Body(Op[c])
  BY AccountsAssumption DEF TypeOK
<1>2. /\ Op[c] \in {"register", "login", "seed"} => form[c] \in Credentials
      /\ Op[c] = "password" => form[c] \in Change
      /\ Op[c] = "onboard" => form[c] \in Onboarding
      /\ Op[c] = "service" => form[c] \in Offer
  BY <1>1, BodyTypes
<1> QED
  BY <1>2 DEF Protected, Change, Onboarding, Offer

\* The empty tables are typed.
LEMMA InitType == Init => TypeOK
BY DEF Init, TypeOK

\* A step of one call leaves pc and form typed.
LEMMA ProceedType ==
    ASSUME TypeOK, NEW c \in Calls, pc[c] # "idle",
           NEW next \in Statements \cup Answers, Proceed(c, next)
    PROVE  /\ pc' \in [Calls -> {"idle"} \cup Statements \cup Answers]
           /\ DOMAIN form' = Calls
           /\ \A d \in Calls : IF pc'[d] = "idle" THEN form'[d] = Nil
                               ELSE form'[d] \in Body(Op[d])
<1>1. next # "idle"
  BY DEF Statements, Answers
<1> QED
  BY <1>1 DEF TypeOK, Proceed

\* A user row is no shop, no service and not Nil.
LEMMA UserRow ==
    ASSUME TypeOK, NEW u \in Calls, user[u] # Nil
    PROVE  user[u] \in User
BY DEF TypeOK

\* The body that a call came with has been accepted, or the call was refused.
LEMMA ReceiveType ==
    ASSUME TypeOK, NEW c \in Calls, Receive(c)
    PROVE  TypeOK'
<1>1. PICK body \in Bodies(c) :
        /\ form' = [form EXCEPT ![c] = body]
        /\ pc' = [pc EXCEPT ![c] = IF Accepted(Op[c], body) THEN First(Op[c], body)
                                  ELSE "refused"]
  BY DEF Receive
<1>2. Op[c] \in Ops /\ body \in Body(Op[c])
  BY BodiesTyped, AccountsAssumption
<1>3. First(Op[c], body) \in Statements
  BY <1>2 DEF First, Ops, Statements
<1>4. pc' \in [Calls -> {"idle"} \cup Statements \cup Answers] /\ pc'[c] # "idle"
  BY <1>1, <1>3 DEF TypeOK, Statements, Answers
<1>5. \A d \in Calls : IF pc'[d] = "idle" THEN form'[d] = Nil ELSE form'[d] \in Body(Op[d])
  BY <1>1, <1>2, <1>4 DEF TypeOK
<1> QED
  BY <1>4, <1>5 DEF TypeOK, Receive

\* The type invariant is kept by every step.
LEMMA TypeStep ==
    ASSUME Inductive, [Next]_vars
    PROVE  TypeOK'
<1> USE DEF Inductive
<1>1. ASSUME NEW c \in Calls, Receive(c) PROVE TypeOK'
  BY <1>1, ReceiveType
<1>2. ASSUME NEW c \in Calls, CreateUser(c) PROVE TypeOK'
  <2>1. pc[c] = "create_user" /\ Op[c] \in {"register", "onboard", "seed"}
    BY <1>2 DEF CreateUser, AllInFlight, InFlight
  <2>2. PICK next \in Statements \cup Answers : Proceed(c, next)
    BY <1>2, <2>1 DEF CreateUser, Written, Statements, Answers
  <2>3. NewUser(c) \in User
    BY <2>1, FormTypes DEF NewUser, User, Roles, Credentials, Onboarding, Secrets
  <2>4. user' \in [Calls -> User \cup {Nil}]
    BY <1>2, <2>3 DEF CreateUser, TypeOK
  <2> QED
    BY <1>2, <2>1, <2>2, <2>4, ProceedType DEF CreateUser, TypeOK
<1>3. ASSUME NEW c \in Calls, CreateProfile(c) PROVE TypeOK'
  <2>1. PICK next \in Statements \cup Answers : Proceed(c, next)
    BY <1>3 DEF CreateProfile, Written, Statements, Answers
  <2> QED
    BY <1>3, <2>1, ProceedType DEF CreateProfile, TypeOK
<1>4. ASSUME NEW c \in Calls, CreateShop(c) PROVE TypeOK'
  <2>1. PICK next \in Statements \cup Answers : Proceed(c, next)
    BY <1>4 DEF CreateShop, Written, Statements, Answers
  <2>2. user[c] \in User
    BY <1>4, UserRow DEF CreateShop, AllInFlight, InFlight
  <2>3. user' \in [Calls -> User \cup {Nil}]
    BY <1>4, <2>2 DEF CreateShop, TypeOK, User
  <2> QED
    BY <1>4, <2>1, <2>3, ProceedType DEF CreateShop, TypeOK
<1>5. ASSUME NEW c \in Calls, Login(c) PROVE TypeOK'
  <2>1. PICK next \in Statements \cup Answers : Proceed(c, next)
    BY <1>5 DEF Login, Statements, Answers
  <2>2. \A u \in Calls : user[u] # Nil => ClaimsOf(u) \in Claims
    BY UserRow DEF ClaimsOf, Claims, User
  <2>3. token' \subseteq Claims
    BY <1>5, <2>2 DEF Login, TypeOK
  <2> QED
    BY <1>5, <2>1, <2>3, ProceedType DEF Login, TypeOK
<1>6. ASSUME NEW c \in Calls, ReadUser(c) PROVE TypeOK'
  <2>1. PICK next \in Statements \cup Answers : Proceed(c, next)
    BY <1>6 DEF ReadUser, Statements, Answers
  <2> QED
    BY <1>6, <2>1, ProceedType DEF ReadUser, TypeOK
<1>7. ASSUME NEW c \in Calls, UpdatePassword(c) PROVE TypeOK'
  <2>1. PICK next \in Statements \cup Answers : Proceed(c, next)
    BY <1>7 DEF UpdatePassword, Written, Statements, Answers
  <2>2. Op[c] = "password" /\ pc[c] # "idle"
    BY <1>7 DEF UpdatePassword, AllInFlight, InFlight
  <2>3. form[c].new \in Secrets /\ form[c].claims.user \in Calls
    BY <2>2, FormTypes DEF Change, Claims, Secrets
  <2>4. user[form[c].claims.user] \in User
    BY <2>2, <2>3, UserRow DEF FormsStand, Standing, Protected
  <2>5. user' \in [Calls -> User \cup {Nil}]
    BY <1>7, <2>3, <2>4 DEF UpdatePassword, TypeOK, User
  <2> QED
    BY <1>7, <2>1, <2>2, <2>5, ProceedType DEF UpdatePassword, TypeOK
<1>8. ASSUME NEW c \in Calls, ReadBarber(c) PROVE TypeOK'
  <2>1. PICK next \in Statements \cup Answers : Proceed(c, next)
    BY <1>8 DEF ReadBarber, Statements, Answers
  <2> QED
    BY <1>8, <2>1, ProceedType DEF ReadBarber, TypeOK
<1>9. ASSUME NEW c \in Calls, CreateService(c) PROVE TypeOK'
  <2>1. PICK next \in Statements \cup Answers : Proceed(c, next)
    BY <1>9 DEF CreateService, Written, Statements, Answers
  <2>2. Op[c] = "service" /\ pc[c] # "idle"
    BY <1>9 DEF CreateService, AllInFlight, InFlight
  <2>3. [shop |-> form[c].shop, barber |-> form[c].barber] \in Service
    BY <2>2, FormTypes DEF Offer, Service
  <2> QED
    BY <1>9, <2>1, <2>2, <2>3, ProceedType DEF CreateService, TypeOK
<1>10. ASSUME NEW c \in Calls, Fail(c) PROVE TypeOK'
  <2>1. PICK next \in Statements \cup Answers : Proceed(c, next)
    BY <1>10 DEF Fail, Answers
  <2>2. pc[c] # "idle"
    BY <1>10 DEF Fail, Statements
  <2> QED
    BY <1>10, <2>1, <2>2, ProceedType DEF Fail, TypeOK
<1>11. ASSUME NEW claims \in token, Expire(claims) PROVE TypeOK'
  BY <1>11 DEF Expire, TypeOK
<1>12. CASE UNCHANGED vars
  BY <1>12 DEF vars, TypeOK
<1> QED
  BY <1>1, <1>2, <1>3, <1>4, <1>5, <1>6, <1>7, <1>8, <1>9, <1>10, <1>11, <1>12 DEF Next

-----------------------------------------------------------------------------
(* What no step takes back.                                                *)

UsersGrow == \A u \in Calls : user[u] # Nil =>
    /\ user'[u] # Nil
    /\ user'[u].email = user[u].email /\ user'[u].role = user[u].role
    /\ \/ user'[u].shop = user[u].shop
       \/ user[u].role = "owner" /\ user[u].shop = Nil

CallsGrow == \A c \in Calls : pc[c] # "idle" => pc'[c] # "idle" /\ form'[c] = form[c]

\* Rows stay, with their addresses and roles; only an owner without a shop gets one.
LEMMA UsersStep ==
    ASSUME Inductive, [Next]_vars
    PROVE  UsersGrow
<1> USE DEF Inductive
<1>1. ASSUME NEW c \in Calls, Receive(c) PROVE UsersGrow
  BY <1>1 DEF Receive, UsersGrow
<1>2. ASSUME NEW c \in Calls, CreateUser(c) PROVE UsersGrow
  <2>1. user[c] = Nil
    BY <1>2 DEF CreateUser, UsersBorn, Born
  <2>2. \A u \in Calls \ {c} : user'[u] = user[u]
    BY <1>2 DEF CreateUser, TypeOK
  <2> QED
    BY <2>1, <2>2 DEF UsersGrow
<1>3. ASSUME NEW c \in Calls, CreateProfile(c) PROVE UsersGrow
  BY <1>3 DEF CreateProfile, UsersGrow
<1>4. ASSUME NEW c \in Calls, CreateShop(c) PROVE UsersGrow
  <2>1. user[c] \in User /\ user[c].role = "owner" /\ user[c].shop = Nil
    BY <1>4, UserRow DEF CreateShop, AllInFlight, InFlight, UsersBorn, Born
  <2>2. user' = [user EXCEPT ![c] = [user[c] EXCEPT !.shop = c]]
    BY <1>4 DEF CreateShop
  <2>3. user'[c] = [user[c] EXCEPT !.shop = c] /\ user'[c] \in User
    BY <2>1, <2>2 DEF TypeOK, User
  <2>4. user'[c].email = user[c].email /\ user'[c].role = user[c].role
    BY <2>1, <2>3 DEF User
  <2>5. \A u \in Calls \ {c} : user'[u] = user[u]
    BY <2>2 DEF TypeOK
  <2> QED
    BY <2>1, <2>3, <2>4, <2>5, NilIsNoRow DEF UsersGrow
<1>5. ASSUME NEW c \in Calls, Login(c) PROVE UsersGrow
  BY <1>5 DEF Login, UsersGrow
<1>6. ASSUME NEW c \in Calls, ReadUser(c) PROVE UsersGrow
  BY <1>6 DEF ReadUser, UsersGrow
<1>7. ASSUME NEW c \in Calls, UpdatePassword(c) PROVE UsersGrow
  <2> DEFINE u == form[c].claims.user
  <2>1. Op[c] = "password" /\ pc[c] # "idle"
    BY <1>7 DEF UpdatePassword, AllInFlight, InFlight
  <2>2. u \in Calls /\ form[c].new \in Secrets
    BY <2>1, FormTypes DEF Change, Claims, Secrets
  <2>3. user[u] \in User
    BY <2>1, <2>2, UserRow DEF FormsStand, Standing, Protected
  <2>4. user' = [user EXCEPT ![u] = [user[u] EXCEPT !.password = form[c].new]]
    BY <1>7 DEF UpdatePassword
  <2>5. user'[u] = [user[u] EXCEPT !.password = form[c].new] /\ user'[u] \in User
    BY <2>2, <2>3, <2>4 DEF TypeOK, User
  <2>6. /\ user'[u].email = user[u].email /\ user'[u].role = user[u].role
        /\ user'[u].shop = user[u].shop
    BY <2>3, <2>5 DEF User
  <2>7. \A v \in Calls \ {u} : user'[v] = user[v]
    BY <2>4 DEF TypeOK
  <2> QED
    BY <2>5, <2>6, <2>7, NilIsNoRow DEF UsersGrow
<1>8. ASSUME NEW c \in Calls, ReadBarber(c) PROVE UsersGrow
  BY <1>8 DEF ReadBarber, UsersGrow
<1>9. ASSUME NEW c \in Calls, CreateService(c) PROVE UsersGrow
  BY <1>9 DEF CreateService, UsersGrow
<1>10. ASSUME NEW c \in Calls, Fail(c) PROVE UsersGrow
  BY <1>10 DEF Fail, UsersGrow
<1>11. ASSUME NEW claims \in token, Expire(claims) PROVE UsersGrow
  BY <1>11 DEF Expire, UsersGrow
<1>12. CASE UNCHANGED vars
  BY <1>12 DEF vars, UsersGrow
<1> QED
  BY <1>1, <1>2, <1>3, <1>4, <1>5, <1>6, <1>7, <1>8, <1>9, <1>10, <1>11, <1>12 DEF Next

\* A call keeps the body that it came with.
LEMMA CallsStep ==
    ASSUME Inductive, [Next]_vars
    PROVE  CallsGrow
<1> USE DEF Inductive
<1>1. ASSUME NEW c \in Calls, Receive(c) PROVE CallsGrow
  BY <1>1 DEF Receive, CallsGrow, TypeOK
<1>2. ASSUME NEW c \in Calls, CreateUser(c) PROVE CallsGrow
  BY <1>2 DEF CreateUser, Written, Proceed, CallsGrow, TypeOK, AllInFlight, InFlight
<1>3. ASSUME NEW c \in Calls, CreateProfile(c) PROVE CallsGrow
  BY <1>3 DEF CreateProfile, Written, Proceed, CallsGrow, TypeOK
<1>4. ASSUME NEW c \in Calls, CreateShop(c) PROVE CallsGrow
  BY <1>4 DEF CreateShop, Written, Proceed, CallsGrow, TypeOK
<1>5. ASSUME NEW c \in Calls, Login(c) PROVE CallsGrow
  BY <1>5 DEF Login, Written, Proceed, CallsGrow, TypeOK
<1>6. ASSUME NEW c \in Calls, ReadUser(c) PROVE CallsGrow
  BY <1>6 DEF ReadUser, Written, Proceed, CallsGrow, TypeOK
<1>7. ASSUME NEW c \in Calls, UpdatePassword(c) PROVE CallsGrow
  BY <1>7 DEF UpdatePassword, Written, Proceed, CallsGrow, TypeOK
<1>8. ASSUME NEW c \in Calls, ReadBarber(c) PROVE CallsGrow
  BY <1>8 DEF ReadBarber, Written, Proceed, CallsGrow, TypeOK
<1>9. ASSUME NEW c \in Calls, CreateService(c) PROVE CallsGrow
  BY <1>9 DEF CreateService, Written, Proceed, CallsGrow, TypeOK
<1>10. ASSUME NEW c \in Calls, Fail(c) PROVE CallsGrow
  BY <1>10 DEF Fail, Written, Proceed, CallsGrow, TypeOK
<1>11. ASSUME NEW claims \in token, Expire(claims) PROVE CallsGrow
  BY <1>11 DEF Expire, CallsGrow
<1>12. CASE UNCHANGED vars
  BY <1>12 DEF vars, CallsGrow
<1> QED
  BY <1>1, <1>2, <1>3, <1>4, <1>5, <1>6, <1>7, <1>8, <1>9, <1>10, <1>11, <1>12 DEF Next

\* Profiles and services stay.
LEMMA RowsStep ==
    ASSUME Inductive, [Next]_vars
    PROVE  /\ profile \subseteq profile'
           /\ \A c \in Calls : service[c] # Nil => service'[c] = service[c]
<1> DEFINE Kept == /\ profile \subseteq profile'
                   /\ \A c \in Calls : service[c] # Nil => service'[c] = service[c]
<1> USE DEF Inductive
<1>1. ASSUME NEW c \in Calls, Receive(c) PROVE Kept
  BY <1>1 DEF Receive
<1>2. ASSUME NEW c \in Calls, CreateUser(c) PROVE Kept
  BY <1>2 DEF CreateUser
<1>3. ASSUME NEW c \in Calls, CreateProfile(c) PROVE Kept
  BY <1>3 DEF CreateProfile
<1>4. ASSUME NEW c \in Calls, CreateShop(c) PROVE Kept
  BY <1>4 DEF CreateShop
<1>5. ASSUME NEW c \in Calls, Login(c) PROVE Kept
  BY <1>5 DEF Login
<1>6. ASSUME NEW c \in Calls, ReadUser(c) PROVE Kept
  BY <1>6 DEF ReadUser
<1>7. ASSUME NEW c \in Calls, UpdatePassword(c) PROVE Kept
  BY <1>7 DEF UpdatePassword
<1>8. ASSUME NEW c \in Calls, ReadBarber(c) PROVE Kept
  BY <1>8 DEF ReadBarber
<1>9. ASSUME NEW c \in Calls, CreateService(c) PROVE Kept
  <2>1. service[c] = Nil
    BY <1>9 DEF CreateService, ServicesBorn
  <2> QED
    BY <1>9, <2>1 DEF CreateService, TypeOK
<1>10. ASSUME NEW c \in Calls, Fail(c) PROVE Kept
  BY <1>10 DEF Fail
<1>11. ASSUME NEW claims \in token, Expire(claims) PROVE Kept
  BY <1>11 DEF Expire
<1>12. CASE UNCHANGED vars
  BY <1>12 DEF vars
<1> QED
  BY <1>1, <1>2, <1>3, <1>4, <1>5, <1>6, <1>7, <1>8, <1>9, <1>10, <1>11, <1>12 DEF Next

\* What a token says is true for ever.
LEMMA StandingStep ==
    ASSUME Inductive, [Next]_vars, NEW claims \in Claims, Standing(claims)
    PROVE  Standing(claims)'
<1>1. claims.user \in Calls
  BY DEF Claims
<1> QED
  BY <1>1, UsersStep DEF Standing, UsersGrow

-----------------------------------------------------------------------------
(* The parts of Inductive, one by one.                                     *)

\* A login writes what the row says into the token.
LEMMA TokensStep ==
    ASSUME Inductive, [Next]_vars
    PROVE  TokensAreCurrent'
<1>1. \A claims \in token : claims \in Claims /\ Standing(claims)'
  BY StandingStep DEF Inductive, TypeOK, TokensAreCurrent, Standing
<1>2. ASSUME NEW c \in Calls, Login(c) PROVE TokensAreCurrent'
  <2>1. CASE UNCHANGED token
    BY <1>1, <2>1 DEF TokensAreCurrent, Standing
  <2>2. CASE \E u \in Calls : user[u] # Nil /\ token' = token \cup {ClaimsOf(u)}
    BY <1>1, <1>2, <2>2 DEF TokensAreCurrent, Standing, Login, ClaimsOf
  <2> QED
    BY <1>2, <2>1, <2>2 DEF Login
<1>3. CASE token' \subseteq token
  BY <1>1, <1>3 DEF TokensAreCurrent, Standing
<1>4. (\E c \in Calls : Login(c)) \/ token' \subseteq token
  BY DEF Next, vars, Receive, CreateUser, CreateProfile, CreateShop, ReadUser,
         UpdatePassword, ReadBarber, CreateService, Fail, Expire
<1> QED
  BY <1>2, <1>3, <1>4

\* Auth lets a call in with a token that is true.
LEMMA FormsStep ==
    ASSUME Inductive, [Next]_vars
    PROVE  FormsStand'
<1> SUFFICES ASSUME NEW d \in Calls, pc'[d] # "idle", Op[d] \in Protected
             PROVE  Standing(form[d].claims)'
  BY DEF FormsStand
<1>1. CASE pc[d] # "idle"
  <2>1. form'[d] = form[d]
    BY <1>1, CallsStep DEF CallsGrow
  <2>2. form[d].claims \in Claims /\ Standing(form[d].claims)
    BY <1>1, FormTypes DEF Inductive, FormsStand
  <2>3. Standing(form[d].claims)' <=> /\ user'[form'[d].claims.user] # Nil
                                      /\ form'[d].claims.role = user'[form'[d].claims.user].role
                                      /\ \/ form'[d].claims.shop = user'[form'[d].claims.user].shop
                                         \/ form'[d].claims.role = "owner" /\ form'[d].claims.shop = Nil
    BY DEF Standing
  <2>4. form[d].claims.user \in Calls
    BY <2>2 DEF Claims
  <2> QED
    BY <2>1, <2>2, <2>3, <2>4, UsersStep DEF Standing, UsersGrow
<1>2. CASE pc[d] = "idle"
  <2>1. Receive(d)
    BY <1>2 DEF Next, vars, Receive, CreateUser, CreateProfile, CreateShop, Login, ReadUser,
                UpdatePassword, ReadBarber, CreateService, Fail, Expire, Written, Proceed,
                Statements, Inductive, TypeOK
  <2>2. form'[d] \in Bodies(d) /\ user' = user
    BY <2>1 DEF Receive, Inductive, TypeOK
  <2>3. form'[d].claims \in token
    BY <2>2 DEF Bodies, Protected
  <2> QED
    BY <2>2, <2>3 DEF Inductive, TokensAreCurrent, Standing
<1> QED
  BY <1>1, <1>2

\* A step that touches no user, no shop and no form of a call in flight keeps
\* what is known of the rows.
LEMMA BornKept ==
    ASSUME Inductive, [Next]_vars, NEW u \in Calls, user[u] # Nil,
           user'[u].role = user[u].role, user'[u].shop = user[u].shop,
           shopOwner'[u] = shopOwner[u], pc'[u] # "create_user"
    PROVE  Born(u)'
<1>1. Born(u)
  BY DEF Inductive, UsersBorn
<1>2. pc'[u] # "idle" /\ form'[u] = form[u]
  BY <1>1, CallsStep DEF Born, CallsGrow
<1> QED
  BY <1>1, <1>2 DEF Born, OwnShop

\* No call goes back to create_user.
LEMMA NeverCreatesAgain ==
    ASSUME Inductive, [Next]_vars, NEW u \in Calls, pc[u] \notin {"idle", "create_user"}
    PROVE  pc'[u] # "create_user"
<1> DEFINE Goal == pc'[u] # "create_user"
<1> USE DEF Inductive
<1>1. ASSUME NEW c \in Calls, Receive(c) PROVE Goal
  BY <1>1 DEF Receive, TypeOK
<1>2. ASSUME NEW c \in Calls, CreateUser(c) PROVE Goal
  BY <1>2 DEF CreateUser, Written, Proceed, TypeOK, AllInFlight, InFlight
<1>3. ASSUME NEW c \in Calls, CreateProfile(c) PROVE Goal
  BY <1>3 DEF CreateProfile, Written, Proceed, TypeOK
<1>4. ASSUME NEW c \in Calls, CreateShop(c) PROVE Goal
  BY <1>4 DEF CreateShop, Written, Proceed, TypeOK
<1>5. ASSUME NEW c \in Calls, Login(c) PROVE Goal
  BY <1>5 DEF Login, Written, Proceed, TypeOK
<1>6. ASSUME NEW c \in Calls, ReadUser(c) PROVE Goal
  BY <1>6 DEF ReadUser, Written, Proceed, TypeOK
<1>7. ASSUME NEW c \in Calls, UpdatePassword(c) PROVE Goal
  BY <1>7 DEF UpdatePassword, Written, Proceed, TypeOK
<1>8. ASSUME NEW c \in Calls, ReadBarber(c) PROVE Goal
  BY <1>8 DEF ReadBarber, Written, Proceed, TypeOK
<1>9. ASSUME NEW c \in Calls, CreateService(c) PROVE Goal
  BY <1>9 DEF CreateService, Written, Proceed, TypeOK
<1>10. ASSUME NEW c \in Calls, Fail(c) PROVE Goal
  BY <1>10 DEF Fail, Written, Proceed, TypeOK
<1>11. ASSUME NEW claims \in token, Expire(claims) PROVE Goal
  BY <1>11 DEF Expire
<1>12. CASE UNCHANGED vars
  BY <1>12 DEF vars
<1> QED
  BY <1>1, <1>2, <1>3, <1>4, <1>5, <1>6, <1>7, <1>8, <1>9, <1>10, <1>11, <1>12 DEF Next

\* A new row is its call's; a seed run gives its owner a shop.
LEMMA UsersBornStep ==
    ASSUME Inductive, [Next]_vars
    PROVE  UsersBorn'
<1> SUFFICES ASSUME NEW v \in Calls, user'[v] # Nil
             PROVE  Born(v)'
  BY DEF UsersBorn
<1> DEFINE Goal == Born(v)'
<1>0. ASSUME user[v] # Nil, user'[v].role = user[v].role, user'[v].shop = user[v].shop,
             shopOwner'[v] = shopOwner[v]
      PROVE  Goal
  BY <1>0, BornKept, NeverCreatesAgain DEF Inductive, UsersBorn, Born
<1>1. ASSUME NEW c \in Calls, Receive(c) PROVE Goal
  BY <1>1, <1>0 DEF Receive
<1>2. ASSUME NEW c \in Calls, CreateUser(c) PROVE Goal
  <2>1. user[c] = Nil /\ pc[c] = "create_user" /\ Op[c] \in {"register", "onboard", "seed"}
    BY <1>2 DEF CreateUser, Inductive, UsersBorn, Born, AllInFlight, InFlight
  <2>2. CASE v # c \/ UNCHANGED user
    <3>1. user'[v] = user[v] /\ shopOwner' = shopOwner
      BY <1>2, <2>2 DEF CreateUser, Inductive, TypeOK
    <3> QED
      BY <3>1, <1>0
  <2>3. CASE v = c /\ ~UNCHANGED user
    <3>1. user'[c] = NewUser(c) /\ shopOwner' = shopOwner /\ form' = form
      BY <1>2, <2>3 DEF CreateUser, Written, Proceed, Inductive, TypeOK
    <3>2. pc'[c] \notin {"idle", "create_user"}
      BY <1>2, <2>1, <2>3 DEF CreateUser, Written, Proceed, Inductive, TypeOK
    <3>3. shopOwner[c] = Nil
      BY <2>1 DEF Inductive, ShopsBorn
    <3>4. Op[c] = "onboard" => OwnShop(form[c])
      BY <2>1 DEF Inductive, AllInFlight, InFlight
    <3> QED
      BY <2>1, <2>3, <3>1, <3>2, <3>3, <3>4 DEF NewUser, Born, OwnShop
  <2> QED
    BY <2>2, <2>3
<1>3. ASSUME NEW c \in Calls, CreateProfile(c) PROVE Goal
  BY <1>3, <1>0 DEF CreateProfile
<1>4. ASSUME NEW c \in Calls, CreateShop(c) PROVE Goal
  <2>1. /\ user[c] \in User /\ pc[c] = "create_shop" /\ Op[c] = "seed"
        /\ user[c].role = "owner"
    BY <1>4, UserRow DEF CreateShop, Inductive, AllInFlight, InFlight, UsersBorn, Born
  <2>2. CASE v # c
    <3>1. user'[v] = user[v] /\ shopOwner'[v] = shopOwner[v]
      BY <1>4, <2>2 DEF CreateShop, Inductive, TypeOK
    <3> QED
      BY <3>1, <1>0
  <2>3. CASE v = c
    <3>1. user'[c] = [user[c] EXCEPT !.shop = c] /\ shopOwner'[c] = c
      BY <1>4, <2>3 DEF CreateShop, Inductive, TypeOK
    <3>2. user'[c].role = "owner" /\ user'[c].shop = c
      BY <2>1, <3>1 DEF User
    <3>3. pc'[c] \notin {"idle", "create_user"}
      BY <1>4, <2>1 DEF CreateShop, Written, Proceed, Inductive, TypeOK
    <3> QED
      BY <2>1, <2>3, <3>1, <3>2, <3>3 DEF Born
  <2> QED
    BY <2>2, <2>3
<1>5. ASSUME NEW c \in Calls, Login(c) PROVE Goal
  BY <1>5, <1>0 DEF Login
<1>6. ASSUME NEW c \in Calls, ReadUser(c) PROVE Goal
  BY <1>6, <1>0 DEF ReadUser
<1>7. ASSUME NEW c \in Calls, UpdatePassword(c) PROVE Goal
  <2>1. user[v] # Nil /\ shopOwner' = shopOwner
    BY <1>7 DEF UpdatePassword, Inductive, TypeOK, AllInFlight, InFlight, FormsStand, Standing, Protected
  <2>2. user'[v].role = user[v].role /\ user'[v].shop = user[v].shop
    <3>1. user[v] \in User
      BY <2>1, UserRow DEF Inductive
    <3>2. user' = [user EXCEPT ![form[c].claims.user] =
                      [user[form[c].claims.user] EXCEPT !.password = form[c].new]]
      BY <1>7 DEF UpdatePassword
    <3>3. user'[v] \in {user[v], [user[v] EXCEPT !.password = form[c].new]}
      BY <3>2 DEF Inductive, TypeOK
    <3> QED
      BY <3>1, <3>3 DEF User
  <2> QED
    BY <2>1, <2>2, <1>0
<1>8. ASSUME NEW c \in Calls, ReadBarber(c) PROVE Goal
  BY <1>8, <1>0 DEF ReadBarber
<1>9. ASSUME NEW c \in Calls, CreateService(c) PROVE Goal
  BY <1>9, <1>0 DEF CreateService
<1>10. ASSUME NEW c \in Calls, Fail(c) PROVE Goal
  BY <1>10, <1>0 DEF Fail
<1>11. ASSUME NEW claims \in token, Expire(claims) PROVE Goal
  BY <1>11, <1>0 DEF Expire
<1>12. CASE UNCHANGED vars
  BY <1>12, <1>0 DEF vars
<1> QED
  BY <1>1, <1>2, <1>3, <1>4, <1>5, <1>6, <1>7, <1>8, <1>9, <1>10, <1>11, <1>12 DEF Next

\* A shop is born with its owner, and both stay.
LEMMA ShopsBornStep ==
    ASSUME Inductive, [Next]_vars
    PROVE  ShopsBorn'
<1> SUFFICES ASSUME NEW s \in Calls, shopOwner'[s] # Nil
             PROVE  /\ shopOwner'[s] = s
                    /\ user'[s] # Nil /\ user'[s].role = "owner" /\ user'[s].shop = s
  BY DEF ShopsBorn
<1>1. CASE shopOwner'[s] = shopOwner[s]
  <2>1. shopOwner[s] = s /\ user[s] # Nil /\ user[s].role = "owner" /\ user[s].shop = s
    BY <1>1 DEF Inductive, ShopsBorn
  <2>2. user[s].shop # Nil
    BY <2>1, AccountsAssumption
  <2> QED
    BY <1>1, <2>1, <2>2, UsersStep DEF UsersGrow
<1>2. CASE shopOwner'[s] # shopOwner[s]
  <2>1. CreateShop(s)
    BY <1>2 DEF Next, vars, Receive, CreateUser, CreateProfile, CreateShop, Login, ReadUser,
                UpdatePassword, ReadBarber, CreateService, Fail, Expire, Inductive, TypeOK
  <2>2. user[s] \in User /\ user[s].role = "owner"
    BY <2>1, UserRow DEF CreateShop, Inductive, AllInFlight, InFlight, UsersBorn, Born
  <2>3. shopOwner'[s] = s /\ user'[s] = [user[s] EXCEPT !.shop = s]
    BY <2>1 DEF CreateShop, Inductive, TypeOK
  <2>4. user'[s].role = "owner" /\ user'[s].shop = s
    BY <2>2, <2>3 DEF User
  <2>5. user'[s] # Nil
    BY <2>2, UsersStep, NilIsNoRow DEF UsersGrow
  <2> QED
    BY <2>3, <2>4, <2>5
<1> QED
  BY <1>1, <1>2

\* A barber who was there stays, with profile and shop.
LEMMA CheckedStep ==
    ASSUME Inductive, [Next]_vars, NEW c \in Calls, pc[c] # "idle", Op[c] = "service",
           Checked(c)
    PROVE  Checked(c)'
<1>1. form'[c] = form[c] /\ form[c] \in Offer
  BY CallsStep, FormTypes DEF CallsGrow, Inductive
<1> SUFFICES ASSUME form[c].barber # Nil
             PROVE  /\ form[c].barber \in profile'
                    /\ user'[form[c].barber] # Nil
                    /\ user'[form[c].barber].role = "barber"
                    /\ user'[form[c].barber].shop = form[c].shop
  BY <1>1 DEF Checked, IsBarber
<1>2. form[c].barber \in Calls
  BY <1>1 DEF Offer
<1> QED
  BY <1>2, UsersStep, RowsStep DEF Checked, IsBarber, UsersGrow

\* No call goes back to the INSERT of its service.
LEMMA NeverInsertsAgain ==
    ASSUME Inductive, [Next]_vars, NEW d \in Calls,
           pc[d] \notin {"idle", "read_barber", "create_service"}
    PROVE  pc'[d] \notin {"read_barber", "create_service"}
<1> DEFINE Goal == pc'[d] \notin {"read_barber", "create_service"}
<1> USE DEF Inductive
<1>1. ASSUME NEW c \in Calls, Receive(c) PROVE Goal
  BY <1>1 DEF Receive, TypeOK
<1>2. ASSUME NEW c \in Calls, CreateUser(c) PROVE Goal
  BY <1>2 DEF CreateUser, Written, Proceed, TypeOK, AllInFlight, InFlight
<1>3. ASSUME NEW c \in Calls, CreateProfile(c) PROVE Goal
  BY <1>3 DEF CreateProfile, Written, Proceed, TypeOK
<1>4. ASSUME NEW c \in Calls, CreateShop(c) PROVE Goal
  BY <1>4 DEF CreateShop, Written, Proceed, TypeOK
<1>5. ASSUME NEW c \in Calls, Login(c) PROVE Goal
  BY <1>5 DEF Login, Written, Proceed, TypeOK
<1>6. ASSUME NEW c \in Calls, ReadUser(c) PROVE Goal
  BY <1>6 DEF ReadUser, Written, Proceed, TypeOK
<1>7. ASSUME NEW c \in Calls, UpdatePassword(c) PROVE Goal
  BY <1>7 DEF UpdatePassword, Written, Proceed, TypeOK
<1>8. ASSUME NEW c \in Calls, ReadBarber(c) PROVE Goal
  BY <1>8 DEF ReadBarber, Written, Proceed, TypeOK
<1>9. ASSUME NEW c \in Calls, CreateService(c) PROVE Goal
  BY <1>9 DEF CreateService, Written, Proceed, TypeOK
<1>10. ASSUME NEW c \in Calls, Fail(c) PROVE Goal
  BY <1>10 DEF Fail, Written, Proceed, TypeOK
<1>11. ASSUME NEW claims \in token, Expire(claims) PROVE Goal
  BY <1>11 DEF Expire
<1>12. CASE UNCHANGED vars
  BY <1>12 DEF vars
<1> QED
  BY <1>1, <1>2, <1>3, <1>4, <1>5, <1>6, <1>7, <1>8, <1>9, <1>10, <1>11, <1>12 DEF Next

\* A service is inserted behind its checks, and they hold on.
LEMMA ServicesBornStep ==
    ASSUME Inductive, [Next]_vars
    PROVE  ServicesBorn'
<1> SUFFICES ASSUME NEW d \in Calls, service'[d] # Nil
             PROVE  (/\ Op[d] = "service" /\ pc[d] \notin {"idle", "read_barber", "create_service"}
                     /\ service[d] = [shop |-> form[d].shop, barber |-> form[d].barber]
                     /\ OwnShop(form[d]) /\ Checked(d))'
  BY DEF ServicesBorn
<1>1. CASE service[d] # Nil
  <2>1. /\ Op[d] = "service" /\ pc[d] \notin {"idle", "read_barber", "create_service"}
        /\ service[d] = [shop |-> form[d].shop, barber |-> form[d].barber]
        /\ OwnShop(form[d]) /\ Checked(d)
    BY <1>1 DEF Inductive, ServicesBorn
  <2>2. form'[d] = form[d] /\ pc'[d] # "idle" /\ service'[d] = service[d]
    BY <1>1, <2>1, CallsStep, RowsStep DEF CallsGrow
  <2>3. Checked(d)'
    BY <2>1, CheckedStep
  <2>4. pc'[d] \notin {"read_barber", "create_service"}
    BY <2>1, NeverInsertsAgain
  <2> QED
    BY <2>1, <2>2, <2>3, <2>4 DEF OwnShop
<1>2. CASE service[d] = Nil
  <2>1. CreateService(d)
    BY <1>2 DEF Next, vars, Receive, CreateUser, CreateProfile, CreateShop, Login, ReadUser,
                UpdatePassword, ReadBarber, CreateService, Fail, Expire, Inductive, TypeOK
  <2>2. pc[d] = "create_service" /\ Op[d] = "service" /\ OwnShop(form[d]) /\ Checked(d)
    BY <2>1 DEF CreateService, Inductive, AllInFlight, InFlight
  <2>3. /\ service'[d] = [shop |-> form[d].shop, barber |-> form[d].barber]
        /\ form' = form /\ pc'[d] \in {"done", "lost"}
    BY <2>1 DEF CreateService, Written, Proceed, Inductive, TypeOK
  <2>4. Checked(d)'
    BY <2>2, CheckedStep
  <2> QED
    BY <2>2, <2>3, <2>4 DEF OwnShop
<1> QED
  BY <1>1, <1>2

\* A call that does not move still stands before what it stood before.
LEMMA InFlightKept ==
    ASSUME Inductive, [Next]_vars, NEW d \in Calls, pc'[d] = pc[d], pc[d] # "idle",
           pc[d] = "create_shop" => user'[d] = user[d]
    PROVE  InFlight(d)'
<1>1. form'[d] = form[d] /\ InFlight(d)
  BY CallsStep DEF CallsGrow, Inductive, AllInFlight
<1>2. pc[d] = "create_profile" => user'[d] # Nil
  BY <1>1, UsersStep DEF UsersGrow, InFlight
<1>3. pc[d] = "create_service" => Checked(d)'
  BY <1>1, CheckedStep DEF InFlight
<1> QED
  BY <1>1, <1>2, <1>3 DEF InFlight, OwnShop

\* Each statement is reached through the ones before it.
LEMMA InFlightStep ==
    ASSUME Inductive, [Next]_vars
    PROVE  AllInFlight'
<1> SUFFICES ASSUME NEW d \in Calls PROVE InFlight(d)'
  BY DEF AllInFlight
<1> DEFINE Goal == InFlight(d)'
<1>0. ASSUME pc'[d] = pc[d], pc[d] = "create_shop" => user'[d] = user[d]
      PROVE  Goal
  <2>1. CASE pc[d] = "idle"
    BY <1>0, <2>1 DEF InFlight
  <2> QED
    BY <1>0, <2>1, InFlightKept
<1>a. ASSUME pc'[d] \in Answers
      PROVE  Goal
  BY <1>a DEF InFlight, Answers
<1>1. ASSUME NEW c \in Calls, Receive(c) PROVE Goal
  <2>1. CASE d # c
    BY <1>1, <2>1, <1>0 DEF Receive, Inductive, TypeOK
  <2>2. CASE d = c
    <3>1. PICK body \in Bodies(c) :
            /\ form' = [form EXCEPT ![c] = body]
            /\ pc' = [pc EXCEPT ![c] = IF Accepted(Op[c], body) THEN First(Op[c], body)
                                      ELSE "refused"]
      BY <1>1 DEF Receive
    <3>2. form'[c] = body /\ Op[c] \in Ops
      BY <3>1, AccountsAssumption DEF Inductive, TypeOK
    <3>3. CASE ~Accepted(Op[c], body)
      BY <2>2, <3>1, <3>3, <1>a DEF Answers, Inductive, TypeOK
    <3>4. CASE Accepted(Op[c], body)
      <4>1. pc'[c] = First(Op[c], body)
        BY <3>1, <3>4 DEF Inductive, TypeOK
      <4>2. Op[c] \in {"onboard", "service"} => OwnShop(form'[c])
        BY <3>2, <3>4 DEF Accepted
      <4> QED
        BY <2>2, <3>2, <4>1, <4>2 DEF First, Ops, InFlight, OwnShop, Checked
    <3> QED
      BY <3>3, <3>4
  <2> QED
    BY <2>1, <2>2
<1>2. ASSUME NEW c \in Calls, CreateUser(c) PROVE Goal
  <2>1. CASE d # c
    BY <1>2, <2>1, <1>0 DEF CreateUser, Written, Proceed, Inductive, TypeOK
  <2>2. CASE d = c
    <3>1. pc[c] = "create_user" /\ Op[c] \in {"register", "onboard", "seed"}
      BY <1>2 DEF CreateUser, Inductive, AllInFlight, InFlight
    <3>2. CASE pc'[c] \in Answers
      BY <2>2, <3>2, <1>a
    <3>3. CASE pc'[c] \notin Answers
      <4>1. /\ user'[c] = NewUser(c)
            /\ \/ Op[c] = "onboard" /\ pc'[c] = "create_profile"
               \/ Op[c] = "seed" /\ pc'[c] = "create_shop"
        BY <1>2, <3>1, <3>3 DEF CreateUser, Written, Proceed, Inductive, TypeOK, Answers
      <4>2. user'[c] # Nil
        <5>1. NewUser(c) \in User
          BY <3>1, FormTypes DEF NewUser, User, Roles, Credentials, Onboarding, Secrets, Inductive
        <5> QED
          BY <4>1, <5>1, NilIsNoRow
      <4> QED
        BY <2>2, <4>1, <4>2 DEF InFlight, NewUser
    <3> QED
      BY <3>2, <3>3
  <2> QED
    BY <2>1, <2>2
<1>3. ASSUME NEW c \in Calls, CreateProfile(c) PROVE Goal
  <2>1. CASE d # c
    BY <1>3, <2>1, <1>0 DEF CreateProfile, Written, Proceed, Inductive, TypeOK
  <2>2. CASE d = c
    <3>1. pc'[d] \in Answers
      BY <1>3, <2>2 DEF CreateProfile, Written, Proceed, Inductive, TypeOK, Answers
    <3> QED
      BY <3>1, <1>a
  <2> QED
    BY <2>1, <2>2
<1>4. ASSUME NEW c \in Calls, CreateShop(c) PROVE Goal
  <2>1. CASE d # c
    BY <1>4, <2>1, <1>0 DEF CreateShop, Written, Proceed, Inductive, TypeOK
  <2>2. CASE d = c
    <3>1. pc'[d] \in Answers
      BY <1>4, <2>2 DEF CreateShop, Written, Proceed, Inductive, TypeOK, Answers
    <3> QED
      BY <3>1, <1>a
  <2> QED
    BY <2>1, <2>2
<1>5. ASSUME NEW c \in Calls, Login(c) PROVE Goal
  <2>1. CASE d # c
    BY <1>5, <2>1, <1>0 DEF Login, Written, Proceed, Inductive, TypeOK
  <2>2. CASE d = c
    <3>1. pc'[d] \in Answers
      BY <1>5, <2>2 DEF Login, Written, Proceed, Inductive, TypeOK, Answers
    <3> QED
      BY <3>1, <1>a
  <2> QED
    BY <2>1, <2>2
<1>6. ASSUME NEW c \in Calls, ReadUser(c) PROVE Goal
  <2>1. CASE d # c
    BY <1>6, <2>1, <1>0 DEF ReadUser, Proceed, Inductive, TypeOK
  <2>2. CASE d = c
    BY <1>6, <2>2 DEF ReadUser, Proceed, InFlight, AllInFlight, Inductive, TypeOK
  <2> QED
    BY <2>1, <2>2
<1>7. ASSUME NEW c \in Calls, UpdatePassword(c) PROVE Goal
  <2>1. CASE d # c
    <3>1. pc'[d] = pc[d]
      BY <1>7, <2>1 DEF UpdatePassword, Written, Proceed, Inductive, TypeOK
    <3>2. pc[d] = "create_shop" => user'[d].shop = Nil /\ Op[d] = "seed" /\ user'[d] # Nil
      <4> SUFFICES ASSUME pc[d] = "create_shop" PROVE user'[d].shop = Nil /\ Op[d] = "seed" /\ user'[d] # Nil
        OBVIOUS
      <4>1. user[d] \in User /\ user[d].shop = Nil /\ Op[d] = "seed"
        BY UserRow DEF Inductive, AllInFlight, InFlight
      <4>2. user' = [user EXCEPT ![form[c].claims.user] =
                        [user[form[c].claims.user] EXCEPT !.password = form[c].new]]
        BY <1>7 DEF UpdatePassword
      <4>3. user'[d] \in {user[d], [user[d] EXCEPT !.password = form[c].new]}
        BY <4>2 DEF Inductive, TypeOK
      <4> QED
        BY <4>1, <4>3, UsersStep, NilIsNoRow DEF User, UsersGrow
    <3>3. CASE pc[d] = "create_shop"
      BY <3>1, <3>2, <3>3 DEF InFlight
    <3> QED
      BY <3>1, <3>3, <1>0
  <2>2. CASE d = c
    <3>1. pc'[d] \in Answers
      BY <1>7, <2>2 DEF UpdatePassword, Written, Proceed, Inductive, TypeOK, Answers
    <3> QED
      BY <3>1, <1>a
  <2> QED
    BY <2>1, <2>2
<1>8. ASSUME NEW c \in Calls, ReadBarber(c) PROVE Goal
  <2>1. CASE d # c
    BY <1>8, <2>1, <1>0 DEF ReadBarber, Proceed, Inductive, TypeOK
  <2>2. CASE d = c
    BY <1>8, <2>2 DEF ReadBarber, Proceed, InFlight, AllInFlight, Inductive, TypeOK, OwnShop,
                    Checked, IsBarber
  <2> QED
    BY <2>1, <2>2
<1>9. ASSUME NEW c \in Calls, CreateService(c) PROVE Goal
  <2>1. CASE d # c
    BY <1>9, <2>1, <1>0 DEF CreateService, Written, Proceed, Inductive, TypeOK
  <2>2. CASE d = c
    <3>1. pc'[d] \in Answers
      BY <1>9, <2>2 DEF CreateService, Written, Proceed, Inductive, TypeOK, Answers
    <3> QED
      BY <3>1, <1>a
  <2> QED
    BY <2>1, <2>2
<1>10. ASSUME NEW c \in Calls, Fail(c) PROVE Goal
  <2>1. CASE d # c
    BY <1>10, <2>1, <1>0 DEF Fail, Written, Proceed, Inductive, TypeOK
  <2>2. CASE d = c
    <3>1. pc'[d] \in Answers
      BY <1>10, <2>2 DEF Fail, Written, Proceed, Inductive, TypeOK, Answers
    <3> QED
      BY <3>1, <1>a
  <2> QED
    BY <2>1, <2>2
<1>11. ASSUME NEW claims \in token, Expire(claims) PROVE Goal
  BY <1>11, <1>0 DEF Expire
<1>12. CASE UNCHANGED vars
  BY <1>12, <1>0 DEF vars
<1> QED
  BY <1>1, <1>2, <1>3, <1>4, <1>5, <1>6, <1>7, <1>8, <1>9, <1>10, <1>11, <1>12 DEF Next

-----------------------------------------------------------------------------
(* Theorems.                                                               *)

\* The inductive invariant holds of the empty tables, and every step keeps it.
LEMMA InductiveInit == Init => Inductive
BY InitType DEF Init, Inductive, TokensAreCurrent, FormsStand, UsersBorn, ShopsBorn,
                ServicesBorn, AllInFlight, InFlight

\* See InductiveInit: the steps.
LEMMA InductiveStep == Inductive /\ [Next]_vars => Inductive'
BY TypeStep, TokensStep, FormsStep, UsersBornStep, ShopsBornStep, ServicesBornStep,
   InFlightStep DEF Inductive

\* The rows, the tokens and the calls keep their shape, and every call in flight
\* stands where its handler has led it.
THEOREM AccountsTyped == Spec => []TypeOK
<1>1. Inductive => TypeOK
  BY DEF Inductive
<1> QED
  BY <1>1, InductiveInit, InductiveStep, PTL DEF Spec

\* A token that has not expired is true, though no handler ever looks it up:
\* nothing that was true at a login is changed by any later call.
THEOREM TokensStayTrue == Spec => []TokensAreCurrent
<1>1. Inductive => TokensAreCurrent
  BY DEF Inductive
<1> QED
  BY <1>1, InductiveInit, InductiveStep, PTL DEF Spec

\* No failure of the seed command leaves a shop without its owner.
THEOREM ShopsOwned == Spec => []ShopsHaveTheirOwner
<1>1. Inductive => ShopsHaveTheirOwner
  BY DEF Inductive, ShopsBorn, ShopsHaveTheirOwner
<1> QED
  BY <1>1, InductiveInit, InductiveStep, PTL DEF Spec

\* The owner of a path is the owner of the shop.
LEMMA OwnShopIsOwned ==
    ASSUME Inductive, NEW c \in Calls, pc[c] # "idle", Op[c] \in {"onboard", "service"},
           OwnShop(form[c])
    PROVE  form[c].shop \in Calls /\ shopOwner[form[c].shop] = form[c].claims.user
<1> DEFINE o == form[c].claims.user
<1>1. form[c].shop \in Calls /\ form[c].claims \in Claims
  BY FormTypes DEF Inductive, Onboarding, Offer
<1>2. o \in Calls /\ form[c].shop # Nil
  BY <1>1, AccountsAssumption DEF Claims
<1>3. user[o] # Nil /\ user[o].role = "owner" /\ user[o].shop = form[c].shop
  BY <1>2 DEF Inductive, FormsStand, Standing, Protected, OwnShop
<1>4. user[o].shop = o /\ shopOwner[o] = o
  BY <1>2, <1>3 DEF Inductive, UsersBorn, Born
<1> QED
  BY <1>1, <1>3, <1>4

\* Comparing a path with a token is enough: only the owner of a shop has put
\* barbers and services into it.
THEOREM StaffedOnlyByTheOwner == Spec => []StaffedByTheOwner
<1>1. Inductive => StaffedByTheOwner
  <2> SUFFICES ASSUME Inductive, NEW c \in Calls
               PROVE  /\ IsBarber(c) => shopOwner[user[c].shop] = form[c].claims.user
                      /\ service[c] # Nil => shopOwner[service[c].shop] = form[c].claims.user
    BY DEF StaffedByTheOwner
  <2>1. ASSUME IsBarber(c) PROVE shopOwner[user[c].shop] = form[c].claims.user
    <3>1. /\ pc[c] # "idle" /\ Op[c] = "onboard"
          /\ user[c].shop = form[c].shop /\ OwnShop(form[c])
      BY <2>1 DEF IsBarber, Inductive, UsersBorn, Born
    <3> QED
      BY <3>1, OwnShopIsOwned
  <2>2. ASSUME service[c] # Nil PROVE shopOwner[service[c].shop] = form[c].claims.user
    <3>1. /\ pc[c] # "idle" /\ Op[c] = "service"
          /\ service[c] = [shop |-> form[c].shop, barber |-> form[c].barber]
          /\ OwnShop(form[c])
      BY <2>2 DEF Inductive, ServicesBorn
    <3>2. service[c].shop = form[c].shop
      BY <3>1
    <3> QED
      BY <3>1, <3>2, OwnShopIsOwned DEF Inductive
  <2> QED
    BY <2>1, <2>2
<1> QED
  BY <1>1, InductiveInit, InductiveStep, PTL DEF Spec

\* The barber of a service can be booked for it, in that shop, and always could.
THEOREM ServicesBookable == Spec => []ServicesHaveTheirBarber
<1>1. Inductive => ServicesHaveTheirBarber
  <2> SUFFICES ASSUME Inductive, NEW c \in Calls, service[c] # Nil, service[c].barber # Nil
               PROVE  /\ service[c].barber \in profile
                      /\ IsBarber(service[c].barber)
                      /\ user[service[c].barber].shop = service[c].shop
    BY DEF ServicesHaveTheirBarber
  <2>1. service[c] = [shop |-> form[c].shop, barber |-> form[c].barber] /\ Checked(c)
    BY DEF Inductive, ServicesBorn
  <2>2. service[c].barber = form[c].barber /\ service[c].shop = form[c].shop
    BY <2>1
  <2> QED
    BY <2>1, <2>2 DEF Checked
<1> QED
  BY <1>1, InductiveInit, InductiveStep, PTL DEF Spec

\* What the models of bookings and of approvals take as constant is constant.
THEOREM StaffStays == Spec => StaffIsPermanent
<1>1. Inductive /\ [Next]_vars =>
        [\A c \in Calls :
            /\ user[c] # Nil =>
                /\ user'[c] # Nil
                /\ user'[c].email = user[c].email /\ user'[c].role = user[c].role
                /\ user'[c].shop # user[c].shop => user[c].role = "owner" /\ user[c].shop = Nil
            /\ service[c] # Nil => service'[c] = service[c]
            /\ c \in profile => c \in profile']_vars
  BY UsersStep, RowsStep DEF UsersGrow
<1> QED
  BY <1>1, InductiveInit, InductiveStep, PTL DEF Spec, StaffIsPermanent

-----------------------------------------------------------------------------
(* Passwords.                                                              *)

\* PasswordsAreProven for closed sets of any values, and the same of the old
\* password that a change about to write has been given.
PasswordsInductive ==
    /\ \A u \in Calls : user[u] # Nil =>
        \A known : Closed(u, known) => user[u].password \in known
    /\ \A c, u \in Calls : pc[c] = "update_password" /\ form[c].claims.user = u =>
        \A known : Closed(u, known) => form[c].current \in known

\* A call that has ended stays as it is.
LEMMA EndedStays ==
    ASSUME Inductive, [Next]_vars, NEW d \in Calls, pc[d] \in {"done", "lost", "error"}
    PROVE  pc'[d] = pc[d] /\ form'[d] = form[d]
<1>1. form'[d] = form[d]
  BY CallsStep DEF CallsGrow
<1> DEFINE Goal == pc'[d] = pc[d]
<1> USE DEF Inductive
<1>2. ASSUME NEW c \in Calls, Receive(c) PROVE Goal
  BY <1>2 DEF Receive, TypeOK
<1>3. ASSUME NEW c \in Calls, CreateUser(c) PROVE Goal
  BY <1>3 DEF CreateUser, Written, Proceed, TypeOK
<1>4. ASSUME NEW c \in Calls, CreateProfile(c) PROVE Goal
  BY <1>4 DEF CreateProfile, Written, Proceed, TypeOK
<1>5. ASSUME NEW c \in Calls, CreateShop(c) PROVE Goal
  BY <1>5 DEF CreateShop, Written, Proceed, TypeOK
<1>6. ASSUME NEW c \in Calls, Login(c) PROVE Goal
  BY <1>6 DEF Login, Written, Proceed, TypeOK
<1>7. ASSUME NEW c \in Calls, ReadUser(c) PROVE Goal
  BY <1>7 DEF ReadUser, Written, Proceed, TypeOK
<1>8. ASSUME NEW c \in Calls, UpdatePassword(c) PROVE Goal
  BY <1>8 DEF UpdatePassword, Written, Proceed, TypeOK
<1>9. ASSUME NEW c \in Calls, ReadBarber(c) PROVE Goal
  BY <1>9 DEF ReadBarber, Written, Proceed, TypeOK
<1>10. ASSUME NEW c \in Calls, CreateService(c) PROVE Goal
  BY <1>10 DEF CreateService, Written, Proceed, TypeOK
<1>11. ASSUME NEW c \in Calls, Fail(c) PROVE Goal
  BY <1>11 DEF Fail, Proceed, Statements, TypeOK
<1>12. ASSUME NEW claims \in token, Expire(claims) PROVE Goal
  BY <1>12 DEF Expire
<1>13. CASE UNCHANGED vars
  BY <1>13 DEF vars
<1> QED
  BY <1>1, <1>2, <1>3, <1>4, <1>5, <1>6, <1>7, <1>8, <1>9, <1>10, <1>11, <1>12, <1>13 DEF Next

\* The first password of an account is known for good.
LEMMA InitialStays ==
    ASSUME Inductive, [Next]_vars, NEW u \in Calls, user[u] # Nil
    PROVE  InitialPassword(u)' = InitialPassword(u)
BY CallsStep DEF Inductive, UsersBorn, Born, CallsGrow, InitialPassword

\* A set that is closed after a step was so before: no change is taken back.
LEMMA ClosedBefore ==
    ASSUME Inductive, [Next]_vars, NEW u \in Calls, user[u] # Nil,
           NEW known, Closed(u, known)'
    PROVE  Closed(u, known)
<1>1. InitialPassword(u) \in known
  BY InitialStays DEF Closed
<1>2. ASSUME NEW c \in Changed(u), form[c].current \in known PROVE form[c].new \in known
  <2>1. pc'[c] = pc[c] /\ form'[c] = form[c]
    BY EndedStays DEF Changed
  <2>2. c \in Changed(u)'
    BY <2>1 DEF Changed
  <2> QED
    BY <1>2, <2>1, <2>2 DEF Closed
<1> QED
  BY <1>1, <1>2 DEF Closed

\* Only a creation and UpdatePassword write a password.
LEMMA PasswordWrites ==
    ASSUME Inductive, [Next]_vars, NEW u \in Calls, user'[u] # Nil
    PROVE  \/ user[u] # Nil /\ user'[u].password = user[u].password
           \/ user[u] = Nil /\ CreateUser(u)
           \/ /\ user[u] # Nil
              /\ \E c \in Calls : /\ UpdatePassword(c) /\ form[c].claims.user = u
                                  /\ user'[u].password = form[c].new
<1> DEFINE Goal == \/ user[u] # Nil /\ user'[u].password = user[u].password
                   \/ user[u] = Nil /\ CreateUser(u)
                   \/ /\ user[u] # Nil
                      /\ \E c \in Calls : /\ UpdatePassword(c) /\ form[c].claims.user = u
                                          /\ user'[u].password = form[c].new
<1>1. ASSUME NEW c \in Calls, Receive(c) PROVE Goal
  BY <1>1 DEF Receive
<1>2. ASSUME NEW c \in Calls, CreateUser(c) PROVE Goal
  <2>1. CASE u = c
    BY <1>2, <2>1 DEF CreateUser, Inductive, UsersBorn, Born
  <2>2. CASE u # c
    BY <1>2, <2>2 DEF CreateUser, Inductive, TypeOK
  <2> QED
    BY <2>1, <2>2
<1>3. ASSUME NEW c \in Calls, CreateProfile(c) PROVE Goal
  BY <1>3 DEF CreateProfile
<1>4. ASSUME NEW c \in Calls, CreateShop(c) PROVE Goal
  <2>1. user[c] \in User
    BY <1>4, UserRow DEF CreateShop, Inductive, AllInFlight, InFlight
  <2>2. u # c => user'[u] = user[u]
    BY <1>4 DEF CreateShop, Inductive, TypeOK
  <2>3. user'[c] = [user[c] EXCEPT !.shop = c]
    BY <1>4 DEF CreateShop, Inductive, TypeOK
  <2>4. user'[c].password = user[c].password
    BY <2>1, <2>3 DEF User
  <2>5. user[c] # Nil
    BY <2>1, NilIsNoRow
  <2> QED
    BY <2>2, <2>4, <2>5
<1>5. ASSUME NEW c \in Calls, Login(c) PROVE Goal
  BY <1>5 DEF Login
<1>6. ASSUME NEW c \in Calls, ReadUser(c) PROVE Goal
  BY <1>6 DEF ReadUser
<1>7. ASSUME NEW c \in Calls, UpdatePassword(c) PROVE Goal
  <2>1. user[u] # Nil
    BY <1>7 DEF UpdatePassword, Inductive, TypeOK, AllInFlight, InFlight, FormsStand, Standing,
              Protected
  <2>2. user[u] \in User
    BY <2>1, UserRow DEF Inductive
  <2>3. CASE form[c].claims.user # u
    BY <1>7, <2>1, <2>3 DEF UpdatePassword, Inductive, TypeOK
  <2>4. CASE form[c].claims.user = u
    <3>1. user'[u] = [user[u] EXCEPT !.password = form[c].new]
      BY <1>7, <2>4 DEF UpdatePassword, Inductive, TypeOK
    <3>2. user'[u].password = form[c].new
      BY <2>2, <3>1 DEF User
    <3> QED
      BY <1>7, <2>1, <2>4, <3>2
  <2> QED
    BY <2>3, <2>4
<1>8. ASSUME NEW c \in Calls, ReadBarber(c) PROVE Goal
  BY <1>8 DEF ReadBarber
<1>9. ASSUME NEW c \in Calls, CreateService(c) PROVE Goal
  BY <1>9 DEF CreateService
<1>10. ASSUME NEW c \in Calls, Fail(c) PROVE Goal
  BY <1>10 DEF Fail
<1>11. ASSUME NEW claims \in token, Expire(claims) PROVE Goal
  BY <1>11 DEF Expire
<1>12. CASE UNCHANGED vars
  BY <1>12 DEF vars
<1> QED
  BY <1>1, <1>2, <1>3, <1>4, <1>5, <1>6, <1>7, <1>8, <1>9, <1>10, <1>11, <1>12 DEF Next

\* A change writes only behind its check.
LEMMA OnlyReadUserLeadsToUpdate ==
    ASSUME Inductive, [Next]_vars, NEW d \in Calls,
           pc[d] # "update_password", pc'[d] = "update_password"
    PROVE  ReadUser(d)
<1> DEFINE Goal == ReadUser(d)
<1> USE DEF Inductive
<1>1. ASSUME NEW c \in Calls, Receive(c) PROVE Goal
  <2>1. pc' = [pc EXCEPT ![c] = pc'[c]] /\ pc'[c] # "update_password"
    <3>1. PICK body \in Bodies(c) :
            pc' = [pc EXCEPT ![c] = IF Accepted(Op[c], body) THEN First(Op[c], body)
                                    ELSE "refused"]
      BY <1>1 DEF Receive
    <3>2. First(Op[c], body) # "update_password"
      BY AccountsAssumption DEF First, Ops
    <3> QED
      BY <3>1, <3>2 DEF TypeOK
  <2> QED
    BY <2>1 DEF TypeOK
<1>2. ASSUME NEW c \in Calls, CreateUser(c) PROVE Goal
  BY <1>2 DEF CreateUser, Written, Proceed, TypeOK, AllInFlight, InFlight
<1>3. ASSUME NEW c \in Calls, CreateProfile(c) PROVE Goal
  BY <1>3 DEF CreateProfile, Written, Proceed, TypeOK
<1>4. ASSUME NEW c \in Calls, CreateShop(c) PROVE Goal
  BY <1>4 DEF CreateShop, Written, Proceed, TypeOK
<1>5. ASSUME NEW c \in Calls, Login(c) PROVE Goal
  BY <1>5 DEF Login, Written, Proceed, TypeOK
<1>6. ASSUME NEW c \in Calls, ReadUser(c) PROVE Goal
  BY <1>6 DEF ReadUser, Written, Proceed, TypeOK
<1>7. ASSUME NEW c \in Calls, UpdatePassword(c) PROVE Goal
  BY <1>7 DEF UpdatePassword, Written, Proceed, TypeOK
<1>8. ASSUME NEW c \in Calls, ReadBarber(c) PROVE Goal
  BY <1>8 DEF ReadBarber, Written, Proceed, TypeOK
<1>9. ASSUME NEW c \in Calls, CreateService(c) PROVE Goal
  BY <1>9 DEF CreateService, Written, Proceed, TypeOK
<1>10. ASSUME NEW c \in Calls, Fail(c) PROVE Goal
  BY <1>10 DEF Fail, Written, Proceed, TypeOK
<1>11. ASSUME NEW claims \in token, Expire(claims) PROVE Goal
  BY <1>11 DEF Expire
<1>12. CASE UNCHANGED vars
  BY <1>12 DEF vars
<1> QED
  BY <1>1, <1>2, <1>3, <1>4, <1>5, <1>6, <1>7, <1>8, <1>9, <1>10, <1>11, <1>12 DEF Next

\* The two parts of PasswordsInductive, for a step.
LEMMA PasswordsStep ==
    ASSUME Inductive, PasswordsInductive, [Next]_vars
    PROVE  PasswordsInductive'
<1>1. ASSUME NEW u \in Calls, user'[u] # Nil, NEW known, Closed(u, known)'
      PROVE  user'[u].password \in known
  <2>1. CASE user[u] # Nil /\ user'[u].password = user[u].password
    <3>1. Closed(u, known)
      BY <1>1, <2>1, ClosedBefore
    <3> QED
      BY <2>1, <3>1 DEF PasswordsInductive
  <2>2. CASE user[u] = Nil /\ CreateUser(u)
    <3>1. Op[u] \in {"register", "onboard", "seed"}
      BY <2>2 DEF CreateUser, Inductive, AllInFlight, InFlight
    <3>2. user'[u] = NewUser(u) /\ form' = form
      BY <1>1, <2>2 DEF CreateUser, Written, Proceed, Inductive, TypeOK
    <3>3. user'[u].password = IF Op[u] = "onboard" THEN u ELSE form[u].password
      BY <3>1, <3>2 DEF NewUser
    <3> QED
      BY <1>1, <3>2, <3>3 DEF InitialPassword, Closed
  <2>3. ASSUME user[u] # Nil, NEW c \in Calls, UpdatePassword(c), form[c].claims.user = u,
               user'[u].password = form[c].new
        PROVE  user'[u].password \in known
    <3>1. pc[c] = "update_password" /\ Op[c] = "password"
      BY <2>3 DEF UpdatePassword, Inductive, AllInFlight, InFlight
    <3>2. pc'[c] \in {"done", "lost"} /\ form'[c] = form[c]
      BY <2>3 DEF UpdatePassword, Written, Proceed, Inductive, TypeOK
    <3>3. Closed(u, known)
      BY <1>1, <2>3, ClosedBefore
    <3>4. form'[c].current \in known
      BY <2>3, <3>1, <3>2, <3>3 DEF PasswordsInductive
    <3>5. c \in Changed(u)'
      BY <2>3, <3>1, <3>2 DEF Changed
    <3>6. form'[c].new \in known
      BY <1>1, <3>4, <3>5 DEF Closed
    <3> QED
      BY <2>3, <3>2, <3>6
  <2> QED
    BY <1>1, <2>1, <2>2, <2>3, PasswordWrites
<1>2. ASSUME NEW c \in Calls, NEW u \in Calls, pc'[c] = "update_password",
             form'[c].claims.user = u, NEW known, Closed(u, known)'
      PROVE  form'[c].current \in known
  <2>1. CASE pc[c] = "update_password"
    <3>1. Op[c] = "password" /\ form'[c] = form[c]
      BY <2>1, CallsStep DEF CallsGrow, Inductive, AllInFlight, InFlight
    <3>2. user[u] # Nil
      BY <1>2, <2>1, <3>1 DEF Inductive, FormsStand, Standing, Protected
    <3>3. Closed(u, known)
      BY <1>2, <3>2, ClosedBefore
    <3> QED
      BY <1>2, <2>1, <3>1, <3>3 DEF PasswordsInductive
  <2>2. CASE pc[c] # "update_password"
    <3>1. ReadUser(c)
      BY <1>2, <2>2, OnlyReadUserLeadsToUpdate
    <3>2. /\ Op[c] = "password" /\ pc[c] # "idle" /\ form' = form
          /\ user[u].password = form[c].current
      BY <1>2, <3>1 DEF ReadUser, Proceed, Inductive, TypeOK, AllInFlight, InFlight
    <3>3. user[u] # Nil
      BY <1>2, <3>2 DEF Inductive, FormsStand, Standing, Protected
    <3>4. Closed(u, known)
      BY <1>2, <3>3, ClosedBefore
    <3> QED
      BY <3>2, <3>3, <3>4 DEF PasswordsInductive
  <2> QED
    BY <2>1, <2>2
<1> QED
  BY <1>1, <1>2 DEF PasswordsInductive

\* From the password an account was created with, a chain of changes leads to the
\* one it has, however the changes overlap.
THEOREM NoPasswordWithoutProof == Spec => []PasswordsAreProven
<1>1. Init => PasswordsInductive
  BY DEF Init, PasswordsInductive
<1>2. Inductive /\ PasswordsInductive /\ [Next]_vars => PasswordsInductive'
  BY PasswordsStep
<1>3. PasswordsInductive => PasswordsAreProven
  BY DEF PasswordsInductive, PasswordsAreProven
<1> QED
  BY <1>1, <1>2, <1>3, InductiveInit, InductiveStep, PTL DEF Spec

-----------------------------------------------------------------------------
(* Temporary passwords.                                                    *)

\* Who types a temporary password was told it: its onboarding has succeeded.
SecretsKept == \A c \in Calls :
    pc[c] # "idle" /\ Op[c] \in {"register", "login", "seed"} /\ form[c].password \in Calls =>
        Op[form[c].password] = "onboard" /\ pc[form[c].password] = "done"

\* Only a body comes to a call that has none.
LEMMA OnlyReceiveStarts ==
    ASSUME Inductive, [Next]_vars, NEW d \in Calls, pc[d] = "idle", pc'[d] # "idle"
    PROVE  /\ Receive(d)
           /\ form'[d] \in Bodies(d)
<1>1. Receive(d)
  BY DEF Next, vars, Receive, CreateUser, CreateProfile, CreateShop, Login, ReadUser,
         UpdatePassword, ReadBarber, CreateService, Fail, Expire, Written, Proceed,
         Statements, Inductive, TypeOK
<1> QED
  BY <1>1 DEF Receive, Inductive, TypeOK

LEMMA SecretsStep ==
    ASSUME Inductive, SecretsKept, [Next]_vars
    PROVE  SecretsKept'
<1> SUFFICES ASSUME NEW c \in Calls, pc'[c] # "idle", Op[c] \in {"register", "login", "seed"},
                    form'[c].password \in Calls
             PROVE  Op[form'[c].password] = "onboard" /\ pc'[form'[c].password] = "done"
  BY DEF SecretsKept
<1>1. PICK d \in Calls : d = form'[c].password
  OBVIOUS
<1>2. Op[d] = "onboard" /\ pc[d] = "done"
  <2>1. CASE pc[c] # "idle"
    BY <1>1, <2>1, CallsStep DEF CallsGrow, SecretsKept
  <2>2. CASE pc[c] = "idle"
    <3>1. form'[c] \in [email : Emails, password : Typed]
      BY <2>2, OnlyReceiveStarts DEF Bodies
    <3>2. d \in Typed /\ d \notin Passwords
      BY <1>1, <3>1, AccountsAssumption
    <3> QED
      BY <3>2 DEF Typed
  <2> QED
    BY <2>1, <2>2
<1> QED
  BY <1>1, <1>2, EndedStays

LEMMA HalfOnboardedStep ==
    ASSUME Inductive, SecretsKept, NobodyEntersHalfOnboarded, [Next]_vars,
           NEW u \in Calls, Op[u] = "onboard", pc'[u] # "done"
    PROVE  /\ \A claims \in token' : claims.user # u
           /\ \A c \in Calls : pc'[c] # "idle" /\ Op[c] \in Protected =>
                 form'[c].claims.user # u
           /\ user'[u] # Nil => user'[u].password = u
<1>0. /\ \A claims \in token : claims.user # u
      /\ \A c \in Calls : pc[c] # "idle" /\ Op[c] \in Protected => form[c].claims.user # u
      /\ user[u] # Nil => user[u].password = u
      /\ pc[u] # "done"
  BY EndedStays DEF NobodyEntersHalfOnboarded, Protected
<1>1. ASSUME NEW claims \in token' PROVE claims.user # u
  <2>1. CASE claims \in token
    BY <1>0, <2>1
  <2>2. CASE claims \notin token
    <3>1. PICK c \in Calls : Login(c)
      BY <2>2 DEF Next, vars, Receive, CreateUser, CreateProfile, CreateShop, ReadUser,
                  UpdatePassword, ReadBarber, CreateService, Fail, Expire
    <3>2. PICK v \in Calls : /\ user[v] # Nil /\ user[v].password = form[c].password
                             /\ token' = token \cup {ClaimsOf(v)}
      BY <2>2, <3>1 DEF Login
    <3>3. v # u
      <4> SUFFICES ASSUME v = u PROVE FALSE
        OBVIOUS
      <4>1. form[c].password = u
        BY <1>0, <3>2
      <4>2. pc[c] # "idle" /\ Op[c] = "login"
        BY <3>1 DEF Login, Inductive, AllInFlight, InFlight
      <4> QED
        BY <1>0, <4>1, <4>2 DEF SecretsKept
    <3>4. claims.user = v
      BY <2>2, <3>2 DEF ClaimsOf
    <3> QED
      BY <3>3, <3>4
  <2> QED
    BY <2>1, <2>2
<1>2. ASSUME NEW c \in Calls, pc'[c] # "idle", Op[c] \in Protected
      PROVE  form'[c].claims.user # u
  <2>1. CASE pc[c] # "idle"
    BY <1>0, <1>2, <2>1, CallsStep DEF CallsGrow
  <2>2. CASE pc[c] = "idle"
    <3>1. form'[c].claims \in token
      BY <1>2, <2>2, OnlyReceiveStarts DEF Bodies, Protected
    <3> QED
      BY <1>0, <3>1
  <2> QED
    BY <2>1, <2>2
<1>3. ASSUME user'[u] # Nil PROVE user'[u].password = u
  <2>1. CASE user[u] # Nil /\ user'[u].password = user[u].password
    BY <1>0, <2>1
  <2>2. CASE user[u] = Nil /\ CreateUser(u)
    BY <1>3, <2>2 DEF CreateUser, NewUser, Inductive, TypeOK
  <2>3. ASSUME NEW c \in Calls, UpdatePassword(c), form[c].claims.user = u
        PROVE  FALSE
    BY <1>0, <2>3 DEF UpdatePassword, Inductive, AllInFlight, InFlight, Protected
  <2> QED
    BY <1>3, <2>1, <2>2, <2>3, PasswordWrites
<1> QED
  BY <1>1, <1>2, <1>3

\* An account whose onboarding did not succeed stays shut, whatever else is tried
\* with the passwords and tokens that there are.
THEOREM HalfOnboardedStaysShut == Spec => []NobodyEntersHalfOnboarded
<1>1. Init => SecretsKept /\ NobodyEntersHalfOnboarded
  BY DEF Init, SecretsKept, NobodyEntersHalfOnboarded
<1>2. Inductive /\ SecretsKept /\ NobodyEntersHalfOnboarded /\ [Next]_vars
          => SecretsKept' /\ NobodyEntersHalfOnboarded'
  BY SecretsStep, HalfOnboardedStep DEF NobodyEntersHalfOnboarded, Protected
<1> QED
  BY <1>1, <1>2, InductiveInit, InductiveStep, PTL DEF Spec
================================================================================
