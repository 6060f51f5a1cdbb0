# Barber Manager: formal verification

TLA+ models of the Barber Manager API (`src/backend`), TLC runs that check them
on small instances, and TLAPS proofs that hold for instances of any size.

## The system

A Gin HTTP API in front of one PostgreSQL database. Every request is handled by
its own goroutine; handlers keep no state between requests, so **all shared
state is in tables**, and all the interaction of two requests is through them.
A handler is a sequence of queries, each with a deadline of 5 seconds, each a
transaction of its own under READ COMMITTED unless the repository opens one.
Four operations open one: an approval, a rating, the saving of a shop's hours
and the creation of a shop.

| Component | State | Operations | Modules |
|---|---|---|---|
| availability engine (`internal/availability`) | none | `AvailableSlots`, `Contains` | `Availability`, `SlotSearch` |
| reservations | `reservations` with its `EXCLUDE` constraint | create, cancel, complete, no-show, lists | `Booking`, `Calendar` |
| day schedule and availability endpoint | none of its own | `loadDaySchedule`, `GetAvailabilityHandler` | `Booking` |
| schedules | `work_schedules`, `schedule_exceptions` | propose, apply, add exception, read | `Booking`, `Approvals` |
| approvals | `approval_requests` | approve, reject, lists | `Approvals`, `ApprovalSpec`, `Payload` |
| ratings | `ratings`, `avg_rating` and `rating_count` of `barber_profiles` | rate, list | `Rating`, `RatingSpec`, `Average` |
| services | `services` | create, read, propose, apply, list | `Accounts` (creation), `Booking`, `Approvals` |
| barber profiles | `barber_profiles` | onboard, read, set active; biography | `Accounts` (onboarding), `Booking`, `Rating` |
| shops | `shops`, `shop_hours` | create, read and set hours; update | `Accounts` (creation), `ShopHours`, `HoursSpec`, `Booking` |
| accounts | `users` | register, login, change password | `Accounts` |
| tokens and access control | the signed claims that clients keep | `GenerateToken`, `Auth`, `RequireRole`, `RequireOwnShop` | `Accounts` |
| seed command (`cmd/seed`) | none | an owner, then the owner's shop | `Accounts` |
| server process (`cmd/api`), connection pool | connections, requests under way | accept, share the pool, recover, shut down | `Server` |
| configuration, mocks | | | not modelled: I/O, generated code |

How they interact:

* A **booking** reads the service, the barber, the hours, the schedule and the
  exception with five queries, checks what it read, and inserts. Everything it
  read may change before the INSERT. The constraint on the table is the only
  check made together with the write.
* The **availability** endpoint reads the same rows and the reservations of the
  day, and shows the slots that a booking should accept.
* An **approval** writes rows that bookings read; an exception, the hours and the
  barber's status are written directly.
* The **hours** of a shop are saved day by day in one transaction; a booking reads
  one day of them.
* A **token** says what the user's row said at the login, for 24 hours. Every
  handler behind the middleware believes it and never looks at the row again. Who
  may decide, staff a shop or save its hours rests on that.
* All of them share the **pool**: a transaction keeps a connection while it waits
  for a row.
* A **rating** needs a reservation that is completed, and rewrites two columns of
  the barber's profile; cancellations and reports of visits change the same
  reservation.

What is hard: interleavings of queries of two bookings, decisions or ratings;
rows that are stale when they are used; row locks held across statements, which
wait and deadlock; answers that are lost after a commit; statements that fail in
the middle; operations of two statements without a transaction (onboarding, the
seed command, a change of password); tokens that outlive what they say; a pool of
few connections; a shutdown in the middle of handlers, one of which may never end; the boundaries of windows,
days and slots. `PROJECT.json` lists each
under "hazards" with the line where it bites.

What makes each component correct:

* availability: exactly the free slots, and the same rules for showing and booking;
* reservations: no double booking, whatever is cancelled, rebooked and reported in
  between; the tenants agree;
* approvals: decided once, applied whole, in their own shop, and nothing live that
  no owner approved;
* ratings: once per visit, only while it is completed, and counted in the profile
  whatever is reported of the visit later;
* accounts: what a token says stays true; nobody but the owner staffs a shop; a
  service's barber can be booked; no password is set without the old one; an account
  that an onboarding left half made opens to nobody;
* hours: a save is seen whole or not at all;
* server: nothing leaks, and an orderly exit cuts nobody off;
* transactions: every call is answered, and no calls wait for each other in a circle.

## The modules

**`Availability`** holds the pure rules: the working window, `Contains`,
overlapping, and the set of slots offered. An instant is a number of one unit, a
row of one of the three schedule tables is open from `start` to `end` of a day.
Nothing in the schema orders the two, so inverted rows are included, and an `end`
may be `DayLen` because `24:00` is a TIME. All days are equally long: the program
runs in `Africa/Algiers` (`cmd/api/main.go:39`), which has no daylight saving time.

**`SlotSearch`** is the loop of `AvailableSlots` (`availability.go:52`) as a state
machine on an arbitrary input. Its reference is a definition instant by instant
that shares no operator with the loop but the status of a reservation. It also
shows that the loop computes the set operator that `Booking` uses.

**`Booking`** is the core. A request goes through

    idle -> service -> barber -> hours -> schedule -> exception -> insert -> answer

and each name is the query that runs next, so anything may happen between two of
them. `form` is the body, `seen` the locals of the handler. `Receive` binds the
body and compares the start with the clock; `GetService` and `GetBarberProfile`
check what they read; `GetShopHours`, `GetApprovedSchedule` and `GetException`
are the three queries of `loadDaySchedule`, the last followed by `Contains`;
`CreateReservation` and `SlotTaken` are the two outcomes of the INSERT. `Fail` is
any query that finds nothing, fails or times out. An INSERT may commit and its
answer be lost: then the request ends with "error" and the row is there.
The other actions are one statement or one transaction each: `Cancel`,
`UpdateStatus`, `SetActive`, `SetShopHours`, `ApplySchedule`, `AddException`,
`ApplyUpdate`. The availability endpoint changes nothing and is the operator
`GetAvailability`; `OfferedSlotsFree` quantifies over every combination of rows
and durations it could have read earlier, so its staleness is covered as well.

**`Calendar`** is what booking promises: entries with a fixed barber and interval
that hold their slot or not, none overlapping. `Booking` implements it under the
mapping `CalendarEntry` (`Booking!Promise`).

**`Rating`** is the transaction of `CreateRating`, statement by statement, with
the row locks of the reservation (`FOR UPDATE`) and of the profile. The UPDATE in
`RecalculateAvgRating` is two actions: it begins, which fixes what its subqueries
read, and it gets the lock of the profile row. Nothing between the two is atomic
in PostgreSQL. **`Average`** is what it computes: `avg_rating` in hundredths, rounded as
`NUMERIC(3,2)` is, and the count. The sum is taken by the five scores, not by a fold
over the ratings, so that it can be proved about. **`RatingSpec`** is the promise
without transactions and locks: a completed visit is rated in one step that also puts
the rating into the aggregate, and all that this step may get wrong is which other
ratings of the barber the aggregate counts. Reports and cancellations of a visit leave
ratings and aggregates alone. `Rating` implements it (`Rating!Promise`).

**`Payload`**, **`ApprovalSpec`**, **`Approvals`**: a payload is a list of writes, a
write gives values to some columns of a row (all of them for a day of a schedule,
those that are not null for a service). `ApprovalSpec` approves in one step:
the whole payload is applied to the rows as they are. `Approvals` does what the
code does: it locks the request, writes row by row, waits for rows that another
transaction has written, marks the request and commits; it may fail anywhere,
meet a value that the column refuses, or run into its deadline while it waits.
The rows a transaction holds are those it has staged. `Approvals!Promise` is the
abstract workflow, and `ImplementsWorkflow` says that it is implemented.

**`Accounts`** is about who exists, where they work and what a token says of them.
A call has an operation (`Op`) that fixes its statements:

| Operation | Statements | Code |
|---|---|---|
| register | create_user | `auth_handlers.go:14`, `user_repository.go:30` |
| login | find_user, and the signing of the claims | `auth_handlers.go:38`, `generate_token.go` |
| password | read_user, update_password | `auth_handlers.go:73` |
| onboard | create_user, create_profile | `barber_handlers.go:72` |
| service | read_barber (if one is named), create_service | `service_handlers.go:12` |
| seed | create_user, create_shop | `cmd/seed/main.go:54` |

Each is one action; it may fail (`Fail`), or commit and lose its answer (`Written`).
`CreateShop` is the one that is a transaction of two writes. `Receive` is the binding
and the middleware: a call behind `Auth` comes with a token of `token`, the set of
those handed out and not expired; `OwnShop` is `RequireRole` and `RequireOwnShop`. A
row is named by the call that inserted it, and so is the temporary password of an
onboarding, which somebody can type only once it was returned (`Typed`). A hash is
identified with the password that it accepts. "error" is an error of which nothing was
written, "lost" the error of a statement that has committed; a caller sees the same.

**`HoursSpec`**, **`ShopHours`**: `HoursSpec` saves a list of days in one step, the last
entry of a weekday winning. `ShopHours` is `SetShopHours` (`shop_repository.go:158`): one
transaction, an upsert per day in the order of the body, which waits while another
save holds that weekday; a day that a column refuses fails the whole; the call's
deadline ends a wait. `ShopHours!Promise` is the abstract save and `SavesAreAtomic`
says that it is implemented. This is what entitles `Booking` to take `SetShopHours` for
one step.

**`Server`** is the process. A handler is a list of units, a unit is a query on the
pool or a transaction, and holds one connection and the rows it has locked until it
ends (`Plans` are parameters: what the handlers of the other modules do, seen from the
pool). `Acquire` and `Grant` are pgxpool's queue; `Fail` is an error, a refusal, a client
that went away, a deadline or a panic that `gin.Recovery` answers, each of which runs
the deferred `Rollback`. `ReadBody` is the end of `ShouldBindJSON`: the server is given no
timeout (`main.go:115`), so a handler may wait for the rest of a body for ever. `Signal`,
`Drained`, `Exit` and `TimeOver` are main: `Shutdown`, its return, `defer pool.Close`, and
`log.Fatalf` after ten seconds; `ListenFails` is the other `log.Fatalf`.

How the modules fit together: `Booking` and `Approvals` take the shop of a barber and the
shop and barber of a service as constants; `Accounts!StaffIsPermanent` and
`ServicesHaveTheirBarber` say that they are. `Booking` takes the saving of hours and the
approval of a schedule for one step; `SavesAreAtomic` and `ImplementsWorkflow` say that
they look like one. `Server` gives each call the connection that `Rating`, `Approvals` and
`ShopHours` take for granted.

`MC*` modules give the constants of the runs. Operators that are introduced as
"a mutated form of" another are what a plausible slip would have made of it; no
specification uses them. They serve to show that each property can fail.

## The runs

| Run | Checks | Bounds |
|---|---|---|
| `SlotSearch` | the loop ends, finds exactly the free slots, and computes the set that `Booking` uses | a day of 6 units, granularity 2, 5 kinds of row (whole day, half, off the grid, inverted, off) or none in each of the 3 tables, durations 1 to 3, 17 sets of reservations |
| `Booking` | types, no double booking, implementation of the calendar, unraced bookings valid, the in-flight invariant | 2 requests, 1 barber, a day of 3 units with off-grid starts, 3 rows, 2 durations, 2 changes of configuration |
| `BookingTenants` | tenants agree, one day, offers free and bookable | 2 shops, 2 barbers, 3 services (shop-wide, of one barber, of the other shop), 2 adjacent days of 2 units, so that a booking can end at the midnight where the next day begins; 1 request; the tables start in every combination and stay, without exceptions |
| `Rating` | types, rated once, while completed, profile made of committed ratings, repair, implementation of the abstract ratings, answers | 3 calls, 2 visits of 2 customers to 1 barber, scores 2 and 5 |
| `Approvals` | types, implementation of the workflow, staged rows current, decisions, live values approved by an owner of their shop, tenants, answers | 2 decisions, 2 proposals, 2 shops, 2 barbers, 2 weekdays, 1 service of 2 columns, payloads in both orders, partial and refused |
| `AccountsTenants` | tokens current, shops owned, staffing, services, permanence, half-onboarded accounts shut | 2 seed runs, 2 logins, 1 onboarding, 1 new service; 3 addresses, so that two calls may or may not collide |
| `AccountsPasswords` | passwords proven | a registration, a login, 3 changes; 3 passwords, one of more than 72 bytes, an empty one, a malformed address |
| `ShopHours` | saves atomic, saves answered | 3 saves of 2 weekdays: both orders, a day twice, part of a week, a refused time, a weekday that is none |
| `Server` | nothing leaks, clean exit, answers, end of the shutdown | 3 requests, 2 connections, 2 rows; plans of a booking, a rating, a report and an update |
| `RatingDrift`, `StaleHours`, `HalfOnboarded` | see below | those of `Rating`, `Booking`, and one shop with one barber |

Two requests are enough for a race over a slot: the constraint compares rows in
pairs. `Booking` needs two changes for a rule that is changed and changed back
behind a request. `BookingTenants` needs none and only one request: its
properties look at the rows of a reservation or at an offer, the races are in
`Booking`, and its size goes into tenants and days. `MaxClock` and `MaxWrites` stop the
clock and the configuration changes. Rating takes three calls so that two may
compete for a reservation while a third competes for the profile; ShopHours three
so that one may commit between two that wait; Server one request more than
connections. Accounts fixes what each call does, so that the calls needed for a
chain (seed, login, onboard, service) are there and no others; two seeds and two
logins make the other tenant. The safety proofs below depend on none of these
bounds.

`CHECK_DEADLOCK` is off where every call ends, the search is done, the process has
ended or the bounded clock stops: the models have no more to do there. That
nobody waits for ever is what `EveryCallAnswered`, `EverySaveAnswered` and
`EveryRequestAnswered` check.

`TypeOK` of `SlotSearch`, `Accounts`, `ShopHours` and `Server` has no run of its own: it is
proved (`SearchStaysOnTheDay`, `AccountsTyped`, `HoursTyped`, `ServerTyped`).

### Where the code and its documentation disagree

Three runs expect a violation, each of one statement that the repository makes:

* `RatingDrift`: "so the aggregate never drifts" (`barber_repository.go:20`). Two
  ratings of one barber that overlap lose one from the aggregate. TLC's trace: both
  insert, both begin the UPDATE, the first commits, the second overwrites.
  `RecalculationRepairs` (which holds) says that the next rating without
  such a race restores the exact aggregate.
* `StaleHours`: the rules are checked again "so a stale/forged client request can't
  book outside them" (`reservation_handlers.go:19`). The rows are read before the
  INSERT and not locked. Without such a race they hold (`UnracedBookingIsValid`).
* `HalfOnboarded`: "The generated temp password is returned once so the owner can
  hand it to the barber" (`barber_handlers.go:69`). The user row commits, the
  profile fails (or either answer is lost): the account is there, with a password
  that nobody has been told, and a retry meets a conflict on the address. What does hold
  is `NobodyEntersHalfOnboarded`: the account gives access to nobody either.

Read off the models, without a run of their own:

* README.md:83 says the requested time is checked against the re-derived slots. It is
  checked against the working window (`Contains`), so a start off the grid is accepted.
* Slots of a deactivated barber are shown ("computes real bookable slots",
  backend/README.md:16); bookings refuse them. With the barber active they agree
  (`OfferIsBookable`).
* The seed command binds nothing: an owner may get an address or a password that the
  login refuses, and a run that fails between its two writes leaves an owner without
  a shop, whom a second run meets as a duplicate.

## Fairness

Safety needs none; `Accounts` has only safety. `SlotSearch`: one goroutine that nothing
blocks (WF of its step). `Rating`: weak fairness of each call's next statement; a call
that can run does, as each has its own goroutine and connection. No deadline is
assumed, so `EveryCallAnswered` shows that the order of the locks (reservation, then
profile) excludes a deadlock. `Approvals` and `ShopHours`: the same, or the call's own
5-second context (`approval_repository.go:83`, `shop_repository.go:159`) ends it while it
waits; two bodies that list the days in different orders do deadlock, and only a
deadline (or PostgreSQL's detector, which comes sooner) ends that. `Server`: a handler and
the pool go on while they can, main goes on when no request runs, and the timer of
`Shutdown` runs out (`main.go:130`). No client is assumed to finish its body or to go away,
no failure and no other deadline is assumed. `ShutdownEnds` therefore rests on the timer
where a handler never ends, and on connections given back where `pool.Close` waits for
them. `EveryRequestAnswered` therefore shows that waiting for a connection and waiting
for a row never form a circle as long as the rows are locked in one order, which the
plans of that run do, whatever the clients that never finish do. `WaitsAreShort` and
`NobodyIsStuck`, below, say the same of any number of calls, as far as a state can say
it.

## What is proved

Seven proof modules, each for all values of the constants that satisfy the named
assumptions of its component (any numbers of requests, barbers, shops, days, rows,
any lengths). Each has one inductive invariant, the property with what it lacks:

* **`BookingProofs`** (`BookingAssumption`, `NilIsNoReservation`, `NilIsNoEntry` and
  the assumptions of `Availability`).
  `InFlightOK`: a request about to run a query has inserted nothing, and what it read
  has passed the checks in front of that query. Types alone say nothing about a row
  at the moment it is inserted. From it: `TypeCorrect`; `DoubleBookingImpossible`
  (`FreeRowKeepsDisjoint` is the one fact about the constraint, used for an insertion and
  a change of status alike); `ReservationsConsistent` (`WindowOnDay` bounds a window by
  its date); `OfferAgreesWithBooking` (the handler lists only the reservations that
  start on the day; `MidnightOnDay` and `DaysAreDisjoint` show that no other can be in the
  way); `UnracedBookingsFit`; `BookingImplementsCalendar`.
* **`SearchProofs`** (`InputAssumption` and `Availability`'s assumptions). `SearchInv`: the slots found are
  the free starts of the grid in front of the loop variable, which is on the grid.
  `BetweenGrid` says that a step skips none. From it: `SearchIsAvailableSlots`, the
  equality with the operator that `Booking` uses, and `SearchIsExact`, the one with the
  definition instant by instant. `SearchAlwaysAdvances` is the loop's variant: `StepsLeft` is a
  natural number that every step lowers, so the search ends for any input as long as it
  takes the steps it can, which is what its fairness says.
* **`AccountsProofs`** (`AccountsAssumption`, `NilIsNoRow`). That a token is still true is
  not inductive: one must know who may still write to a row. `Inductive` says that a row
  belongs to the call that inserted it and fits where that call stands (`UsersBorn`,
  `ShopsBorn`, `ServicesBorn`), what a call under way has checked (`AllInFlight`), and that
  the claims of a call behind the middleware stand (`FormsStand`). From it: `AccountsTyped`,
  `TokensStayTrue`, `ShopsOwned`, `StaffedOnlyByTheOwner`, `ServicesBookable`, `StaffStays`.
  `HalfOnboardedStaysShut` adds `SecretsKept`: a call types the temporary password of an
  onboarding only after that has succeeded, and a success stays one.
  `NoPasswordWithoutProof` has an invariant of its own (`PasswordsInductive`). A chain of
  changes is stated without recursion: a password is at the end of one if it is in every
  set that is `Closed`, that has the first password and, with the old one of a change that was
  written, its new one. So is the old password of a change about to write; a set that is
  closed after a step was closed before it (`ClosedBefore`).
* **`ApprovalProofs`** (`ApprovalAssumption`, `NilIsNoRequest`). `StagedIsCurrent` alone is not inductive: a commit changes rows and a
  request under the feet of other transactions. `LocksExclude` and `StagedAfterWrites` say why
  it does not touch theirs: a transaction holds its request alone, and the rows of the
  writes it has done. `ProposalsOwned` keeps a payload in its barber's rows. From it:
  `ApprovalsTyped`, `StagedStaysCurrent`, `DecidedOnce`, `TenantsStayIsolated`,
  `LiveStaysApproved` (a commit shows the values of the payload it marks as approved, and
  no other; a decided request is never rewritten), and
  `WorkflowImplemented`, the step simulation of `ApprovalSpec`.
* **`RatingProofs`** (`RatingAssumption`). `Holds`, `First` and `Truthful` say what the row lock keeps true
  between the check and the commit: the visit stays completed and unrated, and what the
  UPDATE aggregates is committed or the call's own. From it: `RatingsOfVisits`,
  `RatingsFinal`, `ProfilesCount`, `DriftRepaired`, and `RatingsKeepPromise`, the step
  simulation of `RatingSpec`. `RatingTyped` needs that an average of scores is a score:
  the ratings fall into five classes whose sizes add up (`ClassesCount`), and a quotient
  of such sums is bounded (`QuotientBound`). `NoMutualWait`, with `Locked` (a lock belongs to
  a call that has not given it back yet), says that a call under way can go on, or waits
  for one that can, or for one that waits for one that can; two is the most it takes.
* **`HoursProofs`** (`HoursAssumption`). `Saving`: a save has staged exactly the days it has
  done, each weekday as last given, and all of them fit. From it: `HoursTyped` and
  `SavesAppearWhole`, the step simulation of `HoursSpec`.
* **`ServerProofs`** (`ServerAssumption`). `Waits`: who is in the queue waits, in one place;
  `Holding`: a request has a connection exactly while it queries; `Locking`, `Closing`. From
  it: `ServerTyped`, `NothingEverLeaks`, `ExitIsClean`. `NobodyIsEverStuck` has one hypothesis
  more, that the transactions take the rows of a unit in the order of some `rank`. Then
  `RestInOrder`, `LockedBefore` (what a request has locked comes before what it will ask for)
  and `Queued` (who waits is in the queue) are kept, and a request that waits for a row
  waits for one whose next row is of lower rank: among the least of them one can move
  (`WaitsForLower`, `Least`). If none queries, every connection is free for the head of
  the queue. TLC confirms both sides: the plans of `MCServer` have such a rank; with a plan
  that takes the profile before the reservation, it finds two requests that are stuck.

`WaitsAreShort`, `NobodyIsStuck` and `SearchAdvances` are stated in the proof modules and belong
to no run; TLC checked each on the instance of its component before it was proved.

Only model-checked: liveness (`SearchEnds`, `EveryCallAnswered` of `Rating` and of `Approvals`,
`EverySaveAnswered`, `EveryRequestAnswered`, `ShutdownEnds`), since TLAPS does not do ENABLED.
Every safety invariant and action property of a passing run is proved. No proof uses
an induction theorem with an operator for parameter: sums go by the five scores, and
the one argument by a least element (`Least`) takes it of a set of numbers.

## What is not modelled

* Text that no decision depends on: wording, notes, names, prices, a barber's
  biography, the name, address, city and phone of a shop. Their updates are single
  statements on one row.
* HTTP codes beyond what an answer means to its caller; the listings, which change
  nothing.
* Signatures of tokens and the strength of hashes: a token is one that the program
  has signed, and a hash accepts the one password it was made of.
* Configuration (environment variables read once), the connection of the pool at
  start, the generated mocks.
* Failures of the database itself: a committed row stays. The `confirmed` status
  exists in the schema, but no code enters it.

## What could come next

* One module in which a booking and a rating work on the same reservation; today they
  share only its status, and each model lets the other's changes of it happen freely.
* Liveness of the composition of `Server` with transactions that lock rows in the order
  of their bodies; it needs the deadlines of those transactions in `Server`.
