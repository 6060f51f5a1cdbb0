-------------------------------- MODULE Booking --------------------------------
(***************************************************************************)
(* Booking: POST /reservations runs against a database that other requests *)
(* change between any two of its queries.                                  *)
(*                                                                         *)
(* Each query is one action, because each is a statement of its own under  *)
(* READ COMMITTED: what a handler read earlier may be stale when it is     *)
(* used. The other writers of the tables a booking depends on (the owner's *)
(* hours and barber status, the approved proposals, the barber's           *)
(* exceptions, the changes of reservation status) each run one             *)
(* transaction, so each is one action.                                     *)
(***************************************************************************)
EXTENDS Availability

CONSTANTS
    Requests,       \* calls of POST /reservations; also the id of the row each inserts
    Customers,
    Barbers,
    Services,
    Shops,
    BarberShop,     \* users.shop_id of a barber, never updated
    ServiceShop,    \* services.shop_id, never updated
    ServiceBarber,  \* services.barber_id, never updated; Nil for a shop-wide service
    Dates,          \* the local midnights of the days of the instance
    Rows,           \* rows the schedule tables may hold
    Durations,      \* values of services.duration_minutes
    MaxClock,       \* bound: the clock stops there
    MaxWrites       \* bound: configuration changes in a behavior

ASSUME BookingAssumption ==
    /\ BarberShop \in [Barbers -> Shops]
    /\ ServiceShop \in [Services -> Shops]
    /\ ServiceBarber \in [Services -> Barbers \cup {Nil}]
    /\ Dates \subseteq {date \in Nat : date % DayLen = 0}
    /\ Rows \subseteq Row
    /\ Durations \subseteq Nat \ {0}        \* CHECK (duration_minutes > 0)
    /\ MaxClock \in Nat /\ MaxWrites \in Nat

VARIABLES
    clock,          \* time.Now()
    active,         \* barber_profiles.is_active
    hours,          \* shop_hours, by shop and weekday
    schedule,       \* the approved work_schedules, by barber and weekday
    exception,      \* schedule_exceptions, by barber and date
    minutes,        \* services.duration_minutes
    reservation,    \* reservations, by the request that inserted the row
    pc,             \* the next query of each request, or its answer
    form,           \* the body each request is working on
    seen,           \* what each request has read so far
    writes          \* configuration changes so far

vars == <<clock, active, hours, schedule, exception, minutes, reservation,
          pc, form, seen, writes>>

Weekdays == {Weekday(date) : date \in Dates}
Instants == UNION {date .. (date + DayLen - 1) : date \in Dates}

Form == [customer : Customers, barber : Barbers, service : Services, start : Instants]

Reservation ==
    [customer : Customers, barber : Barbers, service : Services, shop : Shops,
     start : Nat, end : Nat, status : Statuses]

ASSUME NilIsNoReservation == Nil \notin Reservation

Queries == {"service", "barber", "hours", "schedule", "exception", "insert"}
Answers == {"created", "refused", "conflict", "error"}

\* The locals of the handler: the duration, and the rows of loadDaySchedule.
Seen == [minutes : Durations \cup {Nil}, hours : Rows \cup {Nil},
         schedule : Rows \cup {Nil}, exception : Rows \cup {Nil}]
NothingSeen == [minutes |-> Nil, hours |-> Nil, schedule |-> Nil, exception |-> Nil]

DayRowsOf(rows) == [hours : rows \cup {Nil}, schedule : rows \cup {Nil},
                    exception : rows \cup {Nil}]

-----------------------------------------------------------------------------

Init ==
    /\ clock = 0
    /\ active \in [Barbers -> BOOLEAN]
    /\ hours \in [Shops -> [Weekdays -> Rows \cup {Nil}]]
    /\ schedule \in [Barbers -> [Weekdays -> Rows \cup {Nil}]]
    /\ exception = [b \in Barbers |-> [date \in Dates |-> Nil]]
    /\ minutes \in [Services -> Durations]
    /\ reservation = [r \in Requests |-> Nil]
    /\ pc = [r \in Requests |-> "idle"]
    /\ form = [r \in Requests |-> Nil]
    /\ seen = [r \in Requests |-> NothingSeen]
    /\ writes = 0

Tick ==
    /\ clock < MaxClock
    /\ clock' = clock + 1
    /\ UNCHANGED <<active, hours, schedule, exception, minutes, reservation,
                   pc, form, seen, writes>>

-----------------------------------------------------------------------------
(* The handler of POST /reservations.                                      *)

\* The requested row, with the end derived from the duration that was read.
RequestedEnd(r) == form[r].start + seen[r].minutes
RequestedDate(r) == Midnight(form[r].start)

Proceed(r, query) ==
    /\ pc' = [pc EXCEPT ![r] = query]
    /\ UNCHANGED form

\* The handler returns, its locals are gone.
Answer(r, answer) ==
    /\ pc' = [pc EXCEPT ![r] = answer]
    /\ form' = [form EXCEPT ![r] = Nil]
    /\ seen' = [seen EXCEPT ![r] = NothingSeen]

ReadsOnly == UNCHANGED <<clock, active, hours, schedule, exception, minutes,
                         reservation, writes>>

\* The body is bound; starts_at must be in the future.
Receive(r, body) ==
    /\ pc[r] = "idle"
    /\ IF body.start > clock
       THEN /\ pc' = [pc EXCEPT ![r] = "service"]
            /\ form' = [form EXCEPT ![r] = body]
            /\ UNCHANGED seen
       ELSE Answer(r, "refused")
    /\ ReadsOnly

ServiceFits(service, barber) == ServiceBarber[service] \in {Nil, barber}

GetService(r) ==
    /\ pc[r] = "service"
    /\ IF ServiceFits(form[r].service, form[r].barber)
       THEN /\ seen' = [seen EXCEPT ![r].minutes = minutes[form[r].service]]
            /\ Proceed(r, "barber")
       ELSE Answer(r, "refused")
    /\ ReadsOnly

\* A mutated form of GetBarberProfile: the shops are not compared.
ForeignShop(r) ==
    /\ pc[r] = "barber"
    /\ IF active[form[r].barber]
       THEN Proceed(r, "hours") /\ UNCHANGED seen
       ELSE Answer(r, "refused")
    /\ ReadsOnly

GetBarberProfile(r) ==
    /\ pc[r] = "barber"
    /\ IF /\ BarberShop[form[r].barber] = ServiceShop[form[r].service]
          /\ active[form[r].barber]
       THEN Proceed(r, "hours") /\ UNCHANGED seen
       ELSE Answer(r, "refused")
    /\ ReadsOnly

\* loadDaySchedule: three queries, each narrowed to the date of the request.
GetShopHours(r) ==
    /\ pc[r] = "hours"
    /\ seen' = [seen EXCEPT ![r].hours =
                    hours[ServiceShop[form[r].service]][Weekday(RequestedDate(r))]]
    /\ Proceed(r, "schedule")
    /\ ReadsOnly

GetApprovedSchedule(r) ==
    /\ pc[r] = "schedule"
    /\ seen' = [seen EXCEPT ![r].schedule =
                    schedule[form[r].barber][Weekday(RequestedDate(r))]]
    /\ Proceed(r, "exception")
    /\ ReadsOnly

\* A mutated form of GetException: the interval is checked before the row is
\* read.
ChecksBeforeException(r) ==
    /\ pc[r] = "exception"
    /\ IF Contains(RequestedDate(r), seen[r], form[r].start, RequestedEnd(r))
       THEN /\ seen' = [seen EXCEPT ![r].exception =
                            exception[form[r].barber][RequestedDate(r)]]
            /\ Proceed(r, "insert")
       ELSE Answer(r, "refused")
    /\ ReadsOnly

\* The last row, then the interval is checked against all three.
GetException(r) ==
    /\ pc[r] = "exception"
    /\ LET row == exception[form[r].barber][RequestedDate(r)]
           day == [seen[r] EXCEPT !.exception = row]
       IN  IF Contains(RequestedDate(r), day, form[r].start, RequestedEnd(r))
           THEN /\ seen' = [seen EXCEPT ![r] = day]
                /\ Proceed(r, "insert")
           ELSE Answer(r, "refused")
    /\ ReadsOnly

\* A mutated form of Excluded: a constraint WHERE (status = 'pending').
ExcludedByPending(r, barber, start, end) ==
    \E q \in Requests \ {r} :
        /\ reservation[q] # Nil
        /\ reservation[q].status = "pending"
        /\ reservation[q].barber = barber
        /\ Overlaps(reservation[q].start, reservation[q].end, start, end)

\* EXCLUDE USING gist (barber_id =, tstzrange(starts_at, ends_at) &&)
\* WHERE (status NOT IN ('cancelled', 'no_show')), for the row of request r.
Excluded(r, barber, start, end) ==
    \E q \in Requests \ {r} :
        /\ reservation[q] # Nil
        /\ HoldsSlot(reservation[q].status)
        /\ reservation[q].barber = barber
        /\ Overlaps(reservation[q].start, reservation[q].end, start, end)

RequestedRow(r) ==
    [customer |-> form[r].customer, barber |-> form[r].barber,
     service |-> form[r].service, shop |-> ServiceShop[form[r].service],
     start |-> form[r].start, end |-> RequestedEnd(r), status |-> "pending"]

SlotTaken(r) ==
    /\ pc[r] = "insert"
    /\ Excluded(r, form[r].barber, form[r].start, RequestedEnd(r))
    /\ Answer(r, "conflict")
    /\ ReadsOnly

\* A mutated form of CreateReservation: no constraint on the table.
InsertsUnchecked(r) ==
    /\ pc[r] = "insert"
    /\ reservation' = [reservation EXCEPT ![r] = RequestedRow(r)]
    /\ \E answer \in {"created", "error"} : Answer(r, answer)
    /\ UNCHANGED <<clock, active, hours, schedule, exception, minutes, writes>>

\* The row is committed; the 5 second deadline or the connection may still cost
\* the caller the answer.
CreateReservation(r) ==
    /\ pc[r] = "insert"
    /\ ~Excluded(r, form[r].barber, form[r].start, RequestedEnd(r))
    /\ reservation' = [reservation EXCEPT ![r] = RequestedRow(r)]
    /\ \E answer \in {"created", "error"} : Answer(r, answer)
    /\ UNCHANGED <<clock, active, hours, schedule, exception, minutes, writes>>

\* Any query may fail or time out before it does anything: 404 or 500.
Fail(r) ==
    /\ pc[r] \in Queries
    /\ Answer(r, "error")
    /\ ReadsOnly

Handle(r) ==
    \/ GetService(r) \/ GetBarberProfile(r)
    \/ GetShopHours(r) \/ GetApprovedSchedule(r) \/ GetException(r)
    \/ SlotTaken(r) \/ CreateReservation(r) \/ Fail(r)

-----------------------------------------------------------------------------
(* Changes of status. Neither looks at the status the caller saw.          *)

SetStatus(r, status) ==
    /\ reservation' = [reservation EXCEPT ![r].status = status]
    /\ UNCHANGED <<clock, active, hours, schedule, exception, minutes,
                   pc, form, seen, writes>>

\* PATCH /reservations/:id/cancel, by the customer of the row.
Cancel(r, customer) ==
    /\ reservation[r] # Nil
    /\ reservation[r].customer = customer
    /\ reservation[r].status \in {"pending", "confirmed"}
    /\ SetStatus(r, "cancelled")

\* PATCH /barbers/me/reservations/:id/complete and .../no-show, by the barber of
\* the row, in whatever status it is. A row that takes its slot again must pass EXCLUDE.
UpdateStatus(r, barber, status) ==
    /\ reservation[r] # Nil
    /\ reservation[r].barber = barber
    /\ HoldsSlot(status) =>
          ~Excluded(r, barber, reservation[r].start, reservation[r].end)
    /\ SetStatus(r, status)

-----------------------------------------------------------------------------
(* The configuration. Every change is live when its transaction commits.   *)

Configures ==
    /\ writes < MaxWrites
    /\ writes' = writes + 1
    /\ UNCHANGED <<clock, reservation, pc, form, seen>>

\* A payload gives rows to some weekdays; each is upserted, the others stay.
Payloads == UNION {[days -> Rows] : days \in SUBSET Weekdays \ {{}}}

\* A mutated form of Upsert: the payload replaces the table, without the days off.
ReplaceTable(table, payload) ==
    [day \in {d \in DOMAIN payload : payload[d].working} |-> payload[day]]

Upsert(table, payload) ==
    [day \in DOMAIN table |->
        IF day \in DOMAIN payload THEN payload[day] ELSE table[day]]

SetActive(shop, barber, value) ==
    /\ BarberShop[barber] = shop
    /\ active' = [active EXCEPT ![barber] = value]
    /\ Configures
    /\ UNCHANGED <<hours, schedule, exception, minutes>>

SetShopHours(shop, payload) ==
    /\ hours' = [hours EXCEPT ![shop] = Upsert(hours[shop], payload)]
    /\ Configures
    /\ UNCHANGED <<active, schedule, exception, minutes>>

\* The owner approves a proposed schedule.
ApplySchedule(barber, payload) ==
    /\ schedule' = [schedule EXCEPT ![barber] = Upsert(schedule[barber], payload)]
    /\ Configures
    /\ UNCHANGED <<active, hours, exception, minutes>>

AddException(barber, date, row) ==
    /\ exception' = [exception EXCEPT ![barber][date] = row]
    /\ Configures
    /\ UNCHANGED <<active, hours, schedule, minutes>>

\* The owner approves a proposed service update.
ApplyUpdate(service, duration) ==
    /\ minutes' = [minutes EXCEPT ![service] = duration]
    /\ Configures
    /\ UNCHANGED <<active, hours, schedule, exception>>

-----------------------------------------------------------------------------

Next ==
    \/ Tick
    \/ \E r \in Requests, body \in Form : Receive(r, body)
    \/ \E r \in Requests : Handle(r)
    \/ \E r \in Requests, customer \in Customers : Cancel(r, customer)
    \/ \E r \in Requests, barber \in Barbers, status \in {"completed", "no_show"} :
            UpdateStatus(r, barber, status)
    \/ \E shop \in Shops, barber \in Barbers, value \in BOOLEAN :
            SetActive(shop, barber, value)
    \/ \E shop \in Shops, payload \in Payloads : SetShopHours(shop, payload)
    \/ \E barber \in Barbers, payload \in Payloads : ApplySchedule(barber, payload)
    \/ \E barber \in Barbers, date \in Dates, row \in Rows :
            AddException(barber, date, row)
    \/ \E service \in Services, duration \in Durations : ApplyUpdate(service, duration)

Spec == Init /\ [][Next]_vars

-----------------------------------------------------------------------------
(* GET /shops/:shopId/barbers/:barberId/availability. It reads only.       *)

LiveDay(shop, barber, date) ==
    [hours     |-> hours[shop][Weekday(date)],
     schedule  |-> schedule[barber][Weekday(date)],
     exception |-> exception[barber][date]]

\* A mutated form of ListForBarber: starts_at > $2.
ListAfter(barber, from, to) ==
    {reservation[r] : r \in {q \in Requests :
        /\ reservation[q] # Nil
        /\ reservation[q].barber = barber
        /\ from < reservation[q].start /\ reservation[q].start < to}}

ListForBarber(barber, from, to) ==
    {reservation[r] : r \in {q \in Requests :
        /\ reservation[q] # Nil
        /\ reservation[q].barber = barber
        /\ from <= reservation[q].start /\ reservation[q].start < to}}

GetAvailability(shop, barber, service, date) ==
    IF /\ BarberShop[barber] = shop
       /\ ServiceShop[service] = shop
       /\ ServiceFits(service, barber)
    THEN AvailableSlots(date, LiveDay(shop, barber, date), minutes[service],
                        ListForBarber(barber, date, date + DayLen))
    ELSE {}

-----------------------------------------------------------------------------

TypeOK ==
    /\ clock \in 0 .. MaxClock
    /\ active \in [Barbers -> BOOLEAN]
    /\ hours \in [Shops -> [Weekdays -> Rows \cup {Nil}]]
    /\ schedule \in [Barbers -> [Weekdays -> Rows \cup {Nil}]]
    /\ exception \in [Barbers -> [Dates -> Rows \cup {Nil}]]
    /\ minutes \in [Services -> Durations]
    /\ reservation \in [Requests -> Reservation \cup {Nil}]
    /\ pc \in [Requests -> {"idle"} \cup Queries \cup Answers]
    /\ form \in [Requests -> Form \cup {Nil}]
    /\ seen \in [Requests -> Seen]
    /\ writes \in 0 .. MaxWrites

\* A request that is about to run a query has passed every check in front of
\* it, on what it read, and has inserted nothing yet. The invariants below are
\* inductive only together with it.
InFlightOK ==
    \A r \in Requests :
        /\ pc[r] \in Queries \cup {"idle"} => reservation[r] = Nil
        /\ pc[r] \in Queries => form[r] \in Form
        /\ pc[r] \in Queries \ {"service"} =>
              /\ seen[r].minutes \in Durations
              /\ ServiceFits(form[r].service, form[r].barber)
        /\ pc[r] \in Queries \ {"service", "barber"} =>
              BarberShop[form[r].barber] = ServiceShop[form[r].service]
        /\ pc[r] = "insert" =>
              Contains(RequestedDate(r), seen[r], form[r].start, RequestedEnd(r))

Active(r) == reservation[r] # Nil /\ HoldsSlot(reservation[r].status)

\* No two reservations of a barber that hold their slots overlap, however the
\* bookings interleave and whatever the barber or the customer does to the
\* status of a row whose slot was given to somebody else in between.
NoDoubleBooking ==
    \A r, q \in Requests :
        /\ r # q
        /\ Active(r) /\ Active(q)
        /\ reservation[r].barber = reservation[q].barber
        => ~Overlaps(reservation[r].start, reservation[r].end,
                     reservation[q].start, reservation[q].end)

\* A reservation begins and ends on one local day. The availability query
\* relies on it: it lists the reservations that START on the day.
WithinOneDay ==
    \A r \in Requests : reservation[r] # Nil =>
        /\ reservation[r].start < reservation[r].end
        /\ reservation[r].end <= Midnight(reservation[r].start) + DayLen

\* The three tenants of a row agree: its shop is the barber's and the
\* service's, and a barber's own service is booked with that barber only.
TenantConsistent ==
    \A r \in Requests : reservation[r] # Nil =>
        /\ reservation[r].shop = BarberShop[reservation[r].barber]
        /\ reservation[r].shop = ServiceShop[reservation[r].service]
        /\ ServiceFits(reservation[r].service, reservation[r].barber)

\* An offered slot never runs into a reservation that holds its slot, on that
\* day or on another, whatever (stale) rows and duration the availability
\* handler read before it listed the reservations.
OfferedSlotsFree ==
    \A barber \in Barbers, date \in Dates, day \in DayRowsOf(Rows), duration \in Durations :
        \A start \in AvailableSlots(date, day, duration,
                                    ListForBarber(barber, date, date + DayLen)) :
            \A r \in Requests :
                Active(r) /\ reservation[r].barber = barber =>
                    ~Overlaps(start, start + duration,
                              reservation[r].start, reservation[r].end)

\* The calendar a reader of the reservations table sees.
CalendarEntry(r) ==
    IF reservation[r] = Nil THEN Nil
    ELSE [barber |-> reservation[r].barber,
          start  |-> reservation[r].start,
          end    |-> reservation[r].end,
          held   |-> HoldsSlot(reservation[r].status)]

Promise == INSTANCE Calendar WITH entry <- [r \in Requests |-> CalendarEntry(r)]

ASSUME NilIsNoEntry == Nil \notin Promise!Entry

\* Booking implements the calendar: whatever the interleaving, a step books a
\* free slot, gives one up, takes a released one back while it is free, or
\* leaves the calendar alone; an interval once booked never moves.
ImplementsCalendar == Promise!Spec

\* Whether the booking handler would take the slot if it ran alone now: its
\* checks, then the exclusion constraint (no row is spared: the request is new).
Bookable(barber, service, start) ==
    LET date == Midnight(start)
        end == start + minutes[service]
    IN  /\ start > clock
        /\ ServiceFits(service, barber)
        /\ BarberShop[barber] = ServiceShop[service]
        /\ active[barber]
        /\ Contains(date, LiveDay(ServiceShop[service], barber, date), start, end)
        /\ ~\E r \in Requests :
              /\ Active(r) /\ reservation[r].barber = barber
              /\ Overlaps(reservation[r].start, reservation[r].end, start, end)

\* Display and booking agree: the handler would take every future slot that is
\* offered of an active barber. Two different computations must agree on it:
\* a grid over the listed reservations of one day, and a containment test
\* followed by a database constraint over all rows.
OfferIsBookable ==
    \A shop \in Shops, barber \in Barbers, service \in Services, date \in Dates :
        \A start \in GetAvailability(shop, barber, service, date) :
            start > clock /\ active[barber] => Bookable(barber, service, start)

Books(r) == reservation[r] = Nil /\ reservation'[r] # Nil

\* What the request read is still what the tables hold.
SeenIsLive(r) ==
    /\ active[form[r].barber]
    /\ seen[r].minutes = minutes[form[r].service]
    /\ LET day == LiveDay(ServiceShop[form[r].service], form[r].barber, RequestedDate(r))
       IN  /\ seen[r].hours = day.hours
           /\ seen[r].schedule = day.schedule
           /\ seen[r].exception = day.exception

\* A booking that no configuration change raced with fits the live rules: the
\* window of that shop, barber and date, for the live duration of the service.
UnracedBookingIsValid ==
    [][\A r \in Requests : Books(r) /\ SeenIsLive(r) =>
          LET row == reservation'[r]
              date == Midnight(row.start)
          IN  /\ row.end = row.start + minutes[row.service]
              /\ Contains(date, LiveDay(row.shop, row.barber, date), row.start, row.end)]_vars

-----------------------------------------------------------------------------
(* What the documentation says and the code does not do.                   *)

\* reservation_handlers.go: the rules are checked again so that no request can
\* book outside the barber's working hours. The rows are read before the INSERT
\* and not locked, so the hours may have changed.
BookedInsideLiveHours ==
    [][\A r \in Requests : Books(r) =>
          LET row == reservation'[r]
              date == Midnight(row.start)
          IN  Contains(date, LiveDay(row.shop, row.barber, date), row.start, row.end)]_vars
=============================================================================
