------------------------------ MODULE BookingProofs ------------------------------
(***************************************************************************)
(* Proofs about Booking, for every set of requests, tenants, dates, rows   *)
(* and durations, and every bound on the clock and on the configuration    *)
(* changes.                                                                *)
(***************************************************************************)
EXTENDS Booking, TLAPS

-----------------------------------------------------------------------------
(* Dates.                                                                  *)

\* The midnight before an instant is a day or less away.
LEMMA MidnightBounds ==
    ASSUME NEW t \in Nat
    PROVE  /\ Midnight(t) \in Nat
           /\ Midnight(t) <= t
           /\ t < Midnight(t) + DayLen
  <1>1. t % DayLen \in 0 .. (DayLen - 1)
    BY DayLenAssumption
  <1>2. t % DayLen <= t
    BY DayLenAssumption
  <1> QED BY <1>1, <1>2, DayLenAssumption DEF Midnight

\* Nothing but the remainder separates a number from the multiple before it.
LEMMA MultipleBefore ==
    ASSUME NEW d \in Nat \ {0}, NEW multiple \in Nat, multiple % d = 0,
           NEW t \in multiple .. (multiple + d - 1)
    PROVE  t - (t % d) = multiple
  <1>1. PICK q \in Nat : multiple = d * q
    <2>1. multiple = d * (multiple \div d) + (multiple % d) /\ multiple \div d \in Nat
      OBVIOUS
    <2> QED BY <2>1
  <1>2. PICK r \in 0 .. (d - 1) : t = d * q + r
    BY <1>1
  <1>3. (d * q + r) % d = r
    OBVIOUS
  <1> QED BY <1>1, <1>2, <1>3

\* The midnight before an instant of a day is the date of that day.
LEMMA MidnightOnDay ==
    ASSUME NEW date \in Nat, date % DayLen = 0,
           NEW t \in date .. (date + DayLen - 1)
    PROVE  Midnight(t) = date
  BY DayLenAssumption, MultipleBefore DEF Midnight

\* Below a multiple, a whole divisor separates the multiple before a number
\* from that multiple.
LEMMA MultiplesApart ==
    ASSUME NEW d \in Nat \ {0}, NEW multiple \in Nat, multiple % d = 0,
           NEW t \in Nat, t < multiple
    PROVE  (t - (t % d)) + d <= multiple
  <1>1. PICK p \in Nat : multiple = d * p
    <2>1. multiple = d * (multiple \div d) + (multiple % d) /\ multiple \div d \in Nat
      OBVIOUS
    <2> QED BY <2>1
  <1>2. PICK q \in Nat, r \in 0 .. (d - 1) : t = d * q + r /\ t % d = r
    <2>1. t = d * (t \div d) + (t % d) /\ t \div d \in Nat /\ t % d \in 0 .. (d - 1)
      OBVIOUS
    <2> QED BY <2>1
  <1>3. t - (t % d) = d * q
    BY <1>2
  <1>4. q < p
    <2>1. SUFFICES ASSUME p <= q PROVE FALSE
      OBVIOUS
    <2>2. d * p <= d * q
      BY <2>1
    <2> QED BY <1>1, <1>2, <2>2
  <1>5. d * q + d <= d * p
    BY <1>4
  <1> QED BY <1>1, <1>3, <1>5

\* A day is over when a later one begins.
LEMMA DaysAreDisjoint ==
    ASSUME NEW date \in Nat, date % DayLen = 0, NEW t \in Nat, t < date
    PROVE  Midnight(t) + DayLen <= date
  BY DayLenAssumption, MultiplesApart DEF Midnight

\* Every instant a request may ask for lies on a day of the instance.
LEMMA MidnightIsDate ==
    ASSUME NEW t \in Instants
    PROVE  t \in Nat /\ Midnight(t) \in Dates /\ Weekday(Midnight(t)) \in Weekdays
  <1>1. PICK date \in Dates : t \in date .. (date + DayLen - 1)
    BY DEF Instants
  <1>2. date \in Nat /\ date % DayLen = 0
    BY BookingAssumption
  <1>3. t \in Nat
    BY <1>1, <1>2, DayLenAssumption
  <1>4. Midnight(t) = date
    BY <1>1, <1>2, MidnightOnDay
  <1> QED BY <1>3, <1>4 DEF Weekdays

-----------------------------------------------------------------------------
(* Type correctness and the checks a request has behind it.                *)

Inv == TypeOK /\ InFlightOK

\* The duration and the rows a request reads are rows of the tables.
LEMMA ReadsAreRows ==
    ASSUME TypeOK, NEW body \in Form
    PROVE  /\ minutes[body.service] \in Durations
           /\ hours[ServiceShop[body.service]][Weekday(Midnight(body.start))] \in Rows \cup {Nil}
           /\ schedule[body.barber][Weekday(Midnight(body.start))] \in Rows \cup {Nil}
           /\ exception[body.barber][Midnight(body.start)] \in Rows \cup {Nil}
  <1>1. body.barber \in Barbers /\ body.service \in Services /\ body.start \in Instants
    BY DEF Form
  <1>2. Midnight(body.start) \in Dates /\ Weekday(Midnight(body.start)) \in Weekdays
    BY <1>1, MidnightIsDate
  <1>3. ServiceShop[body.service] \in Shops
    BY <1>1, BookingAssumption
  <1>4. minutes[body.service] \in Durations
    BY <1>1 DEF TypeOK
  <1>5. hours[ServiceShop[body.service]] \in [Weekdays -> Rows \cup {Nil}]
    BY <1>3 DEF TypeOK
  <1>6. schedule[body.barber] \in [Weekdays -> Rows \cup {Nil}]
    BY <1>1 DEF TypeOK
  <1>7. exception[body.barber] \in [Dates -> Rows \cup {Nil}]
    BY <1>1 DEF TypeOK
  <1> QED BY <1>2, <1>4, <1>5, <1>6, <1>7

\* An answer leaves no local behind.
LEMMA AnswerOK ==
    ASSUME Inv, NEW r \in Requests, NEW answer \in Answers, Answer(r, answer),
           UNCHANGED <<clock, active, hours, schedule, exception, minutes, writes>>,
           reservation' \in [Requests -> Reservation \cup {Nil}],
           \A q \in Requests \ {r} : reservation'[q] = reservation[q]
    PROVE  Inv'
  <1>1. NothingSeen \in Seen
    BY DEF NothingSeen, Seen
  <1>2. TypeOK'
    BY <1>1 DEF Inv, TypeOK, Answer
  <1>3. InFlightOK'
    BY DEF Inv, TypeOK, InFlightOK, Answer, Answers, Queries, RequestedDate, RequestedEnd
  <1> QED BY <1>2, <1>3 DEF Inv

\* A configuration change keeps the locals of the requests.
LEMMA ConfiguresOK ==
    ASSUME Inv, Configures,
           active' \in [Barbers -> BOOLEAN],
           hours' \in [Shops -> [Weekdays -> Rows \cup {Nil}]],
           schedule' \in [Barbers -> [Weekdays -> Rows \cup {Nil}]],
           exception' \in [Barbers -> [Dates -> Rows \cup {Nil}]],
           minutes' \in [Services -> Durations]
    PROVE  Inv'
  <1>1. TypeOK'
    BY BookingAssumption DEF Inv, TypeOK, Configures
  <1>2. InFlightOK'
    BY DEF Inv, InFlightOK, Configures, RequestedDate, RequestedEnd
  <1> QED BY <1>1, <1>2 DEF Inv

\* The row a request inserts is a row of the table.
LEMMA RequestedRowOK ==
    ASSUME Inv, NEW r \in Requests, pc[r] = "insert"
    PROVE  RequestedRow(r) \in Reservation
  <1>1. form[r] \in Form /\ seen[r].minutes \in Durations
    BY DEF Inv, InFlightOK, Queries
  <1>2. form[r].start \in Nat
    BY <1>1, MidnightIsDate DEF Form
  <1>3. RequestedEnd(r) \in Nat
    <2>1. seen[r].minutes \in Nat
      BY <1>1, BookingAssumption
    <2>2. form[r].start + seen[r].minutes \in Nat
      BY <1>2, <2>1
    <2> QED BY <2>2 DEF RequestedEnd
  <1> QED BY <1>1, <1>2, <1>3, BookingAssumption DEF RequestedRow, Reservation, Form, Statuses

\* An upsert keeps the weekdays of the table.
LEMMA UpsertOK ==
    ASSUME NEW table \in [Weekdays -> Rows \cup {Nil}], NEW payload \in Payloads
    PROVE  Upsert(table, payload) \in [Weekdays -> Rows \cup {Nil}]
  BY DEF Payloads, Upsert

\* Every step keeps the types and the checks.
LEMMA InvStep == Inv /\ [Next]_vars => Inv'
  <1> SUFFICES ASSUME Inv, [Next]_vars PROVE Inv'
    OBVIOUS
  <1> USE DEF ReadsOnly
  <1>1. CASE UNCHANGED vars
    BY <1>1 DEF Inv, TypeOK, InFlightOK, vars, RequestedDate, RequestedEnd
  <1>2. CASE Tick
    BY <1>2, BookingAssumption DEF Tick, Inv, TypeOK, InFlightOK, RequestedDate, RequestedEnd
  <1>3. ASSUME NEW r \in Requests, NEW body \in Form, Receive(r, body) PROVE Inv'
    <2>1. CASE body.start > clock
      <3>1. TypeOK'
        BY <1>3, <2>1 DEF Receive, Inv, TypeOK, Queries
      <3>2. InFlightOK'
        BY <1>3, <2>1 DEF Receive, Inv, TypeOK, InFlightOK, Queries, RequestedDate, RequestedEnd
      <3> QED BY <3>1, <3>2 DEF Inv
    <2>2. CASE ~(body.start > clock)
      BY <1>3, <2>2, AnswerOK DEF Receive, Answers, Inv, TypeOK
    <2> QED BY <2>1, <2>2
  <1>4. ASSUME NEW r \in Requests, GetService(r) PROVE Inv'
    <2>1. form[r] \in Form /\ minutes[form[r].service] \in Durations
      BY <1>4, ReadsAreRows DEF GetService, Inv, InFlightOK, Queries
    <2>2. CASE ServiceFits(form[r].service, form[r].barber)
      <3>1. [seen[r] EXCEPT !.minutes = minutes[form[r].service]] \in Seen
        BY <2>1 DEF Inv, TypeOK, Seen
      <3>2. TypeOK'
        BY <1>4, <2>1, <2>2, <3>1 DEF GetService, Proceed, Inv, TypeOK, Queries
      <3>3. InFlightOK'
        BY <1>4, <2>1, <2>2, <3>1 DEF GetService, Proceed, Inv, TypeOK, InFlightOK,
            Seen, Queries, RequestedDate, RequestedEnd
      <3> QED BY <3>2, <3>3 DEF Inv
    <2>3. CASE ~ServiceFits(form[r].service, form[r].barber)
      BY <1>4, <2>3, AnswerOK DEF GetService, Answers, Inv, TypeOK
    <2> QED BY <2>2, <2>3
  <1>5. ASSUME NEW r \in Requests, GetBarberProfile(r) PROVE Inv'
    <2> DEFINE fits == /\ BarberShop[form[r].barber] = ServiceShop[form[r].service]
                       /\ active[form[r].barber]
    <2>1. CASE fits
      <3>1. TypeOK'
        BY <1>5, <2>1 DEF GetBarberProfile, Proceed, Inv, TypeOK, Queries
      <3>2. InFlightOK'
        BY <1>5, <2>1 DEF GetBarberProfile, Proceed, Inv, TypeOK, InFlightOK,
            Queries, RequestedDate, RequestedEnd
      <3> QED BY <3>1, <3>2 DEF Inv
    <2>2. CASE ~fits
      BY <1>5, <2>2, AnswerOK DEF GetBarberProfile, Answers, Inv, TypeOK
    <2> QED BY <2>1, <2>2
  <1>6. ASSUME NEW r \in Requests, GetShopHours(r) PROVE Inv'
    <2> DEFINE row == hours[ServiceShop[form[r].service]][Weekday(RequestedDate(r))]
    <2>1. form[r] \in Form /\ row \in Rows \cup {Nil}
      BY <1>6, ReadsAreRows DEF GetShopHours, Inv, InFlightOK, Queries, RequestedDate
    <2>2. [seen[r] EXCEPT !.hours = row] \in Seen
      BY <2>1 DEF Inv, TypeOK, Seen
    <2>3. seen' = [seen EXCEPT ![r].hours = row]
      BY <1>6 DEF GetShopHours
    <2> HIDE DEF row
    <2>4. TypeOK'
      BY <1>6, <2>2, <2>3 DEF GetShopHours, Proceed, Inv, TypeOK, Queries
    <2>5. InFlightOK'
      BY <1>6, <2>3 DEF GetShopHours, Proceed, Inv, TypeOK, InFlightOK, Queries, Seen,
          RequestedDate, RequestedEnd
    <2> QED BY <2>4, <2>5 DEF Inv
  <1>7. ASSUME NEW r \in Requests, GetApprovedSchedule(r) PROVE Inv'
    <2> DEFINE row == schedule[form[r].barber][Weekday(RequestedDate(r))]
    <2>1. form[r] \in Form /\ row \in Rows \cup {Nil}
      BY <1>7, ReadsAreRows DEF GetApprovedSchedule, Inv, InFlightOK, Queries, RequestedDate
    <2>2. [seen[r] EXCEPT !.schedule = row] \in Seen
      BY <2>1 DEF Inv, TypeOK, Seen
    <2>3. seen' = [seen EXCEPT ![r].schedule = row]
      BY <1>7 DEF GetApprovedSchedule
    <2> HIDE DEF row
    <2>4. TypeOK'
      BY <1>7, <2>2, <2>3 DEF GetApprovedSchedule, Proceed, Inv, TypeOK, Queries
    <2>5. InFlightOK'
      BY <1>7, <2>3 DEF GetApprovedSchedule, Proceed, Inv, TypeOK, InFlightOK, Queries, Seen,
          RequestedDate, RequestedEnd
    <2> QED BY <2>4, <2>5 DEF Inv
  <1>8. ASSUME NEW r \in Requests, GetException(r) PROVE Inv'
    <2> DEFINE row == exception[form[r].barber][RequestedDate(r)]
               day == [seen[r] EXCEPT !.exception = row]
               fits == Contains(RequestedDate(r), day, form[r].start, RequestedEnd(r))
    <2>1. form[r] \in Form /\ row \in Rows \cup {Nil}
      BY <1>8, ReadsAreRows DEF GetException, Inv, InFlightOK, Queries, RequestedDate
    <2>2. day \in Seen /\ day.minutes = seen[r].minutes
      BY <2>1 DEF Inv, TypeOK, Seen
    <2>3. CASE fits
      <3>1. seen' = [seen EXCEPT ![r] = day]
        BY <1>8, <2>3 DEF GetException
      <3>2. pc' = [pc EXCEPT ![r] = "insert"] /\ UNCHANGED form
        BY <1>8, <2>3 DEF GetException, Proceed
      <3> HIDE DEF day
      <3>3. TypeOK'
        BY <1>8, <2>2, <3>1, <3>2 DEF GetException, Inv, TypeOK, Queries
      <3>4. InFlightOK'
        BY <1>8, <2>2, <2>3, <3>1, <3>2 DEF GetException, Inv, TypeOK, InFlightOK, Queries,
            RequestedDate, RequestedEnd
      <3> QED BY <3>3, <3>4 DEF Inv
    <2>4. CASE ~fits
      BY <1>8, <2>4, AnswerOK DEF GetException, Answers, Inv, TypeOK
    <2> QED BY <2>3, <2>4
  <1>9. ASSUME NEW r \in Requests, SlotTaken(r) PROVE Inv'
    BY <1>9, AnswerOK DEF SlotTaken, Answers, Inv, TypeOK
  <1>10. ASSUME NEW r \in Requests, CreateReservation(r) PROVE Inv'
    <2>1. RequestedRow(r) \in Reservation
      BY <1>10, RequestedRowOK DEF CreateReservation
    <2>2. reservation' \in [Requests -> Reservation \cup {Nil}]
      BY <1>10, <2>1 DEF CreateReservation, Inv, TypeOK
    <2>3. PICK answer \in Answers : Answer(r, answer)
      BY <1>10 DEF CreateReservation, Answers
    <2>4. UNCHANGED <<clock, active, hours, schedule, exception, minutes, writes>>
      BY <1>10 DEF CreateReservation
    <2>5. \A q \in Requests \ {r} : reservation'[q] = reservation[q]
      BY <1>10 DEF CreateReservation, Inv, TypeOK
    <2> QED BY <2>2, <2>3, <2>4, <2>5, AnswerOK
  <1>11. ASSUME NEW r \in Requests, Fail(r) PROVE Inv'
    BY <1>11, AnswerOK DEF Fail, Answers, Inv, TypeOK
  <1>held. ASSUME NEW r \in Requests, NEW status \in Statuses, SetStatus(r, status),
                reservation[r] # Nil
         PROVE  Inv'
    <2>1. [reservation[r] EXCEPT !.status = status] \in Reservation
      BY <1>held DEF Inv, TypeOK, Reservation
    <2>2. TypeOK'
      BY <1>held, <2>1 DEF SetStatus, Inv, TypeOK
    <2>3. InFlightOK'
      BY <1>held DEF SetStatus, Inv, InFlightOK, RequestedDate, RequestedEnd
    <2> QED BY <2>2, <2>3 DEF Inv
  <1>13. ASSUME NEW shop \in Shops, NEW barber \in Barbers, NEW value \in BOOLEAN,
                SetActive(shop, barber, value)
         PROVE  Inv'
    BY <1>13, ConfiguresOK DEF SetActive, Inv, TypeOK
  <1>14. ASSUME NEW shop \in Shops, NEW payload \in Payloads, SetShopHours(shop, payload)
         PROVE  Inv'
    <2>1. Upsert(hours[shop], payload) \in [Weekdays -> Rows \cup {Nil}]
      BY UpsertOK DEF Inv, TypeOK
    <2> QED BY <1>14, <2>1, ConfiguresOK DEF SetShopHours, Inv, TypeOK
  <1>15. ASSUME NEW barber \in Barbers, NEW payload \in Payloads, ApplySchedule(barber, payload)
         PROVE  Inv'
    <2>1. Upsert(schedule[barber], payload) \in [Weekdays -> Rows \cup {Nil}]
      BY UpsertOK DEF Inv, TypeOK
    <2> QED BY <1>15, <2>1, ConfiguresOK DEF ApplySchedule, Inv, TypeOK
  <1>16. ASSUME NEW barber \in Barbers, NEW date \in Dates, NEW row \in Rows,
                AddException(barber, date, row)
         PROVE  Inv'
    <2>1. [exception[barber] EXCEPT ![date] = row] \in [Dates -> Rows \cup {Nil}]
      BY DEF Inv, TypeOK
    <2> QED BY <1>16, <2>1, ConfiguresOK DEF AddException, Inv, TypeOK
  <1>17. ASSUME NEW service \in Services, NEW duration \in Durations,
                ApplyUpdate(service, duration)
         PROVE  Inv'
    BY <1>17, ConfiguresOK DEF ApplyUpdate, Inv, TypeOK
  <1>18. ASSUME NEW r \in Requests, NEW customer \in Customers, Cancel(r, customer) PROVE Inv'
    BY <1>held, <1>18 DEF Cancel, Statuses
  <1>19. ASSUME NEW r \in Requests, NEW barber \in Barbers, NEW status \in {"completed", "no_show"},
                UpdateStatus(r, barber, status)
         PROVE  Inv'
    BY <1>held, <1>19 DEF UpdateStatus, Statuses
  <1> QED
    BY <1>1, <1>2, <1>3, <1>4, <1>5, <1>6, <1>7, <1>8, <1>9, <1>10, <1>11, <1>13, <1>14,
       <1>15, <1>16, <1>17, <1>18, <1>19 DEF Next, Handle

\* Nothing is booked and no request is in flight at the start.
LEMMA InvInit == Init => Inv
  <1> SUFFICES ASSUME Init PROVE Inv
    OBVIOUS
  <1>1. NothingSeen \in Seen
    BY DEF NothingSeen, Seen
  <1>2. TypeOK
    BY <1>1, BookingAssumption DEF Init, TypeOK
  <1>3. InFlightOK
    BY DEF Init, InFlightOK, Queries
  <1> QED BY <1>2, <1>3 DEF Inv

\* Every table and every local of a handler holds values of its type, and an
\* in-flight request has the checks behind it that its next query relies on.
THEOREM TypeCorrect == Spec => []TypeOK /\ []InFlightOK
  BY InvInit, InvStep, PTL DEF Spec, Inv

-----------------------------------------------------------------------------
(* The reservations table.                                                 *)

\* Three operations write the reservations table; each changes one row.
LEMMA ReservationWriters ==
    ASSUME [Next]_vars
    PROVE  \/ UNCHANGED reservation
           \/ \E r \in Requests : CreateReservation(r)
           \/ \E r \in Requests, customer \in Customers : Cancel(r, customer)
           \/ \E r \in Requests, barber \in Barbers, status \in {"completed", "no_show"} :
                  UpdateStatus(r, barber, status)
  BY DEF Next, Handle, vars, Tick, Receive, ReadsOnly, GetService, GetBarberProfile,
      GetShopHours, GetApprovedSchedule, GetException, SlotTaken, Fail, Configures,
      SetActive, SetShopHours, ApplySchedule, AddException, ApplyUpdate

\* What an insertion does, in the terms of the invariants.
LEMMA InsertionEffect ==
    ASSUME Inv, NEW r \in Requests, CreateReservation(r)
    PROVE  /\ reservation' = [reservation EXCEPT ![r] = RequestedRow(r)]
           /\ RequestedRow(r) \in Reservation
           /\ ~Excluded(r, RequestedRow(r).barber, RequestedRow(r).start, RequestedRow(r).end)
  <1>1. RequestedRow(r) \in Reservation
    BY RequestedRowOK DEF CreateReservation
  <1> QED BY <1>1 DEF CreateReservation, RequestedRow

\* What a change of status does: the row keeps everything else, and it takes
\* its slot again only if no other row holds it.
LEMMA StatusEffect ==
    ASSUME Inv, NEW r \in Requests,
           \/ \E customer \in Customers : Cancel(r, customer)
           \/ \E barber \in Barbers, status \in {"completed", "no_show"} :
                  UpdateStatus(r, barber, status)
    PROVE  \E status \in Statuses :
              /\ reservation[r] \in Reservation
              /\ reservation' = [reservation EXCEPT
                                    ![r] = [reservation[r] EXCEPT !.status = status]]
              /\ HoldsSlot(status) => ~Excluded(r, reservation[r].barber,
                                                reservation[r].start, reservation[r].end)
  <1>1. CASE \E customer \in Customers : Cancel(r, customer)
    <2>1. reservation[r] \in Reservation
      BY <1>1 DEF Cancel, Inv, TypeOK
    <2>2. "cancelled" \in Statuses /\ ~HoldsSlot("cancelled")
      BY DEF Statuses, HoldsSlot
    <2> QED BY <1>1, <2>1, <2>2 DEF Cancel, SetStatus, Inv, TypeOK
  <1>2. ASSUME NEW barber \in Barbers, NEW status \in {"completed", "no_show"},
               UpdateStatus(r, barber, status)
        PROVE  \E s \in Statuses :
                 /\ reservation[r] \in Reservation
                 /\ reservation' = [reservation EXCEPT
                                       ![r] = [reservation[r] EXCEPT !.status = s]]
                 /\ HoldsSlot(s) => ~Excluded(r, reservation[r].barber,
                                              reservation[r].start, reservation[r].end)
    <2>1. reservation[r] \in Reservation
      BY <1>2 DEF UpdateStatus, Inv, TypeOK
    <2>2. status \in Statuses
      BY DEF Statuses
    <2> QED BY <1>2, <2>1, <2>2 DEF UpdateStatus, SetStatus, Inv, TypeOK
  <1> QED BY <1>1, <1>2

\* A change of the row of r, to one whose slot is free if it holds it, keeps
\* the active rows of a barber disjoint.
LEMMA FreeRowKeepsDisjoint ==
    ASSUME Inv, NoDoubleBooking, NEW r \in Requests, NEW row \in Reservation,
           reservation' = [reservation EXCEPT ![r] = row],
           HoldsSlot(row.status) => ~Excluded(r, row.barber, row.start, row.end)
    PROVE  NoDoubleBooking'
  <1> SUFFICES ASSUME NEW p \in Requests, NEW q \in Requests, p # q,
                      Active(p)', Active(q)',
                      reservation'[p].barber = reservation'[q].barber
               PROVE  ~Overlaps(reservation'[p].start, reservation'[p].end,
                                reservation'[q].start, reservation'[q].end)
    BY DEF NoDoubleBooking
  <1>1. reservation \in [Requests -> Reservation \cup {Nil}]
    BY DEF Inv, TypeOK
  <1>2. CASE p = r
    BY <1>1, <1>2 DEF Excluded, Active, Overlaps
  <1>3. CASE q = r
    BY <1>1, <1>3 DEF Excluded, Active, Overlaps
  <1>4. CASE p # r /\ q # r
    BY <1>1, <1>4 DEF NoDoubleBooking, Active
  <1> QED BY <1>2, <1>3, <1>4

\* An insertion and a change of status pass the exclusion constraint; no other
\* step touches a row.
LEMMA NoDoubleBookingStep == Inv /\ NoDoubleBooking /\ [Next]_vars => NoDoubleBooking'
  <1> SUFFICES ASSUME Inv, NoDoubleBooking, [Next]_vars PROVE NoDoubleBooking'
    OBVIOUS
  <1>1. CASE UNCHANGED reservation
    BY <1>1 DEF NoDoubleBooking, Active
  <1>2. ASSUME NEW r \in Requests, CreateReservation(r) PROVE NoDoubleBooking'
    BY <1>2, InsertionEffect, FreeRowKeepsDisjoint
  <1>3. ASSUME NEW r \in Requests,
               \/ \E customer \in Customers : Cancel(r, customer)
               \/ \E barber \in Barbers, status \in {"completed", "no_show"} :
                      UpdateStatus(r, barber, status)
        PROVE  NoDoubleBooking'
    <2>1. PICK status \in Statuses :
              /\ reservation[r] \in Reservation
              /\ reservation' = [reservation EXCEPT
                                    ![r] = [reservation[r] EXCEPT !.status = status]]
              /\ HoldsSlot(status) => ~Excluded(r, reservation[r].barber,
                                                reservation[r].start, reservation[r].end)
      BY <1>3, StatusEffect
    <2> DEFINE row == [reservation[r] EXCEPT !.status = status]
    <2>2. /\ row \in Reservation /\ row.status = status
          /\ row.barber = reservation[r].barber
          /\ row.start = reservation[r].start /\ row.end = reservation[r].end
      BY <2>1 DEF Reservation
    <2>3. reservation' = [reservation EXCEPT ![r] = row]
      BY <2>1
    <2> HIDE DEF row
    <2> QED BY <2>1, <2>2, <2>3, FreeRowKeepsDisjoint
  <1> QED BY <1>1, <1>2, <1>3, ReservationWriters

\* No interleaving of bookings, cancellations, reports of visits and
\* configuration changes double-books a barber.
THEOREM DoubleBookingImpossible == Spec => []NoDoubleBooking
  <1>1. Init => NoDoubleBooking
    BY DEF Init, NoDoubleBooking, Active
  <1> QED BY <1>1, InvInit, InvStep, NoDoubleBookingStep, PTL DEF Spec

-----------------------------------------------------------------------------
(* One day, one tenant.                                                    *)

\* A window begins and ends on its date.
LEMMA WindowOnDay ==
    ASSUME NEW date \in Nat, NEW day,
           day.hours \in Rows \cup {Nil}, day.schedule \in Rows \cup {Nil},
           day.exception \in Rows \cup {Nil},
           HasWindow(date, day)
    PROVE  /\ WindowStart(date, day) \in Nat /\ WindowEnd(date, day) \in Nat
           /\ date <= WindowStart(date, day)
           /\ WindowEnd(date, day) <= date + DayLen
  <1>1. day.hours \in Row /\ Shift(day) \in Row
    BY BookingAssumption DEF HasWindow, IsOpen, Shift
  <1>2. /\ day.hours.start \in 0 .. DayLen /\ day.hours.end \in 0 .. DayLen
        /\ Shift(day).start \in 0 .. DayLen /\ Shift(day).end \in 0 .. DayLen
    BY <1>1 DEF Row
  <1> HIDE DEF Shift
  <1> QED BY <1>2, DayLenAssumption DEF WindowStart, WindowEnd, TimeOfDay, Later, Earlier

\* The interval of a request that reached the INSERT lies on one day.
LEMMA RequestWithinOneDay ==
    ASSUME Inv, NEW r \in Requests, pc[r] = "insert"
    PROVE  /\ form[r].start < RequestedEnd(r)
           /\ RequestedEnd(r) <= Midnight(form[r].start) + DayLen
  <1>1. form[r] \in Form /\ seen[r].minutes \in Durations
    BY DEF Inv, InFlightOK, Queries
  <1>2. form[r].start \in Instants
    BY <1>1 DEF Form
  <1>3. form[r].start \in Nat /\ Midnight(form[r].start) \in Nat
    BY <1>2, MidnightIsDate, BookingAssumption
  <1>4. seen[r].minutes \in Nat \ {0}
    BY <1>1, BookingAssumption
  <1>5. Contains(RequestedDate(r), seen[r], form[r].start, RequestedEnd(r))
    BY DEF Inv, InFlightOK
  <1>6. /\ seen[r].hours \in Rows \cup {Nil} /\ seen[r].schedule \in Rows \cup {Nil}
        /\ seen[r].exception \in Rows \cup {Nil}
    BY DEF Inv, TypeOK, Seen
  <1>7. WindowEnd(RequestedDate(r), seen[r]) \in Nat
        /\ WindowEnd(RequestedDate(r), seen[r]) <= RequestedDate(r) + DayLen
    BY <1>3, <1>5, <1>6, WindowOnDay DEF Contains, RequestedDate
  <1>8. form[r].start < RequestedEnd(r) /\ RequestedEnd(r) \in Nat
    BY <1>3, <1>4 DEF RequestedEnd
  <1>9. RequestedEnd(r) <= WindowEnd(RequestedDate(r), seen[r])
    BY <1>5 DEF Contains
  <1> QED BY <1>3, <1>7, <1>8, <1>9, DayLenAssumption DEF RequestedDate

\* What WithinOneDay and TenantConsistent say of one row.
RowWithinOneDay(row) ==
    /\ row.start < row.end
    /\ row.end <= Midnight(row.start) + DayLen

RowTenantConsistent(row) ==
    /\ row.shop = BarberShop[row.barber]
    /\ row.shop = ServiceShop[row.service]
    /\ ServiceFits(row.service, row.barber)

\* Every step keeps the day and the tenants of every row.
LEMMA RowsStep ==
    Inv /\ WithinOneDay /\ TenantConsistent /\ [Next]_vars
        => (WithinOneDay /\ TenantConsistent)'
  <1> SUFFICES ASSUME Inv, WithinOneDay, TenantConsistent, [Next]_vars
               PROVE  (WithinOneDay /\ TenantConsistent)'
    OBVIOUS
  <1>0. /\ WithinOneDay <=> \A r \in Requests : reservation[r] # Nil => RowWithinOneDay(reservation[r])
        /\ TenantConsistent <=> \A r \in Requests : reservation[r] # Nil => RowTenantConsistent(reservation[r])
        /\ WithinOneDay' <=> \A r \in Requests : reservation'[r] # Nil => RowWithinOneDay(reservation'[r])
        /\ TenantConsistent' <=> \A r \in Requests : reservation'[r] # Nil => RowTenantConsistent(reservation'[r])
    BY DEF WithinOneDay, TenantConsistent, RowWithinOneDay, RowTenantConsistent
  <1>1. CASE UNCHANGED reservation
    BY <1>0, <1>1
  <1>2. ASSUME NEW r \in Requests, CreateReservation(r)
        PROVE  (WithinOneDay /\ TenantConsistent)'
    <2>1. pc[r] = "insert"
      BY <1>2 DEF CreateReservation
    <2>2. RowWithinOneDay(RequestedRow(r))
      BY <2>1, RequestWithinOneDay DEF RowWithinOneDay, RequestedRow
    <2>3. RowTenantConsistent(RequestedRow(r))
      BY <2>1 DEF RowTenantConsistent, RequestedRow, Inv, InFlightOK, Queries
    <2>4. reservation' = [reservation EXCEPT ![r] = RequestedRow(r)]
      BY <1>2 DEF CreateReservation
    <2> QED BY <1>0, <2>2, <2>3, <2>4 DEF Inv, TypeOK
  <1>3. ASSUME NEW r \in Requests,
               \/ \E customer \in Customers : Cancel(r, customer)
               \/ \E barber \in Barbers, status \in {"completed", "no_show"} :
                      UpdateStatus(r, barber, status)
        PROVE  (WithinOneDay /\ TenantConsistent)'
    <2>1. PICK status \in Statuses :
              /\ reservation[r] \in Reservation
              /\ reservation' = [reservation EXCEPT
                                    ![r] = [reservation[r] EXCEPT !.status = status]]
      BY <1>3, StatusEffect
    <2> DEFINE row == [reservation[r] EXCEPT !.status = status]
    <2>2. reservation[r] # Nil
      BY <1>3 DEF Cancel, UpdateStatus
    <2>3. RowWithinOneDay(row) /\ RowTenantConsistent(row)
      BY <1>0, <2>1, <2>2 DEF RowWithinOneDay, RowTenantConsistent, Reservation
    <2> HIDE DEF row
    <2>4. reservation' = [reservation EXCEPT ![r] = row]
      BY <2>1 DEF row
    <2> QED BY <1>0, <2>3, <2>4 DEF Inv, TypeOK
  <1> QED BY <1>1, <1>2, <1>3, ReservationWriters

\* Every reservation lies on one local day, and its barber, shop and service
\* belong together, whatever changed while the request was handled.
THEOREM ReservationsConsistent == Spec => []WithinOneDay /\ []TenantConsistent
  <1>1. Init => WithinOneDay /\ TenantConsistent
    BY DEF Init, WithinOneDay, TenantConsistent
  <1> QED BY <1>1, InvInit, InvStep, RowsStep, PTL DEF Spec

-----------------------------------------------------------------------------
(* The offer.                                                              *)

\* A slot offered on a date, from whatever rows, lies on that date and runs
\* into no reservation of the barber, listed or not.
LEMMA OfferedSlot ==
    ASSUME TypeOK, WithinOneDay,
           NEW barber \in Barbers, NEW date \in Dates, NEW day,
           day.hours \in Rows \cup {Nil}, day.schedule \in Rows \cup {Nil},
           day.exception \in Rows \cup {Nil},
           NEW duration \in Durations,
           NEW start \in AvailableSlots(date, day, duration,
                                        ListForBarber(barber, date, date + DayLen))
    PROVE  /\ start \in date .. (date + DayLen - 1)
           /\ Contains(date, day, start, start + duration)
           /\ \A r \in Requests :
                 Active(r) /\ reservation[r].barber = barber =>
                    ~Overlaps(start, start + duration,
                              reservation[r].start, reservation[r].end)
  <1> DEFINE listed == ListForBarber(barber, date, date + DayLen)
             from == WindowStart(date, day)
             to == WindowEnd(date, day)
  <1>1. date \in Nat /\ date % DayLen = 0 /\ duration \in Nat \ {0}
    BY BookingAssumption
  <1>2. HasWindow(date, day)
    BY DEF AvailableSlots
  <1>3. from \in Nat /\ to \in Nat /\ date <= from /\ to <= date + DayLen
    BY <1>1, <1>2, WindowOnDay
  <1>4. start \in from .. (to - duration) /\ ~OverlapsAny(start, start + duration, listed)
    BY <1>2 DEF AvailableSlots
  <1>5. start \in Nat /\ date <= start /\ from <= start /\ start + duration <= to
    <2> HIDE DEF from, to
    <2> QED BY <1>1, <1>3, <1>4
  <1>6. start \in date .. (date + DayLen - 1)
    <2> HIDE DEF from, to
    <2> QED BY <1>1, <1>3, <1>5, DayLenAssumption
  <1>7. Contains(date, day, start, start + duration)
    BY <1>2, <1>5 DEF Contains
  <1>8. ASSUME NEW r \in Requests, Active(r), reservation[r].barber = barber
        PROVE  ~Overlaps(start, start + duration, reservation[r].start, reservation[r].end)
    <2> DEFINE s == reservation[r].start
               e == reservation[r].end
    <2>1. s \in Nat /\ e \in Nat
      BY <1>8 DEF Active, TypeOK, Reservation
    <2>2. e <= Midnight(s) + DayLen
      BY <1>8 DEF Active, WithinOneDay
    <2>3. CASE date <= s /\ s < date + DayLen
      <3>1. reservation[r] \in listed
        BY <1>8, <2>3 DEF ListForBarber, Active
      <3> QED BY <1>4, <1>8, <3>1 DEF OverlapsAny, Active
    <2>4. CASE s < date
      <3>1. Midnight(s) + DayLen <= date
        BY <1>1, <2>1, <2>4, DaysAreDisjoint
      <3>2. Midnight(s) \in Nat
        BY <2>1, MidnightBounds
      <3>3. e <= start
        <4> HIDE DEF s, e
        <4> QED BY <1>1, <1>5, <2>1, <2>2, <3>1, <3>2, DayLenAssumption
      <3> QED BY <1>5, <2>1, <3>3 DEF Overlaps
    <2>5. CASE date + DayLen <= s
      <3>1. start + duration <= s
        <4> HIDE DEF s, from, to
        <4> QED BY <1>1, <1>3, <1>5, <2>1, <2>5, DayLenAssumption
      <3> QED BY <1>1, <1>5, <2>1, <3>1 DEF Overlaps
    <2>6. \/ date <= s /\ s < date + DayLen
          \/ s < date
          \/ date + DayLen <= s
      BY <1>1, <2>1, DayLenAssumption
    <2> QED BY <2>3, <2>4, <2>5, <2>6
  <1> QED BY <1>6, <1>7, <1>8

\* An offer needs no more than the types and the days of the reservations.
LEMMA OfferFromInvariants == TypeOK /\ WithinOneDay => OfferedSlotsFree /\ OfferIsBookable
  <1> SUFFICES ASSUME TypeOK, WithinOneDay PROVE OfferedSlotsFree /\ OfferIsBookable
    OBVIOUS
  <1>1. OfferedSlotsFree
    BY OfferedSlot DEF OfferedSlotsFree, DayRowsOf
  <1>2. OfferIsBookable
    <2> SUFFICES ASSUME NEW shop \in Shops, NEW barber \in Barbers, NEW service \in Services,
                        NEW date \in Dates,
                        NEW start \in GetAvailability(shop, barber, service, date),
                        start > clock, active[barber]
                 PROVE  Bookable(barber, service, start)
      BY DEF OfferIsBookable
    <2> DEFINE day == LiveDay(shop, barber, date)
    <2>1. /\ BarberShop[barber] = shop /\ ServiceShop[service] = shop
          /\ ServiceFits(service, barber)
          /\ start \in AvailableSlots(date, day, minutes[service],
                                      ListForBarber(barber, date, date + DayLen))
      BY DEF GetAvailability
    <2>2. Weekday(date) \in Weekdays
      BY DEF Weekdays
    <2>3. /\ day.hours \in Rows \cup {Nil} /\ day.schedule \in Rows \cup {Nil}
          /\ day.exception \in Rows \cup {Nil} /\ minutes[service] \in Durations
      BY <2>2 DEF TypeOK, LiveDay
    <2> HIDE DEF day
    <2>4. /\ start \in date .. (date + DayLen - 1)
          /\ Contains(date, day, start, start + minutes[service])
          /\ \A r \in Requests :
                Active(r) /\ reservation[r].barber = barber =>
                   ~Overlaps(start, start + minutes[service],
                             reservation[r].start, reservation[r].end)
      BY <2>1, <2>3, OfferedSlot
    <2>5. Midnight(start) = date
      BY <2>4, MidnightOnDay, BookingAssumption
    <2>6. ~\E r \in Requests :
              /\ Active(r) /\ reservation[r].barber = barber
              /\ Overlaps(reservation[r].start, reservation[r].end,
                          start, start + minutes[service])
      BY <2>4 DEF Overlaps
    <2> QED BY <2>1, <2>4, <2>5, <2>6 DEF Bookable, day
  <1> QED BY <1>1, <1>2

\* Availability and booking agree for every schedule: no offered slot touches
\* an active reservation, and the booking handler would take every future slot
\* offered of an active barber.
THEOREM OfferAgreesWithBooking == Spec => []OfferedSlotsFree /\ []OfferIsBookable
  BY ReservationsConsistent, TypeCorrect, OfferFromInvariants, PTL

-----------------------------------------------------------------------------
(* What a step may never do.                                               *)

\* The checks of GetException hold of the live rows when the live rows are the
\* ones that were read.
LEMMA UnracedStep ==
    ASSUME Inv, [Next]_vars, NEW r \in Requests, Books(r), SeenIsLive(r)
    PROVE  /\ reservation'[r].end = reservation'[r].start + minutes[reservation'[r].service]
           /\ Contains(Midnight(reservation'[r].start),
                       LiveDay(reservation'[r].shop, reservation'[r].barber,
                               Midnight(reservation'[r].start)),
                       reservation'[r].start, reservation'[r].end)
  <1>1. CreateReservation(r)
    <2>1. ASSUME NEW q \in Requests, q # r, reservation' = [reservation EXCEPT ![q] = reservation'[q]]
          PROVE  FALSE
      BY <2>1 DEF Books, Inv, TypeOK
    <2>2. ASSUME NEW q \in Requests, CreateReservation(q)
          PROVE  CreateReservation(r)
      <3>1. reservation' = [reservation EXCEPT ![q] = reservation'[q]]
        BY <2>2 DEF CreateReservation, Inv, TypeOK
      <3> QED BY <2>1, <2>2, <3>1
    <2>3. ASSUME NEW q \in Requests,
                 \/ \E customer \in Customers : Cancel(q, customer)
                 \/ \E barber \in Barbers, status \in {"completed", "no_show"} :
                        UpdateStatus(q, barber, status)
          PROVE  FALSE
      <3>1. reservation' = [reservation EXCEPT ![q] = reservation'[q]]
        BY <2>3, StatusEffect DEF Inv, TypeOK
      <3>2. reservation[q] # Nil
        BY <2>3 DEF Cancel, UpdateStatus
      <3> QED BY <2>1, <3>1, <3>2 DEF Books
    <2> QED BY <2>2, <2>3, ReservationWriters DEF Books
  <1> DEFINE row == RequestedRow(r)
             date == RequestedDate(r)
             day == LiveDay(ServiceShop[form[r].service], form[r].barber, date)
  <1>2. reservation'[r] = row
    BY <1>1 DEF CreateReservation, Inv, TypeOK
  <1>3. /\ row.start = form[r].start /\ row.end = form[r].start + minutes[form[r].service]
        /\ row.barber = form[r].barber /\ row.service = form[r].service
        /\ row.shop = ServiceShop[form[r].service]
        /\ row.end = RequestedEnd(r)
    BY DEF RequestedRow, RequestedEnd, SeenIsLive
  <1>4. Contains(date, seen[r], form[r].start, RequestedEnd(r))
    BY <1>1 DEF CreateReservation, Inv, InFlightOK
  <1>5. /\ seen[r].hours = day.hours /\ seen[r].schedule = day.schedule
        /\ seen[r].exception = day.exception
    BY DEF SeenIsLive
  <1>6. Contains(date, day, form[r].start, RequestedEnd(r))
    <2> HIDE DEF day, date
    <2> QED BY <1>4, <1>5 DEF Contains, HasWindow, WindowStart, WindowEnd, Shift
  <1> HIDE DEF row
  <1> QED BY <1>2, <1>3, <1>6 DEF RequestedDate

\* A booking that raced with no configuration change fits the live rules.
THEOREM UnracedBookingsFit == Spec => UnracedBookingIsValid
  <1>1. Inv /\ [Next]_vars =>
          [\A r \in Requests : Books(r) /\ SeenIsLive(r) =>
              LET row == reservation'[r]
                  date == Midnight(row.start)
              IN  /\ row.end = row.start + minutes[row.service]
                  /\ Contains(date, LiveDay(row.shop, row.barber, date), row.start, row.end)]_vars
    BY UnracedStep
  <1> QED BY <1>1, InvInit, InvStep, PTL DEF Spec, UnracedBookingIsValid

-----------------------------------------------------------------------------
(* Booking implements the calendar.                                        *)

\* A row that is free of exclusion is free in the calendar.
LEMMA FreeInCalendar ==
    ASSUME TypeOK, NEW r \in Requests, NEW row,
           ~Excluded(r, row.barber, row.start, row.end)
    PROVE  \A q \in Requests \ {r} :
              /\ CalendarEntry(q) # Nil /\ CalendarEntry(q).held
              /\ CalendarEntry(q).barber = row.barber
              => ~(CalendarEntry(q).start < row.end /\ row.start < CalendarEntry(q).end)
  BY DEF Excluded, CalendarEntry, Overlaps

\* The calendar of the tables.
TheCalendar == [r \in Requests |-> CalendarEntry(r)]

\* A step that changes the row of r changes the entry of r only.
LEMMA OneEntryChanges ==
    ASSUME TypeOK, NEW r \in Requests, NEW row,
           reservation' = [reservation EXCEPT ![r] = row]
    PROVE  /\ TheCalendar' = [TheCalendar EXCEPT ![r] = TheCalendar'[r]]
           /\ TheCalendar'[r] = CalendarEntry(r)'
           /\ reservation'[r] = row
  BY DEF TheCalendar, CalendarEntry, TypeOK

\* An insertion books a free entry.
LEMMA CalendarInsertion ==
    ASSUME Inv, NEW r \in Requests, CreateReservation(r)
    PROVE  Promise!Book(r)
  <1> DEFINE row == RequestedRow(r)
  <1>1. /\ reservation' = [reservation EXCEPT ![r] = row] /\ row \in Reservation
        /\ ~Excluded(r, row.barber, row.start, row.end)
    BY InsertionEffect
  <1>2. row # Nil /\ row.status = "pending" /\ row.start < row.end
    <2>1. row # Nil
      BY <1>1, NilIsNoReservation
    <2>2. row.status = "pending" /\ row.start < row.end
      BY RequestWithinOneDay DEF CreateReservation, RequestedRow
    <2> QED BY <2>1, <2>2
  <1>3. reservation[r] = Nil
    BY DEF CreateReservation, Inv, InFlightOK, Queries
  <1> HIDE DEF row
  <1>4. /\ TheCalendar' = [TheCalendar EXCEPT ![r] = TheCalendar'[r]]
        /\ TheCalendar'[r] = CalendarEntry(r)' /\ reservation'[r] = row
    BY <1>1, OneEntryChanges DEF Inv
  <1>5. CalendarEntry(r)' = [barber |-> row.barber, start |-> row.start,
                             end |-> row.end, held |-> TRUE]
    BY <1>2, <1>4 DEF CalendarEntry, HoldsSlot
  <1>6. TheCalendar[r] = Nil
    BY <1>3 DEF TheCalendar, CalendarEntry
  <1>7. TheCalendar'[r] \in Promise!Entry
    BY <1>1, <1>4, <1>5 DEF Promise!Entry, Reservation
  <1>8. Promise!Free(r, TheCalendar'[r])
    BY <1>1, <1>4, <1>5, FreeInCalendar DEF Inv, Promise!Free, TheCalendar
  <1> QED BY <1>2, <1>4, <1>5, <1>6, <1>7, <1>8 DEF Promise!Book, TheCalendar

\* Only the last field of an entry changes.
LEMMA HeldEntry ==
    ASSUME NEW old \in Promise!Entry
    PROVE  \A v \in BOOLEAN :
             [barber |-> old.barber, start |-> old.start, end |-> old.end, held |-> v]
                = [old EXCEPT !.held = v]
  BY DEF Promise!Entry

\* A change of status releases the entry, takes it back, or leaves it as it is.
LEMMA CalendarStatusChange ==
    ASSUME Inv, NEW r \in Requests, NEW status \in Statuses,
           reservation[r] \in Reservation,
           reservation' = [reservation EXCEPT
                              ![r] = [reservation[r] EXCEPT !.status = status]],
           HoldsSlot(status) => ~Excluded(r, reservation[r].barber,
                                          reservation[r].start, reservation[r].end)
    PROVE  Promise!Release(r) \/ Promise!Retake(r)
  <1> DEFINE row == [reservation[r] EXCEPT !.status = status]
             old == reservation[r]
             c == TheCalendar[r]
  <1>1. /\ row \in Reservation /\ row.status = status /\ row.barber = old.barber
        /\ row.start = old.start /\ row.end = old.end
    BY DEF Reservation
  <1>2. row # Nil /\ old # Nil
    BY <1>1, NilIsNoReservation
  <1>3. reservation' = [reservation EXCEPT ![r] = row]
    OBVIOUS
  <1> HIDE DEF row
  <1>4. /\ TheCalendar' = [TheCalendar EXCEPT ![r] = TheCalendar'[r]]
        /\ TheCalendar'[r] = CalendarEntry(r)' /\ reservation'[r] = row
    BY <1>3, OneEntryChanges DEF Inv
  <1>5. TheCalendar'[r] = [barber |-> old.barber, start |-> old.start,
                           end |-> old.end, held |-> HoldsSlot(status)]
    BY <1>1, <1>2, <1>4 DEF CalendarEntry
  <1>6. TheCalendar[r] = [barber |-> old.barber, start |-> old.start,
                          end |-> old.end, held |-> HoldsSlot(old.status)]
    BY <1>2 DEF TheCalendar, CalendarEntry
  <1>7. TheCalendar[r] \in Promise!Entry
    BY <1>6 DEF Promise!Entry, Reservation, HoldsSlot
  <1>8. TheCalendar[r] # Nil
    BY <1>7, NilIsNoEntry
  <1>held. PICK h : TheCalendar[r] = [barber |-> old.barber, start |-> old.start,
                                    end |-> old.end, held |-> h]
    BY <1>6, Zenon
  <1>9. HoldsSlot(status) \in BOOLEAN
    BY DEF HoldsSlot
  <1>10. CASE ~HoldsSlot(status)
    <2>0. TheCalendar'[r] = [barber |-> old.barber, start |-> old.start,
                             end |-> old.end, held |-> FALSE]
      <3>1. HoldsSlot(status) = FALSE
        BY <1>9, <1>10
      <3> QED BY <1>5, <3>1, Zenon
    <2>1. TheCalendar'[r] = [TheCalendar[r] EXCEPT !.held = FALSE]
      <3>1. [barber |-> c.barber, start |-> c.start, end |-> c.end, held |-> FALSE]
              = [c EXCEPT !.held = FALSE]
        BY <1>7, HeldEntry, Zenon
      <3>2. c.barber = old.barber /\ c.start = old.start /\ c.end = old.end
        BY <1>held
      <3> QED BY <2>0, <3>1, <3>2, Zenon
    <2> QED BY <1>4, <1>8, <2>1 DEF Promise!Release, TheCalendar
  <1>11. CASE HoldsSlot(status)
    <2>0. TheCalendar'[r] = [barber |-> old.barber, start |-> old.start,
                             end |-> old.end, held |-> TRUE]
      <3>1. HoldsSlot(status) = TRUE
        BY <1>9, <1>11
      <3> QED BY <1>5, <3>1, Zenon
    <2>1. TheCalendar'[r] = [TheCalendar[r] EXCEPT !.held = TRUE]
      <3>1. [barber |-> c.barber, start |-> c.start, end |-> c.end, held |-> TRUE]
              = [c EXCEPT !.held = TRUE]
        BY <1>7, HeldEntry, Zenon
      <3>2. c.barber = old.barber /\ c.start = old.start /\ c.end = old.end
        BY <1>held
      <3> QED BY <2>0, <3>1, <3>2, Zenon
    <2>2. Promise!Free(r, TheCalendar[r])
      BY <1>6, <1>11, FreeInCalendar DEF Inv, Promise!Free, TheCalendar
    <2> QED BY <1>4, <1>8, <2>1, <2>2 DEF Promise!Retake, TheCalendar
  <1> QED BY <1>10, <1>11

\* Booking implements the abstract calendar: every step books a free slot,
\* releases one, takes one back while it is free, or changes no entry.
THEOREM BookingImplementsCalendar == Spec => ImplementsCalendar
  <1>1. Init => Promise!Init
    BY DEF Init, Promise!Init, CalendarEntry
  <1>2. Inv /\ [Next]_vars => [Promise!Next]_TheCalendar
    <2> SUFFICES ASSUME Inv, [Next]_vars PROVE Promise!Next \/ UNCHANGED TheCalendar
      OBVIOUS
    <2>1. CASE UNCHANGED reservation
      BY <2>1 DEF TheCalendar, CalendarEntry
    <2>2. ASSUME NEW r \in Requests, CreateReservation(r) PROVE Promise!Next
      BY <2>2, CalendarInsertion DEF Promise!Next
    <2>3. ASSUME NEW r \in Requests,
                 \/ \E customer \in Customers : Cancel(r, customer)
                 \/ \E barber \in Barbers, status \in {"completed", "no_show"} :
                        UpdateStatus(r, barber, status)
          PROVE  Promise!Next
      BY <2>3, StatusEffect, CalendarStatusChange DEF Promise!Next
    <2> QED BY <2>1, <2>2, <2>3, ReservationWriters
  <1> QED BY <1>1, <1>2, InvInit, InvStep, PTL
          DEF Spec, ImplementsCalendar, Promise!Spec, TheCalendar
=============================================================================
