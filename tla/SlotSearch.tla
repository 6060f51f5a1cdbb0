------------------------------- MODULE SlotSearch -------------------------------
(***************************************************************************)
(* The loop of availability.AvailableSlots as a state machine, on one      *)
(* arbitrary input: it walks the working window in steps of the            *)
(* granularity and keeps every start at which no reservation is in the way.*)
(***************************************************************************)
EXTENDS Availability

CONSTANTS
    Date,           \* the date asked for
    Rows,           \* rows of the three schedule tables
    Durations,      \* service durations
    Bookings        \* sets of reservations of the barber on that date

ASSUME InputAssumption ==
    /\ Date \in Nat /\ Date % DayLen = 0
    /\ Rows \subseteq Row
    /\ Durations \subseteq Nat \ {0}
    /\ \A bookings \in Bookings : \A r \in bookings :
            /\ r \in [start : Nat, end : Nat, status : Statuses]
            /\ r.start < r.end          \* CHECK (ends_at > starts_at)

VARIABLES
    in,             \* the Input struct
    pc,             \* "enter", "loop" or "done"
    start,          \* the loop variable
    slots           \* the starts collected so far

vars == <<in, pc, start, slots>>

Input == [day          : [hours     : Rows \cup {Nil},
                          schedule  : Rows \cup {Nil},
                          exception : Rows \cup {Nil}],
          minutes      : Durations,
          reservations : Bookings]

Init ==
    /\ in \in Input
    /\ pc = "enter"
    /\ start = Date
    /\ slots = {}

\* workingWindow: no window, no slot.
Enter ==
    /\ pc = "enter"
    /\ IF HasWindow(Date, in.day)
       THEN pc' = "loop" /\ start' = WindowStart(Date, in.day)
       ELSE pc' = "done" /\ UNCHANGED start
    /\ UNCHANGED <<in, slots>>

\* Mutated forms of Iterate, for the properties it must break: the search
\* steps by the service; it gives up at the first collision; it waits at a
\* collision.
IterateByService ==
    /\ pc = "loop"
    /\ start + in.minutes <= WindowEnd(Date, in.day)
    /\ slots' = IF OverlapsAny(start, start + in.minutes, in.reservations)
                THEN slots ELSE slots \cup {start}
    /\ start' = start + in.minutes
    /\ UNCHANGED <<in, pc>>

IterateUntilCollision ==
    /\ pc = "loop"
    /\ start + in.minutes <= WindowEnd(Date, in.day)
    /\ IF OverlapsAny(start, start + in.minutes, in.reservations)
       THEN pc' = "done" /\ UNCHANGED <<start, slots>>
       ELSE pc' = pc /\ slots' = slots \cup {start} /\ start' = start + Granularity
    /\ UNCHANGED in

IterateStuckAtCollision ==
    /\ pc = "loop"
    /\ start + in.minutes <= WindowEnd(Date, in.day)
    /\ IF OverlapsAny(start, start + in.minutes, in.reservations)
       THEN UNCHANGED <<start, slots>>
       ELSE slots' = slots \cup {start} /\ start' = start + Granularity
    /\ UNCHANGED <<in, pc>>

\* The loop condition holds: try the slot, step to the next.
Iterate ==
    /\ pc = "loop"
    /\ start + in.minutes <= WindowEnd(Date, in.day)
    /\ slots' = IF OverlapsAny(start, start + in.minutes, in.reservations)
                THEN slots ELSE slots \cup {start}
    /\ start' = start + Granularity
    /\ UNCHANGED <<in, pc>>

Exit ==
    /\ pc = "loop"
    /\ start + in.minutes > WindowEnd(Date, in.day)
    /\ pc' = "done"
    /\ UNCHANGED <<in, start, slots>>

Next == Enter \/ Iterate \/ Exit

\* The loop runs in one goroutine that nothing blocks.
Spec == Init /\ [][Next]_vars /\ WF_vars(Next)

-----------------------------------------------------------------------------

\* The walk stays on the day: no slot begins before or after it.
TypeOK ==
    /\ in \in Input
    /\ pc \in {"enter", "loop", "done"}
    /\ start \in Date .. (Date + DayLen + Granularity - 1)
    /\ slots \subseteq Date .. (Date + DayLen - 1)

\* The reference: the shop is open, the barber works and is not reserved at
\* the instant t.
Workable(t) ==
    /\ IsOpen(in.day.hours)
    /\ in.day.hours.start <= t - Date /\ t - Date < in.day.hours.end
    /\ IsOpen(Shift(in.day))
    /\ Shift(in.day).start <= t - Date /\ t - Date < Shift(in.day).end

Reserved(t) ==
    \E r \in in.reservations : HoldsSlot(r.status) /\ r.start <= t /\ t < r.end

\* The result is the pointwise one: every slot of the grid that begins with
\* the first workable instant of the day, all of whose instants are workable
\* and unreserved, and no other. A slot lost or gained at either end of the
\* window, or next to a reservation, breaks it.
SlotsAreExactlyTheFreeOnes ==
    pc = "done" =>
        slots = {s \in Date .. (Date + DayLen) :
                    /\ \A t \in s .. (s + in.minutes - 1) : Workable(t) /\ ~Reserved(t)
                    /\ \E first \in Date .. s :
                        /\ Workable(first)
                        /\ \A t \in Date .. (first - 1) : ~Workable(t)
                        /\ (s - first) % Granularity = 0}

\* The loop computes the set that the booking model uses for the offer.
SearchComputesAvailableSlots ==
    pc = "done" =>
        slots = AvailableSlots(Date, in.day, in.minutes, in.reservations)

\* The search ends: the granularity is positive, so the start leaves the window.
SearchEnds == <>(pc = "done")
=============================================================================
