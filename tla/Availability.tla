------------------------------ MODULE Availability ------------------------------
(***************************************************************************)
(* The pure rules of internal/availability: a barber's working window on a *)
(* date, the re-validation of one requested interval against it, and the   *)
(* slots offered inside it.                                                *)
(*                                                                         *)
(* Instants and times of day are numbers of one unit; a date is the        *)
(* instant of its local midnight, as the time.Time handed to timeOfDay is. *)
(* Days all have the same length: the program runs in Africa/Algiers,      *)
(* which has no daylight saving time.                                      *)
(***************************************************************************)
EXTENDS Integers

CONSTANTS
    DayLen,         \* length of a day
    Granularity,    \* distance of two consecutive slots (15 minutes)
    Nil             \* the absent row, the nil pointer

ASSUME DayLenAssumption == DayLen \in Nat \ {0}
ASSUME GranularityAssumption == Granularity \in Nat \ {0}

\* A row of shop_hours, work_schedules or schedule_exceptions: open (working)
\* from start to end. Nothing in the schema makes start precede end, and
\* '24:00' is a TIME, so an end may be the next midnight.
Row == [working : BOOLEAN, start : 0 .. DayLen, end : 0 .. DayLen]

ASSUME NilAssumption == Nil \notin Row /\ Nil \notin Int

\* What loadDaySchedule returns for one date.
DayRows == [hours     : Row \cup {Nil},
            schedule  : Row \cup {Nil},
            exception : Row \cup {Nil}]

Statuses == {"pending", "confirmed", "completed", "cancelled", "no_show"}

-----------------------------------------------------------------------------
(* Dates and times of day.                                                 *)

Midnight(instant) == instant - (instant % DayLen)
Weekday(date) == (date \div DayLen) % 7
TimeOfDay(date, tod) == date + tod

-----------------------------------------------------------------------------
(* The working window.                                                     *)

IsOpen(row) == row # Nil /\ row.working

\* A one-off exception replaces the weekly row, even when it is a day off.
Shift(day) == IF day.exception # Nil THEN day.exception ELSE day.schedule

Later(a, b) == IF b > a THEN b ELSE a
Earlier(a, b) == IF b < a THEN b ELSE a

WindowStart(date, day) ==
    Later(TimeOfDay(date, day.hours.start), TimeOfDay(date, Shift(day).start))

WindowEnd(date, day) ==
    Earlier(TimeOfDay(date, day.hours.end), TimeOfDay(date, Shift(day).end))

HasWindow(date, day) ==
    /\ IsOpen(day.hours)
    /\ IsOpen(Shift(day))
    /\ WindowStart(date, day) < WindowEnd(date, day)

\* A mutated form of Contains: only the start is compared with the window.
ContainsStart(date, day, start, end) ==
    /\ HasWindow(date, day)
    /\ WindowStart(date, day) <= start
    /\ start < WindowEnd(date, day)

\* The re-validation of a requested interval by the booking handler.
Contains(date, day, start, end) ==
    /\ HasWindow(date, day)
    /\ WindowStart(date, day) <= start
    /\ end <= WindowEnd(date, day)

-----------------------------------------------------------------------------
(* Reservations and slots.                                                 *)

HoldsSlot(status) == status \notin {"cancelled", "no_show"}

Overlaps(start1, end1, start2, end2) == start1 < end2 /\ start2 < end1

OverlapsAny(start, end, reservations) ==
    \E r \in reservations :
        HoldsSlot(r.status) /\ Overlaps(start, end, r.start, r.end)

\* A mutated form of AvailableSlots: a slot only has to begin in the window.
SlotsThatBegin(date, day, minutes, reservations) ==
    IF ~HasWindow(date, day) THEN {}
    ELSE {start \in WindowStart(date, day) .. (WindowEnd(date, day) - 1) :
            /\ (start - WindowStart(date, day)) % Granularity = 0
            /\ ~OverlapsAny(start, start + minutes, reservations)}

\* The starts of the offered slots; a slot is `minutes` long. SlotSearch
\* checks that this is what the loop of AvailableSlots computes.
AvailableSlots(date, day, minutes, reservations) ==
    IF ~HasWindow(date, day) THEN {}
    ELSE {start \in WindowStart(date, day) .. (WindowEnd(date, day) - minutes) :
            /\ (start - WindowStart(date, day)) % Granularity = 0
            /\ ~OverlapsAny(start, start + minutes, reservations)}
=============================================================================
