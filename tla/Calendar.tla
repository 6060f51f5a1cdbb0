-------------------------------- MODULE Calendar --------------------------------
(***************************************************************************)
(* What booking promises, without handlers, clocks, schedules or queries: a *)
(* calendar in which every entry has a fixed barber and a fixed interval,  *)
(* holds its slot or has given it up, and no two entries of a barber hold   *)
(* overlapping slots. Booking implements it (Booking!Promise).              *)
(***************************************************************************)
EXTENDS Integers

CONSTANTS
    Requests,   \* the entries there may be
    Barbers,
    Nil         \* an entry not made yet

VARIABLE entry

Entry == [barber : Barbers, start : Nat, end : Nat, held : BOOLEAN]

Init == entry = [r \in Requests |-> Nil]

\* No other entry holds a slot that overlaps the one of `row`.
Free(r, row) ==
    \A q \in Requests \ {r} :
        /\ entry[q] # Nil
        /\ entry[q].held
        /\ entry[q].barber = row.barber
        => ~(entry[q].start < row.end /\ row.start < entry[q].end)

\* A customer's request becomes an entry.
Book(r) ==
    /\ entry[r] = Nil
    /\ entry'[r] \in Entry
    /\ entry'[r].held
    /\ entry'[r].start < entry'[r].end
    /\ Free(r, entry'[r])
    /\ entry' = [entry EXCEPT ![r] = entry'[r]]

\* Cancelled, or the customer did not come.
Release(r) ==
    /\ entry[r] # Nil
    /\ entry' = [entry EXCEPT ![r].held = FALSE]

\* The barber reports a released entry as completed: same barber, same
\* interval, and only if nobody took the slot since.
Retake(r) ==
    /\ entry[r] # Nil
    /\ Free(r, entry[r])
    /\ entry' = [entry EXCEPT ![r].held = TRUE]

Next == \E r \in Requests : Book(r) \/ Release(r) \/ Retake(r)

Spec == Init /\ [][Next]_entry
=============================================================================
