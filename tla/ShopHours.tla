-------------------------------- MODULE ShopHours --------------------------------
(***************************************************************************)
(* PUT /shops/:shopId/hours: one transaction with an upsert for each day   *)
(* of the body, in the order of the body. A row that an upsert has written *)
(* (or has inserted into the unique index) is held until the transaction   *)
(* ends; another upsert of that weekday waits for it. Two saves that list  *)
(* the days in different orders can wait for each other.                    *)
(*                                                                         *)
(* Rows of different shops never meet, so this is one shop.                *)
(***************************************************************************)
EXTENDS Integers, Sequences

CONSTANTS
    Calls,          \* calls of PUT /shops/:shopId/hours
    Weekdays,       \* CHECK (weekday BETWEEN 0 AND 6)
    Rows,           \* what a day of a body may say: closed, or two times
    Refused,        \* those with a time that TIME does not accept, "" among them
    Lists,          \* the bodies: lists of [weekday, row]
    Nil             \* no row

ASSUME HoursAssumption ==
    /\ Refused \subseteq Rows
    /\ Nil \notin Rows
    /\ Lists \subseteq Seq([weekday : Int, row : Rows])

VARIABLES
    hours,          \* shop_hours, by weekday
    pc,             \* where each call is
    form,           \* the body of each call
    applied,        \* how many days of it its transaction has written
    staged          \* the rows its transaction has written, and holds

vars == <<hours, pc, form, applied, staged>>

Answers == {"done", "error"}
NothingStaged == [weekday \in {} |-> Nil]

Promise == INSTANCE HoursSpec

-----------------------------------------------------------------------------

Init ==
    /\ hours = [weekday \in Weekdays |-> Nil]
    /\ pc = [c \in Calls |-> "idle"]
    /\ form = [c \in Calls |-> <<>>]
    /\ applied = [c \in Calls |-> 0]
    /\ staged = [c \in Calls |-> NothingStaged]

Receive(c, list) ==
    /\ pc[c] = "idle"
    /\ pc' = [pc EXCEPT ![c] = "upsert"]
    /\ form' = [form EXCEPT ![c] = list]
    /\ UNCHANGED <<hours, applied, staged>>

\* The transaction ends and lets go of its rows.
End(c, answer) ==
    /\ pc' = [pc EXCEPT ![c] = answer]
    /\ applied' = [applied EXCEPT ![c] = 0]
    /\ staged' = [staged EXCEPT ![c] = NothingStaged]
    /\ UNCHANGED form

Rollback(c) == End(c, "error") /\ UNCHANGED hours

HasDay(c) == applied[c] < Len(form[c])
NextDay(c) == form[c][applied[c] + 1]

\* Another save has written the row of the next day and has not ended.
RowBusy(c) == \E d \in Calls \ {c} : NextDay(c).weekday \in DOMAIN staged[d]

\* The columns of shop_hours take the day.
Fits(day) == day.weekday \in Weekdays /\ day.row \notin Refused

\* A mutated form of Upsert: it runs on the pool, not in the transaction.
UpsertOnPool(c) ==
    /\ pc[c] = "upsert" /\ HasDay(c)
    /\ ~RowBusy(c)
    /\ IF Fits(NextDay(c))
       THEN /\ hours' = [hours EXCEPT ![NextDay(c).weekday] = NextDay(c).row]
            /\ applied' = [applied EXCEPT ![c] = @ + 1]
            /\ UNCHANGED <<pc, form, staged>>
       ELSE Rollback(c)

\* INSERT ... ON CONFLICT (shop_id, weekday) DO UPDATE, of every column. A day
\* that the table does not accept fails the transaction.
Upsert(c) ==
    /\ pc[c] = "upsert" /\ HasDay(c)
    /\ ~RowBusy(c)
    /\ IF Fits(NextDay(c))
       THEN /\ staged' = [staged EXCEPT ![c] =
                             [weekday \in DOMAIN staged[c] \cup {NextDay(c).weekday} |->
                                 IF weekday = NextDay(c).weekday THEN NextDay(c).row
                                 ELSE staged[c][weekday]]]
            /\ applied' = [applied EXCEPT ![c] = @ + 1]
            /\ UNCHANGED <<hours, pc, form>>
       ELSE Rollback(c)

\* The answer may be lost.
Commit(c) ==
    /\ pc[c] = "upsert" /\ ~HasDay(c)
    /\ hours' = [weekday \in Weekdays |->
                     IF weekday \in DOMAIN staged[c] THEN staged[c][weekday] ELSE hours[weekday]]
    /\ \E answer \in Answers : End(c, answer)

\* A statement fails, or PostgreSQL breaks a deadlock.
Abort(c) == pc[c] = "upsert" /\ Rollback(c)

\* A mutated form of Deadline: a context without a timeout.
NoDeadline(c) == FALSE

\* The 5 seconds of the call are over while it waits for a row.
Deadline(c) == pc[c] = "upsert" /\ HasDay(c) /\ RowBusy(c) /\ Rollback(c)

Next ==
    \/ \E c \in Calls, list \in Lists : Receive(c, list)
    \/ \E c \in Calls : Upsert(c) \/ Commit(c) \/ Deadline(c) \/ Abort(c)

\* A save runs its next statement if it can, and its deadline passes if it only
\* ever waits. Nothing else is assumed to fail.
Fairness == \A c \in Calls : WF_vars(Upsert(c) \/ Commit(c) \/ Deadline(c))

Spec == Init /\ [][Next]_vars /\ Fairness

-----------------------------------------------------------------------------

\* The live rows are rows that the table accepts, and a transaction holds rows
\* that nobody else holds.
TypeOK ==
    /\ hours \in [Weekdays -> (Rows \ Refused) \cup {Nil}]
    /\ pc \in [Calls -> {"idle", "upsert"} \cup Answers]
    /\ form \in [Calls -> Lists \cup {<<>>}]
    /\ applied \in [Calls -> Nat]
    /\ DOMAIN staged = Calls
    /\ \A c \in Calls : /\ DOMAIN staged[c] \subseteq Weekdays
                       /\ staged[c] \in [DOMAIN staged[c] -> Rows \ Refused]

\* Saves appear whole, one after the other in the order of their commits: hours
\* that mix two owners' weeks, or half of a refused one, are never seen.
SavesAreAtomic == Promise!Spec

\* Every save is answered, two that wait for each other's row included.
EverySaveAnswered == \A c \in Calls : pc[c] = "upsert" ~> pc[c] \in Answers
=============================================================================
