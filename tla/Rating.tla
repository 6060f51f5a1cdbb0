--------------------------------- MODULE Rating ---------------------------------
(***************************************************************************)
(* POST /reservations/:id/rating: one transaction that locks the           *)
(* reservation, inserts the rating and recalculates the barber's aggregate,*)
(* next to other ratings and to changes of the reservation's status.       *)
(*                                                                         *)
(* PostgreSQL runs it under READ COMMITTED. Of that the model keeps: a row *)
(* lock is held to the end of the transaction and a statement that needs   *)
(* the row waits for it; what a transaction writes is seen by others when  *)
(* it commits; a statement reads the rows that were committed when it      *)
(* began. RecalculateAvgRating is one UPDATE whose subqueries read the     *)
(* ratings; it begins (and fixes what they read) before it waits for the   *)
(* lock of the profile row, and on waking up only that row is read again.  *)
(***************************************************************************)
EXTENDS Average, Functions

CONSTANTS
    Calls,          \* calls of POST /reservations/:id/rating
    Reservations,
    Barbers,
    Customers,
    BarberOf,       \* reservations.barber_id
    CustomerOf,     \* reservations.customer_id
    Scores,         \* scores given, within CHECK (score BETWEEN 1 AND 5)
    Nil

ASSUME RatingAssumption ==
    /\ IsFiniteSet(Reservations)
    /\ BarberOf \in [Reservations -> Barbers]
    /\ CustomerOf \in [Reservations -> Customers]
    /\ Scores \subseteq 1 .. 5
    /\ Nil \notin Int /\ Nil \notin Calls

VARIABLES
    status,         \* reservations.status
    rating,         \* the committed score of each reservation, or Nil
    profile,        \* the committed avg_rating (in hundredths) and rating_count
    reservationLock,    \* the transaction that holds the row, or Nil
    profileLock,
    pc,             \* the next statement of each call, or its answer
    form,           \* the body each call is working on
    snapshot        \* the ratings that each call's UPDATE of the profile aggregates

vars == <<status, rating, profile, reservationLock, profileLock, pc, form, snapshot>>

Statuses == {"pending", "confirmed", "completed", "cancelled", "no_show"}

Form == [reservation : Reservations, customer : Customers, score : Scores]

Statements == {"select", "insert", "recalculate", "update", "commit"}
Answers == {"rated", "refused", "already_rated", "error"}

\* Ratings of some reservations.
Ratings == UNION {[rated -> 1 .. 5] : rated \in SUBSET Reservations}

\* The committed ratings of a barber.
RatingsOf(barber) ==
    [r \in {q \in Reservations : BarberOf[q] = barber /\ rating[q] # Nil} |-> rating[r]]

BarberRated(c) == BarberOf[form[c].reservation]

-----------------------------------------------------------------------------

Init ==
    /\ status = [r \in Reservations |-> "pending"]
    /\ rating = [r \in Reservations |-> Nil]
    /\ profile = [b \in Barbers |-> Aggregate(NoRatings)]
    /\ reservationLock = [r \in Reservations |-> Nil]
    /\ profileLock = [b \in Barbers |-> Nil]
    /\ pc = [c \in Calls |-> "idle"]
    /\ form = [c \in Calls |-> Nil]
    /\ snapshot = [c \in Calls |-> NoRatings]

Proceed(c, statement) == pc' = [pc EXCEPT ![c] = statement]

\* The end of a transaction: its locks are released and its locals are gone.
End(c, answer) ==
    /\ pc' = [pc EXCEPT ![c] = answer]
    /\ form' = [form EXCEPT ![c] = Nil]
    /\ snapshot' = [snapshot EXCEPT ![c] = NoRatings]
    /\ reservationLock' = [r \in Reservations |->
                              IF reservationLock[r] = c THEN Nil ELSE reservationLock[r]]
    /\ profileLock' = [b \in Barbers |->
                          IF profileLock[b] = c THEN Nil ELSE profileLock[b]]

\* A mutated form of Rollback: the locks are not released.
RollbackForgotten(c, answer) ==
    /\ pc' = [pc EXCEPT ![c] = answer]
    /\ form' = [form EXCEPT ![c] = Nil]
    /\ snapshot' = [snapshot EXCEPT ![c] = NoRatings]
    /\ UNCHANGED <<status, rating, profile, reservationLock, profileLock>>

Rollback(c, answer) ==
    /\ End(c, answer)
    /\ UNCHANGED <<status, rating, profile>>

Receive(c, body) ==
    /\ pc[c] = "idle"
    /\ form' = [form EXCEPT ![c] = body]
    /\ Proceed(c, "select")
    /\ UNCHANGED <<status, rating, profile, reservationLock, profileLock, snapshot>>

\* A mutated form of LockReservation: a SELECT without FOR UPDATE.
SelectReservation(c) ==
    LET r == form[c].reservation IN
    /\ pc[c] = "select"
    /\ IF CustomerOf[r] = form[c].customer /\ status[r] = "completed"
       THEN /\ Proceed(c, "insert")
            /\ UNCHANGED <<status, rating, profile, reservationLock, profileLock, form, snapshot>>
       ELSE Rollback(c, "refused")

\* SELECT ... FROM reservations ... FOR UPDATE, and what is checked of the row.
\* The lock is kept until the transaction ends.
LockReservation(c) ==
    LET r == form[c].reservation IN
    /\ pc[c] = "select"
    /\ reservationLock[r] = Nil
    /\ IF CustomerOf[r] = form[c].customer /\ status[r] = "completed"
       THEN /\ reservationLock' = [reservationLock EXCEPT ![r] = c]
            /\ Proceed(c, "insert")
            /\ UNCHANGED <<status, rating, profile, profileLock, form, snapshot>>
       ELSE Rollback(c, "refused")

\* A mutated form of InsertRating: an upsert.
UpsertRating(c) ==
    /\ pc[c] = "insert"
    /\ Proceed(c, "recalculate")
    /\ UNCHANGED <<status, rating, profile, reservationLock, profileLock, form, snapshot>>

\* INSERT INTO ratings, under UNIQUE (reservation_id).
InsertRating(c) ==
    /\ pc[c] = "insert"
    /\ IF rating[form[c].reservation] = Nil
       THEN /\ Proceed(c, "recalculate")
            /\ UNCHANGED <<status, rating, profile, reservationLock, profileLock,
                           form, snapshot>>
       ELSE Rollback(c, "already_rated")

\* What a statement of the transaction sees: the committed ratings and its own.
VisibleRatings(c) ==
    LET own == form[c].reservation
        committed == RatingsOf(BarberRated(c))
    IN  [r \in DOMAIN committed \cup {own} |->
            IF r = own THEN form[c].score ELSE committed[r]]

\* A mutated form of BeginRecalculate: on a connection that does not see the
\* rating of the transaction.
RecalculateElsewhere(c) ==
    /\ pc[c] = "recalculate"
    /\ snapshot' = [snapshot EXCEPT ![c] = RatingsOf(BarberRated(c))]
    /\ Proceed(c, "update")
    /\ UNCHANGED <<status, rating, profile, reservationLock, profileLock, form>>

\* RecalculateAvgRating begins: its subqueries are fixed.
BeginRecalculate(c) ==
    /\ pc[c] = "recalculate"
    /\ snapshot' = [snapshot EXCEPT ![c] = VisibleRatings(c)]
    /\ Proceed(c, "update")
    /\ UNCHANGED <<status, rating, profile, reservationLock, profileLock, form>>

\* A mutated form of UpdateProfile: the UPDATE runs outside the transaction.
UpdateOutsideTransaction(c) ==
    /\ pc[c] = "update"
    /\ profileLock[BarberRated(c)] = Nil
    /\ profile' = [profile EXCEPT ![BarberRated(c)] = Aggregate(snapshot[c])]
    /\ Proceed(c, "commit")
    /\ UNCHANGED <<status, rating, reservationLock, profileLock, form, snapshot>>

\* It gets the lock of the profile row, and the new values are staged.
UpdateProfile(c) ==
    /\ pc[c] = "update"
    /\ profileLock[BarberRated(c)] = Nil
    /\ profileLock' = [profileLock EXCEPT ![BarberRated(c)] = c]
    /\ Proceed(c, "commit")
    /\ UNCHANGED <<status, rating, profile, reservationLock, form, snapshot>>

\* Rating and aggregate appear together; the answer may still be lost.
Commit(c) ==
    /\ pc[c] = "commit"
    /\ rating' = [rating EXCEPT ![form[c].reservation] = form[c].score]
    /\ profile' = [profile EXCEPT ![BarberRated(c)] = Aggregate(snapshot[c])]
    /\ \E answer \in {"rated", "error"} : End(c, answer)
    /\ UNCHANGED status

\* A statement fails, or the 5 second deadline passes: the deferred Rollback.
Abort(c) ==
    /\ pc[c] \in Statements
    /\ Rollback(c, "error")

Handle(c) ==
    \/ LockReservation(c) \/ InsertRating(c) \/ BeginRecalculate(c)
    \/ UpdateProfile(c) \/ Commit(c)

-----------------------------------------------------------------------------
(* The other writers of a reservation; each is one UPDATE, which waits for *)
(* the row. The constraint on overlapping slots may refuse one, which      *)
(* changes nothing.                                                        *)

\* A mutated form of UpdateStatus: a missed visit loses its rating, and the
\* aggregate keeps it.
ReportRetracts(r, newStatus) ==
    /\ reservationLock[r] = Nil
    /\ status' = [status EXCEPT ![r] = newStatus]
    /\ rating' = [rating EXCEPT ![r] = IF newStatus = "no_show" THEN Nil ELSE @]
    /\ UNCHANGED <<profile, reservationLock, profileLock, pc, form, snapshot>>

UpdateStatus(r, newStatus) ==
    /\ reservationLock[r] = Nil
    /\ status' = [status EXCEPT ![r] = newStatus]
    /\ UNCHANGED <<rating, profile, reservationLock, profileLock, pc, form, snapshot>>

Cancel(r) ==
    /\ reservationLock[r] = Nil
    /\ status[r] \in {"pending", "confirmed"}
    /\ status' = [status EXCEPT ![r] = "cancelled"]
    /\ UNCHANGED <<rating, profile, reservationLock, profileLock, pc, form, snapshot>>

-----------------------------------------------------------------------------

Next ==
    \/ \E c \in Calls, body \in Form : Receive(c, body)
    \/ \E c \in Calls : Handle(c) \/ Abort(c)
    \/ \E r \in Reservations, newStatus \in {"completed", "no_show"} :
            UpdateStatus(r, newStatus)
    \/ \E r \in Reservations : Cancel(r)

\* A call that can run its next statement runs it: each has a goroutine and a
\* connection of its own. No deadline is assumed to pass.
Fairness == \A c \in Calls : WF_vars(Handle(c))

Spec == Init /\ [][Next]_vars /\ Fairness

-----------------------------------------------------------------------------

TypeOK ==
    /\ status \in [Reservations -> Statuses]
    /\ rating \in [Reservations -> Scores \cup {Nil}]
    /\ profile \in [Barbers -> [count : Nat, avg : 0 .. 500]]
    /\ reservationLock \in [Reservations -> Calls \cup {Nil}]
    /\ profileLock \in [Barbers -> Calls \cup {Nil}]
    /\ pc \in [Calls -> {"idle"} \cup Statements \cup Answers]
    /\ form \in [Calls -> Form \cup {Nil}]
    /\ snapshot \in [Calls -> Ratings]

Commits(c) == pc[c] = "commit" /\ pc'[c] # "commit" /\ rating' # rating

\* A rating appears only on a reservation that is completed at that very
\* moment: the row lock keeps the barber from taking "completed" back between
\* the check of the status and the commit.
RatedWhileCompleted ==
    [][\A r \in Reservations :
          rating[r] = Nil /\ rating'[r] # Nil => status[r] = "completed"]_vars

\* A committed rating is final: no second call replaces it, however the calls
\* for one reservation interleave.
RatedOnce ==
    [][\A r \in Reservations : rating[r] # Nil => rating'[r] = rating[r]]_vars

\* The profile never shows a rating that was rolled back or is not committed:
\* it is the aggregate of some of the barber's committed ratings.
ProfileCountsCommitted ==
    \A b \in Barbers : \E counted \in SUBSET DOMAIN RatingsOf(b) :
        profile[b] = Aggregate(Restrict(RatingsOf(b), counted))

\* A lost rating is not lost for good: a rating whose UPDATE saw the ratings that
\* are committed now leaves the exact aggregate, its own rating included,
\* whatever the profile showed before.
RecalculationRepairs ==
    [][\A c \in Calls, b \in Barbers :
          /\ Commits(c) /\ b = BarberRated(c)
          /\ DOMAIN RatingsOf(b) \subseteq DOMAIN snapshot[c]
          =>
              profile'[b] = Aggregate(RatingsOf(b)')]_vars

\* Reservation first, profile second: no two calls wait for each other, and
\* every call is answered even if no deadline ever passes.
EveryCallAnswered == \A c \in Calls : pc[c] = "select" ~> pc[c] \in Answers

-----------------------------------------------------------------------------

Promise == INSTANCE RatingSpec

\* The transactions implement the promise: a completed visit is rated once, its
\* rating counts from that moment on, and a visit reported as missed later, by the
\* barber's UPDATE alone, leaves rating and aggregate as they are.
ImplementsRatings == Promise!Spec

-----------------------------------------------------------------------------

\* barber_repository.go: the recalculation runs in the transaction of the
\* INSERT "so the aggregate never drifts". Two ratings of one barber that
\* overlap each miss the other's, and the second UPDATE writes the smaller set.
AggregateNeverDrifts ==
    \A b \in Barbers : profile[b] = Aggregate(RatingsOf(b))
=============================================================================
