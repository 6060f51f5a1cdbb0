------------------------------ MODULE RatingProofs ------------------------------
(***************************************************************************)
(* Proofs about Rating, for any number of calls, reservations, barbers and *)
(* customers.                                                              *)
(*                                                                         *)
(* Between the check of the status and the commit lie three statements of  *)
(* the transaction and any steps of others. Inductive says what the row    *)
(* lock keeps true meanwhile: the reservation stays completed and unrated, *)
(* and the ratings that the UPDATE aggregates are committed, or the own.   *)
(* Of the aggregate itself only TypeOK needs something: an average of      *)
(* scores is a score, because the ratings fall into five classes.          *)
(***************************************************************************)
EXTENDS Rating, FiniteSetTheorems, TLAPS

Types ==
    /\ status \in [Reservations -> Statuses]
    /\ rating \in [Reservations -> Scores \cup {Nil}]
    /\ DOMAIN profile = Barbers
    /\ reservationLock \in [Reservations -> Calls \cup {Nil}]
    /\ pc \in [Calls -> {"idle"} \cup Statements \cup Answers]
    /\ DOMAIN form = Calls /\ DOMAIN snapshot = Calls
    /\ \A c \in Calls : pc[c] \in Statements => form[c] \in Form

Checked == {"insert", "recalculate", "update", "commit"}
Inserted == {"recalculate", "update", "commit"}
Aggregated == {"update", "commit"}

\* A call past the check holds a reservation that is completed.
Holds(c) == pc[c] \in Checked =>
    /\ reservationLock[form[c].reservation] = c
    /\ status[form[c].reservation] = "completed"

\* A call past the INSERT works on a reservation without a committed rating.
First(c) == pc[c] \in Inserted => rating[form[c].reservation] = Nil

\* What an UPDATE aggregates: the own rating, and committed ones of the barber.
Truthful(c) == pc[c] \in Aggregated =>
    /\ form[c].reservation \in DOMAIN snapshot[c]
    /\ DOMAIN snapshot[c] \subseteq DOMAIN RatingsOf(BarberRated(c)) \cup {form[c].reservation}
    /\ snapshot[c] = [r \in DOMAIN snapshot[c] |->
                         IF r = form[c].reservation THEN form[c].score ELSE rating[r]]

Inductive ==
    /\ Types
    /\ \A c \in Calls : Holds(c) /\ First(c) /\ Truthful(c)

-----------------------------------------------------------------------------
(* The steps, by what they change.                                         *)

ReceiveStep(c) == \E body \in Form : Receive(c, body)

LockStep(c) ==
    /\ pc[c] = "select"
    /\ status[form[c].reservation] = "completed"
    /\ reservationLock[form[c].reservation] = Nil
    /\ reservationLock' = [reservationLock EXCEPT ![form[c].reservation] = c]
    /\ Proceed(c, "insert")
    /\ UNCHANGED <<status, rating, profile, profileLock, form, snapshot>>

InsertStep(c) ==
    /\ pc[c] = "insert"
    /\ rating[form[c].reservation] = Nil
    /\ Proceed(c, "recalculate")
    /\ UNCHANGED <<status, rating, profile, reservationLock, profileLock, form, snapshot>>

RollbackStep(c) ==
    /\ pc[c] \in Statements
    /\ \E answer \in Answers : Rollback(c, answer)

StatusStep(r) ==
    /\ reservationLock[r] = Nil
    /\ \E newStatus \in Statuses : status' = [status EXCEPT ![r] = newStatus]
    /\ UNCHANGED <<rating, profile, reservationLock, profileLock, pc, form, snapshot>>

\* A step of the specification is one of these.
LEMMA StepKinds ==
    ASSUME [Next]_vars
    PROVE  \/ \E c \in Calls : \/ ReceiveStep(c) \/ LockStep(c) \/ InsertStep(c)
                               \/ BeginRecalculate(c) \/ UpdateProfile(c) \/ Commit(c)
                               \/ RollbackStep(c)
           \/ \E r \in Reservations : StatusStep(r)
           \/ UNCHANGED vars
<1>1. ASSUME NEW c \in Calls, LockReservation(c) PROVE LockStep(c) \/ RollbackStep(c)
  <2> DEFINE ok == /\ CustomerOf[form[c].reservation] = form[c].customer
                   /\ status[form[c].reservation] = "completed"
  <2>1. CASE ok
    BY <1>1, <2>1 DEF LockReservation, LockStep
  <2>2. CASE ~ok
    BY <1>1, <2>2 DEF LockReservation, RollbackStep, Statements, Answers
  <2> QED
    BY <2>1, <2>2
<1>2. ASSUME NEW c \in Calls, InsertRating(c) PROVE InsertStep(c) \/ RollbackStep(c)
  <2>1. CASE rating[form[c].reservation] = Nil
    BY <1>2, <2>1 DEF InsertRating, InsertStep
  <2>2. CASE rating[form[c].reservation] # Nil
    BY <1>2, <2>2 DEF InsertRating, RollbackStep, Statements, Answers
  <2> QED
    BY <2>1, <2>2
<1>3. ASSUME NEW c \in Calls, Abort(c) PROVE RollbackStep(c)
  BY <1>3 DEF Abort, RollbackStep, Answers
<1>4. ASSUME NEW r \in Reservations, NEW newStatus \in {"completed", "no_show"},
             UpdateStatus(r, newStatus)
      PROVE  StatusStep(r)
  BY <1>4 DEF UpdateStatus, StatusStep, Statuses
<1>5. ASSUME NEW r \in Reservations, Cancel(r) PROVE StatusStep(r)
  BY <1>5 DEF Cancel, StatusStep, Statuses
<1> QED
  BY <1>1, <1>2, <1>3, <1>4, <1>5 DEF Next, Handle, ReceiveStep

-----------------------------------------------------------------------------
(* Inductive holds initially, and every step keeps each part of it.        *)

LEMMA InitInductive == Init => Inductive
  BY DEF Init, Inductive, Types, Holds, First, Truthful, Statuses, Statements,
         Checked, Inserted, Aggregated

LEMMA TypeStep == ASSUME Inductive, [Next]_vars PROVE Types'
<1> USE DEF Inductive, Statements
<1>1. ASSUME NEW c \in Calls, ReceiveStep(c) PROVE Types'
  BY <1>1 DEF ReceiveStep, Receive, Proceed, Types
<1>2. ASSUME NEW c \in Calls, LockStep(c) PROVE Types'
  <2>1. form[c].reservation \in Reservations
    BY <1>2 DEF LockStep, Types, Form
  <2> QED
    BY <1>2, <2>1 DEF LockStep, Proceed, Types
<1>3. ASSUME NEW c \in Calls, InsertStep(c) PROVE Types'
  BY <1>3 DEF InsertStep, Proceed, Types
<1>4. ASSUME NEW c \in Calls, BeginRecalculate(c) PROVE Types'
  BY <1>4 DEF BeginRecalculate, Proceed, Types
<1>5. ASSUME NEW c \in Calls, UpdateProfile(c) PROVE Types'
  BY <1>5 DEF UpdateProfile, Proceed, Types
<1>6. ASSUME NEW c \in Calls, Commit(c) PROVE Types'
  <2>1. form[c] \in Form
    BY <1>6 DEF Commit, Types
  <2>2. form[c].reservation \in Reservations /\ form[c].score \in Scores
    BY <2>1 DEF Form
  <2>3. rating' \in [Reservations -> Scores \cup {Nil}] /\ DOMAIN profile' = Barbers
    BY <1>6, <2>2 DEF Commit, Types
  <2> QED
    BY <1>6, <2>3 DEF Commit, End, Types, Answers
<1>7. ASSUME NEW c \in Calls, RollbackStep(c) PROVE Types'
  BY <1>7 DEF RollbackStep, Rollback, End, Types, Answers
<1>8. ASSUME NEW r \in Reservations, StatusStep(r) PROVE Types'
  BY <1>8 DEF StatusStep, Types
<1>9. CASE UNCHANGED vars
  BY <1>9 DEF vars, Types
<1> QED
  BY <1>1, <1>2, <1>3, <1>4, <1>5, <1>6, <1>7, <1>8, <1>9, StepKinds

\* The rows that calls past the check hold are different ones.
LEMMA ReservationsDiffer ==
    ASSUME Inductive, NEW c \in Calls, NEW e \in Calls, c # e,
           pc[c] \in Checked, pc[e] \in Checked
    PROVE  form[c].reservation # form[e].reservation
  BY DEF Inductive, Holds

LEMMA HoldsStep == ASSUME Inductive, [Next]_vars, NEW e \in Calls PROVE Holds(e)'
<1> USE DEF Inductive, Checked
<1>0. ASSUME pc'[e] = pc[e], form'[e] = form[e], pc[e] \in Checked,
             reservationLock'[form[e].reservation] = e,
             status'[form[e].reservation] = status[form[e].reservation]
      PROVE  Holds(e)'
  BY <1>0 DEF Holds
<1>00. ASSUME pc[e] \in Checked
       PROVE  /\ form[e].reservation \in Reservations
              /\ reservationLock[form[e].reservation] = e /\ e # Nil
              /\ status[form[e].reservation] = "completed"
  BY <1>00, RatingAssumption DEF Types, Form, Holds, Statements
<1>1. ASSUME NEW c \in Calls, ReceiveStep(c) PROVE Holds(e)'
  BY <1>1 DEF ReceiveStep, Receive, Proceed, Types, Holds
<1>2. ASSUME NEW c \in Calls, LockStep(c) PROVE Holds(e)'
  <2>1. form[c].reservation \in Reservations
    BY <1>2 DEF LockStep, Types, Form, Statements
  <2>2. CASE e # c
    BY <1>2, <1>0, <1>00, <2>1, <2>2 DEF LockStep, Proceed, Types, Holds
  <2>3. CASE e = c
    BY <1>2, <2>1, <2>3 DEF LockStep, Proceed, Types, Holds
  <2> QED
    BY <2>2, <2>3
<1>3. ASSUME NEW c \in Calls, InsertStep(c) PROVE Holds(e)'
  BY <1>3 DEF InsertStep, Proceed, Types, Holds
<1>4. ASSUME NEW c \in Calls, BeginRecalculate(c) PROVE Holds(e)'
  BY <1>4 DEF BeginRecalculate, Proceed, Types, Holds
<1>5. ASSUME NEW c \in Calls, UpdateProfile(c) PROVE Holds(e)'
  BY <1>5 DEF UpdateProfile, Proceed, Types, Holds
<1>6. ASSUME NEW c \in Calls, Commit(c) PROVE Holds(e)'
  <2>1. CASE e # c
    BY <1>6, <1>0, <1>00, <2>1 DEF Commit, Rollback, End, Types, Holds
  <2>2. CASE e = c
    BY <1>6, <2>2 DEF Commit, Rollback, End, Types, Holds, Answers
  <2> QED
    BY <2>1, <2>2
<1>7. ASSUME NEW c \in Calls, RollbackStep(c) PROVE Holds(e)'
  <2>1. CASE e # c
    BY <1>7, <1>0, <1>00, <2>1 DEF RollbackStep, Rollback, End, Types, Holds
  <2>2. CASE e = c
    BY <1>7, <2>2 DEF RollbackStep, Rollback, End, Types, Holds, Answers
  <2> QED
    BY <2>1, <2>2
<1>8. ASSUME NEW r \in Reservations, StatusStep(r) PROVE Holds(e)'
  BY <1>8, <1>0, <1>00 DEF StatusStep, Types, Holds
<1>9. CASE UNCHANGED vars
  BY <1>9 DEF vars, Holds
<1> QED
  BY <1>1, <1>2, <1>3, <1>4, <1>5, <1>6, <1>7, <1>8, <1>9, StepKinds

LEMMA FirstStep == ASSUME Inductive, [Next]_vars, NEW e \in Calls PROVE First(e)'
<1> USE DEF Inductive, Inserted
<1>1. ASSUME NEW c \in Calls, ReceiveStep(c) PROVE First(e)'
  BY <1>1 DEF ReceiveStep, Receive, Proceed, Types, First
<1>2. ASSUME NEW c \in Calls, LockStep(c) PROVE First(e)'
  BY <1>2 DEF LockStep, Proceed, Types, First
<1>3. ASSUME NEW c \in Calls, InsertStep(c) PROVE First(e)'
  BY <1>3 DEF InsertStep, Proceed, Types, First
<1>4. ASSUME NEW c \in Calls, BeginRecalculate(c) PROVE First(e)'
  BY <1>4 DEF BeginRecalculate, Proceed, Types, First
<1>5. ASSUME NEW c \in Calls, UpdateProfile(c) PROVE First(e)'
  BY <1>5 DEF UpdateProfile, Proceed, Types, First
<1>6. ASSUME NEW c \in Calls, Commit(c) PROVE First(e)'
  <2>1. CASE e # c
    <3>1. CASE pc[e] \in Inserted
      <4>1. form[c].reservation # form[e].reservation
        BY <1>6, <2>1, <3>1, ReservationsDiffer DEF Commit, Checked
      <4>2. form[e].reservation \in Reservations
        BY <3>1 DEF Types, Form, Statements
      <4> QED
        BY <1>6, <2>1, <4>1, <4>2 DEF Commit, End, Types, First
    <3>2. CASE pc[e] \notin Inserted
      BY <1>6, <2>1, <3>2 DEF Commit, End, Types, First
    <3> QED
      BY <3>1, <3>2
  <2>2. CASE e = c
    BY <1>6, <2>2 DEF Commit, End, Types, First
  <2> QED
    BY <2>1, <2>2
<1>7. ASSUME NEW c \in Calls, RollbackStep(c) PROVE First(e)'
  BY <1>7 DEF RollbackStep, Rollback, End, Types, First, Answers
<1>8. ASSUME NEW r \in Reservations, StatusStep(r) PROVE First(e)'
  BY <1>8 DEF StatusStep, First
<1>9. CASE UNCHANGED vars
  BY <1>9 DEF vars, First
<1> QED
  BY <1>1, <1>2, <1>3, <1>4, <1>5, <1>6, <1>7, <1>8, <1>9, StepKinds

\* A commit adds its own rating to those committed, and takes none away.
LEMMA CommitAdds ==
    ASSUME Inductive, NEW c \in Calls, Commit(c)
    PROVE  /\ form[c] \in Form /\ form[c].reservation \in Reservations
           /\ form[c].score \in Scores /\ form[c].score # Nil
           /\ rating[form[c].reservation] = Nil
           /\ rating'[form[c].reservation] = form[c].score
           /\ \A r \in Reservations \ {form[c].reservation} : rating'[r] = rating[r]
<1>1. form[c] \in Form
  BY DEF Inductive, Types, Commit, Statements
<1>2. form[c].reservation \in Reservations /\ form[c].score \in Scores
  BY <1>1 DEF Form
<1>3. form[c].score # Nil
  <2>1. Scores \subseteq 1 .. 5
    BY RatingAssumption, Zenon
  <2>2. ASSUME NEW n \in 1 .. 5 PROVE n \in Int
    OBVIOUS
  <2>3. form[c].score \in Int
    BY <1>2, <2>1, <2>2, Zenon
  <2> QED
    BY <2>3, RatingAssumption, Zenon
<1> QED
  BY <1>1, <1>2, <1>3 DEF Commit, Inductive, Types, First, Inserted

\* Ratings of a barber that are committed stay so.
LEMMA RatingsGrow ==
    ASSUME Inductive, NEW c \in Calls, Commit(c), NEW b \in Barbers
    PROVE  /\ DOMAIN RatingsOf(b) \subseteq (DOMAIN RatingsOf(b))'
           /\ \A r \in DOMAIN RatingsOf(b) : rating'[r] = rating[r]
  BY CommitAdds DEF RatingsOf

LEMMA TruthfulStep == ASSUME Inductive, [Next]_vars, NEW e \in Calls PROVE Truthful(e)'
<1> USE DEF Inductive, Aggregated
<1>0. ASSUME pc'[e] = pc[e], form'[e] = form[e], snapshot'[e] = snapshot[e], rating' = rating
      PROVE  Truthful(e)'
  BY <1>0 DEF Truthful, RatingsOf, BarberRated
<1>1. ASSUME NEW c \in Calls, ReceiveStep(c) PROVE Truthful(e)'
  <2>1. CASE e # c
    BY <1>1, <1>0, <2>1 DEF ReceiveStep, Receive, Proceed, Types
  <2>2. CASE e = c
    BY <1>1, <2>2 DEF ReceiveStep, Receive, Proceed, Types, Truthful
  <2> QED
    BY <2>1, <2>2
<1>2. ASSUME NEW c \in Calls, LockStep(c) PROVE Truthful(e)'
  <2>1. CASE e # c
    BY <1>2, <1>0, <2>1 DEF LockStep, Proceed, Types
  <2>2. CASE e = c
    BY <1>2, <2>2 DEF LockStep, Proceed, Types, Truthful
  <2> QED
    BY <2>1, <2>2
<1>3. ASSUME NEW c \in Calls, InsertStep(c) PROVE Truthful(e)'
  <2>1. CASE e # c
    BY <1>3, <1>0, <2>1 DEF InsertStep, Proceed, Types
  <2>2. CASE e = c
    BY <1>3, <2>2 DEF InsertStep, Proceed, Types, Truthful
  <2> QED
    BY <2>1, <2>2
<1>4. ASSUME NEW c \in Calls, BeginRecalculate(c) PROVE Truthful(e)'
  <2>1. CASE e # c
    BY <1>4, <1>0, <2>1 DEF BeginRecalculate, Proceed, Types
  <2>2. CASE e = c
    <3>1. form'[c] = form[c] /\ rating' = rating /\ snapshot'[c] = VisibleRatings(c)
      BY <1>4 DEF BeginRecalculate, Types
    <3>2. /\ DOMAIN VisibleRatings(c) =
                 DOMAIN RatingsOf(BarberRated(c)) \cup {form[c].reservation}
          /\ VisibleRatings(c) = [r \in DOMAIN VisibleRatings(c) |->
                 IF r = form[c].reservation THEN form[c].score ELSE rating[r]]
      BY DEF VisibleRatings, RatingsOf
    <3> QED
      BY <2>2, <3>1, <3>2 DEF Truthful, RatingsOf, BarberRated
  <2> QED
    BY <2>1, <2>2
<1>5. ASSUME NEW c \in Calls, UpdateProfile(c) PROVE Truthful(e)'
  <2>1. CASE e # c
    BY <1>5, <1>0, <2>1 DEF UpdateProfile, Proceed, Types
  <2>2. CASE e = c
    <3>1. /\ form'[c] = form[c] /\ rating' = rating /\ snapshot'[c] = snapshot[c]
          /\ pc[c] \in Aggregated
      BY <1>5 DEF UpdateProfile, Types
    <3> QED
      BY <2>2, <3>1 DEF Truthful, RatingsOf, BarberRated
  <2> QED
    BY <2>1, <2>2
<1>6. ASSUME NEW c \in Calls, Commit(c) PROVE Truthful(e)'
  <2>1. CASE e # c
    <3>1. pc'[e] = pc[e] /\ form'[e] = form[e] /\ snapshot'[e] = snapshot[e]
      BY <1>6, <2>1 DEF Commit, End, Types
    <3>2. CASE pc[e] \in Aggregated
      <4>1. Truthful(e) /\ form[e] \in Form
        BY <3>2 DEF Types, Statements
      <4>2. BarberRated(e) \in Barbers
        BY <4>1, RatingAssumption DEF BarberRated, Form
      <4>3. DOMAIN snapshot[e] \subseteq
                (DOMAIN RatingsOf(BarberRated(e)))' \cup {form[e].reservation}
        <5>1. PICK b \in Barbers : b = BarberRated(e)
          BY <4>2
        <5>2. DOMAIN RatingsOf(b) \subseteq (DOMAIN RatingsOf(b))'
          BY <1>6, RatingsGrow
        <5>3. BarberRated(e)' = b
          BY <3>1, <5>1 DEF BarberRated
        <5> QED
          BY <3>2, <4>1, <5>1, <5>2, <5>3 DEF Truthful
      <4>4. \A r \in DOMAIN snapshot[e] : r # form[e].reservation => rating'[r] = rating[r]
        <5>1. \A r \in DOMAIN snapshot[e] \ {form[e].reservation} :
                  r \in Reservations /\ rating[r] # Nil
          BY <3>2, <4>1 DEF Truthful, RatingsOf
        <5> QED
          BY <1>6, <5>1, CommitAdds
      <4>5. snapshot[e] = [r \in DOMAIN snapshot[e] |->
                 IF r = form[e].reservation THEN form[e].score ELSE rating'[r]]
        BY <3>2, <4>1, <4>4 DEF Truthful
      <4> QED
        BY <3>1, <3>2, <4>1, <4>3, <4>5 DEF Truthful
    <3>3. CASE pc[e] \notin Aggregated
      BY <3>1, <3>3 DEF Truthful
    <3> QED
      BY <3>2, <3>3
  <2>2. CASE e = c
    BY <1>6, <2>2 DEF Commit, End, Types, Truthful
  <2> QED
    BY <2>1, <2>2
<1>7. ASSUME NEW c \in Calls, RollbackStep(c) PROVE Truthful(e)'
  <2>1. CASE e # c
    BY <1>7, <1>0, <2>1 DEF RollbackStep, Rollback, End, Types
  <2>2. CASE e = c
    BY <1>7, <2>2 DEF RollbackStep, Rollback, End, Types, Truthful, Answers
  <2> QED
    BY <2>1, <2>2
<1>8. ASSUME NEW r \in Reservations, StatusStep(r) PROVE Truthful(e)'
  BY <1>8, <1>0 DEF StatusStep
<1>9. CASE UNCHANGED vars
  BY <1>9, <1>0 DEF vars
<1> QED
  BY <1>1, <1>2, <1>3, <1>4, <1>5, <1>6, <1>7, <1>8, <1>9, StepKinds

LEMMA InductiveStep == Inductive /\ [Next]_vars => Inductive'
<1> SUFFICES ASSUME Inductive, [Next]_vars PROVE Inductive'
  OBVIOUS
<1>1. Types'
  BY TypeStep
<1>2. ASSUME NEW e \in Calls PROVE Holds(e)' /\ First(e)' /\ Truthful(e)'
  BY HoldsStep, FirstStep, TruthfulStep
<1> QED
  BY <1>1, <1>2 DEF Inductive

LEMMA InductiveHolds == Spec => []Inductive
  BY InitInductive, InductiveStep, PTL DEF Spec

-----------------------------------------------------------------------------

\* Only a commit changes a rating, and only one.
LEMMA OnlyCommitsRate ==
    ASSUME Inductive, [Next]_vars, NEW r \in Reservations, rating'[r] # rating[r]
    PROVE  \E c \in Calls : Commit(c) /\ form[c].reservation = r
<1>1. \E c \in Calls : Commit(c)
  BY StepKinds DEF ReceiveStep, Receive, LockStep, InsertStep, BeginRecalculate, UpdateProfile,
                   RollbackStep, Rollback, StatusStep, vars
<1>2. PICK c \in Calls : Commit(c)
  BY <1>1
<1> QED
  BY <1>2, CommitAdds

\* A rating appears only on a reservation that is completed at that moment.
THEOREM RatingsOfVisits == Spec => RatedWhileCompleted
<1>1. ASSUME Inductive, [Next]_vars, NEW r \in Reservations, rating[r] = Nil, rating'[r] # Nil
      PROVE  status[r] = "completed"
  BY <1>1, OnlyCommitsRate DEF Inductive, Holds, Checked, Commit
<1>2. Inductive /\ [Next]_vars =>
          [\A r \in Reservations :
              rating[r] = Nil /\ rating'[r] # Nil => status[r] = "completed"]_vars
  BY <1>1
<1> QED
  BY <1>2, InductiveHolds, PTL DEF Spec, RatedWhileCompleted

\* A committed rating is final.
THEOREM RatingsFinal == Spec => RatedOnce
<1>1. ASSUME Inductive, [Next]_vars, NEW r \in Reservations, rating[r] # Nil
      PROVE  rating'[r] = rating[r]
  BY <1>1, OnlyCommitsRate, CommitAdds
<1>2. Inductive /\ [Next]_vars =>
          [\A r \in Reservations : rating[r] # Nil => rating'[r] = rating[r]]_vars
  BY <1>1
<1> QED
  BY <1>2, InductiveHolds, PTL DEF Spec, RatedOnce

-----------------------------------------------------------------------------
(* The profile.                                                            *)

\* What a commit aggregates are ratings that are committed with it.
LEMMA SnapshotCommitted ==
    ASSUME Inductive, NEW c \in Calls, Commit(c)
    PROVE  /\ BarberRated(c) \in Barbers
           /\ profile' = [profile EXCEPT ![BarberRated(c)] = Aggregate(snapshot[c])]
           /\ form[c].reservation \in DOMAIN snapshot[c]
           /\ DOMAIN snapshot[c] \subseteq
                  DOMAIN RatingsOf(BarberRated(c)) \cup {form[c].reservation}
           /\ \A r \in DOMAIN snapshot[c] : /\ r \in Reservations
                                            /\ BarberOf[r] = BarberRated(c)
                                            /\ rating'[r] # Nil
           /\ snapshot[c] = [r \in DOMAIN snapshot[c] |-> rating'[r]]
<1>1. /\ form[c].reservation \in DOMAIN snapshot[c]
      /\ DOMAIN snapshot[c] \subseteq
             DOMAIN RatingsOf(BarberRated(c)) \cup {form[c].reservation}
      /\ snapshot[c] = [r \in DOMAIN snapshot[c] |->
                           IF r = form[c].reservation THEN form[c].score ELSE rating[r]]
  BY DEF Inductive, Truthful, Aggregated, Commit
<1>2. BarberRated(c) \in Barbers
  BY CommitAdds, RatingAssumption DEF BarberRated
<1>3. \A r \in DOMAIN snapshot[c] : /\ r \in Reservations
                                    /\ BarberOf[r] = BarberRated(c)
                                    /\ rating'[r] # Nil
  BY <1>1, CommitAdds DEF RatingsOf, BarberRated
<1>4. \A r \in DOMAIN snapshot[c] :
          rating'[r] = IF r = form[c].reservation THEN form[c].score ELSE rating[r]
  BY <1>3, CommitAdds
<1>5. snapshot[c] = [r \in DOMAIN snapshot[c] |-> rating'[r]]
  BY <1>1, <1>4
<1> QED
  BY <1>1, <1>2, <1>3, <1>5 DEF Commit

\* What ProfileCountsCommitted says of one barber.
Counted(b) == \E counted \in SUBSET DOMAIN RatingsOf(b) :
    profile[b] = Aggregate(Restrict(RatingsOf(b), counted))

LEMMA CountedStep ==
    ASSUME Inductive, [Next]_vars, NEW b \in Barbers, Counted(b)
    PROVE  Counted(b)'
<1>1. ASSUME UNCHANGED <<rating, profile>> PROVE Counted(b)'
  BY <1>1 DEF Counted, RatingsOf
<1>2. ASSUME NEW c \in Calls, Commit(c) PROVE Counted(b)'
  <2>1. CASE b = BarberRated(c)
    <3> DEFINE now == [r \in {q \in Reservations : BarberOf[q] = b /\ rating'[q] # Nil} |->
                          rating'[r]]
    <3>1. DOMAIN snapshot[c] \in SUBSET DOMAIN now
      BY <1>2, <2>1, SnapshotCommitted
    <3>2. Restrict(now, DOMAIN snapshot[c]) = snapshot[c]
      <4>1. snapshot[c] = [r \in DOMAIN snapshot[c] |-> rating'[r]]
        BY <1>2, SnapshotCommitted
      <4>2. \A r \in DOMAIN snapshot[c] : now[r] = rating'[r]
        BY <3>1
      <4> HIDE DEF now
      <4> QED
        BY <4>1, <4>2 DEF Restrict
    <3>3. profile'[b] = Aggregate(snapshot[c])
      BY <1>2, <2>1, SnapshotCommitted DEF Inductive, Types
    <3>4. RatingsOf(b)' = now
      BY DEF RatingsOf
    <3> HIDE DEF now
    <3> QED
      BY <3>1, <3>2, <3>3, <3>4 DEF Counted
  <2>2. CASE b # BarberRated(c)
    <3>1. profile'[b] = profile[b]
      BY <1>2, <2>2, SnapshotCommitted DEF Inductive, Types
    <3>2. \A r \in Reservations : BarberOf[r] = b => rating'[r] = rating[r]
      BY <1>2, <2>2, CommitAdds DEF BarberRated
    <3>3. RatingsOf(b)' = RatingsOf(b)
      BY <3>2 DEF RatingsOf
    <3> QED
      BY <3>1, <3>3 DEF Counted
  <2> QED
    BY <2>1, <2>2
<1> QED
  BY <1>1, <1>2, StepKinds
  DEF ReceiveStep, Receive, LockStep, InsertStep, BeginRecalculate, UpdateProfile,
      RollbackStep, Rollback, StatusStep, vars

\* The profile aggregates committed ratings only, whatever is rolled back.
THEOREM ProfilesCount == Spec => []ProfileCountsCommitted
<1>1. Init => ProfileCountsCommitted
  <2> SUFFICES ASSUME Init, NEW b \in Barbers PROVE Counted(b)
    BY DEF ProfileCountsCommitted, Counted
  <2>1. Restrict(RatingsOf(b), {}) = NoRatings
    BY DEF Restrict, NoRatings
  <2>2. profile[b] = Aggregate(NoRatings)
    BY DEF Init
  <2> QED
    BY <2>1, <2>2 DEF Counted
<1>2. Inductive /\ ProfileCountsCommitted /\ [Next]_vars => ProfileCountsCommitted'
  BY CountedStep DEF ProfileCountsCommitted, Counted
<1> QED
  BY <1>1, <1>2, InductiveHolds, PTL DEF Spec

\* A call whose UPDATE saw all that is committed leaves the exact aggregate.
LEMMA RepairStep ==
    ASSUME Inductive, [Next]_vars, NEW c \in Calls, Commits(c),
           DOMAIN RatingsOf(BarberRated(c)) \subseteq DOMAIN snapshot[c]
    PROVE  profile'[BarberRated(c)] =
               Aggregate([r \in {q \in Reservations :
                                    BarberOf[q] = BarberRated(c) /\ rating'[q] # Nil} |->
                             rating'[r]])
<1>1. PICK d \in Calls : Commit(d)
  BY StepKinds DEF ReceiveStep, Receive, LockStep, InsertStep, BeginRecalculate, UpdateProfile,
                   RollbackStep, Rollback, StatusStep, vars, Commits
<1>2. d = c
  BY <1>1 DEF Commits, Commit, End, Inductive, Types
<1>3. {q \in Reservations : BarberOf[q] = BarberRated(c) /\ rating'[q] # Nil} =
          DOMAIN snapshot[c]
  <2>1. \A q \in Reservations : BarberOf[q] = BarberRated(c) /\ rating'[q] # Nil
            => q \in DOMAIN RatingsOf(BarberRated(c)) \/ q = form[c].reservation
    BY <1>1, <1>2, CommitAdds DEF RatingsOf
  <2>2. \A q \in DOMAIN snapshot[c] : /\ q \in Reservations
                                      /\ BarberOf[q] = BarberRated(c) /\ rating'[q] # Nil
    BY <1>1, <1>2, SnapshotCommitted
  <2>3. form[c].reservation \in DOMAIN snapshot[c]
    BY <1>1, <1>2, SnapshotCommitted
  <2> QED
    BY <2>1, <2>2, <2>3
<1> QED
  BY <1>1, <1>2, <1>3, SnapshotCommitted DEF Inductive, Types

\* Drift does not last: a rating that overlaps with no other makes the profile
\* exact again.
THEOREM DriftRepaired == Spec => RecalculationRepairs
<1>1. ASSUME Inductive, [Next]_vars
      PROVE  \A c \in Calls, b \in Barbers :
                /\ Commits(c) /\ b = BarberRated(c)
                /\ DOMAIN RatingsOf(b) \subseteq DOMAIN snapshot[c]
                => profile'[b] = Aggregate(RatingsOf(b)')
  <2> SUFFICES ASSUME NEW c \in Calls, NEW b \in Barbers, Commits(c), b = BarberRated(c),
                      DOMAIN RatingsOf(b) \subseteq DOMAIN snapshot[c]
               PROVE  profile'[b] = Aggregate(RatingsOf(b)')
    OBVIOUS
  <2>1. RatingsOf(b)' = [r \in {q \in Reservations : BarberOf[q] = b /\ rating'[q] # Nil} |->
                            rating'[r]]
    BY DEF RatingsOf
  <2> QED
    BY <1>1, <2>1, RepairStep
<1>2. Inductive /\ [Next]_vars =>
          [\A c \in Calls, b \in Barbers :
              /\ Commits(c) /\ b = BarberRated(c)
              /\ DOMAIN RatingsOf(b) \subseteq DOMAIN snapshot[c]
              => profile'[b] = Aggregate(RatingsOf(b)')]_vars
  BY <1>1
<1> QED
  BY <1>2, InductiveHolds, PTL DEF Spec, RecalculationRepairs

-----------------------------------------------------------------------------
(* The average.                                                            *)

\* A quotient of what is at most 500.5 times the divisor is at most 500.
LEMMA QuotientBound ==
    ASSUME NEW n \in Nat, n # 0, NEW x \in Nat, x <= 1001 * n
    PROVE  x \div (2 * n) \in 0 .. 500
<1> DEFINE g == 2 * n
           q == x \div g
<1>1. g \in Nat \ {0} /\ x \in Nat
  OBVIOUS
<1> HIDE DEF g
<1>2. x = g * q + (x % g) /\ q \in Int /\ x % g \in 0 .. (g - 1)
  BY <1>1, SMT
<1> HIDE DEF q
<1>3. g = 2 * n
  BY DEF g
<1>4. q >= 0
  <2> SUFFICES ASSUME q <= -1 PROVE FALSE
    BY <1>2
  <2>1. g * q <= g * (-1)
    BY <1>1, <1>2
  <2> QED
    BY <1>1, <1>2, <2>1
<1>5. q <= 500
  <2> SUFFICES ASSUME q >= 501 PROVE FALSE
    BY <1>2
  <2>1. g * q >= g * 501
    BY <1>1, <1>2
  <2> QED
    BY <1>1, <1>2, <1>3, <2>1
<1>6. q \in 0 .. 500
  BY <1>2, <1>4, <1>5
<1> QED
  BY <1>6 DEF q, g

\* Every rating is in one of the five classes that SumOf counts.
LEMMA ClassesCount ==
    ASSUME NEW ratings \in Ratings
    PROVE  /\ \A score \in 1 .. 5 : Given(ratings, score) \in Nat
           /\ Cardinality(DOMAIN ratings) =
                  Given(ratings, 1) + Given(ratings, 2) + Given(ratings, 3)
                      + Given(ratings, 4) + Given(ratings, 5)
<1> DEFINE S == DOMAIN ratings
           C(score) == {r \in S : ratings[r] = score}
<1>1. S \subseteq Reservations /\ ratings \in [S -> 1 .. 5]
  BY DEF Ratings
<1>2. IsFiniteSet(S)
  BY <1>1, RatingAssumption, FS_Subset
<1>3. \A T \in SUBSET S : IsFiniteSet(T) /\ Cardinality(T) \in Nat
  BY <1>2, FS_Subset, FS_CardinalityType
<1>4. ASSUME NEW T \in SUBSET S, NEW U \in SUBSET S, T \cap U = {}
      PROVE  Cardinality(T \cup U) = Cardinality(T) + Cardinality(U)
  <2>1. Cardinality(T \cup U) = Cardinality(T) + Cardinality(U) - Cardinality({})
    BY <1>3, <1>4, FS_Union
  <2> QED
    BY <1>3, <2>1, FS_EmptySet
<1>5. S = (((C(1) \cup C(2)) \cup C(3)) \cup C(4)) \cup C(5)
  <2>1. \A r \in S : ratings[r] \in 1 .. 5
    BY <1>1
  <2>2. \A r \in S : \/ ratings[r] = 1 \/ ratings[r] = 2 \/ ratings[r] = 3
                     \/ ratings[r] = 4 \/ ratings[r] = 5
    BY <2>1
  <2> QED
    BY <2>2
<1>6. Cardinality(C(1) \cup C(2)) = Cardinality(C(1)) + Cardinality(C(2))
  BY <1>4
<1>7. Cardinality((C(1) \cup C(2)) \cup C(3)) =
          Cardinality(C(1) \cup C(2)) + Cardinality(C(3))
  BY <1>4
<1>8. Cardinality(((C(1) \cup C(2)) \cup C(3)) \cup C(4)) =
          Cardinality((C(1) \cup C(2)) \cup C(3)) + Cardinality(C(4))
  BY <1>4
<1>9. Cardinality((((C(1) \cup C(2)) \cup C(3)) \cup C(4)) \cup C(5)) =
          Cardinality(((C(1) \cup C(2)) \cup C(3)) \cup C(4)) + Cardinality(C(5))
  BY <1>4
<1>10. \A score \in 1 .. 5 : Cardinality(C(score)) \in Nat /\ C(score) \subseteq S
  BY <1>3
<1>11. Cardinality(S) = Cardinality(C(1)) + Cardinality(C(2)) + Cardinality(C(3))
                            + Cardinality(C(4)) + Cardinality(C(5))
  BY <1>5, <1>6, <1>7, <1>8, <1>9
<1> QED
  BY <1>10, <1>11 DEF Given

\* An average of scores is a score in hundredths, or 0 where there is none.
LEMMA AggregateTyped ==
    ASSUME NEW ratings \in Ratings
    PROVE  Aggregate(ratings) \in [count : Nat, avg : 0 .. 500]
<1> DEFINE n == Cardinality(DOMAIN ratings)
           x == 200 * SumOf(ratings) + n
<1>1. /\ Given(ratings, 1) \in Nat /\ Given(ratings, 2) \in Nat /\ Given(ratings, 3) \in Nat
      /\ Given(ratings, 4) \in Nat /\ Given(ratings, 5) \in Nat
      /\ n = Given(ratings, 1) + Given(ratings, 2) + Given(ratings, 3)
                + Given(ratings, 4) + Given(ratings, 5)
  BY ClassesCount
<1>2. n \in Nat /\ SumOf(ratings) \in Nat /\ SumOf(ratings) <= 5 * n
  BY <1>1 DEF SumOf
<1> HIDE DEF n
<1>3. x \in Nat /\ x <= 1001 * n
  BY <1>2
<1>4. n # 0 => x \div (2 * n) \in 0 .. 500
  BY <1>2, <1>3, QuotientBound
<1>5. (IF n = 0 THEN 0 ELSE x \div (2 * n)) \in 0 .. 500
  BY <1>4
<1> QED
  BY <1>2, <1>5 DEF Aggregate, n

-----------------------------------------------------------------------------
(* TypeOK.                                                                 *)

LEMMA VisibleTyped ==
    ASSUME Inductive, NEW c \in Calls, pc[c] = "recalculate"
    PROVE  VisibleRatings(c) \in Ratings
<1>1. form[c] \in Form
  BY DEF Inductive, Types, Statements
<1>2. form[c].reservation \in Reservations /\ form[c].score \in Scores
  BY <1>1 DEF Form
<1>3. \A r \in DOMAIN RatingsOf(BarberRated(c)) :
          r \in Reservations /\ RatingsOf(BarberRated(c))[r] \in Scores
  BY DEF RatingsOf, Inductive, Types
<1>4. Scores \subseteq 1 .. 5
  BY RatingAssumption
<1> DEFINE S == DOMAIN RatingsOf(BarberRated(c)) \cup {form[c].reservation}
<1>5. VisibleRatings(c) \in [S -> 1 .. 5] /\ S \in SUBSET Reservations
  BY <1>2, <1>3, <1>4 DEF VisibleRatings
<1> QED
  BY <1>5 DEF Ratings

\* What TypeOK says beyond Types.
Typed ==
    /\ profile \in [Barbers -> [count : Nat, avg : 0 .. 500]]
    /\ profileLock \in [Barbers -> Calls \cup {Nil}]
    /\ form \in [Calls -> Form \cup {Nil}]
    /\ snapshot \in [Calls -> Ratings]

LEMMA EmptyTyped == NoRatings \in Ratings
<1>1. NoRatings \in [{} -> 1 .. 5]
  BY DEF NoRatings
<1> QED
  BY <1>1 DEF Ratings

LEMMA TypedStep == ASSUME Inductive, Typed, [Next]_vars PROVE Typed'
<1>1. ASSUME NEW c \in Calls, ReceiveStep(c) PROVE Typed'
  BY <1>1 DEF ReceiveStep, Receive, Typed
<1>2. ASSUME NEW c \in Calls, LockStep(c) PROVE Typed'
  BY <1>2 DEF LockStep, Typed
<1>3. ASSUME NEW c \in Calls, InsertStep(c) PROVE Typed'
  BY <1>3 DEF InsertStep, Typed
<1>4. ASSUME NEW c \in Calls, BeginRecalculate(c) PROVE Typed'
  BY <1>4, VisibleTyped DEF BeginRecalculate, Typed
<1>5. ASSUME NEW c \in Calls, UpdateProfile(c) PROVE Typed'
  BY <1>5 DEF UpdateProfile, Typed
<1>6. ASSUME NEW c \in Calls, Commit(c) PROVE Typed'
  <2>1. Aggregate(snapshot[c]) \in [count : Nat, avg : 0 .. 500]
    BY AggregateTyped DEF Typed
  <2>2. profile' \in [Barbers -> [count : Nat, avg : 0 .. 500]]
    BY <1>6, <2>1, SnapshotCommitted DEF Typed
  <2> QED
    BY <1>6, <2>2, EmptyTyped DEF Commit, End, Typed
<1>7. ASSUME NEW c \in Calls, RollbackStep(c) PROVE Typed'
  BY <1>7, EmptyTyped DEF RollbackStep, Rollback, End, Typed
<1>8. ASSUME NEW r \in Reservations, StatusStep(r) PROVE Typed'
  BY <1>8 DEF StatusStep, Typed
<1>9. CASE UNCHANGED vars
  BY <1>9 DEF vars, Typed
<1> QED
  BY <1>1, <1>2, <1>3, <1>4, <1>5, <1>6, <1>7, <1>8, <1>9, StepKinds

LEMMA TypedHolds == Spec => []Typed
<1>1. Init => Typed
  BY EmptyTyped, AggregateTyped DEF Init, Typed
<1>2. Inductive /\ Typed /\ [Next]_vars => Typed'
  BY TypedStep
<1> QED
  BY <1>1, <1>2, InductiveHolds, PTL DEF Spec

\* Every variable keeps its type; the average of a profile lies between 0 and 5,
\* as NUMERIC(3,2) needs.
THEOREM RatingTyped == Spec => []TypeOK
<1>1. Inductive /\ Typed => TypeOK
  BY DEF Inductive, Types, Typed, TypeOK
<1> QED
  BY <1>1, InductiveHolds, TypedHolds, PTL

-----------------------------------------------------------------------------
(* Waiting.                                                                *)

\* A lock belongs to a call that is at work behind it.
Locked ==
    /\ \A r \in Reservations, d \in Calls : reservationLock[r] = d =>
          pc[d] \in Checked /\ form[d].reservation = r
    /\ \A b \in Barbers, d \in Calls : profileLock[b] = d =>
          pc[d] = "commit" /\ BarberRated(d) = b

LEMMA LockedStep == ASSUME Inductive, Typed, Locked, [Next]_vars PROVE Locked'
<1> USE DEF Inductive, Checked
<1>0. ASSUME NEW r \in Reservations, NEW d \in Calls, reservationLock[r] = d
      PROVE  pc[d] \in Checked /\ form[d].reservation = r /\ d # Nil
  BY <1>0, RatingAssumption DEF Locked
<1>00. ASSUME NEW b \in Barbers, NEW d \in Calls, profileLock[b] = d
       PROVE  pc[d] = "commit" /\ BarberRated(d) = b /\ d # Nil
  BY <1>00, RatingAssumption DEF Locked
<1>1. ASSUME NEW c \in Calls, ReceiveStep(c) PROVE Locked'
  BY <1>1, <1>0, <1>00 DEF ReceiveStep, Receive, Proceed, Types, Locked, BarberRated
<1>2. ASSUME NEW c \in Calls, LockStep(c) PROVE Locked'
  BY <1>2, <1>0, <1>00 DEF LockStep, Proceed, Types, Locked, BarberRated
<1>3. ASSUME NEW c \in Calls, InsertStep(c) PROVE Locked'
  BY <1>3, <1>0, <1>00 DEF InsertStep, Proceed, Types, Locked, BarberRated
<1>4. ASSUME NEW c \in Calls, BeginRecalculate(c) PROVE Locked'
  BY <1>4, <1>0, <1>00 DEF BeginRecalculate, Proceed, Types, Locked, BarberRated
<1>5. ASSUME NEW c \in Calls, UpdateProfile(c) PROVE Locked'
  BY <1>5, <1>0, <1>00 DEF UpdateProfile, Proceed, Types, Typed, Locked, BarberRated
<1>6. ASSUME NEW c \in Calls, NEW answer \in Answers, End(c, answer) PROVE Locked'
  <2>1. ASSUME NEW d \in Calls, d # c PROVE pc'[d] = pc[d] /\ form'[d] = form[d]
    BY <1>6, <2>1 DEF End, Types
  <2>2. ASSUME NEW r \in Reservations, NEW d \in Calls, reservationLock'[r] = d
        PROVE  d # c /\ reservationLock[r] = d
    BY <1>6, <2>2, RatingAssumption DEF End
  <2>3. ASSUME NEW b \in Barbers, NEW d \in Calls, profileLock'[b] = d
        PROVE  d # c /\ profileLock[b] = d
    BY <1>6, <2>3, RatingAssumption DEF End
  <2> QED
    BY <2>1, <2>2, <2>3, <1>0, <1>00 DEF Locked, BarberRated
<1>7. ASSUME NEW c \in Calls, Commit(c) PROVE Locked'
  BY <1>7, <1>6 DEF Commit, Answers
<1>8. ASSUME NEW c \in Calls, RollbackStep(c) PROVE Locked'
  BY <1>8, <1>6 DEF RollbackStep, Rollback
<1>9. ASSUME NEW r \in Reservations, StatusStep(r) PROVE Locked'
  BY <1>9 DEF StatusStep, Locked, BarberRated
<1>10. CASE UNCHANGED vars
  BY <1>10 DEF vars, Locked, BarberRated
<1> QED
  BY <1>1, <1>2, <1>3, <1>4, <1>5, <1>7, <1>8, <1>9, <1>10, StepKinds

LEMMA LockedHolds == Spec => []Locked
<1>1. Init => Locked
  BY RatingAssumption DEF Init, Locked
<1>2. Inductive /\ Typed /\ Locked /\ [Next]_vars => Locked'
  BY LockedStep
<1> QED
  BY <1>1, <1>2, InductiveHolds, TypedHolds, PTL DEF Spec

\* The rows that the next statement of a call needs are free.
CanProceed(c) ==
    /\ pc[c] \in Statements
    /\ pc[c] = "select" => reservationLock[form[c].reservation] = Nil
    /\ pc[c] = "update" => profileLock[BarberRated(c)] = Nil

WaitsFor(c, d) ==
    \/ pc[c] = "select" /\ reservationLock[form[c].reservation] = d
    \/ pc[c] = "update" /\ profileLock[BarberRated(c)] = d

\* Reservation first, profile second: a call under way can go on, or waits for one
\* that can, or for one that waits for one that can.
WaitsAreShort ==
    \A c \in Calls : pc[c] \in Statements =>
        \/ CanProceed(c)
        \/ \E d \in Calls : /\ WaitsFor(c, d)
                            /\ \/ CanProceed(d)
                               \/ \E e \in Calls : WaitsFor(d, e) /\ CanProceed(e)

\* A call that has its reservation waits at most for one that is about to commit.
LEMMA Chain ==
    ASSUME Inductive, Typed, Locked, NEW d \in Calls, pc[d] \in Checked
    PROVE  CanProceed(d) \/ \E e \in Calls : WaitsFor(d, e) /\ CanProceed(e)
<1>1. pc[d] \in Statements /\ pc[d] # "select"
  BY DEF Checked, Statements
<1>2. CASE pc[d] # "update"
  BY <1>1, <1>2 DEF CanProceed
<1>3. CASE pc[d] = "update"
  <2>1. form[d] \in Form
    BY <1>1 DEF Inductive, Types
  <2>2. BarberRated(d) \in Barbers
    BY <2>1, RatingAssumption DEF BarberRated, Form
  <2>3. CASE profileLock[BarberRated(d)] = Nil
    BY <1>1, <2>3 DEF CanProceed
  <2>4. CASE profileLock[BarberRated(d)] # Nil
    <3>1. PICK e \in Calls : profileLock[BarberRated(d)] = e
      BY <2>2, <2>4 DEF Typed
    <3>2. pc[e] = "commit"
      BY <2>2, <3>1 DEF Locked
    <3>3. WaitsFor(d, e) /\ CanProceed(e)
      BY <1>3, <3>1, <3>2 DEF WaitsFor, CanProceed, Statements
    <3> QED
      BY <3>3
  <2> QED
    BY <2>3, <2>4
<1> QED
  BY <1>2, <1>3

\* No two calls wait for each other: whatever waits, something it waits for can
\* go on.
THEOREM NoMutualWait == Spec => []WaitsAreShort
<1>1. ASSUME Inductive, Typed, Locked, NEW c \in Calls, pc[c] \in Statements
      PROVE  \/ CanProceed(c)
             \/ \E d \in Calls : /\ WaitsFor(c, d)
                                 /\ \/ CanProceed(d)
                                    \/ \E e \in Calls : WaitsFor(d, e) /\ CanProceed(e)
  <2>1. CASE pc[c] \in Checked
    <3>1. CASE CanProceed(c)
      BY <3>1
    <3>2. CASE ~ CanProceed(c)
      BY <1>1, <2>1, <3>2, Chain
    <3> QED
      BY <3>1, <3>2
  <2>2. CASE pc[c] \notin Checked
    <3>1. pc[c] = "select"
      BY <1>1, <2>2 DEF Statements, Checked
    <3>2. form[c].reservation \in Reservations
      BY <1>1 DEF Inductive, Types, Form
    <3>3. CASE reservationLock[form[c].reservation] = Nil
      BY <1>1, <3>1, <3>3 DEF CanProceed
    <3>4. CASE reservationLock[form[c].reservation] # Nil
      <4>1. PICK d \in Calls : reservationLock[form[c].reservation] = d
        BY <1>1, <3>2, <3>4 DEF Inductive, Types
      <4>2. pc[d] \in Checked
        BY <1>1, <3>2, <4>1 DEF Locked
      <4>3. CanProceed(d) \/ \E e \in Calls : WaitsFor(d, e) /\ CanProceed(e)
        BY <1>1, <4>2, Chain
      <4> QED
        BY <3>1, <4>1, <4>3 DEF WaitsFor
    <3> QED
      BY <3>3, <3>4
  <2> QED
    BY <2>1, <2>2
<1>2. Inductive /\ Typed /\ Locked => WaitsAreShort
  BY <1>1 DEF WaitsAreShort
<1> QED
  BY <1>2, InductiveHolds, TypedHolds, LockedHolds, PTL

-----------------------------------------------------------------------------
(* The promise.                                                            *)

LEMMA SameAggregate ==
    ASSUME NEW ratings
    PROVE  Promise!Aggregate(ratings) = Aggregate(ratings)
  BY DEF Promise!Aggregate, Aggregate, Promise!SumOf, SumOf, Promise!Given, Given,
         Promise!Cardinality, Cardinality

LEMMA InitRefines == Init => Promise!Init
  BY SameAggregate DEF Init, Promise!Init, Promise!NoRatings, NoRatings

LEMMA RateRefines ==
    ASSUME Inductive, NEW c \in Calls, Commit(c)
    PROVE  Promise!Rate(form[c].reservation)
<1> DEFINE r == form[c].reservation
           counted == DOMAIN snapshot[c] \ {r}
<1>1. /\ r \in Reservations /\ rating[r] = Nil /\ form[c].score \in Scores
      /\ rating' = [rating EXCEPT ![r] = form[c].score]
  BY CommitAdds DEF Commit
<1>2. status[r] = "completed" /\ UNCHANGED status
  BY DEF Commit, Inductive, Holds, Checked
<1>3. counted \in SUBSET Promise!Rated(BarberOf[r])
  BY SnapshotCommitted, CommitAdds DEF RatingsOf, BarberRated, Promise!Rated
<1>4. counted \cup {r} = DOMAIN snapshot[c]
  BY SnapshotCommitted
<1>5. [q \in counted \cup {r} |-> rating'[q]] = snapshot[c]
  BY <1>4, SnapshotCommitted
<1>6. profile' = [profile EXCEPT ![BarberOf[r]] =
                     Promise!Aggregate([q \in counted \cup {r} |-> rating'[q]])]
  BY <1>5, SnapshotCommitted, SameAggregate DEF BarberRated
<1> HIDE DEF r, counted
<1>7. Promise!Rate(r)
  BY <1>1, <1>2, <1>3, <1>6 DEF Promise!Rate
<1> QED
  BY <1>7 DEF r

\* Each writer of the status is one of the promise.
LEMMA StatusRefines ==
    /\ \A r \in Reservations, newStatus \in {"completed", "no_show"} :
          UpdateStatus(r, newStatus) => Promise!Report(r, newStatus)
    /\ \A r \in Reservations : Cancel(r) => Promise!Cancel(r)
  BY DEF UpdateStatus, Cancel, Promise!Report, Promise!Cancel

\* Every other step changes nothing that the promise speaks of.
LEMMA QuietSteps ==
    ASSUME NEW c \in Calls,
           \/ \E body \in Form : Receive(c, body)
           \/ LockReservation(c) \/ InsertRating(c) \/ BeginRecalculate(c)
           \/ UpdateProfile(c) \/ Abort(c)
    PROVE  UNCHANGED <<status, rating, profile>>
  BY DEF Receive, LockReservation, InsertRating, BeginRecalculate, UpdateProfile, Abort,
         Rollback

\* Ratings with their transactions and locks do what the promise says and no more:
\* an overlap may lose a rating from the aggregate, never from the ratings.
THEOREM RatingsKeepPromise == Spec => ImplementsRatings
<1>1. Inductive /\ [Next]_vars => [Promise!Next]_<<status, rating, profile>>
  <2> SUFFICES ASSUME Inductive, [Next]_vars
               PROVE  [Promise!Next]_<<status, rating, profile>>
    OBVIOUS
  <2>1. ASSUME NEW c \in Calls, Commit(c) PROVE Promise!Next
    BY <2>1, RateRefines, CommitAdds DEF Promise!Next
  <2>2. ASSUME NEW r \in Reservations, NEW newStatus \in {"completed", "no_show"},
               UpdateStatus(r, newStatus)
        PROVE  Promise!Next
    BY <2>2, StatusRefines DEF Promise!Next
  <2>3. ASSUME NEW r \in Reservations, Cancel(r) PROVE Promise!Next
    BY <2>3, StatusRefines DEF Promise!Next
  <2>4. CASE UNCHANGED vars
    BY <2>4 DEF vars
  <2> QED
    BY <2>1, <2>2, <2>3, <2>4, QuietSteps DEF Next, Handle
<1> QED
  BY <1>1, InitRefines, InductiveHolds, PTL DEF Spec, ImplementsRatings, Promise!Spec
================================================================================
