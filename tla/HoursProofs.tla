------------------------------- MODULE HoursProofs -------------------------------
(***************************************************************************)
(* Proofs about ShopHours, for any number of saves, any lists of days and  *)
(* any rows.                                                               *)
(*                                                                         *)
(* That saves appear whole needs to be known of every save under way:       *)
(* it has written the days before the current one, all of which fit, and    *)
(* holds for each weekday the last of them. Inductive says so.             *)
(***************************************************************************)
EXTENDS ShopHours, TLAPS

\* A save has staged exactly the days it has done, each weekday as last given.
Saving(c) ==
    /\ form[c] \in Lists
    /\ applied[c] \in 0 .. Len(form[c])
    /\ \A i \in 1 .. applied[c] : Fits(form[c][i])
    /\ DOMAIN staged[c] = {form[c][i].weekday : i \in 1 .. applied[c]}
    /\ \A weekday \in DOMAIN staged[c] : \E i \in 1 .. applied[c] :
          /\ Promise!LastFor(form[c], applied[c], weekday, i)
          /\ staged[c][weekday] = form[c][i].row

SavesInOrder == \A c \in Calls :
    IF pc[c] = "upsert" THEN Saving(c) ELSE applied[c] = 0 /\ staged[c] = NothingStaged

Inductive == TypeOK /\ SavesInOrder

-----------------------------------------------------------------------------
(* What a list of days does, day by day.                                   *)

\* The last day for a weekday decides its row.
LEMMA LastDecides ==
    ASSUME NEW list, NEW n \in Nat, NEW weekday, NEW row,
           NEW i, Promise!LastFor(list, n, weekday, i)
    PROVE  Promise!RowAfter(list, n, weekday, row) = list[i].row
<1> DEFINE chosen == CHOOSE k \in 1 .. n : Promise!LastFor(list, n, weekday, k)
<1>1. i \in 1 .. n
  BY DEF Promise!LastFor
<1>2. chosen \in 1 .. n /\ Promise!LastFor(list, n, weekday, chosen)
  BY <1>1
<1>3. ASSUME NEW j, Promise!LastFor(list, n, weekday, j) PROVE j = i
  BY <1>3, SMT DEF Promise!LastFor
<1>4. chosen = i
  BY <1>2, <1>3
<1>5. Promise!RowAfter(list, n, weekday, row) = list[chosen].row
  BY <1>1 DEF Promise!RowAfter
<1> QED
  BY <1>4, <1>5

\* If no day is the last for a weekday, its row stays.
LEMMA NoLast ==
    ASSUME NEW list, NEW n \in Nat, NEW weekday, NEW row,
           ~\E i : Promise!LastFor(list, n, weekday, i)
    PROVE  Promise!RowAfter(list, n, weekday, row) = row
  BY DEF Promise!RowAfter

-----------------------------------------------------------------------------
(* Inductive holds initially, and every step keeps it.                     *)

LEMMA InitInductive == Init => Inductive
  BY DEF Init, Inductive, TypeOK, SavesInOrder, NothingStaged

\* The day that a save writes next is a day of a body.
LEMMA DayTyped ==
    ASSUME NEW c \in Calls, pc[c] = "upsert", Saving(c), HasDay(c)
    PROVE  /\ applied[c] \in Nat /\ Len(form[c]) \in Nat
           /\ applied[c] + 1 \in 1 .. Len(form[c])
           /\ NextDay(c).row \in Rows
<1> DEFINE Day == [weekday : Int, row : Rows]
<1>1. form[c] \in Seq(Day)
  BY HoursAssumption DEF Saving
<1> HIDE DEF Day
<1>2. applied[c] \in Nat /\ Len(form[c]) \in Nat /\ applied[c] + 1 \in 1 .. Len(form[c])
  BY <1>1 DEF Saving, HasDay
<1>3. NextDay(c) \in Day
  BY <1>1, <1>2 DEF NextDay
<1> QED
  BY <1>2, <1>3 DEF Day

\* An upsert that fits.
UpsertFits(c) ==
    /\ pc[c] = "upsert" /\ HasDay(c) /\ Fits(NextDay(c))
    /\ staged' = [staged EXCEPT ![c] =
                     [weekday \in DOMAIN staged[c] \cup {NextDay(c).weekday} |->
                         IF weekday = NextDay(c).weekday THEN NextDay(c).row
                         ELSE staged[c][weekday]]]
    /\ applied' = [applied EXCEPT ![c] = @ + 1]
    /\ UNCHANGED <<hours, pc, form>>

\* A save that fails, or is out of time.
Fails(c) == pc[c] = "upsert" /\ Rollback(c)

LEMMA StepKinds ==
    ASSUME [Next]_vars
    PROVE  \/ \E c \in Calls : \/ \E list \in Lists : Receive(c, list)
                               \/ UpsertFits(c) \/ Commit(c) \/ Fails(c)
           \/ UNCHANGED vars
<1>1. ASSUME NEW c \in Calls, Upsert(c) PROVE UpsertFits(c) \/ Fails(c)
  <2>1. CASE Fits(NextDay(c))
    BY <1>1, <2>1 DEF Upsert, UpsertFits
  <2>2. CASE ~Fits(NextDay(c))
    BY <1>1, <2>2 DEF Upsert, Fails
  <2> QED
    BY <2>1, <2>2
<1>2. ASSUME NEW c \in Calls, Abort(c) \/ Deadline(c) PROVE Fails(c)
  BY <1>2 DEF Abort, Deadline, Fails
<1> QED
  BY <1>1, <1>2 DEF Next

LEMMA TypeStep == ASSUME Inductive, [Next]_vars PROVE TypeOK'
<1> USE DEF Inductive
<1>1. ASSUME NEW c \in Calls, NEW list \in Lists, Receive(c, list) PROVE TypeOK'
  BY <1>1 DEF Receive, TypeOK
<1>2. ASSUME NEW c \in Calls, UpsertFits(c) PROVE TypeOK'
  <2>1. Saving(c)
    BY <1>2 DEF UpsertFits, SavesInOrder
  <2>2. NextDay(c).weekday \in Weekdays /\ NextDay(c).row \in Rows \ Refused /\ applied[c] \in Nat
    BY <1>2, <2>1, DayTyped DEF UpsertFits, Fits
  <2>3. ASSUME NEW d \in Calls
        PROVE  /\ DOMAIN staged'[d] \subseteq Weekdays
               /\ staged'[d] \in [DOMAIN staged'[d] -> Rows \ Refused]
    BY <1>2, <2>2 DEF UpsertFits, TypeOK
  <2>4. DOMAIN staged' = Calls
    BY <1>2 DEF UpsertFits, TypeOK
  <2>5. applied' \in [Calls -> Nat]
    BY <1>2, <2>2 DEF UpsertFits, TypeOK
  <2> QED
    BY <1>2, <2>3, <2>4, <2>5 DEF UpsertFits, TypeOK
<1>3. ASSUME NEW c \in Calls, Commit(c) PROVE TypeOK'
  <2>1. hours' \in [Weekdays -> (Rows \ Refused) \cup {Nil}]
    BY <1>3 DEF Commit, TypeOK
  <2> QED
    BY <1>3, <2>1 DEF Commit, End, TypeOK, NothingStaged
<1>4. ASSUME NEW c \in Calls, Fails(c) PROVE TypeOK'
  BY <1>4 DEF Fails, Rollback, End, TypeOK, NothingStaged, Answers
<1>5. CASE UNCHANGED vars
  BY <1>5 DEF vars, TypeOK
<1> QED
  BY <1>1, <1>2, <1>3, <1>4, <1>5, StepKinds

LEMMA SavesStep == ASSUME Inductive, [Next]_vars PROVE SavesInOrder'
<1> USE DEF Inductive
<1> DEFINE Ordered(e) == IF pc[e] = "upsert" THEN Saving(e)
                         ELSE applied[e] = 0 /\ staged[e] = NothingStaged
<1>0. ASSUME NEW e \in Calls, pc'[e] = pc[e], form'[e] = form[e], applied'[e] = applied[e],
             staged'[e] = staged[e]
      PROVE  Ordered(e)'
  BY <1>0 DEF SavesInOrder, Saving, NothingStaged
<1> SUFFICES ASSUME NEW e \in Calls PROVE Ordered(e)'
  BY DEF SavesInOrder
<1>1. ASSUME NEW c \in Calls, NEW list \in Lists, Receive(c, list) PROVE Ordered(e)'
  <2>1. CASE e # c
    BY <1>0, <1>1, <2>1 DEF Receive, TypeOK
  <2>2. CASE e = c
    <3>1. applied'[c] = 0 /\ staged'[c] = NothingStaged /\ form'[c] = list /\ pc'[c] = "upsert"
      BY <1>1 DEF Receive, TypeOK, SavesInOrder
    <3>2. Len(list) \in Nat
      BY HoursAssumption
    <3> QED
      BY <2>2, <3>1, <3>2 DEF Saving, NothingStaged
  <2> QED
    BY <2>1, <2>2
<1>2. ASSUME NEW c \in Calls, UpsertFits(c) PROVE Ordered(e)'
  <2>1. CASE e # c
    BY <1>0, <1>2, <2>1 DEF UpsertFits, TypeOK
  <2>2. CASE e = c
    <3>1. Saving(c) /\ pc[c] = "upsert" /\ HasDay(c)
      BY <1>2 DEF UpsertFits, SavesInOrder
    <3>2. /\ applied[c] \in Nat /\ Len(form[c]) \in Nat
          /\ applied[c] + 1 \in 1 .. Len(form[c])
      BY <3>1, DayTyped
    <3>3. /\ applied'[c] = applied[c] + 1 /\ form'[c] = form[c] /\ pc'[c] = "upsert"
          /\ DOMAIN staged'[c] = DOMAIN staged[c] \cup {NextDay(c).weekday}
          /\ \A weekday \in DOMAIN staged'[c] :
                staged'[c][weekday] = IF weekday = NextDay(c).weekday THEN NextDay(c).row
                                      ELSE staged[c][weekday]
      BY <1>2 DEF UpsertFits, TypeOK
    <3>4. \A i \in 1 .. applied'[c] : i \in 1 .. applied[c] \/ i = applied[c] + 1
      BY <3>2, <3>3
    <3>5. \A i \in 1 .. applied'[c] : Fits(form[c][i])
      BY <1>2, <3>1, <3>4 DEF UpsertFits, Saving, NextDay
    <3>6. DOMAIN staged'[c] = {form[c][i].weekday : i \in 1 .. applied'[c]}
      BY <3>1, <3>2, <3>3 DEF Saving, NextDay
    <3>7. ASSUME NEW weekday \in DOMAIN staged'[c]
          PROVE  \E i \in 1 .. applied'[c] :
                    /\ Promise!LastFor(form[c], applied'[c], weekday, i)
                    /\ staged'[c][weekday] = form[c][i].row
      <4>1. CASE weekday = NextDay(c).weekday
        <5>1. Promise!LastFor(form[c], applied[c] + 1, weekday, applied[c] + 1)
          BY <3>2, <4>1, SMT DEF Promise!LastFor, NextDay
        <5> QED
          BY <3>2, <3>3, <4>1, <5>1 DEF NextDay
      <4>2. CASE weekday # NextDay(c).weekday
        <5>1. PICK i \in 1 .. applied[c] :
                    /\ Promise!LastFor(form[c], applied[c], weekday, i)
                    /\ staged[c][weekday] = form[c][i].row
          BY <3>1, <3>3, <4>2 DEF Saving
        <5>2. Promise!LastFor(form[c], applied[c] + 1, weekday, i)
          BY <3>2, <4>2, <5>1, SMT DEF Promise!LastFor, NextDay
        <5> QED
          BY <3>2, <3>3, <4>2, <5>1, <5>2
      <4> QED
        BY <4>1, <4>2
    <3>8. form[c] \in Lists
      BY <3>1 DEF Saving
    <3>9. Saving(c)'
      <4>1. form' = form
        BY <1>2 DEF UpsertFits
      <4>2. applied'[c] \in 0 .. Len(form[c])
        BY <3>2, <3>3
      <4> QED
        BY <3>5, <3>6, <3>7, <3>8, <4>1, <4>2 DEF Saving
    <3> QED
      BY <2>2, <3>3, <3>9
  <2> QED
    BY <2>1, <2>2
<1>3. ASSUME NEW c \in Calls, Commit(c) \/ Fails(c) PROVE Ordered(e)'
  <2>1. \E answer \in Answers : End(c, answer)
    BY <1>3 DEF Commit, Fails, Rollback, Answers
  <2>2. CASE e # c
    BY <1>0, <2>1, <2>2 DEF End, TypeOK
  <2>3. CASE e = c
    BY <2>1, <2>3 DEF End, TypeOK, Answers
  <2> QED
    BY <2>2, <2>3
<1>4. CASE UNCHANGED vars
  BY <1>0, <1>4 DEF vars
<1> QED
  BY <1>1, <1>2, <1>3, <1>4, StepKinds

LEMMA InductiveStep == Inductive /\ [Next]_vars => Inductive'
  BY TypeStep, SavesStep DEF Inductive

LEMMA InductiveHolds == Spec => []Inductive
  BY InitInductive, InductiveStep, PTL DEF Spec

-----------------------------------------------------------------------------

\* The live hours are rows that the table accepts, whatever bodies are sent.
THEOREM HoursTyped == Spec => []TypeOK
  BY InductiveHolds, PTL DEF Inductive

\* A commit saves its whole list at once.
LEMMA CommitSaves ==
    ASSUME Inductive, NEW c \in Calls, Commit(c)
    PROVE  \E list \in Lists : Promise!Save(list)
<1>1. Saving(c) /\ ~HasDay(c)
  BY DEF Commit, Inductive, SavesInOrder
<1>2. PICK list \in Lists : list = form[c]
  BY <1>1 DEF Saving
<1>3. Len(list) \in Nat /\ DOMAIN list = 1 .. Len(list)
  BY HoursAssumption
<1>4. applied[c] = Len(list)
  BY <1>1, <1>2, <1>3 DEF Saving, HasDay
<1>5. Promise!Acceptable(list)
  BY <1>1, <1>2, <1>3, <1>4 DEF Saving, Fits, Promise!Acceptable
<1>6. ASSUME NEW weekday \in Weekdays
      PROVE  hours'[weekday] = Promise!RowAfter(list, Len(list), weekday, hours[weekday])
  <2>1. CASE weekday \in DOMAIN staged[c]
    <3>1. PICK i \in 1 .. Len(list) : /\ Promise!LastFor(list, Len(list), weekday, i)
                                      /\ staged[c][weekday] = list[i].row
      BY <1>1, <1>2, <1>4, <2>1 DEF Saving
    <3>2. hours'[weekday] = staged[c][weekday]
      BY <2>1 DEF Commit
    <3>3. Promise!RowAfter(list, Len(list), weekday, hours[weekday]) = list[i].row
      BY <1>3, <3>1, LastDecides
    <3> QED
      BY <3>1, <3>2, <3>3
  <2>2. CASE weekday \notin DOMAIN staged[c]
    <3>1. \A i \in 1 .. Len(list) : list[i].weekday # weekday
      BY <1>1, <1>2, <1>4, <2>2 DEF Saving
    <3>2. ~\E i : Promise!LastFor(list, Len(list), weekday, i)
      BY <3>1 DEF Promise!LastFor
    <3> QED
      BY <1>3, <2>2, <3>2, NoLast DEF Commit
  <2> QED
    BY <2>1, <2>2
<1>7. Promise!Save(list)
  BY <1>5, <1>6 DEF Promise!Save, Commit
<1> QED
  BY <1>7

\* Saves are atomic: every behaviour of the transactions, with any lists, orders
\* and failures, is a series of whole saves.
THEOREM SavesAppearWhole == Spec => SavesAreAtomic
<1>1. Init => Promise!Init
  BY DEF Init, Promise!Init
<1>2. ASSUME Inductive, [Next]_vars PROVE [Promise!Next]_hours
  <2>1. ASSUME NEW c \in Calls, NEW list \in Lists, Receive(c, list) PROVE hours' = hours
    BY <2>1 DEF Receive
  <2>2. ASSUME NEW c \in Calls, UpsertFits(c) \/ Fails(c) PROVE hours' = hours
    BY <2>2 DEF UpsertFits, Fails, Rollback
  <2>3. ASSUME NEW c \in Calls, Commit(c) PROVE Promise!Next
    BY <1>2, <2>3, CommitSaves DEF Promise!Next
  <2> QED
    BY <1>2, <2>1, <2>2, <2>3, StepKinds DEF vars
<1> QED
  BY <1>1, <1>2, InductiveHolds, PTL DEF Spec, SavesAreAtomic, Promise!Spec
=============================================================================
