------------------------------- MODULE RatingSpec -------------------------------
(***************************************************************************)
(* What the ratings of visits promise, without transactions or locks: a    *)
(* completed visit is rated once and for good, and its rating is in the    *)
(* aggregate from the same moment on. That moment is also when the         *)
(* aggregate may lose other ratings of the barber (counted), which is as   *)
(* far as it may drift. What happens to the visit later changes neither    *)
(* the rating nor the aggregate.                                           *)
(***************************************************************************)
EXTENDS Average

CONSTANTS Reservations, Barbers, BarberOf, Scores, Nil

VARIABLES status, rating, profile

Init ==
    /\ status = [r \in Reservations |-> "pending"]
    /\ rating = [r \in Reservations |-> Nil]
    /\ profile = [b \in Barbers |-> Aggregate(NoRatings)]

Rated(b) == {r \in Reservations : BarberOf[r] = b /\ rating[r] # Nil}

Rate(r) ==
    /\ status[r] = "completed"
    /\ rating[r] = Nil
    /\ \E score \in Scores : rating' = [rating EXCEPT ![r] = score]
    /\ \E counted \in SUBSET Rated(BarberOf[r]) :
            profile' = [profile EXCEPT ![BarberOf[r]] =
                           Aggregate([q \in counted \cup {r} |-> rating'[q]])]
    /\ UNCHANGED status

Report(r, newStatus) ==
    /\ status' = [status EXCEPT ![r] = newStatus]
    /\ UNCHANGED <<rating, profile>>

Cancel(r) ==
    /\ status[r] \in {"pending", "confirmed"}
    /\ status' = [status EXCEPT ![r] = "cancelled"]
    /\ UNCHANGED <<rating, profile>>

Next == \E r \in Reservations :
    \/ Rate(r)
    \/ \E newStatus \in {"completed", "no_show"} : Report(r, newStatus)
    \/ Cancel(r)

Spec == Init /\ [][Next]_<<status, rating, profile>>
=============================================================================
