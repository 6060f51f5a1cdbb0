------------------------------- MODULE ApprovalSpec -------------------------------
(***************************************************************************)
(* What the approval workflow promises, without transactions or locks: a   *)
(* proposal changes nothing; a decision is made once; an approval applies  *)
(* the whole payload to the rows as they are then, and a rejection nothing. *)
(***************************************************************************)
EXTENDS Payload

CONSTANTS Requests, Rows, Nil

VARIABLES
    proposal,   \* the writes of each request and whether it is decided
    live        \* the rows of work_schedules and services

Write == [row : Rows, diff : Diff]
Proposal == [writes : Seq(Write), status : {"pending", "approved", "rejected"}]

Init ==
    /\ proposal = [q \in Requests |-> Nil]
    /\ live \in [Rows -> [Columns -> Values \cup {Nil}]]

Propose(q) ==
    /\ proposal[q] = Nil
    /\ proposal'[q] \in Proposal
    /\ proposal'[q].status = "pending"
    /\ proposal' = [proposal EXCEPT ![q] = proposal'[q]]
    /\ UNCHANGED live

Approve(q) ==
    /\ proposal[q] # Nil
    /\ proposal[q].status = "pending"
    /\ \A i \in 1 .. Len(proposal[q].writes) : Acceptable(proposal[q].writes[i].diff)
    /\ live' = [row \in Rows |->
                   RowAfter(proposal[q].writes, Len(proposal[q].writes), row, live[row])]
    /\ proposal' = [proposal EXCEPT ![q].status = "approved"]

Reject(q) ==
    /\ proposal[q] # Nil
    /\ proposal[q].status = "pending"
    /\ proposal' = [proposal EXCEPT ![q].status = "rejected"]
    /\ UNCHANGED live

Next == \E q \in Requests : Propose(q) \/ Approve(q) \/ Reject(q)

Spec == Init /\ [][Next]_<<proposal, live>>
=============================================================================
