----------------------------- MODULE ApprovalProofs -----------------------------
(***************************************************************************)
(* Proofs about Approvals, for any number of requests, calls, rows, columns *)
(* and writes in a payload.                                                *)
(*                                                                         *)
(* StagedIsCurrent is not inductive by itself: a commit of one call changes *)
(* live rows and a request under the feet of the others. Inductive adds why *)
(* it does not touch theirs: a transaction holds its request alone and the  *)
(* rows of the writes it has done, and a call outside a transaction holds   *)
(* nothing.                                                                *)
(***************************************************************************)
EXTENDS Approvals, TLAPS

\* A call outside a transaction has nothing staged; one that stands before a
\* statement has the body for it.
CallsInOrder == \A c \in Calls :
    /\ pc[c] \notin InTransaction => applied[c] = 0 /\ staged[c] = NothingStaged
    /\ pc[c] # "idle" => form[c] \in Form
    /\ pc[c] \in {"select", "apply", "commit"} => form[c].op = "approve"
    /\ pc[c] = "reject" => form[c].op = "reject"

\* A transaction works on an undecided request of its shop, and has written the
\* rows of the writes it has done.
Transaction(c) ==
    /\ InShop(c) /\ Pending(form[c].request)
    /\ applied[c] \in 0 .. Len(WritesOf(c))
    /\ pc[c] = "commit" => applied[c] = Len(WritesOf(c))
    /\ \A i \in 1 .. applied[c] : Acceptable(WritesOf(c)[i].diff)
    /\ DOMAIN staged[c] = {WritesOf(c)[i].row : i \in 1 .. applied[c]}

Transactions == \A c \in Calls : pc[c] \in InTransaction => Transaction(c)

\* No two transactions work on one request or hold one row.
LocksExclude == \A c, d \in Calls : c # d =>
    /\ pc[c] \in InTransaction /\ pc[d] \in InTransaction =>
           form[c].request # form[d].request
    /\ DOMAIN staged[c] \cap DOMAIN staged[d] = {}

\* The rows are as the writes done leave the live ones.
StagedRows(c) == \A row \in DOMAIN staged[c] :
    staged[c][row] = RowAfter(WritesOf(c), applied[c], row, live[row])

StagedAfterWrites == \A c \in Calls : pc[c] \in InTransaction => StagedRows(c)

\* The request of a call that was told so exists, and bears its decision.
DecisionsStand == \A c \in Calls : pc[c] = "done" =>
    /\ request[form[c].request] # Nil
    /\ request[form[c].request].reviewedBy = c
    /\ request[form[c].request].status = (IF form[c].op = "approve" THEN "approved" ELSE "rejected")

\* The rows of a payload are rows of its proposer.
OwnRows(barber, writes) == \A i \in 1 .. Len(writes) : RowBarber(writes[i].row) = barber

ProposalsOwned == \A q \in Requests : request[q] # Nil =>
    /\ request[q].shop = BarberShop[request[q].barber]
    /\ OwnRows(request[q].barber, request[q].writes)

Inductive ==
    /\ TypeOK
    /\ CallsInOrder
    /\ Transactions
    /\ LocksExclude
    /\ StagedAfterWrites
    /\ ProposalsOwned
    /\ DecisionsStand

-----------------------------------------------------------------------------
(* What payloads do, write by write.                                       *)

\* There is at most one last write.
LEMMA LastIsUnique ==
    ASSUME NEW writes, NEW n \in Nat, NEW row, NEW column, NEW i, NEW j,
           SetsLast(writes, n, row, column, i), SetsLast(writes, n, row, column, j)
    PROVE  i = j
  BY SMT DEF SetsLast

\* No write sets the column: it stays.
LEMMA ColumnStays ==
    ASSUME NEW writes, NEW n \in Nat, NEW row, NEW content, NEW column \in Columns,
           \A i \in 1 .. n : ~(writes[i].row = row /\ column \in DOMAIN writes[i].diff)
    PROVE  RowAfter(writes, n, row, content)[column] = content[column]
  BY DEF RowAfter, SetsLast

\* The last write that sets the column decides it.
LEMMA LastDecides ==
    ASSUME NEW writes, NEW n \in Nat, NEW row, NEW content, NEW column \in Columns,
           NEW i, SetsLast(writes, n, row, column, i)
    PROVE  RowAfter(writes, n, row, content)[column] = writes[i].diff[column]
<1>1. i \in 1 .. n
  BY DEF SetsLast
<1> DEFINE chosen == CHOOSE k \in 1 .. n : SetsLast(writes, n, row, column, k)
<1>2. chosen \in 1 .. n /\ SetsLast(writes, n, row, column, chosen)
  BY <1>1
<1>3. chosen = i
  BY <1>2, LastIsUnique
<1>4. RowAfter(writes, n, row, content)[column] = writes[chosen].diff[column]
  BY <1>1 DEF RowAfter
<1> QED
  BY <1>3, <1>4

\* Either some write sets the column, and then one is the last, or none does.
LEMMA SomeLast ==
    ASSUME NEW writes, NEW n \in Nat, NEW row, NEW content, NEW column \in Columns
    PROVE  \/ \E i : SetsLast(writes, n, row, column, i)
           \/ RowAfter(writes, n, row, content)[column] = content[column]
  BY DEF RowAfter

\* One more write to another row changes nothing.
LEMMA OtherRowWritten ==
    ASSUME NEW writes, NEW n \in Nat, NEW row, NEW content, writes[n + 1].row # row
    PROVE  RowAfter(writes, n + 1, row, content) = RowAfter(writes, n, row, content)
<1> SUFFICES ASSUME NEW column \in Columns
             PROVE  RowAfter(writes, n + 1, row, content)[column] =
                        RowAfter(writes, n, row, content)[column]
  BY DEF RowAfter
<1>1. ASSUME NEW i PROVE SetsLast(writes, n + 1, row, column, i) <=>
                             SetsLast(writes, n, row, column, i)
  BY SMT DEF SetsLast
<1>2. CASE \E i : SetsLast(writes, n, row, column, i)
  BY <1>1, <1>2, LastDecides, n + 1 \in Nat
<1>3. CASE ~\E i : SetsLast(writes, n, row, column, i)
  BY <1>1, <1>3, SomeLast, n + 1 \in Nat
<1> QED
  BY <1>2, <1>3

\* One more write to the row is merged into it.
LEMMA RowWritten ==
    ASSUME NEW writes, NEW n \in Nat, NEW row, NEW content, writes[n + 1].row = row
    PROVE  RowAfter(writes, n + 1, row, content) =
               Merge(RowAfter(writes, n, row, content), writes[n + 1].diff)
<1> DEFINE merged == Merge(RowAfter(writes, n, row, content), writes[n + 1].diff)
<1> SUFFICES ASSUME NEW column \in Columns
             PROVE  RowAfter(writes, n + 1, row, content)[column] = merged[column]
  BY DEF RowAfter, Merge
<1>0. n + 1 \in Nat
  OBVIOUS
<1>1. CASE column \in DOMAIN writes[n + 1].diff
  <2>1. SetsLast(writes, n + 1, row, column, n + 1)
    BY <1>1, SMT DEF SetsLast
  <2>2. RowAfter(writes, n + 1, row, content)[column] = writes[n + 1].diff[column]
    BY <1>0, <2>1, LastDecides
  <2> QED
    BY <1>1, <2>2 DEF Merge
<1>2. CASE column \notin DOMAIN writes[n + 1].diff
  <2>1. ASSUME NEW i PROVE SetsLast(writes, n + 1, row, column, i) <=>
                               SetsLast(writes, n, row, column, i)
    BY <1>2, SMT DEF SetsLast
  <2>2. merged[column] = RowAfter(writes, n, row, content)[column]
    BY <1>2 DEF Merge
  <2>3. CASE \E i : SetsLast(writes, n, row, column, i)
    BY <1>0, <2>1, <2>2, <2>3, LastDecides
  <2>4. CASE ~\E i : SetsLast(writes, n, row, column, i)
    BY <1>0, <2>1, <2>2, <2>4, SomeLast
  <2> QED
    BY <2>3, <2>4
<1> QED
  BY <1>1, <1>2

\* A row that no write names stays as it is.
LEMMA RowNotWritten ==
    ASSUME NEW writes, NEW n \in Nat, NEW row, NEW content \in [Columns -> Values \cup {Nil}],
           \A i \in 1 .. n : writes[i].row # row
    PROVE  RowAfter(writes, n, row, content) = content
<1>1. \A column \in Columns : RowAfter(writes, n, row, content)[column] = content[column]
  BY ColumnStays
<1> QED
  BY <1>1 DEF RowAfter

\* An accepted diff leaves the row with accepted values.
LEMMA MergeFits ==
    ASSUME NEW content \in Content, NEW diff \in Diff, Acceptable(diff)
    PROVE  Merge(content, diff) \in Content
  BY DEF Merge, Content, Diff, Acceptable

-----------------------------------------------------------------------------
(* The steps, by what they change.                                         *)

\* Some barber proposes writes to rows of the own.
ProposeStep(q) == \E barber \in Barbers, writes \in Seq(Write) :
    OwnRows(barber, writes) /\ Insert(q, barber, writes)

ReceiveStep(c) == \E body \in Form : Receive(c, body)

LockStep(c) ==
    /\ pc[c] = "select"
    /\ ~RequestBusy(c)
    /\ InShop(c) /\ Pending(form[c].request)
    /\ pc' = [pc EXCEPT ![c] = "apply"]
    /\ UNCHANGED <<request, live, form, applied, staged>>

ApplyStep(c) ==
    /\ pc[c] = "apply" /\ HasWrite(c)
    /\ ~RowBusy(c, NextWrite(c).row)
    /\ Acceptable(NextWrite(c).diff)
    /\ staged' = [staged EXCEPT ![c] =
                     [r \in DOMAIN staged[c] \cup {NextWrite(c).row} |->
                         IF r = NextWrite(c).row
                         THEN Merge(Visible(c, NextWrite(c).row), NextWrite(c).diff)
                         ELSE staged[c][r]]]
    /\ applied' = [applied EXCEPT ![c] = @ + 1]
    /\ UNCHANGED <<request, live, pc, form>>

RejectStep(c) ==
    /\ pc[c] = "reject"
    /\ ~RequestBusy(c)
    /\ InShop(c) /\ Pending(form[c].request)
    /\ request' = [request EXCEPT ![form[c].request].status = "rejected",
                                  ![form[c].request].reviewedBy = c]
    /\ \E answer \in {"done", "error"} : End(c, answer)
    /\ UNCHANGED live

RollbackStep(c) ==
    /\ pc[c] \in Statements
    /\ \E answer \in Answers \ {"done"} : Rollback(c, answer)

\* A step of the specification is one of these.
LEMMA StepKinds ==
    ASSUME TypeOK, [Next]_vars
    PROVE  \/ \E q \in Requests : ProposeStep(q)
           \/ \E c \in Calls : \/ ReceiveStep(c) \/ LockStep(c) \/ ApplyStep(c)
                               \/ MarkApproved(c) \/ Commit(c) \/ RejectStep(c)
                               \/ RollbackStep(c)
           \/ UNCHANGED vars
<1>1. ASSUME NEW q \in Requests, NEW barber \in Barbers, NEW days \in Proposals,
             ProposeSchedule(q, barber, days)
      PROVE  ProposeStep(q)
  <2> DEFINE writes == [i \in DOMAIN days |->
                           [row |-> <<barber, days[i].weekday>>, diff |-> days[i].diff]]
  <2>1. days \in Seq([weekday : Weekdays, diff : [Columns -> Values]])
    BY ApprovalAssumption
  <2>2. Len(days) \in Nat /\ DOMAIN days = 1 .. Len(days)
    BY <2>1
  <2>3. \A i \in 1 .. Len(days) : days[i].weekday \in Weekdays /\ days[i].diff \in Diff
    <3> SUFFICES ASSUME NEW i \in 1 .. Len(days)
                 PROVE  days[i].weekday \in Weekdays /\ days[i].diff \in Diff
      OBVIOUS
    <3> HIDE DEF writes
    <3> DEFINE Day == [weekday : Weekdays, diff : [Columns -> Values]]
    <3> HIDE DEF Day
    <3>0. days \in Seq(Day)
      BY <2>1 DEF Day
    <3>1. days[i] \in Day
      BY <3>0
    <3>2. [Columns -> Values] \subseteq Diff
      BY DEF Diff
    <3> QED
      BY <3>1, <3>2 DEF Day
  <2>4. \A i \in 1 .. Len(days) : writes[i] \in Write
    BY <2>2, <2>3 DEF Write, Rows
  <2>5. writes \in Seq(Write) /\ Len(writes) = Len(days)
    BY <2>2, <2>4
  <2>6. \A i \in 1 .. Len(days) : RowBarber(writes[i].row) = barber
    <3> SUFFICES ASSUME NEW i \in 1 .. Len(days) PROVE RowBarber(writes[i].row) = barber
      OBVIOUS
    <3>1. writes[i].row = <<barber, days[i].weekday>> /\ writes[i].row \notin Services
      BY <2>2, <2>3, ApprovalAssumption
    <3> QED
      BY <3>1 DEF RowBarber
  <2> HIDE DEF writes
  <2>7. Insert(q, barber, writes)
    BY <1>1 DEF ProposeSchedule, writes
  <2> QED
    BY <2>5, <2>6, <2>7 DEF ProposeStep, OwnRows
<1>2. ASSUME NEW q \in Requests, NEW barber \in Barbers, NEW service \in Services,
             NEW diff \in Updates, ProposeUpdate(q, barber, service, diff)
      PROVE  ProposeStep(q)
  <2> DEFINE writes == <<[row |-> service, diff |-> diff]>>
  <2>1. writes \in Seq(Write) /\ Len(writes) = 1 /\ writes[1].row = service
    BY ApprovalAssumption DEF Write, Rows
  <2>2. OwnRows(barber, writes) /\ Insert(q, barber, writes)
    BY <1>2, <2>1 DEF ProposeUpdate, OwnRows, RowBarber
  <2> QED
    BY <2>1, <2>2 DEF ProposeStep
<1>3. ASSUME NEW c \in Calls, LockRequest(c)
      PROVE  LockStep(c) \/ RollbackStep(c)
  <2>1. CASE ~InShop(c)
    BY <1>3, <2>1 DEF LockRequest, RollbackStep, Statements, Answers
  <2>2. CASE InShop(c) /\ ~Pending(form[c].request)
    BY <1>3, <2>2 DEF LockRequest, RollbackStep, Statements, Answers
  <2>3. CASE InShop(c) /\ Pending(form[c].request)
    BY <1>3, <2>3 DEF LockRequest, LockStep
  <2> QED
    BY <2>1, <2>2, <2>3
<1>4. ASSUME NEW c \in Calls, ApplyWrite(c)
      PROVE  ApplyStep(c) \/ RollbackStep(c)
  <2>1. CASE Acceptable(NextWrite(c).diff)
    BY <1>4, <2>1 DEF ApplyWrite, ApplyStep
  <2>2. CASE ~Acceptable(NextWrite(c).diff)
    BY <1>4, <2>2 DEF ApplyWrite, RollbackStep, Statements, Answers
  <2> QED
    BY <2>1, <2>2
<1>5. ASSUME NEW c \in Calls, Reject(c)
      PROVE  RejectStep(c) \/ RollbackStep(c)
  <2>1. CASE InShop(c) /\ Pending(form[c].request)
    BY <1>5, <2>1 DEF Reject, RejectStep
  <2>2. CASE ~(InShop(c) /\ Pending(form[c].request))
    BY <1>5, <2>2 DEF Reject, RollbackStep, Statements, Answers
  <2> QED
    BY <2>1, <2>2
<1>6. ASSUME NEW c \in Calls, Deadline(c) \/ Abort(c)
      PROVE  RollbackStep(c)
  BY <1>6 DEF Deadline, Abort, Waiting, RollbackStep, Statements, Answers
<1> QED
  BY <1>1, <1>2, <1>3, <1>4, <1>5, <1>6 DEF Next, Handle, ReceiveStep

-----------------------------------------------------------------------------
(* Inductive holds initially, and every step keeps each part of it.        *)

\* A decision rewrites two columns of one request.
LEMMA Decided ==
    ASSUME TypeOK, NEW q \in Requests, Pending(q), NEW c \in Calls,
           NEW status \in {"approved", "rejected"},
           request' = [request EXCEPT ![q].status = status, ![q].reviewedBy = c]
    PROVE  /\ request' \in [Requests -> Request \cup {Nil}]
           /\ request'[q] \in Request
           /\ request'[q].barber = request[q].barber
           /\ request'[q].shop = request[q].shop
           /\ request'[q].writes = request[q].writes
           /\ request'[q].status = status
           /\ request'[q].reviewedBy = c
           /\ \A p \in Requests \ {q} : request'[p] = request[p]
<1>1. request[q] \in Request
  BY DEF TypeOK, Pending
<1>2. request'[q] = [barber |-> request[q].barber, shop |-> request[q].shop,
                     writes |-> request[q].writes, status |-> status, reviewedBy |-> c]
  BY <1>1 DEF TypeOK, Request
<1>3. request'[q] \in Request
  <2>1. /\ request[q].barber \in Barbers /\ request[q].shop \in Shops
        /\ request[q].writes \in Seq(Write)
    BY <1>1 DEF Request
  <2>2. [barber |-> request[q].barber, shop |-> request[q].shop,
         writes |-> request[q].writes, status |-> status, reviewedBy |-> c] \in Request
    BY <2>1, Zenon DEF Request
  <2> QED
    BY <1>2, <2>2
<1>4. \A p \in Requests \ {q} : request'[p] = request[p]
  BY DEF TypeOK
<1>5. request' \in [Requests -> Request \cup {Nil}]
  BY <1>3, <1>4 DEF TypeOK
<1> QED
  BY <1>1, <1>2, <1>3, <1>4, <1>5 DEF Request

\* What the statement of a payload is about.
LEMMA WriteTyped ==
    ASSUME TypeOK, NEW c \in Calls, form[c] \in Form, request[form[c].request] # Nil
    PROVE  /\ form[c].request \in Requests
           /\ request[form[c].request] \in Request
           /\ WritesOf(c) \in Seq(Write)
           /\ Len(WritesOf(c)) \in Nat
           /\ \A i \in 1 .. Len(WritesOf(c)) : /\ WritesOf(c)[i].row \in Rows
                                               /\ WritesOf(c)[i].diff \in Diff
<1>1. form[c].request \in Requests
  BY DEF Form
<1>2. request[form[c].request] \in Request
  BY <1>1 DEF TypeOK
<1>3. WritesOf(c) \in Seq(Write)
  BY <1>2 DEF Request, WritesOf
<1> HIDE DEF Inductive
<1>4. ASSUME NEW i \in 1 .. Len(WritesOf(c)) PROVE WritesOf(c)[i] \in Write
  BY <1>3
<1> QED
  BY <1>1, <1>2, <1>3, <1>4 DEF Write

LEMMA InitInductive == Init => Inductive
<1> SUFFICES ASSUME Init PROVE Inductive
  OBVIOUS
<1>1. TypeOK
  BY DEF Init, TypeOK, Content, NothingStaged
<1>2. CallsInOrder /\ Transactions
  BY DEF Init, CallsInOrder, Transactions, InTransaction
<1>3. LocksExclude
  BY DEF Init, LocksExclude, NothingStaged, InTransaction
<1>4. StagedAfterWrites /\ ProposalsOwned /\ DecisionsStand
  BY DEF Init, StagedAfterWrites, ProposalsOwned, DecisionsStand, InTransaction
<1> QED
  BY <1>1, <1>2, <1>3, <1>4 DEF Inductive

\* The next write finds its row typed, and leaves it so.
LEMMA VisibleTyped ==
    ASSUME TypeOK, NEW c \in Calls, NEW row \in Rows
    PROVE  Visible(c, row) \in Content
  BY DEF TypeOK, Visible

LEMMA TypeStep == ASSUME Inductive, [Next]_vars PROVE TypeOK'
<1> USE DEF Inductive
<1>1. ASSUME NEW q \in Requests, ProposeStep(q) PROVE TypeOK'
  <2>1. PICK barber \in Barbers, writes \in Seq(Write) : Insert(q, barber, writes)
    BY <1>1 DEF ProposeStep
  <2>2. BarberShop[barber] \in Shops
    BY ApprovalAssumption
  <2>3. [barber |-> barber, shop |-> BarberShop[barber], writes |-> writes,
         status |-> "pending", reviewedBy |-> Nil] \in Request
    BY <2>2 DEF Request
  <2>4. request' \in [Requests -> Request \cup {Nil}]
    BY <2>1, <2>3 DEF Insert, TypeOK
  <2> QED
    BY <2>1, <2>4 DEF Insert, TypeOK
<1>2. ASSUME NEW c \in Calls, ReceiveStep(c) PROVE TypeOK'
  <2>1. PICK body \in Form : Receive(c, body)
    BY <1>2 DEF ReceiveStep
  <2> QED
    BY <2>1 DEF Receive, TypeOK, Statements
<1>3. ASSUME NEW c \in Calls, LockStep(c) PROVE TypeOK'
  BY <1>3 DEF LockStep, TypeOK, Statements
<1>4. ASSUME NEW c \in Calls, ApplyStep(c) PROVE TypeOK'
  <2>1. InShop(c) /\ form[c] \in Form /\ applied[c] \in Nat
    BY <1>4 DEF ApplyStep, Transactions, Transaction, CallsInOrder, InTransaction, TypeOK
  <2>2. applied[c] + 1 \in 1 .. Len(WritesOf(c))
    BY <1>4, <2>1, WriteTyped DEF ApplyStep, HasWrite, InShop
  <2>3. NextWrite(c).row \in Rows /\ NextWrite(c).diff \in Diff
    BY <2>1, <2>2, WriteTyped DEF NextWrite, InShop
  <2>4. Merge(Visible(c, NextWrite(c).row), NextWrite(c).diff) \in Content
    BY <1>4, <2>3, VisibleTyped, MergeFits DEF ApplyStep
  <2>5. applied' \in [Calls -> Nat]
    BY <1>4, <2>1 DEF ApplyStep, TypeOK
  <2>6. DOMAIN staged' = Calls
    BY <1>4 DEF ApplyStep, TypeOK
  <2>7. ASSUME NEW d \in Calls
        PROVE  DOMAIN staged'[d] \subseteq Rows /\ staged'[d] \in [DOMAIN staged'[d] -> Content]
    <3>1. CASE d # c
      BY <1>4, <3>1 DEF ApplyStep, TypeOK
    <3>2. CASE d = c
      <4>1. staged'[c] = [r \in DOMAIN staged[c] \cup {NextWrite(c).row} |->
                             IF r = NextWrite(c).row
                             THEN Merge(Visible(c, NextWrite(c).row), NextWrite(c).diff)
                             ELSE staged[c][r]]
        BY <1>4 DEF ApplyStep, TypeOK
      <4>2. \A r \in DOMAIN staged[c] : staged[c][r] \in Content
        BY DEF TypeOK
      <4> QED
        BY <2>3, <2>4, <3>2, <4>1, <4>2 DEF TypeOK
    <3> QED
      BY <3>1, <3>2
  <2> QED
    BY <1>4, <2>5, <2>6, <2>7 DEF ApplyStep, TypeOK
<1>5. ASSUME NEW c \in Calls, MarkApproved(c) PROVE TypeOK'
  BY <1>5 DEF MarkApproved, TypeOK, Statements
<1>6. ASSUME NEW c \in Calls, Commit(c) PROVE TypeOK'
  <2>1. InShop(c) /\ Pending(form[c].request) /\ form[c].request \in Requests
    BY <1>6 DEF Commit, Transactions, Transaction, CallsInOrder, InTransaction, Form
  <2>2. request' \in [Requests -> Request \cup {Nil}]
    BY <1>6, <2>1, Decided DEF Commit
  <2>3. live' \in [Rows -> Content]
    BY <1>6, VisibleTyped DEF Commit
  <2>4. PICK answer \in {"done", "error"} : End(c, answer)
    BY <1>6 DEF Commit
  <2> QED
    BY <2>2, <2>3, <2>4 DEF End, TypeOK, Answers, NothingStaged
<1>7. ASSUME NEW c \in Calls, RejectStep(c) PROVE TypeOK'
  <2>1. Pending(form[c].request) /\ form[c].request \in Requests
    BY <1>7 DEF RejectStep, CallsInOrder, Form
  <2>2. request' \in [Requests -> Request \cup {Nil}]
    BY <1>7, <2>1, Decided DEF RejectStep
  <2>3. /\ \E answer \in {"done", "error"} : End(c, answer)
        /\ live' = live
    BY <1>7 DEF RejectStep
  <2> QED
    BY <2>2, <2>3 DEF End, TypeOK, Answers, NothingStaged
<1>8. ASSUME NEW c \in Calls, RollbackStep(c) PROVE TypeOK'
  BY <1>8 DEF RollbackStep, Rollback, End, TypeOK, Answers, NothingStaged
<1>9. CASE UNCHANGED vars
  BY <1>9 DEF vars, TypeOK
<1> QED
  BY <1>1, <1>2, <1>3, <1>4, <1>5, <1>6, <1>7, <1>8, <1>9, StepKinds DEF Inductive

LEMMA CallsStep == ASSUME Inductive, [Next]_vars PROVE CallsInOrder'
<1> USE DEF Inductive, InTransaction
<1>1. ASSUME NEW q \in Requests, ProposeStep(q) PROVE CallsInOrder'
  BY <1>1 DEF ProposeStep, Insert, CallsInOrder
<1>2. ASSUME NEW c \in Calls, ReceiveStep(c) PROVE CallsInOrder'
  BY <1>2 DEF ReceiveStep, Receive, TypeOK, CallsInOrder, Form
<1>3. ASSUME NEW c \in Calls, LockStep(c) PROVE CallsInOrder'
  BY <1>3 DEF LockStep, TypeOK, CallsInOrder
<1>4. ASSUME NEW c \in Calls, ApplyStep(c) PROVE CallsInOrder'
  BY <1>4 DEF ApplyStep, TypeOK, CallsInOrder
<1>5. ASSUME NEW c \in Calls, MarkApproved(c) PROVE CallsInOrder'
  BY <1>5 DEF MarkApproved, TypeOK, CallsInOrder
<1>6. ASSUME NEW c \in Calls, Commit(c) PROVE CallsInOrder'
  BY <1>6 DEF Commit, End, TypeOK, CallsInOrder, Answers
<1>7. ASSUME NEW c \in Calls, RejectStep(c) PROVE CallsInOrder'
  BY <1>7 DEF RejectStep, End, TypeOK, CallsInOrder, Answers
<1>8. ASSUME NEW c \in Calls, RollbackStep(c) PROVE CallsInOrder'
  BY <1>8 DEF RollbackStep, Rollback, End, TypeOK, CallsInOrder, Answers, Statements
<1>9. CASE UNCHANGED vars
  BY <1>9 DEF vars, CallsInOrder
<1> QED
  BY <1>1, <1>2, <1>3, <1>4, <1>5, <1>6, <1>7, <1>8, <1>9, StepKinds DEF Inductive

LEMMA OwnedStep == ASSUME Inductive, [Next]_vars PROVE ProposalsOwned'
<1> USE DEF Inductive
<1>1. ASSUME NEW q \in Requests, ProposeStep(q) PROVE ProposalsOwned'
  <2>1. PICK barber \in Barbers, writes \in Seq(Write) :
            OwnRows(barber, writes) /\ Insert(q, barber, writes)
    BY <1>1 DEF ProposeStep
  <2>2. request'[q] = [barber |-> barber, shop |-> BarberShop[barber], writes |-> writes,
                       status |-> "pending", reviewedBy |-> Nil]
    BY <2>1 DEF Insert, TypeOK
  <2>3. \A p \in Requests \ {q} : request'[p] = request[p]
    BY <2>1 DEF Insert, TypeOK
  <2> QED
    BY <2>1, <2>2, <2>3 DEF ProposalsOwned, OwnRows
<1>2. ASSUME NEW c \in Calls, ReceiveStep(c) PROVE ProposalsOwned'
  BY <1>2 DEF ReceiveStep, Receive, ProposalsOwned
<1>3. ASSUME NEW c \in Calls, LockStep(c) PROVE ProposalsOwned'
  BY <1>3 DEF LockStep, ProposalsOwned
<1>4. ASSUME NEW c \in Calls, ApplyStep(c) PROVE ProposalsOwned'
  BY <1>4 DEF ApplyStep, ProposalsOwned
<1>5. ASSUME NEW c \in Calls, MarkApproved(c) PROVE ProposalsOwned'
  BY <1>5 DEF MarkApproved, ProposalsOwned
<1>6. ASSUME NEW c \in Calls, Commit(c) PROVE ProposalsOwned'
  <2>1. Pending(form[c].request) /\ form[c].request \in Requests
    BY <1>6 DEF Commit, Transactions, Transaction, CallsInOrder, InTransaction, Form
  <2>2. request' = [request EXCEPT ![form[c].request].status = "approved",
                                   ![form[c].request].reviewedBy = c]
    BY <1>6 DEF Commit
  <2>3. /\ request'[form[c].request].barber = request[form[c].request].barber
        /\ request'[form[c].request].shop = request[form[c].request].shop
        /\ request'[form[c].request].writes = request[form[c].request].writes
        /\ \A p \in Requests \ {form[c].request} : request'[p] = request[p]
    BY <2>1, <2>2, Decided
  <2> QED
    BY <2>1, <2>3 DEF ProposalsOwned, Pending
<1>7. ASSUME NEW c \in Calls, RejectStep(c) PROVE ProposalsOwned'
  <2>1. Pending(form[c].request) /\ form[c].request \in Requests
    BY <1>7 DEF RejectStep, CallsInOrder, Form
  <2>2. request' = [request EXCEPT ![form[c].request].status = "rejected",
                                   ![form[c].request].reviewedBy = c]
    BY <1>7 DEF RejectStep
  <2>3. /\ request'[form[c].request].barber = request[form[c].request].barber
        /\ request'[form[c].request].shop = request[form[c].request].shop
        /\ request'[form[c].request].writes = request[form[c].request].writes
        /\ \A p \in Requests \ {form[c].request} : request'[p] = request[p]
    BY <2>1, <2>2, Decided
  <2> QED
    BY <2>1, <2>3 DEF ProposalsOwned, Pending
<1>8. ASSUME NEW c \in Calls, RollbackStep(c) PROVE ProposalsOwned'
  BY <1>8 DEF RollbackStep, Rollback, ProposalsOwned
<1>9. CASE UNCHANGED vars
  BY <1>9 DEF vars, ProposalsOwned
<1> QED
  BY <1>1, <1>2, <1>3, <1>4, <1>5, <1>6, <1>7, <1>8, <1>9, StepKinds DEF Inductive

\* A transaction that nobody touches goes on.
LEMMA TransactionKept ==
    ASSUME NEW e \in Calls, Transaction(e), pc'[e] = pc[e], form'[e] = form[e],
           applied'[e] = applied[e], staged'[e] = staged[e],
           request'[form[e].request] = request[form[e].request]
    PROVE  Transaction(e)'
  BY DEF Transaction, InShop, Pending, WritesOf

\* The request that a step decides is not the one of a transaction of others.
LEMMA OthersRequest ==
    ASSUME Inductive, NEW c \in Calls, NEW e \in Calls \ {c}, pc[e] \in InTransaction,
           Commit(c) \/ RejectStep(c)
    PROVE  request'[form[e].request] = request[form[e].request]
<1> USE DEF Inductive
<1>1. form[c].request \in Requests /\ form[e].request \in Requests
  BY DEF CallsInOrder, Form, Commit, RejectStep, InTransaction
<1>2. form[c].request # form[e].request
  BY DEF LocksExclude, RequestBusy, Commit, RejectStep, InTransaction
<1> QED
  BY <1>1, <1>2 DEF Commit, RejectStep, TypeOK

\* Neither is it one that was decided before.
LEMMA DecidedKept ==
    ASSUME Inductive, NEW c \in Calls, Commit(c) \/ RejectStep(c),
           NEW q \in Requests, ~Pending(q)
    PROVE  request'[q] = request[q]
<1> USE DEF Inductive
<1>1. Pending(form[c].request) /\ form[c].request \in Requests
  BY DEF CallsInOrder, Form, Transactions, Transaction, Commit, RejectStep, InTransaction
<1> QED
  BY <1>1 DEF Commit, RejectStep, TypeOK

LEMMA TransactionsStep == ASSUME Inductive, [Next]_vars PROVE Transactions'
<1> USE DEF Inductive
<1> SUFFICES ASSUME NEW e \in Calls, pc'[e] \in InTransaction PROVE Transaction(e)'
  BY DEF Transactions, InTransaction
<1>1. ASSUME NEW q \in Requests, ProposeStep(q) PROVE Transaction(e)'
  <2>1. pc[e] \in InTransaction /\ Transaction(e)
    BY <1>1 DEF ProposeStep, Insert, Transactions
  <2>2. request'[form[e].request] = request[form[e].request]
    BY <1>1, <2>1 DEF ProposeStep, Insert, Transaction, Pending, TypeOK
  <2> QED
    BY <1>1, <2>1, <2>2, TransactionKept DEF ProposeStep, Insert
<1>2. ASSUME NEW c \in Calls, ReceiveStep(c) PROVE Transaction(e)'
  <2>1. e # c /\ pc[e] \in InTransaction
    BY <1>2 DEF ReceiveStep, Receive, TypeOK, InTransaction, Form
  <2> QED
    BY <1>2, <2>1, TransactionKept DEF ReceiveStep, Receive, TypeOK, Transactions
<1>3. ASSUME NEW c \in Calls, LockStep(c) PROVE Transaction(e)'
  <2>1. CASE e # c
    BY <1>3, <2>1, TransactionKept DEF LockStep, TypeOK, Transactions
  <2>2. CASE e = c
    <3>1. applied[c] = 0 /\ staged[c] = NothingStaged /\ form[c] \in Form
      BY <1>3 DEF LockStep, CallsInOrder, InTransaction
    <3>2. Len(WritesOf(c)) \in Nat
      BY <1>3, <3>1, WriteTyped DEF LockStep, InShop
    <3> QED
      BY <1>3, <2>2, <3>1, <3>2
      DEF LockStep, Transaction, TypeOK, NothingStaged, InShop, Pending, WritesOf
  <2> QED
    BY <2>1, <2>2
<1>4. ASSUME NEW c \in Calls, ApplyStep(c) PROVE Transaction(e)'
  <2>1. CASE e # c
    BY <1>4, <2>1, TransactionKept DEF ApplyStep, TypeOK, Transactions
  <2>2. CASE e = c
    <3>1. Transaction(c) /\ applied[c] \in Nat /\ form[c] \in Form
      BY <1>4 DEF ApplyStep, Transactions, CallsInOrder, InTransaction, TypeOK
    <3>2. Len(WritesOf(c)) \in Nat /\ applied[c] + 1 \in 1 .. Len(WritesOf(c))
      BY <1>4, <3>1, WriteTyped DEF ApplyStep, HasWrite, Transaction, InShop
    <3>3. applied'[c] = applied[c] + 1 /\ WritesOf(c)' = WritesOf(c) /\ pc'[c] = "apply"
      BY <1>4 DEF ApplyStep, TypeOK, WritesOf
    <3>4. \A i \in 1 .. applied'[c] : Acceptable(WritesOf(c)[i].diff)
      <4>1. \A i \in 1 .. applied'[c] : i \in 1 .. applied[c] \/ i = applied[c] + 1
        BY <3>1, <3>3
      <4> QED
        BY <1>4, <3>1, <4>1 DEF ApplyStep, NextWrite, Transaction
    <3>5. DOMAIN staged'[c] = DOMAIN staged[c] \cup {NextWrite(c).row}
      BY <1>4 DEF ApplyStep, TypeOK
    <3>6. DOMAIN staged'[c] = {WritesOf(c)[i].row : i \in 1 .. applied'[c]}
      BY <3>1, <3>3, <3>5 DEF Transaction, NextWrite
    <3>7. (InShop(c) /\ Pending(form[c].request))'
      BY <1>4, <3>1 DEF ApplyStep, Transaction, InShop, Pending
    <3> QED
      BY <2>2, <3>2, <3>3, <3>4, <3>6, <3>7 DEF Transaction
  <2> QED
    BY <2>1, <2>2
<1>5. ASSUME NEW c \in Calls, MarkApproved(c) PROVE Transaction(e)'
  <2>1. CASE e # c
    BY <1>5, <2>1, TransactionKept DEF MarkApproved, TypeOK, Transactions
  <2>2. CASE e = c
    <3>1. Transaction(c) /\ applied[c] = Len(WritesOf(c))
      BY <1>5 DEF MarkApproved, HasWrite, Transactions, Transaction, InTransaction, TypeOK
    <3> QED
      BY <1>5, <2>2, <3>1 DEF MarkApproved, Transaction, InShop, Pending, WritesOf
  <2> QED
    BY <2>1, <2>2
<1>6. ASSUME NEW c \in Calls, Commit(c) PROVE Transaction(e)'
  <2>1. e # c /\ pc[e] \in InTransaction
    BY <1>6 DEF Commit, End, Rollback, TypeOK, Answers, InTransaction
  <2>2. Transaction(e)
    BY <2>1 DEF Transactions
  <2>3. request'[form[e].request] = request[form[e].request]
    BY <1>6, <2>1, OthersRequest
  <2> QED
    BY <1>6, <2>1, <2>2, <2>3, TransactionKept DEF Commit, End, TypeOK
<1>7. ASSUME NEW c \in Calls, RejectStep(c) PROVE Transaction(e)'
  <2>1. e # c /\ pc[e] \in InTransaction
    BY <1>7 DEF RejectStep, End, Rollback, TypeOK, Answers, InTransaction
  <2>2. Transaction(e)
    BY <2>1 DEF Transactions
  <2>3. request'[form[e].request] = request[form[e].request]
    BY <1>7, <2>1, OthersRequest
  <2> QED
    BY <1>7, <2>1, <2>2, <2>3, TransactionKept DEF RejectStep, End, TypeOK
<1>8. ASSUME NEW c \in Calls, RollbackStep(c) PROVE Transaction(e)'
  <2>1. e # c /\ pc[e] \in InTransaction
    BY <1>8 DEF RollbackStep, End, Rollback, TypeOK, Answers, InTransaction
  <2>2. Transaction(e)
    BY <2>1 DEF Transactions
  <2> QED
    BY <1>8, <2>1, <2>2, TransactionKept DEF RollbackStep, Rollback, End, TypeOK
<1>9. CASE UNCHANGED vars
  BY <1>9, TransactionKept DEF vars, Transactions
<1> QED
  BY <1>1, <1>2, <1>3, <1>4, <1>5, <1>6, <1>7, <1>8, <1>9, StepKinds DEF Inductive

LEMMA LocksStep == ASSUME Inductive, [Next]_vars PROVE LocksExclude'
<1> USE DEF Inductive
<1>1. ASSUME NEW q \in Requests, ProposeStep(q) PROVE LocksExclude'
  BY <1>1 DEF ProposeStep, Insert, LocksExclude, InTransaction
<1>2. ASSUME NEW c \in Calls, ReceiveStep(c) PROVE LocksExclude'
  BY <1>2 DEF ReceiveStep, Receive, LocksExclude, InTransaction, TypeOK
<1>3. ASSUME NEW c \in Calls, LockStep(c) PROVE LocksExclude'
  BY <1>3 DEF LockStep, RequestBusy, LocksExclude, InTransaction, TypeOK
<1>4. ASSUME NEW c \in Calls, ApplyStep(c) PROVE LocksExclude'
  <2>1. /\ pc' = pc /\ form' = form
        /\ DOMAIN staged'[c] = DOMAIN staged[c] \cup {NextWrite(c).row}
        /\ \A d \in Calls \ {c} : staged'[d] = staged[d] /\ NextWrite(c).row \notin DOMAIN staged[d]
    BY <1>4 DEF ApplyStep, TypeOK, RowBusy
  <2> QED
    BY <2>1 DEF LocksExclude, InTransaction
<1>5. ASSUME NEW c \in Calls, MarkApproved(c) PROVE LocksExclude'
  BY <1>5 DEF MarkApproved, LocksExclude, InTransaction, TypeOK
<1>6. ASSUME NEW c \in Calls, Commit(c) PROVE LocksExclude'
  <2>1. /\ form' = form /\ staged'[c] = NothingStaged /\ pc'[c] \notin InTransaction
        /\ \A d \in Calls \ {c} : staged'[d] = staged[d] /\ pc'[d] = pc[d]
    BY <1>6 DEF Commit, Rollback, End, TypeOK, Answers, InTransaction
  <2>2. DOMAIN staged'[c] = {}
    BY <2>1 DEF NothingStaged
  <2> QED
    BY <2>1, <2>2 DEF LocksExclude, InTransaction
<1>7. ASSUME NEW c \in Calls, RejectStep(c) PROVE LocksExclude'
  <2>1. /\ form' = form /\ staged'[c] = NothingStaged /\ pc'[c] \notin InTransaction
        /\ \A d \in Calls \ {c} : staged'[d] = staged[d] /\ pc'[d] = pc[d]
    BY <1>7 DEF RejectStep, Rollback, End, TypeOK, Answers, InTransaction
  <2>2. DOMAIN staged'[c] = {}
    BY <2>1 DEF NothingStaged
  <2> QED
    BY <2>1, <2>2 DEF LocksExclude, InTransaction
<1>8. ASSUME NEW c \in Calls, RollbackStep(c) PROVE LocksExclude'
  <2>1. /\ form' = form /\ staged'[c] = NothingStaged /\ pc'[c] \notin InTransaction
        /\ \A d \in Calls \ {c} : staged'[d] = staged[d] /\ pc'[d] = pc[d]
    BY <1>8 DEF RollbackStep, Rollback, End, TypeOK, Answers, InTransaction
  <2>2. DOMAIN staged'[c] = {}
    BY <2>1 DEF NothingStaged
  <2> QED
    BY <2>1, <2>2 DEF LocksExclude, InTransaction
<1>9. CASE UNCHANGED vars
  BY <1>9 DEF vars, LocksExclude, InTransaction
<1> QED
  BY <1>1, <1>2, <1>3, <1>4, <1>5, <1>6, <1>7, <1>8, <1>9, StepKinds DEF Inductive

\* Rows that are held and not changed stay as the writes leave them.
LEMMA RowsKept ==
    ASSUME NEW e \in Calls, StagedRows(e), form'[e] = form[e], applied'[e] = applied[e],
           staged'[e] = staged[e], request'[form[e].request] = request[form[e].request],
           \A row \in DOMAIN staged[e] : live'[row] = live[row]
    PROVE  StagedRows(e)'
  BY DEF StagedRows, WritesOf

LEMMA RowsStep == ASSUME Inductive, [Next]_vars PROVE StagedAfterWrites'
<1> USE DEF Inductive
<1> SUFFICES ASSUME NEW e \in Calls, pc'[e] \in InTransaction PROVE StagedRows(e)'
  BY DEF StagedAfterWrites, InTransaction
<1>1. ASSUME NEW q \in Requests, ProposeStep(q) PROVE StagedRows(e)'
  <2>1. pc[e] \in InTransaction /\ Transaction(e) /\ StagedRows(e)
    BY <1>1 DEF ProposeStep, Insert, Transactions, StagedAfterWrites
  <2>2. request'[form[e].request] = request[form[e].request]
    BY <1>1, <2>1 DEF ProposeStep, Insert, Transaction, Pending, TypeOK
  <2> QED
    BY <1>1, <2>1, <2>2, RowsKept DEF ProposeStep, Insert
<1>2. ASSUME NEW c \in Calls, ReceiveStep(c) PROVE StagedRows(e)'
  <2>1. e # c /\ pc[e] \in InTransaction
    BY <1>2 DEF ReceiveStep, Receive, TypeOK, InTransaction, Form
  <2> QED
    BY <1>2, <2>1, RowsKept DEF ReceiveStep, Receive, TypeOK, StagedAfterWrites
<1>3. ASSUME NEW c \in Calls, LockStep(c) PROVE StagedRows(e)'
  <2>1. CASE e # c
    BY <1>3, <2>1, RowsKept DEF LockStep, TypeOK, StagedAfterWrites
  <2>2. CASE e = c
    <3>1. DOMAIN staged'[c] = {}
      BY <1>3 DEF LockStep, CallsInOrder, InTransaction, NothingStaged
    <3> QED
      BY <2>2, <3>1 DEF StagedRows
  <2> QED
    BY <2>1, <2>2
<1>4. ASSUME NEW c \in Calls, ApplyStep(c) PROVE StagedRows(e)'
  <2>1. CASE e # c
    BY <1>4, <2>1, RowsKept DEF ApplyStep, TypeOK, StagedAfterWrites
  <2>2. CASE e = c
    <3>1. /\ Transaction(c) /\ StagedRows(c) /\ applied[c] \in Nat
      BY <1>4 DEF ApplyStep, Transactions, StagedAfterWrites, InTransaction, TypeOK
    <3>2. /\ applied'[c] = applied[c] + 1 /\ WritesOf(c)' = WritesOf(c) /\ live' = live
          /\ DOMAIN staged'[c] = DOMAIN staged[c] \cup {NextWrite(c).row}
      BY <1>4 DEF ApplyStep, TypeOK, WritesOf
    <3>3. ASSUME NEW row \in DOMAIN staged'[c], row = NextWrite(c).row
          PROVE  staged'[c][row] = RowAfter(WritesOf(c), applied[c] + 1, row, live[row])
      <4>1. staged'[c][row] = Merge(Visible(c, row), WritesOf(c)[applied[c] + 1].diff)
        BY <1>4, <3>2, <3>3 DEF ApplyStep, TypeOK, NextWrite
      <4>2. Visible(c, row) = RowAfter(WritesOf(c), applied[c], row, live[row])
        <5>1. CASE row \in DOMAIN staged[c]
          BY <3>1, <5>1 DEF StagedRows, Visible
        <5>2. CASE row \notin DOMAIN staged[c]
          <6>1. \A i \in 1 .. applied[c] : WritesOf(c)[i].row # row
            BY <3>1, <5>2 DEF Transaction
          <6>2. row \in Rows
            <7>1. form[c] \in Form /\ request[form[c].request] # Nil
              BY <1>4, <3>1 DEF ApplyStep, CallsInOrder, Transaction, InShop
            <7>2. applied[c] + 1 \in 1 .. Len(WritesOf(c))
              BY <1>4, <3>1, <7>1, WriteTyped DEF ApplyStep, HasWrite
            <7> QED
              BY <3>3, <7>1, <7>2, WriteTyped DEF NextWrite
          <6>3. live[row] \in [Columns -> Values \cup {Nil}]
            BY <6>2 DEF TypeOK, Content
          <6> QED
            BY <3>1, <5>2, <6>1, <6>3, RowNotWritten DEF Visible
        <5> QED
          BY <5>1, <5>2
      <4>3. WritesOf(c)[applied[c] + 1].row = row
        BY <3>3 DEF NextWrite
      <4> QED
        BY <3>1, <4>1, <4>2, <4>3, RowWritten
    <3>4. ASSUME NEW row \in DOMAIN staged'[c], row # NextWrite(c).row
          PROVE  staged'[c][row] = RowAfter(WritesOf(c), applied[c] + 1, row, live[row])
      <4>1. row \in DOMAIN staged[c] /\ staged'[c][row] = staged[c][row]
        BY <1>4, <3>2, <3>4 DEF ApplyStep, TypeOK
      <4>2. WritesOf(c)[applied[c] + 1].row # row
        BY <3>4 DEF NextWrite
      <4> QED
        BY <3>1, <4>1, <4>2, OtherRowWritten DEF StagedRows
    <3> QED
      BY <2>2, <3>2, <3>3, <3>4 DEF StagedRows
  <2> QED
    BY <2>1, <2>2
<1>5. ASSUME NEW c \in Calls, MarkApproved(c) PROVE StagedRows(e)'
  <2>1. CASE e # c
    BY <1>5, <2>1, RowsKept DEF MarkApproved, TypeOK, StagedAfterWrites
  <2>2. CASE e = c
    BY <1>5, <2>2, RowsKept DEF MarkApproved, StagedAfterWrites, InTransaction
  <2> QED
    BY <2>1, <2>2
<1>6. ASSUME NEW c \in Calls, Commit(c) PROVE StagedRows(e)'
  <2>1. e # c /\ pc[e] \in InTransaction
    BY <1>6 DEF Commit, End, Rollback, TypeOK, Answers, InTransaction
  <2>2. StagedRows(e)
    BY <2>1 DEF StagedAfterWrites
  <2>3. request'[form[e].request] = request[form[e].request]
    BY <1>6, <2>1, OthersRequest DEF RollbackStep, Rollback
  <2>4. \A row \in DOMAIN staged[e] : row \in Rows /\ row \notin DOMAIN staged[c]
    BY <2>1 DEF LocksExclude, TypeOK
  <2>5. \A row \in DOMAIN staged[e] : live'[row] = live[row]
    BY <1>6, <2>4 DEF Commit, Visible
  <2> QED
    BY <1>6, <2>1, <2>2, <2>3, <2>5, RowsKept DEF Commit, End, TypeOK
<1>7. ASSUME NEW c \in Calls, RejectStep(c) PROVE StagedRows(e)'
  <2>1. e # c /\ pc[e] \in InTransaction
    BY <1>7 DEF RejectStep, End, Rollback, TypeOK, Answers, InTransaction
  <2>2. StagedRows(e)
    BY <2>1 DEF StagedAfterWrites
  <2>3. request'[form[e].request] = request[form[e].request]
    BY <1>7, <2>1, OthersRequest DEF RollbackStep, Rollback
  <2> QED
    BY <1>7, <2>1, <2>2, <2>3, RowsKept DEF RejectStep, End, TypeOK
<1>8. ASSUME NEW c \in Calls, RollbackStep(c) PROVE StagedRows(e)'
  <2>1. e # c /\ pc[e] \in InTransaction
    BY <1>8 DEF RollbackStep, End, Rollback, TypeOK, Answers, InTransaction
  <2>2. StagedRows(e)
    BY <2>1 DEF StagedAfterWrites
  <2>3. request'[form[e].request] = request[form[e].request]
    BY <1>8, <2>1, OthersRequest DEF RollbackStep, Rollback
  <2> QED
    BY <1>8, <2>1, <2>2, <2>3, RowsKept DEF RollbackStep, Rollback, End, TypeOK
<1>9. CASE UNCHANGED vars
  BY <1>9, RowsKept DEF vars, StagedAfterWrites
<1> QED
  BY <1>1, <1>2, <1>3, <1>4, <1>5, <1>6, <1>7, <1>8, <1>9, StepKinds DEF Inductive

\* What DecisionsStand says of one call, and when it stays so.
Decision(e) ==
    /\ request[form[e].request] # Nil
    /\ request[form[e].request].reviewedBy = e
    /\ request[form[e].request].status = (IF form[e].op = "approve" THEN "approved" ELSE "rejected")

LEMMA DecisionsStep == ASSUME Inductive, [Next]_vars PROVE DecisionsStand'
<1> USE DEF Inductive
<1> SUFFICES ASSUME NEW e \in Calls, pc'[e] = "done" PROVE Decision(e)'
  BY DEF DecisionsStand, Decision
<1>0. ASSUME pc[e] = "done" PROVE Decision(e) /\ ~Pending(form[e].request) /\ form[e] \in Form
  BY <1>0 DEF DecisionsStand, Decision, Pending, CallsInOrder
<1>1. ASSUME NEW q \in Requests, ProposeStep(q) PROVE Decision(e)'
  <2>1. pc[e] = "done" /\ form' = form
    BY <1>1 DEF ProposeStep, Insert
  <2>2. request'[form[e].request] = request[form[e].request]
    BY <1>1, <1>0, <2>1 DEF ProposeStep, Insert, Decision, TypeOK
  <2> QED
    BY <1>0, <2>1, <2>2 DEF Decision
<1>2. ASSUME NEW c \in Calls, ReceiveStep(c) PROVE Decision(e)'
  <2>1. e # c /\ pc[e] = "done"
    BY <1>2 DEF ReceiveStep, Receive, TypeOK
  <2> QED
    BY <1>2, <1>0, <2>1 DEF ReceiveStep, Receive, TypeOK, Decision
<1>3. ASSUME NEW c \in Calls, LockStep(c) PROVE Decision(e)'
  <2>1. pc[e] = "done" /\ form'[e] = form[e] /\ request' = request
    BY <1>3 DEF LockStep, TypeOK, Form
  <2> QED
    BY <1>0, <2>1 DEF Decision
<1>4. ASSUME NEW c \in Calls, ApplyStep(c) PROVE Decision(e)'
  <2>1. pc[e] = "done" /\ form'[e] = form[e] /\ request' = request
    BY <1>4 DEF ApplyStep, TypeOK, Form
  <2> QED
    BY <1>0, <2>1 DEF Decision
<1>5. ASSUME NEW c \in Calls, MarkApproved(c) PROVE Decision(e)'
  <2>1. pc[e] = "done" /\ form'[e] = form[e] /\ request' = request
    BY <1>5 DEF MarkApproved, TypeOK, Form
  <2> QED
    BY <1>0, <2>1 DEF Decision
<1>6. ASSUME NEW c \in Calls, Commit(c) PROVE Decision(e)'
  <2>1. form' = form /\ form[c] \in Form
    BY <1>6 DEF Commit, End, CallsInOrder
  <2>2. CASE e # c
    <3>1. pc[e] = "done"
      BY <1>6, <2>2 DEF Commit, End, TypeOK
    <3>2. request'[form[e].request] = request[form[e].request]
      BY <1>6, <1>0, <3>1, DecidedKept DEF Form
    <3> QED
      BY <1>0, <2>1, <3>1, <3>2 DEF Decision
  <2>3. CASE e = c
    <3>1. form[c].op = "approve" /\ Pending(form[c].request) /\ form[c].request \in Requests
      BY <1>6, <2>1 DEF Commit, CallsInOrder, Transactions, Transaction, InTransaction, Form
    <3>2. request' = [request EXCEPT ![form[c].request].status = "approved",
                                     ![form[c].request].reviewedBy = c]
      BY <1>6 DEF Commit
    <3>3. /\ request'[form[c].request] \in Request
          /\ request'[form[c].request].status = "approved"
          /\ request'[form[c].request].reviewedBy = c
      BY <3>1, <3>2, Decided
    <3> QED
      BY <2>1, <2>3, <3>1, <3>3, NilIsNoRequest DEF Decision
  <2> QED
    BY <2>2, <2>3
<1>7. ASSUME NEW c \in Calls, RejectStep(c) PROVE Decision(e)'
  <2>1. form' = form /\ form[c] \in Form
    BY <1>7 DEF RejectStep, End, CallsInOrder
  <2>2. CASE e # c
    <3>1. pc[e] = "done"
      BY <1>7, <2>2 DEF RejectStep, End, TypeOK
    <3>2. request'[form[e].request] = request[form[e].request]
      BY <1>7, <1>0, <3>1, DecidedKept DEF Form
    <3> QED
      BY <1>0, <2>1, <3>1, <3>2 DEF Decision
  <2>3. CASE e = c
    <3>1. form[c].op = "reject" /\ Pending(form[c].request) /\ form[c].request \in Requests
      BY <1>7, <2>1 DEF RejectStep, CallsInOrder, Transactions, Transaction, InTransaction, Form
    <3>2. request' = [request EXCEPT ![form[c].request].status = "rejected",
                                     ![form[c].request].reviewedBy = c]
      BY <1>7 DEF RejectStep
    <3>3. /\ request'[form[c].request] \in Request
          /\ request'[form[c].request].status = "rejected"
          /\ request'[form[c].request].reviewedBy = c
      BY <3>1, <3>2, Decided
    <3> QED
      BY <2>1, <2>3, <3>1, <3>3, NilIsNoRequest DEF Decision
  <2> QED
    BY <2>2, <2>3
<1>8. ASSUME NEW c \in Calls, RollbackStep(c) PROVE Decision(e)'
  <2>1. pc[e] = "done" /\ form' = form /\ request' = request
    BY <1>8 DEF RollbackStep, Rollback, End, TypeOK
  <2> QED
    BY <1>0, <2>1 DEF Decision
<1>9. CASE UNCHANGED vars
  BY <1>9, <1>0 DEF vars, Decision
<1> QED
  BY <1>1, <1>2, <1>3, <1>4, <1>5, <1>6, <1>7, <1>8, <1>9, StepKinds DEF Inductive

LEMMA InductiveStep == Inductive /\ [Next]_vars => Inductive'
  BY TypeStep, CallsStep, TransactionsStep, LocksStep, RowsStep, OwnedStep, DecisionsStep
  DEF Inductive

LEMMA InductiveHolds == Spec => []Inductive
  BY InitInductive, InductiveStep, PTL DEF Spec

-----------------------------------------------------------------------------

\* Every row keeps its type: no value that a column refuses ever becomes live.
THEOREM ApprovalsTyped == Spec => []TypeOK
  BY InductiveHolds, PTL DEF Inductive

\* Whatever others commit meanwhile, what a transaction has staged is what its
\* payload makes of the live rows.
THEOREM StagedStaysCurrent == Spec => []StagedIsCurrent
<1>1. Inductive => StagedIsCurrent
  <2> SUFFICES ASSUME Inductive, NEW c \in Calls, pc[c] \in InTransaction
               PROVE  /\ Pending(form[c].request)
                      /\ \A row \in DOMAIN staged[c] :
                          /\ staged[c][row] = RowAfter(WritesOf(c), applied[c], row, live[row])
                          /\ \A d \in Calls \ {c} : row \notin DOMAIN staged[d]
    BY DEF StagedIsCurrent
  <2> QED
    BY DEF Inductive, Transactions, Transaction, StagedAfterWrites, StagedRows, LocksExclude
<1> QED
  BY <1>1, InductiveHolds, PTL

\* A call that is told so has decided its request, for good.
THEOREM DecidedOnce == Spec => []DoneIsDecided
<1>1. Inductive => DoneIsDecided
  BY DEF Inductive, DecisionsStand, DoneIsDecided
<1> QED
  BY <1>1, InductiveHolds, PTL

-----------------------------------------------------------------------------
(* What a commit does to the live rows.                                    *)

\* The whole payload, applied to the rows as they are now.
LEMMA CommitAppliesPayload ==
    ASSUME Inductive, NEW c \in Calls, Commit(c)
    PROVE  live' = [row \in Rows |->
                       RowAfter(WritesOf(c), Len(WritesOf(c)), row, live[row])]
<1> USE DEF Inductive
<1>1. Transaction(c) /\ StagedRows(c) /\ applied[c] = Len(WritesOf(c)) /\ applied[c] \in Nat
  BY DEF Commit, Transactions, Transaction, StagedAfterWrites, InTransaction, TypeOK
<1>2. ASSUME NEW row \in Rows
      PROVE  Visible(c, row) = RowAfter(WritesOf(c), Len(WritesOf(c)), row, live[row])
  <2>1. CASE row \in DOMAIN staged[c]
    BY <1>1, <2>1 DEF Visible, StagedRows
  <2>2. CASE row \notin DOMAIN staged[c]
    <3>1. \A i \in 1 .. applied[c] : WritesOf(c)[i].row # row
      BY <1>1, <2>2 DEF Transaction
    <3>2. live[row] \in [Columns -> Values \cup {Nil}]
      BY DEF TypeOK, Content
    <3> QED
      BY <1>1, <2>2, <3>1, <3>2, RowNotWritten DEF Visible
  <2> QED
    BY <2>1, <2>2
<1> QED
  BY <1>2 DEF Commit

\* A row that a commit changes is one that its payload names.
LEMMA CommitChangesOwnRows ==
    ASSUME Inductive, NEW c \in Calls, Commit(c), NEW row \in Rows, live'[row] # live[row]
    PROVE  /\ RowBarber(row) \in Barbers
           /\ form[c].shop = BarberShop[RowBarber(row)]
<1> USE DEF Inductive
<1>1. row \in DOMAIN staged[c]
  BY DEF Commit, Visible
<1>2. Transaction(c) /\ form[c] \in Form
  BY DEF Commit, Transactions, CallsInOrder, InTransaction
<1>3. PICK i \in 1 .. applied[c] : WritesOf(c)[i].row = row
  BY <1>1, <1>2 DEF Transaction
<1>4. Len(WritesOf(c)) \in Nat /\ request[form[c].request] \in Request
      /\ form[c].request \in Requests
  BY <1>2, WriteTyped DEF Transaction, InShop
<1>5. i \in 1 .. Len(WritesOf(c))
  BY <1>2, <1>3, <1>4 DEF Transaction
<1>6. RowBarber(row) = request[form[c].request].barber
  BY <1>2, <1>3, <1>4, <1>5 DEF ProposalsOwned, OwnRows, WritesOf, Transaction, InShop
<1> QED
  BY <1>2, <1>4, <1>6 DEF ProposalsOwned, Transaction, InShop, Request

LEMMA TenantStep ==
    ASSUME Inductive, [Next]_vars, NEW row \in Rows, live'[row] # live[row]
    PROVE  \E c \in Calls : /\ pc[c] = "commit" /\ pc'[c] # "commit"
                            /\ RowBarber(row) \in Barbers
                            /\ form[c].shop = BarberShop[RowBarber(row)]
<1> DEFINE Goal == \E c \in Calls : /\ pc[c] = "commit" /\ pc'[c] # "commit"
                                    /\ RowBarber(row) \in Barbers
                                    /\ form[c].shop = BarberShop[RowBarber(row)]
<1> HIDE DEF Goal
<1>1. ASSUME NEW q \in Requests, ProposeStep(q) PROVE Goal
  BY <1>1 DEF ProposeStep, Insert
<1>2. ASSUME NEW c \in Calls, ReceiveStep(c) PROVE Goal
  BY <1>2 DEF ReceiveStep, Receive
<1>3. ASSUME NEW c \in Calls, LockStep(c) PROVE Goal
  BY <1>3 DEF LockStep
<1>4. ASSUME NEW c \in Calls, ApplyStep(c) PROVE Goal
  BY <1>4 DEF ApplyStep
<1>5. ASSUME NEW c \in Calls, MarkApproved(c) PROVE Goal
  BY <1>5 DEF MarkApproved
<1>6. ASSUME NEW c \in Calls, Commit(c) PROVE Goal
  <2>1. pc[c] = "commit" /\ pc'[c] # "commit"
    BY <1>6 DEF Inductive, Commit, End, TypeOK
  <2> QED
    BY <1>6, <2>1, CommitChangesOwnRows DEF Goal
<1>7. ASSUME NEW c \in Calls, RejectStep(c) PROVE Goal
  BY <1>7 DEF RejectStep
<1>8. ASSUME NEW c \in Calls, RollbackStep(c) PROVE Goal
  BY <1>8 DEF RollbackStep, Rollback
<1>9. CASE UNCHANGED vars
  BY <1>9 DEF vars
<1> QED
  BY <1>1, <1>2, <1>3, <1>4, <1>5, <1>6, <1>7, <1>8, <1>9, StepKinds DEF Inductive, Goal

\* A live row changes only by an approval given in the shop of its barber.
THEOREM TenantsStayIsolated == Spec => TenantsAreIsolated
<1>1. Inductive /\ [Next]_vars =>
          [\A row \in Rows : live'[row] # live[row] =>
              \E c \in Calls : /\ pc[c] = "commit" /\ pc'[c] # "commit"
                               /\ RowBarber(row) \in Barbers
                               /\ form[c].shop = BarberShop[RowBarber(row)]]_vars
  BY TenantStep
<1> QED
  BY <1>1, InductiveHolds, PTL DEF Spec, TenantsAreIsolated

-----------------------------------------------------------------------------
(* Where live values come from.                                            *)

\* What LiveIsApproved says of one column.
Given(row, column, q, c) ==
    /\ request[q] # Nil
    /\ request[q].status = "approved" /\ request[q].reviewedBy = c
    /\ pc[c] \in Answers /\ form[c].op = "approve"
    /\ RowBarber(row) \in Barbers /\ form[c].shop = BarberShop[RowBarber(row)]
    /\ \E i \in 1 .. Len(request[q].writes) :
          /\ request[q].writes[i].row = row /\ column \in DOMAIN request[q].writes[i].diff
          /\ request[q].writes[i].diff[column] = live[row][column]

\* A decided request is never rewritten, and a call that is over keeps its body.
LEMMA DecidedStays ==
    ASSUME Inductive, [Next]_vars, NEW q \in Requests, request[q] # Nil,
           request[q].status = "approved"
    PROVE  request'[q] = request[q]
<1> USE DEF Inductive
<1>0. ~ Pending(q)
  BY DEF Pending
<1>1. ASSUME NEW p \in Requests, ProposeStep(p) PROVE request'[q] = request[q]
  BY <1>1 DEF ProposeStep, Insert, TypeOK
<1>2. ASSUME NEW c \in Calls, Commit(c) PROVE request'[q] = request[q]
  <2>1. Pending(form[c].request)
    BY <1>2 DEF Commit, Transactions, Transaction, InTransaction
  <2> QED
    BY <1>0, <1>2, <2>1 DEF Commit, TypeOK
<1>3. ASSUME NEW c \in Calls, RejectStep(c) PROVE request'[q] = request[q]
  BY <1>0, <1>3 DEF RejectStep, TypeOK
<1> QED
  BY <1>1, <1>2, <1>3, StepKinds
  DEF ReceiveStep, Receive, LockStep, ApplyStep, MarkApproved, RollbackStep, Rollback, vars

LEMMA AnswerStays ==
    ASSUME Inductive, [Next]_vars, NEW d \in Calls, pc[d] \in Answers
    PROVE  pc'[d] \in Answers /\ form'[d] = form[d]
<1> USE DEF Inductive, Answers
<1>1. ASSUME NEW c \in Calls, ReceiveStep(c) PROVE pc'[d] = pc[d] /\ form'[d] = form[d]
  BY <1>1 DEF ReceiveStep, Receive, TypeOK
<1>2. ASSUME NEW c \in Calls, LockStep(c) \/ ApplyStep(c) \/ MarkApproved(c)
      PROVE  pc'[d] = pc[d] /\ form'[d] = form[d]
  BY <1>2 DEF LockStep, ApplyStep, MarkApproved, TypeOK
<1>3. ASSUME NEW c \in Calls, Commit(c) \/ RejectStep(c) \/ RollbackStep(c)
      PROVE  pc'[d] \in Answers /\ form'[d] = form[d]
  BY <1>3 DEF Commit, RejectStep, RollbackStep, Rollback, End, Statements, TypeOK
<1>4. ASSUME NEW q \in Requests, ProposeStep(q) PROVE pc'[d] = pc[d] /\ form'[d] = form[d]
  BY <1>4 DEF ProposeStep, Insert
<1> QED
  BY <1>1, <1>2, <1>3, <1>4, StepKinds DEF vars

\* A commit gives each column the value of its payload, or leaves it.
LEMMA CommitGives ==
    ASSUME Inductive, NEW c \in Calls, Commit(c), NEW row \in Rows, NEW column \in Columns,
           live'[row][column] # live[row][column]
    PROVE  \E q \in Requests : Given(row, column, q, c)'
<1> USE DEF Inductive
<1>1. Transaction(c) /\ form[c] \in Form /\ form[c].op = "approve"
  BY DEF Commit, Transactions, CallsInOrder, InTransaction
<1>0. PICK r \in Requests : r = form[c].request
  BY <1>1 DEF Form
<1> DEFINE writes == request[r].writes
           n == Len(writes)
<1>2. r \in Requests /\ request[r] \in Request /\ Pending(r) /\ n \in Nat
  BY <1>0, <1>1, WriteTyped DEF Transaction, InShop
<1>3. /\ request'[r].writes = writes /\ request'[r] \in Request
      /\ request'[r].status = "approved" /\ request'[r].reviewedBy = c
  BY <1>0, <1>2, Decided DEF Commit
<1>4. live'[row] = RowAfter(writes, n, row, live[row])
  BY <1>0, CommitAppliesPayload DEF WritesOf
<1>5. PICK i : SetsLast(writes, n, row, column, i)
  <2> HIDE DEF writes, n
  <2> QED
    BY <1>2, <1>4, SomeLast
<1>6. /\ i \in 1 .. n /\ writes[i].row = row /\ column \in DOMAIN writes[i].diff
      /\ live'[row][column] = writes[i].diff[column]
  <2> HIDE DEF writes, n
  <2>1. RowAfter(writes, n, row, live[row])[column] = writes[i].diff[column]
    BY <1>2, <1>5, LastDecides
  <2>2. i \in 1 .. n /\ writes[i].row = row /\ column \in DOMAIN writes[i].diff
    BY <1>5 DEF SetsLast
  <2> QED
    BY <1>4, <2>1, <2>2
<1>7. pc'[c] \in Answers /\ form'[c] = form[c]
  BY DEF Commit, End, Answers, TypeOK
<1>8. RowBarber(row) \in Barbers /\ form[c].shop = BarberShop[RowBarber(row)]
  <2>1. live'[row] # live[row]
    OBVIOUS
  <2> QED
    BY <2>1, CommitChangesOwnRows
<1>9. request'[r] # Nil
  BY <1>3, NilIsNoRequest
<1>10. Given(row, column, r, c)'
  BY <1>1, <1>3, <1>6, <1>7, <1>8, <1>9 DEF Given, RowBarber
<1> QED
  BY <1>2, <1>10

LEMMA LiveStep ==
    ASSUME Inductive, [Next]_vars, NEW row \in Rows, NEW column \in Columns,
           live[row][column] # Nil => \E q \in Requests, c \in Calls : Given(row, column, q, c),
           live'[row][column] # Nil
    PROVE  \E q \in Requests, c \in Calls : Given(row, column, q, c)'
<1>1. CASE live'[row][column] = live[row][column]
  <2>1. PICK q \in Requests, c \in Calls : Given(row, column, q, c)
    BY <1>1
  <2>2. request'[q] = request[q]
    BY <2>1, DecidedStays DEF Given
  <2>3. pc'[c] \in Answers /\ form'[c] = form[c]
    BY <2>1, AnswerStays DEF Given
  <2>4. Given(row, column, q, c)'
    BY <1>1, <2>1, <2>2, <2>3 DEF Given, RowBarber
  <2> QED
    BY <2>4
<1>2. CASE live'[row][column] # live[row][column]
  <2>1. PICK c \in Calls : Commit(c)
    BY <1>2, StepKinds DEF Inductive, ProposeStep, Insert, ReceiveStep, Receive, LockStep,
       ApplyStep, MarkApproved, RejectStep, RollbackStep, Rollback, vars
  <2> QED
    BY <1>2, <2>1, CommitGives
<1> QED
  BY <1>1, <1>2

\* Every live value is that of an approved payload, whatever is decided, refused
\* or cut off around it.
THEOREM LiveStaysApproved == Spec => []LiveIsApproved
<1>0. LiveIsApproved <=>
          \A row \in Rows, column \in Columns : live[row][column] # Nil =>
              \E q \in Requests, c \in Calls : Given(row, column, q, c)
  BY DEF LiveIsApproved, Given
<1>1. Init => LiveIsApproved
  BY DEF Init, LiveIsApproved
<1>2. Inductive /\ LiveIsApproved /\ [Next]_vars => LiveIsApproved'
  <2> SUFFICES ASSUME Inductive, LiveIsApproved, [Next]_vars
               PROVE  LiveIsApproved'
    OBVIOUS
  <2>1. ASSUME NEW row \in Rows, NEW column \in Columns, live'[row][column] # Nil
        PROVE  \E q \in Requests, c \in Calls : Given(row, column, q, c)'
    BY <1>0, <2>1, LiveStep
  <2> QED
    BY <2>1 DEF LiveIsApproved, Given
<1> QED
  BY <1>1, <1>2, InductiveHolds, PTL DEF Spec

-----------------------------------------------------------------------------
(* Refinement: the transactions implement ApprovalSpec.                    *)

\* The requests as the abstract workflow sees them.
proposalBar == [q \in Requests |->
                   IF request[q] = Nil THEN Nil
                   ELSE [writes |-> request[q].writes, status |-> request[q].status]]

LEMMA InitRefines == Init => Promise!Init
  BY DEF Init, Promise!Init, NilIsNoRequest

\* The operators of the two modules say the same.
LEMMA SameRowAfter ==
    ASSUME NEW writes, NEW n, NEW row, NEW content
    PROVE  Promise!RowAfter(writes, n, row, content) = RowAfter(writes, n, row, content)
  BY DEF Promise!RowAfter, RowAfter, Promise!SetsLast, SetsLast

LEMMA ProposeRefines ==
    ASSUME Inductive, NEW q \in Requests, ProposeStep(q)
    PROVE  Promise!Propose(q)
<1>1. PICK barber \in Barbers, writes \in Seq(Write) : Insert(q, barber, writes)
  BY DEF ProposeStep
<1>2. request[q] = Nil /\ live' = live
  BY <1>1 DEF Insert
<1> DEFINE new == [barber |-> barber, shop |-> BarberShop[barber], writes |-> writes,
                   status |-> "pending", reviewedBy |-> Nil]
<1>3. request'[q] = new /\ \A p \in Requests \ {q} : request'[p] = request[p]
  BY <1>1 DEF Insert, Inductive, TypeOK
<1>4. new \in Request
  <2>1. BarberShop[barber] \in Shops
    BY ApprovalAssumption
  <2> QED
    BY <2>1 DEF Request
<1>5. request'[q] # Nil
  BY <1>3, <1>4, NilIsNoRequest
<1>6. proposalBar[q] = Nil
  BY <1>2 DEF proposalBar
<1>7. proposalBar'[q] = [writes |-> writes, status |-> "pending"]
  BY <1>3, <1>5 DEF proposalBar
<1>8. \A p \in Requests \ {q} : proposalBar'[p] = proposalBar[p]
  BY <1>3 DEF proposalBar
<1>9. proposalBar'[q] \in Promise!Proposal
  <2>1. writes \in Seq(Promise!Write)
    BY DEF Promise!Write, Write, Promise!Diff, Diff
  <2> QED
    BY <1>7, <2>1 DEF Promise!Proposal
<1>10. proposalBar' = [proposalBar EXCEPT ![q] = proposalBar'[q]]
  BY <1>8 DEF proposalBar
<1> QED
  BY <1>2, <1>6, <1>7, <1>9, <1>10 DEF Promise!Propose, proposalBar

\* The abstract view of a decision.
LEMMA DecisionRefines ==
    ASSUME Inductive, NEW q \in Requests, Pending(q), NEW c \in Calls,
           NEW status \in {"approved", "rejected"},
           request' = [request EXCEPT ![q].status = status, ![q].reviewedBy = c]
    PROVE  /\ proposalBar[q] # Nil
           /\ proposalBar[q].status = "pending"
           /\ proposalBar[q].writes = request[q].writes
           /\ proposalBar' = [proposalBar EXCEPT ![q].status = status]
<1>1. request[q] # Nil /\ request[q].status = "pending" /\ request[q] \in Request
  BY DEF Pending, Inductive, TypeOK
<1>2. proposalBar[q] = [writes |-> request[q].writes, status |-> "pending"]
  BY <1>1 DEF proposalBar
<1>3. proposalBar[q] \in Seen
  BY <1>1, <1>2 DEF Request, Seen
<1>4. /\ request'[q] \in Request
      /\ request'[q].writes = request[q].writes
      /\ request'[q].status = status
      /\ \A p \in Requests \ {q} : request'[p] = request[p]
  BY Decided DEF Inductive
<1>5. proposalBar'[q] = [writes |-> request[q].writes, status |-> status]
  BY <1>4, NilIsNoRequest DEF proposalBar
<1>6. \A p \in Requests \ {q} : proposalBar'[p] = proposalBar[p]
  BY <1>4 DEF proposalBar
<1>7. proposalBar' = [proposalBar EXCEPT ![q].status = status]
  <2>1. [proposalBar[q] EXCEPT !.status = status] =
            [writes |-> request[q].writes, status |-> status]
    BY <1>2
  <2>2. /\ proposalBar = [p \in Requests |-> proposalBar[p]]
        /\ proposalBar' = [p \in Requests |-> proposalBar'[p]]
    BY DEF proposalBar
  <2> QED
    BY <1>2, <1>5, <1>6, <2>1, <2>2
<1> QED
  BY <1>2, <1>3, <1>7, NilIsNoRequest

LEMMA ApproveRefines ==
    ASSUME Inductive, NEW c \in Calls, Commit(c)
    PROVE  \E q \in Requests : Promise!Approve(q)
<1>0. PICK r \in Requests : r = form[c].request
  BY DEF Inductive, CallsInOrder, Form, Commit
<1>1. /\ r \in Requests /\ Pending(r) /\ Transaction(c) /\ applied[c] = Len(WritesOf(c))
      /\ form[c] \in Form
  BY <1>0 DEF Inductive, CallsInOrder, Form, Transactions, Transaction, Commit, InTransaction
<1>2. request' = [request EXCEPT ![r].status = "approved", ![r].reviewedBy = c]
  BY <1>0 DEF Commit
<1>3. /\ proposalBar[r] # Nil /\ proposalBar[r].status = "pending"
      /\ proposalBar[r].writes = WritesOf(c)
      /\ proposalBar' = [proposalBar EXCEPT ![r].status = "approved"]
  BY <1>0, <1>1, <1>2, DecisionRefines DEF WritesOf
<1>4. \A i \in 1 .. Len(WritesOf(c)) : Promise!Acceptable(WritesOf(c)[i].diff)
  BY <1>1 DEF Transaction, Promise!Acceptable, Acceptable
<1>5. live' = [row \in Rows |->
                  Promise!RowAfter(WritesOf(c), Len(WritesOf(c)), row, live[row])]
  BY CommitAppliesPayload, SameRowAfter
<1>6. Promise!Approve(r)
  BY <1>3, <1>4, <1>5 DEF Promise!Approve, proposalBar
<1> QED
  BY <1>6

LEMMA RejectRefines ==
    ASSUME Inductive, NEW c \in Calls, RejectStep(c)
    PROVE  \E q \in Requests : Promise!Reject(q)
<1>0. PICK r \in Requests : r = form[c].request
  BY DEF Inductive, CallsInOrder, Form, RejectStep
<1>1. r \in Requests /\ Pending(r)
  BY <1>0 DEF Inductive, CallsInOrder, Form, RejectStep
<1>2. request' = [request EXCEPT ![r].status = "rejected", ![r].reviewedBy = c] /\ live' = live
  BY <1>0 DEF RejectStep
<1>3. /\ proposalBar[r] # Nil /\ proposalBar[r].status = "pending"
      /\ proposalBar' = [proposalBar EXCEPT ![r].status = "rejected"]
  BY <1>1, <1>2, DecisionRefines
<1>4. Promise!Reject(r)
  BY <1>2, <1>3 DEF Promise!Reject, proposalBar
<1> QED
  BY <1>4

\* A step is a step of the abstract workflow or none of its business.
LEMMA StepRefines ==
    ASSUME Inductive, [Next]_vars
    PROVE  [Promise!Next]_<<proposalBar, live>>
<1> DEFINE Goal == [Promise!Next]_<<proposalBar, live>>
<1> HIDE DEF Goal
<1>1. ASSUME NEW q \in Requests, ProposeStep(q) PROVE Goal
  BY <1>1, ProposeRefines DEF Goal, Promise!Next
<1>2. ASSUME NEW c \in Calls, ReceiveStep(c) PROVE Goal
  BY <1>2 DEF ReceiveStep, Receive, Goal, proposalBar
<1>3. ASSUME NEW c \in Calls, LockStep(c) PROVE Goal
  BY <1>3 DEF LockStep, Goal, proposalBar
<1>4. ASSUME NEW c \in Calls, ApplyStep(c) PROVE Goal
  BY <1>4 DEF ApplyStep, Goal, proposalBar
<1>5. ASSUME NEW c \in Calls, MarkApproved(c) PROVE Goal
  BY <1>5 DEF MarkApproved, Goal, proposalBar
<1>6. ASSUME NEW c \in Calls, Commit(c) PROVE Goal
  BY <1>6, ApproveRefines DEF Goal, Promise!Next
<1>7. ASSUME NEW c \in Calls, RejectStep(c) PROVE Goal
  BY <1>7, RejectRefines DEF Goal, Promise!Next
<1>8. ASSUME NEW c \in Calls, RollbackStep(c) PROVE Goal
  BY <1>8 DEF RollbackStep, Rollback, Goal, proposalBar
<1>9. CASE UNCHANGED vars
  BY <1>9 DEF vars, Goal, proposalBar
<1> QED
  BY <1>1, <1>2, <1>3, <1>4, <1>5, <1>6, <1>7, <1>8, <1>9, StepKinds DEF Inductive, Goal

\* The transactions implement the atomic workflow, whatever the payloads and
\* however many approvals, rejections and failures overlap.
THEOREM WorkflowImplemented == Spec => ImplementsWorkflow
<1>1. Init => Promise!Init
  BY InitRefines
<1>2. Inductive /\ [Next]_vars => [Promise!Next]_<<proposalBar, live>>
  BY StepRefines
<1> QED
  BY <1>1, <1>2, InductiveHolds, PTL
  DEF Spec, ImplementsWorkflow, Promise!Spec, proposalBar
================================================================================
