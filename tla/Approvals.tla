-------------------------------- MODULE Approvals --------------------------------
(***************************************************************************)
(* The approval workflow: barbers propose schedules and service updates,   *)
(* owners approve and reject them. An approval is one transaction that     *)
(* locks the request, writes the rows of its payload one statement at a    *)
(* time, marks the request and commits.                                    *)
(*                                                                         *)
(* PostgreSQL runs it under READ COMMITTED: a row that a transaction wrote *)
(* or selected FOR UPDATE is locked until the transaction ends, a statement *)
(* that needs a locked row waits and then works on the row as it is now,    *)
(* and nothing a transaction writes is seen before it commits. So a        *)
(* transaction holds the rows it has staged, and the request it works on.  *)
(***************************************************************************)
EXTENDS Payload

CONSTANTS
    Requests,       \* ids of approval_requests
    Calls,          \* calls of .../approve and .../reject
    Barbers,
    Shops,
    BarberShop,     \* shop_id in a barber's token
    Weekdays,
    Services,
    ServiceBarber,  \* services.barber_id, never updated; Nil for a shop-wide service
    Proposals,      \* the lists of days that barbers propose: [weekday, diff]
    Updates,        \* the service updates that barbers propose
    Nil

\* A row of work_schedules is known by barber and weekday, a service by its id.
Rows == (Barbers \X Weekdays) \cup Services
Write == [row : Rows, diff : Diff]

ASSUME ApprovalAssumption ==
    /\ BarberShop \in [Barbers -> Shops]
    /\ ServiceBarber \in [Services -> Barbers \cup {Nil}]
    /\ (Barbers \X Weekdays) \cap Services = {}
    /\ Proposals \subseteq Seq([weekday : Weekdays, diff : [Columns -> Values]])
    /\ Updates \subseteq Diff

VARIABLES
    request,        \* approval_requests
    live,           \* work_schedules and services
    pc,             \* the next statement of each call, or its answer
    form,           \* what each call is to decide
    applied,        \* how many writes of the payload its transaction has done
    staged          \* the rows its transaction has written, and holds

vars == <<request, live, pc, form, applied, staged>>

Request == [barber : Barbers, shop : Shops, writes : Seq(Write),
            status : {"pending", "approved", "rejected"}, reviewedBy : Calls \cup {Nil}]

\* What a barber and an owner see of a request: the payload and its status.
Seen == [writes : Seq(Write), status : {"pending", "approved", "rejected"}]

ASSUME NilIsNoRequest == Nil \notin Request \cup Seen

Form == [op : {"approve", "reject"}, shop : Shops, request : Requests]

Statements == {"select", "apply", "commit", "reject"}
Answers == {"done", "not_found", "not_pending", "error"}

Content == [Columns -> (Values \ Refused) \cup {Nil}]

NothingStaged == [row \in {} |-> Nil]

Pending(q) == request[q] # Nil /\ request[q].status = "pending"
WritesOf(c) == request[form[c].request].writes

-----------------------------------------------------------------------------

\* Nil stands for what the columns hold before the first approval.
Init ==
    /\ request = [q \in Requests |-> Nil]
    /\ live = [row \in Rows |-> [column \in Columns |-> Nil]]
    /\ pc = [c \in Calls |-> "idle"]
    /\ form = [c \in Calls |-> Nil]
    /\ applied = [c \in Calls |-> 0]
    /\ staged = [c \in Calls |-> NothingStaged]

(* Proposals. Each is one INSERT; no live row is touched.                  *)

Insert(q, barber, writes) ==
    /\ request[q] = Nil
    /\ request' = [request EXCEPT ![q] =
                      [barber |-> barber, shop |-> BarberShop[barber], writes |-> writes,
                       status |-> "pending", reviewedBy |-> Nil]]
    /\ UNCHANGED <<live, pc, form, applied, staged>>

\* A barber proposes days of the own schedule. Times are not parsed here.
ProposeSchedule(q, barber, days) ==
    Insert(q, barber,
           [i \in DOMAIN days |-> [row |-> <<barber, days[i].weekday>>, diff |-> days[i].diff]])

\* A mutated form of ProposeUpdate: any barber for any service.
ProposeAnyUpdate(q, barber, service, diff) ==
    Insert(q, barber, <<[row |-> service, diff |-> diff]>>)

\* A barber proposes an update of a service of the own; 403 for any other.
ProposeUpdate(q, barber, service, diff) ==
    /\ ServiceBarber[service] = barber
    /\ Insert(q, barber, <<[row |-> service, diff |-> diff]>>)

-----------------------------------------------------------------------------
(* Locks.                                                                  *)

InTransaction == {"apply", "commit"}

\* WHERE id = ... AND shop_id = ...
InShop(c) ==
    /\ request[form[c].request] # Nil
    /\ request[form[c].request].shop = form[c].shop

\* A mutated form of RequestBusy: the SELECT is not FOR UPDATE.
NotForUpdate(c) == FALSE

\* Another call's transaction holds the request. Who finds no such request in the
\* shop does not wait.
RequestBusy(c) ==
    /\ InShop(c)
    /\ \E d \in Calls \ {c} : pc[d] \in InTransaction /\ form[d].request = form[c].request

\* Another call's transaction holds the row.
RowBusy(c, row) == \E d \in Calls \ {c} : row \in DOMAIN staged[d]

NextWrite(c) == WritesOf(c)[applied[c] + 1]
HasWrite(c) == applied[c] < Len(WritesOf(c))

Waiting(c) ==
    \/ pc[c] \in {"select", "reject"} /\ RequestBusy(c)
    \/ pc[c] = "apply" /\ HasWrite(c) /\ RowBusy(c, NextWrite(c).row)

-----------------------------------------------------------------------------
(* PATCH /shops/:shopId/approval-requests/:requestId/approve and /reject.  *)

\* The transaction ends: what it staged is gone from it, and so are its locks.
End(c, answer) ==
    /\ pc' = [pc EXCEPT ![c] = answer]
    /\ applied' = [applied EXCEPT ![c] = 0]
    /\ staged' = [staged EXCEPT ![c] = NothingStaged]
    /\ UNCHANGED form

Rollback(c, answer) ==
    /\ End(c, answer)
    /\ UNCHANGED <<request, live>>

Receive(c, body) ==
    /\ pc[c] = "idle"
    /\ form' = [form EXCEPT ![c] = body]
    /\ pc' = [pc EXCEPT ![c] = IF body.op = "approve" THEN "select" ELSE "reject"]
    /\ UNCHANGED <<request, live, applied, staged>>

\* SELECT ... FOR UPDATE, and the check of the status.
LockRequest(c) ==
    /\ pc[c] = "select"
    /\ ~RequestBusy(c)
    /\ CASE ~InShop(c) -> Rollback(c, "not_found")
         [] InShop(c) /\ ~Pending(form[c].request) -> Rollback(c, "not_pending")
         [] OTHER -> /\ pc' = [pc EXCEPT ![c] = "apply"]
                     /\ UNCHANGED <<request, live, form, applied, staged>>

\* What the transaction sees of a row: what it wrote itself, or what is committed.
Visible(c, row) == IF row \in DOMAIN staged[c] THEN staged[c][row] ELSE live[row]

\* A mutated form of ApplyWrite: it runs on the pool, not in the transaction.
ApplyOutsideTransaction(c) ==
    /\ pc[c] = "apply" /\ HasWrite(c)
    /\ ~RowBusy(c, NextWrite(c).row)
    /\ LET row == NextWrite(c).row
       IN  IF Acceptable(NextWrite(c).diff)
           THEN /\ live' = [live EXCEPT ![row] = Merge(@, NextWrite(c).diff)]
                /\ applied' = [applied EXCEPT ![c] = @ + 1]
                /\ UNCHANGED <<request, pc, form, staged>>
           ELSE Rollback(c, "error")

\* One write of ApplySchedule, or the one of ApplyUpdate. A value that the
\* column does not accept fails the statement and, with it, the transaction.
ApplyWrite(c) ==
    /\ pc[c] = "apply" /\ HasWrite(c)
    /\ ~RowBusy(c, NextWrite(c).row)
    /\ LET row == NextWrite(c).row
           content == Merge(Visible(c, row), NextWrite(c).diff)
       IN  IF Acceptable(NextWrite(c).diff)
           THEN /\ staged' = [staged EXCEPT ![c] =
                                 [r \in DOMAIN staged[c] \cup {row} |->
                                     IF r = row THEN content ELSE staged[c][r]]]
                /\ applied' = [applied EXCEPT ![c] = @ + 1]
                /\ UNCHANGED <<request, live, pc, form>>
           ELSE Rollback(c, "error")

\* UPDATE approval_requests: the row is held already, nobody sees it yet.
MarkApproved(c) ==
    /\ pc[c] = "apply" /\ ~HasWrite(c)
    /\ pc' = [pc EXCEPT ![c] = "commit"]
    /\ UNCHANGED <<request, live, form, applied, staged>>

\* Payload and decision become visible together; the answer may be lost.
Commit(c) ==
    /\ pc[c] = "commit"
    /\ live' = [row \in Rows |-> Visible(c, row)]
    /\ request' = [request EXCEPT ![form[c].request].status = "approved",
                                  ![form[c].request].reviewedBy = c]
    /\ \E answer \in {"done", "error"} : End(c, answer)

\* A mutated form of Reject: without AND status = 'pending'.
RejectDecided(c) ==
    /\ pc[c] = "reject"
    /\ ~RequestBusy(c)
    /\ IF InShop(c)
       THEN /\ request' = [request EXCEPT ![form[c].request].status = "rejected",
                                          ![form[c].request].reviewedBy = c]
            /\ \E answer \in {"done", "error"} : End(c, answer)
            /\ UNCHANGED live
       ELSE Rollback(c, "not_found")

\* One UPDATE; it waits for the row and then looks at the status there is.
Reject(c) ==
    /\ pc[c] = "reject"
    /\ ~RequestBusy(c)
    /\ IF InShop(c) /\ Pending(form[c].request)
       THEN /\ request' = [request EXCEPT ![form[c].request].status = "rejected",
                                          ![form[c].request].reviewedBy = c]
            /\ \E answer \in {"done", "error"} : End(c, answer)
            /\ UNCHANGED live
       ELSE Rollback(c, "not_found")

\* A statement fails: the connection is lost, or PostgreSQL breaks a deadlock.
Abort(c) ==
    /\ pc[c] \in Statements
    /\ Rollback(c, "error")

\* A mutated form of Deadline: a context without a timeout.
NoDeadline(c) == FALSE

\* The 5 seconds of the call are over while it waits for a lock.
Deadline(c) ==
    /\ Waiting(c)
    /\ Rollback(c, "error")

Handle(c) ==
    LockRequest(c) \/ ApplyWrite(c) \/ MarkApproved(c) \/ Commit(c) \/ Reject(c)

-----------------------------------------------------------------------------

Next ==
    \/ \E q \in Requests, barber \in Barbers, days \in Proposals :
            ProposeSchedule(q, barber, days)
    \/ \E q \in Requests, barber \in Barbers, service \in Services, diff \in Updates :
            ProposeUpdate(q, barber, service, diff)
    \/ \E c \in Calls, body \in Form : Receive(c, body)
    \/ \E c \in Calls : Handle(c) \/ Deadline(c) \/ Abort(c)

\* A call runs its next statement if it can. If it only ever waits, its
\* deadline passes. Nothing else is assumed to fail.
Fairness == \A c \in Calls : WF_vars(Handle(c) \/ Deadline(c))

Spec == Init /\ [][Next]_vars /\ Fairness

-----------------------------------------------------------------------------

TypeOK ==
    /\ request \in [Requests -> Request \cup {Nil}]
    /\ live \in [Rows -> Content]
    /\ pc \in [Calls -> {"idle"} \cup Statements \cup Answers]
    /\ form \in [Calls -> Form \cup {Nil}]
    /\ applied \in [Calls -> Nat]
    /\ DOMAIN staged = Calls
    /\ \A c \in Calls : /\ DOMAIN staged[c] \subseteq Rows
                       /\ staged[c] \in [DOMAIN staged[c] -> Content]

\* What a transaction has staged is never stale: whatever others committed
\* since it wrote its first row, its rows are the live rows with the writes of
\* its payload done so far, nobody else has staged them, and its request is
\* still undecided. Commit relies on it.
StagedIsCurrent ==
    \A c \in Calls :
        pc[c] \in InTransaction =>
            /\ Pending(form[c].request)
            /\ \A row \in DOMAIN staged[c] :
                /\ staged[c][row] = RowAfter(WritesOf(c), applied[c], row, live[row])
                /\ \A d \in Calls \ {c} : row \notin DOMAIN staged[d]

\* The caller who is told so has decided the request, and nobody else has: two
\* owners cannot both succeed, and no later call takes a decision back.
DoneIsDecided ==
    \A c \in Calls : pc[c] = "done" =>
        LET q == form[c].request IN
        /\ request[q].reviewedBy = c
        /\ request[q].status = (IF form[c].op = "approve" THEN "approved" ELSE "rejected")

RowBarber(row) == IF row \in Services THEN ServiceBarber[row] ELSE row[1]

\* A live row changes only by an approval in the shop of its barber: the shop of
\* a request is the proposer's, and nobody proposes changes of others' rows.
TenantsAreIsolated ==
    [][\A row \in Rows : live'[row] # live[row] =>
          \E c \in Calls : /\ pc[c] = "commit" /\ pc'[c] # "commit"
                           /\ RowBarber(row) \in Barbers
                           /\ form[c].shop = BarberShop[RowBarber(row)]]_vars

\* What is live was approved: each value of a row is the one that an approved
\* payload gives it, and the call that approved it was made for the shop of the
\* row's barber and is over. No later decision takes that ground away.
LiveIsApproved ==
    \A row \in Rows, column \in Columns : live[row][column] # Nil =>
        \E q \in Requests, c \in Calls :
            /\ request[q] # Nil
            /\ request[q].status = "approved" /\ request[q].reviewedBy = c
            /\ pc[c] \in Answers /\ form[c].op = "approve"
            /\ RowBarber(row) \in Barbers /\ form[c].shop = BarberShop[RowBarber(row)]
            /\ \E i \in 1 .. Len(request[q].writes) :
                  LET write == request[q].writes[i] IN
                  /\ write.row = row /\ column \in DOMAIN write.diff
                  /\ write.diff[column] = live[row][column]

Promise == INSTANCE ApprovalSpec WITH
    proposal <- [q \in Requests |->
                    IF request[q] = Nil THEN Nil
                    ELSE [writes |-> request[q].writes, status |-> request[q].status]]

\* The transactions implement the atomic workflow: the approved payloads are
\* applied whole, one after the other in the order of the commits, no update of
\* a column is lost when two of them touch one row, and nothing of a payload
\* that was rejected, failed or is still waiting ever shows.
ImplementsWorkflow == Promise!Spec

\* Every call is answered. Two schedules that name the same days in different
\* orders do lock each other out; the deadline ends that.
EveryCallAnswered ==
    \A c \in Calls : pc[c] \in Statements ~> pc[c] \in Answers
=============================================================================
