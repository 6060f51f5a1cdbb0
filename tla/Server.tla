--------------------------------- MODULE Server ---------------------------------
(***************************************************************************)
(* The process: requests that share a pool of database connections, and a  *)
(* signal that asks the server to stop.                                    *)
(*                                                                         *)
(* A handler is a series of units, each a query on the pool or a           *)
(* transaction; a unit acquires one connection, runs its statements on it, *)
(* keeps the rows it writes locked, and gives all back on every return (the *)
(* deferred Rollback, rows.Close or Scan). Before the first of them a       *)
(* handler may read the body; http.Server is given no timeout, so it reads *)
(* for as long as the client pleases. On SIGINT or SIGTERM main stops      *)
(* accepting, waits up to 10 seconds for the requests that run and closes  *)
(* the pool; when the time is over, log.Fatalf ends the process with the   *)
(* handlers where they are.                                                *)
(***************************************************************************)
EXTENDS Naturals, Sequences, FiniteSets

CONSTANTS
    Requests,
    Rows,           \* rows that statements lock
    Plans,          \* what a handler may do: its units, each a sequence of
                    \* statements, each the row it locks or Nil
    MaxConns,       \* connections of the pool
    Nil

ASSUME ServerAssumption ==
    /\ Plans \subseteq Seq(Seq(Rows \cup {Nil}) \ {<<>>})
    /\ MaxConns \in Nat \ {0}
    /\ Nil \notin Rows \cup Requests

VARIABLES
    main,           \* where main is
    pool,           \* whether pgxpool is open
    pc,             \* where each request is
    plan,           \* the units that each request still has to run
    queue,          \* requests that wait for a connection, first come first served
    holder,         \* requests that have one
    lock            \* the request whose transaction has locked a row

vars == <<main, pool, pc, plan, queue, holder, lock>>

\* Handlers that have what they need of the client, and all that have begun.
Busy == {"handling", "waiting", "querying"}
Running == {"reading"} \cup Busy
Answered == {"ok", "failed"}

Init ==
    /\ main = "serving"
    /\ pool = "open"
    /\ pc = [r \in Requests |-> "new"]
    /\ plan = [r \in Requests |-> <<>>]
    /\ queue = <<>>
    /\ holder = {}
    /\ lock = [row \in Rows |-> Nil]

Alive == main \notin {"exited", "killed"}

-----------------------------------------------------------------------------
(* Handlers.                                                               *)

\* The listener is open until Shutdown closes it. The handler binds a body, or
\* has none to bind.
Accept(r) ==
    /\ main = "serving"
    /\ pc[r] = "new"
    /\ \E p \in Plans : plan' = [plan EXCEPT ![r] = p]
    /\ \E next \in {"reading", "handling"} : pc' = [pc EXCEPT ![r] = next]
    /\ UNCHANGED <<main, pool, queue, holder, lock>>

\* ShouldBindJSON returns: the client has sent the whole body.
ReadBody(r) ==
    /\ Alive /\ pc[r] = "reading"
    /\ pc' = [pc EXCEPT ![r] = "handling"]
    /\ UNCHANGED <<main, pool, plan, queue, holder, lock>>

\* Pool.Begin, Pool.QueryRow, Pool.Query or Pool.Exec.
Acquire(r) ==
    /\ Alive /\ pc[r] = "handling" /\ plan[r] # <<>>
    /\ IF pool = "closed"
       THEN pc' = [pc EXCEPT ![r] = "failed"] /\ UNCHANGED queue
       ELSE pc' = [pc EXCEPT ![r] = "waiting"] /\ queue' = Append(queue, r)
    /\ UNCHANGED <<main, pool, plan, holder, lock>>

\* The pool has a connection for the first in its queue.
Grant(r) ==
    /\ Alive /\ queue # <<>> /\ r = Head(queue)
    /\ Cardinality(holder) < MaxConns
    /\ holder' = holder \cup {r}
    /\ queue' = Tail(queue)
    /\ pc' = [pc EXCEPT ![r] = "querying"]
    /\ UNCHANGED <<main, pool, plan, lock>>

Unlocked(r) == [row \in Rows |-> IF lock[row] = r THEN Nil ELSE lock[row]]

\* The row of the next statement is locked by another transaction.
Blocked(r) ==
    LET row == plan[r][1][1] IN row # Nil /\ lock[row] \notin {Nil, r}

\* The unit of r is over.
GiveBack(r) ==
    /\ holder' = holder \ {r}
    /\ lock' = Unlocked(r)

Lock(r) ==
    LET row == plan[r][1][1]
    IN  lock' = IF row = Nil THEN lock ELSE [lock EXCEPT ![row] = r]

\* A mutated form of Statement: every statement asks the pool, the transaction
\* keeps the connection it has.
StatementOnPool(r) ==
    /\ Alive /\ pc[r] = "querying" /\ ~Blocked(r)
    /\ IF Len(plan[r][1]) > 1
       THEN /\ plan' = [plan EXCEPT ![r][1] = Tail(@)]
            /\ pc' = [pc EXCEPT ![r] = "waiting"] /\ queue' = Append(queue, r)
            /\ Lock(r) /\ UNCHANGED holder
       ELSE /\ plan' = [plan EXCEPT ![r] = Tail(@)]
            /\ pc' = [pc EXCEPT ![r] = "handling"]
            /\ GiveBack(r) /\ UNCHANGED queue
    /\ UNCHANGED <<main, pool>>

\* One statement, which may wait for a row; with the last of a unit the
\* transaction ends.
Statement(r) ==
    /\ Alive /\ pc[r] = "querying" /\ ~Blocked(r)
    /\ IF Len(plan[r][1]) > 1
       THEN /\ plan' = [plan EXCEPT ![r][1] = Tail(@)]
            /\ Lock(r)
            /\ UNCHANGED <<pc, holder>>
       ELSE /\ plan' = [plan EXCEPT ![r] = Tail(@)]
            /\ pc' = [pc EXCEPT ![r] = "handling"]
            /\ GiveBack(r)
    /\ UNCHANGED <<main, pool, queue>>

\* A request waits for one connection at a time; who gives up leaves the queue.
QueueWithout(r) ==
    IF \E i \in 1 .. Len(queue) : queue[i] = r
    THEN LET place == CHOOSE i \in 1 .. Len(queue) : queue[i] = r
         IN  [i \in 1 .. Len(queue) - 1 |-> IF i < place THEN queue[i] ELSE queue[i + 1]]
    ELSE queue

Failed(r) ==
    /\ Alive /\ pc[r] \in Running
    /\ pc' = [pc EXCEPT ![r] = "failed"]
    /\ plan' = [plan EXCEPT ![r] = <<>>]
    /\ queue' = QueueWithout(r)
    /\ UNCHANGED <<main, pool>>

\* A mutated form of Fail: an early return without the deferred Rollback.
FailHolding(r) == Failed(r) /\ UNCHANGED <<holder, lock>>

\* The body cannot be bound, a statement fails, a check of the handler refuses,
\* the client goes away, a deadline passes (also one in the queue), or the handler
\* panics and gin.Recovery answers. The defers run.
Fail(r) == Failed(r) /\ GiveBack(r)

Answer(r) ==
    /\ Alive /\ pc[r] = "handling" /\ plan[r] = <<>>
    /\ pc' = [pc EXCEPT ![r] = "ok"]
    /\ UNCHANGED <<main, pool, plan, queue, holder, lock>>

-----------------------------------------------------------------------------
(* main.                                                                   *)

\* Shutdown closes the listener first.
Signal ==
    /\ main = "serving"
    /\ main' = "draining"
    /\ UNCHANGED <<pool, pc, plan, queue, holder, lock>>

\* A mutated form of Drained: Close instead of Shutdown.
CloseAtOnce ==
    /\ main = "draining"
    /\ main' = "closing" /\ pool' = "closed"
    /\ UNCHANGED <<pc, plan, queue, holder, lock>>

\* Shutdown returns nil when no request runs any more; the deferred pool.Close
\* starts.
Drained ==
    /\ main = "draining"
    /\ \A r \in Requests : pc[r] \notin Running
    /\ main' = "closing" /\ pool' = "closed"
    /\ UNCHANGED <<pc, plan, queue, holder, lock>>

\* pool.Close returns when every connection is back.
Exit ==
    /\ main = "closing" /\ holder = {}
    /\ main' = "exited"
    /\ UNCHANGED <<pool, pc, plan, queue, holder, lock>>

\* ListenAndServe fails: log.Fatalf, no defer runs.
ListenFails ==
    /\ main = "serving"
    /\ main' = "killed"
    /\ UNCHANGED <<pool, pc, plan, queue, holder, lock>>

\* A mutated form of TimeOver: Shutdown(context.Background()).
NeverOver == FALSE

\* The 10 seconds of shutdownCtx are over: Shutdown returns an error, log.Fatalf
\* ends the process where it is.
TimeOver ==
    /\ main = "draining" /\ \E r \in Requests : pc[r] \in Running
    /\ main' = "killed"
    /\ UNCHANGED <<pool, pc, plan, queue, holder, lock>>

Next ==
    \/ \E r \in Requests : \/ Accept(r) \/ ReadBody(r) \/ Acquire(r) \/ Grant(r)
                           \/ Statement(r) \/ Fail(r) \/ Answer(r)
    \/ Signal \/ Drained \/ Exit \/ ListenFails \/ TimeOver

\* A handler and the pool go on while they can, and so does main; the timer of the
\* shutdown runs out. No client is assumed to send its body or to go away, no
\* statement to fail and no other deadline to pass.
Fairness ==
    /\ \A r \in Requests : WF_vars(Acquire(r) \/ Grant(r) \/ Statement(r) \/ Answer(r))
    /\ WF_vars(Drained \/ Exit)
    /\ WF_vars(TimeOver)

Spec == Init /\ [][Next]_vars /\ Fairness
-----------------------------------------------------------------------------

TypeOK ==
    /\ main \in {"serving", "draining", "closing", "exited", "killed"}
    /\ pool \in {"open", "closed"}
    /\ pc \in [Requests -> {"new"} \cup Running \cup Answered]
    /\ plan \in [Requests -> Seq(Seq(Rows \cup {Nil}) \ {<<>>})]
    /\ queue \in Seq(Requests)
    /\ holder \subseteq Requests
    /\ lock \in [Rows -> Requests \cup {Nil}]

\* Every connection that is out is at work, and so is every lock: a handler that
\* has been answered, or is between two units, keeps nothing, however it got
\* there. A leak would wear the pool down request by request.
NothingLeaks ==
    /\ \A r \in holder : pc[r] = "querying"
    /\ \A row \in Rows : lock[row] # Nil => lock[row] \in holder
    /\ Cardinality(holder) <= MaxConns

\* An orderly exit cuts nobody off: while the pool is closed no handler runs, and
\* whoever was accepted has an answer.
CleanExitLosesNothing ==
    pool = "closed" => \A r \in Requests : pc[r] \in {"new"} \cup Answered

\* A request whose body is there is answered, unless the process is killed: however
\* small the pool, requests that wait for a connection and transactions that wait
\* for a row never wait for each other in a circle, though no deadline is assumed
\* to pass, and a client that never finishes its body holds nobody up. (The two
\* transactions whose bodies choose the order of their rows need their deadlines:
\* ShopHours and Approvals.)
EveryRequestAnswered ==
    \A r \in Requests : pc[r] \in Busy ~> pc[r] \in Answered \/ main = "killed"

\* After the signal the process ends, though a client may never finish its body:
\* Shutdown does not wait for it for ever, and pool.Close, which has no deadline,
\* finds every connection given back.
ShutdownEnds == main = "draining" ~> main \in {"exited", "killed"}
=============================================================================
