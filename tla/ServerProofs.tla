------------------------------ MODULE ServerProofs ------------------------------
(***************************************************************************)
(* Proofs about Server, for any number of requests, any pool, any rows and *)
(* any plans of the handlers.                                              *)
(*                                                                         *)
(* That nothing leaks rests on the queue: a connection is granted to its   *)
(* head, who must still be waiting, and once. Inductive says that those    *)
(* who are in it wait, each in one place, that a request has a connection   *)
(* exactly while it queries, and that none runs once the pool is closed.   *)
(*                                                                         *)
(* That nobody is stuck rests on the order in which the plans lock rows:   *)
(* Orderly adds that what a request has locked comes before what it asks   *)
(* for, so that a chain of waits falls in rank and ends.                   *)
(***************************************************************************)
EXTENDS Server, FiniteSetTheorems, SequenceTheorems, WellFoundedInduction, TLAPS

Unit == Seq(Rows \cup {Nil}) \ {<<>>}

Waits == \A i \in 1 .. Len(queue) :
    /\ pc[queue[i]] = "waiting"
    /\ \A j \in 1 .. Len(queue) : queue[i] = queue[j] => i = j

AtWork == \A r \in Requests : pc[r] \in {"waiting", "querying"} => plan[r] # <<>>

Holding ==
    /\ IsFiniteSet(holder)
    /\ Cardinality(holder) <= MaxConns
    /\ \A r \in Requests : r \in holder <=> pc[r] = "querying"

Locking == \A row \in Rows : lock[row] # Nil => lock[row] \in holder

Closing ==
    /\ pool = "closed" <=> main \in {"closing", "exited"}
    /\ pool = "closed" => \A r \in Requests : pc[r] \notin Running

Inductive == TypeOK /\ Waits /\ AtWork /\ Holding /\ Locking /\ Closing

-----------------------------------------------------------------------------
(* The queue.                                                              *)

\* The first of a queue and the others.
LEMMA HeadAndTail ==
    ASSUME TypeOK, queue # <<>>
    PROVE  /\ Len(queue) \in Nat \ {0}
           /\ Head(queue) = queue[1] /\ Head(queue) \in Requests
           /\ Tail(queue) \in Seq(Requests)
           /\ Len(Tail(queue)) = Len(queue) - 1
           /\ \A i \in 1 .. Len(Tail(queue)) : Tail(queue)[i] = queue[i + 1]
  BY DEF TypeOK

\* A request that joins is the last.
LEMMA Joined ==
    ASSUME TypeOK, NEW r \in Requests
    PROVE  /\ Append(queue, r) \in Seq(Requests)
           /\ Len(Append(queue, r)) = Len(queue) + 1
           /\ \A i \in 1 .. Len(queue) : Append(queue, r)[i] = queue[i]
           /\ Append(queue, r)[Len(queue) + 1] = r
           /\ Len(queue) \in Nat
  BY DEF TypeOK

\* A request that leaves is not in the queue any more; the others keep their
\* order, and none is in it twice.
LEMMA LeftTyped ==
    ASSUME TypeOK, NEW r \in Requests
    PROVE  QueueWithout(r) \in Seq(Requests)
<1>1. Len(queue) \in Nat /\ \A i \in 1 .. Len(queue) : queue[i] \in Requests
  BY DEF TypeOK
<1>2. CASE \E i \in 1 .. Len(queue) : queue[i] = r
  <2> DEFINE place == CHOOSE i \in 1 .. Len(queue) : queue[i] = r
  <2>1. place \in 1 .. Len(queue)
    BY <1>2
  <2> HIDE DEF place
  <2>2. QueueWithout(r) =
            [i \in 1 .. Len(queue) - 1 |-> IF i < place THEN queue[i] ELSE queue[i + 1]]
    BY <1>2 DEF QueueWithout, place
  <2>3. \A i \in 1 .. Len(queue) - 1 :
            (IF i < place THEN queue[i] ELSE queue[i + 1]) \in Requests
    BY <1>1, <2>1
  <2>4. Len(queue) - 1 \in Nat
    BY <1>1, <2>1
  <2> QED
    BY <2>2, <2>3, <2>4
<1>3. CASE ~\E i \in 1 .. Len(queue) : queue[i] = r
  BY <1>3 DEF QueueWithout, TypeOK
<1> QED
  BY <1>2, <1>3

LEMMA LeftWaits ==
    ASSUME TypeOK, Waits, NEW r \in Requests, NEW i \in 1 .. Len(QueueWithout(r))
    PROVE  /\ QueueWithout(r)[i] # r
           /\ \E k \in 1 .. Len(queue) : QueueWithout(r)[i] = queue[k]
           /\ \A j \in 1 .. Len(QueueWithout(r)) :
                 QueueWithout(r)[i] = QueueWithout(r)[j] => i = j
<1>1. Len(queue) \in Nat
  BY DEF TypeOK
<1>2. CASE \E k \in 1 .. Len(queue) : queue[k] = r
  <2> DEFINE place == CHOOSE k \in 1 .. Len(queue) : queue[k] = r
  <2>1. place \in 1 .. Len(queue) /\ queue[place] = r
    BY <1>2
  <2> HIDE DEF place
  <2>2. QueueWithout(r) =
            [k \in 1 .. Len(queue) - 1 |-> IF k < place THEN queue[k] ELSE queue[k + 1]]
    BY <1>2 DEF QueueWithout, place
  <2>3. Len(QueueWithout(r)) = Len(queue) - 1
    BY <1>1, <2>1, <2>2
  <2>4. \A k \in 1 .. Len(queue) - 1 :
            QueueWithout(r)[k] = IF k < place THEN queue[k] ELSE queue[k + 1]
    BY <2>2
  <2>5. i \in 1 .. Len(queue) - 1
    BY <2>3
  <2>6. \A j \in 1 .. Len(queue) : queue[j] = r => j = place
    BY <2>1 DEF Waits
  <2>7. QueueWithout(r)[i] # r
    BY <1>1, <2>1, <2>4, <2>5, <2>6
  <2>8. \E k \in 1 .. Len(queue) : QueueWithout(r)[i] = queue[k]
    BY <1>1, <2>1, <2>4, <2>5
  <2>9. ASSUME NEW j \in 1 .. Len(queue) - 1, QueueWithout(r)[i] = QueueWithout(r)[j]
        PROVE  i = j
    <3> DEFINE at(k) == IF k < place THEN k ELSE k + 1
    <3>1. at(i) \in 1 .. Len(queue) /\ at(j) \in 1 .. Len(queue)
      BY <1>1, <2>1, <2>5
    <3>2. queue[at(i)] = queue[at(j)]
      BY <2>4, <2>5, <2>9
    <3>3. at(i) = at(j)
      BY <3>1, <3>2 DEF Waits
    <3> QED
      BY <1>1, <2>1, <2>5, <3>3
  <2> QED
    BY <2>3, <2>7, <2>8, <2>9
<1>3. CASE ~\E k \in 1 .. Len(queue) : queue[k] = r
  BY <1>3 DEF QueueWithout, Waits
<1> QED
  BY <1>2, <1>3

-----------------------------------------------------------------------------
(* Inductive holds initially, and every step keeps each part of it.        *)

LEMMA InitInductive == Init => Inductive
<1> SUFFICES ASSUME Init PROVE Inductive
  OBVIOUS
<1>1. TypeOK
  BY DEF Init, TypeOK
<1>2. Waits /\ AtWork /\ Locking /\ Closing
  BY DEF Init, Waits, AtWork, Locking, Closing, Running, Busy
<1>3. Holding
  BY FS_EmptySet, ServerAssumption DEF Init, Holding
<1> QED
  BY <1>1, <1>2, <1>3 DEF Inductive

\* The units that a request has still to run, and the row of its next statement.
LEMMA PlanTyped ==
    ASSUME Inductive, NEW r \in Requests, pc[r] = "querying"
    PROVE  /\ plan[r] \in Seq(Unit) /\ plan[r] # <<>> /\ Len(plan[r]) \in Nat \ {0}
           /\ plan[r][1] \in Seq(Rows \cup {Nil}) /\ plan[r][1] # <<>>
           /\ plan[r][1][1] \in Rows \cup {Nil}
<1>1. plan[r] \in Seq(Unit) /\ plan[r] # <<>>
  BY DEF Inductive, TypeOK, AtWork, Unit
<1>2. Len(plan[r]) \in Nat \ {0} /\ plan[r][1] \in Unit
  BY <1>1
<1>3. plan[r][1] \in Seq(Rows \cup {Nil}) /\ plan[r][1] # <<>>
  BY <1>2 DEF Unit
<1> QED
  BY <1>1, <1>2, <1>3

\* A statement that does not end its unit, and one that does.
StatementGoesOn(r) ==
    /\ Alive /\ pc[r] = "querying" /\ ~Blocked(r) /\ Len(plan[r][1]) > 1
    /\ plan' = [plan EXCEPT ![r][1] = Tail(@)]
    /\ Lock(r)
    /\ UNCHANGED <<pc, holder, main, pool, queue>>

UnitEnds(r) ==
    /\ Alive /\ pc[r] = "querying"
    /\ plan' = [plan EXCEPT ![r] = Tail(@)]
    /\ pc' = [pc EXCEPT ![r] = "handling"]
    /\ GiveBack(r)
    /\ UNCHANGED <<main, pool, queue>>

Joins(r) ==
    /\ Alive /\ pool # "closed" /\ pc[r] = "handling" /\ plan[r] # <<>>
    /\ pc' = [pc EXCEPT ![r] = "waiting"] /\ queue' = Append(queue, r)
    /\ UNCHANGED <<main, pool, plan, holder, lock>>

Refused(r) ==
    /\ pc[r] = "handling" /\ pool = "closed"
    /\ pc' = [pc EXCEPT ![r] = "failed"]
    /\ UNCHANGED <<main, pool, plan, queue, holder, lock>>

LEMMA StepKinds ==
    ASSUME [Next]_vars
    PROVE  \/ \E r \in Requests : \/ Accept(r) \/ ReadBody(r) \/ Joins(r) \/ Refused(r) \/ Grant(r)
                                  \/ StatementGoesOn(r) \/ UnitEnds(r) \/ Fail(r) \/ Answer(r)
           \/ Signal \/ Drained \/ Exit \/ ListenFails \/ TimeOver
           \/ UNCHANGED vars
<1>1. ASSUME NEW r \in Requests, Acquire(r) PROVE Joins(r) \/ Refused(r)
  BY <1>1 DEF Acquire, Joins, Refused
<1>2. ASSUME NEW r \in Requests, Statement(r) PROVE StatementGoesOn(r) \/ UnitEnds(r)
  <2>1. CASE Len(plan[r][1]) > 1
    BY <1>2, <2>1 DEF Statement, StatementGoesOn
  <2>2. CASE ~(Len(plan[r][1]) > 1)
    BY <1>2, <2>2 DEF Statement, UnitEnds
  <2> QED
    BY <2>1, <2>2
<1> QED
  BY <1>1, <1>2 DEF Next

LEMMA TypeStep == ASSUME Inductive, [Next]_vars PROVE TypeOK'
<1> USE DEF Inductive, Running, Busy, Answered
<1>1. ASSUME NEW r \in Requests, Accept(r) PROVE TypeOK'
  <2>1. PICK p \in Plans : plan' = [plan EXCEPT ![r] = p]
    BY <1>1 DEF Accept
  <2>2. p \in Seq(Unit)
    BY ServerAssumption DEF Unit
  <2> QED
    BY <1>1, <2>1, <2>2 DEF Accept, TypeOK, Unit
<1>2. ASSUME NEW r \in Requests, Joins(r) PROVE TypeOK'
  BY <1>2, Joined DEF Joins, TypeOK
<1>3. ASSUME NEW r \in Requests, Refused(r) PROVE TypeOK'
  BY <1>3 DEF Refused, TypeOK
<1>4. ASSUME NEW r \in Requests, Grant(r) PROVE TypeOK'
  BY <1>4, HeadAndTail DEF Grant, TypeOK
<1>5. ASSUME NEW r \in Requests, StatementGoesOn(r) PROVE TypeOK'
  <2>1. /\ plan[r] \in Seq(Unit) /\ plan[r] # <<>> /\ Len(plan[r]) \in Nat \ {0}
        /\ plan[r][1] \in Seq(Rows \cup {Nil}) /\ plan[r][1] # <<>>
        /\ plan[r][1][1] \in Rows \cup {Nil}
    BY <1>5, PlanTyped DEF StatementGoesOn
  <2>2. Tail(plan[r][1]) \in Unit
    <3>1. ASSUME NEW u \in Seq(Rows \cup {Nil}), Len(u) > 1
          PROVE  Tail(u) \in Seq(Rows \cup {Nil}) /\ Tail(u) # <<>>
      <4>1. u # <<>> /\ Len(u) \in Nat
        BY <3>1
      <4>2. Tail(u) \in Seq(Rows \cup {Nil}) /\ Len(Tail(u)) = Len(u) - 1
        BY <4>1, HeadTailProperties
      <4>3. Len(Tail(u)) # 0
        BY <3>1, <4>1, <4>2
      <4> QED
        BY <4>2, <4>3, EmptySeq
    <3>2. Len(plan[r][1]) > 1
      BY <1>5 DEF StatementGoesOn
    <3> QED
      BY <2>1, <3>1, <3>2 DEF Unit
  <2>3. [plan[r] EXCEPT ![1] = Tail(@)] \in Seq(Unit)
    BY <2>1, <2>2
  <2>4. plan' \in [Requests -> Seq(Unit)]
    BY <1>5, <2>3 DEF StatementGoesOn, TypeOK, Unit
  <2>5. lock' \in [Rows -> Requests \cup {Nil}]
    BY <1>5, <2>1 DEF StatementGoesOn, Lock, TypeOK
  <2> QED
    BY <1>5, <2>4, <2>5 DEF StatementGoesOn, TypeOK, Unit
<1>6. ASSUME NEW r \in Requests, UnitEnds(r) PROVE TypeOK'
  <2>1. Tail(plan[r]) \in Seq(Unit)
    BY <1>6, PlanTyped DEF UnitEnds
  <2>2. lock' \in [Rows -> Requests \cup {Nil}] /\ holder' \subseteq Requests
    BY <1>6 DEF UnitEnds, GiveBack, Unlocked, TypeOK
  <2>3. plan' \in [Requests -> Seq(Unit)]
    BY <1>6, <2>1 DEF UnitEnds, TypeOK, Unit
  <2> QED
    BY <1>6, <2>2, <2>3 DEF UnitEnds, TypeOK, Unit
<1>7. ASSUME NEW r \in Requests, Fail(r) PROVE TypeOK'
  <2>1. queue' \in Seq(Requests)
    BY <1>7, LeftTyped DEF Fail, Failed
  <2>2. lock' \in [Rows -> Requests \cup {Nil}] /\ holder' \subseteq Requests
    BY <1>7 DEF Fail, GiveBack, Unlocked, TypeOK
  <2>3. plan' \in [Requests -> Seq(Unit)]
    BY <1>7 DEF Fail, Failed, TypeOK, Unit
  <2> QED
    BY <1>7, <2>1, <2>2, <2>3 DEF Fail, Failed, TypeOK, Unit
<1>8. ASSUME NEW r \in Requests, Answer(r) PROVE TypeOK'
  BY <1>8 DEF Answer, TypeOK
<1>9. CASE Signal \/ Drained \/ Exit \/ ListenFails \/ TimeOver
  BY <1>9 DEF Signal, Drained, Exit, ListenFails, TimeOver, TypeOK
<1>10. CASE UNCHANGED vars
  BY <1>10 DEF vars, TypeOK
<1>11. ASSUME NEW r \in Requests, ReadBody(r) PROVE TypeOK'
  BY <1>11 DEF ReadBody, TypeOK
<1> QED
  BY <1>1, <1>2, <1>3, <1>4, <1>5, <1>6, <1>7, <1>8, <1>9, <1>10, <1>11, StepKinds

LEMMA WaitsStep == ASSUME Inductive, [Next]_vars PROVE Waits'
<1> USE DEF Inductive
<1>0. \A i \in 1 .. Len(queue) : queue[i] \in Requests
  BY DEF TypeOK
<1>00. ASSUME queue' = queue, NEW r \in Requests, pc[r] # "waiting", NEW v,
              pc' = [pc EXCEPT ![r] = v]
       PROVE  Waits'
  BY <1>00, <1>0 DEF Waits, TypeOK
<1>1. ASSUME NEW r \in Requests, Accept(r) PROVE Waits'
  BY <1>1, <1>00 DEF Accept
<1>2. ASSUME NEW r \in Requests, Joins(r) PROVE Waits'
  <2>1. \A i \in 1 .. Len(queue) : queue[i] # r
    BY <1>2 DEF Joins, Waits
  <2>2. queue' = Append(queue, r) /\ pc' = [pc EXCEPT ![r] = "waiting"]
    BY <1>2 DEF Joins
  <2>3. \A i \in 1 .. Len(queue) : pc'[queue[i]] = "waiting"
    BY <1>0, <2>2 DEF TypeOK, Waits
  <2>4. pc'[r] = "waiting"
    BY <2>2 DEF TypeOK
  <2>5. \A i \in 1 .. Len(queue) + 1 : i \in 1 .. Len(queue) \/ i = Len(queue) + 1
    BY Joined
  <2>6. \A i \in 1 .. Len(queue) : queue'[i] = queue[i]
    BY <2>2, Joined
  <2>7. queue'[Len(queue) + 1] = r /\ Len(queue') = Len(queue) + 1
    BY <2>2, Joined
  <2>8. ASSUME NEW i \in 1 .. Len(queue')
        PROVE  /\ pc'[queue'[i]] = "waiting"
               /\ \A j \in 1 .. Len(queue') : queue'[i] = queue'[j] => i = j
    BY <2>1, <2>3, <2>4, <2>5, <2>6, <2>7 DEF Waits
  <2> QED
    BY <2>8 DEF Waits
<1>3. ASSUME NEW r \in Requests, Refused(r) PROVE Waits'
  BY <1>3, <1>00 DEF Refused
<1>4. ASSUME NEW r \in Requests, Grant(r) PROVE Waits'
  <2>1. queue # <<>> /\ queue' = Tail(queue) /\ r = queue[1]
    BY <1>4, HeadAndTail DEF Grant
  <2>2. /\ Len(queue) \in Nat \ {0} /\ Len(queue') = Len(queue) - 1
        /\ \A i \in 1 .. Len(queue') : queue'[i] = queue[i + 1]
    BY <2>1, HeadAndTail
  <2>3. \A i \in 1 .. Len(queue') : i + 1 \in 1 .. Len(queue) /\ queue[i + 1] # r
    BY <2>1, <2>2 DEF Waits
  <2>4. \A i \in 1 .. Len(queue') : pc'[queue[i + 1]] = "waiting"
    BY <1>4, <1>0, <2>3 DEF Grant, TypeOK, Waits
  <2>5. ASSUME NEW i \in 1 .. Len(queue'), NEW j \in 1 .. Len(queue'), queue'[i] = queue'[j]
        PROVE  i = j
    <3>1. i + 1 \in 1 .. Len(queue) /\ j + 1 \in 1 .. Len(queue)
          /\ queue[i + 1] = queue[j + 1]
      BY <2>2, <2>3, <2>5
    <3>2. i + 1 = j + 1
      BY <3>1 DEF Waits
    <3> QED
      BY <2>2, <3>2
  <2>6. \A i \in 1 .. Len(queue') : pc'[queue'[i]] = "waiting"
    BY <2>2, <2>4
  <2> QED
    BY <2>5, <2>6 DEF Waits
<1>5. ASSUME NEW r \in Requests, StatementGoesOn(r) PROVE Waits'
  BY <1>5 DEF StatementGoesOn, Waits
<1>6. ASSUME NEW r \in Requests, UnitEnds(r) PROVE Waits'
  BY <1>6, <1>00 DEF UnitEnds
<1>7. ASSUME NEW r \in Requests, Fail(r) PROVE Waits'
  <2>1. queue' = QueueWithout(r) /\ pc' = [pc EXCEPT ![r] = "failed"]
    BY <1>7 DEF Fail, Failed
  <2>2. ASSUME NEW i \in 1 .. Len(queue') PROVE pc'[queue'[i]] = "waiting"
    <3>1. queue'[i] # r /\ \E k \in 1 .. Len(queue) : queue'[i] = queue[k]
      BY <2>1, LeftWaits
    <3>2. PICK k \in 1 .. Len(queue) : queue'[i] = queue[k]
      BY <3>1
    <3>3. pc[queue[k]] = "waiting" /\ queue[k] \in Requests /\ queue[k] # r
      BY <1>0, <3>1, <3>2 DEF Waits
    <3> QED
      BY <2>1, <3>2, <3>3 DEF TypeOK
  <2> QED
    BY <2>1, <2>2, LeftWaits DEF Waits
<1>8. ASSUME NEW r \in Requests, Answer(r) PROVE Waits'
  BY <1>8, <1>00 DEF Answer
<1>9. CASE Signal \/ Drained \/ Exit \/ ListenFails \/ TimeOver
  BY <1>9 DEF Signal, Drained, Exit, ListenFails, TimeOver, Waits
<1>10. CASE UNCHANGED vars
  BY <1>10 DEF vars, Waits
<1>11. ASSUME NEW r \in Requests, ReadBody(r) PROVE Waits'
  BY <1>11, <1>00 DEF ReadBody
<1> QED
  BY <1>1, <1>2, <1>3, <1>4, <1>5, <1>6, <1>7, <1>8, <1>9, <1>10, <1>11, StepKinds

LEMMA AtWorkStep == ASSUME Inductive, [Next]_vars PROVE AtWork'
<1> USE DEF Inductive
<1>1. ASSUME NEW r \in Requests, Accept(r) PROVE AtWork'
  BY <1>1 DEF Accept, TypeOK, AtWork
<1>2. ASSUME NEW r \in Requests, Joins(r) PROVE AtWork'
  BY <1>2 DEF Joins, TypeOK, AtWork
<1>3. ASSUME NEW r \in Requests, Refused(r) PROVE AtWork'
  BY <1>3 DEF Refused, TypeOK, AtWork
<1>4. ASSUME NEW r \in Requests, Grant(r) PROVE AtWork'
  <2>1. pc[r] = "waiting"
    BY <1>4, HeadAndTail DEF Grant, Waits
  <2> QED
    BY <1>4, <2>1 DEF Grant, TypeOK, AtWork
<1>5. ASSUME NEW r \in Requests, StatementGoesOn(r) PROVE AtWork'
  <2>1. plan[r] \in Seq(Unit) /\ Len(plan[r]) \in Nat \ {0}
    BY <1>5, PlanTyped DEF StatementGoesOn
  <2>2. plan'[r] = [plan[r] EXCEPT ![1] = Tail(@)]
    BY <1>5 DEF StatementGoesOn, TypeOK
  <2>3. plan'[r] # <<>>
    BY <2>1, <2>2
  <2> QED
    BY <1>5, <2>3 DEF StatementGoesOn, TypeOK, AtWork
<1>6. ASSUME NEW r \in Requests, UnitEnds(r) PROVE AtWork'
  BY <1>6 DEF UnitEnds, GiveBack, TypeOK, AtWork
<1>7. ASSUME NEW r \in Requests, Fail(r) PROVE AtWork'
  BY <1>7 DEF Fail, Failed, GiveBack, TypeOK, AtWork
<1>8. ASSUME NEW r \in Requests, Answer(r) PROVE AtWork'
  BY <1>8 DEF Answer, TypeOK, AtWork
<1>9. CASE Signal \/ Drained \/ Exit \/ ListenFails \/ TimeOver
  BY <1>9 DEF Signal, Drained, Exit, ListenFails, TimeOver, TypeOK, AtWork
<1>10. CASE UNCHANGED vars
  BY <1>10 DEF vars, TypeOK, AtWork
<1>11. ASSUME NEW r \in Requests, ReadBody(r) PROVE AtWork'
  BY <1>11 DEF ReadBody, TypeOK, AtWork
<1> QED
  BY <1>1, <1>2, <1>3, <1>4, <1>5, <1>6, <1>7, <1>8, <1>9, <1>10, <1>11, StepKinds

LEMMA HoldingStep == ASSUME Inductive, [Next]_vars PROVE Holding'
<1> USE DEF Inductive
<1>0. ASSUME NEW r PROVE /\ IsFiniteSet(holder \ {r})
                         /\ Cardinality(holder \ {r}) <= MaxConns
  <2>1. IsFiniteSet(holder \ {r}) /\ Cardinality(holder \ {r}) <= Cardinality(holder)
    BY FS_Subset DEF Holding
  <2>2. Cardinality(holder) \in Nat /\ Cardinality(holder \ {r}) \in Nat
    BY <2>1, FS_CardinalityType DEF Holding
  <2> QED
    BY <2>1, <2>2, ServerAssumption DEF Holding
<1>1. ASSUME NEW r \in Requests, Accept(r) PROVE Holding'
  BY <1>1 DEF Accept, TypeOK, Holding
<1>2. ASSUME NEW r \in Requests, Joins(r) PROVE Holding'
  BY <1>2 DEF Joins, TypeOK, Holding
<1>3. ASSUME NEW r \in Requests, Refused(r) PROVE Holding'
  BY <1>3 DEF Refused, TypeOK, Holding
<1>4. ASSUME NEW r \in Requests, Grant(r) PROVE Holding'
  <2>1. pc[r] = "waiting"
    BY <1>4, HeadAndTail DEF Grant, Waits
  <2>2. r \notin holder
    BY <2>1 DEF Holding
  <2>3. IsFiniteSet(holder') /\ Cardinality(holder') = Cardinality(holder) + 1
    BY <1>4, <2>2, FS_AddElement DEF Grant, Holding
  <2>4. Cardinality(holder) \in Nat
    BY FS_CardinalityType DEF Holding
  <2>5. Cardinality(holder') <= MaxConns
    BY <1>4, <2>3, <2>4, ServerAssumption DEF Grant
  <2>6. \A q \in Requests : q \in holder' <=> pc'[q] = "querying"
    BY <1>4 DEF Grant, TypeOK, Holding
  <2> QED
    BY <2>3, <2>5, <2>6 DEF Holding
<1>5. ASSUME NEW r \in Requests, StatementGoesOn(r) PROVE Holding'
  BY <1>5 DEF StatementGoesOn, Lock, TypeOK, Holding
<1>6. ASSUME NEW r \in Requests, UnitEnds(r) PROVE Holding'
  <2>1. \A q \in Requests : q \in holder' <=> pc'[q] = "querying"
    BY <1>6 DEF UnitEnds, GiveBack, TypeOK, Holding
  <2> QED
    BY <1>6, <1>0, <2>1 DEF UnitEnds, GiveBack, Holding
<1>7. ASSUME NEW r \in Requests, Fail(r) PROVE Holding'
  <2>1. \A q \in Requests : q \in holder' <=> pc'[q] = "querying"
    BY <1>7 DEF Fail, Failed, GiveBack, TypeOK, Holding
  <2> QED
    BY <1>7, <1>0, <2>1 DEF Fail, GiveBack, Holding
<1>8. ASSUME NEW r \in Requests, Answer(r) PROVE Holding'
  BY <1>8 DEF Answer, TypeOK, Holding
<1>9. CASE Signal \/ Drained \/ Exit \/ ListenFails \/ TimeOver
  BY <1>9 DEF Signal, Drained, Exit, ListenFails, TimeOver, TypeOK, Holding
<1>10. CASE UNCHANGED vars
  BY <1>10 DEF vars, TypeOK, Holding
<1>11. ASSUME NEW r \in Requests, ReadBody(r) PROVE Holding'
  BY <1>11 DEF ReadBody, TypeOK, Holding
<1> QED
  BY <1>1, <1>2, <1>3, <1>4, <1>5, <1>6, <1>7, <1>8, <1>9, <1>10, <1>11, StepKinds

LEMMA LockingStep == ASSUME Inductive, [Next]_vars PROVE Locking'
<1> USE DEF Inductive
<1>1. ASSUME NEW r \in Requests, Accept(r) PROVE Locking'
  BY <1>1 DEF Accept, Locking
<1>2. ASSUME NEW r \in Requests, Joins(r) PROVE Locking'
  BY <1>2 DEF Joins, Locking
<1>3. ASSUME NEW r \in Requests, Refused(r) PROVE Locking'
  BY <1>3 DEF Refused, Locking
<1>4. ASSUME NEW r \in Requests, Grant(r) PROVE Locking'
  BY <1>4 DEF Grant, Locking
<1>5. ASSUME NEW r \in Requests, StatementGoesOn(r) PROVE Locking'
  <2>1. r \in holder
    BY <1>5 DEF StatementGoesOn, Holding
  <2> QED
    BY <1>5, <2>1 DEF StatementGoesOn, Lock, TypeOK, Locking
<1>6. ASSUME NEW r \in Requests, UnitEnds(r) PROVE Locking'
  BY <1>6 DEF UnitEnds, GiveBack, Unlocked, Locking
<1>7. ASSUME NEW r \in Requests, Fail(r) PROVE Locking'
  BY <1>7 DEF Fail, Failed, GiveBack, Unlocked, Locking
<1>8. ASSUME NEW r \in Requests, Answer(r) PROVE Locking'
  BY <1>8 DEF Answer, Locking
<1>9. CASE Signal \/ Drained \/ Exit \/ ListenFails \/ TimeOver
  BY <1>9 DEF Signal, Drained, Exit, ListenFails, TimeOver, Locking
<1>10. CASE UNCHANGED vars
  BY <1>10 DEF vars, Locking
<1>11. ASSUME NEW r \in Requests, ReadBody(r) PROVE Locking'
  BY <1>11 DEF ReadBody, Locking
<1> QED
  BY <1>1, <1>2, <1>3, <1>4, <1>5, <1>6, <1>7, <1>8, <1>9, <1>10, <1>11, StepKinds

LEMMA ClosingStep == ASSUME Inductive, [Next]_vars PROVE Closing'
<1> USE DEF Inductive, Running, Busy
<1>1. ASSUME NEW r \in Requests, Accept(r) PROVE Closing'
  BY <1>1 DEF Accept, TypeOK, Closing
<1>2. ASSUME NEW r \in Requests, Joins(r) PROVE Closing'
  BY <1>2 DEF Joins, TypeOK, Closing
<1>3. ASSUME NEW r \in Requests, Refused(r) PROVE Closing'
  BY <1>3 DEF Refused, TypeOK, Closing
<1>4. ASSUME NEW r \in Requests, Grant(r) PROVE Closing'
  <2>1. pc[r] = "waiting"
    BY <1>4, HeadAndTail DEF Grant, Waits
  <2> QED
    BY <1>4, <2>1 DEF Grant, Closing
<1>5. ASSUME NEW r \in Requests, StatementGoesOn(r) PROVE Closing'
  BY <1>5 DEF StatementGoesOn, Lock, TypeOK, Closing
<1>6. ASSUME NEW r \in Requests, UnitEnds(r) PROVE Closing'
  BY <1>6 DEF UnitEnds, GiveBack, TypeOK, Closing
<1>7. ASSUME NEW r \in Requests, Fail(r) PROVE Closing'
  BY <1>7 DEF Fail, Failed, GiveBack, TypeOK, Closing
<1>8. ASSUME NEW r \in Requests, Answer(r) PROVE Closing'
  BY <1>8 DEF Answer, TypeOK, Closing
<1>9. CASE Signal \/ Drained \/ Exit \/ ListenFails \/ TimeOver
  BY <1>9 DEF Signal, Drained, Exit, ListenFails, TimeOver, TypeOK, Closing
<1>10. CASE UNCHANGED vars
  BY <1>10 DEF vars, TypeOK, Closing
<1>11. ASSUME NEW r \in Requests, ReadBody(r) PROVE Closing'
  BY <1>11 DEF ReadBody, TypeOK, Closing
<1> QED
  BY <1>1, <1>2, <1>3, <1>4, <1>5, <1>6, <1>7, <1>8, <1>9, <1>10, <1>11, StepKinds

LEMMA InductiveStep == Inductive /\ [Next]_vars => Inductive'
  BY TypeStep, WaitsStep, AtWorkStep, HoldingStep, LockingStep, ClosingStep DEF Inductive

LEMMA InductiveHolds == Spec => []Inductive
  BY InitInductive, InductiveStep, PTL DEF Spec

-----------------------------------------------------------------------------

\* Every variable keeps its type: the queue holds requests, locks have holders.
THEOREM ServerTyped == Spec => []TypeOK
  BY InductiveHolds, PTL DEF Inductive

\* No handler keeps a connection or a row longer than its unit, and the pool
\* never has more connections out than it may.
THEOREM NothingEverLeaks == Spec => []NothingLeaks
<1>1. Inductive => NothingLeaks
  BY DEF Inductive, TypeOK, Holding, Locking, NothingLeaks
<1> QED
  BY <1>1, InductiveHolds, PTL

\* While the pool is closed nobody runs who was accepted.
THEOREM ExitIsClean == Spec => []CleanExitLosesNothing
<1>1. Inductive => CleanExitLosesNothing
  BY DEF Inductive, TypeOK, Closing, CleanExitLosesNothing, Running, Busy
<1> QED
  BY <1>1, InductiveHolds, PTL

-----------------------------------------------------------------------------
(* No circle of waiting.                                                   *)

\* The handlers take the rows of a unit in one order: row may be followed by
\* next when next is of lower rank, or the same again.
Falls(rank, row, next) == next \in Rows => next = row \/ rank[next] < rank[row]

InOrder(rank, unit) ==
    \A i, j \in 1 .. Len(unit) : i < j /\ unit[i] \in Rows => Falls(rank, unit[i], unit[j])

AllInOrder(rank, units) == \A k \in 1 .. Len(units) : InOrder(rank, units[k])

PlansInOrder(rank) == \A p \in Plans : AllInOrder(rank, p)

\* What a request has before it is in order, and so is what it has locked with
\* what it will ask for in the same unit; who waits is in the queue.
RestInOrder(rank) == \A r \in Requests : AllInOrder(rank, plan[r])

LockedBefore(rank) ==
    \A row \in Rows : lock[row] # Nil =>
        \A i \in 1 .. Len(plan[lock[row]][1]) : Falls(rank, row, plan[lock[row]][1][i])

Queued == \A r \in Requests : pc[r] = "waiting" => \E i \in 1 .. Len(queue) : queue[i] = r

Orderly(rank) == Inductive /\ RestInOrder(rank) /\ LockedBefore(rank) /\ Queued

\* A set of numbers that is not empty has a least one.
LEMMA Least ==
    ASSUME NEW S \in SUBSET Nat, S # {}
    PROVE  \E n \in S : \A m \in S : n <= m
<1>1. PICK n \in S : \A m \in S : <<m, n>> \notin OpToRel(<, Nat)
  BY NatLessThanWellFounded, WFMin
<1>2. \A m \in S : ~(m < n)
  BY <1>1 DEF OpToRel
<1>3. \A m \in S : m \in Nat /\ n \in Nat
  OBVIOUS
<1>4. \A m \in S : n <= m
  BY <1>2, <1>3, SMT
<1> QED
  BY <1>4

\* What is left of a sequence in order is in order.
LEMMA TailInOrder ==
    ASSUME NEW rank, NEW u \in Seq(Rows \cup {Nil}), u # <<>>, InOrder(rank, u)
    PROVE  /\ InOrder(rank, Tail(u))
           /\ u[1] \in Rows => \A i \in 1 .. Len(Tail(u)) : Falls(rank, u[1], Tail(u)[i])
           /\ \A i \in 1 .. Len(Tail(u)) : \E j \in 1 .. Len(u) : Tail(u)[i] = u[j]
<1>1. Len(u) \in Nat \ {0} /\ Len(Tail(u)) = Len(u) - 1
  OBVIOUS
<1>2. \A i \in 1 .. Len(Tail(u)) : i + 1 \in 1 .. Len(u) /\ Tail(u)[i] = u[i + 1]
  OBVIOUS
<1>3. InOrder(rank, Tail(u))
  <2> SUFFICES ASSUME NEW i \in 1 .. Len(Tail(u)), NEW j \in 1 .. Len(Tail(u)),
                      i < j, u[i + 1] \in Rows
               PROVE  Falls(rank, u[i + 1], u[j + 1])
    BY <1>2 DEF InOrder
  <2>1. i + 1 < j + 1
    OBVIOUS
  <2> QED
    BY <1>2, <2>1 DEF InOrder
<1>4. ASSUME u[1] \in Rows, NEW i \in 1 .. Len(Tail(u)) PROVE Falls(rank, u[1], Tail(u)[i])
  <2>1. 1 < i + 1 /\ 1 \in 1 .. Len(u)
    BY <1>1
  <2> QED
    BY <1>2, <1>4, <2>1 DEF InOrder
<1> QED
  BY <1>2, <1>3, <1>4

LEMMA AllTailInOrder ==
    ASSUME NEW rank, NEW units \in Seq(Unit), units # <<>>, AllInOrder(rank, units)
    PROVE  AllInOrder(rank, Tail(units))
<1>1. \A k \in 1 .. Len(Tail(units)) : k + 1 \in 1 .. Len(units) /\ Tail(units)[k] = units[k + 1]
  OBVIOUS
<1> QED
  BY <1>1 DEF AllInOrder

LEMMA InitOrderly == ASSUME NEW rank, Init PROVE Orderly(rank)
<1>1. Inductive
  BY InitInductive
<1>2. RestInOrder(rank)
  <2>1. \A r \in Requests : plan[r] = <<>> /\ Len(plan[r]) = 0
    BY DEF Init
  <2>2. \A r \in Requests : 1 .. Len(plan[r]) = {}
    BY <2>1
  <2> QED
    BY <2>2 DEF RestInOrder, AllInOrder
<1>3. LockedBefore(rank) /\ Queued
  BY DEF Init, LockedBefore, Queued
<1> QED
  BY <1>1, <1>2, <1>3 DEF Orderly

\* A request outside the pool's connections has no row.
LEMMA LocksAreHeld ==
    ASSUME Inductive, NEW row \in Rows, lock[row] # Nil
    PROVE  lock[row] \in Requests /\ pc[lock[row]] = "querying"
  BY DEF Inductive, TypeOK, Locking, Holding

LEMMA RestStep ==
    ASSUME NEW rank, PlansInOrder(rank), Orderly(rank), [Next]_vars
    PROVE  RestInOrder(rank)'
<1> USE DEF Orderly, Inductive
<1>0. ASSUME NEW r \in Requests, NEW rest, plan' = [plan EXCEPT ![r] = rest],
             AllInOrder(rank, rest)
      PROVE  RestInOrder(rank)'
  BY <1>0 DEF RestInOrder, TypeOK
<1>1. ASSUME NEW r \in Requests, Accept(r) PROVE RestInOrder(rank)'
  BY <1>0, <1>1 DEF Accept, PlansInOrder
<1>2. ASSUME NEW r \in Requests, StatementGoesOn(r) PROVE RestInOrder(rank)'
  <2> DEFINE rest == [plan[r] EXCEPT ![1] = Tail(@)]
  <2>1. plan[r] \in Seq(Unit) /\ Len(plan[r]) \in Nat \ {0}
        /\ plan[r][1] \in Seq(Rows \cup {Nil}) /\ plan[r][1] # <<>>
    BY <1>2, PlanTyped DEF StatementGoesOn
  <2>2. plan' = [plan EXCEPT ![r] = rest]
    BY <1>2 DEF StatementGoesOn
  <2>3. Len(rest) = Len(plan[r]) /\ rest[1] = Tail(plan[r][1])
        /\ \A k \in 1 .. Len(plan[r]) : k # 1 => rest[k] = plan[r][k]
    BY <2>1
  <2>4. AllInOrder(rank, plan[r]) /\ InOrder(rank, plan[r][1])
    BY <2>1 DEF RestInOrder, AllInOrder
  <2>5. InOrder(rank, rest[1])
    BY <2>1, <2>3, <2>4, TailInOrder
  <2>6. AllInOrder(rank, rest)
    BY <2>3, <2>4, <2>5 DEF AllInOrder
  <2> HIDE DEF rest
  <2> QED
    BY <1>0, <2>2, <2>6
<1>3. ASSUME NEW r \in Requests, UnitEnds(r) PROVE RestInOrder(rank)'
  <2>1. plan[r] \in Seq(Unit) /\ plan[r] # <<>> /\ AllInOrder(rank, plan[r])
    BY <1>3, PlanTyped DEF UnitEnds, RestInOrder
  <2>2. AllInOrder(rank, Tail(plan[r]))
    BY <2>1, AllTailInOrder
  <2> QED
    BY <1>0, <1>3, <2>2 DEF UnitEnds
<1>4. ASSUME NEW r \in Requests, Fail(r) PROVE RestInOrder(rank)'
  <2>1. 1 .. Len(<<>>) = {}
    OBVIOUS
  <2>2. AllInOrder(rank, <<>>)
    BY <2>1 DEF AllInOrder
  <2> QED
    BY <1>0, <1>4, <2>2 DEF Fail, Failed
<1>5. ASSUME UNCHANGED plan PROVE RestInOrder(rank)'
  BY <1>5 DEF RestInOrder
<1> QED
  BY <1>1, <1>2, <1>3, <1>4, <1>5, StepKinds
  DEF ReadBody, Joins, Refused, Grant, Answer, Signal, Drained, Exit, ListenFails, TimeOver, vars

LEMMA LockedStep ==
    ASSUME NEW rank, Orderly(rank), [Next]_vars
    PROVE  LockedBefore(rank)'
<1> USE DEF Orderly
<1>1. ASSUME NEW r \in Requests, pc[r] # "querying", NEW rest,
             plan' = [plan EXCEPT ![r] = rest], UNCHANGED lock
      PROVE  LockedBefore(rank)'
  <2>1. ASSUME NEW row \in Rows, lock[row] # Nil PROVE plan'[lock[row]] = plan[lock[row]]
    BY <1>1, <2>1, LocksAreHeld DEF Inductive, TypeOK
  <2> QED
    BY <1>1, <2>1 DEF LockedBefore
<1>2. ASSUME NEW r \in Requests, NEW rest, plan' = [plan EXCEPT ![r] = rest], GiveBack(r)
      PROVE  LockedBefore(rank)'
  <2>1. ASSUME NEW row \in Rows, lock'[row] # Nil
        PROVE  lock'[row] = lock[row] /\ lock[row] # r
    BY <1>2, <2>1 DEF GiveBack, Unlocked
  <2>2. ASSUME NEW row \in Rows, lock'[row] # Nil PROVE plan'[lock'[row]] = plan[lock[row]]
    BY <1>2, <2>1, <2>2, LocksAreHeld DEF Inductive, TypeOK
  <2> QED
    BY <2>1, <2>2 DEF LockedBefore
<1>3. ASSUME NEW r \in Requests, StatementGoesOn(r) PROVE LockedBefore(rank)'
  <2> DEFINE u == plan[r][1]
  <2>1. /\ plan[r] \in Seq(Unit) /\ Len(plan[r]) \in Nat \ {0}
        /\ u \in Seq(Rows \cup {Nil}) /\ u # <<>>
    BY <1>3, PlanTyped DEF StatementGoesOn
  <2>2. InOrder(rank, u)
    BY <2>1 DEF RestInOrder, AllInOrder
  <2>3. plan'[r][1] = Tail(u)
    BY <1>3, <2>1 DEF StatementGoesOn, Inductive, TypeOK
  <2>4. \A q \in Requests \ {r} : plan'[q] = plan[q]
    BY <1>3 DEF StatementGoesOn, Inductive, TypeOK
  <2>5. ASSUME NEW row \in Rows
        PROVE  lock'[row] = lock[row] \/ (lock'[row] = r /\ row = u[1])
    BY <1>3 DEF StatementGoesOn, Lock, Inductive, TypeOK
  <2> HIDE DEF u
  <2> SUFFICES ASSUME NEW row \in Rows, lock'[row] # Nil,
                      NEW i \in 1 .. Len(plan'[lock'[row]][1])
               PROVE  Falls(rank, row, plan'[lock'[row]][1][i])
    BY DEF LockedBefore, Falls
  <2>6. CASE lock'[row] = r /\ row = u[1]
    BY <2>1, <2>2, <2>3, <2>6, TailInOrder
  <2>7. CASE lock'[row] = lock[row] /\ lock[row] = r
    <3>1. PICK j \in 1 .. Len(u) : Tail(u)[i] = u[j]
      BY <2>1, <2>2, <2>3, <2>7, TailInOrder
    <3>2. Falls(rank, row, u[j])
      BY <2>7 DEF LockedBefore, u
    <3> QED
      BY <2>3, <2>7, <3>1, <3>2
  <2>8. CASE lock'[row] = lock[row] /\ lock[row] # r
    <3>1. lock[row] \in Requests \ {r}
      BY <2>8, LocksAreHeld
    <3> QED
      BY <2>4, <2>8, <3>1 DEF LockedBefore
  <2> QED
    BY <2>5, <2>6, <2>7, <2>8
<1>4. ASSUME NEW r \in Requests, Accept(r) PROVE LockedBefore(rank)'
  BY <1>1, <1>4 DEF Accept
<1>5. ASSUME NEW r \in Requests, UnitEnds(r) PROVE LockedBefore(rank)'
  BY <1>2, <1>5 DEF UnitEnds
<1>6. ASSUME NEW r \in Requests, Fail(r) PROVE LockedBefore(rank)'
  BY <1>2, <1>6 DEF Fail, Failed
<1>7. ASSUME UNCHANGED <<plan, lock>> PROVE LockedBefore(rank)'
  BY <1>7 DEF LockedBefore
<1> QED
  BY <1>3, <1>4, <1>5, <1>6, <1>7, StepKinds
  DEF ReadBody, Joins, Refused, Grant, Answer, Signal, Drained, Exit, ListenFails, TimeOver, vars

\* Who leaves the queue is the only one that is not in it any more.
LEMMA LeftStay ==
    ASSUME TypeOK, Waits, NEW r \in Requests, NEW k \in 1 .. Len(queue), queue[k] # r
    PROVE  \E i \in 1 .. Len(QueueWithout(r)) : QueueWithout(r)[i] = queue[k]
<1>1. Len(queue) \in Nat
  BY DEF TypeOK
<1>2. CASE \E i \in 1 .. Len(queue) : queue[i] = r
  <2> DEFINE place == CHOOSE i \in 1 .. Len(queue) : queue[i] = r
             at == IF k < place THEN k ELSE k - 1
  <2>1. place \in 1 .. Len(queue) /\ queue[place] = r
    BY <1>2
  <2> HIDE DEF place
  <2>2. QueueWithout(r) =
            [i \in 1 .. Len(queue) - 1 |-> IF i < place THEN queue[i] ELSE queue[i + 1]]
    BY <1>2 DEF QueueWithout, place
  <2>3. k # place
    BY <2>1
  <2>4. at \in 1 .. Len(queue) - 1
    BY <1>1, <2>1, <2>3
  <2>5. QueueWithout(r)[at] = IF at < place THEN queue[at] ELSE queue[at + 1]
    BY <2>2, <2>4
  <2>6. QueueWithout(r)[at] = queue[k]
    BY <1>1, <2>1, <2>3, <2>5
  <2>7. Len(QueueWithout(r)) = Len(queue) - 1
    BY <1>1, <2>1, <2>2
  <2> QED
    BY <2>4, <2>6, <2>7
<1>3. CASE ~\E i \in 1 .. Len(queue) : queue[i] = r
  BY <1>3 DEF QueueWithout
<1> QED
  BY <1>2, <1>3

LEMMA QueuedStep == ASSUME Inductive, Queued, [Next]_vars PROVE Queued'
<1> USE DEF Inductive
<1>0. ASSUME queue' = queue, NEW r \in Requests, NEW v, v # "waiting",
             pc' = [pc EXCEPT ![r] = v]
      PROVE  Queued'
  BY <1>0 DEF Queued, TypeOK
<1>1. ASSUME NEW r \in Requests, Joins(r) PROVE Queued'
  <2>1. queue' = Append(queue, r) /\ pc' = [pc EXCEPT ![r] = "waiting"]
    BY <1>1 DEF Joins
  <2>2. /\ Len(queue) \in Nat /\ Len(queue') = Len(queue) + 1
        /\ queue'[Len(queue) + 1] = r
        /\ \A i \in 1 .. Len(queue) : queue'[i] = queue[i]
    BY <2>1, Joined
  <2>3. Len(queue) + 1 \in 1 .. Len(queue')
        /\ \A i \in 1 .. Len(queue) : i \in 1 .. Len(queue')
    BY <2>2
  <2>4. ASSUME NEW q \in Requests, pc'[q] = "waiting"
        PROVE  \E i \in 1 .. Len(queue') : queue'[i] = q
    <3>1. CASE q = r
      BY <2>2, <2>3, <3>1
    <3>2. CASE q # r
      <4>1. PICK i \in 1 .. Len(queue) : queue[i] = q
        BY <2>1, <2>4, <3>2 DEF Queued, TypeOK
      <4> QED
        BY <2>2, <2>3, <4>1
    <3> QED
      BY <3>1, <3>2
  <2> QED
    BY <2>4 DEF Queued
<1>2. ASSUME NEW r \in Requests, Grant(r) PROVE Queued'
  <2>1. queue # <<>> /\ queue' = Tail(queue) /\ r = queue[1]
    BY <1>2, HeadAndTail DEF Grant
  <2>2. /\ Len(queue) \in Nat \ {0} /\ Len(queue') = Len(queue) - 1
        /\ \A i \in 1 .. Len(queue') : queue'[i] = queue[i + 1]
    BY <2>1, HeadAndTail
  <2>3. ASSUME NEW q \in Requests, pc'[q] = "waiting"
        PROVE  \E i \in 1 .. Len(queue') : queue'[i] = q
    <3>1. q # r /\ pc[q] = "waiting"
      BY <1>2, <2>3 DEF Grant, TypeOK
    <3>2. PICK i \in 1 .. Len(queue) : queue[i] = q
      BY <3>1 DEF Queued
    <3>3. i - 1 \in 1 .. Len(queue') /\ queue'[i - 1] = queue[i]
      BY <2>1, <2>2, <3>1, <3>2
    <3> QED
      BY <3>2, <3>3
  <2> QED
    BY <2>3 DEF Queued
<1>3. ASSUME NEW r \in Requests, Fail(r) PROVE Queued'
  <2>1. queue' = QueueWithout(r) /\ pc' = [pc EXCEPT ![r] = "failed"]
    BY <1>3 DEF Fail, Failed
  <2>2. ASSUME NEW q \in Requests, pc'[q] = "waiting"
        PROVE  \E i \in 1 .. Len(queue') : queue'[i] = q
    <3>1. q # r /\ pc[q] = "waiting"
      BY <2>1, <2>2 DEF TypeOK
    <3>2. PICK k \in 1 .. Len(queue) : queue[k] = q
      BY <3>1 DEF Queued
    <3> QED
      BY <2>1, <3>1, <3>2, LeftStay
  <2> QED
    BY <2>2 DEF Queued
<1>4. ASSUME NEW r \in Requests, Accept(r) PROVE Queued'
  BY <1>0, <1>4 DEF Accept
<1>5. ASSUME NEW r \in Requests, Refused(r) PROVE Queued'
  BY <1>0, <1>5 DEF Refused
<1>6. ASSUME NEW r \in Requests, UnitEnds(r) PROVE Queued'
  BY <1>0, <1>6 DEF UnitEnds
<1>7. ASSUME NEW r \in Requests, Answer(r) PROVE Queued'
  BY <1>0, <1>7 DEF Answer
<1>8. ASSUME UNCHANGED <<pc, queue>> PROVE Queued'
  BY <1>8 DEF Queued
<1>9. ASSUME NEW r \in Requests, ReadBody(r) PROVE Queued'
  BY <1>0, <1>9 DEF ReadBody
<1> QED
  BY <1>1, <1>2, <1>3, <1>4, <1>5, <1>6, <1>7, <1>8, <1>9, StepKinds
  DEF StatementGoesOn, Signal, Drained, Exit, ListenFails, TimeOver, vars

LEMMA OrderlyHolds == ASSUME NEW rank, PlansInOrder(rank) PROVE Spec => []Orderly(rank)
<1>1. Init => Orderly(rank)
  BY InitOrderly
<1>2. Orderly(rank) /\ [Next]_vars => Orderly(rank)'
  BY RestStep, LockedStep, QueuedStep, InductiveStep DEF Orderly
<1> QED
  BY <1>1, <1>2, PTL DEF Spec

\* The conditions under which a request takes a step of its own, with no failure
\* and no deadline: it runs, a connection is free for it, or its row is.
CanMove(r) ==
    \/ pc[r] = "handling"
    \/ queue # <<>> /\ r = Head(queue) /\ Cardinality(holder) < MaxConns
    \/ pc[r] = "querying" /\ ~Blocked(r)

NobodyIsStuck ==
    Alive /\ (\E r \in Requests : pc[r] \in Busy) => \E r \in Requests : CanMove(r)

\* Who waits for a row waits for a request whose own next row is of lower rank.
LEMMA WaitsForLower ==
    ASSUME NEW rank \in [Rows -> Nat], Orderly(rank),
           NEW r \in Requests, pc[r] = "querying", Blocked(r)
    PROVE  \E q \in Requests :
              /\ pc[q] = "querying"
              /\ Blocked(q) => rank[plan[q][1][1]] < rank[plan[r][1][1]]
<1> DEFINE row == plan[r][1][1]
           q == lock[row]
<1>1. row \in Rows /\ q # Nil
  BY PlanTyped DEF Orderly, Blocked
<1>2. q \in Requests /\ pc[q] = "querying"
  BY <1>1, LocksAreHeld DEF Orderly
<1>3. /\ plan[q][1] \in Seq(Rows \cup {Nil}) /\ plan[q][1] # <<>>
      /\ plan[q][1][1] \in Rows \cup {Nil}
  BY <1>2, PlanTyped DEF Orderly
<1>4. 1 \in 1 .. Len(plan[q][1])
  BY <1>3
<1>5. Falls(rank, row, plan[q][1][1])
  BY <1>1, <1>4 DEF Orderly, LockedBefore
<1>6. ASSUME Blocked(q) PROVE rank[plan[q][1][1]] < rank[row]
  <2>1. plan[q][1][1] \in Rows /\ lock[plan[q][1][1]] # q
    BY <1>3, <1>6 DEF Blocked
  <2> QED
    BY <1>5, <2>1 DEF Falls
<1> QED
  BY <1>2, <1>6

LEMMA SomebodyMoves == ASSUME NEW rank \in [Rows -> Nat], Orderly(rank) PROVE NobodyIsStuck
<1> SUFFICES ASSUME Alive, NEW r \in Requests, pc[r] \in Busy,
                    \A q \in Requests : ~CanMove(q)
             PROVE  FALSE
  BY DEF NobodyIsStuck
<1>1. \A q \in Requests : pc[q] = "querying" => Blocked(q)
  BY DEF CanMove
<1>2. CASE \E q \in Requests : pc[q] = "querying"
  <2> DEFINE Querying == {q \in Requests : pc[q] = "querying"}
             Ranks == {rank[plan[q][1][1]] : q \in Querying}
  <2>1. \A q \in Querying : plan[q][1][1] \in Rows
    BY <1>1, PlanTyped DEF Orderly, Blocked
  <2>2. Ranks \in SUBSET Nat /\ Ranks # {}
    BY <1>2, <2>1
  <2>3. PICK n \in Ranks : \A m \in Ranks : n <= m
    <3> HIDE DEF Ranks
    <3> QED
      BY <2>2, Least
  <2>4. PICK q \in Querying : n = rank[plan[q][1][1]]
    BY <2>3
  <2>5. PICK p \in Requests : /\ pc[p] = "querying"
                              /\ Blocked(p) => rank[plan[p][1][1]] < n
    BY <1>1, <2>4, WaitsForLower
  <2>6. rank[plan[p][1][1]] \in Ranks /\ rank[plan[p][1][1]] < n
    BY <1>1, <2>5
  <2>7. n <= rank[plan[p][1][1]] /\ n \in Nat /\ rank[plan[p][1][1]] \in Nat
    BY <2>2, <2>3, <2>6
  <2> QED
    BY <2>6, <2>7
<1>3. CASE \A q \in Requests : pc[q] # "querying"
  <2>1. pc[r] = "waiting"
    BY <1>3 DEF CanMove, Busy
  <2>2. queue # <<>>
    BY <2>1 DEF Orderly, Queued
  <2>3. holder = {}
    BY <1>3 DEF Orderly, Inductive, Holding, TypeOK
  <2>4. Cardinality(holder) = 0
    BY <2>3, FS_EmptySet
  <2>5. Head(queue) \in Requests
    BY <2>2, HeadAndTail DEF Orderly, Inductive
  <2> QED
    BY <2>2, <2>4, <2>5, ServerAssumption DEF CanMove
<1> QED
  BY <1>2, <1>3

\* Requests never wait in a circle, neither for the connections of the pool, however
\* few it has, nor for rows: while one that has its body runs, one can go on, and no
\* deadline has to pass. The plans need one thing for it, that their transactions take the rows they
\* share in one order, as the rating and the profile transactions do
\* (rating_repository.go: the reservation first, then the profile).
THEOREM NobodyIsEverStuck ==
    ASSUME NEW rank \in [Rows -> Nat], PlansInOrder(rank)
    PROVE  Spec => []NobodyIsStuck
<1>1. Orderly(rank) => NobodyIsStuck
  BY SomebodyMoves
<1>2. Spec => []Orderly(rank)
  BY OrderlyHolds
<1> QED
  BY <1>1, <1>2, PTL
================================================================================
