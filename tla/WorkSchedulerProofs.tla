------------------------- MODULE WorkSchedulerProofs -------------------------
(***************************************************************************)
(* Proofs about WorkScheduler, for any tasks and keys, any budget and any  *)
(* length of the history: the pool never exceeds the budget, keys are      *)
(* given back, and a cancelling shutdown reaches all work not over.        *)
(***************************************************************************)
EXTENDS WorkScheduler, FiniteSetTheorems, TLAPS

Unfinished == {"pending", "started", "calling", "running"}

\* The bound needs no other part of the type invariant: a future that is not over
\* stays among the active ones whatever happens to its record, status and key.
BudgetInv ==
    /\ future \in [Task -> Future]
    /\ IsFiniteSet(active)
    /\ \A t \in Task : future[t] \in Unfinished => t \in active
    /\ Cardinality(active) <= MaxConcurrent

\* Taking a task out of the active ones keeps the bound.
LEMMA OneFewer ==
    ASSUME NEW S, IsFiniteSet(S), NEW n \in Nat, Cardinality(S) <= n, NEW x
    PROVE  IsFiniteSet(S \ {x}) /\ Cardinality(S \ {x}) <= n
<1>1. IsFiniteSet(S \ {x}) /\ Cardinality(S \ {x}) <= Cardinality(S)
  BY FS_Subset
<1>2. Cardinality(S) \in Nat /\ Cardinality(S \ {x}) \in Nat
  BY <1>1, FS_CardinalityType
<1> QED BY <1>1, <1>2

\* Adding one when there is capacity keeps it too.
LEMMA OneMore ==
    ASSUME NEW S, IsFiniteSet(S), NEW n \in Nat, Cardinality(S) < n, NEW x
    PROVE  IsFiniteSet(S \cup {x}) /\ Cardinality(S \cup {x}) <= n
<1>1. /\ IsFiniteSet(S \cup {x})
      /\ Cardinality(S \cup {x}) = IF x \in S THEN Cardinality(S) ELSE Cardinality(S) + 1
  BY FS_AddElement
<1>2. Cardinality(S) \in Nat
  BY FS_CardinalityType
<1> QED BY <1>1, <1>2

\* The pool is empty at first.
LEMMA InitBudget == Init => BudgetInv
<1> SUFFICES ASSUME Init PROVE BudgetInv
  OBVIOUS
<1>1. future \in [Task -> Future] /\ \A t \in Task : future[t] \notin Unfinished
  BY DEF Init, Future, Unfinished
<1>2. IsFiniteSet(active) /\ Cardinality(active) = 0
  BY FS_EmptySet DEF Init
<1> QED BY <1>1, <1>2, LimitAssumption DEF BudgetInv

\* Only a drain adds to the active futures, and it asks for capacity under the lock.
LEMMA StepBudget == BudgetInv /\ [Next]_vars => BudgetInv'
<1> SUFFICES ASSUME BudgetInv, [Next]_vars PROVE BudgetInv'
  OBVIOUS
<1>0. MaxConcurrent \in Nat
  BY LimitAssumption
<1> USE DEF BudgetInv
<1>1. CASE UNCHANGED <<future, active>>
  BY <1>1
<1>2. ASSUME NEW t \in Task, _drain_Submit(t) PROVE BudgetInv'
  <2>1. future' = [future EXCEPT ![t] = "pending"] /\ active' = active \cup {t}
    BY <1>2 DEF _drain_Submit
  <2>2. IsFiniteSet(active') /\ Cardinality(active') <= MaxConcurrent
    <3>1. Cardinality(active) < MaxConcurrent
      BY <1>2 DEF _drain_Submit, Pop, HasCapacity
    <3> QED BY <1>0, <2>1, <3>1, OneMore
  <2> QED BY <2>1, <2>2 DEF Future
<1>3. ASSUME NEW t \in Task, \/ worker_Take(t) \/ _run_task_Cancelled(t) \/ _run_task_Check(t)
                            \/ _run_task_Call(t) \/ _run_task_Return(t)
      PROVE  BudgetInv'
  <2>1. /\ active' = active /\ future[t] \in Unfinished
        /\ \E f \in {"started", "calling", "running", "done", "error", "fatal"} :
              future' = [future EXCEPT ![t] = f]
    BY <1>3 DEF worker_Take, _run_task_Cancelled, _run_task_Check, _run_task_Call,
                _run_task_Return, Unfinished
  <2> QED BY <2>1 DEF Future
<1>4. ASSUME NEW t \in Task, _complete_Unknown(t) \/ _complete(t) \/ _complete_Fatal(t)
      PROVE  BudgetInv'
  <2>1. /\ \E f \in {"none", "crashed"} : future' = [future EXCEPT ![t] = f]
        /\ active' = active \ {t}
    BY <1>4 DEF _complete_Unknown, _complete, _complete_Fatal
  <2>2. IsFiniteSet(active') /\ Cardinality(active') <= MaxConcurrent
    BY <1>0, <2>1, OneFewer
  <2> QED BY <2>1, <2>2 DEF Future, Unfinished
<1>5. ASSUME NEW t \in Task, cancel(t), future[t] = "pending" PROVE BudgetInv'
  <2>1. future' = [future EXCEPT ![t] = "none"] /\ active' = active \ {t}
    BY <1>5 DEF cancel
  <2>2. IsFiniteSet(active') /\ Cardinality(active') <= MaxConcurrent
    BY <1>0, <2>1, OneFewer
  <2> QED BY <2>1, <2>2 DEF Future, Unfinished
<1>6. CASE future' = FuturesCancelled /\ active' = active
  BY <1>6 DEF FuturesCancelled, Future, Unfinished
<1>7. ASSUME NEW t \in Task, Caller(t) PROVE BudgetInv'
  <2>1. CASE cancel(t) /\ future[t] = "pending"
    BY <1>5, <2>1
  <2>2. CASE ~(cancel(t) /\ future[t] = "pending")
    <3>1. UNCHANGED <<future, active>>
      BY <1>7, <2>2 DEF Caller, schedule_Rejected, schedule_Skipped, schedule_Queued, cancel
    <3> QED BY <1>1, <3>1
  <2> QED BY <2>1, <2>2
<1>8. CASE \E cancelling \in BOOLEAN : shutdown(cancelling)
  <2>1. active' = active /\ (future' = FuturesCancelled \/ future' = future)
    BY <1>8 DEF shutdown
  <2> QED BY <1>1, <1>6, <2>1
<1>9. CASE Drain
  <2>1. CASE \E t \in Task : _drain_Submit(t)
    BY <1>2, <2>1
  <2>3. ASSUME NEW t \in Task, _drain_SubmitRaises(t) PROVE BudgetInv'
    <3>1. active' = active /\ future' = [future EXCEPT ![t] = "refused"]
      BY <2>3 DEF _drain_SubmitRaises
    <3> QED BY <3>1 DEF Future, Unfinished
  <2>2. CASE _drain_Begin \/ _drain_End \/ \E t \in Task : _drain_KeyError(t) \/ _drain_Cancelled(t)
    BY <1>1, <2>2 DEF _drain_Begin, _drain_End, _drain_KeyError, _drain_Cancelled
  <2> QED BY <1>9, <2>1, <2>2, <2>3 DEF Drain
<1>10. CASE cancel_background_tasks
  BY <1>1, <1>10 DEF cancel_background_tasks
<1>11. CASE shutdown_Executor
  BY <1>6, <1>11 DEF shutdown_Executor
<1>12. CASE UNCHANGED vars
  BY <1>1, <1>12 DEF vars
<1> QED BY <1>3, <1>4, <1>7, <1>8, <1>9, <1>10, <1>11, <1>12 DEF Next, Pool

\* The pool never has more unfinished work than the budget allows, and none that the
\* scheduler does not count (work_scheduler.py _drain, _complete, cancel, shutdown).
THEOREM BudgetIsKept == Spec => []WithinBudget
<1>1. BudgetInv => WithinBudget
  BY DEF BudgetInv, WithinBudget, Unfinished
<1> QED BY <1>1, InitBudget, StepBudget, PTL DEF Spec

-----------------------------------------------------------------------------
(* Types.                                                                  *)

\* Pruning only drops records, and only those of tasks that are over.
LEMMA PruneKeeps ==
  ASSUME NEW outcome, Prune(outcome)
  PROVE  /\ tasks' \subseteq tasks
         /\ \A u \in tasks : outcome[u] \notin Terminal => u \in tasks'
BY DEF Prune, Pruned

\* Every step keeps the types.
LEMMA StepTypes == TypeOK /\ [Next]_vars => TypeOK'
<1> SUFFICES ASSUME TypeOK, [Next]_vars PROVE TypeOK'
  OBVIOUS
<1> USE DEF TypeOK
<1>1. CASE _drain_Begin
  <2>1. drains' \in Nat /\ draining' \in BOOLEAN
    BY <1>1 DEF _drain_Begin
  <2> QED BY <1>1, <2>1 DEF _drain_Begin
<1>1a. CASE _drain_End \/ UNCHANGED vars
  BY <1>1a DEF _drain_End, vars
<1>1b. CASE cancel_background_tasks
  BY <1>1b DEF cancel_background_tasks, CancelAll, Open, Status
<1>2. ASSUME NEW t \in Task, _drain_KeyError(t) \/ _drain_Cancelled(t) PROVE TypeOK'
  BY <1>2 DEF _drain_KeyError, _drain_Cancelled, Pop, Status
<1>3. ASSUME NEW t \in Task, _drain_Submit(t) PROVE TypeOK'
  BY <1>3 DEF _drain_Submit, Pop, Status, Future
<1>3a. ASSUME NEW t \in Task, _drain_SubmitRaises(t) PROVE TypeOK'
  <2>1. /\ status' \in [Task -> Status] /\ holder' \in [Key -> Task \cup {None}]
        /\ future' \in [Task -> Future] /\ queue' \subseteq Task
    BY <1>3a DEF _drain_SubmitRaises, Pop, Status, Future
  <2>2. draining' \in BOOLEAN /\ UNCHANGED <<token, tasks, older, active, drains, shut>>
    BY <1>3a DEF _drain_SubmitRaises
  <2> QED BY <2>1, <2>2
<1>4. ASSUME NEW t \in Task, \/ worker_Take(t) \/ _run_task_Cancelled(t) \/ _run_task_Check(t)
                            \/ _run_task_Call(t) \/ _run_task_Return(t)
                            \/ _complete_Unknown(t) \/ _complete_Fatal(t)
      PROVE  TypeOK'
  BY <1>4 DEF worker_Take, _run_task_Cancelled, _run_task_Check, _run_task_Call,
              _run_task_Return, _complete_Unknown, _complete_Fatal, Status, Future
<1>5. ASSUME Prune(status') PROVE tasks' \subseteq Task /\ older' \in [Task -> SUBSET Task]
  BY <1>5 DEF Prune, Pruned
<1>6. \A t : Released(t) \in [Key -> Task \cup {None}]
  BY DEF Released
<1>7. ASSUME NEW t \in Task, _complete(t) PROVE TypeOK'
  <2>1. tasks' \subseteq Task /\ older' \in [Task -> SUBSET Task] /\ holder' \in [Key -> Task \cup {None}]
    BY <1>5, <1>6, <1>7 DEF _complete
  <2>2. /\ status' \in [Task -> Status] /\ future' \in [Task -> Future]
        /\ active' \subseteq Task /\ drains' \in Nat
    BY <1>7 DEF _complete, DrainFollows, Outcome, Status, Future
  <2>3. UNCHANGED <<token, queue, draining, shut>>
    BY <1>7 DEF _complete
  <2> QED BY <2>1, <2>2, <2>3
<1>8. ASSUME NEW t \in Task, cancel(t) PROVE TypeOK'
  <2>1. tasks' \subseteq Task /\ older' \in [Task -> SUBSET Task] /\ holder' \in [Key -> Task \cup {None}]
    BY <1>5, <1>6, <1>8 DEF cancel
  <2>2. /\ status' \in [Task -> Status] /\ token' \in [Task -> BOOLEAN]
        /\ future' \in [Task -> Future] /\ active' \subseteq Task /\ drains' \in Nat
    BY <1>8 DEF cancel, DrainFollows, Status, Future
  <2>3. UNCHANGED <<queue, draining, shut>>
    BY <1>8 DEF cancel
  <2> QED BY <2>1, <2>2, <2>3
<1>9. ASSUME NEW t \in Task, schedule_Rejected(t) \/ schedule_Skipped(t) \/ schedule_Queued(t)
      PROVE  TypeOK'
  BY <1>9 DEF schedule_Rejected, schedule_Skipped, schedule_Queued, Status
<1>10. FuturesCancelled \in [Task -> Future]
  BY DEF FuturesCancelled, Future
<1>11. ASSUME NEW cancelling \in BOOLEAN, shutdown(cancelling) PROVE TypeOK'
  BY <1>10, <1>11 DEF shutdown, CancelAll, Open, Status, Shut
<1>12. CASE shutdown_Executor
  BY <1>10, <1>12 DEF shutdown_Executor
<1> QED BY <1>1, <1>2, <1>3, <1>3a, <1>4, <1>7, <1>8, <1>9, <1>11, <1>12, <1>1a, <1>1b
        DEF Next, Drain, Pool, Caller

\* Statuses, tokens, records, keys and futures keep their types.
THEOREM TypeCorrect == Spec => []TypeOK
<1>1. Init => TypeOK
  <2> SUFFICES ASSUME Init PROVE TypeOK
    OBVIOUS
  <2>1. tasks \subseteq Task /\ older \in [Task -> SUBSET Task]
    BY DEF Init
  <2>2. /\ status \in [Task -> Status] /\ token \in [Task -> BOOLEAN]
        /\ future \in [Task -> Future] /\ holder \in [Key -> Task \cup {None}]
    BY DEF Init, Status, Future
  <2> QED BY <2>1, <2>2 DEF Init, TypeOK, Shut
<1> QED BY <1>1, StepTypes, PTL DEF Spec

-----------------------------------------------------------------------------
(* Dedupe keys.                                                            *)

\* A task that holds a key has been scheduled, so that its record is not inserted
\* again after its key was found to be held.
KeyInv ==
    /\ KeyGivenBack
    /\ \A k \in Key : holder[k] # None => status[holder[k]] # "new"

\* What ends a task without giving its key back.
Excepted == {"refused", "crashed"}

\* The holder of a key gives it back in the step that ends it, or is excepted for good.
LEMMA StepKeys == TypeOK /\ KeyInv /\ [Next]_vars => KeyInv'
<1> SUFFICES ASSUME TypeOK, KeyInv, [Next]_vars, NEW k \in Key, holder'[k] # None
             PROVE  /\ \/ holder'[k] \in active' \/ holder'[k] \notin tasks'
                       \/ future'[holder'[k]] \in Excepted
                    /\ status'[holder'[k]] # "new"
  BY DEF KeyInv, KeyGivenBack, Excepted
<1> DEFINE Goal == /\ \/ holder'[k] \in active' \/ holder'[k] \notin tasks'
                      \/ future'[holder'[k]] \in Excepted
                   /\ status'[holder'[k]] # "new"
<1>0. /\ holder[k] # None => /\ \/ holder[k] \in active \/ holder[k] \notin tasks
                                \/ future[holder[k]] \in Excepted
                             /\ status[holder[k]] # "new" /\ holder[k] \in Task
      /\ status \in [Task -> Status] /\ future \in [Task -> Future] /\ None \notin Task
      /\ holder \in [Key -> Task \cup {None}]
  BY TaskAssumption DEF KeyInv, KeyGivenBack, TypeOK, Excepted
<1>a. ASSUME future' = FuturesCancelled, NEW t \in Task, future[t] \in Excepted
      PROVE  future'[t] \in Excepted
  BY <1>a DEF FuturesCancelled, Excepted
<1>b. CASE shutdown_Executor
  BY <1>0, <1>a, <1>b DEF shutdown_Executor
<1>1. CASE _drain_Begin \/ _drain_End \/ UNCHANGED vars
  BY <1>0, <1>1 DEF _drain_Begin, _drain_End, vars
<1>2. CASE cancel_background_tasks
  BY <1>0, <1>2 DEF cancel_background_tasks, CancelAll
<1>3. ASSUME NEW cancelling \in BOOLEAN, shutdown(cancelling) PROVE Goal
  BY <1>0, <1>a, <1>3 DEF shutdown, CancelAll
<1>4. ASSUME NEW t \in Task, _drain_KeyError(t) \/ _drain_Cancelled(t) PROVE Goal
  BY <1>0, <1>4 DEF _drain_KeyError, _drain_Cancelled
<1>5. ASSUME NEW t \in Task, _drain_Submit(t) PROVE Goal
  BY <1>0, <1>5 DEF _drain_Submit
<1>5a. ASSUME NEW t \in Task, _drain_SubmitRaises(t) PROVE Goal
  BY <1>0, <1>5a DEF _drain_SubmitRaises, Excepted
<1>6. ASSUME NEW t \in Task, \/ worker_Take(t) \/ _run_task_Cancelled(t) \/ _run_task_Check(t)
                            \/ _run_task_Call(t) \/ _run_task_Return(t)
      PROVE  Goal
  BY <1>0, <1>6 DEF worker_Take, _run_task_Cancelled, _run_task_Check, _run_task_Call,
                    _run_task_Return, Excepted
<1>7. ASSUME NEW t \in Task, _complete_Unknown(t) \/ _complete_Fatal(t) PROVE Goal
  BY <1>0, <1>7 DEF _complete_Unknown, _complete_Fatal, Excepted
<1>8. ASSUME NEW t \in Task, holder' = Released(t), active' = active \ {t}, tasks' \subseteq tasks,
             status' = [status EXCEPT ![t] = status'[t]],
             future' = [future EXCEPT ![t] = "none"]
      PROVE  Goal
  <2>1. holder[k] # t /\ holder'[k] = holder[k]
    BY <1>8 DEF Released
  <2> QED BY <1>0, <1>8, <2>1
<1>9. ASSUME NEW t \in Task, _complete(t) PROVE Goal
  <2>1. tasks' \subseteq tasks
    BY <1>9, PruneKeeps DEF _complete
  <2>2. status' = [status EXCEPT ![t] = status'[t]]
    BY <1>0, <1>9 DEF _complete
  <2> QED BY <1>8, <1>9, <2>1, <2>2 DEF _complete
<1>10. ASSUME NEW t \in Task, cancel(t) PROVE Goal
  <2>1. CASE future[t] = "pending"
    <3>1. tasks' \subseteq tasks
      BY <1>10, <2>1, PruneKeeps DEF cancel
    <3>2. status' = [status EXCEPT ![t] = status'[t]]
      BY <1>0, <1>10 DEF cancel
    <3> QED BY <1>8, <1>10, <2>1, <3>1, <3>2 DEF cancel
  <2>2. CASE future[t] # "pending"
    BY <1>0, <1>10, <2>2 DEF cancel
  <2> QED BY <2>1, <2>2
<1>11. ASSUME NEW t \in Task, schedule_Rejected(t) \/ schedule_Skipped(t) PROVE Goal
  BY <1>0, <1>11 DEF schedule_Rejected, schedule_Skipped
<1>12. ASSUME NEW t \in Task, schedule_Queued(t) PROVE Goal
  BY <1>0, <1>12 DEF schedule_Queued
<1> QED BY <1>1, <1>2, <1>3, <1>4, <1>5, <1>5a, <1>6, <1>7, <1>9, <1>10, <1>11, <1>12, <1>b
        DEF Next, Drain, Pool, Caller

\* A key whose task is over is free again, unless the record of the task was pruned
\* while it ran, submit raised or the callable ended with a BaseException
\* (work_scheduler.py _drain, _complete, cancel).
THEOREM KeysAreGivenBack == Spec => []KeyGivenBack
<1>1. Init => KeyInv
  BY DEF Init, KeyInv, KeyGivenBack
<1>2. KeyInv => KeyGivenBack
  BY DEF KeyInv
<1> QED BY <1>1, <1>2, StepKeys, TypeCorrect, PTL DEF Spec

-----------------------------------------------------------------------------
(* Shutdown.                                                               *)

\* Work that is not over is counted, and either its token is set or shutdown finds it
\* among the records, still running.
UnfinishedIsKnown ==
    \A t \in Task : future[t] \in Unfinished =>
        /\ t \in active
        /\ token[t] \/ (t \in tasks /\ status[t] = "running")

\* Once shut down, no drain hands work to the pool; after shutdown(cancel=True) all
\* work that is not over has its token set.
ShutInv ==
    /\ UnfinishedIsKnown
    /\ shut # "no" => ~draining
    /\ shut = "cancel" => \A t \in Task : future[t] \in Unfinished => token[t]

\* No record is pruned while its task is to be found by shutdown, and no step hands
\* work to the pool after a shutdown.
LEMMA StepShut == TypeOK /\ ShutInv /\ [Next]_vars => ShutInv'
<1> SUFFICES ASSUME TypeOK, ShutInv, [Next]_vars PROVE ShutInv'
  OBVIOUS
<1> USE DEF ShutInv, UnfinishedIsKnown, Unfinished
<1>0. /\ status \in [Task -> Status] /\ token \in [Task -> BOOLEAN] /\ future \in [Task -> Future]
      /\ tasks \subseteq Task /\ draining \in BOOLEAN
  BY DEF TypeOK
<1>1. CASE _drain_Begin \/ _drain_End \/ UNCHANGED vars
  BY <1>0, <1>1 DEF _drain_Begin, _drain_End, vars
<1>2. CASE cancel_background_tasks
  BY <1>0, <1>2 DEF cancel_background_tasks, CancelAll
<1>3. ASSUME NEW cancelling \in BOOLEAN, shutdown(cancelling) PROVE ShutInv'
  <2>1. CASE cancelling
    <3>1. /\ active' = active /\ tasks' = tasks /\ ~draining' /\ future' = FuturesCancelled
          /\ token' = [t \in Task |-> token[t] \/ t \in Open]
      BY <1>3, <2>1 DEF shutdown, CancelAll
    <3>2. ASSUME NEW t \in Task, future'[t] \in Unfinished PROVE t \in active' /\ token'[t]
      <4>1. future[t] \in Unfinished /\ t \in active
        BY <1>0, <3>1, <3>2 DEF FuturesCancelled
      <4>2. token[t] \/ t \in Open
        BY <4>1 DEF Open
      <4> QED BY <3>1, <4>1, <4>2
    <3> QED BY <3>1, <3>2
  <2>2. CASE ~cancelling
    BY <1>0, <1>3, <2>2 DEF shutdown
  <2> QED BY <2>1, <2>2
<1>4. CASE shutdown_Executor
  BY <1>0, <1>4 DEF shutdown_Executor, FuturesCancelled
<1>5. ASSUME NEW t \in Task, _drain_KeyError(t) \/ _drain_Cancelled(t) PROVE ShutInv'
  BY <1>0, <1>5 DEF _drain_KeyError, _drain_Cancelled
<1>6. ASSUME NEW t \in Task, _drain_Submit(t) PROVE ShutInv'
  <2>1. draining /\ shut = "no"
    BY <1>6 DEF _drain_Submit, Pop
  <2> QED BY <1>0, <1>6, <2>1 DEF _drain_Submit
<1>6a. ASSUME NEW t \in Task, _drain_SubmitRaises(t) PROVE ShutInv'
  BY <1>0, <1>6a DEF _drain_SubmitRaises
<1>7. ASSUME NEW t \in Task, \/ worker_Take(t) \/ _run_task_Cancelled(t) \/ _run_task_Check(t)
                            \/ _run_task_Call(t) \/ _run_task_Return(t)
      PROVE  ShutInv'
  BY <1>0, <1>7 DEF worker_Take, _run_task_Cancelled, _run_task_Check, _run_task_Call,
                    _run_task_Return
<1>8. ASSUME NEW t \in Task, _complete_Unknown(t) \/ _complete_Fatal(t) PROVE ShutInv'
  BY <1>0, <1>8 DEF _complete_Unknown, _complete_Fatal
<1>9. ASSUME NEW t \in Task, future' = [future EXCEPT ![t] = "none"], active' = active \ {t},
             \A u \in Task : u # t => status'[u] = status[u] /\ token'[u] = token[u],
             Prune(status'), UNCHANGED <<draining, shut>>
      PROVE  ShutInv'
  <2>1. ASSUME NEW u \in Task, future'[u] \in Unfinished
        PROVE  /\ u # t /\ future[u] \in Unfinished /\ u \in active'
               /\ token'[u] = token[u] /\ status'[u] = status[u]
               /\ u \in tasks /\ status[u] = "running" => u \in tasks'
    <3>1. u # t /\ future[u] \in Unfinished
      BY <1>0, <1>9, <2>1
    <3>2. u \in tasks /\ status'[u] = "running" => u \in tasks'
      BY <1>9, PruneKeeps DEF Terminal
    <3> QED BY <1>9, <3>1, <3>2
  <2> QED BY <1>9, <2>1
<1>10. ASSUME NEW t \in Task, _complete(t) PROVE ShutInv'
  BY <1>0, <1>9, <1>10 DEF _complete
<1>11. ASSUME NEW t \in Task, cancel(t) PROVE ShutInv'
  <2>1. CASE future[t] = "pending"
    BY <1>0, <1>9, <1>11, <2>1 DEF cancel
  <2>2. CASE future[t] # "pending"
    BY <1>0, <1>11, <2>2 DEF cancel
  <2> QED BY <2>1, <2>2
<1>12. ASSUME NEW t \in Task, schedule_Rejected(t) \/ schedule_Skipped(t) \/ schedule_Queued(t)
       PROVE  ShutInv'
  BY <1>0, <1>12 DEF schedule_Rejected, schedule_Skipped, schedule_Queued
<1> QED BY <1>1, <1>2, <1>3, <1>4, <1>5, <1>6, <1>6a, <1>7, <1>8, <1>10, <1>11, <1>12
        DEF Next, Drain, Pool, Caller

\* After shutdown(cancel=True) everything that is not over has its token set, whatever
\* was cancelled and pruned before: no test of a token succeeds any more, and a callable
\* that is entered after its test finds the token set (work_scheduler.py shutdown,
\* _run_task).
THEOREM ShutdownIsSeen == Spec => []ShutdownReachesAll
<1>1. Init => ShutInv
  BY DEF Init, ShutInv, UnfinishedIsKnown, Unfinished
<1>2. ShutInv => ShutdownReachesAll
  BY DEF ShutInv, ShutdownReachesAll, Unfinished
<1> QED BY <1>1, <1>2, StepShut, TypeCorrect, PTL DEF Spec
=============================================================================
