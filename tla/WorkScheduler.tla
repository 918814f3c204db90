---------------------------- MODULE WorkScheduler ----------------------------
(***************************************************************************)
(* performance/work_scheduler.py: a priority queue of tasks in front of a  *)
(* thread pool, with deduplication by key, cancellation, a bounded history *)
(* and shutdown.                                                           *)
(*                                                                         *)
(* A step is one critical section of _lock, one turn of the loop of _drain *)
(* (which holds the lock: `draining'), or one step of a pool thread, which *)
(* needs no lock.  schedule and _complete give the lock back before they   *)
(* call _drain; `drains' counts the calls that are still to come and will  *)
(* not find _shutdown set, for which _drain returns at once.  When a       *)
(* task ends before its callback is attached, _complete runs inside the    *)
(* loop; the outcome is that of running it right after the loop (unless a  *)
(* BaseException leaves _complete and ends the loop too: left out).        *)
(***************************************************************************)
EXTENDS Naturals, FiniteSets

CONSTANTS
    Task,           \* the tasks that callers are going to schedule
    Key,            \* dedupe keys
    None,           \* no key, no task
    KeyOf,          \* dedupe_key of a task
    PriorityOf,     \* its priority, smaller first
    Background,     \* tasks whose priority is one of the background ones
    MaxConcurrent,  \* budget.max_concurrent_tasks
    MaxHistory      \* _max_task_history

ASSUME TaskAssumption ==
    /\ KeyOf \in [Task -> Key \cup {None}]
    /\ PriorityOf \in [Task -> Nat]
    /\ Background \subseteq Task
    /\ None \notin Task \cup Key
ASSUME LimitAssumption == MaxConcurrent \in Nat \ {0} /\ MaxHistory \in Nat \ {0}

VARIABLES
    status,    \* status of each task
    token,     \* its cancellation token
    tasks,     \* _tasks: the tasks with a record
    older,     \* the records that were there when that of a task was inserted
    queue,     \* _queue: the tasks with an entry
    holder,    \* _running_by_dedupe
    active,    \* keys of _active_futures
    future,    \* the future of each task, until _complete has dropped it
    drains,    \* calls of _drain to come
    draining,  \* a thread is in the loop of _drain
    shut       \* _shutdown, with the argument cancel of the call that set it

vars == <<status, token, tasks, older, queue, holder, active, future, drains,
          draining, shut>>

Status == {"new", "queued", "running", "succeeded", "failed", "cancelled", "skipped"}

\* A future is "started" once a thread has taken it, "calling" once that thread has
\* looked at the token, "running" once it has entered the callable; "fatal" when the
\* callable ended with a BaseException such as SystemExit.  "refused": submit raised
\* and there is no future; "crashed": the exception has left _complete.
Future == {"none", "pending", "started", "calling", "running", "done", "error", "fatal",
           "cancelled", "refused", "crashed"}

Shut == {"no", "cancel", "keep"}

TypeOK ==
    /\ status \in [Task -> Status]
    /\ token \in [Task -> BOOLEAN]
    /\ tasks \subseteq Task /\ older \in [Task -> SUBSET Task]
    /\ queue \subseteq Task
    /\ holder \in [Key -> Task \cup {None}]
    /\ active \subseteq Task
    /\ future \in [Task -> Future]
    /\ drains \in Nat
    /\ draining \in BOOLEAN
    /\ shut \in Shut

Init ==
    /\ status = [t \in Task |-> "new"]
    /\ token = [t \in Task |-> FALSE]
    /\ tasks = {} /\ older = [t \in Task |-> {}]
    /\ queue = {}
    /\ holder = [k \in Key |-> None]
    /\ active = {}
    /\ future = [t \in Task |-> "none"]
    /\ drains = 0
    /\ draining = FALSE
    /\ shut = "no"

-----------------------------------------------------------------------------
(* schedule                                                                *)

HeldKey(t) == KeyOf[t] # None /\ holder[KeyOf[t]] # None

schedule_Rejected(t) ==
    /\ ~draining /\ status[t] = "new"
    /\ shut # "no"
    /\ status' = [status EXCEPT ![t] = "cancelled"]
    /\ UNCHANGED <<token, tasks, older, queue, holder, active, future, drains, draining, shut>>

\* The key is held, or was last used less than cooldown_seconds ago.
schedule_Skipped(t) ==
    /\ ~draining /\ status[t] = "new"
    /\ shut = "no"
    /\ KeyOf[t] # None
    /\ status' = [status EXCEPT ![t] = "skipped"]
    /\ UNCHANGED <<token, tasks, older, queue, holder, active, future, drains, draining, shut>>

schedule_Queued(t) ==
    /\ ~draining /\ status[t] = "new"
    /\ shut = "no"
    /\ ~HeldKey(t)
    /\ status' = [status EXCEPT ![t] = "queued"]
    /\ tasks' = tasks \cup {t}
    /\ older' = [older EXCEPT ![t] = tasks]
    /\ queue' = queue \cup {t}
    /\ drains' = drains + 1
    /\ UNCHANGED <<token, holder, active, future, draining, shut>>

-----------------------------------------------------------------------------
(* _drain                                                                  *)

\* A call of _drain follows, which does nothing after a shutdown.
DrainFollows == drains' = IF shut = "no" THEN drains + 1 ELSE drains

_drain_Begin ==
    /\ ~draining
    /\ drains > 0
    /\ shut = "no"
    /\ drains' = drains - 1
    /\ draining' = TRUE
    /\ UNCHANGED <<status, token, tasks, older, queue, holder, active, future, shut>>

FaultyHasCapacity == Cardinality(active) <= MaxConcurrent

HasCapacity == Cardinality(active) < MaxConcurrent

_drain_End ==
    /\ draining
    /\ queue = {} \/ ~HasCapacity
    /\ draining' = FALSE
    /\ UNCHANGED <<status, token, tasks, older, queue, holder, active, future, drains, shut>>

\* heappop: the smallest priority.  Equal ones compare the time that schedule reads
\* before it takes the lock, so that they come out in any order.
Pop(t) ==
    /\ draining
    /\ HasCapacity
    /\ t \in queue
    /\ \A u \in queue : PriorityOf[t] <= PriorityOf[u]
    /\ queue' = queue \ {t}

\* The record of the task was pruned: KeyError ends the loop.
_drain_KeyError(t) ==
    /\ Pop(t)
    /\ t \notin tasks
    /\ draining' = FALSE
    /\ UNCHANGED <<status, token, tasks, older, holder, active, future, drains, shut>>

_drain_Cancelled(t) ==
    /\ Pop(t)
    /\ t \in tasks
    /\ token[t]
    /\ status' = [status EXCEPT ![t] = "cancelled"]
    /\ UNCHANGED <<token, tasks, older, holder, active, future, drains, draining, shut>>

_drain_Submit(t) ==
    /\ Pop(t)
    /\ t \in tasks
    /\ ~token[t]
    /\ status' = [status EXCEPT ![t] = "running"]
    /\ holder' = [k \in Key |-> IF k = KeyOf[t] THEN t ELSE holder[k]]
    /\ future' = [future EXCEPT ![t] = "pending"]
    /\ active' = active \cup {t}
    /\ UNCHANGED <<token, tasks, older, drains, draining, shut>>

\* submit raises (the interpreter is exiting): the status and the key are set by then,
\* and the exception ends the loop.
_drain_SubmitRaises(t) ==
    /\ Pop(t)
    /\ t \in tasks
    /\ ~token[t]
    /\ status' = [status EXCEPT ![t] = "running"]
    /\ holder' = [k \in Key |-> IF k = KeyOf[t] THEN t ELSE holder[k]]
    /\ future' = [future EXCEPT ![t] = "refused"]
    /\ draining' = FALSE
    /\ UNCHANGED <<token, tasks, older, active, drains, shut>>

-----------------------------------------------------------------------------
(* A pool thread: _run_task, then the callback _complete.                  *)

\* The library's pool has MaxConcurrent threads.  One whose callback lets a
\* BaseException out ends and is not replaced.
Busy ==
    {t \in active : future[t] \in {"started", "calling", "running", "done", "error", "fatal"}}

Lost == {t \in Task : future[t] = "crashed"}

\* The pool takes the work item: from here on its future cannot be cancelled.
worker_Take(t) ==
    /\ future[t] = "pending"
    /\ Cardinality(Busy) + Cardinality(Lost) < MaxConcurrent
    /\ future' = [future EXCEPT ![t] = "started"]
    /\ UNCHANGED <<status, token, tasks, older, queue, holder, active, drains, draining, shut>>

_run_task_Cancelled(t) ==
    /\ future[t] = "started"
    /\ token[t]
    /\ status' = [status EXCEPT ![t] = "cancelled"]
    /\ future' = [future EXCEPT ![t] = "done"]
    /\ UNCHANGED <<token, tasks, older, queue, holder, active, drains, draining, shut>>

_run_task_Check(t) ==
    /\ future[t] = "started"
    /\ ~token[t]
    /\ future' = [future EXCEPT ![t] = "calling"]
    /\ UNCHANGED <<status, token, tasks, older, queue, holder, active, drains, draining, shut>>

\* No lock is held since the test: the token may have been set meanwhile.
_run_task_Call(t) ==
    /\ future[t] = "calling"
    /\ future' = [future EXCEPT ![t] = "running"]
    /\ UNCHANGED <<status, token, tasks, older, queue, holder, active, drains, draining, shut>>

_run_task_Return(t) ==
    /\ future[t] = "running"
    /\ \E outcome \in {"done", "error", "fatal"} : future' = [future EXCEPT ![t] = outcome]
    /\ UNCHANGED <<status, token, tasks, older, queue, holder, active, drains, draining, shut>>

Terminal == {"succeeded", "failed", "cancelled"}

\* Keeps the newest MaxHistory records of tasks that are over or were cancelled, and
\* all others.
Pruned(outcome) ==
    LET over == {u \in tasks : outcome[u] \in Terminal}
        newer(u) == {v \in over : u \in older[v]}
    IN  tasks \ {u \in over : Cardinality(newer(u)) >= MaxHistory}

Prune(outcome) ==
    /\ tasks' = Pruned(outcome)
    /\ older' = [u \in Task |-> IF u \in tasks' THEN older[u] \cap tasks' ELSE {}]

Released(t) == [k \in Key |-> IF holder[k] = t THEN None ELSE holder[k]]

Outcome(t) ==
    IF future[t] \in {"error", "cancelled"} THEN "failed"
    ELSE IF status[t] = "cancelled" THEN "cancelled" ELSE "succeeded"

FaultyIsOver(t) == future[t] \in {"done", "error", "fatal"} /\ t \in active

IsOver(t) == future[t] \in {"done", "error", "fatal", "cancelled"} /\ t \in active

\* The record was pruned while the task was running.
_complete_Unknown(t) ==
    /\ ~draining /\ IsOver(t)
    /\ t \notin tasks
    /\ active' = active \ {t}
    /\ future' = [future EXCEPT ![t] = "none"]
    /\ UNCHANGED <<status, token, tasks, older, queue, holder, drains, draining, shut>>

FaultyComplete(t) ==
    /\ ~draining /\ IsOver(t)
    /\ t \in tasks
    /\ future[t] # "fatal"
    /\ active' = active \ {t}
    /\ future' = [future EXCEPT ![t] = "none"]
    /\ status' = [status EXCEPT ![t] = Outcome(t)]
    /\ holder' = IF future[t] = "done" THEN Released(t) ELSE holder
    /\ Prune(status')
    /\ DrainFollows
    /\ UNCHANGED <<token, queue, draining, shut>>

FaultyCompleteNoDrain(t) ==
    /\ ~draining /\ IsOver(t)
    /\ t \in tasks
    /\ future[t] # "fatal"
    /\ active' = active \ {t}
    /\ future' = [future EXCEPT ![t] = "none"]
    /\ status' = [status EXCEPT ![t] = Outcome(t)]
    /\ holder' = Released(t)
    /\ Prune(status')
    /\ UNCHANGED <<token, queue, drains, draining, shut>>

_complete(t) ==
    /\ ~draining /\ IsOver(t)
    /\ t \in tasks
    /\ future[t] # "fatal"
    /\ active' = active \ {t}
    /\ future' = [future EXCEPT ![t] = "none"]
    /\ status' = [status EXCEPT ![t] = Outcome(t)]
    /\ holder' = Released(t)
    /\ Prune(status')
    /\ DrainFollows
    /\ UNCHANGED <<token, queue, draining, shut>>

\* result() raises the BaseException again and `except Exception' does not catch it:
\* no status, the key stays taken, and no drain follows.
_complete_Fatal(t) ==
    /\ ~draining /\ IsOver(t)
    /\ t \in tasks
    /\ future[t] = "fatal"
    /\ active' = active \ {t}
    /\ future' = [future EXCEPT ![t] = "crashed"]
    /\ UNCHANGED <<status, token, tasks, older, queue, holder, drains, draining, shut>>

-----------------------------------------------------------------------------
(* cancel, cancel_background_tasks, shutdown                               *)

\* A future that no thread has taken is cancelled at once, and _complete runs inside
\* the call.
cancel(t) ==
    /\ ~draining
    /\ t \in tasks
    /\ token' = [token EXCEPT ![t] = TRUE]
    /\ status' = [status EXCEPT ![t] = "cancelled"]
    /\ IF future[t] = "pending"
       THEN /\ future' = [future EXCEPT ![t] = "none"]
            /\ active' = active \ {t}
            /\ holder' = Released(t)
            /\ Prune(status')
            /\ DrainFollows
       ELSE UNCHANGED <<future, active, holder, tasks, older, drains>>
    /\ UNCHANGED <<queue, draining, shut>>

FaultyOpen == {t \in tasks : status[t] = "queued"}

Open == {t \in tasks : status[t] \in {"queued", "running"}}

CancelAll(S) ==
    /\ token' = [t \in Task |-> token[t] \/ t \in S]
    /\ status' = [t \in Task |-> IF t \in S THEN "cancelled" ELSE status[t]]

cancel_background_tasks ==
    /\ ~draining
    /\ Open \cap Background # {}
    /\ CancelAll(Open \cap Background)
    /\ UNCHANGED <<tasks, older, queue, holder, active, future, drains, draining, shut>>

FuturesCancelled ==
    [t \in Task |-> IF t \in active /\ future[t] = "pending" THEN "cancelled" ELSE future[t]]

\* The callbacks of the futures that are cancelled here follow as steps of their own;
\* only the order of their records could tell.
shutdown(cancelling) ==
    /\ ~draining
    /\ shut = "no"
    /\ shut' = IF cancelling THEN "cancel" ELSE "keep"
    /\ queue' = {}
    /\ drains' = 0
    /\ \/ cancelling /\ CancelAll(Open) /\ future' = FuturesCancelled
       \/ ~cancelling /\ UNCHANGED <<status, token, future>>
    /\ UNCHANGED <<tasks, older, holder, active, draining>>

\* After the wait: executor.shutdown(cancel_futures=True), which changes something when
\* there are futures that no thread has taken.  No future follows it.
shutdown_Executor ==
    /\ shut # "no"
    /\ future # FuturesCancelled
    /\ future' = FuturesCancelled
    /\ UNCHANGED <<status, token, tasks, older, queue, holder, active, drains, draining, shut>>

-----------------------------------------------------------------------------

Drain ==
    \/ _drain_Begin \/ _drain_End
    \/ \E t \in Task : \/ _drain_KeyError(t) \/ _drain_Cancelled(t)
                       \/ _drain_Submit(t) \/ _drain_SubmitRaises(t)

Pool(t) ==
    \/ worker_Take(t)
    \/ _run_task_Cancelled(t) \/ _run_task_Check(t) \/ _run_task_Call(t) \/ _run_task_Return(t)
    \/ _complete_Unknown(t) \/ _complete(t) \/ _complete_Fatal(t)

Caller(t) ==
    schedule_Rejected(t) \/ schedule_Skipped(t) \/ schedule_Queued(t) \/ cancel(t)

Next ==
    \/ Drain
    \/ \E t \in Task : Pool(t) \/ Caller(t)
    \/ cancel_background_tasks
    \/ \E cancelling \in BOOLEAN : shutdown(cancelling)
    \/ shutdown_Executor

Spec == Init /\ [][Next]_vars

\* Threads that are inside the scheduler go on and callables return; nobody has to
\* schedule, cancel or shut down, but shutdown ends its wait at a deadline and goes on
\* to executor.shutdown.  The lock goes round, so that a callback that waits
\* for it gets it although others take it again and again.
FairSpec ==
    /\ Spec
    /\ WF_vars(Drain)
    /\ WF_vars(shutdown_Executor)
    /\ \A t \in Task : SF_vars(Pool(t))

-----------------------------------------------------------------------------
(* Properties.                                                             *)

\* The pool never has more unfinished work than the budget allows, and none of it is
\* unknown to the scheduler, whatever was cancelled or pruned meanwhile.
WithinBudget ==
    /\ {t \in Task : future[t] \in {"pending", "started", "calling", "running"}} \subseteq active
    /\ Cardinality(active) <= MaxConcurrent

\* A dedupe key is given back when its task is over, also when it failed or was
\* cancelled.  The exceptions are those of the code: the record of the task was pruned
\* while it ran, submit raised, or the callable ended with a BaseException.
KeyGivenBack ==
    \A k \in Key : holder[k] # None =>
        \/ holder[k] \in active
        \/ holder[k] \notin tasks
        \/ future[holder[k]] \in {"refused", "crashed"}

\* shutdown(cancel=True) reaches all work that is not over: what waits for a thread,
\* for its test of the token or inside the callable has its token set, although some
\* was cancelled before and records were pruned.  So no test of the token succeeds
\* from then on.  (A thread that had made its test still enters its callable.)
ShutdownReachesAll ==
    shut = "cancel" =>
        \A t \in Task : future[t] \in {"pending", "started", "calling", "running"} => token[t]

\* Without cancellation, shutdown, a submit that raises and a BaseException every
\* queued task is handed to the pool.
QueuedIsStarted ==
    []<>(\/ \A t \in Task : status[t] # "queued"
         \/ shut # "no"
         \/ \E t \in Task : token[t] \/ future[t] \in {"refused", "fatal", "crashed"})

\* After a shutdown, which is never undone, no future stays with the scheduler for good.
ShutdownCompletes == []<>(shut = "no" \/ active = {})

\* "Scheduler enforces concurrency, cooldown, and dedupe."
\* (quality/performance_auditor.py): no two tasks with one key run at the same time.
DedupeExclusive ==
    \A t, u \in Task :
        t # u /\ KeyOf[t] # None /\ KeyOf[t] = KeyOf[u] =>
            ~(future[t] = "running" /\ future[u] = "running")
=============================================================================
