---------------------------- MODULE AlertPipeline ----------------------------
(***************************************************************************)
(* What the threads of the agent do between the statements of module       *)
(* AlertStore's transactions: ResilientAlertPipeline.ingest_background_    *)
(* event (mac_audit_agent/alerts/resilient_pipeline.py), the store methods *)
(* it calls, AuditDatabase.record_monitor_event and the plain writers that *)
(* use the same AuditDatabase (mac_audit_agent/storage.py).                *)
(*                                                                         *)
(* All threads of a process share one sqlite3 connection.                  *)
(* _LockedConnection serialises single statements, _transaction_lock only  *)
(* ingest and queue_periodic_summary, and a transaction belongs to the     *)
(* connection: a commit of any thread commits what the others have written *)
(* so far.  Several processes (daemon, GUI) have a connection each, and    *)
(* SQLite lets one of them write at a time.                                *)
(*                                                                         *)
(* One alert identity is modelled, so the aggregate is its occurrence      *)
(* count.  The decision whether an event notifies is AlertStore's; here it *)
(* is a free choice, as is the passing of the summary interval.            *)
(***************************************************************************)
EXTENDS Integers, Sequences, FiniteSets

CONSTANTS
    Process,                \* processes, each with one AuditDatabase connection
    Thread,
    ProcOf,                 \* the process of a thread
    Recorder,               \* threads that call record_monitor_event
    Event,                  \* event_ids
    NotificationCapacity,   \* notification_capacity
    EmergencyCapacity,      \* emergency_buffer_capacity
    None                    \* no process, no thread, no event

ASSUME PipelineAssumption ==
    /\ ProcOf \in [Thread -> Process] /\ Recorder \subseteq Thread
    /\ IsFiniteSet(Process) /\ Process # {}
    /\ NotificationCapacity \in Nat \ {0} /\ EmergencyCapacity \in Nat \ {0}
    /\ None \notin Process /\ None \notin Thread /\ None \notin Event

VARIABLES
    db,         \* what is committed: receipts, occurrence_count, pending entries
    draft,      \* the same tables in the open transaction of writer
    writer,     \* the process whose connection has a transaction open
    lock,       \* holder of each process's _transaction_lock
    failed,     \* _store_failed of each process
    buffer,     \* _emergency_buffer of each process
    pc, cur,    \* control and event of each thread
    seen,       \* occurrence_count a thread has read
    mode        \* what its ingest decided: notify, quiet or duplicate

vars == <<db, draft, writer, lock, failed, buffer, pc, cur, seen, mode>>

Tables == [ledger : SUBSET Event, count : Nat, pending : Nat]

\* Control points that hold _transaction_lock: those of ingest and those of
\* queue_periodic_summary.
InIngest == {"begin", "check", "ledger", "aggregate", "pending", "enqueue", "commit"}
InSummary == {"sumPending", "sumEnqueue", "sumFull", "sumCommit"}
Control == {"idle", "lock", "decide", "recoverCommit", "sumLock", "fallback",
            "plain", "plainCommit"} \cup InIngest \cup InSummary

\* Tables, locks, buffers and control points keep their types; the pending count
\* in particular never becomes negative.
TypeOK ==
    /\ db \in Tables /\ draft \in Tables /\ writer \in Process \cup {None}
    /\ lock \in [Process -> Thread \cup {None}]
    /\ failed \in [Process -> BOOLEAN] /\ buffer \in [Process -> Seq(Event)]
    /\ pc \in [Thread -> Control] /\ cur \in [Thread -> Event \cup {None}]
    /\ seen \in [Thread -> Nat] /\ mode \in [Thread -> {"notify", "quiet", "duplicate"}]

\* The queue may hold entries of other alerts from earlier runs of the agent.
Init ==
    /\ \E left \in {0, NotificationCapacity} : db = [ledger |-> {}, count |-> 0, pending |-> left]
    /\ draft = db
    /\ writer = None
    /\ lock = [p \in Process |-> None]
    /\ failed = [p \in Process |-> FALSE] /\ buffer = [p \in Process |-> <<>>]
    /\ pc = [t \in Thread |-> "idle"] /\ cur = [t \in Thread |-> None]
    /\ seen = [t \in Thread |-> 0] /\ mode = [t \in Thread |-> "quiet"]

-----------------------------------------------------------------------------
(* SQLite as the code uses it.                                             *)

\* What the statements of p read.
View(p) == IF writer = p THEN draft ELSE db

\* A writing statement opens a transaction when p has none; it waits, within
\* _with_retry and the busy timeout, while another process has one.
Write(p, tables) ==
    /\ writer \in {None, p}
    /\ writer' = p /\ draft' = tables
    /\ UNCHANGED db

\* commit and rollback act on the transaction of p, whoever opened it, and do
\* nothing when it has none.
Commit(p) ==
    /\ db' = View(p)
    /\ IF writer = p THEN writer' = None /\ draft' = draft ELSE UNCHANGED <<writer, draft>>

Rollback(p) ==
    /\ UNCHANGED db
    /\ IF writer = p THEN writer' = None /\ draft' = db ELSE UNCHANGED <<writer, draft>>

sqlVars == <<db, draft, writer>>
procVars == <<failed, buffer>>
readVars == <<cur, seen, mode>>

Go(t, l) == pc' = [pc EXCEPT ![t] = l]

-----------------------------------------------------------------------------
(* ingest_background_event, and record_monitor_event around it.            *)

\* record_monitor_event; the same event_id may be submitted again.
record_monitor_event(t, e) ==
    /\ t \in Recorder /\ pc[t] = "idle"
    /\ cur' = [cur EXCEPT ![t] = e]
    /\ Go(t, "lock")
    /\ UNCHANGED <<sqlVars, lock, procVars, seen, mode>>

\* ingest takes _transaction_lock ...
ingest_Lock(t) ==
    /\ pc[t] = "lock" /\ lock[ProcOf[t]] = None
    /\ lock' = [lock EXCEPT ![ProcOf[t]] = t]
    /\ Go(t, "begin")
    /\ UNCHANGED <<sqlVars, procVars, readVars>>

\* ... and may find the event invalid: the rejection is counted and audited
\* outside the lock, and the exception ends record_monitor_event.
ingest_Reject(t) ==
    /\ pc[t] = "lock" /\ lock[ProcOf[t]] = None
    /\ cur' = [cur EXCEPT ![t] = None]
    /\ Go(t, "plain")
    /\ UNCHANGED <<sqlVars, lock, procVars, seen, mode>>

\* BEGIN IMMEDIATE
ingest_Begin(t) ==
    /\ pc[t] = "begin" /\ writer = None
    /\ Write(ProcOf[t], db)
    /\ Go(t, "check")
    /\ UNCHANGED <<lock, procVars, readVars>>

Release(t) == lock' = [lock EXCEPT ![ProcOf[t]] = None]

\* Definitions named Faulty... are plausible defects of the definition that
\* follows them; no specification uses them.  This one keeps the lock.
FaultyBeginFails(t) ==
    /\ pc[t] = "begin"
    /\ Go(t, "fallback")
    /\ UNCHANGED <<sqlVars, lock, procVars, readVars>>

\* BEGIN IMMEDIATE inside a transaction that another thread of the process has
\* opened, or after the busy timeout, or on an I/O error: it is executed before
\* the try block, so that nothing is rolled back.
ingest_BeginFails(t) ==
    /\ pc[t] = "begin"
    /\ Release(t)
    /\ Go(t, "fallback")
    /\ UNCHANGED <<sqlVars, procVars, readVars>>

\* A replayed event_id is counted again.
FaultyCheck(t) ==
    /\ pc[t] = "check"
    /\ Go(t, IF cur[t] \in View(ProcOf[t]).ledger THEN "aggregate" ELSE "ledger")
    /\ seen' = [seen EXCEPT ![t] = View(ProcOf[t]).count]
    /\ UNCHANGED <<sqlVars, lock, procVars, cur, mode>>

\* The SELECTs for the event_id and for the aggregate, and the decision.
ingest_Check(t) ==
    /\ pc[t] = "check"
    /\ IF cur[t] \in View(ProcOf[t]).ledger
       THEN /\ mode' = [mode EXCEPT ![t] = "duplicate"]
            /\ Go(t, "commit")
       ELSE /\ \E m \in {"notify", "quiet"} : mode' = [mode EXCEPT ![t] = m]
            /\ Go(t, "ledger")
    /\ seen' = [seen EXCEPT ![t] = View(ProcOf[t]).count]
    /\ UNCHANGED <<sqlVars, lock, procVars, cur>>

\* INSERT INTO resilient_security_events, whose event_id is unique.
ingest_Receipt(t) ==
    LET tables == View(ProcOf[t]) IN
    /\ pc[t] = "ledger" /\ cur[t] \notin tables.ledger
    /\ Write(ProcOf[t], [tables EXCEPT !.ledger = @ \cup {cur[t]}])
    /\ Go(t, "aggregate")
    /\ UNCHANGED <<lock, procVars, readVars>>

\* The aggregate is written with the count computed from what was read.
ingest_Aggregate(t) ==
    /\ pc[t] = "aggregate"
    /\ Write(ProcOf[t], [View(ProcOf[t]) EXCEPT !.count = seen[t] + 1])
    /\ Go(t, IF mode[t] = "notify" THEN "pending" ELSE "commit")
    /\ UNCHANGED <<lock, procVars, readVars>>

\* The queue may already be closed to the event's priority when it has room.
ingest_Pending(t) ==
    /\ pc[t] = "pending"
    /\ \/ View(ProcOf[t]).pending < NotificationCapacity /\ Go(t, "enqueue")
       \/ Go(t, "commit")
    /\ UNCHANGED <<sqlVars, lock, procVars, readVars>>

ingest_Enqueue(t) ==
    /\ pc[t] = "enqueue"
    /\ Write(ProcOf[t], [View(ProcOf[t]) EXCEPT !.pending = @ + 1])
    /\ Go(t, "commit")
    /\ UNCHANGED <<lock, procVars, readVars>>

\* The commit is left to the caller's next one.
FaultyCommit(t) ==
    /\ pc[t] = "commit"
    /\ Release(t)
    /\ Go(t, "decide")
    /\ UNCHANGED <<sqlVars, procVars, readVars>>

ingest_Commit(t) ==
    /\ pc[t] = "commit"
    /\ Commit(ProcOf[t])
    /\ Release(t)
    /\ Go(t, "decide")
    /\ UNCHANGED <<procVars, readVars>>

\* An exception inside the try block.
ingest_Fails(t) ==
    /\ pc[t] \in InIngest \ {"begin"}
    /\ Rollback(ProcOf[t])
    /\ Release(t)
    /\ Go(t, "fallback")
    /\ UNCHANGED <<procVars, readVars>>

\* After the first success that follows a failure, an audit record is written
\* and committed outside the lock.
recover_Audit(t) ==
    /\ pc[t] = "decide" /\ failed[ProcOf[t]]
    /\ Write(ProcOf[t], View(ProcOf[t]))
    /\ Go(t, "recoverCommit")
    /\ UNCHANGED <<lock, procVars, readVars>>

recover_Commit(t) ==
    /\ pc[t] = "recoverCommit"
    /\ Commit(ProcOf[t])
    /\ failed' = [failed EXCEPT ![ProcOf[t]] = FALSE]
    /\ Go(t, "decide")
    /\ UNCHANGED <<lock, buffer, readVars>>

recover_Fails(t) ==
    /\ \/ pc[t] = "decide" /\ failed[ProcOf[t]]
       \/ pc[t] = "recoverCommit"
    /\ Go(t, "fallback")
    /\ UNCHANGED <<sqlVars, lock, procVars, readVars>>

\* An accepted event that does not notify may be due for a periodic summary.
ingest_Return(t) ==
    /\ pc[t] = "decide" /\ ~failed[ProcOf[t]]
    /\ \/ Go(t, "plain")
       \/ mode[t] = "quiet" /\ Go(t, "sumLock")
    /\ UNCHANGED <<sqlVars, lock, procVars, readVars>>

queue_periodic_summary_Lock(t) ==
    /\ pc[t] = "sumLock" /\ lock[ProcOf[t]] = None
    /\ lock' = [lock EXCEPT ![ProcOf[t]] = t]
    /\ Go(t, "sumPending")
    /\ UNCHANGED <<sqlVars, procVars, readVars>>

FaultySummaryPending(t) ==
    /\ pc[t] = "sumPending"
    /\ Go(t, "sumEnqueue")
    /\ UNCHANGED <<sqlVars, lock, procVars, readVars>>

\* The count is read before any transaction is open.
queue_periodic_summary_Pending(t) ==
    /\ pc[t] = "sumPending"
    /\ Go(t, IF View(ProcOf[t]).pending >= NotificationCapacity THEN "sumFull"
             ELSE "sumEnqueue")
    /\ UNCHANGED <<sqlVars, lock, procVars, readVars>>

\* A full queue is counted and audited.
queue_periodic_summary_Full(t) ==
    /\ pc[t] = "sumFull"
    /\ Write(ProcOf[t], View(ProcOf[t]))
    /\ Go(t, "sumCommit")
    /\ UNCHANGED <<lock, procVars, readVars>>

queue_periodic_summary_Enqueue(t) ==
    /\ pc[t] = "sumEnqueue"
    /\ Write(ProcOf[t], [View(ProcOf[t]) EXCEPT !.pending = @ + 1])
    /\ Go(t, "sumCommit")
    /\ UNCHANGED <<lock, procVars, readVars>>

queue_periodic_summary_Commit(t) ==
    /\ pc[t] = "sumCommit"
    /\ Commit(ProcOf[t])
    /\ Release(t)
    /\ Go(t, "plain")
    /\ UNCHANGED <<procVars, readVars>>

\* No handler rolls a failed summary back: its transaction stays open.
queue_periodic_summary_Fails(t) ==
    /\ pc[t] \in InSummary
    /\ Release(t)
    /\ Go(t, "fallback")
    /\ UNCHANGED <<sqlVars, procVars, readVars>>

\* deque(maxlen=...): the oldest receipt makes room.
Remember(receipts, e) ==
    IF Len(receipts) < EmergencyCapacity THEN Append(receipts, e)
    ELSE Append(Tail(receipts), e)

fallback_failure(t) ==
    /\ pc[t] = "fallback"
    /\ failed' = [failed EXCEPT ![ProcOf[t]] = TRUE]
    /\ buffer' = [buffer EXCEPT ![ProcOf[t]] = Remember(@, cur[t])]
    /\ Go(t, "plain")
    /\ UNCHANGED <<sqlVars, lock, readVars>>

-----------------------------------------------------------------------------
(* Plain writers: one statement and its commit, outside _transaction_lock. *)

\* set_background_monitor_state, called by observer threads and by the monitor.
set_background_monitor_state(t) ==
    /\ pc[t] = "idle"
    /\ Go(t, "plain")
    /\ UNCHANGED <<sqlVars, lock, procVars, readVars>>

mark_notification(t) ==
    /\ pc[t] = "idle" /\ View(ProcOf[t]).pending > 0
    /\ Write(ProcOf[t], [View(ProcOf[t]) EXCEPT !.pending = @ - 1])
    /\ Go(t, "plainCommit")
    /\ UNCHANGED <<lock, procVars, readVars>>

\* The write of such a caller, of a rejection, or of record_background_monitor_
\* event, which adds the row that the notifier reads once ingest has returned.  What
\* else that call writes and commits is like set_background_monitor_state, which the
\* thread may call next.
plain_Write(t) ==
    /\ pc[t] = "plain"
    /\ Write(ProcOf[t], View(ProcOf[t]))
    /\ Go(t, "plainCommit")
    /\ UNCHANGED <<lock, procVars, readVars>>

Finish(t) ==
    /\ Go(t, "idle")
    /\ cur' = [cur EXCEPT ![t] = None] /\ seen' = [seen EXCEPT ![t] = 0]
    /\ mode' = [mode EXCEPT ![t] = "quiet"]
    /\ UNCHANGED <<lock, procVars>>

plain_Commit(t) == pc[t] = "plainCommit" /\ Commit(ProcOf[t]) /\ Finish(t)

plain_Fails(t) == pc[t] \in {"plain", "plainCommit"} /\ UNCHANGED sqlVars /\ Finish(t)

-----------------------------------------------------------------------------
(* A process dies and is started again.                                    *)

Crash(p) ==
    /\ Rollback(p)
    /\ lock' = [lock EXCEPT ![p] = None]
    /\ failed' = [failed EXCEPT ![p] = FALSE] /\ buffer' = [buffer EXCEPT ![p] = <<>>]
    /\ pc' = [t \in Thread |-> IF ProcOf[t] = p THEN "idle" ELSE pc[t]]
    /\ cur' = [t \in Thread |-> IF ProcOf[t] = p THEN None ELSE cur[t]]
    /\ seen' = [t \in Thread |-> IF ProcOf[t] = p THEN 0 ELSE seen[t]]
    /\ mode' = [t \in Thread |-> IF ProcOf[t] = p THEN "quiet" ELSE mode[t]]

\* Steps of a call in progress that do not need a fault.
Step(t) ==
    \/ ingest_Lock(t) \/ ingest_Begin(t) \/ ingest_Check(t) \/ ingest_Receipt(t)
    \/ ingest_Aggregate(t) \/ ingest_Pending(t) \/ ingest_Enqueue(t) \/ ingest_Commit(t)
    \/ recover_Audit(t) \/ recover_Commit(t) \/ ingest_Return(t)
    \/ queue_periodic_summary_Lock(t) \/ queue_periodic_summary_Pending(t)
    \/ queue_periodic_summary_Full(t) \/ queue_periodic_summary_Enqueue(t)
    \/ queue_periodic_summary_Commit(t)
    \/ fallback_failure(t) \/ plain_Write(t) \/ plain_Commit(t)

\* A statement raises an error.
Error(t) ==
    \/ ingest_Reject(t) \/ ingest_BeginFails(t) \/ ingest_Fails(t) \/ recover_Fails(t)
    \/ queue_periodic_summary_Fails(t) \/ plain_Fails(t)

Next ==
    \/ \E t \in Thread :
        \/ \E e \in Event : record_monitor_event(t, e)
        \/ set_background_monitor_state(t) \/ mark_notification(t)
        \/ Step(t) \/ Error(t)
    \/ \E p \in Process : Crash(p)

Spec == Init /\ [][Next]_vars

\* An error that must come: a statement gives up after its retries while another
\* process keeps its transaction open, BEGIN IMMEDIATE meets a transaction of its
\* own connection, or the event_id has been inserted meanwhile.
Doomed(t) ==
    \/ writer \notin {None, ProcOf[t]}
    \/ pc[t] = "begin" /\ writer = ProcOf[t]
    \/ pc[t] = "ledger" /\ cur[t] \in View(ProcOf[t]).ledger

\* A call in progress executes its next statement or raises: _with_retry and the
\* busy timeout bound the waiting.
Fairness == \A t \in Thread : WF_vars(Step(t) \/ (Doomed(t) /\ Error(t)))

FairSpec == Spec /\ Fairness

-----------------------------------------------------------------------------
(* Properties.                                                             *)

\* storage.py, record_monitor_event: "the resilient ledger has already durably
\* accounted for this receipt".  When the row for the notifier is written, the
\* receipt is committed, or is in the emergency buffer unless that is full and
\* may have dropped it; whatever the other threads commit or roll back.
ReceiptBeforeRow ==
    \A t \in Thread :
        (pc[t] \in {"plain", "plainCommit"} /\ cur[t] # None) =>
            LET receipts == buffer[ProcOf[t]] IN
            \/ cur[t] \in db.ledger
            \/ \E i \in 1..Len(receipts) : receipts[i] = cur[t]
            \/ Len(receipts) = EmergencyCapacity

\* However transactions are cut short, rolled back or lost in a crash, an alert
\* never claims more occurrences than there are receipts.
CountNeverAhead ==
    /\ db.count <= Cardinality(db.ledger)
    /\ draft.count <= Cardinality(draft.ledger)

\* Processes count the pending entries before they add one.  Still the queue
\* exceeds its capacity by at most one entry for every further process.
PendingBounded == db.pending <= NotificationCapacity + Cardinality(Process) - 1

\* A call of ingest or queue_periodic_summary always gives _transaction_lock
\* back: no order of statements, failures and waiting processes blocks the
\* threads of a process for good.
LockReleased == \A p \in Process, t \in Thread : (lock[p] = t) ~> (lock[p] # t)

-----------------------------------------------------------------------------
(* docs/alert_pipeline/ARCHITECTURE.md: "One SQLite BEGIN IMMEDIATE        *)
(* transaction appends the receipt ledger, updates one aggregate, ...".    *)
(* Threads that share the connection cut that transaction in two.          *)

\* At rest, the alert counts exactly its committed receipts.
CountMatchesReceipts ==
    (\A t \in Thread : pc[t] = "idle") => db.count = Cardinality(db.ledger)
=============================================================================
