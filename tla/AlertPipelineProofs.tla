------------------------ MODULE AlertPipelineProofs ------------------------
(***************************************************************************)
(* Machine-checked facts about AlertPipeline, for any number of processes, *)
(* threads and events and any capacities.                                  *)
(***************************************************************************)
EXTENDS AlertPipeline, FiniteSetTheorems, SequenceTheorems, TLAPS

-----------------------------------------------------------------------------
(* The inductive invariant.                                                *)

\* Only a call of record_monitor_event carries an event, and it does so until its
\* last statement; whoever is inside ingest or queue_periodic_summary holds
\* _transaction_lock of its process.
Calls ==
    \A t \in Thread :
        /\ pc[t] = "idle" => cur[t] = None
        /\ pc[t] \notin {"idle", "plain", "plainCommit"} => cur[t] \in Event
        /\ pc[t] \in InIngest \cup InSummary => lock[ProcOf[t]] = t

\* The deque never exceeds its maxlen.
Buffers == \A p \in Process : Len(buffer[p]) <= EmergencyCapacity

\* A transaction starts from what is committed and never removes a receipt.
Transactions ==
    /\ writer = None => draft = db
    /\ \A e \in db.ledger : e \in draft.ledger

\* Once inserted, the receipt of a call is in sight of its connection; once
\* ingest has committed, it is durable.
StoredFor(t) ==
    /\ pc[t] \in {"aggregate", "pending", "enqueue", "commit"} =>
            cur[t] \in View(ProcOf[t]).ledger
    /\ pc[t] \in {"decide", "recoverCommit", "sumLock"} \cup InSummary =>
            cur[t] \in db.ledger

Stored == \A t \in Thread : StoredFor(t)

\* The count a call is about to write is covered by the receipts it can see.
CoveredFor(t) ==
    /\ pc[t] = "ledger" => seen[t] <= Cardinality(View(ProcOf[t]).ledger)
    /\ pc[t] = "aggregate" => seen[t] + 1 <= Cardinality(View(ProcOf[t]).ledger)

Covered ==
    /\ IsFiniteSet(db.ledger) /\ IsFiniteSet(draft.ledger)
    /\ CountNeverAhead
    /\ \A t \in Thread : CoveredFor(t)

\* The processes that have found room in the queue and have not used it yet.
Adding == {p \in Process : \E t \in Thread :
                ProcOf[t] = p /\ pc[t] \in {"enqueue", "sumEnqueue"}}

\* Entries and the processes that are about to add one fit the bound together, in
\* the committed tables (the open transaction rolled back) and in the open
\* transaction; and the open transaction is at most one entry ahead.
Room ==
    LET bound == NotificationCapacity + Cardinality(Process) - 1
        full == NotificationCapacity - 1
    IN  /\ db.pending + Cardinality(Adding \ {writer}) <= bound
        /\ draft.pending + Cardinality(Adding) <= bound
        /\ \/ draft.pending <= db.pending \/ draft.pending <= full
           \/ writer \notin Adding /\ (draft.pending <= db.pending + 1 \/ draft.pending <= full + 1)

-----------------------------------------------------------------------------
(* Type correctness, and who carries an event and holds the lock.          *)

\* Remember keeps the deque typed, within maxlen, and holding the new receipt; an
\* earlier receipt is dropped only when the deque is full.
LEMMA RememberProperties ==
  ASSUME NEW s \in Seq(Event), NEW e \in Event, Len(s) <= EmergencyCapacity
  PROVE  /\ Remember(s, e) \in Seq(Event)
         /\ Len(Remember(s, e)) <= EmergencyCapacity
         /\ \E i \in 1..Len(Remember(s, e)) : Remember(s, e)[i] = e
         /\ \/ Len(Remember(s, e)) = EmergencyCapacity
            \/ /\ \A i \in 1..Len(s) : i \in 1..Len(Remember(s, e)) /\ Remember(s, e)[i] = s[i]
               /\ Len(s) # EmergencyCapacity
  <1>0. Len(s) \in Nat /\ EmergencyCapacity \in Nat \ {0}
    BY PipelineAssumption
  <1>1. CASE Len(s) < EmergencyCapacity
    <2>1. Remember(s, e) = Append(s, e)
      BY <1>1 DEF Remember
    <2>2. /\ Remember(s, e) \in Seq(Event)
          /\ Len(Remember(s, e)) = Len(s) + 1
          /\ \A i \in 1..Len(s) : Remember(s, e)[i] = s[i]
          /\ Remember(s, e)[Len(s) + 1] = e
      BY <2>1, AppendProperties
    <2>3. Len(s) + 1 \in 1..Len(Remember(s, e)) /\ Len(s) + 1 <= EmergencyCapacity
      BY <1>0, <1>1, <2>2
    <2>4. \A i \in 1..Len(s) : i \in 1..Len(Remember(s, e))
      BY <1>0, <2>2
    <2>5. Len(s) # EmergencyCapacity
      BY <1>0, <1>1
    <2>. QED BY <2>2, <2>3, <2>4, <2>5
  <1>2. CASE ~(Len(s) < EmergencyCapacity)
    <2>1. s # <<>>
      BY <1>0, <1>2
    <2>2. Tail(s) \in Seq(Event) /\ Len(Tail(s)) = Len(s) - 1
      BY <2>1, HeadTailProperties
    <2>3. Remember(s, e) = Append(Tail(s), e)
      BY <1>2 DEF Remember
    <2>4. /\ Remember(s, e) \in Seq(Event)
          /\ Len(Remember(s, e)) = EmergencyCapacity
          /\ Remember(s, e)[EmergencyCapacity] = e
      <3>0. Len(s) = EmergencyCapacity
        BY <1>0, <1>2
      <3>1. Len(Tail(s)) + 1 = EmergencyCapacity
        BY <1>0, <2>2, <3>0
      <3>2. /\ Append(Tail(s), e) \in Seq(Event)
            /\ Len(Append(Tail(s), e)) = Len(Tail(s)) + 1
            /\ Append(Tail(s), e)[Len(Tail(s)) + 1] = e
        BY <2>2, AppendProperties
      <3>. QED BY <2>3, <3>1, <3>2
    <2>. QED BY <1>0, <2>4
  <1>. QED BY <1>1, <1>2

\* SQLite's statements keep the tables typed.
LEMMA SqlTypes ==
  ASSUME TypeOK, NEW p \in Process
  PROVE  /\ View(p) \in Tables
         /\ \A tables \in Tables : Write(p, tables) =>
                db' \in Tables /\ draft' \in Tables /\ writer' \in Process \cup {None}
         /\ Commit(p) => db' \in Tables /\ draft' \in Tables /\ writer' \in Process \cup {None}
         /\ Rollback(p) => db' \in Tables /\ draft' \in Tables /\ writer' \in Process \cup {None}
  BY DEF TypeOK, View, Write, Commit, Rollback

\* What the writing statements store is well typed.
LEMMA TableTypes ==
  ASSUME NEW tables \in Tables
  PROVE  /\ \A e \in Event : [tables EXCEPT !.ledger = @ \cup {e}] \in Tables
         /\ \A n \in Nat : [tables EXCEPT !.count = n] \in Tables
         /\ [tables EXCEPT !.pending = @ + 1] \in Tables
         /\ tables.pending > 0 => [tables EXCEPT !.pending = @ - 1] \in Tables
         /\ tables.ledger \in SUBSET Event /\ tables.count \in Nat /\ tables.pending \in Nat
  BY DEF Tables

\* The three parts that every other argument needs.
Base == TypeOK /\ Calls /\ Buffers

\* Every statement, every error and every crash keeps the types of the tables, of
\* the buffers and of the calls.
LEMMA BaseInductive == Base /\ [Next]_vars => Base'
  <1> SUFFICES ASSUME Base, [Next]_vars PROVE Base'
    OBVIOUS
  <1>. USE PipelineAssumption DEF Base, sqlVars, procVars, readVars, Go, Release, Control,
           InIngest, InSummary
  <1>0. \A t \in Thread : ProcOf[t] \in Process
    OBVIOUS
  <1>1. ASSUME NEW t \in Thread, NEW e \in Event, record_monitor_event(t, e) PROVE Base'
    BY <1>1 DEF TypeOK, Calls, Buffers, record_monitor_event
  <1>2. ASSUME NEW t \in Thread, ingest_Lock(t) PROVE Base'
    BY <1>2, <1>0 DEF TypeOK, Calls, Buffers, ingest_Lock
  <1>3. ASSUME NEW t \in Thread, ingest_Reject(t) PROVE Base'
    BY <1>3 DEF TypeOK, Calls, Buffers, ingest_Reject
  <1>4. ASSUME NEW t \in Thread, ingest_Begin(t) PROVE Base'
    <2>1. Write(ProcOf[t], db) /\ db \in Tables
      BY <1>4 DEF ingest_Begin, TypeOK
    <2>2. db' \in Tables /\ draft' \in Tables /\ writer' \in Process \cup {None}
      BY <2>1, <1>0, SqlTypes
    <2>. QED BY <1>4, <2>2 DEF TypeOK, Calls, Buffers, ingest_Begin
  <1>5. ASSUME NEW t \in Thread, ingest_BeginFails(t) PROVE Base'
    BY <1>5, <1>0 DEF TypeOK, Calls, Buffers, ingest_BeginFails
  <1>6. ASSUME NEW t \in Thread, ingest_Check(t) PROVE Base'
    <2>1. View(ProcOf[t]).count \in Nat
      BY <1>0, SqlTypes, TableTypes
    <2>2. PICK l \in {"commit", "ledger"}, m \in {"notify", "quiet", "duplicate"} :
              pc' = [pc EXCEPT ![t] = l] /\ mode' = [mode EXCEPT ![t] = m]
      BY <1>6 DEF ingest_Check
    <2>. QED BY <1>6, <1>0, <2>1, <2>2 DEF TypeOK, Calls, Buffers, ingest_Check
  <1>7. ASSUME NEW t \in Thread, ingest_Receipt(t) PROVE Base'
    <2>1. db' \in Tables /\ draft' \in Tables /\ writer' \in Process \cup {None}
      BY <1>7, <1>0, SqlTypes, TableTypes DEF ingest_Receipt, TypeOK, Calls
    <2>. QED BY <1>7, <1>0, <2>1 DEF TypeOK, Calls, Buffers, ingest_Receipt
  <1>8. ASSUME NEW t \in Thread, ingest_Aggregate(t) PROVE Base'
    <2>1. db' \in Tables /\ draft' \in Tables /\ writer' \in Process \cup {None}
      <3>1. seen[t] + 1 \in Nat
        BY DEF TypeOK
      <3>2. [View(ProcOf[t]) EXCEPT !.count = seen[t] + 1] \in Tables
        BY <1>0, <3>1, SqlTypes, TableTypes
      <3>. QED BY <1>8, <1>0, <3>2, SqlTypes DEF ingest_Aggregate
    <2>. QED BY <1>8, <1>0, <2>1 DEF TypeOK, Calls, Buffers, ingest_Aggregate
  <1>9. ASSUME NEW t \in Thread, ingest_Pending(t) PROVE Base'
    BY <1>9, <1>0 DEF TypeOK, Calls, Buffers, ingest_Pending
  <1>10. ASSUME NEW t \in Thread, ingest_Enqueue(t) PROVE Base'
    <2>1. db' \in Tables /\ draft' \in Tables /\ writer' \in Process \cup {None}
      BY <1>10, <1>0, SqlTypes, TableTypes DEF ingest_Enqueue, TypeOK, Calls
    <2>. QED BY <1>10, <1>0, <2>1 DEF TypeOK, Calls, Buffers, ingest_Enqueue
  <1>11. ASSUME NEW t \in Thread, ingest_Commit(t) PROVE Base'
    <2>1. db' \in Tables /\ draft' \in Tables /\ writer' \in Process \cup {None}
      BY <1>11, <1>0, SqlTypes DEF ingest_Commit
    <2>. QED BY <1>11, <1>0, <2>1 DEF TypeOK, Calls, Buffers, ingest_Commit
  <1>12. ASSUME NEW t \in Thread, ingest_Fails(t) PROVE Base'
    <2>1. db' \in Tables /\ draft' \in Tables /\ writer' \in Process \cup {None}
      BY <1>12, <1>0, SqlTypes DEF ingest_Fails
    <2>. QED BY <1>12, <1>0, <2>1 DEF TypeOK, Calls, Buffers, ingest_Fails
  <1>13. ASSUME NEW t \in Thread, recover_Audit(t) PROVE Base'
    <2>1. db' \in Tables /\ draft' \in Tables /\ writer' \in Process \cup {None}
      BY <1>13, <1>0, SqlTypes DEF recover_Audit
    <2>. QED BY <1>13, <1>0, <2>1 DEF TypeOK, Calls, Buffers, recover_Audit
  <1>14. ASSUME NEW t \in Thread, recover_Commit(t) PROVE Base'
    <2>1. db' \in Tables /\ draft' \in Tables /\ writer' \in Process \cup {None}
      BY <1>14, <1>0, SqlTypes DEF recover_Commit
    <2>. QED BY <1>14, <1>0, <2>1 DEF TypeOK, Calls, Buffers, recover_Commit
  <1>15. ASSUME NEW t \in Thread, recover_Fails(t) PROVE Base'
    BY <1>15, <1>0 DEF TypeOK, Calls, Buffers, recover_Fails
  <1>16. ASSUME NEW t \in Thread, ingest_Return(t) PROVE Base'
    <2>1. PICK l \in {"plain", "sumLock"} : pc' = [pc EXCEPT ![t] = l]
      BY <1>16 DEF ingest_Return
    <2>2. cur[t] \in Event
      BY <1>16 DEF ingest_Return, Calls
    <2>. QED BY <1>16, <1>0, <2>1, <2>2 DEF TypeOK, Calls, Buffers, ingest_Return
  <1>17. ASSUME NEW t \in Thread, queue_periodic_summary_Lock(t) PROVE Base'
    BY <1>17, <1>0 DEF TypeOK, Calls, Buffers, queue_periodic_summary_Lock
  <1>18. ASSUME NEW t \in Thread, queue_periodic_summary_Pending(t) PROVE Base'
    BY <1>18, <1>0 DEF TypeOK, Calls, Buffers, queue_periodic_summary_Pending
  <1>19. ASSUME NEW t \in Thread, queue_periodic_summary_Full(t) PROVE Base'
    <2>1. db' \in Tables /\ draft' \in Tables /\ writer' \in Process \cup {None}
      BY <1>19, <1>0, SqlTypes DEF queue_periodic_summary_Full
    <2>. QED BY <1>19, <1>0, <2>1 DEF TypeOK, Calls, Buffers, queue_periodic_summary_Full
  <1>20. ASSUME NEW t \in Thread, queue_periodic_summary_Enqueue(t) PROVE Base'
    <2>1. db' \in Tables /\ draft' \in Tables /\ writer' \in Process \cup {None}
      BY <1>20, <1>0, SqlTypes, TableTypes DEF queue_periodic_summary_Enqueue, TypeOK, Calls
    <2>. QED BY <1>20, <1>0, <2>1 DEF TypeOK, Calls, Buffers, queue_periodic_summary_Enqueue
  <1>21. ASSUME NEW t \in Thread, queue_periodic_summary_Commit(t) PROVE Base'
    <2>1. db' \in Tables /\ draft' \in Tables /\ writer' \in Process \cup {None}
      BY <1>21, <1>0, SqlTypes DEF queue_periodic_summary_Commit
    <2>. QED BY <1>21, <1>0, <2>1 DEF TypeOK, Calls, Buffers, queue_periodic_summary_Commit
  <1>22. ASSUME NEW t \in Thread, queue_periodic_summary_Fails(t) PROVE Base'
    BY <1>22, <1>0 DEF TypeOK, Calls, Buffers, queue_periodic_summary_Fails
  <1>23. ASSUME NEW t \in Thread, fallback_failure(t) PROVE Base'
    <2>1. /\ Remember(buffer[ProcOf[t]], cur[t]) \in Seq(Event)
          /\ Len(Remember(buffer[ProcOf[t]], cur[t])) <= EmergencyCapacity
      BY <1>23, <1>0, RememberProperties DEF fallback_failure, TypeOK, Calls, Buffers
    <2>. QED BY <1>23, <1>0, <2>1 DEF TypeOK, Calls, Buffers, fallback_failure
  <1>24. ASSUME NEW t \in Thread, set_background_monitor_state(t) PROVE Base'
    BY <1>24, <1>0 DEF TypeOK, Calls, Buffers, set_background_monitor_state
  <1>25. ASSUME NEW t \in Thread, mark_notification(t) PROVE Base'
    <2>1. db' \in Tables /\ draft' \in Tables /\ writer' \in Process \cup {None}
      BY <1>25, <1>0, SqlTypes, TableTypes DEF mark_notification, TypeOK, Calls
    <2>. QED BY <1>25, <1>0, <2>1 DEF TypeOK, Calls, Buffers, mark_notification
  <1>26. ASSUME NEW t \in Thread, plain_Write(t) PROVE Base'
    <2>1. db' \in Tables /\ draft' \in Tables /\ writer' \in Process \cup {None}
      BY <1>26, <1>0, SqlTypes DEF plain_Write
    <2>. QED BY <1>26, <1>0, <2>1 DEF TypeOK, Calls, Buffers, plain_Write
  <1>27. ASSUME NEW t \in Thread, plain_Commit(t) PROVE Base'
    <2>1. db' \in Tables /\ draft' \in Tables /\ writer' \in Process \cup {None}
      BY <1>27, <1>0, SqlTypes DEF plain_Commit
    <2>. QED BY <1>27, <1>0, <2>1 DEF TypeOK, Calls, Buffers, plain_Commit, Finish
  <1>28. ASSUME NEW t \in Thread, plain_Fails(t) PROVE Base'
    BY <1>28, <1>0 DEF TypeOK, Calls, Buffers, plain_Fails, Finish
  <1>29. ASSUME NEW p \in Process, Crash(p) PROVE Base'
    <2>1. db' \in Tables /\ draft' \in Tables /\ writer' \in Process \cup {None}
      BY <1>29, SqlTypes DEF Crash
    <2>2. /\ lock' \in [Process -> Thread \cup {None}] /\ failed' \in [Process -> BOOLEAN]
          /\ pc' \in [Thread -> Control] /\ cur' \in [Thread -> Event \cup {None}]
          /\ seen' \in [Thread -> Nat]
          /\ mode' \in [Thread -> {"notify", "quiet", "duplicate"}]
      BY <1>29, <1>0 DEF TypeOK, Crash
    <2>3. buffer' \in [Process -> Seq(Event)] /\ Buffers'
      BY <1>29, EmptySeq DEF TypeOK, Crash, Buffers
    <2>4. Calls'
      BY <1>29, <1>0 DEF TypeOK, Crash, Calls
    <2>. QED BY <2>1, <2>2, <2>3, <2>4 DEF TypeOK
  <1>30. CASE UNCHANGED vars
    BY <1>30 DEF TypeOK, Calls, Buffers, vars
  <1>. QED
    BY <1>1, <1>2, <1>3, <1>4, <1>5, <1>6, <1>7, <1>8, <1>9, <1>10, <1>11, <1>12, <1>13,
       <1>14, <1>15, <1>16, <1>17, <1>18, <1>19, <1>20, <1>21, <1>22, <1>23, <1>24,
       <1>25, <1>26, <1>27, <1>28, <1>29, <1>30 DEF Next, Step, Error

-----------------------------------------------------------------------------
(* What a step can do to the tables, and to a thread.                      *)

\* The control points at which a call has nothing to show yet, or any more.
Free == {"idle", "lock", "begin", "check", "fallback", "plain", "plainCommit"}

\* Only ingest and a crash roll back, and either leaves nobody inside ingest or
\* queue_periodic_summary of that process.
RollsBack(p) ==
    /\ Rollback(p)
    /\ \A u \in Thread : ProcOf[u] = p => pc'[u] \notin InIngest \cup InSummary

\* The writing statements that do not touch the ledger or the count.
WritesAside(p) ==
    \E tables \in Tables :
        /\ Write(p, tables)
        /\ tables.ledger = View(p).ledger /\ tables.count = View(p).count

\* Every step leaves the tables alone, commits, rolls back, or is one of the
\* writing statements.
LEMMA SqlStep ==
  ASSUME Base, [Next]_vars
  PROVE  \/ UNCHANGED sqlVars
         \/ \E p \in Process : Commit(p) \/ RollsBack(p) \/ WritesAside(p)
         \/ \E t \in Thread : ingest_Receipt(t) \/ ingest_Aggregate(t)
  <1>. USE PipelineAssumption
  <1>0. /\ \A t \in Thread : ProcOf[t] \in Process
        /\ db \in Tables /\ \A p \in Process : View(p) \in Tables
    BY SqlTypes DEF Base, TypeOK
  <1>1. ASSUME NEW t \in Thread, NEW e \in Event, record_monitor_event(t, e)
        PROVE  UNCHANGED sqlVars
    BY <1>1 DEF record_monitor_event
  <1>2. ASSUME NEW t \in Thread,
               \/ ingest_Lock(t) \/ ingest_Reject(t) \/ ingest_BeginFails(t) \/ ingest_Check(t)
               \/ ingest_Pending(t) \/ recover_Fails(t) \/ ingest_Return(t)
               \/ queue_periodic_summary_Lock(t) \/ queue_periodic_summary_Pending(t)
               \/ queue_periodic_summary_Fails(t) \/ fallback_failure(t)
               \/ set_background_monitor_state(t) \/ plain_Fails(t)
        PROVE  UNCHANGED sqlVars
    BY <1>2 DEF ingest_Lock, ingest_Reject, ingest_BeginFails, ingest_Check, ingest_Pending,
                recover_Fails, ingest_Return, queue_periodic_summary_Lock,
                queue_periodic_summary_Pending, queue_periodic_summary_Fails,
                fallback_failure, set_background_monitor_state, plain_Fails
  <1>3. ASSUME NEW t \in Thread, ingest_Commit(t) \/ recover_Commit(t)
                    \/ queue_periodic_summary_Commit(t) \/ plain_Commit(t)
        PROVE  Commit(ProcOf[t])
    BY <1>3 DEF ingest_Commit, recover_Commit, queue_periodic_summary_Commit, plain_Commit
  <1>4. ASSUME NEW t \in Thread, ingest_Fails(t) PROVE RollsBack(ProcOf[t])
    <2>1. ASSUME NEW u \in Thread, ProcOf[u] = ProcOf[t] PROVE pc'[u] \notin InIngest \cup InSummary
      BY <1>4, <2>1 DEF ingest_Fails, Go, Base, TypeOK, Calls, InIngest, InSummary
    <2>. QED BY <1>4, <2>1 DEF ingest_Fails, RollsBack
  <1>5. ASSUME NEW p \in Process, Crash(p) PROVE RollsBack(p)
    BY <1>5 DEF Crash, RollsBack, InIngest, InSummary
  <1>6. ASSUME NEW t \in Thread, ingest_Begin(t) PROVE WritesAside(ProcOf[t])
    BY <1>6, <1>0 DEF ingest_Begin, WritesAside, View
  <1>7. ASSUME NEW t \in Thread, recover_Audit(t) \/ queue_periodic_summary_Full(t) \/ plain_Write(t)
        PROVE  WritesAside(ProcOf[t])
    BY <1>7, <1>0 DEF recover_Audit, queue_periodic_summary_Full, plain_Write, WritesAside
  <1>8. ASSUME NEW t \in Thread, ingest_Enqueue(t) \/ queue_periodic_summary_Enqueue(t)
        PROVE  WritesAside(ProcOf[t])
    <2>. DEFINE tables == [View(ProcOf[t]) EXCEPT !.pending = @ + 1]
    <2>1. tables \in Tables /\ tables.ledger = View(ProcOf[t]).ledger
                             /\ tables.count = View(ProcOf[t]).count
      BY <1>0 DEF Tables
    <2>2. Write(ProcOf[t], tables)
      BY <1>8 DEF ingest_Enqueue, queue_periodic_summary_Enqueue
    <2>. QED BY <2>1, <2>2 DEF WritesAside
  <1>9. ASSUME NEW t \in Thread, mark_notification(t) PROVE WritesAside(ProcOf[t])
    <2>. DEFINE tables == [View(ProcOf[t]) EXCEPT !.pending = @ - 1]
    <2>1. tables \in Tables /\ tables.ledger = View(ProcOf[t]).ledger
                             /\ tables.count = View(ProcOf[t]).count
      BY <1>0, <1>9 DEF Tables, mark_notification
    <2>2. Write(ProcOf[t], tables)
      BY <1>9 DEF mark_notification
    <2>. QED BY <2>1, <2>2 DEF WritesAside
  <1>10. CASE UNCHANGED vars
    BY <1>10 DEF vars, sqlVars
  <1>. QED
    BY <1>0, <1>1, <1>2, <1>3, <1>4, <1>5, <1>6, <1>7, <1>8, <1>9, <1>10 DEF Next, Step, Error

\* A thread stays as it is, moves to where it has nothing to show, or takes one
\* of the steps listed.
LEMMA LocalStep ==
  ASSUME Base, [Next]_vars, NEW u \in Thread
  PROVE  \/ pc'[u] = pc[u] /\ cur'[u] = cur[u] /\ seen'[u] = seen[u]
         \/ pc'[u] \in Free
         \/ ingest_Check(u) \/ ingest_Receipt(u) \/ ingest_Aggregate(u) \/ ingest_Pending(u)
         \/ ingest_Enqueue(u) \/ ingest_Commit(u) \/ recover_Audit(u) \/ recover_Commit(u)
         \/ ingest_Return(u) \/ queue_periodic_summary_Lock(u)
         \/ queue_periodic_summary_Pending(u) \/ queue_periodic_summary_Full(u)
         \/ queue_periodic_summary_Enqueue(u)
  <1>0. pc \in [Thread -> Control] /\ cur \in [Thread -> Event \cup {None}] /\ seen \in [Thread -> Nat]
    BY DEF Base, TypeOK
  <1>1. ASSUME NEW t \in Thread, NEW e \in Event, record_monitor_event(t, e)
        PROVE  \/ pc'[u] = pc[u] /\ cur'[u] = cur[u] /\ seen'[u] = seen[u]
               \/ pc'[u] \in Free
    BY <1>0, <1>1 DEF record_monitor_event, Go, Free
  <1>2. ASSUME NEW t \in Thread,
               \/ ingest_Lock(t) \/ ingest_Reject(t) \/ ingest_Begin(t) \/ ingest_BeginFails(t)
               \/ ingest_Fails(t) \/ recover_Fails(t) \/ queue_periodic_summary_Commit(t)
               \/ queue_periodic_summary_Fails(t) \/ fallback_failure(t)
               \/ set_background_monitor_state(t) \/ mark_notification(t)
               \/ plain_Write(t) \/ plain_Commit(t) \/ plain_Fails(t)
        PROVE  \/ pc'[u] = pc[u] /\ cur'[u] = cur[u] /\ seen'[u] = seen[u]
               \/ pc'[u] \in Free
    <2>1. \E l \in Free : pc' = [pc EXCEPT ![t] = l]
      BY <1>2 DEF ingest_Lock, ingest_Reject, ingest_Begin, ingest_BeginFails, ingest_Fails,
                recover_Fails, queue_periodic_summary_Commit, queue_periodic_summary_Fails,
                fallback_failure, set_background_monitor_state, mark_notification, plain_Write,
                plain_Commit, plain_Fails, Finish, Go, Free
    <2>2. u # t => cur'[u] = cur[u] /\ seen'[u] = seen[u]
      BY <1>0, <1>2
             DEF ingest_Lock, ingest_Reject, ingest_Begin, ingest_BeginFails, ingest_Fails,
                recover_Fails, queue_periodic_summary_Commit, queue_periodic_summary_Fails,
                fallback_failure, set_background_monitor_state, mark_notification, plain_Write,
                plain_Commit, plain_Fails, Finish, readVars
    <2>. QED BY <1>0, <2>1, <2>2
  <1>3. ASSUME NEW t \in Thread, t # u,
               \/ ingest_Check(t) \/ ingest_Receipt(t) \/ ingest_Aggregate(t) \/ ingest_Pending(t)
               \/ ingest_Enqueue(t) \/ ingest_Commit(t) \/ recover_Audit(t) \/ recover_Commit(t)
               \/ ingest_Return(t) \/ queue_periodic_summary_Lock(t)
               \/ queue_periodic_summary_Pending(t) \/ queue_periodic_summary_Full(t)
               \/ queue_periodic_summary_Enqueue(t)
        PROVE  pc'[u] = pc[u] /\ cur'[u] = cur[u] /\ seen'[u] = seen[u]
    <2>1. \E l : pc' = [pc EXCEPT ![t] = l]
      BY <1>3 DEF ingest_Check, ingest_Receipt, ingest_Aggregate, ingest_Pending, ingest_Enqueue,
                ingest_Commit, recover_Audit, recover_Commit, ingest_Return,
                queue_periodic_summary_Lock, queue_periodic_summary_Pending,
                queue_periodic_summary_Full, queue_periodic_summary_Enqueue, Go
    <2>2. cur'[u] = cur[u] /\ seen'[u] = seen[u]
      BY <1>0, <1>3
             DEF ingest_Check, ingest_Receipt, ingest_Aggregate, ingest_Pending, ingest_Enqueue,
                ingest_Commit, recover_Audit, recover_Commit, ingest_Return,
                queue_periodic_summary_Lock, queue_periodic_summary_Pending,
                queue_periodic_summary_Full, queue_periodic_summary_Enqueue, readVars
    <2>. QED BY <1>0, <1>3, <2>1, <2>2
  <1>4. ASSUME NEW p \in Process, Crash(p)
        PROVE  \/ pc'[u] = pc[u] /\ cur'[u] = cur[u] /\ seen'[u] = seen[u]
               \/ pc'[u] \in Free
    BY <1>0, <1>4 DEF Crash, Free
  <1>5. CASE UNCHANGED vars
    BY <1>5 DEF vars
  <1>. QED BY <1>1, <1>2, <1>3, <1>4, <1>5 DEF Next, Step, Error

-----------------------------------------------------------------------------
(* Receipts are never lost from sight.                                     *)

\* The receipts a connection sees only grow, ...
Grows(p) == \A e \in View(p).ledger : e \in View(p)'.ledger

\* ... unless its transaction is rolled back, when nobody of that process is left
\* inside ingest or queue_periodic_summary.
GrowsOrLeft(p) ==
    \/ Grows(p)
    \/ \A u \in Thread : ProcOf[u] = p => pc'[u] \notin InIngest \cup InSummary

\* What a process sees of the ledger only grows while one of its threads is inside
\* a transaction: a rollback throws every thread of the connection out of it.
LEMMA LedgerGrows ==
  ASSUME Base, Transactions, [Next]_vars
  PROVE  /\ Transactions'
         /\ \A e \in db.ledger : e \in db'.ledger
         /\ \A p \in Process : GrowsOrLeft(p)
  <1>. DEFINE Goal == /\ Transactions'
                      /\ \A e \in db.ledger : e \in db'.ledger
                      /\ \A q \in Process : GrowsOrLeft(q)
  <1>0. /\ \A t \in Thread : ProcOf[t] \in Process
        /\ \A p \in Process : p # None
    BY PipelineAssumption
  <1>1. CASE UNCHANGED sqlVars
    BY <1>1 DEF sqlVars, Transactions, GrowsOrLeft, Grows, View
  <1>2. ASSUME NEW p \in Process, Commit(p) PROVE Goal
    BY <1>2 DEF Commit, Transactions, GrowsOrLeft, Grows, View
  <1>3. ASSUME NEW p \in Process, RollsBack(p) PROVE Goal
    BY <1>3 DEF RollsBack, Rollback, Transactions, GrowsOrLeft, Grows, View
  <1>4. ASSUME NEW p \in Process, NEW tables, Write(p, tables),
               \A e \in View(p).ledger : e \in tables.ledger
        PROVE  Goal
    BY <1>0, <1>4 DEF Write, Transactions, GrowsOrLeft, Grows, View
  <1>5. ASSUME NEW p \in Process, WritesAside(p) PROVE Goal
    BY <1>4, <1>5 DEF WritesAside
  <1>6. ASSUME NEW t \in Thread, ingest_Receipt(t) PROVE Goal
    <2>1. View(ProcOf[t]) \in Tables
      BY <1>0, SqlTypes DEF Base
    <2>2. \A e \in View(ProcOf[t]).ledger :
              e \in [View(ProcOf[t]) EXCEPT !.ledger = @ \cup {cur[t]}].ledger
      BY <2>1 DEF Tables
    <2>. QED BY <1>0, <1>4, <1>6, <2>2 DEF ingest_Receipt
  <1>7. ASSUME NEW t \in Thread, ingest_Aggregate(t) PROVE Goal
    <2>1. View(ProcOf[t]) \in Tables
      BY <1>0, SqlTypes DEF Base
    <2>2. \A e \in View(ProcOf[t]).ledger :
              e \in [View(ProcOf[t]) EXCEPT !.count = seen[t] + 1].ledger
      BY <2>1 DEF Tables
    <2>. QED BY <1>0, <1>4, <1>7, <2>2 DEF ingest_Aggregate
  <1>. QED BY <1>1, <1>2, <1>3, <1>5, <1>6, <1>7, SqlStep

\* What a call has inserted stays in sight, and what it has committed stays.
LEMMA StoredInductive ==
  ASSUME Base, Transactions, Stored, [Next]_vars
  PROVE  Stored'
  <1> SUFFICES ASSUME NEW u \in Thread PROVE StoredFor(u)'
    BY DEF Stored
  <1>. USE DEF InIngest, InSummary, Go, readVars, sqlVars
  <1>0. /\ ProcOf[u] \in Process /\ StoredFor(u) /\ pc \in [Thread -> Control]
        /\ cur \in [Thread -> Event \cup {None}]
    BY PipelineAssumption DEF Stored, Base, TypeOK
  <1>1. /\ \A e \in db.ledger : e \in db'.ledger
        /\ GrowsOrLeft(ProcOf[u])
    BY <1>0, LedgerGrows
  <1>2. CASE pc'[u] = pc[u] /\ cur'[u] = cur[u]
    BY <1>0, <1>1, <1>2 DEF StoredFor, GrowsOrLeft, Grows
  <1>3. CASE pc'[u] \in Free
    BY <1>3 DEF StoredFor, Free
  <1>4. CASE ingest_Check(u)
    BY <1>0, <1>4 DEF StoredFor, ingest_Check, View
  <1>5. CASE ingest_Receipt(u)
    <2>1. View(ProcOf[u]) \in Tables
      BY <1>0, SqlTypes DEF Base
    <2>2. cur[u] \in [View(ProcOf[u]) EXCEPT !.ledger = @ \cup {cur[u]}].ledger
      BY <2>1 DEF Tables
    <2>3. View(ProcOf[u])' = [View(ProcOf[u]) EXCEPT !.ledger = @ \cup {cur[u]}]
      BY <1>5 DEF ingest_Receipt, Write, View
    <2>. QED BY <1>0, <1>5, <2>2, <2>3 DEF StoredFor, ingest_Receipt
  <1>6. CASE ingest_Aggregate(u) \/ ingest_Pending(u) \/ ingest_Enqueue(u)
    <2>1. /\ pc[u] \in {"aggregate", "pending", "enqueue"} /\ cur' = cur
          /\ pc'[u] \in {"pending", "enqueue", "commit"}
      BY <1>0, <1>6 DEF ingest_Aggregate, ingest_Pending, ingest_Enqueue
    <2>. QED BY <1>0, <1>1, <2>1 DEF StoredFor, GrowsOrLeft, Grows
  <1>7. CASE ingest_Commit(u)
    BY <1>0, <1>7 DEF StoredFor, ingest_Commit, Commit
  <1>8. CASE recover_Audit(u) \/ recover_Commit(u) \/ ingest_Return(u) \/ queue_periodic_summary_Lock(u)
             \/ queue_periodic_summary_Pending(u) \/ queue_periodic_summary_Full(u)
             \/ queue_periodic_summary_Enqueue(u)
    <2>1. /\ pc[u] \in {"decide", "recoverCommit", "sumLock"} \cup InSummary /\ cur' = cur
          /\ pc'[u] \in {"decide", "recoverCommit", "sumLock", "plain"} \cup InSummary
      BY <1>0, <1>8 DEF recover_Audit, recover_Commit, ingest_Return, queue_periodic_summary_Lock,
             queue_periodic_summary_Pending, queue_periodic_summary_Full,
             queue_periodic_summary_Enqueue
    <2>. QED BY <1>0, <1>1, <2>1 DEF StoredFor
  <1>. QED BY <1>2, <1>3, <1>4, <1>5, <1>6, <1>7, <1>8, LocalStep

-----------------------------------------------------------------------------
(* The receipt of an event precedes the row for the notifier.              *)

\* ReceiptBeforeRow for one thread.
Accounted(t) ==
    \/ cur[t] \in db.ledger
    \/ \E i \in 1..Len(buffer[ProcOf[t]]) : buffer[ProcOf[t]][i] = cur[t]
    \/ Len(buffer[ProcOf[t]]) = EmergencyCapacity

AtRow(t) == pc[t] \in {"plain", "plainCommit"} /\ cur[t] # None

\* The invariant in terms of the threads that are about to write the row.
LEMMA RowsAccounted == ReceiptBeforeRow <=> \A t \in Thread : AtRow(t) => Accounted(t)
  BY DEF ReceiptBeforeRow, AtRow, Accounted

\* A thread that stands at the row stood there before, has just come from a
\* committed ingest, or has just been through the emergency fallback.
LEMMA RowStep ==
  ASSUME Base, [Next]_vars, NEW u \in Thread, AtRow(u)'
  PROVE  \/ fallback_failure(u)
         \/ /\ cur'[u] = cur[u]
            /\ AtRow(u) \/ pc[u] \in {"decide", "sumCommit"}
            /\ \/ buffer'[ProcOf[u]] = buffer[ProcOf[u]]
               \/ \E t \in Thread : ProcOf[t] = ProcOf[u] /\ fallback_failure(t)
  <1>. USE DEF AtRow, Go, readVars, procVars
  <1>0. /\ pc \in [Thread -> Control] /\ cur \in [Thread -> Event \cup {None}]
        /\ ProcOf[u] \in Process /\ buffer \in [Process -> Seq(Event)]
        /\ pc[u] = "idle" => cur[u] = None
    BY PipelineAssumption DEF Base, TypeOK, Calls
  <1>. DEFINE Kept == /\ cur'[u] = cur[u]
                      /\ AtRow(u) \/ pc[u] \in {"decide", "sumCommit"}
                      /\ buffer'[ProcOf[u]] = buffer[ProcOf[u]]
  <1>1. ASSUME NEW t \in Thread, NEW e \in Event, record_monitor_event(t, e) PROVE Kept
    BY <1>0, <1>1 DEF record_monitor_event
  <1>2. ASSUME NEW t \in Thread, ingest_Reject(t) PROVE Kept
    BY <1>0, <1>2 DEF ingest_Reject
  <1>3. ASSUME NEW t \in Thread,
               \/ ingest_Lock(t) \/ ingest_Begin(t) \/ ingest_BeginFails(t) \/ ingest_Check(t)
               \/ ingest_Receipt(t) \/ ingest_Aggregate(t) \/ ingest_Pending(t) \/ ingest_Enqueue(t)
               \/ ingest_Commit(t) \/ ingest_Fails(t) \/ recover_Audit(t) \/ recover_Commit(t)
               \/ recover_Fails(t) \/ queue_periodic_summary_Lock(t)
               \/ queue_periodic_summary_Pending(t) \/ queue_periodic_summary_Full(t)
               \/ queue_periodic_summary_Enqueue(t) \/ queue_periodic_summary_Fails(t)
        PROVE  Kept
    <2>1. /\ \E l \in Control \ {"plain", "plainCommit"} : pc' = [pc EXCEPT ![t] = l]
          /\ cur' = cur /\ buffer' = buffer
      BY <1>3 DEF Control, InIngest, InSummary, ingest_Lock, ingest_Begin, ingest_BeginFails,
             ingest_Check, ingest_Receipt, ingest_Aggregate, ingest_Pending, ingest_Enqueue,
             ingest_Commit, ingest_Fails, recover_Audit, recover_Commit, recover_Fails,
             queue_periodic_summary_Lock, queue_periodic_summary_Pending,
             queue_periodic_summary_Full, queue_periodic_summary_Enqueue,
             queue_periodic_summary_Fails
    <2>. QED BY <1>0, <2>1
  <1>4. ASSUME NEW t \in Thread, ingest_Return(t) \/ queue_periodic_summary_Commit(t) PROVE Kept
    BY <1>0, <1>4 DEF ingest_Return, queue_periodic_summary_Commit
  <1>5. ASSUME NEW t \in Thread, set_background_monitor_state(t) \/ mark_notification(t) \/ plain_Write(t)
        PROVE  Kept
    BY <1>0, <1>5 DEF set_background_monitor_state, mark_notification, plain_Write
  <1>6. ASSUME NEW t \in Thread, plain_Commit(t) \/ plain_Fails(t) PROVE Kept
    BY <1>0, <1>6 DEF plain_Commit, plain_Fails, Finish
  <1>7. ASSUME NEW p \in Process, Crash(p) PROVE Kept
    BY <1>0, <1>7 DEF Crash
  <1>8. ASSUME NEW t \in Thread, t # u, fallback_failure(t)
        PROVE  /\ cur'[u] = cur[u] /\ AtRow(u)
               /\ buffer'[ProcOf[u]] = buffer[ProcOf[u]] \/ ProcOf[t] = ProcOf[u]
    BY <1>0, <1>8 DEF fallback_failure
  <1>9. CASE UNCHANGED vars
    BY <1>9 DEF vars
  <1>. QED
    BY <1>1, <1>2, <1>3, <1>4, <1>5, <1>6, <1>7, <1>8, <1>9 DEF Next, Step, Error

\* No step takes a receipt from a thread that is about to write its row: neither
\* the recovery of the buffer nor the rollback of another thread.
LEMMA ReceiptsInductive ==
  ASSUME Base, Transactions, Stored, ReceiptBeforeRow, [Next]_vars
  PROVE  ReceiptBeforeRow'
  <1> SUFFICES ASSUME NEW u \in Thread, AtRow(u)' PROVE Accounted(u)'
    BY DEF ReceiptBeforeRow, AtRow, Accounted
  <1>0. /\ ProcOf[u] \in Process /\ buffer \in [Process -> Seq(Event)]
        /\ AtRow(u) => Accounted(u)
        /\ \A e \in db.ledger : e \in db'.ledger
    BY PipelineAssumption, RowsAccounted, LedgerGrows DEF Base, TypeOK
  <1>1. ASSUME NEW t \in Thread, ProcOf[t] = ProcOf[u], fallback_failure(t)
        PROVE  Accounted(u) \/ u = t => \/ Len(buffer'[ProcOf[u]]) = EmergencyCapacity
                                        \/ cur[u] \in db.ledger
                                        \/ \E i \in 1..Len(buffer'[ProcOf[u]]) : buffer'[ProcOf[u]][i] = cur[u]
    <2>. DEFINE s == buffer[ProcOf[u]]
                s2 == Remember(s, cur[t])
    <2>1. s \in Seq(Event) /\ cur[t] \in Event /\ Len(s) <= EmergencyCapacity
      BY <1>0, <1>1 DEF Base, Calls, Buffers, fallback_failure
    <2>2. buffer'[ProcOf[u]] = s2
      BY <1>0, <1>1 DEF fallback_failure
    <2>3. /\ \E i \in 1..Len(s2) : s2[i] = cur[t]
          /\ \/ Len(s2) = EmergencyCapacity
             \/ /\ \A i \in 1..Len(s) : i \in 1..Len(s2) /\ s2[i] = s[i]
                /\ Len(s) # EmergencyCapacity
      BY <2>1, RememberProperties
    <2>. HIDE DEF s2
    <2>. QED BY <2>2, <2>3 DEF Accounted
  <1>2. CASE fallback_failure(u)
    <2>1. cur'[u] = cur[u]
      BY <1>2 DEF fallback_failure, readVars
    <2>. QED BY <1>0, <1>1, <1>2, <2>1 DEF Accounted
  <1>3. CASE /\ cur'[u] = cur[u]
             /\ AtRow(u) \/ pc[u] \in {"decide", "sumCommit"}
             /\ \/ buffer'[ProcOf[u]] = buffer[ProcOf[u]]
                \/ \E t \in Thread : ProcOf[t] = ProcOf[u] /\ fallback_failure(t)
    <2>1. Accounted(u)
      BY <1>0, <1>3 DEF Stored, StoredFor, InSummary, Accounted
    <2>2. CASE buffer'[ProcOf[u]] = buffer[ProcOf[u]]
      BY <1>0, <1>3, <2>1, <2>2 DEF Accounted
    <2>3. ASSUME NEW t \in Thread, ProcOf[t] = ProcOf[u], fallback_failure(t) PROVE Accounted(u)'
      BY <1>0, <1>1, <1>3, <2>1, <2>3 DEF Accounted
    <2>. QED BY <1>3, <2>2, <2>3
  <1>. QED BY <1>2, <1>3, RowStep

-----------------------------------------------------------------------------
(* An alert never claims more occurrences than there are receipts.         *)

\* A count is raised only in a transaction that holds the receipt, so neither a
\* rollback nor a commit by another thread leaves it ahead.
LEMMA CoveredInductive ==
  ASSUME Base, Transactions, Covered, [Next]_vars
  PROVE  Covered'
  <1>0. /\ \A t \in Thread : ProcOf[t] \in Process
        /\ db \in Tables /\ draft \in Tables /\ pc \in [Thread -> Control]
        /\ cur \in [Thread -> Event \cup {None}] /\ seen \in [Thread -> Nat]
        /\ \A p \in Process : View(p) \in Tables
    BY PipelineAssumption, SqlTypes DEF Base, TypeOK
  <1>1. /\ IsFiniteSet(db.ledger) /\ IsFiniteSet(draft.ledger)
        /\ db.count <= Cardinality(db.ledger) /\ draft.count <= Cardinality(draft.ledger)
    BY DEF Covered, CountNeverAhead
  <1>2. \A p \in Process : /\ IsFiniteSet(View(p).ledger)
                           /\ View(p).count <= Cardinality(View(p).ledger)
                           /\ Cardinality(View(p).ledger) \in Nat
    BY <1>1, FS_CardinalityType DEF View
  <1>. DEFINE Tables1 == /\ IsFiniteSet(db.ledger)' /\ IsFiniteSet(draft.ledger)'
                         /\ CountNeverAhead'
  <1>3. ASSUME NEW p \in Process, NEW tables, Write(p, tables),
               IsFiniteSet(tables.ledger), tables.count <= Cardinality(tables.ledger)
        PROVE  Tables1
    BY <1>1, <1>3 DEF Write, CountNeverAhead
  <1>4. ASSUME UNCHANGED sqlVars PROVE Tables1
    BY <1>1, <1>4 DEF sqlVars, CountNeverAhead
  <1>5. ASSUME NEW p \in Process, Commit(p) PROVE Tables1
    BY <1>1, <1>5 DEF Commit, View, CountNeverAhead
  <1>6. ASSUME NEW p \in Process, RollsBack(p) PROVE Tables1
    BY <1>1, <1>6 DEF RollsBack, Rollback, CountNeverAhead
  <1>7. ASSUME NEW p \in Process, WritesAside(p) PROVE Tables1
    BY <1>2, <1>3, <1>7 DEF WritesAside
  <1>8. ASSUME NEW t \in Thread, ingest_Receipt(t)
        PROVE  /\ Tables1 /\ View(ProcOf[t])'.ledger = View(ProcOf[t]).ledger \cup {cur[t]}
               /\ Cardinality(View(ProcOf[t])'.ledger) = Cardinality(View(ProcOf[t]).ledger) + 1
    <2>. DEFINE old == View(ProcOf[t])
                new == [old EXCEPT !.ledger = @ \cup {cur[t]}]
    <2>1. old \in Tables /\ cur[t] \notin old.ledger /\ Write(ProcOf[t], new)
      BY <1>0, <1>8 DEF ingest_Receipt
    <2>2. new.ledger = old.ledger \cup {cur[t]} /\ new.count = old.count /\ old.count \in Nat
      BY <2>1 DEF Tables
    <2>3. IsFiniteSet(old.ledger \cup {cur[t]})
          /\ Cardinality(old.ledger \cup {cur[t]}) = Cardinality(old.ledger) + 1
      BY <1>0, <1>2, <2>1, FS_AddElement
    <2>4. old.count <= Cardinality(old.ledger) + 1
      BY <1>0, <1>2, <2>2
    <2>5. View(ProcOf[t])' = new
      BY <2>1 DEF Write, View
    <2>. HIDE DEF new
    <2>6. IsFiniteSet(new.ledger) /\ new.count <= Cardinality(new.ledger)
      BY <2>2, <2>3, <2>4
    <2>7. Tables1
      BY <1>0, <1>3, <2>1, <2>6
    <2>. QED BY <2>2, <2>3, <2>5, <2>7
  <1>9. ASSUME NEW t \in Thread, ingest_Aggregate(t) PROVE Tables1
    <2>. DEFINE old == View(ProcOf[t])
                new == [old EXCEPT !.count = seen[t] + 1]
    <2>1. old \in Tables /\ Write(ProcOf[t], new)
      BY <1>0, <1>9 DEF ingest_Aggregate
    <2>2. new.ledger = old.ledger /\ new.count = seen[t] + 1
      BY <2>1 DEF Tables
    <2>3. seen[t] + 1 <= Cardinality(old.ledger)
      BY <1>9 DEF ingest_Aggregate, Covered, CoveredFor
    <2>. HIDE DEF new
    <2>. QED BY <1>0, <1>2, <1>3, <2>1, <2>2, <2>3
  <1>10. Tables1
    BY <1>4, <1>5, <1>6, <1>7, <1>8, <1>9, SqlStep
  <1>11. ASSUME NEW u \in Thread PROVE CoveredFor(u)'
    <2>0. /\ ProcOf[u] \in Process /\ CoveredFor(u) /\ GrowsOrLeft(ProcOf[u])
          /\ seen[u] \in Nat
      BY <1>0, LedgerGrows DEF Covered
    <2>1. CASE pc'[u] = pc[u] /\ seen'[u] = seen[u]
      <3> SUFFICES ASSUME pc[u] \in {"ledger", "aggregate"} PROVE CoveredFor(u)'
        BY <2>1 DEF CoveredFor
      <3>1. \A e \in View(ProcOf[u]).ledger : e \in View(ProcOf[u])'.ledger
        BY <2>0, <2>1 DEF GrowsOrLeft, Grows, InIngest
      <3>2. IsFiniteSet(View(ProcOf[u])'.ledger)
        BY <1>10 DEF View
      <3>3. /\ Cardinality(View(ProcOf[u]).ledger) <= Cardinality(View(ProcOf[u])'.ledger)
            /\ Cardinality(View(ProcOf[u])'.ledger) \in Nat
        BY <3>1, <3>2, FS_Subset, FS_CardinalityType
      <3>4. /\ pc[u] = "ledger" => seen[u] <= Cardinality(View(ProcOf[u]).ledger)
            /\ pc[u] = "aggregate" => seen[u] + 1 <= Cardinality(View(ProcOf[u]).ledger)
        BY <2>0 DEF CoveredFor
      <3>5. Cardinality(View(ProcOf[u]).ledger) \in Nat
        BY <1>2, <2>0
      <3>. QED BY <2>0, <2>1, <3>3, <3>4, <3>5 DEF CoveredFor
    <2>2. CASE ingest_Check(u)
      <3>1. /\ seen'[u] = View(ProcOf[u]).count /\ pc'[u] # "aggregate"
            /\ View(ProcOf[u])' = View(ProcOf[u])
        BY <1>0, <2>2 DEF ingest_Check, Go, sqlVars, View
      <3>. QED BY <1>2, <2>0, <3>1 DEF CoveredFor
    <2>3. CASE ingest_Receipt(u)
      <3>1. seen'[u] = seen[u] /\ pc'[u] = "aggregate" /\ pc[u] = "ledger"
        BY <1>0, <2>3 DEF ingest_Receipt, Go, readVars
      <3>2. seen[u] <= Cardinality(View(ProcOf[u]).ledger)
        BY <2>0, <3>1 DEF CoveredFor
      <3>3. Cardinality(View(ProcOf[u])'.ledger) = Cardinality(View(ProcOf[u]).ledger) + 1
        BY <1>8, <2>3
      <3>4. Cardinality(View(ProcOf[u]).ledger) \in Nat
        BY <1>2, <2>0
      <3>. QED BY <2>0, <3>1, <3>2, <3>3, <3>4 DEF CoveredFor
    <2>4. CASE pc'[u] \notin {"ledger", "aggregate"}
      BY <2>4 DEF CoveredFor
    <2>5. ASSUME \/ ingest_Aggregate(u) \/ ingest_Pending(u) \/ ingest_Enqueue(u) \/ ingest_Commit(u)
                 \/ recover_Audit(u) \/ recover_Commit(u) \/ ingest_Return(u)
                 \/ queue_periodic_summary_Lock(u) \/ queue_periodic_summary_Pending(u)
                 \/ queue_periodic_summary_Full(u) \/ queue_periodic_summary_Enqueue(u)
          PROVE  pc'[u] \notin {"ledger", "aggregate"}
      BY <1>0, <2>5 DEF ingest_Aggregate, ingest_Pending, ingest_Enqueue,
             ingest_Commit, recover_Audit, recover_Commit, ingest_Return,
             queue_periodic_summary_Lock, queue_periodic_summary_Pending,
             queue_periodic_summary_Full, queue_periodic_summary_Enqueue, Go
    <2>6. pc'[u] \in Free => pc'[u] \notin {"ledger", "aggregate"}
      BY DEF Free
    <2>. QED BY <2>1, <2>2, <2>3, <2>4, <2>5, <2>6, LocalStep
  <1>. QED BY <1>10, <1>11 DEF Covered

-----------------------------------------------------------------------------
(* The notification queue stays within its bound.                          *)

\* Moving a thread to a point where it is not about to add an entry takes no
\* process into Adding; when the thread holds the lock, its process is out of it.
LEMMA AddingShrinks ==
  ASSUME Base, NEW t \in Thread, NEW l \in Control \ {"enqueue", "sumEnqueue"},
         pc' = [pc EXCEPT ![t] = l]
  PROVE  /\ Adding' \subseteq Adding
         /\ pc[t] \in InIngest \cup InSummary => Adding' \subseteq Adding \ {ProcOf[t]}
  <1>1. Adding' \subseteq Adding
    BY DEF Adding, Base, TypeOK
  <1>2. ASSUME pc[t] \in InIngest \cup InSummary, ProcOf[t] \in Adding' PROVE FALSE
    <2>1. PICK u \in Thread : ProcOf[u] = ProcOf[t] /\ pc'[u] \in {"enqueue", "sumEnqueue"}
      BY <1>2 DEF Adding
    <2>2. u # t /\ pc'[u] = pc[u]
      BY <2>1 DEF Base, TypeOK
    <2>3. lock[ProcOf[u]] = u /\ lock[ProcOf[t]] = t
      BY <1>2, <2>1, <2>2 DEF Base, Calls, InIngest, InSummary
    <2>. QED BY <2>1, <2>2, <2>3
  <1>. QED BY <1>1, <1>2

\* The effects a step can have on the queue and on who is about to add to it.
Keeps == UNCHANGED sqlVars /\ Adding' \subseteq Adding
Commits == Adding' \subseteq Adding /\ \E p \in Process : Commit(p)
Discards == \E p \in Process : Rollback(p) /\ Adding' \subseteq Adding \ {p}
Lowers ==
    /\ Adding' \subseteq Adding
    /\ \E p \in Process, tables \in Tables :
            Write(p, tables) /\ tables.pending <= View(p).pending
Adds ==
    \E p \in Adding, tables \in Tables :
        /\ Write(p, tables) /\ tables.pending = View(p).pending + 1
        /\ Adding' \subseteq Adding \ {p}
Enters ==
    /\ UNCHANGED sqlVars
    /\ \E p \in Process : /\ View(p).pending < NotificationCapacity
                           /\ Adding' \subseteq Adding \cup {p}

\* A step does one of six things to the pending notifications and to the processes
\* that have counted them and are about to add one.
LEMMA QueueStep ==
  ASSUME Base, [Next]_vars
  PROVE  Keeps \/ Commits \/ Discards \/ Lowers \/ Adds \/ Enters
  <1>. USE DEF Go, Control, InIngest, InSummary
  <1>0. /\ \A t \in Thread : ProcOf[t] \in Process
        /\ \A p \in Process : View(p) \in Tables /\ View(p).pending \in Nat
        /\ db \in Tables /\ pc \in [Thread -> Control]
    BY PipelineAssumption, SqlTypes, TableTypes DEF Base, TypeOK
  <1>1. ASSUME NEW t \in Thread, NEW e \in Event, record_monitor_event(t, e) PROVE Keeps
    BY <1>1, AddingShrinks DEF record_monitor_event, Keeps
  <1>2. ASSUME NEW t \in Thread,
               \/ ingest_Lock(t) \/ ingest_Reject(t) \/ ingest_BeginFails(t) \/ ingest_Check(t)
               \/ recover_Fails(t) \/ ingest_Return(t)
               \/ queue_periodic_summary_Lock(t) \/ queue_periodic_summary_Fails(t)
               \/ fallback_failure(t) \/ set_background_monitor_state(t) \/ plain_Fails(t)
        PROVE  Keeps
    <2>1. /\ UNCHANGED sqlVars
          /\ \E l \in Control \ {"enqueue", "sumEnqueue"} : pc' = [pc EXCEPT ![t] = l]
      BY <1>2 DEF ingest_Lock, ingest_Reject, ingest_BeginFails, ingest_Check,
                recover_Fails, ingest_Return, queue_periodic_summary_Lock,
                queue_periodic_summary_Fails, fallback_failure,
                set_background_monitor_state, plain_Fails, Finish
    <2>. QED BY <2>1, AddingShrinks DEF Keeps
  <1>3. ASSUME NEW t \in Thread, ingest_Commit(t) \/ recover_Commit(t)
                    \/ queue_periodic_summary_Commit(t) \/ plain_Commit(t)
        PROVE  Commits
    <2>1. /\ Commit(ProcOf[t])
          /\ \E l \in Control \ {"enqueue", "sumEnqueue"} : pc' = [pc EXCEPT ![t] = l]
      BY <1>3 DEF ingest_Commit, recover_Commit, queue_periodic_summary_Commit, plain_Commit,
                Finish
    <2>. QED BY <1>0, <2>1, AddingShrinks DEF Commits
  <1>4. ASSUME NEW t \in Thread, ingest_Fails(t) PROVE Discards
    <2>1. /\ Rollback(ProcOf[t]) /\ pc[t] \in InIngest
          /\ pc' = [pc EXCEPT ![t] = "fallback"]
      BY <1>4 DEF ingest_Fails
    <2>. QED BY <1>0, <2>1, AddingShrinks DEF Discards
  <1>5. ASSUME NEW p \in Process, Crash(p) PROVE Discards
    BY <1>0, <1>5 DEF Crash, Discards, Adding
  <1>6. ASSUME NEW t \in Thread, ingest_Begin(t) PROVE Lowers
    <2>1. Write(ProcOf[t], db) /\ View(ProcOf[t]) = db
      BY <1>0, <1>6, PipelineAssumption DEF ingest_Begin, View
    <2>2. Adding' \subseteq Adding
      BY <1>6, AddingShrinks DEF ingest_Begin
    <2>. QED BY <1>0, <2>1, <2>2 DEF Lowers
  <1>7. ASSUME NEW t \in Thread, NEW tables \in Tables, Write(ProcOf[t], tables),
               tables.pending <= View(ProcOf[t]).pending,
               NEW l \in Control \ {"enqueue", "sumEnqueue"}, pc' = [pc EXCEPT ![t] = l]
        PROVE  Lowers
    BY <1>0, <1>7, AddingShrinks DEF Lowers
  <1>8. ASSUME NEW t \in Thread, ingest_Receipt(t) PROVE Lowers
    <2>. DEFINE tables == [View(ProcOf[t]) EXCEPT !.ledger = @ \cup {cur[t]}]
    <2>1. cur[t] \in Event
      BY <1>8 DEF ingest_Receipt, Base, Calls
    <2>2. tables \in Tables /\ tables.pending <= View(ProcOf[t]).pending
      BY <1>0, <2>1 DEF Tables
    <2>3. Write(ProcOf[t], tables) /\ pc' = [pc EXCEPT ![t] = "aggregate"]
      BY <1>8 DEF ingest_Receipt
    <2>. HIDE DEF tables
    <2>. QED BY <1>0, <1>7, <2>2, <2>3
  <1>9. ASSUME NEW t \in Thread, ingest_Aggregate(t) PROVE Lowers
    <2>. DEFINE tables == [View(ProcOf[t]) EXCEPT !.count = seen[t] + 1]
    <2>1. seen[t] + 1 \in Nat
      BY DEF Base, TypeOK
    <2>2. tables \in Tables /\ tables.pending <= View(ProcOf[t]).pending
      BY <1>0, <2>1 DEF Tables
    <2>3. \E l \in Control \ {"enqueue", "sumEnqueue"} : pc' = [pc EXCEPT ![t] = l]
      BY <1>9 DEF ingest_Aggregate
    <2>4. Write(ProcOf[t], tables)
      BY <1>9 DEF ingest_Aggregate
    <2>. HIDE DEF tables
    <2>. QED BY <1>0, <1>7, <2>2, <2>3, <2>4
  <1>10. ASSUME NEW t \in Thread, recover_Audit(t) \/ queue_periodic_summary_Full(t) \/ plain_Write(t)
         PROVE  Lowers
    BY <1>0, <1>7, <1>10 DEF recover_Audit, queue_periodic_summary_Full, plain_Write
  <1>11. ASSUME NEW t \in Thread, mark_notification(t) PROVE Lowers
    <2>. DEFINE tables == [View(ProcOf[t]) EXCEPT !.pending = @ - 1]
    <2>1. View(ProcOf[t]).pending > 0 /\ Write(ProcOf[t], tables)
      BY <1>11 DEF mark_notification
    <2>2. tables \in Tables /\ tables.pending <= View(ProcOf[t]).pending
      BY <1>0, <2>1 DEF Tables
    <2>. QED BY <1>0, <1>7, <1>11, <2>1, <2>2 DEF mark_notification
  <1>12. ASSUME NEW t \in Thread, ingest_Enqueue(t) \/ queue_periodic_summary_Enqueue(t) PROVE Adds
    <2>. DEFINE tables == [View(ProcOf[t]) EXCEPT !.pending = @ + 1]
    <2>1. tables \in Tables /\ tables.pending = View(ProcOf[t]).pending + 1
      BY <1>0 DEF Tables
    <2>2. /\ Write(ProcOf[t], tables) /\ pc[t] \in {"enqueue", "sumEnqueue"}
          /\ \E l \in Control \ {"enqueue", "sumEnqueue"} : pc' = [pc EXCEPT ![t] = l]
      BY <1>12 DEF ingest_Enqueue, queue_periodic_summary_Enqueue
    <2>3. Adding' \subseteq Adding \ {ProcOf[t]} /\ ProcOf[t] \in Adding
      BY <1>0, <2>2, AddingShrinks DEF Adding
    <2>. HIDE DEF tables
    <2>. QED BY <2>1, <2>2, <2>3 DEF Adds
  <1>13. ASSUME NEW t \in Thread, ingest_Pending(t) \/ queue_periodic_summary_Pending(t)
         PROVE  Keeps \/ Enters
    <2>1. UNCHANGED sqlVars
      BY <1>13 DEF ingest_Pending, queue_periodic_summary_Pending
    <2>2. CASE View(ProcOf[t]).pending < NotificationCapacity
      <3>1. \E l : pc' = [pc EXCEPT ![t] = l]
        BY <1>13 DEF ingest_Pending, queue_periodic_summary_Pending
      <3>2. Adding' \subseteq Adding \cup {ProcOf[t]}
        BY <1>0, <3>1 DEF Adding
      <3>. QED BY <1>0, <2>1, <2>2, <3>2 DEF Enters
    <2>3. CASE ~(View(ProcOf[t]).pending < NotificationCapacity)
      <3>1. \E l \in Control \ {"enqueue", "sumEnqueue"} : pc' = [pc EXCEPT ![t] = l]
        BY <1>0, <1>13, <2>3, PipelineAssumption DEF ingest_Pending, queue_periodic_summary_Pending
      <3>. QED BY <2>1, <3>1, AddingShrinks DEF Keeps
    <2>. QED BY <2>2, <2>3
  <1>14. CASE UNCHANGED vars
    BY <1>14 DEF vars, sqlVars, Keeps, Adding
  <1>. QED
    BY <1>1, <1>2, <1>3, <1>4, <1>5, <1>6, <1>8, <1>9, <1>10, <1>11, <1>12, <1>13, <1>14
       DEF Next, Step, Error

\* However processes interleave their reading of the count and their writing, the
\* entries and the announced additions keep within the bound.
LEMMA RoomInductive ==
  ASSUME Base, Transactions, Room, [Next]_vars
  PROVE  Room'
  <1>. DEFINE P == Cardinality(Process)
              N == NotificationCapacity
              a == Cardinality(Adding \ {writer})
              b == Cardinality(Adding)
              a2 == Cardinality(Adding' \ {writer'})
              b2 == Cardinality(Adding')
  <1>0. /\ db.pending \in Nat /\ draft.pending \in Nat /\ N \in Nat \ {0}
        /\ Adding \subseteq Process /\ Adding' \subseteq Process
        /\ \A p \in Process : View(p).pending \in Nat
    BY PipelineAssumption, SqlTypes, TableTypes DEF Base, TypeOK, Adding
  <1>1. \A S, T : S \subseteq T /\ T \subseteq Process =>
            /\ IsFiniteSet(S) /\ IsFiniteSet(T)
            /\ Cardinality(S) \in Nat /\ Cardinality(T) \in Nat
            /\ Cardinality(S) <= Cardinality(T)
    BY PipelineAssumption, FS_Subset, FS_CardinalityType
  <1>2. /\ P \in Nat /\ a \in Nat /\ b \in Nat /\ a2 \in Nat /\ b2 \in Nat
        /\ a <= b /\ a2 <= b2 /\ b2 <= P /\ b <= P
    <2>1. Adding \ {writer} \subseteq Adding /\ Adding' \ {writer'} \subseteq Adding'
      OBVIOUS
    <2>. QED BY <1>0, <1>1, <2>1
  <1>. HIDE DEF P, N, a, b, a2, b2
  <1>3. /\ db.pending + a <= N + P - 1
        /\ draft.pending + b <= N + P - 1
        /\ \/ draft.pending <= db.pending \/ draft.pending <= N - 1
           \/ writer \notin Adding /\ (draft.pending <= db.pending + 1 \/ draft.pending <= N)
    BY <1>0 DEF Room, P, N, a, b
  <1>4. SUFFICES
            /\ db'.pending + a2 <= N + P - 1
            /\ draft'.pending + b2 <= N + P - 1
            /\ \/ draft'.pending <= db'.pending \/ draft'.pending <= N - 1
               \/ writer' \notin Adding' /\ (draft'.pending <= db'.pending + 1 \/ draft'.pending <= N)
    BY <1>0 DEF Room, P, N, a2, b2
  <1>5. Adding' \subseteq Adding => b2 <= b
    BY <1>0, <1>1 DEF b, b2
  <1>6. Adding' \ {writer'} \subseteq Adding \ {writer} => a2 <= a
    <2>1. Adding \ {writer} \subseteq Process
      BY <1>0
    <2>. QED BY <1>1, <2>1 DEF a, a2
  <1>7. CASE Keeps
    BY <1>0, <1>2, <1>3, <1>5, <1>6, <1>7 DEF Keeps, sqlVars
  <1>8. CASE Commits
    <2>1. PICK p \in Process : Commit(p)
      BY <1>8 DEF Commits
    <2>2. Adding' \subseteq Adding
      BY <1>8 DEF Commits
    <2>3. CASE writer = p
      <3>1. db' = draft /\ draft' = draft
        BY <2>1, <2>3 DEF Commit, View
      <3>. QED BY <1>0, <1>2, <1>3, <1>5, <2>2, <3>1
    <2>4. CASE writer # p
      <3>1. db' = db /\ draft' = draft /\ writer' = writer
        BY <2>1, <2>4 DEF Commit, View
      <3>. QED BY <1>0, <1>2, <1>3, <1>5, <1>6, <2>2, <3>1
    <2>. QED BY <2>3, <2>4
  <1>9. CASE Discards
    <2>1. PICK p \in Process : Rollback(p) /\ Adding' \subseteq Adding \ {p}
      BY <1>9 DEF Discards
    <2>2. CASE writer = p
      <3>1. db' = db /\ draft' = db
        BY <2>1, <2>2 DEF Rollback
      <3>2. b2 <= a
        <4>1. Adding \ {writer} \subseteq Process
          BY <1>0
        <4>. QED BY <1>1, <2>1, <2>2, <4>1 DEF a, b2
      <3>. QED BY <1>0, <1>2, <1>3, <3>1, <3>2
    <2>3. CASE writer # p
      <3>1. db' = db /\ draft' = draft /\ writer' = writer
        BY <2>1, <2>3 DEF Rollback
      <3>. QED BY <1>0, <1>2, <1>3, <1>5, <1>6, <2>1, <3>1
    <2>. QED BY <2>2, <2>3
  <1>10. CASE Lowers
    <2>1. PICK p \in Process, tables \in Tables :
              Write(p, tables) /\ tables.pending <= View(p).pending
      BY <1>10 DEF Lowers
    <2>2. db' = db /\ draft' = tables /\ writer' = p /\ writer \in {None, p}
          /\ tables.pending \in Nat /\ Adding' \subseteq Adding
      BY <1>10, <2>1, TableTypes DEF Write, Lowers
    <2>3. a2 <= a
      BY <1>0, <1>6, <2>2, PipelineAssumption
    <2>4. View(p).pending = draft.pending
      BY <2>2 DEF View, Transactions
    <2>5. \/ draft.pending <= db.pending \/ draft.pending <= N - 1
          \/ writer' \notin Adding' /\ (draft.pending <= db.pending + 1 \/ draft.pending <= N)
      BY <1>0, <1>3, <2>2 DEF Transactions
    <2>. QED BY <1>0, <1>2, <1>3, <1>5, <2>1, <2>2, <2>3, <2>4, <2>5
  <1>11. CASE Adds
    <2>1. PICK p \in Adding, tables \in Tables :
              /\ Write(p, tables) /\ tables.pending = View(p).pending + 1
              /\ Adding' \subseteq Adding \ {p}
      BY <1>11 DEF Adds
    <2>2. /\ db' = db /\ draft' = tables /\ writer' = p /\ writer \in {None, p}
          /\ p \in Process /\ writer' \notin Adding'
      BY <1>0, <2>1 DEF Write
    <2>3. a2 <= a
      BY <1>0, <1>6, <2>1, <2>2, PipelineAssumption
    <2>4. View(p).pending = draft.pending
      BY <2>2 DEF View, Transactions
    <2>5. b2 + 1 <= b
      <3>1. Cardinality(Adding \ {p}) = b - 1
        BY <1>0, <1>1, <2>1, FS_RemoveElement DEF b
      <3>2. Adding \ {p} \subseteq Process
        BY <1>0
      <3>. QED BY <1>1, <1>2, <2>1, <3>1, <3>2 DEF b2
    <2>6. writer = None => draft.pending = db.pending
      BY DEF Transactions
    <2>7. draft.pending <= db.pending \/ draft.pending <= N - 1
      BY <1>3, <2>1, <2>2, <2>6, <1>0
    <2>. QED BY <1>0, <1>2, <1>3, <2>1, <2>2, <2>3, <2>4, <2>5, <2>7
  <1>12. CASE Enters
    <2>1. PICK p \in Process : /\ View(p).pending < N
                               /\ Adding' \subseteq Adding \cup {p}
      BY <1>12 DEF Enters, N
    <2>2. db' = db /\ draft' = draft /\ writer' = writer
      BY <1>12 DEF Enters, sqlVars
    <2>3. CASE writer = p
      <3>1. draft.pending < N
        BY <2>1, <2>3 DEF View
      <3>2. a2 <= a
        BY <1>6, <2>1, <2>2, <2>3
      <3>. QED BY <1>0, <1>2, <1>3, <2>2, <3>1, <3>2
    <2>4. CASE writer # p
      <3>1. db.pending < N
        BY <2>1, <2>4 DEF View
      <3>2. draft.pending <= N - 1 \/ (writer \notin Adding /\ draft.pending <= N)
        BY <1>0, <1>3, <3>1
      <3>3. CASE draft.pending <= N - 1
        BY <1>0, <1>2, <2>2, <3>1, <3>3
      <3>4. CASE ~(draft.pending <= N - 1)
        <4>1. writer \notin Adding /\ draft.pending <= N /\ writer \notin Adding'
          BY <2>1, <2>4, <3>2, <3>4
        <4>2. writer \in Process
          BY <1>0, <3>1, <3>4 DEF Transactions, Base, TypeOK
        <4>3. b2 <= P - 1
          <5>1. Adding' \subseteq Process \ {writer}
            BY <1>0, <4>1
          <5>2. Cardinality(Process \ {writer}) = P - 1
            BY <4>2, FS_RemoveElement, PipelineAssumption DEF P
          <5>. QED BY <1>1, <5>1, <5>2 DEF b2
        <4>. QED BY <1>0, <1>2, <2>2, <3>1, <4>1, <4>3
      <3>. QED BY <3>3, <3>4
    <2>. QED BY <2>3, <2>4
  <1>. QED BY <1>7, <1>8, <1>9, <1>10, <1>11, <1>12, QueueStep

-----------------------------------------------------------------------------
(* The theorems.                                                           *)

\* The parts together are inductive.
Inv == Base /\ Transactions /\ Stored /\ ReceiptBeforeRow /\ Covered /\ Room

\* All tables, buffers and calls are empty at first.
LEMMA InitInv == Init => Inv
  <1> SUFFICES ASSUME Init PROVE Inv
    OBVIOUS
  <1>. USE PipelineAssumption
  <1>0. PICK left \in {0, NotificationCapacity} : db = [ledger |-> {}, count |-> 0, pending |-> left]
    BY DEF Init
  <1>1. db \in Tables /\ draft = db /\ writer = None /\ left \in Nat
    BY <1>0 DEF Init, Tables
  <1>2. Base
    BY <1>1, EmptySeq DEF Init, Base, TypeOK, Calls, Buffers, Control, InIngest, InSummary
  <1>3. Transactions
    BY <1>1 DEF Transactions
  <1>4. Stored /\ ReceiptBeforeRow
    BY DEF Init, Stored, StoredFor, ReceiptBeforeRow, InSummary
  <1>5. Covered
    <2>1. IsFiniteSet({}) /\ Cardinality({}) = 0
      BY FS_EmptySet
    <2>2. db.ledger = {} /\ db.count = 0
      BY <1>0
    <2>3. \A t \in Thread : CoveredFor(t)
      BY DEF Init, CoveredFor
    <2>. QED BY <1>1, <2>1, <2>2, <2>3 DEF Covered, CountNeverAhead
  <1>6. Room
    <2>1. Adding = {} /\ Adding \ {writer} = {}
      BY DEF Init, Adding
    <2>2. Cardinality({}) = 0
      BY FS_EmptySet
    <2>3. Cardinality(Process) \in Nat /\ Cardinality(Process) # 0
      BY FS_EmptySet, FS_CardinalityType
    <2>4. db.pending = left /\ draft.pending = left
      BY <1>0, <1>1
    <2>. QED BY <1>1, <2>1, <2>2, <2>3, <2>4 DEF Room
  <1>. QED BY <1>2, <1>3, <1>4, <1>5, <1>6 DEF Inv

\* The parts of the invariant are inductive together.
LEMMA NextInv == Inv /\ [Next]_vars => Inv'
  BY BaseInductive, LedgerGrows, StoredInductive, ReceiptsInductive, CoveredInductive, RoomInductive
     DEF Inv

\* The invariant holds in every reachable state.
LEMMA SpecInv == Spec => []Inv
  BY InitInv, NextInv, PTL DEF Spec

\* Tables, locks, buffers and control points keep their types in every
\* interleaving of threads, failures and crashes.
THEOREM TypeCorrect == Spec => []TypeOK
  <1>1. Inv => TypeOK
    BY DEF Inv, Base
  <1>. QED BY SpecInv, <1>1, PTL

\* When record_monitor_event writes the row for the notifier, the receipt is
\* durable, or in the emergency buffer unless that is full; for any number of
\* threads and processes, whatever they commit or roll back meanwhile.
THEOREM ReceiptPrecedesRow == Spec => []ReceiptBeforeRow
  <1>1. Inv => ReceiptBeforeRow
    BY DEF Inv
  <1>. QED BY SpecInv, <1>1, PTL

\* However transactions are cut in two, rolled back or lost in a crash, no alert
\* claims more occurrences than it has receipts.
THEOREM CountIsCovered == Spec => []CountNeverAhead
  <1>1. Inv => CountNeverAhead
    BY DEF Inv, Covered
  <1>. QED BY SpecInv, <1>1, PTL

\* n processes that check the capacity of the notification queue before they add
\* an entry exceed it by at most n - 1 entries, summaries, open transactions that
\* no handler rolls back and crashes included.
THEOREM QueueIsBounded == Spec => []PendingBounded
  <1>1. Inv => PendingBounded
    <2> SUFFICES ASSUME Inv PROVE PendingBounded
      OBVIOUS
    <2>1. db.pending \in Nat /\ NotificationCapacity \in Nat
      BY PipelineAssumption, TableTypes DEF Inv, Base, TypeOK
    <2>2. Adding \ {writer} \subseteq Process
      BY DEF Adding
    <2>3. Cardinality(Adding \ {writer}) \in Nat /\ Cardinality(Process) \in Nat
      BY <2>2, PipelineAssumption, FS_Subset, FS_CardinalityType
    <2>4. db.pending + Cardinality(Adding \ {writer}) <= NotificationCapacity + Cardinality(Process) - 1
      BY DEF Inv, Room
    <2>. QED BY <2>1, <2>3, <2>4 DEF PendingBounded
  <1>. QED BY SpecInv, <1>1, PTL
=============================================================================
