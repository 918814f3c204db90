------------------------------ MODULE AlertStore ------------------------------
(***************************************************************************)
(* The durable store of the resilient alert pipeline                       *)
(* (mac_audit_agent/alerts/resilient_store.py): the receipt ledger, the    *)
(* aggregates and the notification queue that ResilientEventStore keeps in *)
(* SQLite.  Every writing method is one transaction, hence one step; a     *)
(* transaction that fails or is cut off by a crash is rolled back and is a *)
(* stuttering step.  Module AlertPipeline models what the calling          *)
(* processes do between transactions.                                      *)
(*                                                                         *)
(* Hash chains, metrics, the audit table and the JSON columns of the       *)
(* aggregates are left out; _storage_pressure is an input of the step.     *)
(***************************************************************************)
EXTENDS Integers, Sequences, FiniteSets

CONSTANTS
    Fingerprint,            \* alert identities (calculate_fingerprints)
    Kind,                   \* what detectors report: a set of KindType records
    NotificationCapacity,   \* notification_capacity
    ProtectedCapacity,      \* protected_capacity
    MaxActive,              \* maximum_active_fingerprints
    RetentionLimit,         \* individual_duplicate_retention_limit
    SummaryThresholds,      \* summary_thresholds
    MaxEvents               \* bound: number of receipts

Severity == 0..4                              \* SEVERITY_RANK, info .. critical

\* Severity, the other material fields, SecurityEvent.protected, and whether an
\* active suppression rule matched (matching_rule skips protected events).
KindType == [sev : Severity, mat : Nat, prot : BOOLEAN, rule : BOOLEAN]

\* The overflow buckets of the two priorities that may overflow.  The bucket key
\* also hashes rule and source, of which the model has one each.
Bucket(priority) == IF priority = 3 THEN "overflow-P3" ELSE "overflow-P4"
Key == Fingerprint \cup {Bucket(3), Bucket(4)}

\* AlertingConfig.validate, which does not relate protected_capacity to
\* notification_capacity; a retention limit below zero acts like zero.
ASSUME KeyAssumption == {Bucket(3), Bucket(4)} \cap Fingerprint = {}
ASSUME KindAssumption == \A k \in Kind : k \in KindType /\ (k.prot => ~k.rule)
ASSUME LimitAssumption ==
    /\ NotificationCapacity \in Nat \ {0} /\ ProtectedCapacity \in Nat \ {0}
    /\ MaxActive \in Nat \ {0} /\ RetentionLimit \in Nat /\ MaxEvents \in Nat
    /\ \A n \in SummaryThresholds : n \in Nat /\ n > 1

VARIABLES
    ledger,     \* resilient_security_events, in sequence_number order
    aggs,       \* resilient_alert_aggregates, by fingerprint
    queue,      \* resilient_notification_queue, UNIQUE(event_id, reason)
    logOnly     \* sequence numbers with a notification_queue_overflow audit record

vars == <<ledger, aggs, queue, logOnly>>

\* Definitions named Faulty... are plausible defects of the definition that
\* follows them; no specification uses them.
FaultyPriority(e) == IF e.prot THEN 0 ELSE 6 - e.sev

\* SecurityEvent.priority
Priority(e) == IF e.prot THEN 0 ELSE CASE e.sev = 4 -> 1 [] e.sev = 3 -> 2
                                       [] e.sev = 2 -> 3 [] OTHER -> 4

\* The material digest covers fingerprint, severity and other material fields.
Material(e) == <<e.fp, e.sev, e.mat>>

NoAggregate == [life |-> "none", count |-> 0, sev |-> 0, high |-> 0,
                material |-> <<>>, compacted |-> 0]
ActiveLife == {"NEW", "ACTIVE", "QUIET", "REOPENED"}
ActiveKeys == {k \in Key : aggs[k].life \in ActiveLife}
Pending == {q \in queue : q.pending}
Rows(k) == {i \in DOMAIN ledger : ledger[i].key = k}

Init ==
    /\ ledger = <<>> /\ aggs = [k \in Key |-> NoAggregate]
    /\ queue = {} /\ logOnly = {}

-----------------------------------------------------------------------------
(* The decision of _ingest_transaction about an event e.                   *)

Overflows(e) ==
    /\ aggs[e.fp].life = "none"
    /\ Cardinality(ActiveKeys) >= MaxActive
    /\ Priority(e) >= 3

StorageKey(e) == IF Overflows(e) THEN Bucket(Priority(e)) ELSE e.fp
Old(e) == aggs[StorageKey(e)]
FaultyKnown(e) == Old(e).life \in ActiveLife
Known(e) == Old(e).life # "none"
FaultyCount(e) == IF Old(e).life = "RESOLVED" THEN 1 ELSE Old(e).count + 1
Count(e) == Old(e).count + 1
Escalates(e) == Known(e) /\ e.sev > Old(e).sev
Changes(e) == Known(e) /\ Material(e) # Old(e).material
FaultyReopens(e) == FALSE
Reopens(e) == Known(e) /\ Old(e).life = "RESOLVED"

\* 10, 100, 1000 by default, then every later power of ten.
Threshold(n) == n \in SummaryThresholds \/ (n > 1000 /\ \E k \in 4..18 : n = 10^k)

Suppressed(e) == e.rule /\ ~e.prot

Notifies(e) ==
    /\ ~Known(e) \/ Escalates(e) \/ Changes(e) \/ Reopens(e) \/ Threshold(Count(e))
    /\ ~Suppressed(e)

Cause(e) ==
    IF ~Known(e) THEN "first_occurrence"
    ELSE IF Escalates(e) THEN "severity_escalation"
    ELSE IF Changes(e) THEN "material_change"
    ELSE IF Reopens(e) THEN "reopened"
    ELSE IF Threshold(Count(e)) THEN "threshold_summary" ELSE "duplicate"

\* disk is "ok", "pressure" (past quota - reserve) or "full" (past the quota).
Disposition(e, disk) ==
    IF disk = "full" /\ Priority(e) > 1 /\ Known(e) THEN "storage_degraded"
    ELSE IF Suppressed(e) THEN "suppressed" ELSE Cause(e)

\* The receipt whose body the SELECT of the compaction picks: the newest raw one
\* beyond the first RetentionLimit receipts whose disposition is not exempt.
Exempt == {"first_occurrence", "threshold_summary", "severity_escalation",
           "material_change", "reopened"}
InitialRows == IF RetentionLimit = 0 THEN 1 ELSE RetentionLimit
FaultyCompactable(k) == {i \in Rows(k) : ledger[i].raw /\ ledger[i].disp \notin Exempt}
FaultyCompactableExempt(k) ==
    {i \in Rows(k) : ledger[i].raw /\ Cardinality({j \in Rows(k) : j < i}) >= InitialRows}
Compactable(k) ==
    {i \in Rows(k) : /\ ledger[i].raw /\ ledger[i].disp \notin Exempt
                     /\ Cardinality({j \in Rows(k) : j < i}) >= InitialRows}

Compacts(e, disk) ==
    /\ Known(e) /\ ~Notifies(e) /\ ~e.prot
    /\ Count(e) > RetentionLimit \/ disk # "ok"
    /\ Compactable(StorageKey(e)) # {}

Victim(k) == CHOOSE i \in Compactable(k) : \A j \in Compactable(k) : j <= i

Receipt(e, disk) ==
    [key |-> StorageKey(e), sev |-> e.sev, prot |-> e.prot, rule |-> e.rule,
     cause |-> Cause(e), disp |-> Disposition(e, disk), raw |-> TRUE]

Aggregate(e, disk) ==
    [life |-> IF Reopens(e) THEN "REOPENED" ELSE IF Known(e) THEN "ACTIVE" ELSE "NEW",
     count |-> Count(e), sev |-> e.sev,
     high |-> IF e.sev >= Old(e).high THEN e.sev ELSE Old(e).high,
     material |-> Material(e),
     compacted |-> Old(e).compacted + (IF Compacts(e, disk) THEN 1 ELSE 0)]

\* Without the slots kept for P0 and P1.
FaultyHasRoomReserve(e) == Cardinality(Pending) < NotificationCapacity

\* Room in the notification queue, part of it kept for P0 and P1.
HasRoom(e) ==
    LET pending == Cardinality(Pending)
    IN  /\ Priority(e) <= 1 \/ pending < NotificationCapacity - ProtectedCapacity
        /\ pending < NotificationCapacity

\* The same with UNIQUE(fingerprint, reason).
FaultyInsert(seq, key, prio, reason) ==
    IF \E q \in queue : q.key = key /\ q.reason = reason THEN queue
    ELSE queue \cup {[seq |-> seq, key |-> key, prio |-> prio, reason |-> reason,
                      pending |-> TRUE]}

\* INSERT OR IGNORE under UNIQUE(event_id, reason).
Insert(seq, key, prio, reason) ==
    IF \E q \in queue : q.seq = seq /\ q.reason = reason THEN queue
    ELSE queue \cup {[seq |-> seq, key |-> key, prio |-> prio, reason |-> reason,
                      pending |-> TRUE]}

-----------------------------------------------------------------------------
(* The transactions.                                                       *)

\* ingest of an event with a new event_id (a known one leaves the tables as
\* they are).
ingest(fp, kind, disk) ==
    LET e == [fp |-> fp, sev |-> kind.sev, mat |-> kind.mat, prot |-> kind.prot,
              rule |-> kind.rule]
        k == StorageKey(e)
        seq == Len(ledger) + 1
        kept == IF Compacts(e, disk) THEN [ledger EXCEPT ![Victim(k)].raw = FALSE]
                ELSE ledger
    IN  /\ seq <= MaxEvents
        /\ ledger' = Append(kept, Receipt(e, disk))
        /\ aggs' = [aggs EXCEPT ![k] = Aggregate(e, disk)]
        /\ queue' = IF Notifies(e) /\ HasRoom(e)
                    THEN Insert(seq, k, Priority(e), Disposition(e, disk)) ELSE queue
        /\ logOnly' = IF Notifies(e) /\ ~HasRoom(e) THEN logOnly \cup {seq} ELSE logOnly

RowNotified(r) == r.cause # "duplicate" /\ ~(r.rule /\ ~r.prot)

\* queue_periodic_summary, which ingest_background_event calls for a receipt that
\* did not notify once the interval since the last notification of the same
\* fingerprint has passed.
queue_periodic_summary(i) ==
    /\ ~RowNotified(ledger[i])
    /\ \E j \in 1..i-1 : ledger[j].key = ledger[i].key /\ RowNotified(ledger[j])
    /\ Cardinality(Pending) < NotificationCapacity
    /\ queue' = Insert(i, ledger[i].key, Priority(ledger[i]), "periodic_summary")
    /\ UNCHANGED <<ledger, aggs, logOnly>>

\* Delivered or failed: in either case no longer pending.
mark_notification(q) ==
    /\ queue' = (queue \ {q}) \cup {[q EXCEPT !.pending = FALSE]}
    /\ UNCHANGED <<ledger, aggs, logOnly>>

\* Every alert that is not resolved stays, becomes quiet or becomes resolved by
\* the age of its last_seen; a quiet one does not become active again here.
advance_lifecycle(quiet, resolved) ==
    /\ aggs' = [k \in Key |-> IF k \in quiet THEN [aggs[k] EXCEPT !.life = "QUIET"]
                ELSE IF k \in resolved THEN [aggs[k] EXCEPT !.life = "RESOLVED"]
                ELSE aggs[k]]
    /\ UNCHANGED <<ledger, queue, logOnly>>

Next ==
    \/ \E fp \in Fingerprint, kind \in Kind, disk \in {"ok", "pressure", "full"} :
            ingest(fp, kind, disk)
    \/ \E i \in DOMAIN ledger : queue_periodic_summary(i)
    \/ \E q \in Pending : mark_notification(q)
    \/ \E quiet \in SUBSET ActiveKeys : \E resolved \in SUBSET (ActiveKeys \ quiet) :
            advance_lifecycle(quiet, resolved)

Spec == Init /\ [][Next]_vars

-----------------------------------------------------------------------------
(* Properties.                                                             *)

\* Receipts, aggregates and queue entries keep their types, and every queue entry
\* and audit record refers to a stored receipt.
TypeOK ==
    /\ ledger \in Seq([key : Key, sev : Severity, prot : BOOLEAN, rule : BOOLEAN,
                       cause : Exempt \cup {"duplicate"}, raw : BOOLEAN,
                       disp : Exempt \cup {"duplicate", "suppressed", "storage_degraded"}])
    /\ aggs \in [Key -> [life : ActiveLife \cup {"none", "RESOLVED"}, count : Nat,
                         sev : Severity, high : Severity, compacted : Nat,
                         material : {<<>>} \cup (Fingerprint \X Severity \X Nat)]]
    /\ \A q \in queue : /\ q.seq \in DOMAIN ledger /\ q.key \in Key
                        /\ q.prio \in 0..4 /\ q.pending \in BOOLEAN
    /\ logOnly \subseteq DOMAIN ledger

\* "Exact duplicates keep the first raw event and newest raw event": whatever is
\* compacted, the first RetentionLimit receipts and the newest receipt of every
\* fingerprint keep their bodies.
FirstAndLatestRaw ==
    \A i \in DOMAIN ledger :
        LET rows == Rows(ledger[i].key) IN
        (Cardinality({j \in rows : j < i}) < InitialRows \/ \A j \in rows : j <= i)
            => ledger[i].raw

\* An aggregate tells the truth about its receipts, through duplicates, overflow
\* buckets, compaction and reopening: their number, the number whose bodies are
\* gone, and the highest severity ever reported.
AggregateMatchesLedger ==
    \A k \in Key :
        /\ aggs[k].count = Cardinality(Rows(k))
        /\ aggs[k].compacted = Cardinality({i \in Rows(k) : ~ledger[i].raw})
        /\ \A i \in Rows(k) : ledger[i].sev <= aggs[k].high
        /\ Rows(k) # {} => \E i \in Rows(k) : ledger[i].sev = aggs[k].high

\* The first notification of an alert is queued at most once, whatever happens
\* to the alert afterwards.
OneFirstNotification ==
    \A k \in Key :
        Cardinality({q \in queue : q.key = k /\ q.reason = "first_occurrence"}) <= 1

\* Nothing that calls for a notification disappears silently: a stored receipt
\* that was new, escalated, changed, reopened or at a threshold, and was not
\* suppressed, has a queue entry or an overflow audit record.
NotableIsAccounted ==
    \A i \in DOMAIN ledger :
        RowNotified(ledger[i]) => (\E q \in queue : q.seq = i) \/ i \in logOnly

\* "500 slots reserved from ordinary low-priority use": what ingest queues for P2
\* and lower leaves the reserve free, whatever was queued and delivered before.
\* Periodic summaries are not held to it: queue_periodic_summary compares with
\* the whole capacity.
ReserveLeft ==
    Cardinality({q \in Pending : q.prio > 1 /\ q.reason # "periodic_summary"})
        <= IF NotificationCapacity > ProtectedCapacity
           THEN NotificationCapacity - ProtectedCapacity ELSE 0

\* The ledger is append-only and receipts are immutable, except that a step may
\* clear the body of one exact duplicate, suppressed or quota-degraded receipt.
LedgerAppendOnly ==
    [][/\ Len(ledger') >= Len(ledger)
       /\ \A i \in DOMAIN ledger :
            \/ ledger'[i] = ledger[i]
            \/ /\ ledger'[i] = [ledger[i] EXCEPT !.raw = FALSE]
               /\ ledger[i].disp \notin Exempt
       /\ Cardinality({i \in DOMAIN ledger : ledger'[i] # ledger[i]}) <= 1]_vars

\* A resolved alert becomes active again only by being reopened, together with a
\* receipt of its own that calls for a notification unless suppressed.
ResolvedUntilReopened ==
    [][\A k \in Key :
        (aggs[k].life = "RESOLVED" /\ aggs'[k].life # "RESOLVED") =>
            /\ aggs'[k].life = "REOPENED"
            /\ Len(ledger') = Len(ledger) + 1
            /\ ledger'[Len(ledger')].key = k
            /\ ledger'[Len(ledger')].cause # "duplicate"]_vars

-----------------------------------------------------------------------------
(* A statement of the repository's documentation that the code does not    *)
(* keep; README.md describes how.                                          *)

\* docs/alert_pipeline/ARCHITECTURE.md: "Initial-policy, threshold,
\* material-change, escalation, reopened, and protected records remain raw".
\* The compaction's SELECT does not look at the protected column.
ProtectedStaysRaw == \A i \in DOMAIN ledger : ledger[i].prot => ledger[i].raw
=============================================================================
