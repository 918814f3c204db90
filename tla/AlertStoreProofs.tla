--------------------------- MODULE AlertStoreProofs ---------------------------
(***************************************************************************)
(* Proofs about AlertStore, for every set of fingerprints and kinds, every *)
(* capacity, retention limit and threshold, and any number of receipts.    *)
(*                                                                         *)
(* What the runs check is not inductive as it stands.  Inv adds what the   *)
(* tables relate between them: the queue is a finite set of entries, a key *)
(* without an aggregate has the empty one, an aggregate has counted its    *)
(* receipt, and a first notification belongs to a key that has one.        *)
(***************************************************************************)
EXTENDS AlertStore, FiniteSetTheorems, SequenceTheorems, WellFoundedInduction, TLAPS

Event == [fp : Fingerprint, sev : Severity, mat : Nat, prot : BOOLEAN, rule : BOOLEAN]
Causes == Exempt \cup {"duplicate"}
Dispositions == Causes \cup {"suppressed", "storage_degraded"}
Row == [key : Key, sev : Severity, prot : BOOLEAN, rule : BOOLEAN, cause : Causes,
        raw : BOOLEAN, disp : Dispositions]
AggregateType == [life : ActiveLife \cup {"none", "RESOLVED"}, count : Nat,
                  sev : Severity, high : Severity, compacted : Nat,
                  material : {<<>>} \cup (Fingerprint \X Severity \X Nat)]
Entry == [seq : Nat, key : Key, prio : 0..4, pending : BOOLEAN,
          reason : Dispositions \cup {"periodic_summary"}]

\* The notification queue is a finite set of well-formed entries.
QueueFinite == queue \subseteq Entry /\ IsFiniteSet(queue)

\* A key without an aggregate has never been counted; any other one has.
CountedWhenKnown ==
    \A k \in Key : IF aggs[k].life = "none" THEN aggs[k] = NoAggregate
                   ELSE aggs[k].count > 0

\* First notifications belong to keys with an aggregate, at most one to each.
FirstUnique ==
    /\ \A q \in queue : q.reason = "first_occurrence" => aggs[q.key].life # "none"
    /\ \A p, q \in queue : (/\ p.reason = "first_occurrence"
                            /\ q.reason = "first_occurrence"
                            /\ p.key = q.key) => p = q

Inv ==
    /\ TypeOK /\ QueueFinite /\ CountedWhenKnown /\ FirstUnique
    /\ NotableIsAccounted /\ ReserveLeft /\ FirstAndLatestRaw /\ AggregateMatchesLedger

-----------------------------------------------------------------------------
(* Facts about the operators of the decision.                              *)

\* TypeOK with its record sets named.
LEMMA TypeOKNamed ==
  TypeOK <=> /\ ledger \in Seq(Row)
             /\ aggs \in [Key -> AggregateType]
             /\ \A q \in queue : /\ q.seq \in DOMAIN ledger /\ q.key \in Key
                                 /\ q.prio \in 0..4 /\ q.pending \in BOOLEAN
             /\ logOnly \subseteq DOMAIN ledger
  <1>1. Row = [key : Key, sev : Severity, prot : BOOLEAN, rule : BOOLEAN,
                       cause : Exempt \cup {"duplicate"}, raw : BOOLEAN,
                       disp : Exempt \cup {"duplicate", "suppressed", "storage_degraded"}]
    <2>1. Dispositions = Exempt \cup {"duplicate", "suppressed", "storage_degraded"}
      BY DEF Dispositions, Causes
    <2>. QED BY <2>1 DEF Row, Causes
  <1>. QED BY <1>1 DEF TypeOK, AggregateType

\* Whatever the event, the decision has a priority, an existing key, a cause and
\* a disposition, and what it writes is well typed.
LEMMA DecisionTypes ==
  ASSUME TypeOK, NEW e \in Event, NEW disk
  PROVE  /\ Priority(e) \in 0..4
         /\ StorageKey(e) \in Key
         /\ Old(e) \in AggregateType
         /\ Cause(e) \in Causes
         /\ Disposition(e, disk) \in Dispositions
         /\ Receipt(e, disk) \in Row
         /\ Aggregate(e, disk) \in AggregateType
  <1>0. /\ e.fp \in Fingerprint /\ e.sev \in Severity /\ e.mat \in Nat
        /\ e.prot \in BOOLEAN /\ e.rule \in BOOLEAN
    BY DEF Event
  <1>1. Priority(e) \in 0..4
    BY <1>0 DEF Priority, Severity
  <1>2. StorageKey(e) \in Key
    <2>1. Overflows(e) => Priority(e) \in {3, 4}
      BY <1>1 DEF Overflows
    <2>. QED BY <1>0, <2>1 DEF StorageKey, Key, Bucket
  <1>3. Old(e) \in AggregateType
    BY <1>2, TypeOKNamed DEF Old
  <1>4. Cause(e) \in Causes
    BY DEF Cause, Causes, Exempt
  <1>5. Disposition(e, disk) \in Dispositions
    BY <1>4 DEF Disposition, Dispositions
  <1>6. Receipt(e, disk) \in Row
    BY <1>0, <1>2, <1>4, <1>5 DEF Receipt, Row
  <1>7. Material(e) \in {<<>>} \cup (Fingerprint \X Severity \X Nat)
    BY <1>0 DEF Material
  <1>8. /\ Old(e).count \in Nat /\ Old(e).high \in Severity /\ Old(e).compacted \in Nat
    BY <1>3 DEF AggregateType
  <1>9. /\ Count(e) \in Nat
        /\ (IF e.sev >= Old(e).high THEN e.sev ELSE Old(e).high) \in Severity
        /\ Old(e).compacted + (IF Compacts(e, disk) THEN 1 ELSE 0) \in Nat
    BY <1>0, <1>8 DEF Count
  <1>10. (IF Reopens(e) THEN "REOPENED" ELSE IF Known(e) THEN "ACTIVE" ELSE "NEW")
           \in ActiveLife \cup {"none", "RESOLVED"}
    BY DEF ActiveLife
  <1>11. Aggregate(e, disk) \in AggregateType
    BY <1>0, <1>7, <1>9, <1>10 DEF Aggregate, AggregateType
  <1>. QED BY <1>1, <1>2, <1>3, <1>4, <1>5, <1>6, <1>11

\* A nonempty set of positions of a sequence has a last one.
LEMMA LastExists ==
  ASSUME NEW n \in Nat, NEW S, S \subseteq 1..n, S # {}
  PROVE  \E i \in S : \A j \in S : j <= i
  <1>. DEFINE T == {n - i : i \in S}
  <1>0. \A i \in S : i \in 1..n /\ n - i \in Nat
    OBVIOUS
  <1>1. T \subseteq Nat /\ T # {}
    BY <1>0
  <1>2. PICK m \in T : \A y \in T : ~(<<y, m>> \in OpToRel(<, Nat))
    BY <1>1, NatLessThanWellFounded, WFMin
  <1>3. \A y \in T : ~(y < m)
    BY <1>1, <1>2 DEF OpToRel
  <1>4. PICK i \in S : m = n - i
    BY <1>2
  <1>5. ASSUME NEW j \in S PROVE j <= i
    <2>1. n - j \in T /\ i \in 1..n /\ j \in 1..n
      OBVIOUS
    <2>2. ~(n - j < n - i)
      BY <1>3, <1>4, <2>1
    <2>. QED BY <2>1, <2>2
  <1>. QED BY <1>4, <1>5

\* What compaction picks is one of the receipts it may pick.
LEMMA VictimIsCompactable ==
  ASSUME TypeOK, NEW k, Compactable(k) # {}
  PROVE  Victim(k) \in Compactable(k)
  <1>1. ledger \in Seq(Row)
    BY TypeOKNamed
  <1>2. Len(ledger) \in Nat /\ Compactable(k) \subseteq 1..Len(ledger)
    BY <1>1 DEF Compactable, Rows
  <1>3. \E i \in Compactable(k) : \A j \in Compactable(k) : j <= i
    BY <1>2, LastExists
  <1>. QED BY <1>3 DEF Victim

-----------------------------------------------------------------------------
(* What the transactions do to the tables.                                 *)

\* The ledger after an event e was stored: one new receipt at the end, and at
\* most the body of the picked receipt cleared.
Stores(e, disk) ==
    LET n == Len(ledger) IN
    /\ ledger' \in Seq(Row) /\ Len(ledger') = n + 1
    /\ ledger'[n + 1] = Receipt(e, disk)
    /\ \A i \in 1..n :
         ledger'[i] = IF Compacts(e, disk) /\ i = Victim(StorageKey(e))
                      THEN [ledger[i] EXCEPT !.raw = FALSE] ELSE ledger[i]
    /\ Compacts(e, disk) => Victim(StorageKey(e)) \in Compactable(StorageKey(e))

\* The queue and the audit after it.
Announces(e, disk) ==
    LET n == Len(ledger) IN
    /\ queue' = IF Notifies(e) /\ HasRoom(e)
                THEN Insert(n + 1, StorageKey(e), Priority(e), Disposition(e, disk))
                ELSE queue
    /\ logOnly' = IF Notifies(e) /\ ~HasRoom(e) THEN logOnly \cup {n + 1} ELSE logOnly

\* What one transaction of _ingest_transaction does to the three tables, for the
\* event it was given.
LEMMA IngestStep ==
  ASSUME TypeOK, NEW fp \in Fingerprint, NEW kind \in Kind, NEW disk,
         ingest(fp, kind, disk)
  PROVE  \E e \in Event :
            /\ Stores(e, disk) /\ Announces(e, disk)
            /\ aggs' = [aggs EXCEPT ![StorageKey(e)] = Aggregate(e, disk)]
  <1>. DEFINE e == [fp |-> fp, sev |-> kind.sev, mat |-> kind.mat, prot |-> kind.prot,
                    rule |-> kind.rule]
              k == StorageKey(e)
              n == Len(ledger)
              kept == IF Compacts(e, disk) THEN [ledger EXCEPT ![Victim(k)].raw = FALSE]
                      ELSE ledger
  <1>1. e \in Event
    BY KindAssumption DEF Event, KindType
  <1>2. /\ ledger' = Append(kept, Receipt(e, disk))
        /\ aggs' = [aggs EXCEPT ![k] = Aggregate(e, disk)]
        /\ Announces(e, disk)
    BY DEF ingest, Announces
  <1>3. ledger \in Seq(Row) /\ n \in Nat
    BY TypeOKNamed
  <1>4. Receipt(e, disk) \in Row
    BY <1>1, DecisionTypes
  <1>. HIDE DEF e
  <1>5. Compacts(e, disk) => Victim(k) \in Compactable(k) /\ Victim(k) \in 1..n
    <2>1. Compacts(e, disk) => Victim(k) \in Compactable(k)
      BY VictimIsCompactable DEF Compacts
    <2>2. Compactable(k) \subseteq 1..n
      BY <1>3 DEF Compactable, Rows
    <2>. QED BY <2>1, <2>2
  <1>6. /\ kept \in Seq(Row) /\ Len(kept) = n
        /\ \A i \in 1..n : kept[i] = IF Compacts(e, disk) /\ i = Victim(k)
                                     THEN [ledger[i] EXCEPT !.raw = FALSE] ELSE ledger[i]
    <2>1. CASE Compacts(e, disk)
      <3>1. [ledger[Victim(k)] EXCEPT !.raw = FALSE] \in Row
        <4>1. ledger[Victim(k)] \in Row
          BY <1>3, <1>5, <2>1
        <4>. QED BY <4>1 DEF Row
      <3>2. kept = [ledger EXCEPT ![Victim(k)] = [ledger[Victim(k)] EXCEPT !.raw = FALSE]]
        BY <2>1
      <3>. HIDE DEF kept, k
      <3>. DEFINE r == [ledger[Victim(k)] EXCEPT !.raw = FALSE]
      <3>3. r \in Row /\ kept = [ledger EXCEPT ![Victim(k)] = r]
        BY <3>1, <3>2
      <3>4. \A i \in 1..n : i = Victim(k) => r = [ledger[i] EXCEPT !.raw = FALSE]
        OBVIOUS
      <3>. HIDE DEF r
      <3>5. /\ kept \in Seq(Row) /\ Len(kept) = n
            /\ \A i \in 1..n : kept[i] = IF i = Victim(k) THEN r ELSE ledger[i]
        BY <1>3, <1>5, <2>1, <3>3, ExceptSeq
      <3>. QED BY <2>1, <3>4, <3>5
    <2>2. CASE ~Compacts(e, disk)
      BY <1>3, <2>2
    <2>. QED BY <2>1, <2>2
  <1>. HIDE DEF kept
  <1>7. /\ Append(kept, Receipt(e, disk)) \in Seq(Row)
        /\ Len(Append(kept, Receipt(e, disk))) = n + 1
        /\ Append(kept, Receipt(e, disk))[n + 1] = Receipt(e, disk)
        /\ \A i \in 1..n : Append(kept, Receipt(e, disk))[i] = kept[i]
    BY <1>3, <1>4, <1>6, AppendProperties
  <1>8. Stores(e, disk)
    BY <1>2, <1>5, <1>6, <1>7 DEF Stores
  <1>. QED BY <1>1, <1>2, <1>8

\* The receipts of a key, after an event was stored.
LEMMA RowsStep ==
  ASSUME TypeOK, NEW e \in Event, NEW disk, Stores(e, disk)
  PROVE  /\ ledger \in Seq(Row) /\ Len(ledger) \in Nat
         /\ DOMAIN ledger = 1..Len(ledger) /\ DOMAIN ledger' = 1..Len(ledger)+1
         /\ \A i \in 1..Len(ledger) :
              /\ ledger[i] \in Row
              /\ ledger'[i].key = ledger[i].key /\ ledger'[i].sev = ledger[i].sev
              /\ RowNotified(ledger'[i]) = RowNotified(ledger[i])
         /\ \A k : Rows(k)' = IF k = StorageKey(e) THEN Rows(k) \cup {Len(ledger) + 1}
                              ELSE Rows(k)
         /\ \A k : Rows(k) \subseteq 1..Len(ledger) /\ IsFiniteSet(Rows(k))
  <1>. DEFINE n == Len(ledger)
  <1>1. ledger \in Seq(Row) /\ n \in Nat /\ DOMAIN ledger = 1..n /\ DOMAIN ledger' = 1..n+1
    BY TypeOKNamed DEF Stores
  <1>2. \A i \in 1..n : ledger[i] \in Row
    BY <1>1
  <1>3. ASSUME NEW i \in 1..n
        PROVE  /\ ledger'[i].key = ledger[i].key /\ ledger'[i].sev = ledger[i].sev
               /\ RowNotified(ledger'[i]) = RowNotified(ledger[i])
    <2>1. ledger'[i] = ledger[i] \/ ledger'[i] = [ledger[i] EXCEPT !.raw = FALSE]
      BY DEF Stores
    <2>2. /\ ledger'[i].key = ledger[i].key /\ ledger'[i].sev = ledger[i].sev
          /\ ledger'[i].cause = ledger[i].cause /\ ledger'[i].rule = ledger[i].rule
          /\ ledger'[i].prot = ledger[i].prot
      BY <1>2, <2>1 DEF Row
    <2>. QED BY <2>2 DEF RowNotified
  <1>4. ledger'[n + 1].key = StorageKey(e)
    BY DEF Stores, Receipt
  <1>5. ASSUME NEW k
        PROVE  Rows(k)' = IF k = StorageKey(e) THEN Rows(k) \cup {n + 1} ELSE Rows(k)
    <2>1. Rows(k) = {i \in 1..n : ledger[i].key = k}
      BY <1>1 DEF Rows
    <2>2. Rows(k)' = {i \in 1..n+1 : ledger'[i].key = k}
      BY <1>1 DEF Rows
    <2>3. 1..n+1 = 1..n \cup {n + 1}
      BY <1>1
    <2>. QED BY <1>3, <1>4, <2>1, <2>2, <2>3
  <1>6. ASSUME NEW k PROVE Rows(k) \subseteq 1..n /\ IsFiniteSet(Rows(k))
    <2>1. Rows(k) \subseteq 1..n
      BY <1>1 DEF Rows
    <2>2. 1 \in Int /\ n \in Int
      BY <1>1
    <2>3. IsFiniteSet(1..n)
      BY <2>2, FS_Interval
    <2>. QED BY <2>1, <2>3, FS_Subset
  <1>. QED BY <1>1, <1>2, <1>3, <1>5, <1>6

NewEntry(seq, key, prio, reason) ==
    [seq |-> seq, key |-> key, prio |-> prio, reason |-> reason, pending |-> TRUE]

\* INSERT OR IGNORE adds an entry unless one with its receipt and reason is there.
LEMMA InsertProperties ==
  ASSUME QueueFinite, NEW seq \in Nat, NEW key \in Key, NEW prio \in 0..4,
         NEW reason \in Dispositions \cup {"periodic_summary"}
  PROVE  /\ NewEntry(seq, key, prio, reason) \in Entry
         /\ \/ Insert(seq, key, prio, reason) = queue
            \/ Insert(seq, key, prio, reason) = queue \cup {NewEntry(seq, key, prio, reason)}
         /\ queue \subseteq Insert(seq, key, prio, reason)
         /\ Insert(seq, key, prio, reason) \subseteq Entry
         /\ IsFiniteSet(Insert(seq, key, prio, reason))
         /\ \E q \in Insert(seq, key, prio, reason) : q.seq = seq
  <1>. DEFINE new == NewEntry(seq, key, prio, reason)
  <1>1. new \in Entry /\ new.seq = seq
    BY DEF NewEntry, Entry
  <1>2. CASE \E q \in queue : q.seq = seq /\ q.reason = reason
    BY <1>1, <1>2 DEF Insert, QueueFinite
  <1>3. CASE ~\E q \in queue : q.seq = seq /\ q.reason = reason
    <2>1. Insert(seq, key, prio, reason) = queue \cup {new}
      BY <1>3 DEF Insert, NewEntry
    <2>2. IsFiniteSet(queue \cup {new})
      BY FS_AddElement DEF QueueFinite
    <2>. HIDE DEF new
    <2>3. /\ queue \cup {new} \subseteq Entry /\ new \in queue \cup {new}
      BY <1>1 DEF QueueFinite
    <2>. QED BY <1>1, <2>1, <2>2, <2>3 DEF new
  <1>. QED BY <1>2, <1>3

\* Marking replaces an entry by the same one, no longer pending.
LEMMA MarkProperties ==
  ASSUME QueueFinite, NEW q \in Pending, mark_notification(q)
  PROVE  /\ q \in queue /\ q \in Entry /\ [q EXCEPT !.pending = FALSE] \in Entry
         /\ [q EXCEPT !.pending = FALSE].key = q.key
         /\ [q EXCEPT !.pending = FALSE].seq = q.seq
         /\ [q EXCEPT !.pending = FALSE].reason = q.reason
         /\ [q EXCEPT !.pending = FALSE].pending = FALSE
         /\ queue' = (queue \ {q}) \cup {[q EXCEPT !.pending = FALSE]}
         /\ queue' \subseteq Entry /\ IsFiniteSet(queue')
  <1>1. q \in queue /\ q \in Entry
    BY DEF Pending, QueueFinite
  <1>. DEFINE r == [q EXCEPT !.pending = FALSE]
  <1>2. /\ r \in Entry /\ r.key = q.key /\ r.seq = q.seq /\ r.reason = q.reason
        /\ r.pending = FALSE
    BY <1>1 DEF Entry
  <1>3. queue' = (queue \ {q}) \cup {r}
    BY DEF mark_notification
  <1>. HIDE DEF r
  <1>4. IsFiniteSet((queue \ {q}) \cup {r})
    BY FS_AddElement, FS_RemoveElement DEF QueueFinite
  <1>5. queue' \subseteq Entry
    BY <1>2, <1>3 DEF QueueFinite
  <1>. QED BY <1>1, <1>2, <1>3, <1>4, <1>5 DEF r

\* Only ingest writes the ledger.
LEMMA LedgerKept ==
  /\ \A i : queue_periodic_summary(i) => ledger' = ledger /\ aggs' = aggs /\ logOnly' = logOnly
  /\ \A q : mark_notification(q) => ledger' = ledger /\ aggs' = aggs /\ logOnly' = logOnly
  /\ \A a, b : advance_lifecycle(a, b) => ledger' = ledger /\ queue' = queue /\ logOnly' = logOnly
  /\ UNCHANGED vars => /\ ledger' = ledger /\ aggs' = aggs /\ queue' = queue /\ logOnly' = logOnly
  BY DEF queue_periodic_summary, mark_notification, advance_lifecycle, vars

\* A periodic summary is inserted for a stored receipt.
LEMMA SummaryTypes ==
  ASSUME TypeOK, NEW i \in DOMAIN ledger
  PROVE  /\ i \in Nat /\ ledger[i].key \in Key /\ Priority(ledger[i]) \in 0..4
  <1>1. ledger[i] \in Row /\ i \in Nat
    BY TypeOKNamed
  <1>. QED BY <1>1 DEF Row, Priority, Severity

-----------------------------------------------------------------------------
(* Each part of the invariant is kept by every step.                       *)

\* Every transaction keeps the types, and the queue finite.
LEMMA TypeInductive ==
  ASSUME TypeOK, QueueFinite, [Next]_vars PROVE TypeOK' /\ QueueFinite'
  <1>0. /\ ledger \in Seq(Row) /\ aggs \in [Key -> AggregateType]
        /\ \A q \in queue : /\ q.seq \in DOMAIN ledger /\ q.key \in Key
                            /\ q.prio \in 0..4 /\ q.pending \in BOOLEAN
        /\ logOnly \subseteq DOMAIN ledger
    BY TypeOKNamed
  <1>. DEFINE Typed == /\ ledger' \in Seq(Row) /\ aggs' \in [Key -> AggregateType]
                       /\ queue' \subseteq Entry
                       /\ \A q \in queue' : q.seq \in DOMAIN ledger'
                       /\ logOnly' \subseteq DOMAIN ledger'
                       /\ IsFiniteSet(queue')
  <1>1. Typed => TypeOK' /\ QueueFinite'
    <2> SUFFICES ASSUME Typed PROVE TypeOK' /\ QueueFinite'
      OBVIOUS
    <2>1. \A q \in queue' : q.key \in Key /\ q.prio \in 0..4 /\ q.pending \in BOOLEAN
      BY DEF Entry
    <2>2. Row = [key : Key, sev : Severity, prot : BOOLEAN, rule : BOOLEAN,
                 cause : Exempt \cup {"duplicate"}, raw : BOOLEAN,
                 disp : Exempt \cup {"duplicate", "suppressed", "storage_degraded"}]
      <3>1. Dispositions = Exempt \cup {"duplicate", "suppressed", "storage_degraded"}
        BY DEF Dispositions, Causes
      <3>. QED BY <3>1 DEF Row, Causes
    <2>. QED BY <2>1, <2>2 DEF TypeOK, QueueFinite, AggregateType
  <1>2. ASSUME NEW fp \in Fingerprint, NEW kind \in Kind, NEW disk, ingest(fp, kind, disk)
        PROVE  Typed
    <2>1. PICK e \in Event :
            /\ Stores(e, disk) /\ Announces(e, disk)
            /\ aggs' = [aggs EXCEPT ![StorageKey(e)] = Aggregate(e, disk)]
      BY <1>2, IngestStep
    <2>2. /\ Len(ledger) \in Nat /\ DOMAIN ledger = 1..Len(ledger)
          /\ DOMAIN ledger' = 1..Len(ledger)+1
      BY <2>1, RowsStep
    <2>3. /\ Priority(e) \in 0..4 /\ StorageKey(e) \in Key /\ Disposition(e, disk) \in Dispositions
          /\ Aggregate(e, disk) \in AggregateType
      BY DecisionTypes
    <2>4. ledger' \in Seq(Row) /\ aggs' \in [Key -> AggregateType]
      BY <1>0, <2>1, <2>3 DEF Stores
    <2>5. logOnly' \subseteq DOMAIN ledger'
      BY <1>0, <2>1, <2>2 DEF Announces
    <2>6. /\ queue' \subseteq Entry /\ IsFiniteSet(queue')
          /\ \A q \in queue' : q \in queue \/ q.seq = Len(ledger) + 1
      <3>1. CASE Notifies(e) /\ HasRoom(e)
        <4>. DEFINE n == Len(ledger)
                    new == NewEntry(n + 1, StorageKey(e), Priority(e), Disposition(e, disk))
        <4>1. queue' = Insert(n + 1, StorageKey(e), Priority(e), Disposition(e, disk))
          BY <2>1, <3>1 DEF Announces
        <4>2. n + 1 \in Nat /\ new.seq = n + 1
          BY <2>2 DEF NewEntry
        <4>3. /\ queue' = queue \/ queue' = queue \cup {new}
              /\ queue' \subseteq Entry /\ IsFiniteSet(queue')
          BY <2>3, <4>1, <4>2, InsertProperties
        <4>. HIDE DEF new
        <4>. QED BY <4>2, <4>3
      <3>2. CASE ~(Notifies(e) /\ HasRoom(e))
        BY <2>1, <3>2 DEF Announces, QueueFinite
      <3>. QED BY <3>1, <3>2
    <2>. QED BY <1>0, <2>2, <2>4, <2>5, <2>6
  <1>3. ASSUME NEW i \in DOMAIN ledger, queue_periodic_summary(i) PROVE Typed
    <2>. DEFINE new == NewEntry(i, ledger[i].key, Priority(ledger[i]), "periodic_summary")
    <2>1. queue' = Insert(i, ledger[i].key, Priority(ledger[i]), "periodic_summary")
      BY <1>3 DEF queue_periodic_summary
    <2>2. new.seq = i
      BY DEF NewEntry
    <2>3. /\ queue' = queue \/ queue' = queue \cup {new}
          /\ queue' \subseteq Entry /\ IsFiniteSet(queue')
      BY <2>1, SummaryTypes, InsertProperties
    <2>. HIDE DEF new
    <2>. QED BY <1>0, <1>3, <2>2, <2>3, LedgerKept
  <1>4. ASSUME NEW q \in Pending, mark_notification(q) PROVE Typed
    <2>. DEFINE r == [q EXCEPT !.pending = FALSE]
    <2>1. /\ q \in queue /\ r.seq = q.seq /\ queue' = (queue \ {q}) \cup {r}
          /\ queue' \subseteq Entry /\ IsFiniteSet(queue')
      BY <1>4, MarkProperties
    <2>. HIDE DEF r
    <2>. QED BY <1>0, <1>4, <2>1, LedgerKept
  <1>5. ASSUME NEW quiet \in SUBSET ActiveKeys, NEW resolved \in SUBSET (ActiveKeys \ quiet),
               advance_lifecycle(quiet, resolved)
        PROVE  Typed
    <2>1. aggs' = [k \in Key |-> IF k \in quiet THEN [aggs[k] EXCEPT !.life = "QUIET"]
                   ELSE IF k \in resolved THEN [aggs[k] EXCEPT !.life = "RESOLVED"]
                   ELSE aggs[k]]
      BY <1>5 DEF advance_lifecycle
    <2>2. ASSUME NEW k \in Key
          PROVE  /\ aggs[k] \in AggregateType
                 /\ [aggs[k] EXCEPT !.life = "QUIET"] \in AggregateType
                 /\ [aggs[k] EXCEPT !.life = "RESOLVED"] \in AggregateType
      <3>1. aggs[k] \in AggregateType
        BY <1>0
      <3>. QED BY <3>1 DEF AggregateType, ActiveLife
    <2>3. aggs' \in [Key -> AggregateType]
      BY <2>1, <2>2
    <2>. QED BY <1>0, <1>5, <2>3, LedgerKept DEF QueueFinite
  <1>6. ASSUME UNCHANGED vars PROVE Typed
    BY <1>0, <1>6, LedgerKept DEF QueueFinite
  <1>. QED BY <1>1, <1>2, <1>3, <1>4, <1>5, <1>6 DEF Next

\* advance_lifecycle touches nothing of an aggregate but the life of an active one.
LEMMA AdvanceStep ==
  ASSUME TypeOK, NEW quiet \in SUBSET ActiveKeys, NEW resolved \in SUBSET (ActiveKeys \ quiet),
         advance_lifecycle(quiet, resolved), NEW k \in Key
  PROVE  /\ aggs'[k].count = aggs[k].count /\ aggs'[k].high = aggs[k].high
         /\ aggs'[k].compacted = aggs[k].compacted
         /\ \/ aggs'[k] = aggs[k]
            \/ aggs[k].life \in ActiveLife /\ aggs'[k].life \in {"QUIET", "RESOLVED"}
  <1>1. aggs'[k] = IF k \in quiet THEN [aggs[k] EXCEPT !.life = "QUIET"]
                   ELSE IF k \in resolved THEN [aggs[k] EXCEPT !.life = "RESOLVED"]
                   ELSE aggs[k]
    BY DEF advance_lifecycle
  <1>2. aggs[k] \in AggregateType
    BY TypeOKNamed
  <1>3. k \in quiet \cup resolved => aggs[k].life \in ActiveLife
    BY DEF ActiveKeys
  <1>. QED BY <1>1, <1>2, <1>3 DEF AggregateType

\* What an event writes to the aggregate of its key.
LEMMA AggregateStep ==
  ASSUME TypeOK, NEW e \in Event, NEW disk,
         aggs' = [aggs EXCEPT ![StorageKey(e)] = Aggregate(e, disk)]
  PROVE  /\ \A k \in Key : k # StorageKey(e) => aggs'[k] = aggs[k]
         /\ aggs'[StorageKey(e)] = Aggregate(e, disk)
         /\ Aggregate(e, disk).life \in {"NEW", "ACTIVE", "REOPENED"}
         /\ Aggregate(e, disk).count = aggs[StorageKey(e)].count + 1
  <1>1. StorageKey(e) \in Key /\ aggs \in [Key -> AggregateType]
    BY DecisionTypes, TypeOKNamed
  <1>2. /\ \A k \in Key : k # StorageKey(e) => aggs'[k] = aggs[k]
        /\ aggs'[StorageKey(e)] = Aggregate(e, disk)
    BY <1>1
  <1>. QED BY <1>2 DEF Aggregate, Count, Old

\* An aggregate that exists has counted at least one receipt.
LEMMA CountedInductive ==
  ASSUME TypeOK, CountedWhenKnown, [Next]_vars PROVE CountedWhenKnown'
  <1> SUFFICES ASSUME NEW k \in Key
               PROVE  IF aggs'[k].life = "none" THEN aggs'[k] = NoAggregate
                      ELSE aggs'[k].count > 0
    BY DEF CountedWhenKnown, NoAggregate
  <1>0. /\ IF aggs[k].life = "none" THEN aggs[k] = NoAggregate ELSE aggs[k].count > 0
        /\ aggs[k].count \in Nat
    BY TypeOKNamed DEF CountedWhenKnown, AggregateType
  <1>1. ASSUME NEW fp \in Fingerprint, NEW kind \in Kind, NEW disk, ingest(fp, kind, disk)
        PROVE  IF aggs'[k].life = "none" THEN aggs'[k] = NoAggregate
               ELSE aggs'[k].count > 0
    <2>1. PICK e \in Event : aggs' = [aggs EXCEPT ![StorageKey(e)] = Aggregate(e, disk)]
      BY <1>1, IngestStep
    <2>2. CASE k = StorageKey(e)
      <3>1. aggs'[k].life # "none" /\ aggs'[k].count = aggs[k].count + 1
        BY <2>1, <2>2, AggregateStep
      <3>. QED BY <1>0, <3>1
    <2>3. CASE k # StorageKey(e)
      <3>1. aggs'[k] = aggs[k]
        BY <2>1, <2>3, AggregateStep
      <3>. QED BY <1>0, <3>1
    <2>. QED BY <2>2, <2>3
  <1>2. ASSUME NEW quiet \in SUBSET ActiveKeys, NEW resolved \in SUBSET (ActiveKeys \ quiet),
               advance_lifecycle(quiet, resolved)
        PROVE  IF aggs'[k].life = "none" THEN aggs'[k] = NoAggregate
               ELSE aggs'[k].count > 0
    <2>1. "none" \notin ActiveLife
      BY DEF ActiveLife
    <2>. QED BY <1>0, <1>2, <2>1, AdvanceStep
  <1>3. (\/ \E i \in DOMAIN ledger : queue_periodic_summary(i)
         \/ \E q \in Pending : mark_notification(q)
         \/ UNCHANGED vars) => aggs' = aggs
    BY LedgerKept
  <1>. QED BY <1>0, <1>1, <1>2, <1>3 DEF Next

\* An entry for a first receipt is queued only by the receipt that creates the
\* aggregate.
LEMMA FirstInductive ==
  ASSUME TypeOK, QueueFinite, FirstUnique, [Next]_vars PROVE FirstUnique'
  <1>. DEFINE First(q) == q.reason = "first_occurrence"
              Goal == /\ \A q \in queue' : First(q) => aggs'[q.key].life # "none"
                      /\ \A p, q \in queue' : First(p) /\ First(q) /\ p.key = q.key => p = q
  <1>0. /\ \A q \in queue : First(q) => aggs[q.key].life # "none"
        /\ \A p, q \in queue : First(p) /\ First(q) /\ p.key = q.key => p = q
        /\ \A q \in queue : q.key \in Key
    BY TypeOKNamed DEF FirstUnique
  <1>1. ASSUME NEW fp \in Fingerprint, NEW kind \in Kind, NEW disk, ingest(fp, kind, disk)
        PROVE  Goal
    <2>1. PICK e \in Event :
            /\ Stores(e, disk) /\ Announces(e, disk)
            /\ aggs' = [aggs EXCEPT ![StorageKey(e)] = Aggregate(e, disk)]
      BY <1>1, IngestStep
    <2>2. \A k \in Key : aggs[k].life # "none" => aggs'[k].life # "none"
      BY <2>1, AggregateStep
    <2>3. aggs'[StorageKey(e)].life # "none"
      BY <2>1, AggregateStep
    <2>4. CASE queue' = queue
      BY <1>0, <2>2, <2>4
    <2>5. CASE queue' # queue
      <3>. DEFINE n == Len(ledger)
                  new == NewEntry(n + 1, StorageKey(e), Priority(e), Disposition(e, disk))
      <3>1. n + 1 \in Nat
        BY <2>1, RowsStep
      <3>2. queue' = queue \cup {new}
        <4>1. queue' = Insert(n + 1, StorageKey(e), Priority(e), Disposition(e, disk))
          BY <2>1, <2>5 DEF Announces
        <4>. QED BY <2>5, <3>1, <4>1, DecisionTypes, InsertProperties
      <3>3. new.key = StorageKey(e) /\ new.reason = Disposition(e, disk)
        BY DEF NewEntry
      <3>. HIDE DEF new
      <3>4. First(new) => aggs[new.key].life = "none"
        BY <3>3 DEF Disposition, Cause, Known, Old
      <3>5. First(new) => \A q \in queue : First(q) => q.key # new.key
        BY <1>0, <3>4
      <3>. QED BY <1>0, <2>2, <2>3, <3>2, <3>3, <3>5
    <2>. QED BY <2>4, <2>5
  <1>2. ASSUME NEW i \in DOMAIN ledger, queue_periodic_summary(i) PROVE Goal
    <2>. DEFINE new == NewEntry(i, ledger[i].key, Priority(ledger[i]), "periodic_summary")
    <2>1. queue' = Insert(i, ledger[i].key, Priority(ledger[i]), "periodic_summary")
      BY <1>2 DEF queue_periodic_summary
    <2>2. queue' = queue \/ queue' = queue \cup {new}
      BY <2>1, SummaryTypes, InsertProperties
    <2>3. ~First(new)
      BY DEF NewEntry
    <2>. HIDE DEF new
    <2>. QED BY <1>0, <1>2, <2>2, <2>3, LedgerKept
  <1>3. ASSUME NEW q \in Pending, mark_notification(q) PROVE Goal
    <2>. DEFINE r == [q EXCEPT !.pending = FALSE]
    <2>1. /\ q \in queue /\ r.key = q.key /\ r.reason = q.reason
          /\ queue' = (queue \ {q}) \cup {r}
      BY <1>3, MarkProperties
    <2>. HIDE DEF r
    <2>2. aggs' = aggs
      BY <1>3, LedgerKept
    <2>. QED BY <1>0, <2>1, <2>2
  <1>4. ASSUME NEW quiet \in SUBSET ActiveKeys, NEW resolved \in SUBSET (ActiveKeys \ quiet),
               advance_lifecycle(quiet, resolved)
        PROVE  Goal
    <2>1. \A k \in Key : aggs[k].life # "none" => aggs'[k].life # "none"
      BY <1>4, AdvanceStep
    <2>. QED BY <1>0, <1>4, <2>1, LedgerKept
  <1>5. ASSUME UNCHANGED vars PROVE Goal
    BY <1>0, <1>5, LedgerKept
  <1>6. Goal => FirstUnique'
    BY DEF FirstUnique
  <1>. QED BY <1>1, <1>2, <1>3, <1>4, <1>5, <1>6 DEF Next

\* Neither admission nor delivery leaves a notable receipt without a trace.
LEMMA NotableInductive ==
  ASSUME TypeOK, QueueFinite, NotableIsAccounted, [Next]_vars PROVE NotableIsAccounted'
  <1>. DEFINE Accounted(i) == (\E q \in queue : q.seq = i) \/ i \in logOnly
              NextAccounted(i) == (\E q \in queue' : q.seq = i) \/ i \in logOnly'
              Goal == \A i \in DOMAIN ledger' : RowNotified(ledger'[i]) => NextAccounted(i)
  <1>0. \A i \in DOMAIN ledger : RowNotified(ledger[i]) => Accounted(i)
    BY DEF NotableIsAccounted
  <1>1. ASSUME NEW fp \in Fingerprint, NEW kind \in Kind, NEW disk, ingest(fp, kind, disk)
        PROVE  Goal
    <2>1. PICK e \in Event :
            /\ Stores(e, disk) /\ Announces(e, disk)
            /\ aggs' = [aggs EXCEPT ![StorageKey(e)] = Aggregate(e, disk)]
      BY <1>1, IngestStep
    <2>. DEFINE n == Len(ledger)
    <2>2. /\ n \in Nat /\ DOMAIN ledger = 1..n /\ DOMAIN ledger' = 1..n+1
          /\ \A i \in 1..n : RowNotified(ledger'[i]) = RowNotified(ledger[i])
      BY <2>1, RowsStep
    <2>3. queue \subseteq queue' /\ (Notifies(e) /\ HasRoom(e) => \E q \in queue' : q.seq = n + 1)
      <3>1. CASE Notifies(e) /\ HasRoom(e)
        <4>1. queue' = Insert(n + 1, StorageKey(e), Priority(e), Disposition(e, disk))
          BY <2>1, <3>1 DEF Announces
        <4>2. n + 1 \in Nat
          BY <2>2
        <4>. HIDE DEF n
        <4>3. queue \subseteq queue' /\ \E q \in queue' : q.seq = n + 1
          BY <4>1, <4>2, DecisionTypes, InsertProperties
        <4>. QED BY <4>3
      <3>. QED BY <2>1, <3>1 DEF Announces
    <2>4. logOnly \subseteq logOnly' /\ (Notifies(e) /\ ~HasRoom(e) => n + 1 \in logOnly')
      BY <2>1 DEF Announces
    <2>5. RowNotified(ledger'[n + 1]) => Notifies(e)
      <3>1. ledger'[n + 1] = Receipt(e, disk)
        BY <2>1 DEF Stores
      <3>2. /\ ledger'[n + 1].cause = Cause(e) /\ ledger'[n + 1].rule = e.rule
            /\ ledger'[n + 1].prot = e.prot
        BY <3>1 DEF Receipt
      <3>. QED BY <3>2 DEF RowNotified, Notifies, Cause, Suppressed
    <2>6. ASSUME NEW i \in 1..n+1, RowNotified(ledger'[i]) PROVE NextAccounted(i)
      <3>1. CASE i = n + 1
        BY <2>3, <2>4, <2>5, <2>6, <3>1
      <3>2. CASE i \in 1..n
        BY <1>0, <2>2, <2>3, <2>4, <2>6, <3>2
      <3>. QED BY <2>2, <3>1, <3>2
    <2>. QED BY <2>2, <2>6
  <1>2. ASSUME NEW i \in DOMAIN ledger, queue_periodic_summary(i) PROVE Goal
    <2>1. queue' = Insert(i, ledger[i].key, Priority(ledger[i]), "periodic_summary")
      BY <1>2 DEF queue_periodic_summary
    <2>2. queue \subseteq queue'
      BY <2>1, SummaryTypes, InsertProperties
    <2>. QED BY <1>0, <1>2, <2>2, LedgerKept
  <1>3. ASSUME NEW q \in Pending, mark_notification(q) PROVE Goal
    <2>. DEFINE r == [q EXCEPT !.pending = FALSE]
    <2>1. q \in queue /\ r.seq = q.seq /\ queue' = (queue \ {q}) \cup {r}
      BY <1>3, MarkProperties
    <2>. HIDE DEF r
    <2>2. \A i : Accounted(i) => (\E p \in queue' : p.seq = i) \/ i \in logOnly
      BY <2>1
    <2>. QED BY <1>0, <1>3, <2>2, LedgerKept
  <1>4. ASSUME NEW quiet \in SUBSET ActiveKeys, NEW resolved \in SUBSET (ActiveKeys \ quiet),
               advance_lifecycle(quiet, resolved)
        PROVE  Goal
    BY <1>0, <1>4, LedgerKept
  <1>5. ASSUME UNCHANGED vars PROVE Goal
    BY <1>0, <1>5, LedgerKept
  <1>6. Goal => NotableIsAccounted'
    BY DEF NotableIsAccounted, RowNotified
  <1>. QED BY <1>1, <1>2, <1>3, <1>4, <1>5, <1>6 DEF Next

\* Entries that ingest queued for P2 and lower.
LowPending == {q \in Pending : q.prio > 1 /\ q.reason # "periodic_summary"}

\* A set within LowPending keeps the bound.
LEMMA ReserveMonotone ==
  ASSUME QueueFinite, ReserveLeft, NEW S, S \subseteq LowPending
  PROVE  /\ IsFiniteSet(S)
         /\ Cardinality(S) <= IF NotificationCapacity > ProtectedCapacity
                              THEN NotificationCapacity - ProtectedCapacity ELSE 0
  <1>1. IsFiniteSet(LowPending)
    <2>1. LowPending \subseteq queue
      BY DEF LowPending, Pending
    <2>. QED BY <2>1, FS_Subset DEF QueueFinite
  <1>2. IsFiniteSet(S) /\ Cardinality(S) <= Cardinality(LowPending)
    BY <1>1, FS_Subset
  <1>3. /\ Cardinality(S) \in Nat /\ Cardinality(LowPending) \in Nat
        /\ NotificationCapacity \in Nat /\ ProtectedCapacity \in Nat
    BY <1>1, <1>2, FS_CardinalityType, LimitAssumption
  <1>4. Cardinality(LowPending) <= IF NotificationCapacity > ProtectedCapacity
                                   THEN NotificationCapacity - ProtectedCapacity ELSE 0
    BY DEF ReserveLeft, LowPending
  <1>. QED BY <1>2, <1>3, <1>4

\* ingest admits P2 and lower only while the protected slots stay free, and no later
\* step makes such an entry pending again.
LEMMA ReserveInductive ==
  ASSUME TypeOK, QueueFinite, ReserveLeft, [Next]_vars PROVE ReserveLeft'
  <1>. DEFINE Low(Q) == {q \in Q : q.pending /\ q.prio > 1 /\ q.reason # "periodic_summary"}
              Bound == IF NotificationCapacity > ProtectedCapacity
                       THEN NotificationCapacity - ProtectedCapacity ELSE 0
              Goal == Cardinality(Low(queue')) <= Bound
  <1>0. LowPending = Low(queue) /\ (Goal => ReserveLeft')
    <2>1. {q \in Pending' : q.prio > 1 /\ q.reason # "periodic_summary"} = Low(queue')
      BY DEF Pending
    <2>2. LowPending = Low(queue)
      BY DEF Pending, LowPending
    <2>. QED BY <2>1, <2>2 DEF ReserveLeft
  <1>1. Low(queue') \subseteq Low(queue) => Goal
    BY <1>0, ReserveMonotone
  <1>2. ASSUME NEW fp \in Fingerprint, NEW kind \in Kind, NEW disk, ingest(fp, kind, disk)
        PROVE  Goal
    <2>1. PICK e \in Event :
            /\ Stores(e, disk) /\ Announces(e, disk)
            /\ aggs' = [aggs EXCEPT ![StorageKey(e)] = Aggregate(e, disk)]
      BY <1>2, IngestStep
    <2>. DEFINE n == Len(ledger)
                new == NewEntry(n + 1, StorageKey(e), Priority(e), Disposition(e, disk))
    <2>2. n + 1 \in Nat
      BY <2>1, RowsStep
    <2>3. CASE queue' = queue
      BY <1>1, <2>3
    <2>4. CASE queue' # queue
      <3>1. HasRoom(e) /\ queue' = Insert(n + 1, StorageKey(e), Priority(e), Disposition(e, disk))
        BY <2>1, <2>4 DEF Announces
      <3>2. queue' = queue \cup {new}
        BY <2>2, <2>4, <3>1, DecisionTypes, InsertProperties
      <3>3. new.prio = Priority(e)
        BY DEF NewEntry
      <3>. HIDE DEF new
      <3>4. CASE ~(new.prio > 1)
        <4>1. Low(queue') = Low(queue)
          BY <3>2, <3>4
        <4>. QED BY <1>1, <4>1
      <3>5. CASE new.prio > 1
        <4>1. /\ Cardinality(Pending) < NotificationCapacity - ProtectedCapacity
          BY <3>1, <3>3, <3>5, DecisionTypes DEF HasRoom
        <4>2. IsFiniteSet(Pending) /\ Low(queue) \subseteq Pending
          <5>1. Pending \subseteq queue
            BY DEF Pending
          <5>. QED BY <5>1, FS_Subset DEF QueueFinite, Pending
        <4>3. /\ IsFiniteSet(Low(queue)) /\ Cardinality(Low(queue)) <= Cardinality(Pending)
              /\ Cardinality(Low(queue)) \in Nat /\ Cardinality(Pending) \in Nat
          <5>. HIDE DEF Low
          <5>. QED BY <4>2, FS_Subset, FS_CardinalityType
        <4>4. Low(queue') \subseteq Low(queue) \cup {new}
          BY <3>2
        <4>5. /\ IsFiniteSet(Low(queue) \cup {new})
              /\ Cardinality(Low(queue) \cup {new}) <= Cardinality(Low(queue)) + 1
              /\ Cardinality(Low(queue) \cup {new}) \in Nat
          <5>. HIDE DEF Low
          <5>1. /\ IsFiniteSet(Low(queue) \cup {new})
                /\ Cardinality(Low(queue) \cup {new}) =
                     IF new \in Low(queue) THEN Cardinality(Low(queue))
                     ELSE Cardinality(Low(queue)) + 1
            BY <4>3, FS_AddElement
          <5>. QED BY <4>3, <5>1
        <4>6. /\ Cardinality(Low(queue')) <= Cardinality(Low(queue) \cup {new})
              /\ Cardinality(Low(queue')) \in Nat
          <5>. HIDE DEF Low
          <5>. QED BY <4>4, <4>5, FS_Subset, FS_CardinalityType
        <4>7. NotificationCapacity \in Nat /\ ProtectedCapacity \in Nat
          BY LimitAssumption
        <4>. HIDE DEF Low
        <4>. QED BY <4>1, <4>3, <4>5, <4>6, <4>7
      <3>. QED BY <3>4, <3>5
    <2>. QED BY <2>3, <2>4
  <1>3. ASSUME NEW i \in DOMAIN ledger, queue_periodic_summary(i) PROVE Goal
    <2>. DEFINE new == NewEntry(i, ledger[i].key, Priority(ledger[i]), "periodic_summary")
    <2>1. queue' = Insert(i, ledger[i].key, Priority(ledger[i]), "periodic_summary")
      BY <1>3 DEF queue_periodic_summary
    <2>2. queue' = queue \/ queue' = queue \cup {new}
      BY <2>1, SummaryTypes, InsertProperties
    <2>3. new.reason = "periodic_summary"
      BY DEF NewEntry
    <2>. HIDE DEF new
    <2>4. Low(queue') \subseteq Low(queue)
      BY <2>2, <2>3
    <2>. QED BY <1>1, <2>4
  <1>4. ASSUME NEW q \in Pending, mark_notification(q) PROVE Goal
    <2>. DEFINE r == [q EXCEPT !.pending = FALSE]
    <2>1. r.pending = FALSE /\ queue' = (queue \ {q}) \cup {r}
      BY <1>4, MarkProperties
    <2>. HIDE DEF r
    <2>2. Low(queue') \subseteq Low(queue)
      BY <2>1
    <2>. QED BY <1>1, <2>2
  <1>5. ASSUME NEW quiet \in SUBSET ActiveKeys, NEW resolved \in SUBSET (ActiveKeys \ quiet),
               advance_lifecycle(quiet, resolved)
        PROVE  Goal
    BY <1>1, <1>5, LedgerKept
  <1>6. ASSUME UNCHANGED vars PROVE Goal
    BY <1>1, <1>6, LedgerKept
  <1>. QED BY <1>0, <1>2, <1>3, <1>4, <1>5, <1>6 DEF Next

\* Compaction never picks the first receipts of a key, nor the newest.
LEMMA RawInductive ==
  ASSUME TypeOK, FirstAndLatestRaw, [Next]_vars PROVE FirstAndLatestRaw'
  <1>. DEFINE Before(k, i) == {j \in Rows(k) : j < i}
              NextRows(k) == {i \in DOMAIN ledger' : ledger'[i].key = k}
              NextBefore(k, i) == {j \in NextRows(k) : j < i}
              Goal == \A i \in DOMAIN ledger' :
                        (\/ Cardinality(NextBefore(ledger'[i].key, i)) < InitialRows
                         \/ \A j \in NextRows(ledger'[i].key) : j <= i) => ledger'[i].raw
  <1>0. \A i \in DOMAIN ledger :
          Cardinality(Before(ledger[i].key, i)) < InitialRows => ledger[i].raw
    BY DEF FirstAndLatestRaw
  <1>1. Goal => FirstAndLatestRaw'
    BY DEF FirstAndLatestRaw, Rows, InitialRows
  <1>2. ASSUME NEW fp \in Fingerprint, NEW kind \in Kind, NEW disk, ingest(fp, kind, disk)
        PROVE  Goal
    <2>1. PICK e \in Event :
            /\ Stores(e, disk) /\ Announces(e, disk)
            /\ aggs' = [aggs EXCEPT ![StorageKey(e)] = Aggregate(e, disk)]
      BY <1>2, IngestStep
    <2>. DEFINE n == Len(ledger)
                s == StorageKey(e)
    <2>2. /\ n \in Nat /\ DOMAIN ledger = 1..n /\ DOMAIN ledger' = 1..n+1
          /\ \A i \in 1..n : ledger'[i].key = ledger[i].key /\ ledger[i] \in Row
          /\ \A k : Rows(k)' = IF k = s THEN Rows(k) \cup {n + 1} ELSE Rows(k)
          /\ \A k : Rows(k) \subseteq 1..n
      BY <2>1, RowsStep
    <2>3. \A k : NextRows(k) = IF k = s THEN Rows(k) \cup {n + 1} ELSE Rows(k)
      <3>1. \A k : Rows(k)' = NextRows(k)
        BY DEF Rows
      <3>. QED BY <2>2, <3>1
    <2>4. ledger'[n + 1].raw /\ ledger'[n + 1].key = s
      BY <2>1 DEF Stores, Receipt
    <2>5. ASSUME NEW i \in 1..n,
                 \/ Cardinality(NextBefore(ledger'[i].key, i)) < InitialRows
                 \/ \A j \in NextRows(ledger'[i].key) : j <= i
          PROVE  ledger'[i].raw
      <3>. DEFINE k == ledger[i].key
      <3>0. ledger'[i].key = k /\ i < n + 1 /\ ~(n + 1 <= i) /\ ~(n + 1 < i) /\ i \in Rows(k)
        BY <2>2 DEF Rows
      <3>. HIDE DEF k
      <3>1. NextBefore(k, i) = Before(k, i)
        BY <2>3, <3>0
      <3>2. CASE Cardinality(NextBefore(k, i)) < InitialRows
        <4>1. ledger[i].raw
          BY <1>0, <2>2, <3>1, <3>2 DEF k
        <4>2. Compacts(e, disk) => i # Victim(s)
          <5> SUFFICES ASSUME Compacts(e, disk), i = Victim(s) PROVE FALSE
            OBVIOUS
          <5>1. i \in Compactable(s)
            BY <2>1 DEF Stores
          <5>2. k = s /\ Cardinality(Before(s, i)) >= InitialRows
            BY <5>1 DEF Compactable, k, Rows
          <5>3. InitialRows \in Nat
            BY LimitAssumption DEF InitialRows
          <5>4. Cardinality(Before(s, i)) \in Nat
            <6>1. Before(s, i) \subseteq Rows(s) /\ IsFiniteSet(Rows(s))
              BY <2>1, RowsStep
            <6>. QED BY <6>1, FS_Subset, FS_CardinalityType
          <5>. HIDE DEF Before, NextBefore
          <5>. QED BY <3>1, <3>2, <5>2, <5>3, <5>4
        <4>3. ledger'[i] = ledger[i]
          BY <2>1, <4>2 DEF Stores
        <4>. QED BY <4>1, <4>3
      <3>3. CASE \A j \in NextRows(k) : j <= i
        <4>1. k # s
          BY <2>3, <3>0, <3>3
        <4>2. Compacts(e, disk) => Victim(s) \in Rows(s)
          BY <2>1 DEF Stores, Compactable
        <4>3. Compacts(e, disk) => i # Victim(s)
          BY <4>1, <4>2 DEF Rows, k
        <4>4. ledger'[i] = ledger[i]
          BY <2>1, <4>3 DEF Stores
        <4>5. \A j \in Rows(k) : j <= i
          BY <2>3, <3>3, <4>1
        <4>. QED BY <2>2, <4>4, <4>5 DEF FirstAndLatestRaw, k
      <3>. QED BY <2>5, <3>0, <3>2, <3>3
    <2>6. \A i \in 1..n+1 : i \in 1..n \/ i = n + 1
      BY <2>2
    <2>. HIDE DEF NextBefore, NextRows, n
    <2>. QED BY <2>2, <2>4, <2>5, <2>6
  <1>3. ASSUME ledger' = ledger PROVE Goal
    BY <1>3 DEF FirstAndLatestRaw, Rows
  <1>4. (\/ \E i \in DOMAIN ledger : queue_periodic_summary(i)
         \/ \E q \in Pending : mark_notification(q)
         \/ \E quiet \in SUBSET ActiveKeys : \E resolved \in SUBSET (ActiveKeys \ quiet) :
                advance_lifecycle(quiet, resolved)
         \/ UNCHANGED vars) => ledger' = ledger
    BY LedgerKept
  <1>. QED BY <1>1, <1>2, <1>3, <1>4 DEF Next

\* The receipts of a key whose bodies are gone, after an event was stored.
LEMMA ClearedStep ==
  ASSUME TypeOK, NEW e \in Event, NEW disk, Stores(e, disk), NEW k
  PROVE  {i \in Rows(k)' : ~ledger'[i].raw} =
           IF k = StorageKey(e) /\ Compacts(e, disk)
           THEN {i \in Rows(k) : ~ledger[i].raw} \cup {Victim(k)}
           ELSE {i \in Rows(k) : ~ledger[i].raw}
  <1>. DEFINE n == Len(ledger)
              s == StorageKey(e)
              Cleared == {i \in Rows(k) : ~ledger[i].raw}
              NextCleared == {i \in Rows(k)' : ~ledger'[i].raw}
  <1>1. /\ n \in Nat /\ Rows(k) \subseteq 1..n
        /\ \A i \in 1..n : ledger[i] \in Row
        /\ Rows(k)' = IF k = s THEN Rows(k) \cup {n + 1} ELSE Rows(k)
    BY RowsStep
  <1>2. ledger'[n + 1].raw = TRUE
    BY DEF Stores, Receipt
  <1>3. NextCleared = {i \in Rows(k) : ~ledger'[i].raw}
    BY <1>1, <1>2
  <1>4. Compacts(e, disk) => Victim(s) \in Rows(s)
    BY DEF Stores, Compactable
  <1>5. ASSUME NEW i \in Rows(k)
        PROVE  ledger'[i].raw = IF Compacts(e, disk) /\ i = Victim(s) THEN FALSE
                                ELSE ledger[i].raw
    <2>1. i \in 1..n /\ ledger[i] \in Row
      BY <1>1
    <2>2. ledger'[i] = IF Compacts(e, disk) /\ i = Victim(s)
                       THEN [ledger[i] EXCEPT !.raw = FALSE] ELSE ledger[i]
      BY <2>1 DEF Stores
    <2>3. [ledger[i] EXCEPT !.raw = FALSE].raw = FALSE
      BY <2>1 DEF Row
    <2>. QED BY <2>2, <2>3
  <1>6. CASE k = s /\ Compacts(e, disk)
    BY <1>3, <1>4, <1>5, <1>6
  <1>7. CASE k # s
    <2>1. \A i \in Rows(k) : Compacts(e, disk) => i # Victim(s)
      BY <1>4, <1>7 DEF Rows
    <2>. QED BY <1>3, <1>5, <1>7, <2>1
  <1>8. CASE ~Compacts(e, disk)
    BY <1>3, <1>5, <1>8
  <1>. QED BY <1>6, <1>7, <1>8

\* A receipt and its aggregate change together, and compaction clears one body for
\* each body it counts.
LEMMA MatchesInductive ==
  ASSUME TypeOK, CountedWhenKnown, AggregateMatchesLedger, [Next]_vars
  PROVE  AggregateMatchesLedger'
  <1>. DEFINE Cleared(k) == {i \in Rows(k) : ~ledger[i].raw}
              NextCleared(k) == {i \in Rows(k)' : ~ledger'[i].raw}
              Goal(k) == /\ aggs'[k].count = Cardinality(Rows(k)')
                         /\ aggs'[k].compacted = Cardinality(NextCleared(k))
                         /\ \A i \in Rows(k)' : ledger'[i].sev <= aggs'[k].high
                         /\ Rows(k)' # {} => \E i \in Rows(k)' : ledger'[i].sev = aggs'[k].high
  <1>0. \A k \in Key :
          /\ aggs[k].count = Cardinality(Rows(k))
          /\ aggs[k].compacted = Cardinality(Cleared(k))
          /\ \A i \in Rows(k) : ledger[i].sev <= aggs[k].high
          /\ Rows(k) # {} => \E i \in Rows(k) : ledger[i].sev = aggs[k].high
    BY DEF AggregateMatchesLedger
  <1>1. (\A k \in Key : Goal(k)) => AggregateMatchesLedger'
    BY DEF AggregateMatchesLedger
  <1>2. ASSUME NEW fp \in Fingerprint, NEW kind \in Kind, NEW disk, ingest(fp, kind, disk),
               NEW k \in Key
        PROVE  Goal(k)
    <2>1. PICK e \in Event :
            /\ Stores(e, disk) /\ Announces(e, disk)
            /\ aggs' = [aggs EXCEPT ![StorageKey(e)] = Aggregate(e, disk)]
      BY <1>2, IngestStep
    <2>. DEFINE n == Len(ledger)
                s == StorageKey(e)
    <2>2. /\ n \in Nat /\ Rows(k) \subseteq 1..n /\ IsFiniteSet(Rows(k))
          /\ Rows(k)' = IF k = s THEN Rows(k) \cup {n + 1} ELSE Rows(k)
          /\ \A i \in 1..n : ledger'[i].sev = ledger[i].sev /\ ledger[i] \in Row
      BY <2>1, RowsStep
    <2>3. NextCleared(k) = IF k = s /\ Compacts(e, disk) THEN Cleared(k) \cup {Victim(k)}
                           ELSE Cleared(k)
      BY <2>1, ClearedStep
    <2>4. CASE k # s
      <3>1. aggs'[k] = aggs[k]
        BY <2>1, <2>4, AggregateStep
      <3>2. NextCleared(k) = Cleared(k) /\ Rows(k)' = Rows(k)
        BY <2>2, <2>3, <2>4
      <3>3. \A i \in Rows(k) : ledger'[i].sev = ledger[i].sev
        BY <2>2
      <3>. HIDE DEF NextCleared, Cleared
      <3>. QED BY <1>0, <3>1, <3>2, <3>3
    <2>5. CASE k = s
      <3>1. aggs'[k] = Aggregate(e, disk)
        BY <2>1, <2>5, AggregateStep
      <3>2. /\ aggs'[k].count = aggs[k].count + 1
            /\ aggs'[k].compacted = aggs[k].compacted + (IF Compacts(e, disk) THEN 1 ELSE 0)
            /\ aggs'[k].high = IF e.sev >= aggs[k].high THEN e.sev ELSE aggs[k].high
        BY <2>5, <3>1 DEF Aggregate, Count, Old
      <3>3. /\ aggs[k].count \in Nat /\ aggs[k].compacted \in Nat
            /\ aggs[k].high \in 0..4 /\ e.sev \in 0..4
        BY TypeOKNamed DEF AggregateType, Event, Severity
      <3>4. aggs'[k].count = Cardinality(Rows(k)')
        <4>1. n + 1 \notin Rows(k)
          BY <2>2
        <4>2. Cardinality(Rows(k) \cup {n + 1}) = Cardinality(Rows(k)) + 1
          BY <2>2, <4>1, FS_AddElement
        <4>. QED BY <1>0, <2>2, <2>5, <3>2, <4>2
      <3>5. aggs'[k].compacted = Cardinality(NextCleared(k))
        <4>1. IsFiniteSet(Cleared(k))
          BY <2>2, FS_Subset
        <4>2. CASE Compacts(e, disk)
          <5>1. Victim(k) \in Compactable(k)
            BY <2>1, <2>5, <4>2 DEF Stores
          <5>2. Victim(k) \notin Cleared(k)
            BY <5>1 DEF Compactable
          <5>3. Cardinality(Cleared(k) \cup {Victim(k)}) = Cardinality(Cleared(k)) + 1
            <6>. HIDE DEF Cleared
            <6>. QED BY <4>1, <5>2, FS_AddElement
          <5>. HIDE DEF Cleared, NextCleared
          <5>. QED BY <1>0, <2>3, <2>5, <3>2, <4>2, <5>3
        <4>3. CASE ~Compacts(e, disk)
          <5>1. NextCleared(k) = Cleared(k) /\ aggs'[k].compacted = aggs[k].compacted
            BY <2>3, <3>2, <3>3, <4>3
          <5>. HIDE DEF Cleared, NextCleared
          <5>. QED BY <1>0, <5>1
        <4>. QED BY <4>2, <4>3
      <3>6. ledger'[n + 1].sev = e.sev
        BY <2>1 DEF Stores, Receipt
      <3>7. \A i \in Rows(k) : /\ ledger'[i].sev = ledger[i].sev
                               /\ ledger[i].sev \in 0..4 /\ ledger[i].sev <= aggs[k].high
        BY <1>0, <2>2 DEF Row, Severity
      <3>8. \A i \in Rows(k)' : ledger'[i].sev <= aggs'[k].high
        <4>1. \A i \in Rows(k) : ledger'[i].sev <= aggs'[k].high
          BY <3>2, <3>3, <3>7
        <4>2. ledger'[n + 1].sev <= aggs'[k].high
          BY <3>2, <3>3, <3>6
        <4>. QED BY <2>2, <2>5, <4>1, <4>2
      <3>9. \E i \in Rows(k)' : ledger'[i].sev = aggs'[k].high
        <4>1. CASE e.sev >= aggs[k].high
          <5>1. n + 1 \in Rows(k)' /\ ledger'[n + 1].sev = aggs'[k].high
            BY <2>2, <2>5, <3>2, <3>6, <4>1
          <5>. QED BY <5>1
        <4>2. CASE ~(e.sev >= aggs[k].high)
          <5>1. aggs[k].high > 0 /\ aggs'[k].high = aggs[k].high
            BY <3>2, <3>3, <4>2
          <5>2. aggs[k].life # "none"
            BY <5>1 DEF CountedWhenKnown, NoAggregate
          <5>3. Rows(k) # {}
            <6>1. aggs[k].count > 0 /\ aggs[k].count = Cardinality(Rows(k))
              BY <1>0, <5>2 DEF CountedWhenKnown
            <6>. QED BY <6>1, FS_EmptySet
          <5>4. PICK i \in Rows(k) : ledger[i].sev = aggs[k].high
            BY <1>0, <5>3
          <5>. QED BY <2>2, <2>5, <3>7, <5>1, <5>4
        <4>. QED BY <4>1, <4>2
      <3>. QED BY <3>4, <3>5, <3>8, <3>9
    <2>. QED BY <2>4, <2>5
  <1>3. ASSUME ledger' = ledger,
               \A k \in Key : /\ aggs'[k].count = aggs[k].count
                              /\ aggs'[k].high = aggs[k].high
                              /\ aggs'[k].compacted = aggs[k].compacted
        PROVE  \A k \in Key : Goal(k)
    <2>1. \A k : Rows(k)' = Rows(k) /\ NextCleared(k) = Cleared(k)
      BY <1>3 DEF Rows
    <2>. HIDE DEF Cleared, NextCleared
    <2>. QED BY <1>0, <1>3, <2>1
  <1>4. ASSUME NEW quiet \in SUBSET ActiveKeys, NEW resolved \in SUBSET (ActiveKeys \ quiet),
               advance_lifecycle(quiet, resolved)
        PROVE  \A k \in Key : Goal(k)
    BY <1>3, <1>4, AdvanceStep, LedgerKept
  <1>5. (\/ \E i \in DOMAIN ledger : queue_periodic_summary(i)
         \/ \E q \in Pending : mark_notification(q)
         \/ UNCHANGED vars) => ledger' = ledger /\ aggs' = aggs
    BY LedgerKept
  <1>. HIDE DEF Goal
  <1>6. ledger' = ledger /\ aggs' = aggs => \A k \in Key : Goal(k)
    BY <1>3
  <1>. QED BY <1>1, <1>2, <1>4, <1>5, <1>6 DEF Next

-----------------------------------------------------------------------------
(* The theorems.                                                           *)

\* Empty tables satisfy the invariant.
LEMMA InitInv == Init => Inv
  <1> SUFFICES ASSUME Init PROVE Inv
    OBVIOUS
  <1>1. /\ ledger = <<>> /\ aggs = [k \in Key |-> NoAggregate] /\ queue = {} /\ logOnly = {}
    BY DEF Init
  <1>2. NoAggregate \in AggregateType
    BY DEF NoAggregate, AggregateType, Severity
  <1>3. ledger \in Seq(Row) /\ DOMAIN ledger = {} /\ \A k : Rows(k) = {}
    BY <1>1 DEF Rows
  <1>4. TypeOK
    BY <1>1, <1>2, <1>3, TypeOKNamed
  <1>5. QueueFinite
    BY <1>1, FS_EmptySet DEF QueueFinite
  <1>6. CountedWhenKnown /\ FirstUnique /\ NotableIsAccounted /\ FirstAndLatestRaw
    BY <1>1, <1>3 DEF CountedWhenKnown, FirstUnique, NotableIsAccounted, FirstAndLatestRaw,
                      NoAggregate
  <1>7. ReserveLeft
    <2>1. {q \in Pending : q.prio > 1 /\ q.reason # "periodic_summary"} = {}
      BY <1>1 DEF Pending
    <2>. QED BY <2>1, FS_EmptySet, LimitAssumption DEF ReserveLeft
  <1>8. AggregateMatchesLedger
    <2>1. \A k : {i \in Rows(k) : ~ledger[i].raw} = {}
      BY <1>3
    <2>2. \A k \in Key : aggs[k].count = 0 /\ aggs[k].compacted = 0
      BY <1>1 DEF NoAggregate
    <2>. QED BY <1>3, <2>1, <2>2, FS_EmptySet DEF AggregateMatchesLedger
  <1>. QED BY <1>4, <1>5, <1>6, <1>7, <1>8 DEF Inv

\* The invariant holds in every reachable state.
LEMMA SpecInv == Spec => []Inv
  <1>1. Inv /\ [Next]_vars => Inv'
    BY TypeInductive, CountedInductive, FirstInductive, NotableInductive, ReserveInductive,
       RawInductive, MatchesInductive DEF Inv
  <1>. QED BY <1>1, InitInv, PTL DEF Spec

\* Receipts, aggregates, queue entries and audit records keep their types and
\* refer to stored receipts.
THEOREM TypeCorrect == Spec => []TypeOK
  BY SpecInv, PTL DEF Inv

\* The counters of an aggregate are the receipts of the ledger.
THEOREM AggregateIsTrue == Spec => []AggregateMatchesLedger
  BY SpecInv, PTL DEF Inv

\* What calls for a notification is queued or audited.
THEOREM NotableNeverLost == Spec => []NotableIsAccounted
  BY SpecInv, PTL DEF Inv

\* Entries of P2 and lower that ingest queued leave the reserve free.
THEOREM ReserveIsKept == Spec => []ReserveLeft
  BY SpecInv, PTL DEF Inv

\* Compaction keeps the first receipts and the newest one of every key.
THEOREM FirstAndLatestKept == Spec => []FirstAndLatestRaw
  BY SpecInv, PTL DEF Inv

\* No alert is announced as new a second time.
THEOREM FirstAnnouncedOnce == Spec => []OneFirstNotification
  <1>1. Inv => OneFirstNotification
    <2> SUFFICES ASSUME Inv, NEW k \in Key
                 PROVE  Cardinality({q \in queue : /\ q.key = k
                                                   /\ q.reason = "first_occurrence"}) <= 1
      BY DEF OneFirstNotification
    <2>. DEFINE F == {q \in queue : q.key = k /\ q.reason = "first_occurrence"}
    <2>1. \A p, q \in F : p = q
      BY DEF Inv, FirstUnique
    <2>2. CASE F = {}
      <3>1. Cardinality(F) = 0
        BY <2>2, FS_EmptySet
      <3>. QED BY <3>1
    <2>3. CASE F # {}
      <3>1. PICK q \in F : TRUE
        BY <2>3
      <3>. HIDE DEF F
      <3>2. F = {q}
        BY <2>1, <3>1
      <3>3. Cardinality(F) = 1
        BY <3>2, FS_Singleton
      <3>. QED BY <3>3 DEF F
    <2>. QED BY <2>2, <2>3
  <1>. QED BY <1>1, SpecInv, PTL

\* A step appends at most a receipt and clears at most one body, never one of an
\* exempt disposition.
THEOREM LedgerOnlyGrows == Spec => LedgerAppendOnly
  <1>. DEFINE Changed == {i \in DOMAIN ledger : ledger'[i] # ledger[i]}
              Grows == /\ Len(ledger') >= Len(ledger)
                       /\ \A i \in DOMAIN ledger :
                            \/ ledger'[i] = ledger[i]
                            \/ /\ ledger'[i] = [ledger[i] EXCEPT !.raw = FALSE]
                               /\ ledger[i].disp \notin Exempt
                       /\ Cardinality(Changed) <= 1
  <1>1. ASSUME TypeOK, ledger' = ledger PROVE Grows
    <2>1. ledger \in Seq(Row) /\ Len(ledger) \in Nat
      BY <1>1, TypeOKNamed
    <2>2. Cardinality(Changed) = 0
      <3>1. Changed = {}
        BY <1>1
      <3>. QED BY <3>1, FS_EmptySet
    <2>. QED BY <1>1, <2>1, <2>2
  <1>2. ASSUME TypeOK, NEW fp \in Fingerprint, NEW kind \in Kind, NEW disk,
               ingest(fp, kind, disk)
        PROVE  Grows
    <2>1. PICK e \in Event : Stores(e, disk)
      BY <1>2, IngestStep
    <2>. DEFINE n == Len(ledger)
                v == Victim(StorageKey(e))
    <2>2. n \in Nat /\ DOMAIN ledger = 1..n /\ Len(ledger') = n + 1
      BY <1>2, <2>1, RowsStep DEF Stores
    <2>3. \A i \in 1..n : ledger'[i] = IF Compacts(e, disk) /\ i = v
                                       THEN [ledger[i] EXCEPT !.raw = FALSE] ELSE ledger[i]
      BY <2>1 DEF Stores
    <2>4. Compacts(e, disk) => ledger[v].disp \notin Exempt
      BY <2>1 DEF Stores, Compactable
    <2>5. Cardinality(Changed) <= 1
      <3>1. Changed \subseteq {v}
        BY <2>2, <2>3
      <3>2. IsFiniteSet({v}) /\ Cardinality({v}) = 1
        BY FS_Singleton
      <3>. HIDE DEF Changed
      <3>3. Cardinality(Changed) <= Cardinality({v})
        BY <3>1, <3>2, FS_Subset
      <3>. QED BY <3>2, <3>3
    <2>. HIDE DEF Changed
    <2>. QED BY <2>2, <2>3, <2>4, <2>5
  <1>3. (\/ \E i \in DOMAIN ledger : queue_periodic_summary(i)
         \/ \E q \in Pending : mark_notification(q)
         \/ \E quiet \in SUBSET ActiveKeys : \E resolved \in SUBSET (ActiveKeys \ quiet) :
                advance_lifecycle(quiet, resolved)
         \/ UNCHANGED vars) => ledger' = ledger
    BY LedgerKept
  <1>4. TypeOK /\ [Next]_vars => [Grows]_vars
    <2>. HIDE DEF Grows
    <2>. QED BY <1>1, <1>2, <1>3 DEF Next
  <1>. QED BY <1>4, TypeCorrect, PTL DEF Spec, LedgerAppendOnly

\* A resolved alert comes back only as reopened, with a receipt of its own.
THEOREM ResolvedStays == Spec => ResolvedUntilReopened
  <1>. DEFINE Returns(k) == aggs[k].life = "RESOLVED" /\ aggs'[k].life # "RESOLVED"
              Reopened(k) == /\ aggs'[k].life = "REOPENED"
                             /\ Len(ledger') = Len(ledger) + 1
                             /\ ledger'[Len(ledger')].key = k
                             /\ ledger'[Len(ledger')].cause # "duplicate"
  <1>1. ASSUME TypeOK, NEW k \in Key, Returns(k), NEW fp \in Fingerprint, NEW kind \in Kind,
               NEW disk, ingest(fp, kind, disk)
        PROVE  Reopened(k)
    <2>1. PICK e \in Event :
            /\ Stores(e, disk)
            /\ aggs' = [aggs EXCEPT ![StorageKey(e)] = Aggregate(e, disk)]
      BY <1>1, IngestStep
    <2>2. k = StorageKey(e) /\ aggs'[k] = Aggregate(e, disk)
      BY <1>1, <2>1, AggregateStep
    <2>3. Known(e) /\ Reopens(e)
      BY <1>1, <2>2 DEF Known, Reopens, Old
    <2>4. aggs'[k].life = "REOPENED"
      BY <2>2, <2>3 DEF Aggregate
    <2>5. Cause(e) # "duplicate"
      BY <2>3 DEF Cause
    <2>6. /\ Len(ledger') = Len(ledger) + 1 /\ ledger'[Len(ledger) + 1] = Receipt(e, disk)
      BY <2>1 DEF Stores
    <2>7. Receipt(e, disk).key = k /\ Receipt(e, disk).cause = Cause(e)
      BY <2>2 DEF Receipt
    <2>. QED BY <2>4, <2>5, <2>6, <2>7
  <1>2. ASSUME TypeOK, NEW k \in Key, NEW quiet \in SUBSET ActiveKeys,
               NEW resolved \in SUBSET (ActiveKeys \ quiet), advance_lifecycle(quiet, resolved)
        PROVE  ~Returns(k)
    <2>1. "RESOLVED" \notin ActiveLife
      BY DEF ActiveLife
    <2>. QED BY <1>2, <2>1, AdvanceStep
  <1>3. ASSUME aggs' = aggs PROVE \A k : ~Returns(k)
    BY <1>3
  <1>4. (\/ \E i \in DOMAIN ledger : queue_periodic_summary(i)
         \/ \E q \in Pending : mark_notification(q)
         \/ UNCHANGED vars) => aggs' = aggs
    BY LedgerKept
  <1>5. TypeOK /\ [Next]_vars => [\A k \in Key : Returns(k) => Reopened(k)]_vars
    <2>. HIDE DEF Returns, Reopened
    <2>. QED BY <1>1, <1>2, <1>3, <1>4 DEF Next
  <1>. QED BY <1>5, TypeCorrect, PTL DEF Spec, ResolvedUntilReopened
=============================================================================
