------------------------ MODULE ServiceWatchdogProofs ------------------------
(***************************************************************************)
(* Proof about ServiceWatchdog, for any list of services, any limits, any  *)
(* window and any lag of the clock that a run reads once.                  *)
(*                                                                         *)
(* The bound on restarts rests on a correspondence that no variable holds: *)
(* every restart of a run that was not cut short is still an attempt of    *)
(* state.json or of the memory of the run, at the time the run began, and  *)
(* no two runs began at the same time.                                     *)
(***************************************************************************)
EXTENDS ServiceWatchdog, FiniteSetTheorems, TLAPS

\* The types that the argument needs.
RunTypes ==
    /\ saved \in [Service -> Record] /\ work \in [Service -> Record]
    /\ pc \in {"idle", "loop", "repaired"}
    /\ at \in 1..(Len(specs) + 1)
    /\ lag \in 0..MaxLag /\ (pc = "idle" => lag = 0)
    /\ due \in BOOLEAN
    /\ repairs \in [Service -> SUBSET Repair]

\* A restart follows the start of its run by at most MaxLag.  That of the run under
\* way began lag ticks ago, and every earlier one before it.
StartsInOrder ==
    /\ \A s \in Service : \A r \in repairs[s] :
        /\ r.age <= r.start /\ r.start <= r.age + MaxLag
        /\ pc = "idle" => r.fate # "open"
        /\ pc # "idle" => IF r.fate = "open" THEN r.start = lag ELSE r.start > lag
        /\ due => r.start > 0
    /\ due /\ pc # "idle" => lag > 0

\* A run restarts the services in the order of specs.
LoopBehind ==
    /\ pc = "repaired" => at <= Len(specs)
    /\ \A s \in Service : \A r \in repairs[s] :
        r.fate = "open" =>
            \E i \in 1..Len(specs) :
                specs[i] = s /\ i <= at /\ (pc = "loop" => i < at)

\* What is not lost is remembered: by state.json, and by the run under way.
Remembered ==
    \A s \in Service : \A r \in repairs[s] :
        /\ r.fate = "recorded" => r.start \in saved[s].attempts
        /\ pc # "idle" /\ r.fate # "lost" => r.start \in work[s].attempts

\* No two runs began at the same time.
StartsDiffer ==
    \A s \in Service : \A r, q \in repairs[s] : r.start = q.start => r = q

Counted(s) == Repaired(s, {"open", "recorded"})

Bounded ==
    \A s \in Service : IsFiniteSet(Counted(s)) /\ Cardinality(Counted(s)) <= MaxAttempts

Inv == RunTypes /\ StartsInOrder /\ LoopBehind /\ Remembered /\ StartsDiffer /\ Bounded

-----------------------------------------------------------------------------
(* Facts about the constants, the records and finite sets.                 *)

\* The bounds are numbers, and the window is longer than the longest run.
LEMMA Bounds ==
    /\ MaxLag \in Nat /\ Window \in Nat /\ Suppression \in Nat /\ MaxAttempts \in Nat
    /\ Suppression > 0 /\ MaxAttempts > 0
    /\ Oldest \in Nat /\ Oldest = Window + MaxLag
    /\ Horizon \in Nat /\ Horizon = Window - MaxLag
    /\ Len(specs) \in Nat
    /\ \A i \in 1..Len(specs) : specs[i] \in Service
<1>1. /\ MaxLag \in Nat /\ Window \in Nat /\ MaxLag < Window
      /\ Suppression \in Nat /\ MaxAttempts \in Nat /\ Suppression > 0 /\ MaxAttempts > 0
    BY WatchdogAssumption
<1>2. /\ Oldest \in Nat /\ Oldest = Window + MaxLag
      /\ Horizon \in Nat /\ Horizon = Window - MaxLag
    BY <1>1 DEF Oldest, Horizon
<1>3. Len(specs) \in Nat /\ \A i \in 1..Len(specs) : specs[i] \in Service
    BY WatchdogAssumption
<1> QED BY <1>1, <1>2, <1>3

\* No service is listed twice: a service has one position in the loop.
LEMMA OnePosition ==
    \A i, j \in 1..Len(specs) : specs[i] = specs[j] => i = j
BY WatchdogAssumption DEF IsInjective

\* The ages of a restart are numbers and it is determined by its fields.
LEMMA RepairFields ==
    ASSUME NEW r \in Repair
    PROVE  /\ r.age \in Int /\ 0 <= r.age /\ r.age <= Horizon
           /\ r.start \in Int /\ 0 <= r.start /\ r.start <= Window
           /\ r.fate \in {"open", "recorded", "lost"}
           /\ r = [age |-> r.age, start |-> r.start, fate |-> r.fate]
BY Bounds DEF Repair

\* What a function makes of a finite set is no larger than the set.
LEMMA ImageBound ==
    ASSUME NEW S, IsFiniteSet(S), NEW f, NEW n \in Nat, Cardinality(S) <= n,
           NEW T, \A t \in T : \E r \in S : t = f[r]
    PROVE  IsFiniteSet(T) /\ Cardinality(T) <= n
<1> DEFINE I == {f[r] : r \in S}
           g == [r \in S |-> f[r]]
<1>1. g \in Surjection(S, I)
    BY DEF Surjection
<1>2. IsFiniteSet(I) /\ Cardinality(I) <= Cardinality(S)
    BY <1>1, FS_Surjection
<1>3. T \in SUBSET I
    OBVIOUS
<1> HIDE DEF I, g
<1>4. IsFiniteSet(T) /\ Cardinality(T) <= Cardinality(I)
    BY <1>2, <1>3, FS_Subset
<1>5. Cardinality(T) \in Nat /\ Cardinality(I) \in Nat /\ Cardinality(S) \in Nat
    BY <1>2, <1>4, FS_CardinalityType
<1> QED BY <1>2, <1>4, <1>5

-----------------------------------------------------------------------------
(* The actions.                                                            *)

\* What the world does between two ticks touches nothing of the argument.
LEMMA FrameStep ==
    ASSUME Inv, UNCHANGED <<saved, work, pc, at, lag, due, repairs>>
    PROVE  Inv'
BY DEF Inv, RunTypes, StartsInOrder, LoopBehind, Remembered, StartsDiffer, Bounded,
       Counted, Repaired

\* The loop goes on: after a service that needs nothing, and after a restart whose
\* audit record is written.
LEMMA AdvanceStep ==
    ASSUME Inv, at <= Len(specs), pc # "idle", pc' = "loop", at' = at + 1,
           UNCHANGED <<saved, work, lag, due, repairs>>
    PROVE  Inv'
<1> USE Bounds
<1>1. RunTypes' /\ StartsInOrder'
    BY DEF Inv, RunTypes, StartsInOrder
<1>2. at \in Int
    BY DEF Inv, RunTypes
<1>3. LoopBehind'
    BY <1>2 DEF Inv, LoopBehind
<1>4. Remembered' /\ StartsDiffer' /\ Bounded'
    BY DEF Inv, Remembered, StartsDiffer, Bounded, Counted, Repaired
<1> QED BY <1>1, <1>3, <1>4 DEF Inv

\* Pruning the list of attempts forgets none that a restart of the window needs.
LEMMA PrunedRemembers ==
    ASSUME Inv, pc # "idle", NEW s \in Service,
           NEW r \in repairs[s], r.fate # "lost"
    PROVE  r.start \in _attempts(s)
<1>1. r \in Repair /\ lag \in Nat
    BY Bounds DEF Inv, RunTypes
<1>2. r.start \in Int /\ r.start <= Window /\ Window \in Int
    BY <1>1, RepairFields, Bounds
<1>3. r.start \in work[s].attempts
    BY DEF Inv, Remembered
<1>4. r.start - lag <= Window
    BY <1>1, <1>2
<1> QED BY <1>3, <1>4 DEF _attempts

\* The pruned list is a finite set of ages.
LEMMA PrunedIsFinite ==
    ASSUME Inv, NEW s \in Service
    PROVE  /\ _attempts(s) \subseteq 0..Oldest
           /\ IsFiniteSet(_attempts(s)) /\ Cardinality(_attempts(s)) \in Nat
<1>1. work[s] \in Record
    BY DEF Inv, RunTypes
<1>2. _attempts(s) \in SUBSET (0..Oldest)
    BY <1>1 DEF Record, _attempts
<1>3. 0 \in Int /\ Oldest \in Int
    BY Bounds
<1>4. IsFiniteSet(0..Oldest)
    BY <1>3, FS_Interval
<1>5. IsFiniteSet(_attempts(s))
    BY <1>2, <1>4, FS_Subset
<1> QED BY <1>2, <1>5, FS_CardinalityType

\* A suppressed service: the run prunes the list and dates the suppression.
LEMMA SuppressedStep ==
    ASSUME Inv, NEW s \in Service, run_once_Suppressed(s)
    PROVE  Inv'
<1> USE Bounds
<1>1. /\ pc = "loop" /\ pc' = "loop" /\ at <= Len(specs) /\ at' = at + 1
      /\ UNCHANGED <<saved, lag, due, repairs>>
      /\ work' = [work EXCEPT ![s] = [attempts |-> _attempts(s), left |-> SuppressedFor(s) - lag]]
    BY DEF run_once_Suppressed, NeedsRepair, At
<1>2. work[s] \in Record /\ lag \in 0..MaxLag /\ work \in [Service -> Record] /\ at \in 1..(Len(specs) + 1)
    BY DEF Inv, RunTypes
<1>3. work[s].left \in Int /\ work[s].left <= Suppression /\ -MaxLag <= work[s].left
    BY <1>2 DEF Record
<1>4. SuppressedFor(s) - lag \in (-MaxLag)..Suppression
  <2>1. SuppressedFor(s) > 0
      BY DEF run_once_Suppressed
  <2>2. SuppressedFor(s) = Suppression \/ SuppressedFor(s) = work[s].left + lag
      BY DEF SuppressedFor
  <2>3. CASE SuppressedFor(s) = Suppression
      BY <1>2, <2>3
  <2>4. CASE SuppressedFor(s) = work[s].left + lag
      BY <1>2, <1>3, <2>4
  <2> QED BY <2>2, <2>3, <2>4
<1>5. [attempts |-> _attempts(s), left |-> SuppressedFor(s) - lag] \in Record
    BY <1>4, PrunedIsFinite DEF Record
<1>6. RunTypes'
  <2>1. work' \in [Service -> Record]
      BY <1>1, <1>2, <1>5
  <2> QED BY <1>1, <1>2, <2>1 DEF Inv, RunTypes
<1>7. StartsInOrder' /\ StartsDiffer' /\ Bounded'
    BY <1>1 DEF Inv, StartsInOrder, StartsDiffer, Bounded, Counted, Repaired
<1>8. LoopBehind'
  <2>1. at \in Int /\ pc' # "repaired" /\ repairs' = repairs /\ at' = at + 1
      BY <1>1, <1>2
  <2> QED BY <2>1 DEF Inv, LoopBehind
<1>9. Remembered'
  <2> SUFFICES ASSUME NEW t \in Service, NEW r \in repairs[t]
               PROVE  /\ r.fate = "recorded" => r.start \in saved[t].attempts
                      /\ r.fate # "lost" => r.start \in work'[t].attempts
    <3>1. saved' = saved /\ repairs' = repairs
        BY <1>1
    <3> QED BY <3>1 DEF Remembered
  <2>1. r.fate = "recorded" => r.start \in saved[t].attempts
      BY DEF Inv, Remembered
  <2>2. ASSUME r.fate # "lost" PROVE r.start \in work'[t].attempts
    <3>1. CASE t = s
      <4>1. work'[t].attempts = _attempts(s)
          BY <1>1, <1>2, <3>1
      <4>2. r.start \in _attempts(s)
          BY <1>1, <2>2, <3>1, PrunedRemembers
      <4> QED BY <4>1, <4>2
    <3>2. CASE t # s
        BY <1>1, <1>2, <2>2, <3>2 DEF Inv, Remembered
    <3> QED BY <3>1, <3>2
  <2> QED BY <2>1, <2>2
<1> QED BY <1>6, <1>7, <1>8, <1>9 DEF Inv

\* A run begins: in an interval in which none began, so that every restart so far is
\* older than its clock.
LEMMA BeginStep ==
    ASSUME Inv, run_once_Begin
    PROVE  Inv'
<1> USE Bounds
<1>1. /\ pc = "idle" /\ pc' = "loop" /\ due /\ due' = FALSE /\ at' = 1 /\ lag' = 0
      /\ work' = saved /\ UNCHANGED <<saved, repairs>>
    BY DEF run_once_Begin
<1>2. RunTypes'
  <2>1. 1 \in 1..(Len(specs) + 1) /\ 0 \in 0..MaxLag
      OBVIOUS
  <2>2. work' \in [Service -> Record] /\ saved' \in [Service -> Record]
        /\ repairs' \in [Service -> SUBSET Repair]
      BY <1>1 DEF Inv, RunTypes
  <2> QED BY <1>1, <2>1, <2>2 DEF RunTypes
<1>3. \A s \in Service : \A r \in repairs[s] : r.fate # "open" /\ r.start > 0
    BY <1>1 DEF Inv, StartsInOrder
<1>4. StartsInOrder'
  <2>1. \A s \in Service : \A r \in repairs[s] : r.age <= r.start /\ r.start <= r.age + MaxLag
      BY DEF Inv, StartsInOrder
  <2> QED BY <1>1, <1>3, <2>1 DEF StartsInOrder
<1>5. LoopBehind'
    BY <1>1, <1>3 DEF LoopBehind
<1>6. Remembered'
  <2> SUFFICES ASSUME NEW t \in Service, NEW r \in repairs[t]
               PROVE  /\ r.fate = "recorded" => r.start \in saved[t].attempts
                      /\ r.fate # "lost" => r.start \in saved[t].attempts
      BY <1>1 DEF Remembered
  <2>1. r \in Repair
      BY DEF Inv, RunTypes
  <2> QED BY <1>3, <2>1, RepairFields DEF Inv, Remembered
<1>7. StartsDiffer' /\ Bounded'
    BY <1>1 DEF Inv, StartsDiffer, Bounded, Counted, Repaired
<1> QED BY <1>2, <1>4, <1>5, <1>6, <1>7 DEF Inv

\* A tick later an attempt is a tick older, and forgotten only when it is the oldest.
LEMMA AgedRecord ==
    ASSUME NEW record \in Record
    PROVE  /\ Aged(record) \in Record
           /\ \A age \in record.attempts : age < Oldest => age + 1 \in Aged(record).attempts
<1> USE Bounds
<1>1. record.attempts \subseteq 0..Oldest /\ record.left \in (-MaxLag)..Suppression
    BY DEF Record
<1>2. {age + 1 : age \in record.attempts \ {Oldest}} \subseteq 0..Oldest
    BY <1>1
<1>3. (IF record.left > -MaxLag THEN record.left - 1 ELSE record.left) \in (-MaxLag)..Suppression
    BY <1>1
<1>4. Aged(record) \in Record
    BY <1>2, <1>3 DEF Aged, Record
<1>5. ASSUME NEW age \in record.attempts, age < Oldest
      PROVE  age + 1 \in Aged(record).attempts
    BY <1>5, <1>1 DEF Aged
<1> QED BY <1>4, <1>5

\* A restart of the next tick is one of this tick within the horizon.
LEMMA AgedRepair ==
    ASSUME NEW past \in SUBSET Repair, NEW q \in AgedRepairs(past)
    PROVE  \E r \in past : /\ r.age < Horizon
                           /\ q = [age |-> r.age + 1, start |-> r.start + 1, fate |-> r.fate]
<1>1. PICK r \in past : r.age < Horizon /\ q = [r EXCEPT !.age = @ + 1, !.start = @ + 1]
    BY DEF AgedRepairs
<1>2. r = [age |-> r.age, start |-> r.start, fate |-> r.fate]
    BY RepairFields
<1>3. q = [age |-> r.age + 1, start |-> r.start + 1, fate |-> r.fate]
    BY <1>1, <1>2
<1> QED BY <1>1, <1>3

\* Time passes: a restart and the attempt that records it age together, and the
\* restart leaves the horizon before its attempt leaves the list.
LEMMA TickStep ==
    ASSUME Inv, Tick
    PROVE  Inv'
<1> DEFINE Older(r) == [age |-> r.age + 1, start |-> r.start + 1, fate |-> r.fate]
<1> USE Bounds
<1>1. /\ pc' = pc /\ at' = at /\ due' = TRUE
      /\ lag' = (IF pc = "idle" THEN 0 ELSE lag + 1) /\ (pc # "idle" => lag < MaxLag)
      /\ saved' = [s \in Service |-> Aged(saved[s])]
      /\ work' = [s \in Service |-> Aged(work[s])]
      /\ repairs' = [s \in Service |-> AgedRepairs(repairs[s])]
    BY DEF Tick
<1>2. /\ lag \in 0..MaxLag /\ at \in 1..(Len(specs) + 1) /\ pc \in {"idle", "loop", "repaired"}
      /\ saved \in [Service -> Record] /\ work \in [Service -> Record]
      /\ repairs \in [Service -> SUBSET Repair]
    BY DEF Inv, RunTypes
<1>3. ASSUME NEW t \in Service, NEW q \in repairs'[t]
      PROVE  \E r \in repairs[t] : r.age < Horizon /\ q = Older(r)
  <2>1. q \in AgedRepairs(repairs[t]) /\ repairs[t] \in SUBSET Repair
      BY <1>1, <1>2
  <2> QED BY <2>1, AgedRepair
<1>4. ASSUME NEW t \in Service, NEW r \in repairs[t], r.age < Horizon
      PROVE  /\ r.age \in Int /\ r.start \in Int /\ 0 <= r.age /\ r.age <= r.start
             /\ r.start <= r.age + MaxLag /\ r.start < Window
             /\ r.fate \in {"open", "recorded", "lost"}
  <2>1. r \in Repair
      BY <1>2
  <2>2. /\ r.age \in Int /\ r.start \in Int /\ 0 <= r.age
        /\ r.fate \in {"open", "recorded", "lost"}
      BY <2>1, RepairFields
  <2>3. r.age <= r.start /\ r.start <= r.age + MaxLag
      BY DEF Inv, StartsInOrder
  <2> QED BY <1>4, <2>2, <2>3
<1>5. RunTypes'
  <2>1. saved' \in [Service -> Record] /\ work' \in [Service -> Record]
      BY <1>1, <1>2, AgedRecord
  <2>2. ASSUME NEW t \in Service, NEW q \in repairs'[t] PROVE q \in Repair
    <3>1. PICK r \in repairs[t] : r.age < Horizon /\ q = Older(r)
        BY <1>3
    <3>2. /\ r.age \in Int /\ r.start \in Int /\ 0 <= r.age /\ r.age <= r.start
          /\ r.start < Window /\ r.fate \in {"open", "recorded", "lost"}
        BY <1>4, <3>1
    <3>3. r.age + 1 \in 0..Horizon /\ r.start + 1 \in 0..Window
        BY <3>1, <3>2
    <3> QED BY <3>1, <3>2, <3>3 DEF Repair
  <2>3. repairs' \in [Service -> SUBSET Repair]
    <3>1. \A t \in Service : AgedRepairs(repairs[t]) \in SUBSET Repair
        BY <1>1, <2>2
    <3> QED BY <1>1, <3>1
  <2>4. lag' \in 0..MaxLag /\ (pc' = "idle" => lag' = 0)
      BY <1>1, <1>2
  <2> QED BY <1>1, <1>2, <2>1, <2>3, <2>4 DEF RunTypes
<1>6. StartsInOrder'
  <2>1. ASSUME NEW t \in Service, NEW q \in repairs'[t]
        PROVE  /\ q.age <= q.start /\ q.start <= q.age + MaxLag
               /\ pc' = "idle" => q.fate # "open"
               /\ pc' # "idle" => IF q.fate = "open" THEN q.start = lag' ELSE q.start > lag'
               /\ q.start > 0
    <3>1. PICK r \in repairs[t] : r.age < Horizon /\ q = Older(r)
        BY <1>3
    <3>2. /\ r.age \in Int /\ r.start \in Int /\ 0 <= r.age /\ r.age <= r.start
          /\ r.start <= r.age + MaxLag
        BY <1>4, <3>1
    <3>3. q.age = r.age + 1 /\ q.start = r.start + 1 /\ q.fate = r.fate
        BY <3>1
    <3>4. /\ pc = "idle" => r.fate # "open"
          /\ pc # "idle" => IF r.fate = "open" THEN r.start = lag ELSE r.start > lag
        BY DEF Inv, StartsInOrder
    <3>5. lag \in Int
        BY <1>2
    <3> QED BY <1>1, <3>2, <3>3, <3>4, <3>5
  <2>2. pc' # "idle" => lag' > 0
      BY <1>1, <1>2
  <2> QED BY <2>1, <2>2 DEF StartsInOrder
<1>7. LoopBehind'
  <2>1. pc' = "repaired" => at' <= Len(specs)
      BY <1>1 DEF Inv, LoopBehind
  <2>2. ASSUME NEW t \in Service, NEW q \in repairs'[t], q.fate = "open"
        PROVE  \E i \in 1..Len(specs) : specs[i] = t /\ i <= at' /\ (pc' = "loop" => i < at')
    <3>1. PICK r \in repairs[t] : q = Older(r)
        BY <1>3
    <3>2. r.fate = "open"
        BY <2>2, <3>1
    <3> QED BY <1>1, <3>2 DEF Inv, LoopBehind
  <2> QED BY <2>1, <2>2 DEF LoopBehind
<1>8. Remembered'
  <2>1. ASSUME NEW t \in Service, NEW q \in repairs'[t]
        PROVE  /\ q.fate = "recorded" => q.start \in saved'[t].attempts
               /\ pc' # "idle" /\ q.fate # "lost" => q.start \in work'[t].attempts
    <3>1. PICK r \in repairs[t] : r.age < Horizon /\ q = Older(r)
        BY <1>3
    <3>2. r.start \in Int /\ r.start < Window
        BY <1>4, <3>1
    <3>3. r.start < Oldest
        BY <3>2
    <3>4. q.start = r.start + 1 /\ q.fate = r.fate
        BY <3>1
    <3>5. saved'[t] = Aged(saved[t]) /\ work'[t] = Aged(work[t])
        BY <1>1
    <3>6. saved[t] \in Record /\ work[t] \in Record
        BY <1>2
    <3>7. /\ r.fate = "recorded" => r.start \in saved[t].attempts
          /\ pc # "idle" /\ r.fate # "lost" => r.start \in work[t].attempts
        BY DEF Inv, Remembered
    <3>8. /\ r.start \in saved[t].attempts => r.start + 1 \in Aged(saved[t]).attempts
          /\ r.start \in work[t].attempts => r.start + 1 \in Aged(work[t]).attempts
        BY <3>3, <3>6, AgedRecord
    <3> QED BY <1>1, <3>4, <3>5, <3>7, <3>8
  <2> QED BY <2>1 DEF Remembered
<1>9. StartsDiffer'
  <2>1. ASSUME NEW t \in Service, NEW p \in repairs'[t], NEW q \in repairs'[t],
               p.start = q.start
        PROVE  p = q
    <3>1. PICK a \in repairs[t] : a.age < Horizon /\ p = Older(a)
        BY <1>3
    <3>2. PICK b \in repairs[t] : b.age < Horizon /\ q = Older(b)
        BY <1>3
    <3>3. a.start \in Int /\ b.start \in Int
        BY <1>4, <3>1, <3>2
    <3>4. a.start + 1 = b.start + 1
        BY <2>1, <3>1, <3>2
    <3>5. a.start = b.start
        BY <3>3, <3>4
    <3>6. a = b
        BY <3>5 DEF Inv, StartsDiffer
    <3> QED BY <3>1, <3>2, <3>6
  <2> QED BY <2>1 DEF StartsDiffer
<1>10. Bounded'
  <2> SUFFICES ASSUME NEW t \in Service
               PROVE  IsFiniteSet(Counted(t)') /\ Cardinality(Counted(t)') <= MaxAttempts
      BY DEF Bounded
  <2> DEFINE f == [r \in Counted(t) |-> Older(r)]
  <2>1. ASSUME NEW q \in Counted(t)' PROVE \E r \in Counted(t) : q = f[r]
    <3>1. q \in repairs'[t] /\ q.fate \in {"open", "recorded"}
        BY DEF Counted, Repaired
    <3>2. PICK r \in repairs[t] : q = Older(r)
        BY <1>3, <3>1
    <3>3. r \in Counted(t)
        BY <3>1, <3>2 DEF Counted, Repaired
    <3> QED BY <3>2, <3>3
  <2>2. IsFiniteSet(Counted(t)) /\ Cardinality(Counted(t)) <= MaxAttempts
      BY DEF Inv, Bounded
  <2> HIDE DEF f
  <2> QED BY <2>1, <2>2, ImageBound
<1> QED BY <1>5, <1>6, <1>7, <1>8, <1>9, <1>10 DEF Inv

\* A restart needs a budget: a spent one would have been a suppression.
LEMMA RepairHasBudget ==
    ASSUME Inv, NEW s \in Service, run_once_Repair(s)
    PROVE  Cardinality(_attempts(s)) < MaxAttempts
<1>1. work[s] \in Record /\ lag \in Int
    BY Bounds DEF Inv, RunTypes
<1>2. work[s].left \in Int
    BY <1>1, Bounds DEF Record
<1>3. SuppressedFor(s) <= 0
    BY DEF run_once_Repair
<1>4. ~BudgetSpent(s)
  <2>1. ASSUME BudgetSpent(s), work[s].left + lag <= 0 PROVE FALSE
      BY <1>3, <2>1, Bounds DEF SuppressedFor
  <2>2. ASSUME BudgetSpent(s), work[s].left + lag > 0 PROVE FALSE
      BY <1>1, <1>2, <1>3, <2>2 DEF SuppressedFor
  <2> QED BY <1>1, <1>2, <2>1, <2>2
<1> QED BY <1>4, PrunedIsFinite, Bounds DEF BudgetSpent

\* The restarts of a service that were not lost are at most as many as the attempts
\* in the list that the run goes by.
LEMMA CountedAreAttempts ==
    ASSUME Inv, pc # "idle", NEW s \in Service
    PROVE  /\ IsFiniteSet(Counted(s)) /\ Cardinality(Counted(s)) \in Nat
           /\ Cardinality(Counted(s)) <= Cardinality(_attempts(s))
<1> DEFINE f == [r \in Counted(s) |-> r.start]
<1>1. \A r \in Counted(s) : r \in repairs[s] /\ r.fate # "lost"
    BY DEF Counted, Repaired
<1>2. \A r \in Counted(s) : r.start \in _attempts(s)
    BY <1>1, PrunedRemembers
<1>3. \A r, q \in Counted(s) : f[r] = f[q] => r = q
    BY <1>1 DEF Inv, StartsDiffer
<1>4. f \in [Counted(s) -> _attempts(s)]
    BY <1>2
<1> HIDE DEF f
<1>5. f \in Injection(Counted(s), _attempts(s))
    BY <1>3, <1>4 DEF Injection, IsInjective
<1>6. IsFiniteSet(_attempts(s))
    BY PrunedIsFinite
<1>7. IsFiniteSet(Counted(s)) /\ Cardinality(Counted(s)) <= Cardinality(_attempts(s))
    BY <1>5, <1>6, FS_Injection
<1> QED BY <1>7, FS_CardinalityType

\* A restart: the first of its service in this run, at a time at which no other run
\* of that service began, and with room in the budget.
LEMMA RepairStep ==
    ASSUME Inv, NEW s \in Service, run_once_Repair(s)
    PROVE  Inv'
<1> DEFINE new == [age |-> 0, start |-> lag, fate |-> "open"]
           entry == [attempts |-> _attempts(s) \cup {lag}, left |-> -MaxLag]
<1> USE Bounds
<1>1. /\ pc = "loop" /\ pc' = "repaired" /\ at <= Len(specs) /\ s = specs[at]
      /\ at' = at /\ lag' = lag /\ due' = due /\ saved' = saved
      /\ work' = [work EXCEPT ![s] = entry]
      /\ repairs' = [repairs EXCEPT ![s] = @ \cup {new}]
    BY DEF run_once_Repair, NeedsRepair, At
<1>2. /\ lag \in 0..MaxLag /\ at \in 1..(Len(specs) + 1) /\ due \in BOOLEAN
      /\ saved \in [Service -> Record] /\ work \in [Service -> Record]
      /\ repairs \in [Service -> SUBSET Repair]
    BY DEF Inv, RunTypes
<1>3. at \in 1..Len(specs)
    BY <1>1, <1>2
<1>4. ASSUME NEW r \in repairs[s] PROVE r.fate # "open" /\ r.start > lag
  <2>1. ASSUME r.fate = "open" PROVE FALSE
    <3>1. PICK i \in 1..Len(specs) : specs[i] = s /\ i < at
        BY <1>1, <2>1 DEF Inv, LoopBehind
    <3>2. i = at
        BY <1>1, <1>3, <3>1, OnePosition
    <3> QED BY <1>3, <3>1, <3>2
  <2> QED BY <1>1, <2>1 DEF Inv, StartsInOrder
<1>5. /\ repairs'[s] = repairs[s] \cup {new}
      /\ \A t \in Service : t # s => repairs'[t] = repairs[t]
      /\ work'[s] = entry
      /\ \A t \in Service : t # s => work'[t] = work[t]
    BY <1>1, <1>2
<1>6. new \in Repair
  <2>1. 0 \in 0..Horizon /\ lag \in 0..Window
      BY <1>2
  <2> QED BY <2>1 DEF Repair
<1>7. entry \in Record
  <2>1. _attempts(s) \cup {lag} \subseteq 0..Oldest
    <3>1. lag \in 0..Oldest
        BY <1>2
    <3> QED BY <3>1, PrunedIsFinite
  <2>2. -MaxLag \in (-MaxLag)..Suppression
      OBVIOUS
  <2> QED BY <2>1, <2>2 DEF Record
<1>8. ASSUME NEW t \in Service, NEW r \in repairs'[t]
      PROVE  r \in repairs[t] \/ (t = s /\ r = new)
    BY <1>5
<1>9. new.age = 0 /\ new.start = lag /\ new.fate = "open"
    OBVIOUS
<1> HIDE DEF new, entry
<1>10. RunTypes'
  <2>1. work' \in [Service -> Record]
      BY <1>1, <1>2, <1>7
  <2>2. repairs' \in [Service -> SUBSET Repair]
    <3>1. repairs[s] \cup {new} \in SUBSET Repair
        BY <1>2, <1>6
    <3> QED BY <1>1, <1>2, <3>1
  <2> QED BY <1>1, <1>2, <2>1, <2>2 DEF RunTypes
<1>11. StartsInOrder'
  <2>1. due' /\ pc' # "idle" => lag' > 0
      BY <1>1 DEF Inv, StartsInOrder
  <2>2. ASSUME NEW t \in Service, NEW r \in repairs'[t]
        PROVE  /\ r.age <= r.start /\ r.start <= r.age + MaxLag
               /\ IF r.fate = "open" THEN r.start = lag ELSE r.start > lag
               /\ due => r.start > 0
    <3>1. CASE r \in repairs[t]
        BY <1>1, <3>1 DEF Inv, StartsInOrder
    <3>2. CASE r = new
      <4>1. lag \in Int /\ 0 <= lag /\ lag <= MaxLag
          BY <1>2
      <4> QED BY <1>1, <1>9, <2>1, <3>2, <4>1
    <3> QED BY <1>8, <3>1, <3>2
  <2> QED BY <1>1, <2>1, <2>2 DEF StartsInOrder
<1>12. LoopBehind'
  <2>1. ASSUME NEW t \in Service, NEW r \in repairs'[t], r.fate = "open"
        PROVE  \E i \in 1..Len(specs) : specs[i] = t /\ i <= at
    <3>1. CASE r \in repairs[t]
        BY <2>1, <3>1 DEF Inv, LoopBehind
    <3>2. CASE t = s
      <4>1. at <= at
          BY <1>3
      <4> QED BY <1>1, <1>3, <3>2, <4>1
    <3> QED BY <1>8, <3>1, <3>2
  <2> QED BY <1>1, <2>1 DEF LoopBehind
<1>13. Remembered'
  <2>1. ASSUME NEW t \in Service, NEW r \in repairs'[t]
        PROVE  /\ r.fate = "recorded" => r.start \in saved[t].attempts
               /\ r.fate # "lost" => r.start \in work'[t].attempts
    <3>1. CASE r \in repairs[t] /\ t = s
      <4>1. r.fate = "recorded" => r.start \in saved[t].attempts
          BY <3>1 DEF Inv, Remembered
      <4>2. r.fate # "lost" => r.start \in _attempts(s)
          BY <1>1, <3>1, PrunedRemembers
      <4>3. work'[t].attempts = _attempts(s) \cup {lag}
          BY <1>5, <3>1 DEF entry
      <4> QED BY <4>1, <4>2, <4>3
    <3>2. CASE r \in repairs[t] /\ t # s
        BY <1>1, <1>5, <3>2 DEF Inv, Remembered
    <3>3. CASE t = s /\ r = new
      <4>1. work'[t].attempts = _attempts(s) \cup {lag}
          BY <1>5, <3>3 DEF entry
      <4> QED BY <1>9, <3>3, <4>1
    <3> QED BY <1>8, <3>1, <3>2, <3>3
  <2> QED BY <1>1, <2>1 DEF Remembered
<1>14. StartsDiffer'
  <2>1. ASSUME NEW t \in Service, NEW p \in repairs'[t], NEW q \in repairs'[t],
               p.start = q.start
        PROVE  p = q
    <3>1. CASE p \in repairs[t] /\ q \in repairs[t]
        BY <2>1, <3>1 DEF Inv, StartsDiffer
    <3>2. \A r \in repairs[s] : r.start # new.start
      <4> SUFFICES ASSUME NEW r \in repairs[s] PROVE r.start # new.start
          OBVIOUS
      <4>1. r.start > lag /\ lag \in Int
          BY <1>2, <1>4
      <4>2. r.start \in Int
          BY <1>2, RepairFields
      <4> QED BY <1>9, <4>1, <4>2
    <3> QED BY <1>8, <2>1, <3>1, <3>2
  <2> QED BY <2>1 DEF StartsDiffer
<1>15. Bounded'
  <2> SUFFICES ASSUME NEW t \in Service
               PROVE  IsFiniteSet(Counted(t)') /\ Cardinality(Counted(t)') <= MaxAttempts
      BY DEF Bounded
  <2>1. CASE t # s
    <3>1. Counted(t)' = Counted(t)
        BY <1>5, <2>1 DEF Counted, Repaired
    <3> QED BY <3>1 DEF Inv, Bounded
  <2>2. CASE t = s
    <3>1. Counted(s)' = Counted(s) \cup {new}
        BY <1>5, <1>9 DEF Counted, Repaired
    <3>2. new \notin Counted(s)
        BY <1>4, <1>9 DEF Counted, Repaired
    <3>3. /\ IsFiniteSet(Counted(s)) /\ Cardinality(Counted(s)) \in Nat
          /\ Cardinality(Counted(s)) <= Cardinality(_attempts(s))
        BY <1>1, CountedAreAttempts
    <3>4. Cardinality(_attempts(s)) \in Nat /\ Cardinality(_attempts(s)) < MaxAttempts
        BY PrunedIsFinite, RepairHasBudget
    <3>5. IsFiniteSet(Counted(s)') /\ Cardinality(Counted(s)') = Cardinality(Counted(s)) + 1
        BY <3>1, <3>2, <3>3, FS_AddElement
    <3> QED BY <2>2, <3>3, <3>4, <3>5
  <2> QED BY <2>1, <2>2
<1> QED BY <1>10, <1>11, <1>12, <1>13, <1>14, <1>15 DEF Inv

\* The end of a run, saved or cut short, changes no more than the fate of a restart.
LEMMA SettledRepair ==
    ASSUME NEW s \in Service, repairs \in [Service -> SUBSET Repair],
           NEW fate \in {"recorded", "lost"}, NEW q \in Settled(fate)[s]
    PROVE  \E r \in repairs[s] :
               q = [age |-> r.age, start |-> r.start,
                    fate |-> IF r.fate = "open" THEN fate ELSE r.fate]
<1>1. PICK r \in repairs[s] : q = IF r.fate = "open" THEN [r EXCEPT !.fate = fate] ELSE r
    BY DEF Settled
<1>2. r = [age |-> r.age, start |-> r.start, fate |-> r.fate]
    BY RepairFields
<1>3. [r EXCEPT !.fate = fate] = [age |-> r.age, start |-> r.start, fate |-> fate]
    BY <1>2
<1>4. q = [age |-> r.age, start |-> r.start,
           fate |-> IF r.fate = "open" THEN fate ELSE r.fate]
    BY <1>1, <1>2, <1>3
<1> QED BY <1>4

\* The end of a run: state.json takes over the memory of the run, or the restarts of
\* the run are forgotten.
LEMMA EndStep ==
    ASSUME Inv, run_once_Save \/ run_once_CutShort
    PROVE  Inv'
<1> USE Bounds
<1>1. PICK fate \in {"recorded", "lost"} :
        /\ repairs' = Settled(fate)
        /\ saved' = IF fate = "recorded" THEN work ELSE saved
        /\ work' \in {work, saved}
    BY DEF run_once_Save, run_once_CutShort
<1>2. /\ pc # "idle" /\ pc' = "idle" /\ at' = 1 /\ lag' = 0 /\ due' = due
    BY DEF run_once_Save, run_once_CutShort, Ended
<1>3. /\ due \in BOOLEAN /\ lag \in 0..MaxLag
      /\ saved \in [Service -> Record] /\ work \in [Service -> Record]
      /\ repairs \in [Service -> SUBSET Repair]
    BY DEF Inv, RunTypes
<1> DEFINE Closed(r) == [age |-> r.age, start |-> r.start,
                         fate |-> IF r.fate = "open" THEN fate ELSE r.fate]
<1>4. ASSUME NEW t \in Service, NEW q \in repairs'[t]
      PROVE  \E r \in repairs[t] : q = Closed(r)
    BY <1>1, <1>3, SettledRepair
<1>5. ASSUME NEW t \in Service, NEW r \in repairs[t]
      PROVE  /\ Closed(r) \in Repair
             /\ Closed(r).age = r.age /\ Closed(r).start = r.start
             /\ Closed(r).fate = IF r.fate = "open" THEN fate ELSE r.fate
             /\ Closed(r).fate # "open"
  <2>1. r \in Repair
      BY <1>3
  <2>2. Closed(r) \in Repair
      BY <2>1, <1>1 DEF Repair
  <2> QED BY <2>2
<1> HIDE DEF Closed
<1>6. RunTypes'
  <2>1. 1 \in 1..(Len(specs) + 1) /\ 0 \in 0..MaxLag
      OBVIOUS
  <2>2. saved' \in [Service -> Record] /\ work' \in [Service -> Record]
      BY <1>1, <1>3
  <2>3. \A t \in Service : repairs'[t] \subseteq Repair
      BY <1>4, <1>5
  <2>4. repairs' = [t \in Service |-> repairs'[t]]
      BY <1>1 DEF Settled
  <2>5. repairs' \in [Service -> SUBSET Repair]
      BY <2>3, <2>4
  <2> QED BY <1>2, <1>3, <2>1, <2>2, <2>5 DEF RunTypes
<1>7. StartsInOrder'
  <2>1. ASSUME NEW t \in Service, NEW q \in repairs'[t]
        PROVE  /\ q.age <= q.start /\ q.start <= q.age + MaxLag
               /\ q.fate # "open" /\ (due => q.start > 0)
    <3>1. PICK r \in repairs[t] : q = Closed(r)
        BY <1>4
    <3>2. /\ r.age <= r.start /\ r.start <= r.age + MaxLag /\ (due => r.start > 0)
        BY DEF Inv, StartsInOrder
    <3> QED BY <1>5, <3>1, <3>2
  <2> QED BY <1>2, <2>1 DEF StartsInOrder
<1>8. LoopBehind'
    BY <1>2, <1>4, <1>5 DEF LoopBehind
<1>9. Remembered'
  <2>1. ASSUME NEW t \in Service, NEW q \in repairs'[t], q.fate = "recorded"
        PROVE  q.start \in saved'[t].attempts
    <3>1. PICK r \in repairs[t] : q = Closed(r)
        BY <1>4
    <3>2. q.start = r.start /\ q.fate = IF r.fate = "open" THEN fate ELSE r.fate
        BY <1>5, <3>1
    <3>3. CASE fate = "recorded"
      <4>1. r.fate # "lost"
          BY <2>1, <3>2
      <4> QED BY <1>1, <1>2, <3>2, <3>3, <4>1 DEF Inv, Remembered
    <3>4. CASE fate = "lost"
      <4>1. r.fate = "recorded"
          BY <2>1, <3>2, <3>4
      <4> QED BY <1>1, <3>2, <3>4, <4>1 DEF Inv, Remembered
    <3> QED BY <1>1, <3>3, <3>4
  <2> QED BY <1>2, <2>1 DEF Remembered
<1>10. StartsDiffer'
  <2>1. ASSUME NEW t \in Service, NEW p \in repairs'[t], NEW q \in repairs'[t],
               p.start = q.start
        PROVE  p = q
    <3>1. PICK a \in repairs[t] : p = Closed(a)
        BY <1>4
    <3>2. PICK b \in repairs[t] : q = Closed(b)
        BY <1>4
    <3>3. a.start = b.start
        BY <1>5, <2>1, <3>1, <3>2
    <3>4. a = b
        BY <3>3 DEF Inv, StartsDiffer
    <3> QED BY <3>1, <3>2, <3>4
  <2> QED BY <2>1 DEF StartsDiffer
<1>11. Bounded'
  <2> SUFFICES ASSUME NEW t \in Service
               PROVE  IsFiniteSet(Counted(t)') /\ Cardinality(Counted(t)') <= MaxAttempts
      BY DEF Bounded
  <2> DEFINE f == [r \in Counted(t) |-> Closed(r)]
  <2>1. ASSUME NEW q \in Counted(t)' PROVE \E r \in Counted(t) : q = f[r]
    <3>1. q \in repairs'[t] /\ q.fate \in {"open", "recorded"}
        BY DEF Counted, Repaired
    <3>2. PICK r \in repairs[t] : q = Closed(r)
        BY <1>4, <3>1
    <3>3. r.fate \in {"open", "recorded"}
        BY <1>5, <3>1, <3>2
    <3>4. r \in Counted(t)
        BY <3>3 DEF Counted, Repaired
    <3> QED BY <3>2, <3>4
  <2>2. IsFiniteSet(Counted(t)) /\ Cardinality(Counted(t)) <= MaxAttempts
      BY DEF Inv, Bounded
  <2> HIDE DEF f
  <2> QED BY <2>1, <2>2, ImageBound
<1> QED BY <1>6, <1>7, <1>8, <1>9, <1>10, <1>11 DEF Inv

-----------------------------------------------------------------------------
(* The theorem.                                                            *)

\* No restart has happened at first.
LEMMA InitInv ==
    Init => Inv
<1> SUFFICES ASSUME Init PROVE Inv
    OBVIOUS
<1> USE Bounds
<1>1. /\ saved = [s \in Service |-> [attempts |-> {}, left |-> -MaxLag]] /\ work = saved
      /\ pc = "idle" /\ at = 1 /\ lag = 0 /\ due = FALSE
      /\ repairs = [s \in Service |-> {}]
    BY DEF Init
<1>2. RunTypes
  <2>1. [attempts |-> {}, left |-> -MaxLag] \in Record
    <3>1. -MaxLag \in (-MaxLag)..Suppression
        OBVIOUS
    <3> QED BY <3>1 DEF Record
  <2>2. 1 \in 1..(Len(specs) + 1) /\ 0 \in 0..MaxLag
      OBVIOUS
  <2> QED BY <1>1, <2>1, <2>2 DEF RunTypes
<1>3. \A s \in Service : repairs[s] = {}
    BY <1>1
<1>4. StartsInOrder /\ LoopBehind /\ Remembered /\ StartsDiffer
    BY <1>1, <1>3 DEF StartsInOrder, LoopBehind, Remembered, StartsDiffer
<1>5. Bounded
  <2>1. \A s \in Service : Counted(s) = {}
      BY <1>3 DEF Counted, Repaired
  <2>2. IsFiniteSet({}) /\ Cardinality({}) = 0
      BY FS_EmptySet
  <2>3. 0 <= MaxAttempts
      OBVIOUS
  <2>4. \A s \in Service : IsFiniteSet(Counted(s)) /\ Cardinality(Counted(s)) <= MaxAttempts
      BY <2>1, <2>2, <2>3
  <2> QED BY <2>4 DEF Bounded
<1> QED BY <1>2, <1>4, <1>5 DEF Inv

\* The invariant is inductive: one case for each group of actions.
LEMMA NextInv ==
    Inv /\ [Next]_vars => Inv'
<1> SUFFICES ASSUME Inv, [Next]_vars PROVE Inv'
    OBVIOUS
<1>1. CASE World \/ UNCHANGED vars
  <2>1. UNCHANGED <<saved, work, pc, at, lag, due, repairs>>
      BY <1>1 DEF World, condition_Changes, up_Changes, request_service_recovery, vars
  <2> QED BY <2>1, FrameStep
<1>2. CASE Tick
    BY <1>2, TickStep
<1>3. CASE run_once_Begin
    BY <1>3, BeginStep
<1>4. CASE run_once_Save \/ run_once_CutShort
    BY <1>4, EndStep
<1>5. ASSUME NEW s \in Service, Step(s) PROVE Inv'
  <2>1. CASE run_once_Blocked(s) \/ run_once_Healthy(s)
    <3>1. /\ at <= Len(specs) /\ pc # "idle" /\ pc' = "loop" /\ at' = at + 1
          /\ UNCHANGED <<saved, work, lag, due, repairs>>
        BY <2>1 DEF run_once_Blocked, run_once_Healthy, At
    <3> QED BY <3>1, AdvanceStep
  <2>2. CASE run_once_Suppressed(s)
      BY <2>2, SuppressedStep
  <2>3. CASE run_once_Repair(s)
      BY <2>3, RepairStep
  <2>4. CASE run_once_Unlink(s)
    <3>1. /\ pc = "repaired" /\ pc' = "loop" /\ at' = at + 1
          /\ UNCHANGED <<saved, work, lag, due, repairs>>
        BY <2>4 DEF run_once_Unlink
    <3>2. at <= Len(specs)
        BY <3>1 DEF Inv, LoopBehind
    <3> QED BY <3>1, <3>2, AdvanceStep
  <2> QED BY <1>5, <2>1, <2>2, <2>3, <2>4 DEF Step
<1> QED BY <1>1, <1>2, <1>3, <1>4, <1>5 DEF Next

\* Crash-loop protection of run_once, for every list of distinct services, every
\* budget, window and suppression, and runs of any length MaxLag below the window:
\* within any Window - MaxLag no service is restarted more than MaxAttempts times by
\* runs that were not cut short, whatever requests, suppressions and lost runs come in
\* between.
THEOREM RestartsAreBounded == Spec => []RecordedRepairsBounded
<1>1. Inv => RecordedRepairsBounded
    BY DEF Inv, Bounded, Counted, RecordedRepairsBounded
<1> QED BY InitInv, NextInv, <1>1, PTL DEF Spec
=============================================================================
