--------------------------- MODULE ServiceWatchdog ---------------------------
(***************************************************************************)
(* service_watchdog.py: the root job that launchd starts once in every     *)
(* interval.  run_once walks over the installed services, restarts those   *)
(* that are down or for which the sensor health manager left a request     *)
(* file, and keeps a budget of restarts per service in state.json.         *)
(*                                                                         *)
(* Time is relative.  A tick is one launchd interval; the record of an     *)
(* attempt holds its age and that of a suppression the time left, both at  *)
(* the true time.  run_once reads the clock once, `lag' ticks ago, and     *)
(* records an attempt at that time: one for each run, and runs start in    *)
(* different intervals, so that the list of attempts is a set of ages.     *)
(***************************************************************************)
EXTENDS Integers, Sequences, FiniteSets, FiniteSetsExt, SequencesExt

CONSTANTS
    specs,        \* the services, in the order of the list
    Request,      \* names of request files: numbers, in the order of sorted()
    None,         \* no request
    MaxAttempts,  \* MAX_ATTEMPTS_PER_WINDOW
    Window,       \* ATTEMPT_WINDOW_SECONDS, in ticks
    Suppression,  \* SUPPRESSION_SECONDS, in ticks
    ReadLimit,    \* request files that one run reads
    MaxLag        \* ticks that pass during one run

Service == ToSet(specs)

ASSUME WatchdogAssumption ==
    /\ specs \in Seq(Service) /\ IsInjective(specs)
    /\ Request \subseteq Nat
    /\ None \notin Request
    /\ MaxAttempts \in Nat \ {0} /\ Suppression \in Nat \ {0} /\ ReadLimit \in Nat \ {0}
    /\ MaxLag \in Nat /\ Window \in Nat /\ MaxLag < Window

VARIABLES
    condition,  \* of the files of a service: absent, rejected by the checks, valid
    up,         \* the service is running and its heartbeat is fresh
    request,    \* each request file: unused, its service, or removed
    saved,      \* state.json: attempts and suppression of each service
    work,       \* the same in the memory of the run
    seen,       \* recovery_requests of the run
    pc,         \* idle, in the loop, or between a repair and its audit record
    at,         \* position in specs
    lag,        \* ticks since the run read the clock
    due,        \* launchd may start a run
    repairs     \* history: restarts of each service, with the age of the run

vars == <<condition, up, request, saved, work, seen, pc, at, lag, due, repairs>>

Condition == {"absent", "rejected", "valid"}

\* An attempt that is older is outside of the window of every run to come.
Oldest == Window + MaxLag

\* Runs measure the window from the time they began, up to MaxLag before the restart:
\* the budget holds over this much of it, and the history of restarts covers no more.
Horizon == Window - MaxLag

Record == [attempts : SUBSET (0..Oldest), left : (-MaxLag)..Suppression]

\* The age of the restart and of the start of its run; whether the run is under way,
\* saved its state or was cut short.
Repair == [age : 0..Horizon, start : 0..Window, fate : {"open", "recorded", "lost"}]

TypeOK ==
    /\ condition \in [Service -> Condition]
    /\ up \in [Service -> BOOLEAN]
    /\ request \in [Request -> Service \cup {"unused", "removed"}]
    /\ saved \in [Service -> Record]
    /\ work \in [Service -> Record]
    /\ seen \in [Service -> Request \cup {None}]
    /\ pc \in {"idle", "loop", "repaired"}
    /\ at \in 1..(Len(specs) + 1)
    /\ lag \in 0..MaxLag
    /\ due \in BOOLEAN
    /\ repairs \in [Service -> SUBSET Repair]

Init ==
    /\ condition \in [Service -> Condition]
    /\ up \in [Service -> BOOLEAN]
    /\ request = [r \in Request |-> "unused"]
    /\ saved = [s \in Service |-> [attempts |-> {}, left |-> -MaxLag]]
    /\ work = saved
    /\ seen = [s \in Service |-> None]
    /\ pc = "idle"
    /\ at = 1
    /\ lag = 0
    /\ due = FALSE
    /\ repairs = [s \in Service |-> {}]

-----------------------------------------------------------------------------
(* The world: files, services, requests and time.                          *)

condition_Changes(s) ==
    /\ \E c \in Condition \ {condition[s]} : condition' = [condition EXCEPT ![s] = c]
    /\ UNCHANGED <<up, request, saved, work, seen, pc, at, lag, due, repairs>>

up_Changes(s) ==
    /\ up' = [up EXCEPT ![s] = ~up[s]]
    /\ UNCHANGED <<condition, request, saved, work, seen, pc, at, lag, due, repairs>>

\* The name is a new UUID, so it may come anywhere in the order.
request_service_recovery(s, r) ==
    /\ request[r] = "unused"
    /\ request' = [request EXCEPT ![r] = s]
    /\ UNCHANGED <<condition, up, saved, work, seen, pc, at, lag, due, repairs>>

Aged(record) ==
    [attempts |-> {age + 1 : age \in record.attempts \ {Oldest}},
     left |-> IF record.left > -MaxLag THEN record.left - 1 ELSE record.left]

AgedRepairs(past) ==
    {[r EXCEPT !.age = @ + 1, !.start = @ + 1] : r \in {q \in past : q.age < Horizon}}

Tick ==
    /\ pc # "idle" => lag < MaxLag
    /\ lag' = IF pc = "idle" THEN 0 ELSE lag + 1
    /\ due' = TRUE
    /\ saved' = [s \in Service |-> Aged(saved[s])]
    /\ work' = [s \in Service |-> Aged(work[s])]
    /\ repairs' = [s \in Service |-> AgedRepairs(repairs[s])]
    /\ UNCHANGED <<condition, up, request, seen, pc, at>>

-----------------------------------------------------------------------------
(* run_once                                                                *)

Standing == {r \in Request : request[r] \in Service}

\* sorted(...)[:32]
Visible == {r \in Standing : Cardinality({q \in Standing : q < r}) < ReadLimit}

\* The last of the files read for a service wins.
_load_recovery_requests ==
    [s \in Service |->
        LET mine == {r \in Visible : request[r] = s}
        IN  IF mine = {} THEN None ELSE Max(mine)]

\* The file lock is free: launchd runs one instance of a job.
run_once_Begin ==
    /\ pc = "idle"
    /\ due
    /\ due' = FALSE
    /\ pc' = "loop"
    /\ at' = 1
    /\ lag' = 0
    /\ work' = saved
    /\ seen' = _load_recovery_requests
    /\ UNCHANGED <<condition, up, request, saved, repairs>>

At(s) ==
    /\ pc = "loop"
    /\ at <= Len(specs)
    /\ s = specs[at]

\* Not installed, or the plist or the integrity check is refused.
run_once_Blocked(s) ==
    /\ At(s)
    /\ condition[s] # "valid"
    /\ at' = at + 1
    /\ UNCHANGED <<condition, up, request, saved, work, seen, pc, lag, due, repairs>>

run_once_Healthy(s) ==
    /\ At(s)
    /\ condition[s] = "valid"
    /\ up[s] /\ seen[s] = None
    /\ at' = at + 1
    /\ UNCHANGED <<condition, up, request, saved, work, seen, pc, lag, due, repairs>>

NeedsRepair(s) ==
    /\ At(s)
    /\ condition[s] = "valid"
    /\ ~up[s] \/ seen[s] # None

FaultyWindow(s) == {age \in work[s].attempts : age - lag < Window}

_attempts(s) == {age \in work[s].attempts : age - lag <= Window}

BudgetSpent(s) == Cardinality(_attempts(s)) >= MaxAttempts

\* Prolonged by every run that finds it.
FaultySuppressedFor(s) ==
    IF BudgetSpent(s) \/ work[s].left + lag > 0 THEN Suppression ELSE work[s].left + lag

\* suppressed_until - now_epoch
SuppressedFor(s) ==
    IF BudgetSpent(s) /\ work[s].left + lag <= 0 THEN Suppression ELSE work[s].left + lag

run_once_Suppressed(s) ==
    /\ NeedsRepair(s)
    /\ SuppressedFor(s) > 0
    /\ work' = [work EXCEPT ![s] = [attempts |-> _attempts(s), left |-> SuppressedFor(s) - lag]]
    /\ at' = at + 1
    /\ UNCHANGED <<condition, up, request, saved, seen, pc, lag, due, repairs>>

\* bootstrap and kickstart, which may or may not help.
_repair(s) ==
    \E result \in BOOLEAN : up' = [up EXCEPT ![s] = result]

run_once_Repair(s) ==
    /\ NeedsRepair(s)
    /\ SuppressedFor(s) <= 0
    /\ work' = [work EXCEPT ![s] = [attempts |-> _attempts(s) \cup {lag}, left |-> -MaxLag]]
    /\ _repair(s)
    /\ repairs' = [repairs EXCEPT ![s] = @ \cup {[age |-> 0, start |-> lag, fate |-> "open"]}]
    /\ pc' = "repaired"
    /\ UNCHANGED <<condition, request, saved, seen, at, lag, due>>

\* The audit record is written, then the request file is removed.
FaultyUnlink(s) ==
    /\ pc = "repaired"
    /\ s = specs[at]
    /\ pc' = "loop"
    /\ at' = at + 1
    /\ UNCHANGED <<condition, up, request, saved, work, seen, lag, due, repairs>>

run_once_Unlink(s) ==
    /\ pc = "repaired"
    /\ s = specs[at]
    /\ request' = [r \in Request |-> IF r = seen[s] THEN "removed" ELSE request[r]]
    /\ pc' = "loop"
    /\ at' = at + 1
    /\ UNCHANGED <<condition, up, saved, work, seen, lag, due, repairs>>

Settled(fate) ==
    [s \in Service |->
        {IF r.fate = "open" THEN [r EXCEPT !.fate = fate] ELSE r : r \in repairs[s]}]

Ended ==
    /\ pc' = "idle"
    /\ at' = 1
    /\ lag' = 0
    /\ seen' = [s \in Service |-> None]

\* state.json is replaced after the loop, and only then.
run_once_Save ==
    /\ pc = "loop"
    /\ at > Len(specs)
    /\ Ended
    /\ saved' = work
    /\ repairs' = Settled("recorded")
    /\ UNCHANGED <<condition, up, request, work, due>>

\* A failed audit record, a command that times out or the end of the process: the
\* lock is given back and the memory of the run is gone.
run_once_CutShort ==
    /\ pc # "idle"
    /\ Ended
    /\ work' = saved
    /\ repairs' = Settled("lost")
    /\ UNCHANGED <<condition, up, request, saved, due>>

-----------------------------------------------------------------------------

Step(s) ==
    \/ run_once_Blocked(s) \/ run_once_Healthy(s) \/ run_once_Suppressed(s)
    \/ run_once_Repair(s) \/ run_once_Unlink(s)

World ==
    \/ \E s \in Service : condition_Changes(s) \/ up_Changes(s)
    \/ \E s \in Service, r \in Request : request_service_recovery(s, r)

Next ==
    \/ World \/ Tick
    \/ run_once_Begin \/ run_once_Save \/ run_once_CutShort
    \/ \E s \in Service : Step(s)

Spec == Init /\ [][Next]_vars

\* Time passes and launchd starts the job that is due.  Runs may be cut short again
\* and again, but not always before the same step.
FairSpec ==
    /\ Spec
    /\ WF_vars(Tick)
    /\ WF_vars(run_once_Begin)
    /\ SF_vars(run_once_Save)
    /\ \A s \in Service :
           /\ SF_vars(run_once_Repair(s))
           /\ SF_vars(run_once_Unlink(s))
           /\ SF_vars(Step(s))

-----------------------------------------------------------------------------
(* Properties.                                                             *)

Repaired(s, fates) == {r \in repairs[s] : r.fate \in fates}

\* Crash-loop protection: over runs that reach their end, no service is restarted
\* more than MaxAttempts times within any Window - MaxLag, whatever the requests, the
\* suppressions and the runs that were cut short in between.
RecordedRepairsBounded ==
    \A s \in Service : Cardinality(Repaired(s, {"open", "recorded"})) <= MaxAttempts

AlwaysValidAtLast == <>[](\A s \in Service : condition[s] = "valid")

\* Suppression is not for ever: a service that stays valid and down is restarted
\* again and again.
DownIsRepaired ==
    AlwaysValidAtLast =>
        \A s \in Service :
            []<>(up[s] \/ \E r \in repairs[s] : r.age = 0)

\* Every request is executed in the end (there are finitely many, and the file of each
\* is there until then), although only ReadLimit files are read, several may name one
\* service, and the service may be suppressed for a while.
RequestIsServed ==
    AlwaysValidAtLast =>
        []<>(\A r \in Request : request[r] \notin Service)

\* "Existing restart budgets and crash-loop suppression still apply."
\* (docs/SENSOR_HEALTH_ASSURANCE.md): no service is restarted more than MaxAttempts
\* times within any Window - MaxLag.
RepairsBounded == \A s \in Service : Cardinality(repairs[s]) <= MaxAttempts
=============================================================================
