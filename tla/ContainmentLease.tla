--------------------------- MODULE ContainmentLease ---------------------------
(***************************************************************************)
(* Containment of one process under one lease: ContainmentCoordinator      *)
(* (mac_audit_agent/anti_ransomware/containment_orchestrator.py), the      *)
(* lease state machine (leases.py) and the native boundary that sends the  *)
(* signals (native/anti_ransomware_sensor/containment_boundary.c), against *)
(* an operating system in which the process may exit and its PID be given  *)
(* to another one between any two steps.                                   *)
(*                                                                         *)
(* Every database transaction, identity check and signal is a step; the    *)
(* coordinator may crash, and a transaction may fail, between any two.     *)
(* The caller keeps the lease object that the last call returned: after an *)
(* exception it still has the old one, after a restart it has the row.     *)
(***************************************************************************)
EXTENDS Integers

CONSTANT MaxCrashes     \* bound: number of restarts of the coordinator

ASSUME CrashAssumption == MaxCrashes \in Nat

Rejected == {"REJECTED_IDENTITY_MISMATCH", "REJECTED_POLICY", "REJECTED_CRITICAL_PROCESS"}
LeaseState ==
    Rejected \cup
    {"REQUESTED", "VALIDATING", "EVIDENCE_PRESERVED", "PAUSE_REQUESTED", "PAUSED",
     "PAUSE_FAILED", "USER_OR_ADMIN_DECISION_PENDING", "RESUME_REQUESTED", "RESUMED",
     "TERMINATE_REQUESTED", "TERMINATED", "TERMINATE_FAILED", "PROCESS_EXITED",
     "LEASE_EXPIRED", "ROLLBACK_REQUESTED", "ROLLED_BACK", "FAILED", "CLOSED"}

\* ALLOWED_TRANSITIONS
Allowed(s) ==
    CASE s = "REQUESTED" -> {"VALIDATING"}
      [] s = "VALIDATING" -> Rejected \cup {"EVIDENCE_PRESERVED"}
      [] s = "EVIDENCE_PRESERVED" -> {"PAUSE_REQUESTED"}
      [] s = "PAUSE_REQUESTED" -> {"PAUSED", "PAUSE_FAILED", "PROCESS_EXITED"}
      [] s = "PAUSED" -> {"USER_OR_ADMIN_DECISION_PENDING", "RESUME_REQUESTED",
                          "TERMINATE_REQUESTED", "LEASE_EXPIRED", "PROCESS_EXITED"}
      [] s = "USER_OR_ADMIN_DECISION_PENDING" ->
            {"RESUME_REQUESTED", "TERMINATE_REQUESTED", "LEASE_EXPIRED", "PROCESS_EXITED"}
      [] s = "RESUME_REQUESTED" -> {"RESUMED", "FAILED", "PROCESS_EXITED"}
      [] s = "TERMINATE_REQUESTED" -> {"TERMINATED", "TERMINATE_FAILED", "PROCESS_EXITED"}
      [] s = "LEASE_EXPIRED" -> {"ROLLBACK_REQUESTED"}
      [] s = "ROLLBACK_REQUESTED" -> {"ROLLED_BACK", "FAILED", "PROCESS_EXITED"}
      [] s \in {"RESUMED", "TERMINATED", "ROLLED_BACK", "PROCESS_EXITED"} -> {"CLOSED"}
      [] OTHER -> {}

VARIABLES
    pid,            \* what runs under the PID: the lease's process, another one, nothing
    stopped,        \* it is stopped (SSTOP)
    sigterm,        \* a SIGTERM waits for it to be continued
    hit,            \* processes that have received SIGSTOP
    crit, preserved, rollback,  \* criticality, evidence_state, rollback_action
    expired,        \* expires_at has passed
    row,            \* state of the persisted lease
    recorded,       \* states that have a containment action record
    chained,        \* states that have a custody chain entry
    held,           \* state of the caller's lease object
    call, pc,       \* method in progress and its next step
    cur, to,        \* state of its lease object; state _transition is entering
    live,           \* what live_identity returned
    crashes

osVars == <<pid, stopped, sigterm, hit>>
leaseVars == <<crit, preserved, rollback>>
storeVars == <<row, recorded, chained>>
callVars == <<held, call, pc, cur, to, live>>
vars == <<osVars, leaseVars, expired, storeVars, callVars, crashes>>

Method == {"none", "pause", "resume", "terminate", "reconcile"}
Occupant == {"target", "other", "none"}

\* The lease only ever has states of LeaseState, in every copy of it, and the
\* call in progress is at one of its control points.
TypeOK ==
    /\ pid \in Occupant /\ stopped \in BOOLEAN /\ sigterm \in BOOLEAN
    /\ hit \subseteq {"target", "other"}
    /\ crit \in BOOLEAN /\ preserved \in BOOLEAN /\ rollback \in BOOLEAN
    /\ expired \in BOOLEAN
    /\ row \in LeaseState /\ recorded \subseteq LeaseState /\ chained \subseteq LeaseState
    /\ held \in LeaseState /\ cur \in LeaseState /\ to \in LeaseState
    /\ call \in Method /\ live \in Occupant /\ crashes \in 0..MaxCrashes
    /\ pc \in {"idle", "commit", "chain", "identify", "revalidate", "signal", "wait",
               "recheck", "confirm"}

Init ==
    /\ pid = "target" /\ stopped = FALSE /\ sigterm = FALSE /\ hit = {}
    /\ crit \in BOOLEAN /\ preserved \in BOOLEAN /\ rollback \in BOOLEAN
    /\ expired = FALSE
    /\ row = "REQUESTED" /\ recorded = {} /\ chained = {}
    /\ held = "REQUESTED" /\ call = "none" /\ pc = "idle"
    /\ cur = "REQUESTED" /\ to = "REQUESTED" /\ live = "none"
    /\ crashes = 0

-----------------------------------------------------------------------------
(* Operating system and clock.                                             *)

\* A process may be killed whatever its state.
Exit ==
    /\ pid # "none"
    /\ pid' = "none" /\ stopped' = FALSE /\ sigterm' = FALSE
    /\ UNCHANGED <<hit, leaseVars, expired, storeVars, callVars, crashes>>

Reuse ==
    /\ pid = "none" /\ pid' = "other"
    /\ UNCHANGED <<stopped, sigterm, hit, leaseVars, expired, storeVars, callVars, crashes>>

Expire ==
    /\ ~expired /\ expired' = TRUE
    /\ UNCHANGED <<osVars, leaseVars, storeVars, callVars, crashes>>

-----------------------------------------------------------------------------
(* _transition and the calls.                                              *)

Enter(s) == pc' = "commit" /\ to' = s
Goto(l) == pc' = l /\ to' = to

\* The call returns lease object s.
Return(s) ==
    /\ held' = s
    /\ call' = "none" /\ pc' = "idle" /\ live' = "none"
    /\ cur' = s /\ to' = s

\* An exception ends the call; the caller keeps its object.
Raise == Return(held)

\* ContainmentLease.transition, then the lease row and the action record in one
\* transaction.
transition_Commit ==
    /\ pc = "commit" /\ to \in Allowed(cur)
    /\ row' = to /\ recorded' = recorded \cup {to}
    /\ cur' = to /\ pc' = "chain"
    /\ UNCHANGED <<osVars, leaseVars, expired, chained, held, call, to, live, crashes>>

\* Definitions named Faulty... are plausible defects of the definition that
\* follows them; no specification uses them.  This one signals before the request
\* is on disk.
FaultyContinue ==
    CASE call = "pause" /\ cur = "VALIDATING" -> Goto("identify")
      [] call = "reconcile" /\ cur = "LEASE_EXPIRED" -> Enter("ROLLBACK_REQUESTED")
      [] call = "reconcile" /\ cur = "ROLLBACK_REQUESTED" /\ ~(live = "target" /\ rollback) ->
            Enter("FAILED")
      [] cur \in {"RESUME_REQUESTED", "TERMINATE_REQUESTED"} -> Goto("identify")
      [] OTHER -> Goto("revalidate")

\* What a method does once its lease has entered cur.
Continue ==
    CASE call = "pause" /\ cur = "VALIDATING" -> Goto("identify")
      [] call = "pause" /\ cur = "EVIDENCE_PRESERVED" -> Enter("PAUSE_REQUESTED")
      [] call = "reconcile" /\ cur = "LEASE_EXPIRED" -> Enter("ROLLBACK_REQUESTED")
      [] call = "reconcile" /\ cur = "ROLLBACK_REQUESTED" /\ ~(live = "target" /\ rollback) ->
            Enter("FAILED")
      [] cur \in {"RESUME_REQUESTED", "TERMINATE_REQUESTED"} -> Goto("identify")
      [] OTHER -> Goto("revalidate")

Continues ==
    \/ call = "pause" /\ cur \in {"VALIDATING", "EVIDENCE_PRESERVED", "PAUSE_REQUESTED"}
    \/ call = "reconcile" /\ cur \in {"LEASE_EXPIRED", "ROLLBACK_REQUESTED"}
    \/ call \in {"resume", "terminate"} /\ cur \in {"RESUME_REQUESTED", "TERMINATE_REQUESTED"}

\* append_chain_entry, in a transaction of its own.
transition_Chain ==
    /\ pc = "chain"
    /\ chained' = chained \cup {cur}
    /\ IF Continues THEN Continue /\ UNCHANGED <<held, call, cur, live>> ELSE Return(cur)
    /\ UNCHANGED <<osVars, leaseVars, expired, row, recorded, crashes>>

\* ValueError AR030.
transition_Invalid ==
    /\ pc = "commit" /\ to \notin Allowed(cur)
    /\ Raise
    /\ UNCHANGED <<osVars, leaseVars, expired, storeVars, crashes>>

\* An error of either transaction.
transition_Fails ==
    /\ pc = "chain" \/ (pc = "commit" /\ to \in Allowed(cur))
    /\ Raise
    /\ UNCHANGED <<osVars, leaseVars, expired, storeVars, crashes>>

Reconcilable == {"PAUSED", "USER_OR_ADMIN_DECISION_PENDING", "LEASE_EXPIRED",
                 "ROLLBACK_REQUESTED"}

Begin(m) ==
    /\ pc = "idle"
    /\ call' = m /\ cur' = held
    /\ UNCHANGED <<osVars, leaseVars, expired, storeVars, held, live, crashes>>

pause == Begin("pause") /\ Enter("VALIDATING")
resume == Begin("resume") /\ Enter("RESUME_REQUESTED")
terminate == Begin("terminate") /\ Enter("TERMINATE_REQUESTED")
reconcile == Begin("reconcile") /\ held \in Reconcilable /\ Goto("identify")

\* live_identity and matches_exact, and what each method makes of them.
Identified(l) == l = "target"

pause_Identify ==
    /\ call = "pause"
    /\ Enter(CASE ~Identified(pid) -> "REJECTED_IDENTITY_MISMATCH"
               [] Identified(pid) /\ crit -> "REJECTED_CRITICAL_PROCESS"
               [] Identified(pid) /\ ~crit /\ ~preserved -> "REJECTED_POLICY"
               [] OTHER -> "EVIDENCE_PRESERVED")
    /\ UNCHANGED <<held, call, cur>>

release_Identify ==
    /\ call \in {"resume", "terminate"}
    /\ CASE pid = "none" -> Enter("PROCESS_EXITED")
         [] pid # "none" /\ ~Identified(pid) ->
                Enter(IF call = "resume" THEN "FAILED" ELSE "TERMINATE_FAILED")
         [] OTHER -> Goto("revalidate")
    /\ UNCHANGED <<held, call, cur>>

reconcile_Identify ==
    /\ call = "reconcile"
    /\ LET due == expired /\ cur \in {"PAUSED", "USER_OR_ADMIN_DECISION_PENDING"}
       IN  \/ pid = "none" /\ Enter("PROCESS_EXITED") /\ UNCHANGED <<held, call, cur>>
           \/ /\ pid # "none" /\ cur = "LEASE_EXPIRED"
              /\ Enter("ROLLBACK_REQUESTED") /\ UNCHANGED <<held, call, cur>>
           \/ /\ pid # "none" /\ cur = "ROLLBACK_REQUESTED"
              /\ IF Identified(pid) /\ rollback THEN Goto("revalidate") ELSE Enter("FAILED")
              /\ UNCHANGED <<held, call, cur>>
           \/ /\ pid # "none" /\ Identified(pid) /\ due
              /\ Enter("LEASE_EXPIRED") /\ UNCHANGED <<held, call, cur>>

\* The lease is returned as it is: not expired, or the PID belongs to another
\* process.
reconcile_Unchanged ==
    /\ pc = "identify" /\ call = "reconcile" /\ pid # "none"
    /\ cur \in {"PAUSED", "USER_OR_ADMIN_DECISION_PENDING"}
    /\ ~Identified(pid) \/ ~expired
    /\ Return(cur)
    /\ UNCHANGED <<osVars, leaseVars, expired, storeVars, crashes>>

identify ==
    /\ pc = "identify"
    /\ live' = pid
    /\ pause_Identify \/ release_Identify \/ reconcile_Identify
    /\ UNCHANGED <<osVars, leaseVars, expired, storeVars, crashes>>

-----------------------------------------------------------------------------
(* msaa_ar_apply_exact_action.                                             *)

\* A state the lease does not have.
FaultyVerdict(ok) ==
    CASE call = "pause" -> IF ok THEN "PAUSED" ELSE "PAUSE_FAILED"
      [] call = "resume" -> IF ok THEN "RESUMED" ELSE "RESUME_FAILED"
      [] call = "terminate" -> IF ok THEN "TERMINATED" ELSE "TERMINATE_FAILED"
      [] OTHER -> IF ok THEN "ROLLED_BACK" ELSE "FAILED"

\* The state a method enters by the outcome of its action.
Verdict(ok) ==
    CASE call = "pause" -> IF ok THEN "PAUSED" ELSE "PAUSE_FAILED"
      [] call = "resume" -> IF ok THEN "RESUMED" ELSE "FAILED"
      [] call = "terminate" -> IF ok THEN "TERMINATED" ELSE "TERMINATE_FAILED"
      [] OTHER -> IF ok THEN "ROLLED_BACK" ELSE "FAILED"

boundaryUnchanged == <<leaseVars, expired, storeVars, held, call, cur, live, crashes>>

\* critical_identity and msaa_ar_revalidate_process_identity; either may refuse,
\* the second also because the executable cannot be read.
apply_Revalidate ==
    /\ pc = "revalidate"
    /\ \/ Identified(pid) /\ Goto("signal")
       \/ Enter(Verdict(FALSE))
    /\ UNCHANGED <<osVars, boundaryUnchanged>>

\* kill: whatever runs under the PID gets the signal.  A stopped process keeps a
\* SIGTERM pending until it is continued; a running one may ignore it.
apply_Signal ==
    /\ pc = "signal"
    /\ IF pid = "none" THEN Enter(Verdict(FALSE)) /\ UNCHANGED osVars
       ELSE /\ Goto("wait")
            /\ \/ /\ call = "pause"
                  /\ stopped' = TRUE /\ hit' = hit \cup {pid}
                  /\ UNCHANGED <<pid, sigterm>>
               \/ /\ call \in {"resume", "reconcile"}
                  /\ stopped' = FALSE /\ sigterm' = FALSE /\ UNCHANGED hit
                  /\ pid' \in IF sigterm THEN {pid, "none"} ELSE {pid}
               \/ /\ call = "terminate" /\ stopped /\ sigterm' = TRUE
                  /\ UNCHANGED <<pid, stopped, hit>>
               \/ /\ call = "terminate" /\ ~stopped /\ pid' \in {pid, "none"}
                  /\ UNCHANGED <<stopped, sigterm, hit>>
    /\ UNCHANGED boundaryUnchanged

\* wait_for_state; after 200 ms without the desired state it fails.
Reached ==
    CASE call = "pause" -> pid # "none" /\ stopped
      [] call = "terminate" -> pid = "none"
      [] OTHER -> pid # "none" /\ ~stopped

apply_Wait ==
    /\ pc = "wait"
    /\ \/ Reached /\ (IF call = "terminate" THEN Enter(Verdict(TRUE)) ELSE Goto("recheck"))
       \/ Enter(Verdict(FALSE))
    /\ UNCHANGED <<osVars, boundaryUnchanged>>

\* The post-condition is taken from whatever runs under the PID.
FaultyRecheck ==
    /\ pc = "recheck"
    /\ Goto("confirm")
    /\ UNCHANGED <<osVars, boundaryUnchanged>>

\* "Revalidate after state verification so a reused PID cannot be treated as
\* success."
apply_Recheck ==
    /\ pc = "recheck"
    /\ \/ Identified(pid) /\ Goto("confirm")
       \/ Enter(Verdict(FALSE))
    /\ UNCHANGED <<osVars, boundaryUnchanged>>

\* is_paused, asked by the coordinator.
confirm ==
    /\ pc = "confirm"
    /\ Enter(Verdict(IF call = "pause" THEN stopped ELSE ~stopped))
    /\ UNCHANGED <<osVars, boundaryUnchanged>>

\* The coordinator's process dies; the next one loads the row.
Crash ==
    /\ crashes < MaxCrashes
    /\ crashes' = crashes + 1
    /\ Return(row)
    /\ UNCHANGED <<osVars, leaseVars, expired, storeVars>>

Next ==
    \/ Exit \/ Reuse \/ Expire
    \/ pause \/ resume \/ terminate \/ reconcile
    \/ transition_Commit \/ transition_Chain \/ transition_Invalid \/ transition_Fails
    \/ identify \/ reconcile_Unchanged
    \/ apply_Revalidate \/ apply_Signal \/ apply_Wait \/ apply_Recheck
    \/ confirm
    \/ Crash

Spec == Init /\ [][Next]_vars

-----------------------------------------------------------------------------
(* Properties.                                                             *)

\* The persisted state never claims an effect the process does not show: a
\* PAUSED lease has really stopped its own process, not a later owner of the
\* PID; a RESUMED or ROLLED_BACK one has left it running; a TERMINATED or
\* PROCESS_EXITED one is about a process that is gone.  This holds through
\* crashes, failed transactions, calls repeated with a stale lease object and
\* PID reuse inside msaa_ar_apply_exact_action.
LeaseTellsTruth ==
    /\ row = "PAUSED" => "target" \in hit /\ (pid = "target" => stopped)
    /\ row \in {"RESUMED", "ROLLED_BACK"} => (pid = "target" => ~stopped)
    /\ row \in {"TERMINATED", "PROCESS_EXITED"} => pid # "target"

\* "Evidence is mandatory before action": whatever was stopped, the request was
\* on disk before, the evidence preserved and the process not critical.
IntentBeforeSignal ==
    hit # {} => "PAUSE_REQUESTED" \in recorded /\ preserved /\ ~crit

-----------------------------------------------------------------------------
(* Statements of the repository that the code does not keep.               *)

\* docs/ANTI_RANSOMWARE_CONTAINMENT_MODEL.md: "Missing processes become
\* PROCESS_EXITED".  From LEASE_EXPIRED that transition is not allowed.
MissingBecomesExited ==
    (call = "reconcile" /\ pc = "commit" /\ to = "PROCESS_EXITED") => to \in Allowed(cur)

\* docs/AR_GAP_003_CLOSURE_MATRIX.json: "no orphaned suspension".  When no call
\* is in progress, a stopped process has a lease that reconcile acts on.
SuspensionIsCovered ==
    (pc = "idle" /\ pid = "target" /\ stopped) => row \in Reconcilable
=============================================================================
