-------------------------- MODULE ContainmentProofs --------------------------
(***************************************************************************)
(* Proofs about ContainmentLease, for every number of restarts.            *)
(***************************************************************************)
EXTENDS ContainmentLease, TLAPS

\* Control points inside the native boundary, and the check that follows it.
Native == {"revalidate", "signal", "wait", "recheck", "confirm"}

\* The lease's own process has received SIGSTOP and, while it lives, is stopped.
TargetStopped == "target" \in hit /\ (pid = "target" => stopped)

\* What the next committed state is going to claim holds already.
ClaimInv ==
    pc = "commit" =>
        /\ to = "PAUSED" => TargetStopped /\ call = "pause"
        /\ to \in {"RESUMED", "ROLLED_BACK"} => (pid = "target" => ~stopped)
        /\ to \in {"TERMINATED", "PROCESS_EXITED"} => pid # "target"

\* A request is persisted before the native boundary acts on it, and what the
\* boundary has found out so far still holds.
ActionInv ==
    /\ pc \in Native =>
        /\ call = "pause" => row = "PAUSE_REQUESTED"
        /\ call # "pause" => row # "PAUSED"
    /\ (call = "pause" /\ pc \in {"wait", "recheck"}) => (pid = "target" => TargetStopped)
    /\ (call = "pause" /\ pc = "confirm") => TargetStopped
    /\ pc \in {"recheck", "confirm"} => call # "terminate"

\* The caller's object may be older than the row, but a row says PAUSED only
\* while that object is the one pause was given or returned.
ObjectInv ==
    /\ row = "PAUSED" => held \in {"REQUESTED", "PAUSED"}
    /\ pc = "chain" => row = cur
    /\ call = "pause" => IF pc = "commit" /\ to = "VALIDATING" THEN cur = held
                         ELSE held = "REQUESTED"
    /\ (call = "reconcile" /\ pc = "identify") => cur = held
    /\ (call \in {"resume", "terminate"} /\ pc = "identify") => row # "PAUSED"

LeaseInv == LeaseTellsTruth /\ ClaimInv /\ ActionInv /\ ObjectInv

\* Of the states, only REQUESTED may be followed by VALIDATING.
LEMMA OnlyRequestedValidates == \A s : "VALIDATING" \in Allowed(s) => s = "REQUESTED"
  BY DEF Allowed, Rejected

\* Every step of the coordinator, the boundary, the operating system and the
\* clock keeps the invariant.
LEMMA LeaseInductive == LeaseInv /\ [Next]_vars => LeaseInv'
<1> SUFFICES ASSUME LeaseInv, [Next]_vars PROVE LeaseInv'
    OBVIOUS
<1> USE DEF LeaseInv, LeaseTellsTruth, ClaimInv, ActionInv, ObjectInv, TargetStopped, Native,
            vars, osVars, leaseVars, storeVars, callVars
<1>1. CASE Exit
  BY <1>1 DEF Exit
<1>2. CASE Reuse
  BY <1>2 DEF Reuse
<1>3. CASE Expire
  BY <1>3 DEF Expire
<1>4. CASE pause
  BY <1>4 DEF pause, Begin, Enter
<1>5. CASE resume
  BY <1>5 DEF resume, Begin, Enter
<1>6. CASE terminate
  BY <1>6 DEF terminate, Begin, Enter
<1>7. CASE reconcile
  BY <1>7 DEF reconcile, Begin, Goto
<1>8. CASE transition_Commit
  BY <1>8, OnlyRequestedValidates DEF transition_Commit
<1>9. CASE transition_Chain
  BY <1>9 DEF transition_Chain, Continues, Continue, Return, Enter, Goto
<1>10. CASE transition_Invalid
  BY <1>10 DEF transition_Invalid, Raise, Return
<1>11. CASE transition_Fails
  BY <1>11 DEF transition_Fails, Raise, Return
<1>12. CASE identify
  <2> USE DEF identify, Enter, Goto, Identified
  <2>1. CASE pause_Identify
    BY <1>12, <2>1 DEF pause_Identify
  <2>2. CASE release_Identify
    BY <1>12, <2>2 DEF release_Identify
  <2>3. CASE reconcile_Identify
    BY <1>12, <2>3 DEF reconcile_Identify
  <2> QED
    BY <1>12, <2>1, <2>2, <2>3
<1>13. CASE reconcile_Unchanged
  BY <1>13 DEF reconcile_Unchanged, Return
<1>14. CASE apply_Revalidate
  BY <1>14 DEF apply_Revalidate, boundaryUnchanged, Verdict, Enter, Goto, Identified
<1>15. CASE apply_Signal
  BY <1>15 DEF apply_Signal, boundaryUnchanged, Verdict, Enter, Goto
<1>16. CASE apply_Wait
  BY <1>16 DEF apply_Wait, boundaryUnchanged, Verdict, Enter, Goto, Reached
<1>17. CASE apply_Recheck
  BY <1>17 DEF apply_Recheck, boundaryUnchanged, Verdict, Enter, Goto, Identified
<1>18. CASE confirm
  BY <1>18 DEF confirm, boundaryUnchanged, Verdict, Enter, Goto
<1>19. CASE Crash
  BY <1>19 DEF Crash, Return
<1>20. CASE UNCHANGED vars
  BY <1>20
<1> QED
  BY <1>1, <1>2, <1>3, <1>4, <1>5, <1>6, <1>7, <1>8, <1>9, <1>10, <1>11, <1>12, <1>13,
     <1>14, <1>15, <1>16, <1>17, <1>18, <1>19, <1>20 DEF Next

\* The persisted lease never claims an effect its process does not show, for
\* every number of crashes and every sequence of calls.
THEOREM LeaseIsTruthful == Spec => []LeaseTellsTruth
<1>1. Init => LeaseInv
  BY DEF Init, LeaseInv, LeaseTellsTruth, ClaimInv, ActionInv, ObjectInv, TargetStopped, Native
<1>2. LeaseInv /\ [Next]_vars => LeaseInv'
  BY LeaseInductive
<1>3. LeaseInv => LeaseTellsTruth
  BY DEF LeaseInv
<1> QED
  BY <1>1, <1>2, <1>3, PTL DEF Spec
-----------------------------------------------------------------------------
\* What must hold before the boundary may stop anything.
Ready == "PAUSE_REQUESTED" \in recorded /\ preserved /\ ~crit

\* IntentBeforeSignal, strengthened by what pause has established on its way.
IntentInv ==
    /\ IntentBeforeSignal
    /\ call = "pause" =>
        /\ pc \in Native => Ready
        /\ (pc = "commit" /\ to \in {"EVIDENCE_PRESERVED", "PAUSE_REQUESTED"})
                => preserved /\ ~crit
        /\ (pc = "chain" /\ cur = "EVIDENCE_PRESERVED") => preserved /\ ~crit
        /\ (pc = "chain" /\ cur = "PAUSE_REQUESTED") => Ready

\* Every step keeps the order evidence, durable request, signal.
LEMMA IntentInductive == IntentInv /\ [Next]_vars => IntentInv'
<1> SUFFICES ASSUME IntentInv, [Next]_vars PROVE IntentInv'
    OBVIOUS
<1> USE DEF IntentInv, IntentBeforeSignal, Ready, Native,
            vars, osVars, leaseVars, storeVars, callVars
<1>1. CASE Exit
  BY <1>1 DEF Exit
<1>2. CASE Reuse
  BY <1>2 DEF Reuse
<1>3. CASE Expire
  BY <1>3 DEF Expire
<1>4. CASE pause
  BY <1>4 DEF pause, Begin, Enter
<1>5. CASE resume
  BY <1>5 DEF resume, Begin, Enter
<1>6. CASE terminate
  BY <1>6 DEF terminate, Begin, Enter
<1>7. CASE reconcile
  BY <1>7 DEF reconcile, Begin, Goto
<1>8. CASE transition_Commit
  BY <1>8 DEF transition_Commit
<1>9. CASE transition_Chain
  BY <1>9 DEF transition_Chain, Continues, Continue, Return, Enter, Goto
<1>10. CASE transition_Invalid
  BY <1>10 DEF transition_Invalid, Raise, Return
<1>11. CASE transition_Fails
  BY <1>11 DEF transition_Fails, Raise, Return
<1>12. CASE identify
  BY <1>12 DEF identify, pause_Identify, release_Identify, reconcile_Identify, Enter, Goto, Identified
<1>13. CASE reconcile_Unchanged
  BY <1>13 DEF reconcile_Unchanged, Return
<1>14. CASE apply_Revalidate
  BY <1>14 DEF apply_Revalidate, boundaryUnchanged, Verdict, Enter, Goto
<1>15. CASE apply_Signal
  BY <1>15 DEF apply_Signal, boundaryUnchanged, Verdict, Enter, Goto
<1>16. CASE apply_Wait
  BY <1>16 DEF apply_Wait, boundaryUnchanged, Verdict, Enter, Goto
<1>17. CASE apply_Recheck
  BY <1>17 DEF apply_Recheck, boundaryUnchanged, Verdict, Enter, Goto
<1>18. CASE confirm
  BY <1>18 DEF confirm, boundaryUnchanged, Verdict, Enter
<1>19. CASE Crash
  BY <1>19 DEF Crash, Return
<1>20. CASE UNCHANGED vars
  BY <1>20
<1> QED
  BY <1>1, <1>2, <1>3, <1>4, <1>5, <1>6, <1>7, <1>8, <1>9, <1>10, <1>11, <1>12, <1>13,
     <1>14, <1>15, <1>16, <1>17, <1>18, <1>19, <1>20 DEF Next

\* Whatever the coordinator stops, even in the window of a PID reuse, it stops
\* after the request is durable, the evidence preserved and criticality excluded.
THEOREM IntentIsDurable == Spec => []IntentBeforeSignal
<1>1. Init => IntentInv
  BY DEF Init, IntentInv, IntentBeforeSignal, Native
<1>2. IntentInv /\ [Next]_vars => IntentInv'
  BY IntentInductive
<1>3. IntentInv => IntentBeforeSignal
  BY DEF IntentInv
<1> QED
  BY <1>1, <1>2, <1>3, PTL DEF Spec

-----------------------------------------------------------------------------
(* Types.                                                                  *)

\* The states a method requests and the verdicts it records are lease states.
LEMMA StatesEntered ==
    /\ {"VALIDATING", "PAUSE_REQUESTED", "RESUME_REQUESTED", "TERMINATE_REQUESTED",
        "REJECTED_IDENTITY_MISMATCH", "REJECTED_CRITICAL_PROCESS", "REJECTED_POLICY",
        "EVIDENCE_PRESERVED", "PROCESS_EXITED", "FAILED", "TERMINATE_FAILED", "LEASE_EXPIRED",
        "ROLLBACK_REQUESTED", "REQUESTED"} \subseteq LeaseState
    /\ \A ok \in BOOLEAN : Verdict(ok) \in LeaseState
<1>1. {"VALIDATING", "PAUSE_REQUESTED", "RESUME_REQUESTED", "TERMINATE_REQUESTED",
       "REJECTED_IDENTITY_MISMATCH", "REJECTED_CRITICAL_PROCESS", "REJECTED_POLICY",
       "EVIDENCE_PRESERVED", "PROCESS_EXITED", "FAILED", "TERMINATE_FAILED", "LEASE_EXPIRED",
       "ROLLBACK_REQUESTED", "REQUESTED"} \subseteq LeaseState
  BY DEF LeaseState, Rejected
<1>2. {"PAUSED", "PAUSE_FAILED", "RESUMED", "FAILED", "TERMINATED", "TERMINATE_FAILED",
       "ROLLED_BACK"} \subseteq LeaseState
  BY DEF LeaseState
<1>3. \A ok \in BOOLEAN : Verdict(ok) \in LeaseState
  BY <1>2 DEF Verdict
<1> QED BY <1>1, <1>3

\* The two halves of TypeOK: what surrounds the call, and the call itself.
WorldTypes ==
    /\ pid \in Occupant /\ stopped \in BOOLEAN /\ sigterm \in BOOLEAN
    /\ hit \subseteq {"target", "other"}
    /\ crit \in BOOLEAN /\ preserved \in BOOLEAN /\ rollback \in BOOLEAN
    /\ expired \in BOOLEAN

CallTypes ==
    /\ row \in LeaseState /\ recorded \subseteq LeaseState /\ chained \subseteq LeaseState
    /\ held \in LeaseState /\ cur \in LeaseState /\ to \in LeaseState
    /\ call \in Method /\ live \in Occupant /\ crashes \in 0..MaxCrashes
    /\ pc \in {"idle", "commit", "chain", "identify", "revalidate", "signal", "wait",
               "recheck", "confirm"}

\* The types of the process, the PID and the stored lease are inductive.
LEMMA WorldInductive == WorldTypes /\ [Next]_vars => WorldTypes'
<1> SUFFICES ASSUME WorldTypes, [Next]_vars PROVE WorldTypes'
  OBVIOUS
<1> USE DEF WorldTypes, osVars, leaseVars
<1>1. CASE UNCHANGED <<osVars, leaseVars, expired>>
  BY <1>1
<1>2. CASE Exit
  BY <1>2 DEF Exit, Occupant
<1>3. CASE Reuse
  BY <1>3 DEF Reuse, Occupant
<1>4. CASE Expire
  BY <1>4 DEF Expire
<1>5. CASE apply_Signal
  <2>1. /\ pid' \in Occupant /\ hit' \subseteq {"target", "other"}
        /\ stopped' \in {stopped, TRUE, FALSE} /\ sigterm' \in {sigterm, TRUE, FALSE}
    BY <1>5 DEF apply_Signal, Occupant
  <2>2. UNCHANGED <<leaseVars, expired>>
    BY <1>5 DEF apply_Signal, boundaryUnchanged
  <2> QED BY <2>1, <2>2
<1>6. CASE pause \/ resume \/ terminate \/ reconcile
  BY <1>1, <1>6 DEF pause, resume, terminate, reconcile, Begin
<1>7. CASE \/ transition_Commit \/ transition_Chain \/ transition_Invalid \/ transition_Fails
           \/ identify \/ reconcile_Unchanged \/ Crash
  BY <1>1, <1>7 DEF transition_Commit, transition_Chain, transition_Invalid, transition_Fails,
     identify, reconcile_Unchanged, Crash
<1>8. CASE apply_Revalidate \/ apply_Wait \/ apply_Recheck \/ confirm
  BY <1>1, <1>8 DEF apply_Revalidate, apply_Wait, apply_Recheck, confirm, boundaryUnchanged
<1>9. CASE UNCHANGED vars
  BY <1>1, <1>9 DEF vars
<1> QED BY <1>2, <1>3, <1>4, <1>5, <1>6, <1>7, <1>8, <1>9 DEF Next

\* So are those of the call in progress.
LEMMA CallInductive == WorldTypes /\ CallTypes /\ [Next]_vars => CallTypes'
<1> SUFFICES ASSUME WorldTypes, CallTypes, [Next]_vars PROVE CallTypes'
  OBVIOUS
<1> USE DEF CallTypes, storeVars, callVars
<1>0. "none" \in Method /\ "none" \in Occupant /\ pid \in Occupant
  BY DEF WorldTypes, Method, Occupant
<1>1. CASE UNCHANGED <<storeVars, callVars, crashes>>
  BY <1>1
<1>2. CASE Exit \/ Reuse \/ Expire \/ UNCHANGED vars
  BY <1>1, <1>2 DEF Exit, Reuse, Expire, vars
<1>3. ASSUME NEW m \in Method, Begin(m), to' \in LeaseState, pc' \in {"commit", "identify"}
      PROVE  CallTypes'
  BY <1>3 DEF Begin
<1>4. CASE pause \/ resume \/ terminate \/ reconcile
  BY <1>3, <1>4, StatesEntered DEF pause, resume, terminate, reconcile, Enter, Goto, Method
<1>5. ASSUME NEW s \in LeaseState, Return(s), UNCHANGED <<row, recorded, crashes>>,
             chained' \subseteq LeaseState
      PROVE  CallTypes'
  BY <1>0, <1>5 DEF Return
<1>6. CASE transition_Commit
  BY <1>6 DEF transition_Commit
<1>7. CASE transition_Invalid \/ transition_Fails \/ reconcile_Unchanged
  BY <1>5, <1>7 DEF transition_Invalid, transition_Fails, reconcile_Unchanged, Raise
<1>8. CASE transition_Chain
  <2>1. CASE Continues
    <3>1. Continue /\ chained' = chained \cup {cur}
          /\ UNCHANGED <<row, recorded, held, call, cur, live, crashes>>
      BY <1>8, <2>1 DEF transition_Chain
    <3>2. /\ pc' \in {"commit", "identify", "revalidate"}
          /\ to' \in {to, "PAUSE_REQUESTED", "ROLLBACK_REQUESTED", "FAILED"}
      BY <3>1 DEF Continue, Enter, Goto
    <3> QED BY <3>1, <3>2, StatesEntered
  <2>2. CASE ~Continues
    <3>1. Return(cur) /\ chained' = chained \cup {cur} /\ UNCHANGED <<row, recorded, crashes>>
      BY <1>8, <2>2 DEF transition_Chain
    <3> QED BY <1>5, <3>1
  <2> QED BY <2>1, <2>2
<1>9. CASE identify
  <2>1. live' = pid /\ UNCHANGED <<storeVars, held, call, cur, crashes>>
    BY <1>9 DEF identify, pause_Identify, release_Identify, reconcile_Identify
  <2>2. pc' \in {"commit", "revalidate"} /\ to' \in LeaseState
    <3> USE StatesEntered DEF Enter, Goto
    <3>1. CASE pause_Identify
      BY <3>1 DEF pause_Identify
    <3>2. CASE release_Identify
      BY <3>2 DEF release_Identify
    <3>3. CASE reconcile_Identify
      BY <3>3 DEF reconcile_Identify
    <3> QED BY <1>9, <3>1, <3>2, <3>3 DEF identify
  <2> QED BY <1>0, <2>1, <2>2
<1>10. ASSUME UNCHANGED boundaryUnchanged,
              \/ \E ok \in BOOLEAN : Enter(Verdict(ok))
              \/ \E l \in {"signal", "wait", "recheck", "confirm"} : Goto(l)
       PROVE  CallTypes'
  <2>1. UNCHANGED <<row, recorded, chained, held, call, cur, live, crashes>>
    BY <1>10 DEF boundaryUnchanged
  <2>2. pc' \in {"commit", "signal", "wait", "recheck", "confirm"} /\ to' \in LeaseState
    BY <1>10, StatesEntered DEF Enter, Goto
  <2> QED BY <2>1, <2>2
<1>11. CASE apply_Revalidate \/ apply_Signal \/ apply_Wait \/ apply_Recheck
  <2>1. UNCHANGED boundaryUnchanged
    BY <1>11 DEF apply_Revalidate, apply_Signal, apply_Wait, apply_Recheck
  <2>2. \/ Enter(Verdict(TRUE)) \/ Enter(Verdict(FALSE))
        \/ Goto("signal") \/ Goto("wait") \/ Goto("recheck") \/ Goto("confirm")
    BY <1>11 DEF apply_Revalidate, apply_Signal, apply_Wait, apply_Recheck
  <2> QED BY <1>10, <2>1, <2>2
<1>12. CASE confirm
  <2>1. Enter(Verdict(TRUE)) \/ Enter(Verdict(FALSE))
    BY <1>12 DEF confirm, WorldTypes
  <2> QED BY <1>10, <1>12, <2>1 DEF confirm
<1>13. CASE Crash
  <2>1. crashes' \in 0..MaxCrashes
    BY <1>13, CrashAssumption DEF Crash
  <2> QED BY <1>0, <1>13, <2>1 DEF Crash, Return
<1> QED BY <1>2, <1>4, <1>6, <1>7, <1>8, <1>9, <1>11, <1>12, <1>13 DEF Next

\* Every copy of the lease only ever has a state of ContainmentState, although states
\* are computed by the methods and by the outcome of the boundary.
THEOREM LeaseTypes == Spec => []TypeOK
<1>1. Init => WorldTypes
  BY DEF Init, WorldTypes, Occupant
<1>2. Init => CallTypes
  <2>1. 0 \in 0..MaxCrashes /\ "none" \in Method /\ "none" \in Occupant
    BY CrashAssumption DEF Method, Occupant
  <2> QED BY <2>1, StatesEntered DEF Init, CallTypes
<1>3. WorldTypes /\ CallTypes => TypeOK
  BY DEF WorldTypes, CallTypes, TypeOK
<1> QED BY <1>1, <1>2, <1>3, WorldInductive, CallInductive, PTL DEF Spec
=============================================================================
