--------------------------- MODULE DefinitionProofs ---------------------------
(***************************************************************************)
(* Proofs about DefinitionRelease, for any number of processes, versions   *)
(* and builds: types, the two pointers always resolve, and what is active  *)
(* was accepted.                                                           *)
(***************************************************************************)
EXTENDS DefinitionRelease, TLAPS

USE VersionAssumption, BuildAssumption, RetainAssumption

-----------------------------------------------------------------------------
(* The inductive invariant.                                                *)

\* Every operation that is under way holds update.lock.
Mutex == \A p \in Process : pc[p] # "idle" => lock = p

\* A pointer is absent, or names a release that is there with the same content.
Sound(pointer) ==
    \/ pointer = NoPointer
    \/ /\ pointer.version \in Version
       /\ pointer.build # Absent
       /\ releases[pointer.version] = pointer.build

\* A pointer is absent, or its release was accepted or left active by a torn operation.
Accepted(pointer) == pointer = NoPointer \/ pointer.build \in vetted \cup torn

\* From "verify" to "discard" the operation works on a version; from the moment it is
\* published, and until it becomes the active one, no pointer names it.
Publishing(p) ==
    /\ pc[p] \in {"verify", "previous", "current", "reload", "restore", "discard"} =>
           call[p].version \in Version
    /\ pc[p] \in {"previous", "current"} =>
           releases[call[p].version] # Absent /\ active.version # call[p].version
    /\ pc[p] \in {"previous", "current", "reload", "restore", "discard"} =>
           previous.version # call[p].version
    /\ pc[p] = "discard" => active.version # call[p].version

\* The pointer that will be restored is as good as the one it was read from.
Restoring(p) ==
    /\ pc[p] = "current" => call[p].old = active
    /\ pc[p] \in {"reload", "restore"} => call[p].old.version # call[p].version
    /\ pc[p] \in {"reload", "restore", "rollback_reload"} =>
           Sound(call[p].old) /\ Accepted(call[p].old)

Unverdicted(p) == pc[p] \in {"reload", "restore"}

Inv ==
    /\ TypeOK
    /\ Mutex
    /\ Sound(active) /\ Sound(previous)
    /\ Accepted(previous)
    /\ (\A p \in Process : ~Unverdicted(p)) => Accepted(active)
    /\ \A p \in Process : Publishing(p) /\ Restoring(p)

-----------------------------------------------------------------------------

\* The values that stand for nothing have the types of what they replace.
LEMMA ConstantTypes ==
    /\ NoPointer \in Pointer
    /\ NoCall \in Call
    /\ Absent \in Content
BY DEF NoPointer, Pointer, NoCall, Call, Absent, Content

\* Types of the steps that end an operation.
LEMMA LeaveTypes ==
    ASSUME TypeOK, NEW p \in Process, Leave(p)
    PROVE  /\ pc' \in [Process -> Step] /\ call' \in [Process -> Call]
           /\ lock' \in Process \cup {None}
BY ConstantTypes DEF TypeOK, Leave, Goto, Step

\* Types of the steps that end an operation with an exception.
LEMMA RaiseTypes ==
    ASSUME TypeOK, NEW p \in Process, Raise(p)
    PROVE  /\ pc' \in [Process -> Step] /\ call' \in [Process -> Call]
           /\ lock' \in Process \cup {None} /\ rollback_active' \in BOOLEAN
<1>1. pc' \in [Process -> Step] /\ call' \in [Process -> Call] /\ lock' \in Process \cup {None}
  BY LeaveTypes DEF Raise
<1>2. rollback_active \in BOOLEAN /\ call[p].rollback_active \in BOOLEAN
  BY DEF TypeOK, Call
<1>3. rollback_active' \in BOOLEAN
  BY <1>2 DEF Raise
<1> QED BY <1>1, <1>3

\* Every step of a process keeps the types of all variables.
LEMMA StepTypes ==
    ASSUME Inv, NEW p \in Process, Updater(p)
    PROVE  TypeOK'
<1> TypeOK
  BY DEF Inv
<1> USE ConstantTypes
<1> USE DEF pointers, directories, updater, ghosts
<1>0. call[p] \in Call /\ call[p].version \in 0..MaxVersion /\ call[p].old \in Pointer
      /\ call[p].rollback_active \in BOOLEAN
  BY DEF TypeOK, Call
<1>1. CASE _update_source_Begin(p)
  <2>1. [NoCall EXCEPT !.op = "update", !.rollback_active = rollback_active] \in Call
    BY DEF TypeOK, NoCall, Call
  <2> QED BY <1>1, <2>1 DEF TypeOK, _update_source_Begin, Start, Enter, Goto, Step
<1>2. CASE _update_source_NotModified(p)
  BY <1>0, <1>2, LeaveTypes DEF TypeOK, _update_source_NotModified
<1>3. CASE _update_source_Stage(p)
  <2>1. PICK v \in Version :
            stage(v) /\ (\/ Goto(p, "verify") /\ call' = [call EXCEPT ![p].version = v] /\ lock' = lock
                         \/ Leave(p))
    BY <1>3 DEF _update_source_Stage
  <2>2. staged' \in [Version -> Content] /\ builds' \in Content
    BY <2>1 DEF TypeOK, stage, Content
  <2>3. [call[p] EXCEPT !.version = v] \in Call
    BY <1>0 DEF Call, Version
  <2>4. pc' \in [Process -> Step] /\ call' \in [Process -> Call] /\ lock' \in Process \cup {None}
    <3>1. CASE Leave(p) BY <3>1, LeaveTypes
    <3>2. CASE Goto(p, "verify") /\ call' = [call EXCEPT ![p].version = v] /\ lock' = lock
      BY <3>2, <2>3 DEF TypeOK, Goto, Step
    <3> QED BY <2>1, <3>1, <3>2
  <2> QED BY <1>0, <1>3, <2>2, <2>4 DEF TypeOK, _update_source_Stage
<1>4. CASE import_bundle(p)
  <2>1. PICK v \in Version :
            stage(v) /\ Start(p, "verify", [NoCall EXCEPT !.op = "import", !.version = v])
    BY <1>4 DEF import_bundle
  <2>2. [NoCall EXCEPT !.op = "import", !.version = v] \in Call
    <3>1. v \in 0..MaxVersion
      BY DEF Version
    <3> QED BY <3>1 DEF NoCall, Call
  <2>3. staged' \in [Version -> Content] /\ builds' \in Content
    BY <2>1 DEF TypeOK, stage, Content
  <2> QED BY <1>4, <2>1, <2>2, <2>3 DEF TypeOK, import_bundle, Start, Enter, Goto, Step
<1>5. CASE _import_offline_Staged(p)
  BY <1>5, LeaveTypes DEF TypeOK, _import_offline_Staged
<1>6. CASE activate_Begin(p)
  <2>1. PICK v \in Version : Start(p, "verify", [NoCall EXCEPT !.op = "activate", !.version = v])
    BY <1>6 DEF activate_Begin
  <2>2. [NoCall EXCEPT !.op = "activate", !.version = v] \in Call
    <3>1. v \in 0..MaxVersion
      BY DEF Version
    <3> QED BY <3>1 DEF NoCall, Call
  <2> QED BY <1>6, <2>1, <2>2 DEF TypeOK, activate_Begin, Start, Enter, Goto, Step
<1>7. CASE reject_staged(p)
  BY <1>7, RaiseTypes DEF TypeOK, reject_staged
<1>8. CASE activate_Publish(p)
  <2>1. releases' \in [Version -> Content] /\ staged' \in [Version -> Content]
    BY <1>8 DEF TypeOK, activate_Publish
  <2> QED BY <1>8, <2>1 DEF TypeOK, activate_Publish, Goto, Step
<1>9. CASE activate_Previous(p)
  <2>1. [call[p] EXCEPT !.old = active] \in Call
    BY <1>0 DEF TypeOK, Call
  <2> QED BY <1>9, <2>1 DEF TypeOK, activate_Previous, Goto, Step
<1>10. CASE activate_Current(p)
  <2>1. call[p].version \in Version
    BY <1>10 DEF Inv, Publishing, activate_Current
  <2> QED BY <1>0, <1>10, <2>1 DEF TypeOK, activate_Current, Goto, Step, Pointer
<1>11. CASE activate_Accepted(p) \/ activate_Refused(p) \/ rollback_Accepted(p)
  BY <1>11 DEF TypeOK, activate_Accepted, activate_Refused, rollback_Accepted, Goto, Step, Pointer
<1>12. CASE activate_Restore(p)
  BY <1>0, <1>12 DEF TypeOK, activate_Restore, Restored, Goto, Step
<1>13. CASE activate_Discard(p)
  BY <1>13, RaiseTypes DEF TypeOK, activate_Discard
<1>14. CASE prune_releases(p)
  BY <1>14 DEF TypeOK, prune_releases, Goto, Step
<1>15. CASE _activate_Save(p)
  BY <1>15, LeaveTypes DEF TypeOK, _activate_Save, Goto, Step
<1>16. CASE _update_source_Finish(p)
  BY <1>0, <1>16, LeaveTypes DEF TypeOK, _update_source_Finish
<1>17. CASE rollback_Begin(p)
  <2>1. [NoCall EXCEPT !.op = "rollback"] \in Call
    BY DEF NoCall, Call
  <2> QED BY <1>17, <2>1 DEF TypeOK, rollback_Begin, Start, Enter, Goto, Step
<1>18. CASE rollback_Current(p)
  <2>1. [call[p] EXCEPT !.old = active] \in Call
    BY <1>0 DEF TypeOK, Call
  <2> QED BY <1>18, <2>1 DEF TypeOK, rollback_Current, Goto, Step
<1>19. CASE rollback_Refused(p)
  BY <1>0, <1>19, LeaveTypes DEF TypeOK, rollback_Refused, Restored
<1>20. CASE rollback_Save(p)
  BY <1>20, LeaveTypes DEF TypeOK, rollback_Save
<1>21. CASE Fails(p)
  BY <1>21, RaiseTypes DEF TypeOK, Fails, Unfinished, Pointer
<1>22. CASE Crash(p)
  BY <1>22, LeaveTypes DEF TypeOK, Crash, Unfinished, Pointer
<1> QED BY <1>1, <1>2, <1>3, <1>4, <1>5, <1>6, <1>7, <1>8, <1>9, <1>10, <1>11, <1>12, <1>13,
           <1>14, <1>15, <1>16, <1>17, <1>18, <1>19, <1>20, <1>21, <1>22 DEF Updater

-----------------------------------------------------------------------------
(* The lock: an operation that makes a step is the only one under way.     *)

Begins(p) ==
    _update_source_Begin(p) \/ import_bundle(p) \/ activate_Begin(p) \/ rollback_Begin(p)

\* While one process is past taking the lock all others are idle.
LEMMA OthersIdle ==
    ASSUME Inv, NEW p \in Process, Updater(p)
    PROVE  /\ \A q \in Process \ {p} : pc[q] = "idle" /\ pc'[q] = "idle"
           /\ pc'[p] # "idle" => lock' = p
           /\ pc[p] = "idle" => Begins(p)
<1> USE DEF Goto
<1>0. pc \in [Process -> Step]
  BY DEF Inv, TypeOK
<1>1. CASE Begins(p)
  <2>1. PICK step, c : Start(p, step, c)
    BY <1>1 DEF Begins, _update_source_Begin, import_bundle, activate_Begin, rollback_Begin
  <2>2. \A q \in Process : pc[q] = "idle"
    BY <2>1, ProcessAssumption DEF Start, Enter, Inv, Mutex
  <2>3. lock' = p /\ pc' = [pc EXCEPT ![p] = step]
    BY <2>1 DEF Start, Enter
  <2> QED BY <1>0, <1>1, <2>2, <2>3
<1>2. CASE ~Begins(p)
  <2>1. pc[p] # "idle"
    BY <1>2 DEF Begins, Updater, _update_source_NotModified, _update_source_Stage,
       _import_offline_Staged, reject_staged, activate_Publish, activate_Previous,
       activate_Current, activate_Accepted, activate_Refused, activate_Restore,
       activate_Discard, prune_releases, _activate_Save, _update_source_Finish,
       rollback_Current, rollback_Accepted, rollback_Refused, rollback_Save, Fails, Crash
  <2>2. lock = p /\ \A q \in Process \ {p} : pc[q] = "idle"
    BY <2>1 DEF Inv, Mutex
  <2>3. (\E step : pc' = [pc EXCEPT ![p] = step] /\ lock' = lock) \/ Leave(p)
    BY <1>2 DEF Begins, Updater, _update_source_NotModified, _update_source_Stage,
       _import_offline_Staged, reject_staged, activate_Publish, activate_Previous,
       activate_Current, activate_Accepted, activate_Refused, activate_Restore,
       activate_Discard, prune_releases, _activate_Save, _update_source_Finish,
       rollback_Current, rollback_Accepted, rollback_Refused, rollback_Save, Fails, Crash, Raise
  <2> QED BY <1>0, <2>1, <2>2, <2>3 DEF Leave
<1> QED BY <1>1, <1>2

-----------------------------------------------------------------------------
(* What the step of one process does to the pointers, to the releases they *)
(* name and to its own locals.                                             *)

\* The part of the invariant that a single operation has to keep.
Own(p) ==
    /\ Sound(active) /\ Sound(previous)
    /\ Accepted(previous)
    /\ ~Unverdicted(p) => Accepted(active)
    /\ Publishing(p) /\ Restoring(p)

\* An operation that ends, or has not begun to publish, without touching a pointer.
LEMMA Quiet ==
    ASSUME Inv, NEW p \in Process, Own(p),
           UNCHANGED pointers,
           pc' = [pc EXCEPT ![p] = pc'[p]],
           pc'[p] \in {"idle", "stage", "verify", "prune", "save", "finish", "rollback", "rollback_save"},
           pc'[p] = "verify" => call'[p].version \in Version,
           \A v \in {active.version, previous.version} \cap Version : releases'[v] = releases[v],
           vetted \subseteq vetted', torn \subseteq torn',
           Unverdicted(p) => active.build \in vetted' \cup torn'
    PROVE  Own(p)'
<1>1. active' = active /\ previous' = previous
  BY DEF pointers
<1>2. Sound(active)' /\ Sound(previous)'
  BY <1>1 DEF Own, Sound
<1>3. Accepted(previous)' /\ Accepted(active)'
  BY <1>1 DEF Own, Accepted
<1>4. Publishing(p)' /\ Restoring(p)'
  BY DEF Publishing, Restoring
<1> QED BY <1>2, <1>3, <1>4 DEF Own

\* A step of the process that holds the lock keeps what the invariant says of it.
LEMMA StepOwn ==
    ASSUME Inv, NEW p \in Process, Own(p), Updater(p),
           \A q \in Process \ {p} : pc[q] = "idle"
    PROVE  Own(p)'
<1>0. TypeOK /\ pc \in [Process -> Step] /\ call \in [Process -> Call]
  BY DEF Inv, TypeOK
<1> USE <1>0 DEF Goto
<1>1. CASE Begins(p)
  <2>1. /\ pc[p] = "idle" /\ UNCHANGED <<pointers, releases, ghosts>>
        /\ pc' = [pc EXCEPT ![p] = pc'[p]]
        /\ pc'[p] \in {"stage", "verify", "rollback"}
    BY <1>1 DEF Begins, _update_source_Begin, import_bundle, activate_Begin, rollback_Begin,
       Start, directories
  <2>2. pc'[p] = "verify" => call'[p].version \in Version
    BY <1>1 DEF Begins, _update_source_Begin, import_bundle, activate_Begin, rollback_Begin,
       Start, NoCall
  <2>3. UNCHANGED <<releases, vetted, torn>>
    BY <2>1 DEF ghosts
  <2> QED BY <2>1, <2>2, <2>3, Quiet DEF Unverdicted
<1>2. CASE _update_source_Stage(p)
  <2>1. PICK v \in Version :
            \/ pc' = [pc EXCEPT ![p] = "verify"] /\ call' = [call EXCEPT ![p].version = v]
            \/ Leave(p)
    BY <1>2 DEF _update_source_Stage
  <2>2. /\ pc[p] = "stage" /\ UNCHANGED <<pointers, releases, vetted, torn>>
        /\ pc' = [pc EXCEPT ![p] = pc'[p]] /\ pc'[p] \in {"idle", "verify"}
    BY <1>2, <2>1 DEF _update_source_Stage, Leave, ghosts
  <2>3. pc'[p] = "verify" => call'[p].version \in Version
    <3>1. CASE Leave(p)
      BY <3>1 DEF Leave
    <3>2. CASE call' = [call EXCEPT ![p].version = v]
      <4>1. call'[p] = [call[p] EXCEPT !.version = v] /\ call[p] \in Call
        BY <3>2
      <4> QED BY <4>1 DEF Call
    <3> QED BY <2>1, <3>1, <3>2
  <2> QED BY <2>2, <2>3, Quiet DEF Unverdicted
<1>3. CASE \/ _update_source_NotModified(p) \/ _import_offline_Staged(p) \/ reject_staged(p)
           \/ _activate_Save(p) \/ _update_source_Finish(p) \/ rollback_Save(p)
  <2>1. /\ ~Unverdicted(p) /\ UNCHANGED <<pointers, releases, vetted, torn>>
        /\ pc' = [pc EXCEPT ![p] = pc'[p]] /\ pc'[p] \in {"idle", "finish"}
    BY <1>3 DEF _update_source_NotModified, _import_offline_Staged, reject_staged,
       _activate_Save, _update_source_Finish, rollback_Save, Unverdicted, Raise, Leave,
       directories, ghosts
  <2> QED BY <2>1, Quiet
<1>4. CASE Fails(p) \/ Crash(p)
  <2>1. /\ UNCHANGED <<pointers, releases, vetted>>
        /\ pc' = [pc EXCEPT ![p] = pc'[p]] /\ pc'[p] = "idle"
    BY <1>4 DEF Fails, Crash, Raise, Leave, directories
  <2>2. torn \subseteq torn' /\ (Unverdicted(p) => active.build \in torn')
    BY <1>4 DEF Fails, Crash, Unfinished, Unverdicted
  <2> QED BY <2>1, <2>2, Quiet
<1>5. CASE activate_Accepted(p) \/ rollback_Accepted(p)
  <2>1. /\ UNCHANGED <<pointers, releases, torn>>
        /\ pc' = [pc EXCEPT ![p] = pc'[p]] /\ pc'[p] \in {"prune", "rollback_save"}
        /\ vetted' = vetted \cup {active.build}
    BY <1>5 DEF activate_Accepted, rollback_Accepted, directories
  <2> QED BY <2>1, Quiet
<1>6. CASE prune_releases(p)
  <2>1. /\ pc[p] = "prune" /\ UNCHANGED <<pointers, vetted, torn>>
        /\ pc' = [pc EXCEPT ![p] = pc'[p]] /\ pc'[p] = "save"
    BY <1>6 DEF prune_releases, ghosts
  <2>2. \A v \in {active.version, previous.version} \cap Version : releases'[v] = releases[v]
    BY <1>6 DEF prune_releases, Protected
  <2> QED BY <2>1, <2>2, Quiet DEF Unverdicted
<1>7. CASE activate_Publish(p)
  <2> DEFINE v == call[p].version
  <2>1. /\ pc[p] = "verify" /\ v \in Version /\ releases[v] = Absent /\ staged[v] # Absent
        /\ releases' = [releases EXCEPT ![v] = staged[v]]
        /\ active' = active /\ previous' = previous /\ vetted' = vetted /\ torn' = torn
        /\ call' = call /\ pc'[p] = "previous"
    BY <1>7 DEF activate_Publish, Own, Publishing, pointers, ghosts
  <2>2. v # 0
    BY <2>1 DEF Version
  <2>3. active.version # v /\ previous.version # v
    BY <2>1, <2>2 DEF Own, Sound, NoPointer
  <2>4. Sound(active)' /\ Sound(previous)'
    BY <2>1, <2>3 DEF Own, Sound, TypeOK
  <2>5. Accepted(active)' /\ Accepted(previous)'
    BY <2>1 DEF Own, Accepted, Unverdicted
  <2>6. Publishing(p)' /\ Restoring(p)'
    BY <2>1, <2>3 DEF Publishing, Restoring, TypeOK
  <2> QED BY <2>4, <2>5, <2>6 DEF Own
<1>8. CASE activate_Previous(p)
  <2>1. /\ pc[p] = "previous" /\ pc'[p] = "current" /\ active' = active
        /\ previous' = IF active # NoPointer THEN active ELSE previous
        /\ releases' = releases /\ vetted' = vetted /\ torn' = torn
        /\ call'[p].version = call[p].version /\ call'[p].old = active
    BY <1>8 DEF activate_Previous, directories, ghosts, Call
  <2>2. Sound(active)' /\ Sound(previous)'
    BY <2>1 DEF Own, Sound
  <2>3. Accepted(active)' /\ Accepted(previous)'
    BY <2>1 DEF Own, Accepted, Unverdicted
  <2>4. Publishing(p)' /\ Restoring(p)'
    BY <2>1 DEF Own, Publishing, Restoring
  <2> QED BY <2>2, <2>3, <2>4 DEF Own
<1>9. CASE activate_Current(p)
  <2>1. /\ pc[p] = "current" /\ pc'[p] = "reload"
        /\ active' = [version |-> call[p].version, build |-> releases[call[p].version]]
        /\ previous' = previous /\ releases' = releases /\ vetted' = vetted /\ torn' = torn
        /\ call' = call
    BY <1>9 DEF activate_Current, directories, ghosts
  <2>2. /\ call[p].version \in Version /\ releases[call[p].version] # Absent
        /\ previous.version # call[p].version /\ active.version # call[p].version
        /\ call[p].old = active
    BY <2>1 DEF Own, Publishing, Restoring
  <2>3. Sound(active)' /\ Sound(previous)' /\ Accepted(previous)'
    BY <2>1, <2>2 DEF Own, Sound, Accepted
  <2>4. Sound(call[p].old)' /\ Accepted(call[p].old)'
    BY <2>1, <2>2 DEF Own, Sound, Accepted, Unverdicted
  <2>5. Publishing(p)' /\ Restoring(p)' /\ Unverdicted(p)'
    BY <2>1, <2>2, <2>4 DEF Publishing, Restoring, Unverdicted
  <2> QED BY <2>3, <2>5 DEF Own
<1>10. CASE activate_Refused(p)
  <2>1. /\ pc[p] = "reload" /\ pc'[p] = "restore" /\ call' = call
        /\ active' = active /\ previous' = previous /\ releases' = releases
        /\ vetted' = vetted /\ torn' = torn
    BY <1>10 DEF activate_Refused, pointers, directories, ghosts
  <2> QED BY <2>1 DEF Own, Sound, Accepted, Publishing, Restoring, Unverdicted
<1>11. CASE activate_Restore(p)
  <2>1. /\ pc[p] = "restore" /\ pc'[p] = "discard" /\ call' = call
        /\ active' = call[p].old /\ previous' = previous /\ releases' = releases
        /\ vetted' = vetted /\ torn' = torn
    BY <1>11 DEF activate_Restore, Restored, directories, ghosts
  <2>2. /\ Sound(call[p].old) /\ Accepted(call[p].old)
        /\ call[p].old.version # call[p].version
    BY <2>1 DEF Own, Restoring
  <2>3. Publishing(p)' /\ Restoring(p)'
    BY <2>1, <2>2 DEF Own, Publishing, Restoring
  <2>4. Sound(active)' /\ Sound(previous)' /\ Accepted(active)' /\ Accepted(previous)'
    BY <2>1, <2>2 DEF Own, Sound, Accepted
  <2> QED BY <2>3, <2>4 DEF Own
<1>12. CASE activate_Discard(p)
  <2>1. /\ pc[p] = "discard" /\ UNCHANGED <<pointers, vetted, torn>>
        /\ pc' = [pc EXCEPT ![p] = pc'[p]] /\ pc'[p] = "idle"
        /\ releases' = [releases EXCEPT ![call[p].version] = Absent]
    BY <1>12 DEF activate_Discard, Raise, Leave, ghosts
  <2>2. active.version # call[p].version /\ previous.version # call[p].version
    BY <2>1 DEF Own, Publishing
  <2>3. \A v \in {active.version, previous.version} \cap Version : releases'[v] = releases[v]
    BY <2>1, <2>2 DEF TypeOK
  <2> QED BY <2>1, <2>3, Quiet DEF Unverdicted
<1>13. CASE rollback_Current(p)
  <2>1. /\ pc[p] = "rollback" /\ pc'[p] = "rollback_reload" /\ active' = previous
        /\ previous' = previous /\ releases' = releases /\ vetted' = vetted /\ torn' = torn
        /\ call'[p].old = active
    BY <1>13 DEF rollback_Current, directories, ghosts, Call
  <2>2. Sound(active)' /\ Sound(previous)' /\ Accepted(active)' /\ Accepted(previous)'
    BY <2>1 DEF Own, Sound, Accepted
  <2>3. Sound(call[p].old)' /\ Accepted(call[p].old)'
    BY <2>1 DEF Own, Sound, Accepted, Unverdicted
  <2>4. Publishing(p)' /\ Restoring(p)'
    BY <2>1, <2>3 DEF Publishing, Restoring
  <2> QED BY <2>2, <2>4 DEF Own
<1>14. CASE rollback_Refused(p)
  <2>1. /\ pc[p] = "rollback_reload" /\ pc'[p] = "idle"
        /\ active' = call[p].old /\ previous' = previous /\ releases' = releases
        /\ vetted' = vetted /\ torn' = torn
    BY <1>14 DEF rollback_Refused, Restored, Leave, directories, ghosts
  <2>2. Sound(call[p].old) /\ Accepted(call[p].old)
    BY <2>1 DEF Own, Restoring
  <2>3. Sound(active)' /\ Sound(previous)' /\ Accepted(active)' /\ Accepted(previous)'
    BY <2>1, <2>2 DEF Own, Sound, Accepted
  <2>4. Publishing(p)' /\ Restoring(p)'
    BY <2>1 DEF Publishing, Restoring
  <2> QED BY <2>3, <2>4 DEF Own
<1> QED BY <1>1, <1>2, <1>3, <1>4, <1>5, <1>6, <1>7, <1>8, <1>9, <1>10, <1>11, <1>12, <1>13,
           <1>14 DEF Updater, Begins

-----------------------------------------------------------------------------

\* A fresh store satisfies the invariant.
LEMMA InitInv == Init => Inv
<1> SUFFICES ASSUME Init PROVE Inv
  OBVIOUS
<1>1. TypeOK
  <2>1. 0 \in Content
    BY DEF Content
  <2> QED BY <2>1, ConstantTypes DEF Init, TypeOK, Step
<1>2. Sound(active) /\ Sound(previous) /\ Accepted(active) /\ Accepted(previous)
  BY DEF Init, Sound, Accepted
<1>3. Mutex /\ \A p \in Process : Publishing(p) /\ Restoring(p)
  BY DEF Init, Mutex, Publishing, Restoring
<1> QED BY <1>1, <1>2, <1>3 DEF Inv

\* The invariant is inductive.
LEMMA StepInv == Inv /\ [Next]_vars => Inv'
<1> SUFFICES ASSUME Inv, [Next]_vars PROVE Inv'
  OBVIOUS
<1>1. CASE Next
  <2>1. PICK p \in Process : Updater(p)
    BY <1>1 DEF Next
  <2>2. /\ \A q \in Process \ {p} : pc[q] = "idle" /\ pc'[q] = "idle"
        /\ pc'[p] # "idle" => lock' = p
    BY <2>1, OthersIdle
  <2>3. Own(p)
    BY <2>2 DEF Inv, Own, Unverdicted
  <2>4. Own(p)'
    BY <2>1, <2>2, <2>3, StepOwn
  <2>5. TypeOK'
    BY <2>1, StepTypes
  <2>6. Mutex'
    BY <2>2 DEF Mutex
  <2>7. \A q \in Process : Publishing(q)' /\ Restoring(q)'
    BY <2>2, <2>4 DEF Own, Publishing, Restoring
  <2> QED BY <2>4, <2>5, <2>6, <2>7 DEF Inv, Own
<1>2. CASE UNCHANGED vars
  BY <1>2 DEF vars, pointers, directories, updater, ghosts, Inv, TypeOK, Mutex, Sound, Accepted,
     Unverdicted, Publishing, Restoring
<1> QED BY <1>1, <1>2

\* In every reachable state update.lock excludes a second operation and both pointers
\* name sound releases, with what the operation under way relies on.
THEOREM InvHolds == Spec => []Inv
BY InitInv, StepInv, PTL DEF Spec

\* Every variable keeps its type; that a version is in range when it indexes the
\* releases depends on the invariant.
THEOREM TypeCorrect == Spec => []TypeOK
<1>1. Inv => TypeOK
  BY DEF Inv
<1> QED BY <1>1, InvHolds, PTL

\* active/current.json and previous/current.json always name a release that is there
\* with the content it had when the pointer was written, for any number of processes
\* that update, import, roll back, fail and die (store.py activate, rollback,
\* prune_releases).
THEOREM PointersAlwaysResolve == Spec => []PointersResolve
<1>1. Inv => PointersResolve
  BY DEF Inv, Sound, PointersResolve, Resolves
<1> QED BY <1>1, InvHolds, PTL

\* What is active, or kept for a rollback, was accepted by a sensor reload, or left by
\* an operation that ended before the verdict took effect (store.py activate).
THEOREM ActiveAlwaysAccepted == Spec => []ActiveWasAccepted
<1>1. Inv => ActiveWasAccepted
  BY DEF Inv, Accepted, Unverdicted, ActiveWasAccepted
<1> QED BY <1>1, InvHolds, PTL

-----------------------------------------------------------------------------
(* Contents are new when they are staged, so a release that awaits its     *)
(* verdict was never accepted before; and a host that can be rolled back   *)
(* has an active release.                                                  *)

NewContent ==
    /\ \A v \in Version : staged[v] <= builds /\ releases[v] <= builds
    /\ \A b \in vetted : b # Absent /\ b <= builds
    /\ \A v \in Version :
           staged[v] # Absent =>
               /\ staged[v] \notin vetted
               /\ \A w \in Version : staged[v] # releases[w] /\ (w # v => staged[v] # staged[w])

\* What one operation adds to NewContent.
Pending(p) ==
    /\ pc[p] \in {"previous", "current"} => releases[call[p].version] \notin vetted
    /\ Unverdicted(p) => active.build \notin vetted

Reversible(p) ==
    /\ previous # NoPointer => active # NoPointer
    /\ pc[p] = "rollback" => previous # NoPointer
    /\ pc[p] \in {"reload", "restore", "rollback_reload"} => active.build # Absent
    /\ Unverdicted(p) /\ previous # NoPointer => call[p].old # NoPointer
    /\ pc[p] = "rollback_reload" => call[p].old # NoPointer

DropInv == NewContent /\ \A p \in Process : Pending(p) /\ Reversible(p)

\* The steps that leave both directories and the accepted contents alone.
Others(p) ==
    \/ _update_source_Begin(p) \/ _update_source_NotModified(p) \/ _import_offline_Staged(p)
    \/ activate_Begin(p) \/ activate_Previous(p) \/ activate_Current(p) \/ activate_Refused(p)
    \/ activate_Restore(p) \/ _activate_Save(p) \/ _update_source_Finish(p) \/ rollback_Begin(p)
    \/ rollback_Current(p) \/ rollback_Refused(p) \/ rollback_Save(p) \/ Fails(p) \/ Crash(p)

\* No step stages a content a second time or accepts one that is still staged.
LEMMA NewContentStep ==
    ASSUME Inv, NewContent, NEW p \in Process, Reversible(p), Updater(p)
    PROVE  NewContent'
<1>0. /\ staged \in [Version -> Content] /\ releases \in [Version -> Content]
      /\ builds \in Content /\ Content \subseteq Nat /\ Absent \in Content /\ Absent = 0
  BY DEF Inv, TypeOK, Content, Absent
<1> USE <1>0
<1>1. CASE Others(p)
  <2>1. staged' = staged /\ releases' = releases /\ builds' = builds /\ vetted' = vetted
    BY <1>1 DEF Others, _update_source_Begin, _update_source_NotModified, _import_offline_Staged,
       activate_Begin, activate_Previous, activate_Current, activate_Refused, activate_Restore,
       _activate_Save, _update_source_Finish, rollback_Begin, rollback_Current, rollback_Refused,
       rollback_Save, Fails, Crash, directories, ghosts
  <2> QED BY <2>1 DEF NewContent
<1>2. CASE import_bundle(p) \/ _update_source_Stage(p)
  <2>1. PICK v \in Version : stage(v)
    BY <1>2 DEF import_bundle, _update_source_Stage
  <2>2. releases' = releases /\ vetted' = vetted
    BY <1>2 DEF import_bundle, _update_source_Stage, ghosts
  <2>3. builds' = builds + 1 /\ staged' = [staged EXCEPT ![v] = builds + 1]
    BY <2>1 DEF stage
  <2>4. \A b \in vetted : b \in Nat
    BY DEF Inv, TypeOK, Content
  <2>5. \A w \in Version : staged'[w] = IF w = v THEN builds + 1 ELSE staged[w]
    BY <2>3
  <2>6. \A w \in Version : staged'[w] <= builds' /\ releases'[w] <= builds'
    <3>1. builds \in Nat /\ \A w \in Version : staged[w] \in Nat /\ releases[w] \in Nat
      OBVIOUS
    <3> QED BY <2>2, <2>3, <2>5, <3>1 DEF NewContent
  <2>7. \A b \in vetted' : b # Absent /\ b <= builds'
    BY <2>2, <2>3, <2>4 DEF NewContent
  <2>8. builds + 1 \notin vetted /\ \A w \in Version : builds + 1 # releases[w] /\ builds + 1 # staged[w]
    BY <2>4 DEF NewContent
  <2>9. \A x \in Version :
            staged'[x] # Absent =>
                /\ staged'[x] \notin vetted'
                /\ \A w \in Version : staged'[x] # releases'[w] /\ (w # x => staged'[x] # staged'[w])
    BY <2>2, <2>5, <2>8 DEF NewContent
  <2> QED BY <2>6, <2>7, <2>9 DEF NewContent
<1>3. CASE \/ reject_staged(p) \/ activate_Discard(p) \/ prune_releases(p)
  <2>1. /\ builds' = builds /\ vetted' = vetted
        /\ \A v \in Version : staged'[v] \in {staged[v], Absent} /\ releases'[v] \in {releases[v], Absent}
    BY <1>3 DEF reject_staged, activate_Discard, prune_releases, ghosts
  <2> QED BY <2>1 DEF NewContent
<1>4. CASE activate_Publish(p)
  <2> DEFINE u == call[p].version
  <2>1. u \in Version
    BY <1>4 DEF activate_Publish, Inv, Publishing
  <2>2. /\ staged[u] # Absent /\ builds' = builds /\ vetted' = vetted
        /\ releases' = [releases EXCEPT ![u] = staged[u]] /\ staged' = [staged EXCEPT ![u] = Absent]
    BY <1>4 DEF activate_Publish, ghosts
  <2>3. \A w \in Version : /\ releases'[w] = IF w = u THEN staged[u] ELSE releases[w]
                           /\ staged'[w] = IF w = u THEN Absent ELSE staged[w]
    BY <2>1, <2>2
  <2>4. \A w \in Version : staged'[w] <= builds /\ releases'[w] <= builds
    BY <2>1, <2>3 DEF NewContent
  <2>5. \A v \in Version :
            staged'[v] # Absent =>
                /\ staged'[v] \notin vetted
                /\ \A w \in Version : staged'[v] # releases'[w] /\ (w # v => staged'[v] # staged'[w])
    BY <2>1, <2>2, <2>3 DEF NewContent
  <2> HIDE DEF u
  <2> QED BY <2>2, <2>4, <2>5 DEF NewContent
<1>5. CASE activate_Accepted(p) \/ rollback_Accepted(p)
  <2>1. /\ staged' = staged /\ releases' = releases /\ builds' = builds
        /\ vetted' = vetted \cup {active.build}
    BY <1>5 DEF activate_Accepted, rollback_Accepted, directories
  <2>2. active.build # Absent /\ \E w \in Version : releases[w] = active.build
    <3>1. active.build # Absent
      BY <1>5 DEF activate_Accepted, rollback_Accepted, Reversible
    <3> QED BY <3>1 DEF Inv, Sound, NoPointer
  <2>3. active.build <= builds /\ \A v \in Version : staged[v] # Absent => staged[v] # active.build
    BY <2>2 DEF NewContent
  <2> QED BY <2>1, <2>2, <2>3 DEF NewContent
<1> QED BY <1>1, <1>2, <1>3, <1>4, <1>5 DEF Updater, Others

\* What awaits its verdict stays unaccepted until the verdict.
LEMMA PendingStep ==
    ASSUME Inv, NewContent, NEW p \in Process, Pending(p), Updater(p)
    PROVE  Pending(p)'
<1>0. pc \in [Process -> Step] /\ call \in [Process -> Call]
      /\ staged \in [Version -> Content] /\ releases \in [Version -> Content]
  BY DEF Inv, TypeOK
<1> USE <1>0 DEF Goto
<1>1. CASE activate_Publish(p)
  <2>1. call[p].version \in Version
    BY <1>1 DEF activate_Publish, Inv, Publishing
  <2>2. staged[call[p].version] \notin vetted
    BY <1>1, <2>1 DEF activate_Publish, NewContent
  <2> QED BY <1>1, <2>1, <2>2 DEF activate_Publish, Pending, Unverdicted, ghosts
<1>2. CASE activate_Previous(p)
  <2>1. call'[p].version = call[p].version
    BY <1>2 DEF activate_Previous, Call
  <2> QED BY <1>2, <2>1 DEF activate_Previous, Pending, Unverdicted, directories, ghosts
<1>3. CASE activate_Current(p)
  BY <1>3 DEF activate_Current, Pending, Unverdicted, directories, ghosts
<1>4. CASE activate_Refused(p)
  BY <1>4 DEF activate_Refused, Pending, Unverdicted, pointers, directories, ghosts
<1>5. CASE ~(activate_Publish(p) \/ activate_Previous(p) \/ activate_Current(p) \/ activate_Refused(p))
  <2>1. pc'[p] \notin {"previous", "current", "reload", "restore"}
    BY <1>5 DEF Updater, _update_source_Begin, _update_source_NotModified, _update_source_Stage,
       import_bundle, _import_offline_Staged, activate_Begin, reject_staged, activate_Accepted,
       activate_Restore, activate_Discard, prune_releases, _activate_Save, _update_source_Finish,
       rollback_Begin, rollback_Current, rollback_Accepted, rollback_Refused, rollback_Save,
       Fails, Crash, Start, Raise, Leave
  <2> QED BY <2>1 DEF Pending, Unverdicted
<1> QED BY <1>1, <1>2, <1>3, <1>4, <1>5

\* A host with a previous release keeps an active one, or the pointer to restore it.
LEMMA ReversibleStep ==
    ASSUME Inv, NEW p \in Process, Reversible(p), Updater(p)
    PROVE  Reversible(p)'
<1>0. pc \in [Process -> Step] /\ call \in [Process -> Call]
  BY DEF Inv, TypeOK
<1> USE <1>0 DEF Goto
<1>1. CASE activate_Previous(p)
  BY <1>1 DEF activate_Previous, Reversible, Unverdicted
<1>2. CASE activate_Current(p)
  <2>1. /\ pc[p] = "current" /\ pc'[p] = "reload" /\ previous' = previous /\ call' = call
        /\ active'.version = call[p].version
    BY <1>2 DEF activate_Current
  <2>2. call[p].version # 0 /\ call[p].old = active /\ releases[call[p].version] # Absent
    BY <2>1 DEF Inv, Publishing, Restoring, Version
  <2>3. active' # NoPointer /\ active'.build # Absent
    BY <1>2, <2>1, <2>2 DEF activate_Current, NoPointer
  <2> QED BY <2>1, <2>2, <2>3 DEF Reversible, Unverdicted
<1>3. CASE activate_Refused(p)
  BY <1>3 DEF activate_Refused, Reversible, Unverdicted, pointers
<1>4. CASE activate_Restore(p)
  BY <1>4 DEF activate_Restore, Restored, Reversible, Unverdicted
<1>5. CASE rollback_Current(p)
  <2>1. call'[p].old = active
    BY <1>5 DEF rollback_Current, Call
  <2>2. previous # NoPointer /\ previous.build # Absent
    BY <1>5 DEF rollback_Current, Reversible, Inv, Sound
  <2> QED BY <1>5, <2>1, <2>2 DEF rollback_Current, Reversible, Unverdicted
<1>6. CASE rollback_Refused(p)
  BY <1>6 DEF rollback_Refused, Restored, Leave, Reversible, Unverdicted
<1>7. CASE rollback_Begin(p)
  BY <1>7 DEF rollback_Begin, Start, Reversible, Unverdicted, pointers
<1>8. CASE ~(\/ activate_Previous(p) \/ activate_Current(p) \/ activate_Refused(p) \/ activate_Restore(p)
             \/ rollback_Current(p) \/ rollback_Refused(p) \/ rollback_Begin(p))
  <2>1. /\ pc'[p] \notin {"rollback", "reload", "restore", "rollback_reload"}
        /\ active' = active /\ previous' = previous
    BY <1>8 DEF Updater, _update_source_Begin, _update_source_NotModified, _update_source_Stage,
       import_bundle, _import_offline_Staged, activate_Begin, reject_staged, activate_Publish,
       activate_Accepted, activate_Discard, prune_releases, _activate_Save, _update_source_Finish,
       rollback_Accepted, rollback_Save, Fails, Crash, Start, Raise, Leave, pointers
  <2> QED BY <2>1 DEF Reversible, Unverdicted
<1> QED BY <1>1, <1>2, <1>3, <1>4, <1>5, <1>6, <1>7, <1>8

\* Only the two restorations can remove the active pointer, and what they replace was
\* not accepted or there is something to go back to.
LEMMA StepKeepsActive ==
    ASSUME Inv, NewContent, NEW p \in Process, Pending(p), Reversible(p), Updater(p),
           active.build \in vetted
    PROVE  active' # NoPointer
<1>1. active # NoPointer
  BY DEF NewContent, NoPointer
<1>2. CASE activate_Current(p)
  <2>1. call[p].version # 0
    BY <1>2 DEF activate_Current, Inv, Publishing, Version
  <2> QED BY <1>2, <2>1 DEF activate_Current, NoPointer
<1>3. CASE activate_Restore(p)
  BY <1>3 DEF activate_Restore, Pending, Unverdicted
<1>4. CASE rollback_Current(p)
  BY <1>4 DEF rollback_Current, Reversible
<1>5. CASE rollback_Refused(p)
  BY <1>5 DEF rollback_Refused, Restored, Reversible
<1>6. CASE ~(activate_Current(p) \/ activate_Restore(p) \/ rollback_Current(p) \/ rollback_Refused(p))
  <2>1. active' = active
    BY <1>6 DEF Updater, _update_source_Begin, _update_source_NotModified, _update_source_Stage,
       import_bundle, _import_offline_Staged, activate_Begin, reject_staged, activate_Publish,
       activate_Previous, activate_Accepted, activate_Refused, activate_Discard, prune_releases,
       _activate_Save, _update_source_Finish, rollback_Begin, rollback_Accepted, rollback_Save,
       Fails, Crash, pointers
  <2> QED BY <1>1, <2>1
<1> QED BY <1>2, <1>3, <1>4, <1>5, <1>6

\* Nothing is staged, released or accepted at first.
LEMMA InitDrop == Init => DropInv
<1> SUFFICES ASSUME Init PROVE DropInv
  OBVIOUS
<1>1. NewContent
  BY DEF Init, NewContent, Absent
<1>2. \A p \in Process : Pending(p) /\ Reversible(p)
  BY DEF Init, Pending, Reversible, Unverdicted
<1> QED BY <1>1, <1>2 DEF DropInv

\* The three parts are inductive with the invariant above.
LEMMA StepDrop == Inv /\ DropInv /\ [Next]_vars => DropInv'
<1> SUFFICES ASSUME Inv, DropInv, [Next]_vars PROVE DropInv'
  OBVIOUS
<1>1. CASE Next
  <2>1. PICK p \in Process : Updater(p)
    BY <1>1 DEF Next
  <2>2. NewContent /\ Pending(p) /\ Reversible(p)
    BY DEF DropInv
  <2>3. NewContent' /\ Pending(p)' /\ Reversible(p)'
    BY <2>1, <2>2, NewContentStep, PendingStep, ReversibleStep
  <2>4. \A q \in Process \ {p} : pc'[q] = "idle"
    BY <2>1, OthersIdle
  <2>5. \A q \in Process : Pending(q)' /\ Reversible(q)'
    BY <2>3, <2>4 DEF Pending, Reversible, Unverdicted
  <2> QED BY <2>3, <2>5 DEF DropInv
<1>2. CASE UNCHANGED vars
  BY <1>2 DEF vars, pointers, directories, updater, ghosts, DropInv, NewContent, Pending,
     Reversible, Unverdicted
<1> QED BY <1>1, <1>2

\* Once an accepted release is active, no step of any process leaves the host without
\* an active release: not a refused reload, a rollback, a failure or a crash (store.py
\* activate and rollback restore what they replaced).
THEOREM ActiveIsNeverDropped == Spec => ActiveNeverDropped
<1>1. Inv /\ DropInv /\ [Next]_vars => [active.build \in vetted => active' # NoPointer]_vars
  <2> SUFFICES ASSUME Inv, DropInv, Next, active.build \in vetted PROVE active' # NoPointer
    OBVIOUS
  <2>1. PICK p \in Process : Updater(p)
    BY DEF Next
  <2>2. NewContent /\ Pending(p) /\ Reversible(p)
    BY DEF DropInv
  <2> QED BY <2>1, <2>2, StepKeepsActive
<1> QED BY <1>1, InvHolds, InitDrop, StepDrop, PTL DEF Spec, ActiveNeverDropped
=============================================================================
