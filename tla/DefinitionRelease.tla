-------------------------- MODULE DefinitionRelease --------------------------
(***************************************************************************)
(* Staging, activation, rollback and pruning of threat definition releases *)
(* (threat_definitions/manager.py, store.py, locking.py, sensor_reload.py).*)
(*                                                                         *)
(* A step is one rename, one atomic write of a JSON document or one read   *)
(* of it.  A release is a directory named by a version; the contents are   *)
(* told apart by the number of the build, which also stands for            *)
(* manifest_sha256.  Any step may raise, and a process may die at any      *)
(* step.                                                                   *)
(***************************************************************************)
EXTENDS Naturals, FiniteSets

CONSTANTS
    Process,      \* processes that run a ThreatIntelligenceManager
    None,         \* nobody holds update.lock
    MaxVersion,   \* bound: version names of one day
    MaxBuild,     \* bound: contents built or imported
    Retain        \* retained_release_count

ASSUME ProcessAssumption == None \notin Process
ASSUME VersionAssumption == MaxVersion \in Nat \ {0}
ASSUME BuildAssumption == MaxBuild \in Nat
ASSUME RetainAssumption == Retain \in Nat

Version == 1..MaxVersion

\* The content of an absent directory.
Absent == 0

Content == 0..MaxBuild

\* current.json of active/ and previous/: the version and manifest_sha256.
Pointer == [version : 0..MaxVersion, build : Content]

NoPointer == [version |-> 0, build |-> Absent]

\* The locals of an operation: which one it is, its version, its copy of
\* rollback_active and the pointer it restores when the reload fails.
Call == [op : {"none", "update", "activate", "import", "rollback"},
         version : 0..MaxVersion, rollback_active : BOOLEAN, old : Pointer]

NoCall == [op |-> "none", version |-> 0, rollback_active |-> FALSE, old |-> NoPointer]

VARIABLES
    staged,           \* staging/<version>
    releases,         \* releases/<version>
    active,           \* active/current.json
    previous,         \* previous/current.json
    rollback_active,  \* the field of metadata/update_state.json
    builds,           \* builds made so far
    lock,             \* holder of update.lock
    pc,               \* where the operation of each process is
    call,             \* its locals
    vetted,           \* builds a sensor reload accepted
    torn              \* builds left active before the verdict of the reload took effect

pointers == <<active, previous>>
directories == <<staged, releases, builds>>
updater == <<lock, pc, call>>
ghosts == <<vetted, torn>>
vars == <<pointers, directories, rollback_active, updater, ghosts>>

Step == {"idle", "stage", "verify", "previous", "current", "reload", "restore",
         "discard", "prune", "save", "finish", "rollback", "rollback_reload",
         "rollback_save"}

TypeOK ==
    /\ staged \in [Version -> Content]
    /\ releases \in [Version -> Content]
    /\ active \in Pointer
    /\ previous \in Pointer
    /\ rollback_active \in BOOLEAN
    /\ builds \in Content
    /\ lock \in Process \cup {None}
    /\ pc \in [Process -> Step]
    /\ call \in [Process -> Call]
    /\ vetted \subseteq Content
    /\ torn \subseteq Content

Init ==
    /\ staged = [v \in Version |-> Absent]
    /\ releases = [v \in Version |-> Absent]
    /\ active = NoPointer
    /\ previous = NoPointer
    /\ rollback_active = FALSE
    /\ builds = 0
    /\ lock = None
    /\ pc = [p \in Process |-> "idle"]
    /\ call = [p \in Process |-> NoCall]
    /\ vetted = {}
    /\ torn = {}

-----------------------------------------------------------------------------
(* DefinitionUpdateLock and the ways an operation ends.                    *)

\* flock(LOCK_EX | LOCK_NB): whoever does not get it raises UpdateAlreadyRunning
\* and has changed nothing.
FaultyEnter(p) == lock' = p

Enter(p) == lock = None /\ lock' = p

Goto(p, step) == pc' = [pc EXCEPT ![p] = step]

Start(p, step, c) == pc[p] = "idle" /\ Enter(p) /\ Goto(p, step) /\ call' = [call EXCEPT ![p] = c]

Leave(p) ==
    /\ Goto(p, "idle")
    /\ call' = [call EXCEPT ![p] = NoCall]
    /\ lock' = IF lock = p THEN None ELSE lock

\* The except clause of _update_source saves the document it read at the start;
\* the other operations have no handler.
Raise(p) ==
    /\ Leave(p)
    /\ rollback_active' =
           IF call[p].op = "update" THEN call[p].rollback_active ELSE rollback_active

-----------------------------------------------------------------------------
(* Updates and imports: how a release comes to staging.                    *)

_update_source_Begin(p) ==
    /\ Start(p, "stage", [NoCall EXCEPT !.op = "update", !.rollback_active = rollback_active])
    /\ UNCHANGED <<pointers, directories, rollback_active, ghosts>>

\* 304 Not Modified: only the copy of the document is saved.
_update_source_NotModified(p) ==
    /\ pc[p] = "stage"
    /\ Leave(p)
    /\ rollback_active' = call[p].rollback_active
    /\ UNCHANGED <<pointers, directories, ghosts>>

\* A version is free as long as no directory of staging/ or releases/ has its name:
\* _next_version takes the smallest number of the day, a signed bundle the version
\* its manifest names, and both use the name of a pruned or rejected release again.
Unused(v) == staged[v] = Absent /\ releases[v] = Absent

\* stage and import_bundle build in a temporary directory and rename it.
stage(v) ==
    /\ Unused(v)
    /\ builds < MaxBuild
    /\ builds' = builds + 1
    /\ staged' = [staged EXCEPT ![v] = builds + 1]

_update_source_Stage(p) ==
    /\ pc[p] = "stage"
    /\ \E v \in Version :
          /\ stage(v)
          /\ \/ /\ Goto(p, "verify")
                /\ call' = [call EXCEPT ![p].version = v]
                /\ UNCHANGED lock
             \/ Leave(p)
    /\ rollback_active' = call[p].rollback_active
    /\ UNCHANGED <<pointers, releases, ghosts>>

import_bundle(p) ==
    /\ \E v \in Version :
          stage(v) /\ Start(p, "verify", [NoCall EXCEPT !.op = "import", !.version = v])
    /\ UNCHANGED <<pointers, releases, rollback_active, ghosts>>

\* An import without activation ends when the staged definitions are valid.
_import_offline_Staged(p) ==
    /\ pc[p] = "verify"
    /\ call[p].op = "import"
    /\ Leave(p)
    /\ UNCHANGED <<pointers, directories, rollback_active, ghosts>>

activate_Begin(p) ==
    /\ \E v \in Version : Start(p, "verify", [NoCall EXCEPT !.op = "activate", !.version = v])
    /\ UNCHANGED <<pointers, directories, rollback_active, ghosts>>

-----------------------------------------------------------------------------
(* DefinitionStore.activate and ThreatIntelligenceManager._activate.       *)

\* A staged release that does not verify or validate goes to quarantine.  A version
\* that is not staged (any more) is refused.
reject_staged(p) ==
    /\ pc[p] = "verify"
    /\ staged' = [staged EXCEPT ![call[p].version] = Absent]
    /\ Raise(p)
    /\ UNCHANGED <<pointers, releases, builds, ghosts>>

activate_Publish(p) ==
    LET v == call[p].version
    IN  /\ pc[p] = "verify"
        /\ staged[v] # Absent
        /\ releases[v] = Absent
        /\ releases' = [releases EXCEPT ![v] = staged[v]]
        /\ staged' = [staged EXCEPT ![v] = Absent]
        /\ Goto(p, "previous")
        /\ UNCHANGED <<pointers, builds, rollback_active, lock, call, ghosts>>

activate_Previous(p) ==
    /\ pc[p] = "previous"
    /\ call' = [call EXCEPT ![p].old = active]
    /\ previous' = IF active # NoPointer THEN active ELSE previous
    /\ Goto(p, "current")
    /\ UNCHANGED <<active, directories, rollback_active, lock, ghosts>>

FaultyCurrent(p) ==
    /\ pc[p] = "current"
    /\ active' = [version |-> call[p].version]
    /\ Goto(p, "reload")
    /\ UNCHANGED <<previous, directories, rollback_active, lock, call, ghosts>>

activate_Current(p) ==
    /\ pc[p] = "current"
    /\ active' = [version |-> call[p].version, build |-> releases[call[p].version]]
    /\ Goto(p, "reload")
    /\ UNCHANGED <<previous, directories, rollback_active, lock, call, ghosts>>

\* reload_callback: validate_and_request returns whether the release loads.
activate_Accepted(p) ==
    /\ pc[p] = "reload"
    /\ vetted' = vetted \cup {active.build}
    /\ Goto(p, "prune")
    /\ UNCHANGED <<pointers, directories, rollback_active, lock, call, torn>>

FaultyRefused(p) ==
    /\ pc[p] = "reload"
    /\ Goto(p, "prune")
    /\ UNCHANGED <<pointers, directories, rollback_active, lock, call, ghosts>>

activate_Refused(p) ==
    /\ pc[p] = "reload"
    /\ Goto(p, "restore")
    /\ UNCHANGED <<pointers, directories, rollback_active, lock, call, ghosts>>

\* The pointer goes back to what it was, or away when there was none.
FaultyRestored(p) == NoPointer

Restored(p) == call[p].old

activate_Restore(p) ==
    /\ pc[p] = "restore"
    /\ active' = Restored(p)
    /\ Goto(p, "discard")
    /\ UNCHANGED <<previous, directories, rollback_active, lock, call, ghosts>>

\* The release goes to quarantine.
activate_Discard(p) ==
    /\ pc[p] = "discard"
    /\ releases' = [releases EXCEPT ![call[p].version] = Absent]
    /\ Raise(p)
    /\ UNCHANGED <<pointers, staged, builds, ghosts>>

\* The versions prune_releases keeps whatever their age, and the newest ones: the
\* directory's mtime is the time of the build.
FaultyProtected == {active.version}

Protected == {active.version, previous.version}

KeepCount == IF Retain < 2 THEN 2 ELSE Retain

Newest == {v \in Version : Cardinality({w \in Version : releases[w] > releases[v]}) < KeepCount}

prune_releases(p) ==
    /\ pc[p] = "prune"
    /\ releases' = [v \in Version |->
                       IF v \in Protected \cup Newest THEN releases[v] ELSE Absent]
    /\ Goto(p, "save")
    /\ UNCHANGED <<pointers, staged, builds, rollback_active, lock, call, ghosts>>

_activate_Save(p) ==
    /\ pc[p] = "save"
    /\ rollback_active' = FALSE
    /\ IF call[p].op = "update" THEN Goto(p, "finish") /\ UNCHANGED <<lock, call>> ELSE Leave(p)
    /\ UNCHANGED <<pointers, directories, ghosts>>

\* _update_source saves its own copy of the document once more.
_update_source_Finish(p) ==
    /\ pc[p] = "finish"
    /\ rollback_active' = call[p].rollback_active
    /\ Leave(p)
    /\ UNCHANGED <<pointers, directories, ghosts>>

-----------------------------------------------------------------------------
(* DefinitionStore.rollback and ThreatIntelligenceManager.rollback.        *)

rollback_Begin(p) ==
    /\ previous # NoPointer
    /\ Start(p, "rollback", [NoCall EXCEPT !.op = "rollback"])
    /\ UNCHANGED <<pointers, directories, rollback_active, ghosts>>

rollback_Current(p) ==
    /\ pc[p] = "rollback"
    /\ releases[previous.version] # Absent
    /\ call' = [call EXCEPT ![p].old = active]
    /\ active' = previous
    /\ Goto(p, "rollback_reload")
    /\ UNCHANGED <<previous, directories, rollback_active, lock, ghosts>>

rollback_Accepted(p) ==
    /\ pc[p] = "rollback_reload"
    /\ vetted' = vetted \cup {active.build}
    /\ Goto(p, "rollback_save")
    /\ UNCHANGED <<pointers, directories, rollback_active, lock, call, torn>>

rollback_Refused(p) ==
    /\ pc[p] = "rollback_reload"
    /\ active' = Restored(p)
    /\ Leave(p)
    /\ UNCHANGED <<previous, directories, rollback_active, ghosts>>

rollback_Save(p) ==
    /\ pc[p] = "rollback_save"
    /\ rollback_active' = TRUE
    /\ Leave(p)
    /\ UNCHANGED <<pointers, directories, ghosts>>

-----------------------------------------------------------------------------
(* A step that raises instead (disk full, permission), and a process that  *)
(* dies: the lock goes, the files stay.  What the reload callback raises   *)
(* counts as a refusal.                                                    *)

Unfinished(p) ==
    torn' = IF pc[p] \in {"reload", "restore"} THEN torn \cup {active.build} ELSE torn

Fails(p) ==
    /\ pc[p] \notin {"idle", "reload"}
    /\ Raise(p)
    /\ Unfinished(p)
    /\ UNCHANGED <<pointers, directories, vetted>>

Crash(p) ==
    /\ pc[p] # "idle"
    /\ Leave(p)
    /\ Unfinished(p)
    /\ UNCHANGED <<pointers, directories, rollback_active, vetted>>

-----------------------------------------------------------------------------

Updater(p) ==
    \/ _update_source_Begin(p) \/ _update_source_NotModified(p) \/ _update_source_Stage(p)
    \/ import_bundle(p) \/ _import_offline_Staged(p)
    \/ activate_Begin(p)
    \/ reject_staged(p) \/ activate_Publish(p) \/ activate_Previous(p) \/ activate_Current(p)
    \/ activate_Accepted(p) \/ activate_Refused(p) \/ activate_Restore(p) \/ activate_Discard(p)
    \/ prune_releases(p) \/ _activate_Save(p) \/ _update_source_Finish(p)
    \/ rollback_Begin(p) \/ rollback_Current(p) \/ rollback_Accepted(p)
    \/ rollback_Refused(p) \/ rollback_Save(p)
    \/ Fails(p) \/ Crash(p)

Next == \E p \in Process : Updater(p)

Spec == Init /\ [][Next]_vars

-----------------------------------------------------------------------------
(* Properties.                                                             *)

Resolves(pointer) == pointer # NoPointer => releases[pointer.version] = pointer.build

\* active/current.json and previous/current.json always name a release that is there
\* with the content it had when the pointer was written: no crash, failed reload,
\* pruning or reuse of a version name leaves a sensor or a rollback without it.
PointersResolve == Resolves(active) /\ Resolves(previous)

\* Outside an activation that awaits its verdict, the active release and the one
\* kept for rollback were accepted by a sensor reload, or the operation that
\* activated them died or could not write before the verdict took effect.
ActiveWasAccepted ==
    /\ previous # NoPointer => previous.build \in vetted \cup torn
    /\ (\A p \in Process : pc[p] \notin {"reload", "restore"}) =>
           (active # NoPointer => active.build \in vetted \cup torn)

\* Once an accepted release is active, no step of an update, import, activation or
\* rollback, failed or not, leaves the host without an active release.
ActiveNeverDropped == [][active.build \in vetted => active' # NoPointer]_vars

\* An update that has activated a release does not leave rollback_active set
\* (_activate clears it; the status text of manager.py is "The previous known-good
\* release is active after rollback").
ActivationEndsRollback ==
    [][\A p \in Process :
           pc[p] = "finish" /\ pc'[p] = "idle" => ~rollback_active']_vars
=============================================================================
