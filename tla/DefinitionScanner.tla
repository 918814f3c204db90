-------------------------- MODULE DefinitionScanner --------------------------
(***************************************************************************)
(* The scanner of the ransomware observer (prototype_yara_scanner.py),     *)
(* which polls the active release (definition_database.py) without         *)
(* update.lock while DefinitionRelease changes it.                         *)
(***************************************************************************)
EXTENDS DefinitionRelease

\* What the scanner works with: definition_snapshot, whose version, definitions and
\* manifest_sha256 are read one after the other.
Snapshot == [version : 0..MaxVersion, definitions : Content, sha : Content]

NoSnapshot == [version |-> 0, definitions |-> Absent, sha |-> Absent]

VARIABLES
    spc,    \* where _reload_definitions is
    draft,  \* the snapshot that load() has read so far
    scan    \* definition_snapshot

scanner == <<spc, draft, scan>>
allVars == <<vars, scanner>>

ScannerTypeOK ==
    /\ TypeOK
    /\ spc \in {"idle", "directory", "definitions", "pointer"}
    /\ draft \in Snapshot
    /\ scan \in Snapshot

ScannerInit ==
    /\ Init
    /\ spc = "idle"
    /\ draft = NoSnapshot
    /\ scan = NoSnapshot

-----------------------------------------------------------------------------
(* PrototypeYaraScanner._reload_definitions: load() reads the active       *)
(* pointer three times.                                                    *)

load_Path ==
    /\ spc = "idle"
    /\ draft' = [NoSnapshot EXCEPT !.version = active.version]
    /\ spc' = IF active = NoPointer THEN "pointer" ELSE "directory"
    /\ UNCHANGED <<vars, scan>>

\* active_bundle_path then looks for the directory: when it has gone since the read of
\* the pointer, load() gives the empty snapshot.
load_Directory ==
    /\ spc = "directory"
    /\ \/ /\ releases[draft.version] # Absent
          /\ spc' = "definitions"
          /\ draft' = draft
       \/ /\ releases[draft.version] = Absent
          /\ spc' = "pointer"
          /\ draft' = NoSnapshot
    /\ UNCHANGED <<vars, scan>>

\* The manifest comes from the path of the first read, the definitions from a second,
\* whose directory is taken to be there still.
load_Definitions ==
    /\ spc = "definitions"
    /\ releases[draft.version] # Absent
    /\ draft' = [draft EXCEPT !.definitions = active.build]
    /\ spc' = "pointer"
    /\ UNCHANGED <<vars, scan>>

\* The directory is gone: the snapshot in use is kept.
load_Fails ==
    /\ spc = "definitions"
    /\ releases[draft.version] = Absent
    /\ draft' = NoSnapshot
    /\ spc' = "idle"
    /\ UNCHANGED <<vars, scan>>

\* The third read gives the digest of the generation.
Loaded == IF draft.version = 0 THEN NoSnapshot ELSE [draft EXCEPT !.sha = active.build]

\* generation: what decides whether a snapshot replaces the one in use.
Generation(snapshot) == <<snapshot.version, snapshot.sha>>

FaultyIsNew(snapshot) == snapshot.version # scan.version

IsNew(snapshot) == Generation(snapshot) # Generation(scan)

_reload_definitions ==
    /\ spc = "pointer"
    /\ spc' = "idle"
    /\ scan' = IF IsNew(Loaded) THEN Loaded ELSE scan
    /\ draft' = NoSnapshot
    /\ UNCHANGED vars

-----------------------------------------------------------------------------

Scanner == load_Path \/ load_Directory \/ load_Definitions \/ load_Fails \/ _reload_definitions

ScannerNext == (Next /\ UNCHANGED scanner) \/ Scanner

\* The scanner's thread polls; nothing else has to happen.
ScannerSpec == ScannerInit /\ [][ScannerNext]_allVars /\ WF_allVars(Scanner)

-----------------------------------------------------------------------------
(* Properties.                                                             *)

\* When the active pointer comes to rest, the scanner's generation becomes the one it
\* names, also when a version name was used twice.
ScannerCatchesUp ==
    \/ []<>(Generation(scan) = <<active.version, active.build>>)
    \/ []<><<active' # active>>_active

\* The scanner works with the definitions of the release whose generation it shows
\* (definition_database.py: "Read only from the signed, atomically activated
\* definition database").
GenerationTellsContent ==
    Generation(scan) = <<active.version, active.build>> => scan.definitions = active.build
=============================================================================
