-------------------------- MODULE VersionMigration --------------------------
(***************************************************************************)
(* The VersionController (crates/agenticlaw-consciousness/src/version.rs): *)
(* how a workspace is brought to schema version 2, in which the directory  *)
(* L4 has become core-a and has got a twin core-b, and how it is rolled    *)
(* back.  Each step is one operation on the file system; the process may   *)
(* be killed, or the operation fail, before any of them, and the next      *)
(* launch has to go on from what it finds.                                 *)
(*                                                                         *)
(* A manifest and core-state.json are written to a temporary file that is  *)
(* renamed, so writing one is one step.  Of a core's directory the model   *)
(* keeps the episodes of its history: they lie in .agenticlaw/sessions,    *)
(* below the directory.                                                    *)
(***************************************************************************)
EXTENDS Naturals

CONSTANTS
  Episode,        \* what the cores live through
  MaxRollbacks,   \* bound: rollback_v2_to_v1 is asked for
  MaxCrashes      \* bound: kills, and errors that end the process

ASSUME MigrationAssumption ==
  MaxRollbacks \in Nat /\ MaxCrashes \in Nat

Dir == {"L4", "core-a", "core-b"}

VARIABLES
  manifest,    \* .version.json: none, v1, migrating, v2
  exists,      \* the directories there are ...
  history,     \* ... and the episodes in each of them
  core_state,  \* is there a core-state.json?
  pc,          \* what the process does next, or "off"
  interrupted, \* has a rollback been cut short?
  rollbacks, crashes

files == <<manifest, exists, history, core_state>>
bounds == <<interrupted, rollbacks, crashes>>
migration == <<files, pc, bounds>>

(* A new workspace, or one that an L4 has lived in.                          *)
MigrationInit ==
  /\ exists \in {{}, {"L4"}}
  /\ manifest \in {"none", "v1"}
  /\ manifest = "v1" => "L4" \in exists
  /\ history \in [Dir -> SUBSET Episode]
  /\ \A d \in Dir : history[d] # {} => d \in exists
  /\ core_state = FALSE
  /\ pc = "off"
  /\ interrupted = FALSE /\ rollbacks = 0 /\ crashes = 0

Goto(next) == pc' = next /\ UNCHANGED bounds

Create(dirs) == exists' = exists \cup dirs /\ UNCHANGED history

Rename(old, new) ==
  /\ exists' = (exists \ {old}) \cup {new}
  /\ history' = [history EXCEPT ![new] = history[old], ![old] = {}]

-----------------------------------------------------------------------------
(* ensure_version(2), and the migration it finds necessary.                  *)

OnlyUnmarked ==                                                    \* mutant
  CASE manifest = "v2"                            -> "start"
    [] manifest \in {"v1", "migrating"}           -> "off"
    [] OTHER                                      -> "create_core_a"
Detected ==
  CASE manifest = "v2"                            -> "start"
    [] manifest \in {"v1", "migrating"}           -> "mark"
    [] manifest = "none" /\ "core-a" \in exists   -> "finish"
    [] manifest = "none" /\ "core-a" \notin exists
                         /\ "L4" \in exists       -> "mark"
    [] OTHER                                      -> "create_core_a"

ensure_version ==
  /\ pc = "off"
  /\ Goto(Detected)
  /\ UNCHANGED files

Mark ==
  /\ pc = "mark"
  /\ manifest' = "migrating"
  /\ Goto("core_a")
  /\ UNCHANGED <<exists, history, core_state>>

RenamesAlways ==                                                   \* mutant
  IF "L4" \in exists THEN Rename("L4", "core-a") ELSE Create({"core-a"})
NeverRenames == Create({"core-a"})                                 \* mutant
ProvideCoreA ==
  IF "L4" \in exists /\ "core-a" \notin exists
    THEN Rename("L4", "core-a")
    ELSE Create({"core-a"})

MigrateCoreA ==
  /\ pc = "core_a"
  /\ ProvideCoreA
  /\ Goto("core_b")
  /\ UNCHANGED <<manifest, core_state>>

(* create_v2_layout, for a new workspace, goes on like the migration.        *)
CreateCoreA ==
  /\ pc = "create_core_a"
  /\ Create({"core-a"})
  /\ Goto("core_b")
  /\ UNCHANGED <<manifest, core_state>>

CreateCoreB ==
  /\ pc = "core_b"
  /\ Create({"core-b"})
  /\ Goto("core_state")
  /\ UNCHANGED <<manifest, core_state>>

WriteCoreState ==
  /\ pc = "core_state"
  /\ core_state' = TRUE
  /\ Goto("finish")
  /\ UNCHANGED <<manifest, exists, history>>

Finish ==
  /\ pc = "finish"
  /\ manifest' = "v2"
  /\ Goto("start")
  /\ UNCHANGED <<exists, history, core_state>>

-----------------------------------------------------------------------------
(* The stack that runs in the workspace.                                     *)

(* DualCore::new makes sure of the directories.                              *)
TrustsLayout == UNCHANGED <<exists, history>>                      \* mutant
PrepareCores == Create({"core-a", "core-b"})

Start ==
  /\ pc = "start"
  /\ PrepareCores
  /\ Goto("running")
  /\ UNCHANGED <<manifest, core_state>>

Live(c, e) ==
  /\ pc = "running"
  /\ history' = [history EXCEPT ![c] = @ \cup {e}]
  /\ core_state' \in {core_state, TRUE}
  /\ UNCHANGED <<manifest, exists, pc, bounds>>

Stop ==
  /\ pc = "running"
  /\ Goto("off")
  /\ UNCHANGED files

-----------------------------------------------------------------------------
(* rollback_v2_to_v1.  Nothing in the repository calls it but a test; it is  *)
(* there for the operator of a stopped stack.                                *)

AskForRollback ==
  /\ pc = "off" /\ manifest = "v2"
  /\ rollbacks < MaxRollbacks
  /\ rollbacks' = rollbacks + 1
  /\ pc' = "back_core_a"
  /\ UNCHANGED <<files, interrupted, crashes>>

RenameBack ==
  /\ pc = "back_core_a"
  /\ IF "core-a" \in exists /\ "L4" \notin exists
       THEN Rename("core-a", "L4") ELSE UNCHANGED <<exists, history>>
  /\ Goto("back_core_b")
  /\ UNCHANGED <<manifest, core_state>>

(* Only .ctx files in core-b itself would keep it, and there are none: its   *)
(* episodes are further below.  remove_dir_all may fail half-way, and the    *)
(* error is dropped.                                                         *)
Removed ==
  \/ /\ exists' = exists \ {"core-b"}
     /\ history' = [history EXCEPT !["core-b"] = {}]
  \/ /\ UNCHANGED exists
     /\ \E left \in SUBSET history["core-b"] :
          history' = [history EXCEPT !["core-b"] = left]

RemoveCoreB ==
  /\ pc = "back_core_b"
  /\ Removed
  /\ Goto("back_core_state")
  /\ UNCHANGED <<manifest, core_state>>

RemoveCoreState ==
  /\ pc = "back_core_state"
  /\ core_state' \in {core_state, FALSE}
  /\ Goto("back_finish")
  /\ UNCHANGED <<manifest, exists, history>>

FinishRollback ==
  /\ pc = "back_finish"
  /\ manifest' = "v1"
  /\ Goto("off")
  /\ UNCHANGED <<exists, history, core_state>>

-----------------------------------------------------------------------------

(* The process is killed, or its next operation fails, which ends it too.    *)
Crash ==
  /\ pc # "off"
  /\ crashes < MaxCrashes
  /\ crashes' = crashes + 1
  /\ pc' = "off"
  /\ interrupted' = (interrupted \/
       pc \in {"back_core_b", "back_core_state", "back_finish"})
  /\ UNCHANGED <<files, rollbacks>>

Step ==
  \/ ensure_version \/ Mark \/ MigrateCoreA \/ CreateCoreA \/ CreateCoreB
  \/ WriteCoreState \/ Finish \/ Start
  \/ RenameBack \/ RemoveCoreB \/ RemoveCoreState \/ FinishRollback

MigrationNext ==
  \/ Step
  \/ \E c \in {"core-a", "core-b"}, e \in Episode : Live(c, e)
  \/ Stop \/ AskForRollback \/ Crash

MigrationSpec == MigrationInit /\ [][MigrationNext]_migration

(* The program runs, and is launched again when it has stopped or crashed.   *)
FairMigration == MigrationSpec /\ WF_migration(Step)

-----------------------------------------------------------------------------
(* Properties.                                                               *)

(* Types; a directory that is not there has no history.                      *)
MigrationTypeOK ==
  /\ manifest \in {"none", "v1", "migrating", "v2"}
  /\ exists \subseteq Dir
  /\ history \in [Dir -> SUBSET Episode]
  /\ \A d \in Dir : history[d] # {} => d \in exists
  /\ core_state \in BOOLEAN
  /\ pc \in {"off", "mark", "core_a", "create_core_a", "core_b", "core_state",
             "finish", "start", "running", "back_core_a", "back_core_b",
             "back_core_state", "back_finish"}
  /\ interrupted \in BOOLEAN
  /\ rollbacks \in 0 .. MaxRollbacks
  /\ crashes \in 0 .. MaxCrashes

(* The workspace keeps its promise (WorkspaceLife) at every crash, failure,  *)
(* resumption and rollback: what core A and the L4 before it lived through   *)
(* is on disk, and only a stack that runs at version 2 adds to it.           *)
Life == INSTANCE WorkspaceLife
          WITH version <- IF manifest = "v2" THEN 2 ELSE 1,
               memory <- history["L4"] \cup history["core-a"]
PromiseKept == Life!Spec

(* ... and it is where the stack looks for it, as long as no rollback was    *)
(* cut short: the history has one home, and it is core-a when a stack runs.  *)
OneHome ==
  ~interrupted =>
    /\ "L4" \notin exists \/ "core-a" \notin exists
    /\ pc = "running" => "L4" \notin exists

(* A stack only runs in a version 2 workspace with both cores' directories,  *)
(* even if the layout was left half made (version.rs:97 takes a core-a       *)
(* without a manifest for all of it).                                        *)
RunsOnV2 ==
  pc = "running" => manifest = "v2" /\ {"core-a", "core-b"} \subseteq exists

(* All of it: whatever cut a launch short, the next stack finds its history, *)
(* and no episode is kept where there is no directory for it.                *)
HistoryIsFound == MigrationTypeOK /\ OneHome /\ RunsOnV2

(* No crash and no rollback leaves a workspace that cannot be launched.      *)
Relaunches == pc = "off" ~> pc = "running"

-----------------------------------------------------------------------------
(* The inductive invariants behind the properties.                           *)

(* RunsOnV2, and how the stack gets there: the stack is started on a v2      *)
(* manifest only, and rolled back from one.                                  *)
StartInv ==
  /\ RunsOnV2
  /\ pc \in {"start", "back_core_a", "back_core_b", "back_core_state",
             "back_finish"} => manifest = "v2"

(* OneHome, step by step: L4 is gone once core-a has been provided, and back *)
(* only when a rollback has renamed core-a, until it has written v1.         *)
HomeInv ==
  ~interrupted =>
    /\ "L4" \notin exists \/ "core-a" \notin exists
    /\ pc \in {"create_core_a", "core_b", "core_state", "finish", "start",
               "running"} => "L4" \notin exists
    /\ manifest = "v2" /\ pc \notin {"back_core_b", "back_core_state",
                                     "back_finish"} => "L4" \notin exists
    /\ pc \in {"mark", "core_a", "create_core_a", "core_b", "core_state"}
         => manifest # "v2"

=============================================================================
