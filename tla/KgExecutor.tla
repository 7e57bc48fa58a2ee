----------------------------- MODULE KgExecutor -----------------------------
(***************************************************************************)
(* One run of the knowledge-graph executor (crates/agenticlaw-kg): the      *)
(* descent of executor.rs over a registry of node types, the manifest it    *)
(* keeps in memory and writes after every change (manifest.rs), and the     *)
(* artifacts on disk (resource.rs).  Every type occurs once in the tree, so *)
(* a node is its type.                                                       *)
(*                                                                         *)
(* Text is the set of nodes whose output it contains.  Template variables   *)
(* other than parent_output and plan, tokens, times and events are left     *)
(* out; an event or an artifact that cannot be written ends the run, as a   *)
(* crash does, with the disk as it is.                                      *)
(***************************************************************************)
EXTENDS Naturals, Sequences, FiniteSets

CONSTANTS
  Registry,    \* node type |-> its children, in order; a leaf has none
  Root,        \* the type the run begins with
  Gathers,     \* type |-> what gather_parent_context passes: "issue", "plan",
               \* "parent_output" or "nothing"
  Planner,     \* the type whose output becomes the siblings' plan
  Judged,      \* types that have a success criterion
  Quoted,      \* leaf |-> phrases its success criterion quotes
  Phrases      \* bound: phrases an agent may say besides its text

ASSUME KgAssumption ==
  /\ \A n \in DOMAIN Registry : Registry[n] \in Seq(DOMAIN Registry)
  /\ Root \in DOMAIN Registry
  /\ Gathers \in [DOMAIN Registry -> {"issue", "plan", "parent_output", "nothing"}]
  /\ Judged \subseteq DOMAIN Registry
  /\ Quoted \in [DOMAIN Registry -> SUBSET Phrases]

Node == DOMAIN Registry
Leaf == {n \in Node : Registry[n] = <<>>}
Issue == "the issue's text"
Place == {"idle", "execute", "prepare", "agent", "captured", "gather", "descend",
          "waiting", "aggregated", "returned", "over", "broken"}
NodeState == {"Pending", "Blocked", "Spawned", "Running", "Success", "Failed"}

Listed(s) == {s[i] : i \in DOMAIN s}
ParentOf(n) == CHOOSE p \in Node : n \in Listed(Registry[p])
Children(n) == Listed(Registry[n])
Precedes(b, c) ==    \* siblings, b the earlier one
  \E p \in Node : \E i, j \in DOMAIN Registry[p] :
    i < j /\ Registry[p][i] = b /\ Registry[p][j] = c

\* The nodes are those register_nodes_recursive comes to from the root, and
\* each stands in one place: the tree of a run.
ASSUME TreeAssumption ==
  /\ IsFiniteSet(Node)
  /\ \A p \in Node : Root \notin Children(p)
  /\ \A p, q \in Node : \A i \in DOMAIN Registry[p], j \in DOMAIN Registry[q] :
       Registry[p][i] = Registry[q][j] => p = q /\ i = j
  /\ \A S \in SUBSET Node :
       Root \in S /\ (\A p \in S : Children(p) \subseteq S) => S = Node

VARIABLES
  manifest, outcome,             \* RunManifest in memory ...
  disk, disk_outcome, report,    \* ... and as it was last written
  files,                         \* artifacts of a node on disk
  pc,                            \* where the call of execute_node is
  parent_output, plan,           \* TemplateVars of the call
  child_outputs,                 \* text a parent has collected so far
  output, success,               \* NodeResult
  all_success                    \* of a parent

inMemory == <<manifest, outcome>>
onDisk == <<disk, disk_outcome, report, files>>
given == <<parent_output, plan>>
result == <<output, success>>
vars == <<inMemory, onDisk, pc, given, child_outputs, result, all_success>>

\* run_issue up to the descent: the manifest lists every node, the root
\* pending and the rest blocked, and is written.
Init ==
  /\ manifest = [n \in Node |-> IF n = Root THEN "Pending" ELSE "Blocked"]
  /\ outcome = "Pending"
  /\ disk = manifest /\ disk_outcome = outcome /\ report = FALSE
  /\ files = [n \in Node |-> {}]
  /\ pc = [n \in Node |-> IF n = Root THEN "execute" ELSE "idle"]
  /\ parent_output = [n \in Node |-> {}] /\ plan = [n \in Node |-> {}]
  /\ child_outputs = [n \in Node |-> {}]
  /\ output = [n \in Node |-> {}] /\ success = [n \in Node |-> FALSE]
  /\ all_success = [n \in Node |-> TRUE]

Goto(n, place) == pc' = [pc EXCEPT ![n] = place]

\* A change of the manifest in memory and the write_manifest that follows it.
SetState(n, state) ==
  /\ manifest' = [manifest EXCEPT ![n] = state]
  /\ disk' = manifest'
  /\ disk_outcome' = outcome
  /\ UNCHANGED <<outcome, report>>

Write(n, artifacts) == files' = [files EXCEPT ![n] = @ \cup artifacts]

-----------------------------------------------------------------------------
execute_node(n) ==
  /\ pc[n] = "execute"
  /\ SetState(n, "Running")
  /\ Goto(n, IF n \in Leaf THEN "prepare" ELSE "gather")
  /\ UNCHANGED <<files, given, child_outputs, result, all_success>>

\* execute_leaf: what the agent is about to be given is on disk first.
prepare(n) ==
  /\ pc[n] = "prepare"
  /\ Write(n, {"prompt", "ego", "fear"})
  /\ Goto(n, "agent")
  /\ UNCHANGED <<inMemory, disk, disk_outcome, report, given, child_outputs,
                 result, all_success>>

\* evaluate_success: a criterion that quotes phrases wants every one of them
\* in the output; any other is satisfied by an output that is not blank, and
\* no criterion by any output.
evaluate_success(n, said, blank) ==
  n \in Judged => IF Quoted[n] # {} THEN Quoted[n] \subseteq said ELSE ~blank

\* run_agent: the turn may fail, and its output may be blank.  Output and
\* metrics are written before the criterion is looked at.
run_agent(n) ==
  /\ pc[n] = "agent"
  /\ \E ok \in BOOLEAN, blank \in BOOLEAN, said \in SUBSET Phrases :
       /\ blank => said = {}
       /\ output' = [output EXCEPT ![n] = IF blank THEN {} ELSE {n}]
       /\ success' = [success EXCEPT ![n] = ok /\ evaluate_success(n, said, blank)]
  /\ Write(n, {"output", "metrics"})
  /\ Goto(n, "captured")
  /\ UNCHANGED <<inMemory, disk, disk_outcome, report, given, child_outputs, all_success>>

\* Mutant of finish_leaf: a failure is returned, not recorded.
RecordsNoFailure(n) ==
  /\ pc[n] = "captured"
  /\ SetState(n, IF success[n] THEN "Success" ELSE "Running")
  /\ Goto(n, "returned")
  /\ UNCHANGED <<files, given, child_outputs, result, all_success>>

\* The end of execute_leaf.
finish_leaf(n) ==
  /\ pc[n] = "captured"
  /\ SetState(n, IF success[n] THEN "Success" ELSE "Failed")
  /\ Goto(n, "returned")
  /\ UNCHANGED <<files, given, child_outputs, result, all_success>>

\* gather_parent_context, the seed of the collected outputs.  An issue that
\* cannot be fetched leaves an error text in its place.
gather_parent_context(n) ==
  /\ pc[n] = "gather"
  /\ \E fetched \in BOOLEAN :
       /\ Gathers[n] # "issue" => fetched
       /\ child_outputs' = [child_outputs EXCEPT ![n] =
             CASE Gathers[n] = "issue"         -> IF fetched THEN {Issue} ELSE {}
               [] Gathers[n] = "plan"          -> plan[n]
               [] Gathers[n] = "parent_output" -> parent_output[n]
               [] Gathers[n] = "nothing"       -> {}]
       /\ IF Gathers[n] = "issue" /\ fetched THEN Write(n, {"context"}) ELSE UNCHANGED files
  /\ Goto(n, "descend")
  /\ UNCHANGED <<inMemory, disk, disk_outcome, report, given, result, all_success>>

\* Mutant of Heard: the child hears what its parent was told.
HeardByParent(n) == parent_output[n]

\* What the parent passes on as parent_output.
Heard(n) == child_outputs[n]

\* One round of execute_parent's loop: the child is unblocked, and its
\* variables are the parent's, with what the siblings said so far.
descend(n) ==
  /\ pc[n] = "descend" /\ all_success[n]
  /\ \E c \in Children(n) :
       /\ pc[c] = "idle" /\ \A b \in Node : Precedes(b, c) => pc[b] # "idle"
       /\ SetState(c, "Pending")
       /\ parent_output' = [parent_output EXCEPT ![c] = Heard(n)]
       /\ plan' = [plan EXCEPT ![c] = IF Precedes(Planner, c) THEN output[Planner]
                                      ELSE plan[n]]
       /\ pc' = [pc EXCEPT ![n] = "waiting", ![c] = "execute"]
  /\ UNCHANGED <<files, child_outputs, result, all_success>>

\* The child's result: after a failure the rest is blocked, in memory, and the
\* loop is left.
collect(c) ==
  /\ pc[c] = "returned" /\ c # Root
  /\ LET n == ParentOf(c)
     IN /\ child_outputs' = [child_outputs EXCEPT ![n] = @ \cup output[c]]
        /\ all_success' = [all_success EXCEPT ![n] = @ /\ success[c]]
        /\ manifest' = IF success[c] THEN manifest
                       ELSE [d \in Node |-> IF Precedes(c, d) THEN "Blocked" ELSE manifest[d]]
        /\ pc' = [pc EXCEPT ![c] = "over", ![n] = "descend"]
  /\ UNCHANGED <<outcome, onDisk, given, result>>

\* Mutant of aggregate: waits for the children that a failure kept from beginning.
WaitsForAll(n) ==
  /\ pc[n] = "descend"
  /\ \A c \in Children(n) : pc[c] = "over"
  /\ output' = [output EXCEPT ![n] = child_outputs[n]]
  /\ success' = [success EXCEPT ![n] = all_success[n]]
  /\ Write(n, {"output"})
  /\ Goto(n, "aggregated")
  /\ UNCHANGED <<inMemory, disk, disk_outcome, report, given, child_outputs, all_success>>

\* The loop is over: the collected output is written.
aggregate(n) ==
  /\ pc[n] = "descend"
  /\ all_success[n] => \A c \in Children(n) : pc[c] = "over"
  /\ output' = [output EXCEPT ![n] = child_outputs[n]]
  /\ success' = [success EXCEPT ![n] = all_success[n]]
  /\ Write(n, {"output"})
  /\ Goto(n, "aggregated")
  /\ UNCHANGED <<inMemory, disk, disk_outcome, report, given, child_outputs, all_success>>

finish_parent(n) ==
  /\ pc[n] = "aggregated"
  /\ SetState(n, IF success[n] THEN "Success" ELSE "Failed")
  /\ Goto(n, "returned")
  /\ UNCHANGED <<files, given, child_outputs, result, all_success>>

\* RunManifest::finalize, and the manifest is written.
finalize ==
  /\ pc[Root] = "returned" /\ outcome = "Pending"
  /\ outcome' = IF success[Root] THEN "Success" ELSE "Failure"
  /\ disk' = manifest /\ disk_outcome' = outcome'
  /\ UNCHANGED <<manifest, report, files, pc, given, child_outputs, result, all_success>>

write_report ==
  /\ outcome # "Pending" /\ pc[Root] = "returned"
  /\ report' = TRUE
  /\ Goto(Root, "over")
  /\ UNCHANGED <<inMemory, disk, disk_outcome, files, given, child_outputs, result, all_success>>

\* A driver's error leaves every call through ?; a crash looks the same from
\* the disk.
BreakOff ==
  /\ pc[Root] \notin {"over", "broken"}
  /\ pc' = [n \in Node |-> "broken"]
  /\ UNCHANGED <<inMemory, onDisk, given, child_outputs, result, all_success>>

Step(n) ==
  \/ execute_node(n) \/ prepare(n) \/ run_agent(n) \/ finish_leaf(n)
  \/ gather_parent_context(n) \/ descend(n) \/ collect(n)
  \/ aggregate(n) \/ finish_parent(n)

Progress == (\E n \in Node : Step(n)) \/ finalize \/ write_report

Next == Progress \/ BreakOff

\* The run's one task goes on, and its agents' turns come to an end; no break is
\* owed.
Spec == Init /\ [][Next]_vars /\ WF_vars(Progress)

-----------------------------------------------------------------------------
Settled == {"Success", "Failed"}

TypeOK ==
  /\ {manifest, disk} \subseteq [Node -> NodeState]
  /\ {outcome, disk_outcome} \subseteq {"Pending", "Success", "Failure"}
  /\ report \in BOOLEAN
  /\ pc \in [Node -> Place]
  /\ files \in [Node -> SUBSET {"prompt", "ego", "fear", "context", "output", "metrics"}]
  /\ {parent_output, plan, child_outputs, output} \subseteq [Node -> SUBSET (Node \cup {Issue})]
  /\ {success, all_success} \subseteq [Node -> BOOLEAN]

\* What a reader of the run's directory may conclude from the manifest there,
\* wherever the run broke off: a node that is running has a parent that is, a
\* node that is settled has its output beside it, a parent that succeeded has
\* children that all did, one that failed has one that failed and none that
\* was begun after it, and a run that has an outcome has nothing under way
\* (executor.rs:229-237, 343-352, 448-463, 476-501, manifest.rs:114-122).
DiskTellsTheTree ==
  /\ TypeOK
  /\ \A n \in Node :
      /\ disk[n] \in {"Running", "Pending"} /\ n # Root => disk[ParentOf(n)] = "Running"
      /\ disk[n] \in Settled => "output" \in files[n]
      /\ disk[n] = "Success" => \A c \in Children(n) : disk[c] = "Success"
      /\ disk[n] = "Failed" /\ n \notin Leaf =>
           \E c \in Children(n) :
              /\ disk[c] = "Failed"
              /\ \A d \in Node : Precedes(c, d) => disk[d] = "Blocked" /\ files[d] = {}
  /\ disk_outcome # "Pending" =>
       /\ \A n \in Node : disk[n] \in Settled \cup {"Blocked"}
       /\ disk_outcome = "Success" <=> disk[Root] = "Success"
  /\ report => disk_outcome # "Pending"

\* Every agent begins with the text of all its earlier siblings, in the file
\* that says so as well as in its prompt, a text that is not blank if the
\* sibling is a leaf with a criterion, and below a parent that passes on its own
\* parent_output also with that of everything the parent's earlier siblings did
\* (executor.rs:257-275, 401-410, 554-557).
FedBySiblings ==
  \A n \in Leaf : pc[n] = "agent" =>
    /\ {"prompt", "ego", "fear"} \subseteq files[n]
    /\ \A b \in Node : Precedes(b, n) =>
         /\ b \in Leaf \cap Judged => output[b] # {}
         /\ output[b] \subseteq parent_output[n]
    /\ Gathers[ParentOf(n)] = "parent_output" =>
         \A b \in Node : Precedes(b, ParentOf(n)) => output[b] \subseteq parent_output[n]

\* A run is a pipeline of its leaves: one after the other, none after a
\* failure, and a success only if all of them were.
LeavesIn(state) == {n \in Leaf : manifest[n] = state}
StageReached ==
  CASE disk_outcome = "Success" -> "success"
    [] disk_outcome = "Failure" -> "failure"
    [] OTHER ->
       IF pc[Root] = "broken" THEN "broken"
       ELSE IF LeavesIn("Failed") # {} THEN "failed"
       ELSE IF LeavesIn("Running") # {} THEN "working"
       ELSE "between"
Stage == INSTANCE Pipeline WITH
  Stages <- Cardinality(Leaf), done <- Cardinality(LeavesIn("Success")), state <- StageReached
IsPipeline == Stage!PipeSpec

\* Every run ends, with its report or broken off.
RunEnds == <>(report \/ pc[Root] = "broken")
=============================================================================
