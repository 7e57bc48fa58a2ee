-------------------------- MODULE KgExecutorProofs --------------------------
(* Proofs about KgExecutor, for any tree of node types, any hooks and any    *)
(* criteria: what the manifest on disk says, what an agent is told, and that *)
(* a run is a pipeline of its leaves.                                        *)
EXTENDS KgExecutor, SequenceTheorems, FiniteSetTheorems, TLAPS

USE KgAssumption, TreeAssumption

-----------------------------------------------------------------------------
(* The inductive invariant, as long as the run is not broken off.            *)

AtWork == {"execute", "prepare", "agent", "captured", "gather", "descend",
           "aggregated", "returned"}
Live == AtWork \cup {"waiting"}

(* What the manifest and the files say of a node, by where its call is.      *)
PlaceInv ==
  \A n \in Node :
    /\ pc[n] # "broken"
    /\ pc[n] = "idle" => manifest[n] = "Blocked" /\ files[n] = {}
    /\ pc[n] = "execute" => manifest[n] = "Pending"
    /\ pc[n] \in {"prepare", "agent", "captured"} => n \in Leaf /\ manifest[n] = "Running"
    /\ pc[n] \in {"gather", "descend", "waiting", "aggregated"} =>
         n \notin Leaf /\ manifest[n] = "Running"
    /\ pc[n] \in {"returned", "over"} =>
         manifest[n] = IF success[n] THEN "Success" ELSE "Failed"
    /\ pc[n] \in {"captured", "aggregated", "returned", "over"} => "output" \in files[n]
    /\ pc[n] = "agent" => {"prompt", "ego", "fear"} \subseteq files[n]

(* One call is at work, below calls that wait for it; nothing is under way   *)
(* below any other.                                                          *)
CursorInv ==
  /\ \A a, b \in Node : pc[a] \in AtWork /\ pc[b] \in AtWork => a = b
  /\ pc[Root] # "idle"
  /\ \A n \in Node : \A c \in Children(n) :
       /\ pc[c] \in Live => pc[n] = "waiting"
       /\ pc[n] \in {"idle", "execute", "gather"} => pc[c] = "idle"
  /\ \A n \in Node : \A b, c \in Children(n) : pc[b] \in Live /\ pc[c] \in Live => b = c

(* A child is begun when its earlier siblings are over and succeeded; what   *)
(* a parent returns is what its children did.                                *)
OrderInv ==
  \A b, c \in Node : Precedes(b, c) /\ pc[c] # "idle" => pc[b] = "over" /\ success[b]
SuccessInv ==
  \A n \in Node :
    /\ all_success[n] <=> \A c \in Children(n) : pc[c] = "over" => success[c]
    /\ n \notin Leaf /\ pc[n] \in {"aggregated", "returned", "over"} =>
         IF success[n] THEN \A c \in Children(n) : pc[c] = "over" /\ success[c]
         ELSE \E c \in Children(n) : pc[c] = "over" /\ ~success[c]

(* What a call is told and what it collects.                                 *)
TextInv ==
  /\ \A n \in Node :
       /\ n \in Leaf \cap Judged
       /\ pc[n] \in {"captured", "aggregated", "returned", "over"} /\ success[n]
       => output[n] # {}
  /\ \A n \in Node : \A c \in Children(n) :
       /\ pc[c] = "over" => output[c] \subseteq child_outputs[n]
       /\ pc[c] # "idle" /\ Gathers[n] = "parent_output" =>
            parent_output[n] \subseteq parent_output[c]
  /\ \A n \in Node : pc[n] \in {"descend", "waiting"} /\ Gathers[n] = "parent_output" =>
       parent_output[n] \subseteq child_outputs[n]
  /\ \A b, c \in Node : Precedes(b, c) /\ pc[c] # "idle" => output[b] \subseteq parent_output[c]

(* Once a node failed, a leaf did, and the call at work carries the failure  *)
(* up.                                                                       *)
FailureInv ==
  \A x \in Node : manifest[x] = "Failed" =>
    /\ \E l \in Leaf : manifest[l] = "Failed"
    /\ \A a \in Node : pc[a] \in AtWork =>
         \/ pc[a] \in {"aggregated", "returned"} /\ ~success[a]
         \/ pc[a] = "descend" /\ ~all_success[a]

(* The disk is never behind, and the outcome is the root's.                  *)
OutcomeInv ==
  /\ disk = manifest /\ disk_outcome = outcome
  /\ outcome # "Pending" =>
       /\ pc[Root] \in {"returned", "over"}
       /\ outcome = IF success[Root] THEN "Success" ELSE "Failure"
  /\ report \/ pc[Root] = "over" => outcome # "Pending"

LiveInv == PlaceInv /\ CursorInv /\ OrderInv /\ SuccessInv /\ TextInv /\ FailureInv
             /\ OutcomeInv

Broken == \A n \in Node : pc[n] = "broken"

Inv == TypeOK /\ DiskTellsTheTree /\ (LiveInv \/ Broken)

-----------------------------------------------------------------------------
(* About the tree.                                                           *)

LEMMA RegistryLists ==
  /\ \A n \in Node : \A i \in DOMAIN Registry[n] : Registry[n][i] \in Node /\ i \in Nat
  /\ \A n \in Node : Children(n) \subseteq Node
  /\ Root \in Node /\ Leaf \subseteq Node
  /\ \A n \in Node : n \in Leaf <=> Children(n) = {}
<1>1. \A n \in Node : Registry[n] \in Seq(Node)
  BY DEF Node
<1>2. \A n \in Node : \A i \in DOMAIN Registry[n] : Registry[n][i] \in Node /\ i \in Nat
  BY <1>1
<1>3. ASSUME NEW n \in Node
      PROVE  Registry[n] = <<>> <=> DOMAIN Registry[n] = {}
  <2> DEFINE q == Registry[n]
  <2>1. q \in Seq(Node)
    BY <1>1
  <2> HIDE DEF q
  <2>2. q # <<>> => 1 \in DOMAIN q
    BY <2>1, EmptySeq
  <2>3. q = <<>> => DOMAIN q = {}
    OBVIOUS
  <2> QED
    BY <2>2, <2>3 DEF q
<1> QED
  <2>1. Root \in Node /\ Leaf \subseteq Node
    BY DEF Node, Leaf
  <2>2. \A n \in Node : n \in Leaf <=> Children(n) = {}
    <3>1. ASSUME NEW n \in Node
          PROVE  DOMAIN Registry[n] = {} <=> Children(n) = {}
      <4>1. \A i \in DOMAIN Registry[n] : Registry[n][i] \in Children(n)
        BY DEF Children, Listed
      <4>2. \A c \in Children(n) : \E i \in DOMAIN Registry[n] : c = Registry[n][i]
        BY DEF Children, Listed
      <4> QED
        BY <4>1, <4>2
    <3> QED
      BY <1>3, <3>1 DEF Leaf
  <2>3. \A n \in Node : Children(n) \subseteq Node
    BY <1>2 DEF Children, Listed
  <2> QED
    BY <1>2, <2>1, <2>2, <2>3

LEMMA ParentIs ==
  \A n \in Node : \A c \in Children(n) : c # Root /\ ParentOf(c) = n
<1>1. ASSUME NEW n \in Node, NEW c \in Children(n), NEW p \in Node, c \in Children(p)
      PROVE  p = n
  <2>1. PICK i \in DOMAIN Registry[n] : Registry[n][i] = c
    BY DEF Children, Listed
  <2>2. PICK j \in DOMAIN Registry[p] : Registry[p][j] = c
    BY <1>1 DEF Children, Listed
  <2> QED
    BY <2>1, <2>2
<1> QED
  BY <1>1 DEF ParentOf, Children

LEMMA HasParent ==
  \A c \in Node \ {Root} : ParentOf(c) \in Node /\ c \in Children(ParentOf(c))
<1> DEFINE S == {Root} \cup {c \in Node : \E p \in Node : c \in Children(p)}
<1>1. S = Node
  <2>1. S \subseteq Node /\ Root \in S
    BY RegistryLists
  <2>2. \A p \in S : Children(p) \subseteq S
    BY <2>1, RegistryLists
  <2> QED
    BY <2>1, <2>2
<1>2. \A c \in Node \ {Root} : \E p \in Node : c \in Children(p)
  BY <1>1
<1> QED
  BY <1>2 DEF ParentOf, Children

LEMMA Siblings ==
  \A b, c \in Node : Precedes(b, c) =>
    /\ b # c /\ b # Root /\ c # Root /\ ParentOf(b) = ParentOf(c)
    /\ b \in Children(ParentOf(c)) /\ c \in Children(ParentOf(c)) /\ ParentOf(c) \in Node
<1> SUFFICES ASSUME NEW b \in Node, NEW c \in Node, Precedes(b, c)
             PROVE  /\ b # c /\ b # Root /\ c # Root /\ ParentOf(b) = ParentOf(c)
                    /\ b \in Children(ParentOf(c)) /\ c \in Children(ParentOf(c))
                    /\ ParentOf(c) \in Node
  OBVIOUS
<1>1. PICK p \in Node : \E i, j \in DOMAIN Registry[p] :
        i < j /\ Registry[p][i] = b /\ Registry[p][j] = c
  BY DEF Precedes
<1>2. PICK i \in DOMAIN Registry[p], j \in DOMAIN Registry[p] :
        i < j /\ Registry[p][i] = b /\ Registry[p][j] = c
  BY <1>1
<1>3. i # j
  BY <1>2, RegistryLists
<1>4. b # c
  BY <1>2, <1>3
<1>5. b \in Children(p) /\ c \in Children(p)
  BY <1>2 DEF Children, Listed
<1> QED
  BY <1>4, <1>5, ParentIs

LEMMA PrecedesNodes == \A b, c : Precedes(b, c) => b \in Node /\ c \in Node
BY RegistryLists DEF Precedes

-----------------------------------------------------------------------------
(* Types.                                                                    *)

Texts == SUBSET (Node \cup {Issue})
Types ==
  /\ manifest \in [Node -> NodeState] /\ disk \in [Node -> NodeState]
  /\ outcome \in {"Pending", "Success", "Failure"}
  /\ disk_outcome \in {"Pending", "Success", "Failure"}
  /\ report \in BOOLEAN
  /\ pc \in [Node -> Place]
  /\ files \in [Node -> SUBSET {"prompt", "ego", "fear", "context", "output", "metrics"}]
  /\ parent_output \in [Node -> Texts] /\ plan \in [Node -> Texts]
  /\ child_outputs \in [Node -> Texts] /\ output \in [Node -> Texts]
  /\ success \in [Node -> BOOLEAN] /\ all_success \in [Node -> BOOLEAN]

LEMMA TypesOf == TypeOK <=> Types
BY DEF TypeOK, Types, Texts

LEMMA TypesOfNext == TypeOK' <=> Types'
BY DEF TypeOK, Types, Texts

LEMMA TypeInit == Init => TypeOK
<1> SUFFICES ASSUME Init PROVE Types
  BY TypesOf
<1> QED
  BY DEF Init, Types, Texts, NodeState, Place

LEMMA TypeOfStep ==
  ASSUME TypeOK, NEW n \in Node, Step(n)
  PROVE  TypeOK'
<1>0. Types
  BY TypesOf
<1> SUFFICES Types'
  BY TypesOfNext
<1> USE DEF Goto, SetState, Write, inMemory, onDisk, given, result
<1>1. CASE execute_node(n)
  BY <1>0, <1>1 DEF execute_node, Types, NodeState, Place
<1>2. CASE prepare(n)
  BY <1>0, <1>2 DEF prepare, Types, Place
<1>3. CASE run_agent(n)
  <2>1. PICK ok \in BOOLEAN, blank \in BOOLEAN, said \in SUBSET Phrases :
          /\ output' = [output EXCEPT ![n] = IF blank THEN {} ELSE {n}]
          /\ success' = [success EXCEPT ![n] = ok /\ evaluate_success(n, said, blank)]
    BY <1>3 DEF run_agent
  <2>2. evaluate_success(n, said, blank) \in BOOLEAN
    BY DEF evaluate_success
  <2>3. output' \in [Node -> Texts]
    BY <1>0, <2>1 DEF Types, Texts
  <2>4. success' \in [Node -> BOOLEAN]
    BY <1>0, <2>1, <2>2 DEF Types
  <2> QED
    BY <1>0, <1>3, <2>3, <2>4 DEF run_agent, Types, Place
<1>4. CASE finish_leaf(n)
  BY <1>0, <1>4 DEF finish_leaf, Types, NodeState, Place
<1>5. CASE gather_parent_context(n)
  <2>1. PICK fetched \in BOOLEAN :
          /\ child_outputs' = [child_outputs EXCEPT ![n] =
                CASE Gathers[n] = "issue"         -> IF fetched THEN {Issue} ELSE {}
                  [] Gathers[n] = "plan"          -> plan[n]
                  [] Gathers[n] = "parent_output" -> parent_output[n]
                  [] Gathers[n] = "nothing"       -> {}]
          /\ files' = [files EXCEPT ![n] = @ \cup {"context"}] \/ files' = files
    BY <1>5 DEF gather_parent_context
  <2>2. Gathers[n] \in {"issue", "plan", "parent_output", "nothing"}
    BY DEF Node
  <2>3. child_outputs' \in [Node -> Texts]
    BY <1>0, <2>1, <2>2 DEF Types, Texts
  <2>4. files' \in [Node -> SUBSET {"prompt", "ego", "fear", "context", "output", "metrics"}]
    <3>1. CASE files' = files
      BY <1>0, <3>1 DEF Types
    <3>2. CASE files' = [files EXCEPT ![n] = @ \cup {"context"}]
      BY <1>0, <3>2 DEF Types
    <3> QED
      BY <2>1, <3>1, <3>2
  <2> QED
    BY <1>0, <1>5, <2>3, <2>4 DEF gather_parent_context, Types, Place
<1>6. CASE descend(n)
  <2>1. PICK c \in Children(n) :
          /\ manifest' = [manifest EXCEPT ![c] = "Pending"]
          /\ parent_output' = [parent_output EXCEPT ![c] = Heard(n)]
          /\ plan' = [plan EXCEPT ![c] = IF Precedes(Planner, c) THEN output[Planner]
                                         ELSE plan[n]]
          /\ pc' = [pc EXCEPT ![n] = "waiting", ![c] = "execute"]
    BY <1>6 DEF descend
  <2>2. manifest' \in [Node -> NodeState] /\ pc' \in [Node -> Place]
    BY <1>0, <2>1 DEF Types, NodeState, Place
  <2>3. parent_output' \in [Node -> Texts]
    BY <1>0, <2>1 DEF Types, Heard
  <2>4. plan' \in [Node -> Texts]
    BY <1>0, <2>1, PrecedesNodes DEF Types
  <2> QED
    BY <1>0, <1>6, <2>2, <2>3, <2>4 DEF descend, Types
<1>7. CASE collect(n)
  <2> DEFINE p == ParentOf(n)
  <2>1. p \in Node
    BY <1>7, HasParent DEF collect
  <2> HIDE DEF p
  <2>2. child_outputs' \in [Node -> Texts]
    BY <1>0, <1>7, <2>1 DEF collect, Types, Texts, p
  <2>3. all_success' \in [Node -> BOOLEAN]
    BY <1>0, <1>7, <2>1 DEF collect, Types, p
  <2>4. manifest' \in [Node -> NodeState]
    BY <1>0, <1>7 DEF collect, Types, NodeState
  <2>5. pc' \in [Node -> Place]
    BY <1>0, <1>7, <2>1 DEF collect, Types, Place, p
  <2> QED
    BY <1>0, <1>7, <2>2, <2>3, <2>4, <2>5 DEF collect, Types
<1>8. CASE aggregate(n)
  BY <1>0, <1>8 DEF aggregate, Types, Place
<1>9. CASE finish_parent(n)
  BY <1>0, <1>9 DEF finish_parent, Types, NodeState, Place
<1> QED
  BY <1>1, <1>2, <1>3, <1>4, <1>5, <1>6, <1>7, <1>8, <1>9 DEF Step

LEMMA TypeStep == TypeOK /\ [Next]_vars => TypeOK'
<1> SUFFICES ASSUME TypeOK, [Next]_vars PROVE TypeOK'
  OBVIOUS
<1>0. Types
  BY TypesOf
<1>1. CASE \E n \in Node : Step(n)
  BY <1>1, TypeOfStep
<1>2. CASE finalize
  BY <1>0, <1>2, TypesOfNext DEF finalize, Types, given, result
<1>3. CASE write_report
  BY <1>0, <1>3, TypesOfNext, RegistryLists
     DEF write_report, Types, Goto, Place, inMemory, given, result
<1>4. CASE BreakOff
  BY <1>0, <1>4, TypesOfNext DEF BreakOff, Types, Place, inMemory, onDisk, given, result
<1>5. CASE UNCHANGED vars
  BY <1>0, <1>5, TypesOfNext DEF vars, Types, inMemory, onDisk, given, result
<1> QED
  BY <1>1, <1>2, <1>3, <1>4, <1>5 DEF Next, Progress

-----------------------------------------------------------------------------
(* What the steps do to the calls, node by node.                             *)

Still(n, f, g) == \A x \in Node \ {n} : g[x] = f[x]

(* A step of the call at n that stays at n.                                  *)
Advances(n, from, to) ==
  /\ from \in AtWork /\ to \in AtWork \ {"execute"}
  /\ to = "gather" => from = "execute"
  /\ pc[n] = from /\ pc'[n] = to /\ Still(n, pc, pc')
  /\ parent_output' = parent_output /\ all_success' = all_success
  /\ outcome' = outcome /\ report' = report

Keeps(n) ==
  /\ manifest' = manifest /\ disk' = disk /\ disk_outcome' = disk_outcome
Records(n, state) ==
  /\ manifest'[n] = state /\ Still(n, manifest, manifest')
  /\ disk' = manifest' /\ disk_outcome' = outcome

Executed(n) ==
  /\ Advances(n, "execute", IF n \in Leaf THEN "prepare" ELSE "gather")
  /\ Records(n, "Running")
  /\ UNCHANGED <<files, child_outputs, output, success>>
Prepared(n) ==
  /\ Advances(n, "prepare", "agent") /\ Keeps(n)
  /\ files'[n] = files[n] \cup {"prompt", "ego", "fear"} /\ Still(n, files, files')
  /\ UNCHANGED <<child_outputs, output, success>>
RanAgent(n) ==
  /\ Advances(n, "agent", "captured") /\ Keeps(n)
  /\ files'[n] = files[n] \cup {"output", "metrics"} /\ Still(n, files, files')
  /\ Still(n, output, output') /\ Still(n, success, success')
  /\ success'[n] /\ n \in Judged => output'[n] # {}
  /\ child_outputs' = child_outputs
Finished(n, from) ==
  /\ Advances(n, from, "returned")
  /\ Records(n, IF success[n] THEN "Success" ELSE "Failed")
  /\ UNCHANGED <<files, child_outputs, output, success>>
Gathered(n) ==
  /\ Advances(n, "gather", "descend") /\ Keeps(n)
  /\ Still(n, child_outputs, child_outputs')
  /\ Gathers[n] = "parent_output" => child_outputs'[n] = parent_output[n]
  /\ files[n] \subseteq files'[n] /\ Still(n, files, files')
  /\ UNCHANGED <<output, success>>
Aggregated(n) ==
  /\ Advances(n, "descend", "aggregated") /\ Keeps(n)
  /\ all_success[n] => \A c \in Children(n) : pc[c] = "over"
  /\ output'[n] = child_outputs[n] /\ Still(n, output, output')
  /\ success'[n] = all_success[n] /\ Still(n, success, success')
  /\ files'[n] = files[n] \cup {"output"} /\ Still(n, files, files')
  /\ child_outputs' = child_outputs

(* The steps between a parent and its child.                                 *)
Descends(n, c) ==
  /\ c \in Children(n) /\ c # n
  /\ pc[n] = "descend" /\ all_success[n] /\ pc[c] = "idle"
  /\ \A b \in Node : Precedes(b, c) => pc[b] # "idle"
  /\ pc'[n] = "waiting" /\ pc'[c] = "execute"
  /\ \A x \in Node \ {n, c} : pc'[x] = pc[x]
  /\ Records(c, "Pending")
  /\ parent_output'[c] = child_outputs[n] /\ Still(c, parent_output, parent_output')
  /\ UNCHANGED <<files, child_outputs, output, success, all_success, outcome, report>>
Collects(n, c) ==
  /\ n \in Node /\ c \in Children(n) /\ c # n
  /\ pc[c] = "returned"
  /\ pc'[n] = "descend" /\ pc'[c] = "over" /\ \A x \in Node \ {n, c} : pc'[x] = pc[x]
  /\ child_outputs'[n] = child_outputs[n] \cup output[c]
  /\ Still(n, child_outputs, child_outputs')
  /\ all_success'[n] = (all_success[n] /\ success[c])
  /\ Still(n, all_success, all_success')
  /\ \A x \in Node : manifest'[x] =
       IF ~success[c] /\ Precedes(c, x) THEN "Blocked" ELSE manifest[x]
  /\ UNCHANGED <<files, output, success, parent_output, outcome, report, disk, disk_outcome>>

LEMMA NotItself == \A n \in Node : n \notin Children(n)
<1> SUFFICES ASSUME NEW n \in Node, n \in Children(n) PROVE FALSE
  OBVIOUS
<1> DEFINE S == Node \ {n}
<1>1. Root \in S
  BY RegistryLists, ParentIs
<1>2. \A p \in S : Children(p) \subseteq S
  BY RegistryLists, ParentIs
<1>3. S = Node
  BY <1>1, <1>2
<1> QED
  BY <1>3

LEMMA SuccessHasText ==
  ASSUME NEW n \in Node, NEW said \in SUBSET Phrases, NEW blank \in BOOLEAN,
         n \in Judged, blank => said = {}, evaluate_success(n, said, blank)
  PROVE  ~blank
BY DEF evaluate_success

LEMMA StepDoes ==
  ASSUME TypeOK, NEW n \in Node, Step(n)
  PROVE  \/ Executed(n) \/ Prepared(n) \/ RanAgent(n)
         \/ Finished(n, "captured") \/ Finished(n, "aggregated")
         \/ Gathered(n) \/ Aggregated(n)
         \/ \E c \in Children(n) : Descends(n, c)
         \/ Collects(ParentOf(n), n)
<1>0. Types
  BY TypesOf
<1> DEFINE Moves(from, to) == pc[n] = from /\ pc' = [pc EXCEPT ![n] = to]
<1>1. ASSUME NEW from \in AtWork, NEW to \in AtWork \ {"execute"}, Moves(from, to),
             to = "gather" => from = "execute",
             UNCHANGED <<parent_output, all_success, outcome, report>>
      PROVE  Advances(n, from, to)
  BY <1>0, <1>1 DEF Types, Advances, Still
<1>2. ASSUME NEW state, SetState(n, state)
      PROVE  Records(n, state) /\ outcome' = outcome /\ report' = report
  BY <1>0, <1>2 DEF SetState, Records, Types, Still
<1>3. ASSUME NEW artifacts, Write(n, artifacts)
      PROVE  files'[n] = files[n] \cup artifacts /\ Still(n, files, files')
  BY <1>0, <1>3 DEF Write, Types, Still
<1> USE DEF Goto, onDisk, given, result, inMemory
<1>4. CASE execute_node(n)
  <2>1. Advances(n, "execute", IF n \in Leaf THEN "prepare" ELSE "gather")
    <3>1. UNCHANGED <<parent_output, all_success>> /\ SetState(n, "Running")
          /\ Moves("execute", IF n \in Leaf THEN "prepare" ELSE "gather")
      BY <1>4 DEF execute_node
    <3> HIDE DEF Moves
    <3> QED
      BY <1>1, <1>2, <3>1 DEF AtWork
  <2> QED
    BY <1>2, <1>4, <2>1 DEF execute_node, Executed
<1>5. CASE prepare(n)
  <2>1. Advances(n, "prepare", "agent")
    BY <1>1, <1>5 DEF prepare, AtWork
  <2> QED
    BY <1>3, <1>5, <2>1 DEF prepare, Prepared, Keeps
<1>6. CASE run_agent(n)
  <2>1. Advances(n, "agent", "captured")
    BY <1>1, <1>6 DEF run_agent, AtWork
  <2>2. PICK ok \in BOOLEAN, blank \in BOOLEAN, said \in SUBSET Phrases :
          /\ blank => said = {}
          /\ output' = [output EXCEPT ![n] = IF blank THEN {} ELSE {n}]
          /\ success' = [success EXCEPT ![n] = ok /\ evaluate_success(n, said, blank)]
    BY <1>6 DEF run_agent
  <2>3. Still(n, output, output') /\ Still(n, success, success')
    BY <1>0, <2>2 DEF Types, Still
  <2>4. success'[n] /\ n \in Judged => output'[n] # {}
    <3>1. output'[n] = IF blank THEN {} ELSE {n}
      BY <1>0, <2>2 DEF Types
    <3>2. success'[n] => evaluate_success(n, said, blank)
      BY <1>0, <2>2 DEF Types
    <3>3. n \in Judged /\ evaluate_success(n, said, blank) => ~blank
      BY <2>2, SuccessHasText
    <3> QED
      BY <3>1, <3>2, <3>3
  <2> QED
    BY <1>3, <1>6, <2>1, <2>3, <2>4 DEF run_agent, RanAgent, Keeps
<1>7. CASE finish_leaf(n)
  <2>1. SetState(n, IF success[n] THEN "Success" ELSE "Failed")
        /\ UNCHANGED <<files, given, child_outputs, result, all_success>>
        /\ Moves("captured", "returned")
    BY <1>7 DEF finish_leaf
  <2> HIDE DEF Moves
  <2>2. Advances(n, "captured", "returned")
    BY <1>1, <1>2, <2>1 DEF AtWork
  <2> QED
    BY <1>2, <2>1, <2>2 DEF Finished
<1>8. CASE finish_parent(n)
  <2>1. SetState(n, IF success[n] THEN "Success" ELSE "Failed")
        /\ UNCHANGED <<files, given, child_outputs, result, all_success>>
        /\ Moves("aggregated", "returned")
    BY <1>8 DEF finish_parent
  <2> HIDE DEF Moves
  <2>2. Advances(n, "aggregated", "returned")
    BY <1>1, <1>2, <2>1 DEF AtWork
  <2> QED
    BY <1>2, <2>1, <2>2 DEF Finished
<1>9. CASE gather_parent_context(n)
  <2>1. Advances(n, "gather", "descend")
    BY <1>1, <1>9 DEF gather_parent_context, AtWork
  <2>2. PICK fetched \in BOOLEAN :
          /\ child_outputs' = [child_outputs EXCEPT ![n] =
                CASE Gathers[n] = "issue"         -> IF fetched THEN {Issue} ELSE {}
                  [] Gathers[n] = "plan"          -> plan[n]
                  [] Gathers[n] = "parent_output" -> parent_output[n]
                  [] Gathers[n] = "nothing"       -> {}]
          /\ Write(n, {"context"}) \/ files' = files
    BY <1>9 DEF gather_parent_context
  <2>3. Still(n, child_outputs, child_outputs')
    BY <1>0, <2>2 DEF Types, Still
  <2>4. Gathers[n] = "parent_output" => child_outputs'[n] = parent_output[n]
    BY <1>0, <2>2 DEF Types
  <2>5. files[n] \subseteq files'[n] /\ Still(n, files, files')
    BY <1>3, <2>2 DEF Still
  <2> QED
    BY <1>9, <2>1, <2>3, <2>4, <2>5 DEF gather_parent_context, Gathered, Keeps
<1>10. CASE aggregate(n)
  <2>1. Advances(n, "descend", "aggregated")
    BY <1>1, <1>10 DEF aggregate, AtWork
  <2>2. /\ output'[n] = child_outputs[n] /\ Still(n, output, output')
        /\ success'[n] = all_success[n] /\ Still(n, success, success')
    BY <1>0, <1>10 DEF aggregate, Types, Still
  <2> QED
    BY <1>3, <1>10, <2>1, <2>2 DEF aggregate, Aggregated, Keeps
<1>11. CASE descend(n)
  <2>1. PICK c \in Children(n) :
          /\ pc[c] = "idle" /\ \A b \in Node : Precedes(b, c) => pc[b] # "idle"
          /\ SetState(c, "Pending")
          /\ parent_output' = [parent_output EXCEPT ![c] = Heard(n)]
          /\ pc' = [pc EXCEPT ![n] = "waiting", ![c] = "execute"]
    BY <1>11 DEF descend
  <2>2. c \in Node /\ c # n
    BY RegistryLists, NotItself
  <2>3. Records(c, "Pending") /\ outcome' = outcome /\ report' = report
    BY <1>0, <2>1, <2>2 DEF SetState, Records, Types, Still
  <2>4. parent_output'[c] = child_outputs[n] /\ Still(c, parent_output, parent_output')
    BY <1>0, <2>1, <2>2 DEF Types, Still, Heard
  <2>5. /\ pc'[n] = "waiting" /\ pc'[c] = "execute"
        /\ \A x \in Node \ {n, c} : pc'[x] = pc[x]
    BY <1>0, <2>1, <2>2 DEF Types
  <2>6. Descends(n, c)
    BY <1>11, <2>1, <2>2, <2>3, <2>4, <2>5 DEF descend, Descends
  <2> QED
    BY <2>6
<1>12. CASE collect(n)
  <2> DEFINE p == ParentOf(n)
  <2>1. p \in Node /\ n \in Children(p) /\ n # p
    BY <1>12, HasParent, NotItself DEF collect
  <2>2. /\ pc[n] = "returned"
        /\ child_outputs' = [child_outputs EXCEPT ![p] = @ \cup output[n]]
        /\ all_success' = [all_success EXCEPT ![p] = @ /\ success[n]]
        /\ manifest' = IF success[n] THEN manifest
                       ELSE [d \in Node |-> IF Precedes(n, d) THEN "Blocked" ELSE manifest[d]]
        /\ pc' = [pc EXCEPT ![n] = "over", ![p] = "descend"]
        /\ UNCHANGED <<outcome, onDisk, given, result>>
    BY <1>12 DEF collect
  <2> HIDE DEF p
  <2>3. /\ child_outputs'[p] = child_outputs[p] \cup output[n]
        /\ Still(p, child_outputs, child_outputs')
        /\ Still(p, all_success, all_success')
    BY <1>0, <2>1, <2>2 DEF Types, Still
  <2>4. all_success'[p] = (all_success[p] /\ success[n])
    BY <1>0, <2>1, <2>2 DEF Types
  <2>5. \A x \in Node : manifest'[x] =
          IF ~success[n] /\ Precedes(n, x) THEN "Blocked" ELSE manifest[x]
    BY <2>2
  <2>6. pc'[p] = "descend" /\ pc'[n] = "over" /\ \A x \in Node \ {p, n} : pc'[x] = pc[x]
    BY <1>0, <2>1, <2>2 DEF Types
  <2> QED
    BY <2>1, <2>2, <2>3, <2>4, <2>5, <2>6 DEF Collects, p
<1> QED
  BY <1>4, <1>5, <1>6, <1>7, <1>8, <1>9, <1>10, <1>11, <1>12 DEF Step

LEMMA Places ==
  /\ \A p : p \in Live <=> p \in AtWork \/ p = "waiting"
  /\ {"idle", "waiting", "over", "broken"} \cap AtWork = {}
  /\ {"execute", "prepare", "agent", "captured", "gather", "descend", "aggregated",
      "returned"} \subseteq AtWork
BY DEF Live, AtWork

LEMMA CursorAdvances ==
  ASSUME CursorInv, NEW n \in Node, NEW from, NEW to, Advances(n, from, to)
  PROVE  CursorInv'
<1>1. /\ pc[n] = from /\ pc'[n] = to /\ from \in AtWork /\ to \in AtWork \ {"execute"}
      /\ to = "gather" => from = "execute"
      /\ \A x \in Node : x # n => pc'[x] = pc[x]
  BY DEF Advances, Still
<1>2. \A x \in Node : /\ pc'[x] \in AtWork <=> pc[x] \in AtWork
                      /\ pc'[x] \in Live <=> pc[x] \in Live
                      /\ pc'[x] = "waiting" <=> pc[x] = "waiting"
                      /\ pc'[x] = "idle" <=> pc[x] = "idle"
  BY <1>1, Places
<1>3. \A a, b \in Node : pc'[a] \in AtWork /\ pc'[b] \in AtWork => a = b
  BY <1>2 DEF CursorInv
<1>4. pc'[Root] # "idle"
  BY <1>2, RegistryLists DEF CursorInv
<1>5. ASSUME NEW m \in Node, NEW c \in Children(m)
      PROVE  /\ pc'[c] \in Live => pc'[m] = "waiting"
             /\ pc'[m] \in {"idle", "execute", "gather"} => pc'[c] = "idle"
  <2>1. c \in Node
    BY RegistryLists
  <2>2. pc'[c] \in Live => pc'[m] = "waiting"
    BY <1>2, <2>1 DEF CursorInv
  <2>3. pc'[m] \in {"idle", "execute", "gather"} => pc[m] \in {"idle", "execute", "gather"}
    BY <1>1, Places
  <2> QED
    BY <1>2, <2>1, <2>2, <2>3 DEF CursorInv
<1>6. \A m \in Node : \A b, c \in Children(m) : pc'[b] \in Live /\ pc'[c] \in Live => b = c
  BY <1>2, RegistryLists DEF CursorInv
<1> QED
  BY <1>3, <1>4, <1>5, <1>6 DEF CursorInv

LEMMA CursorDescends ==
  ASSUME CursorInv, NEW n \in Node, NEW c, Descends(n, c)
  PROVE  CursorInv'
<1>0. c \in Children(n) /\ c \in Node /\ c # n
  BY RegistryLists DEF Descends
<1>1. /\ pc[n] = "descend" /\ pc[c] = "idle" /\ pc'[n] = "waiting" /\ pc'[c] = "execute"
      /\ \A x \in Node : x # n /\ x # c => pc'[x] = pc[x]
  BY DEF Descends
<1>2. \A x \in Node : x # c => (pc'[x] \in Live <=> pc[x] \in Live)
  BY <1>1, Places
<1>3. \A x \in Node : pc'[x] \in AtWork => x = c
  BY <1>1, Places DEF CursorInv
<1>4. pc'[Root] # "idle"
  BY <1>1, RegistryLists DEF CursorInv
<1>5. ASSUME NEW m \in Node, NEW d \in Children(m)
      PROVE  /\ pc'[d] \in Live => pc'[m] = "waiting"
             /\ pc'[m] \in {"idle", "execute", "gather"} => pc'[d] = "idle"
  <2>1. d \in Node /\ (d = c => m = n)
    BY <1>0, RegistryLists, ParentIs
  <2>2. pc'[d] \in Live => pc'[m] = "waiting"
    <3>1. CASE d = c
      BY <1>1, <2>1, <3>1
    <3>2. CASE d # c
      BY <1>1, <1>2, <2>1, <3>2 DEF CursorInv
    <3> QED
      BY <3>1, <3>2
  <2>3. pc'[m] \in {"idle", "execute", "gather"} => pc'[d] = "idle"
    <3>1. SUFFICES ASSUME pc'[m] \in {"idle", "execute", "gather"}
                   PROVE  pc'[d] = "idle"
      OBVIOUS
    <3>2. m # n
      BY <1>1, <3>1
    <3>3. pc[m] \in {"idle", "execute", "gather"}
      BY <1>1, <3>1, <3>2
    <3>4. pc[d] = "idle"
      BY <3>3 DEF CursorInv
    <3> QED
      BY <1>1, <2>1, <3>2, <3>4
  <2> QED
    BY <2>2, <2>3
<1>6. ASSUME NEW m \in Node, NEW b \in Children(m), NEW d \in Children(m),
             pc'[b] \in Live, pc'[d] \in Live
      PROVE  b = d
  <2>1. b \in Node /\ d \in Node
    BY RegistryLists
  <2>2. CASE m = n
    <3>1. \A x \in Children(n) : pc[x] \notin Live
      BY <1>1 DEF CursorInv
    <3> QED
      BY <1>2, <1>6, <2>1, <2>2, <3>1
  <2>3. CASE m # n
    <3>1. b # c /\ d # c
      BY <1>0, <2>3, ParentIs
    <3> QED
      BY <1>2, <1>6, <2>1, <3>1 DEF CursorInv
  <2> QED
    BY <2>2, <2>3
<1> QED
  BY <1>3, <1>4, <1>5, <1>6 DEF CursorInv

LEMMA CursorCollects ==
  ASSUME CursorInv, NEW n, NEW c, Collects(n, c)
  PROVE  /\ CursorInv'
         /\ pc[n] = "waiting"
<1>0. c \in Children(n) /\ c \in Node /\ c # n /\ n \in Node
  BY RegistryLists DEF Collects
<1>1. /\ pc[c] = "returned" /\ pc'[n] = "descend" /\ pc'[c] = "over"
      /\ \A x \in Node : x # n /\ x # c => pc'[x] = pc[x]
  BY DEF Collects
<1>2. pc[n] = "waiting"
  BY <1>0, <1>1, Places DEF CursorInv
<1>3. \A x \in Node : pc'[x] \in Live => pc[x] \in Live /\ x # c
  BY <1>1, <1>2, Places
<1>4. \A x \in Node : pc'[x] \in AtWork => x = n
  BY <1>0, <1>1, Places DEF CursorInv
<1>5. pc'[Root] # "idle"
  BY <1>1, RegistryLists DEF CursorInv
<1>6. ASSUME NEW m \in Node, NEW d \in Children(m)
      PROVE  /\ pc'[d] \in Live => pc'[m] = "waiting"
             /\ pc'[m] \in {"idle", "execute", "gather"} => pc'[d] = "idle"
  <2>1. d \in Node
    BY RegistryLists
  <2>2. ASSUME pc'[d] \in Live
        PROVE  pc'[m] = "waiting"
    <3>1. pc[d] \in Live /\ d # c
      BY <1>3, <2>1, <2>2
    <3>2. pc[m] = "waiting"
      BY <3>1 DEF CursorInv
    <3>3. m # n
      BY <1>0, <1>1, <3>1, Places DEF CursorInv
    <3> QED
      BY <1>1, <3>2, <3>3
  <2>3. ASSUME pc'[m] \in {"idle", "execute", "gather"}
        PROVE  pc'[d] = "idle"
    <3>1. m # n /\ m # c
      BY <1>1, <2>3
    <3>2. pc[d] = "idle"
      BY <1>1, <2>3, <3>1 DEF CursorInv
    <3> QED
      BY <1>1, <1>2, <2>1, <3>2
  <2> QED
    BY <2>2, <2>3
<1>7. \A m \in Node : \A b, d \in Children(m) : pc'[b] \in Live /\ pc'[d] \in Live => b = d
  BY <1>3, RegistryLists DEF CursorInv
<1> QED
  BY <1>2, <1>4, <1>5, <1>6, <1>7 DEF CursorInv

(* Every action of one call either advances it, or begins or ends a child.   *)
StepAdvances(n) ==
  /\ \E from, to : Advances(n, from, to)
  /\ Still(n, success, success') /\ Still(n, output, output')
  /\ Still(n, child_outputs, child_outputs') /\ Still(n, manifest, manifest')

LEMMA StepIs ==
  ASSUME NEW n, Executed(n) \/ Prepared(n) \/ RanAgent(n) \/ Finished(n, "captured")
                \/ Finished(n, "aggregated") \/ Gathered(n) \/ Aggregated(n)
  PROVE  StepAdvances(n)
BY DEF StepAdvances, Executed, Prepared, RanAgent, Finished, Gathered, Aggregated,
       Keeps, Records, Still

LEMMA CursorStep ==
  ASSUME TypeOK, CursorInv, NEW n \in Node, Step(n)
  PROVE  CursorInv'
BY StepDoes, StepIs, CursorAdvances, CursorDescends, CursorCollects DEF StepAdvances

(* What a failure blocks was blocked: it has not begun.                      *)
LEMMA BlockedStays ==
  ASSUME PlaceInv, OrderInv, NEW p, NEW n \in Node, Collects(p, n)
  PROVE  \A x \in Node : manifest'[x] = manifest[x]
<1>1. ASSUME NEW x \in Node, Precedes(n, x)
      PROVE  manifest[x] = "Blocked"
  <2>1. pc[x] = "idle"
    BY <1>1 DEF OrderInv, Collects
  <2> QED
    BY <2>1 DEF PlaceInv
<1> QED
  BY <1>1 DEF Collects

LEMMA PlaceStep ==
  ASSUME TypeOK, PlaceInv, CursorInv, OrderInv, NEW n \in Node, Step(n)
  PROVE  PlaceInv'
<1> DEFINE P(x, at, state, fs, good) ==
      /\ at # "broken"
      /\ at = "idle" => state = "Blocked" /\ fs = {}
      /\ at = "execute" => state = "Pending"
      /\ at \in {"prepare", "agent", "captured"} => x \in Leaf /\ state = "Running"
      /\ at \in {"gather", "descend", "waiting", "aggregated"} =>
           x \notin Leaf /\ state = "Running"
      /\ at \in {"returned", "over"} => state = IF good THEN "Success" ELSE "Failed"
      /\ at \in {"captured", "aggregated", "returned", "over"} => "output" \in fs
      /\ at = "agent" => {"prompt", "ego", "fear"} \subseteq fs
<1>1. /\ PlaceInv <=> \A x \in Node : P(x, pc[x], manifest[x], files[x], success[x])
      /\ PlaceInv' <=> \A x \in Node : P(x, pc'[x], manifest'[x], files'[x], success'[x])
  BY DEF PlaceInv
<1>2. SUFFICES ASSUME NEW x \in Node
               PROVE  P(x, pc'[x], manifest'[x], files'[x], success'[x])
  BY <1>1
<1>3. P(x, pc[x], manifest[x], files[x], success[x])
      /\ P(n, pc[n], manifest[n], files[n], success[n])
  BY <1>1
<1>4. ASSUME x # n, NEW from, NEW to, Advances(n, from, to),
             manifest'[x] = manifest[x], files'[x] = files[x], success'[x] = success[x]
      PROVE  P(x, pc'[x], manifest'[x], files'[x], success'[x])
  <2>1. pc'[x] = pc[x]
    BY <1>4 DEF Advances, Still
  <2> HIDE DEF P
  <2> QED
    BY <1>3, <1>4, <2>1
<1> USE DEF Advances, Still
<1>5. CASE Executed(n)
  BY <1>3, <1>4, <1>5 DEF Executed, Records
<1>6. CASE Prepared(n)
  BY <1>3, <1>4, <1>6 DEF Prepared, Keeps
<1>7. CASE RanAgent(n)
  BY <1>3, <1>4, <1>7 DEF RanAgent, Keeps
<1>8. CASE Finished(n, "captured") \/ Finished(n, "aggregated")
  BY <1>3, <1>4, <1>8 DEF Finished, Records
<1>9. CASE Gathered(n)
  BY <1>3, <1>4, <1>9 DEF Gathered, Keeps
<1>10. CASE Aggregated(n)
  BY <1>3, <1>4, <1>10 DEF Aggregated, Keeps
<1>11. ASSUME NEW c \in Children(n), Descends(n, c)
       PROVE  P(x, pc'[x], manifest'[x], files'[x], success'[x])
  <2>1. c \in Node
    BY RegistryLists
  <2>2. P(c, pc[c], manifest[c], files[c], success[c])
    BY <1>1, <2>1
  <2> QED
    BY <1>3, <1>11, <2>1, <2>2 DEF Descends, Records
<1>12. ASSUME NEW p, Collects(p, n)
       PROVE  P(x, pc'[x], manifest'[x], files'[x], success'[x])
  <2>1. pc[p] = "waiting" /\ p \in Node
    BY <1>12, CursorCollects DEF Collects
  <2>2. manifest'[x] = manifest[x]
    BY <1>12, BlockedStays
  <2>3. P(p, pc[p], manifest[p], files[p], success[p])
    BY <1>1, <2>1
  <2>4. files' = files /\ success' = success
    BY <1>12 DEF Collects
  <2>5. /\ pc'[p] = "descend" /\ pc'[n] = "over" /\ pc[n] = "returned"
        /\ \A y \in Node \ {p, n} : pc'[y] = pc[y]
    BY <1>12 DEF Collects
  <2>6. CASE x = p
    BY <2>1, <2>2, <2>3, <2>4, <2>5, <2>6
  <2>7. CASE x = n
    BY <1>3, <2>2, <2>4, <2>5, <2>7
  <2>8. CASE x # p /\ x # n
    BY <1>3, <2>2, <2>4, <2>5, <2>8
  <2> QED
    BY <2>6, <2>7, <2>8
<1> QED
  BY <1>5, <1>6, <1>7, <1>8, <1>9, <1>10, <1>11, <1>12, StepDoes

LEMMA Over ==
  ASSUME TypeOK, PlaceInv, NEW x \in Node, pc[x] # "idle", pc[x] \notin Live
  PROVE  pc[x] = "over"
<1>1. pc[x] \in Place /\ pc[x] # "broken"
  BY TypesOf DEF Types, PlaceInv
<1> QED
  BY <1>1 DEF Place, Live, AtWork

(* A parent at work has no child under way.                                  *)
LEMMA ChildrenRest ==
  ASSUME CursorInv, NEW n \in Node, pc[n] \in AtWork, NEW c \in Children(n)
  PROVE  pc[c] \notin Live
BY Places DEF CursorInv

LEMMA AdvanceKeeps ==
  ASSUME NEW n \in Node, StepAdvances(n), NEW x \in Node
  PROVE  /\ pc'[x] = "idle" <=> pc[x] = "idle"
         /\ pc'[x] = "over" <=> pc[x] = "over"
         /\ pc[x] = "over" => x # n /\ success'[x] = success[x] /\ output'[x] = output[x]
         /\ x # n => /\ pc'[x] = pc[x] /\ success'[x] = success[x] /\ output'[x] = output[x]
                     /\ child_outputs'[x] = child_outputs[x]
         /\ parent_output' = parent_output /\ all_success' = all_success
         /\ pc[n] \in AtWork
<1>1. PICK from \in AtWork, to \in AtWork : Advances(n, from, to)
  BY DEF StepAdvances, Advances
<1> QED
  BY <1>1, Places DEF StepAdvances, Advances, Still

LEMMA DescendKeeps ==
  ASSUME NEW n \in Node, NEW c \in Children(n), Descends(n, c), NEW x \in Node
  PROVE  /\ x # c => (pc'[x] = "idle" <=> pc[x] = "idle")
         /\ pc'[x] = "over" <=> pc[x] = "over"
         /\ pc[x] = "over" => x # n /\ x # c
         /\ success' = success /\ output' = output /\ child_outputs' = child_outputs
         /\ all_success' = all_success
BY DEF Descends

LEMMA CollectKeeps ==
  ASSUME CursorInv, NEW p, NEW n \in Node, Collects(p, n), NEW x \in Node
  PROVE  /\ pc'[x] = "idle" <=> pc[x] = "idle"
         /\ x # n => (pc'[x] = "over" <=> pc[x] = "over")
         /\ pc[x] = "over" => x # n /\ x # p
         /\ success' = success /\ output' = output /\ parent_output' = parent_output
<1>1. pc[p] = "waiting"
  BY CursorCollects
<1> QED
  BY <1>1 DEF Collects

LEMMA OrderStep ==
  ASSUME TypeOK, PlaceInv, CursorInv, OrderInv, SuccessInv, NEW n \in Node, Step(n)
  PROVE  OrderInv'
<1>1. SUFFICES ASSUME NEW b \in Node, NEW c \in Node, Precedes(b, c), pc'[c] # "idle"
               PROVE  pc'[b] = "over" /\ success'[b]
  BY DEF OrderInv, Precedes
<1>2. CASE StepAdvances(n)
  <2>1. pc[b] = "over" /\ success[b]
    BY <1>1, <1>2, AdvanceKeeps DEF OrderInv
  <2> QED
    BY <1>2, <2>1, AdvanceKeeps
<1>3. ASSUME NEW k \in Children(n), Descends(n, k)
      PROVE  pc'[b] = "over" /\ success'[b]
  <2>1. CASE c = k
    <3>1. b \in Children(n)
      BY <1>1, <2>1, Siblings, ParentIs
    <3>2. pc[b] # "idle" /\ pc[n] = "descend" /\ all_success[n]
      BY <1>1, <1>3, <2>1 DEF Descends
    <3>3. pc[b] \notin Live
      BY <3>1, <3>2, Places, ChildrenRest
    <3>4. pc[b] = "over"
      BY <3>2, <3>3, Over
    <3>5. success[b]
      BY <3>1, <3>2, <3>4 DEF SuccessInv
    <3> QED
      BY <1>3, <3>4, <3>5, DescendKeeps
  <2>2. CASE c # k
    <3>1. pc[b] = "over" /\ success[b]
      BY <1>1, <1>3, <2>2, DescendKeeps DEF OrderInv
    <3> QED
      BY <1>3, <3>1, DescendKeeps
  <2> QED
    BY <2>1, <2>2
<1>4. ASSUME NEW p, Collects(p, n)
      PROVE  pc'[b] = "over" /\ success'[b]
  <2>1. pc[b] = "over" /\ success[b]
    BY <1>1, <1>4, CollectKeeps DEF OrderInv
  <2> QED
    BY <1>4, <2>1, CollectKeeps
<1> QED
  BY <1>2, <1>3, <1>4, StepDoes, StepIs

LEMMA SuccessStep ==
  ASSUME TypeOK, PlaceInv, CursorInv, SuccessInv, NEW n \in Node, Step(n)
  PROVE  SuccessInv'
<1> DEFINE All(m, a, at, good) == a[m] <=> \A c \in Children(m) : at[c] = "over" => good[c]
           Sums(m, at, good) ==
             m \notin Leaf /\ at[m] \in {"aggregated", "returned", "over"} =>
               IF good[m] THEN \A c \in Children(m) : at[c] = "over" /\ good[c]
               ELSE \E c \in Children(m) : at[c] = "over" /\ ~good[c]
<1>0. /\ SuccessInv <=> \A m \in Node : All(m, all_success, pc, success) /\ Sums(m, pc, success)
      /\ SuccessInv' <=>
           \A m \in Node : All(m, all_success', pc', success') /\ Sums(m, pc', success')
  BY DEF SuccessInv
<1> SUFFICES ASSUME NEW m \in Node
             PROVE  All(m, all_success', pc', success') /\ Sums(m, pc', success')
  BY <1>0
<1>1. /\ All(m, all_success, pc, success) /\ Sums(m, pc, success)
      /\ All(n, all_success, pc, success) /\ Sums(n, pc, success)
      /\ Children(m) \subseteq Node
  BY <1>0, RegistryLists
<1>2. CASE StepAdvances(n)
  <2>1. \A c \in Children(m) : /\ pc'[c] = "over" <=> pc[c] = "over"
                               /\ pc[c] = "over" => success'[c] = success[c]
    BY <1>1, <1>2, AdvanceKeeps
  <2>2. All(m, all_success', pc', success')
    <3>1. all_success'[m] = all_success[m]
      BY <1>2, AdvanceKeeps
    <3>2. all_success[m] <=> \A c \in Children(m) : pc[c] = "over" => success[c]
      BY <1>1
    <3> QED
      BY <2>1, <3>1, <3>2
  <2>3. CASE m # n
    <3>1. pc'[m] = pc[m] /\ success'[m] = success[m]
      BY <1>2, <2>3, AdvanceKeeps
    <3>2. Sums(m, pc', success')
      BY <1>1, <2>1, <3>1
    <3> QED
      BY <2>2, <3>2
  <2>4. CASE m = n
    <3>1. CASE pc'[n] \notin {"aggregated", "returned", "over"}
      BY <2>2, <2>4, <3>1
    <3>2. CASE Aggregated(n)
      <4>1. /\ success'[n] = all_success[n]
            /\ all_success[n] => \A c \in Children(n) : pc[c] = "over"
        BY <3>2 DEF Aggregated
      <4>2. Sums(n, pc', success')
        BY <1>1, <2>1, <2>4, <4>1
      <4> QED
        BY <2>2, <2>4, <4>2
    <3>3. ASSUME NEW from \in {"captured", "aggregated"}, Finished(n, from)
          PROVE  Sums(n, pc', success')
      <4>1. pc[n] = from /\ success' = success
        BY <3>3 DEF Finished, Advances
      <4>2. n \notin Leaf => pc[n] = "aggregated"
        BY <4>1 DEF PlaceInv
      <4> QED
        BY <1>1, <2>1, <2>4, <4>1, <4>2
    <3>4. \/ Aggregated(n) \/ Finished(n, "captured") \/ Finished(n, "aggregated")
          \/ pc'[n] \notin {"aggregated", "returned", "over"}
      <4>1. pc[n] \in AtWork
        BY <1>2, AdvanceKeeps
      <4>2. ASSUME NEW c, Descends(n, c)
            PROVE  pc'[n] = "waiting"
        BY <4>2 DEF Descends
      <4>3. ~Collects(ParentOf(n), n)
        <5>1. ASSUME Collects(ParentOf(n), n) PROVE FALSE
          <6>1. pc'[n] = "over" /\ pc[n] = "returned"
            BY <5>1 DEF Collects
          <6> QED
            BY <1>2, <6>1, AdvanceKeeps
        <5> QED
          BY <5>1
      <4> QED
        BY <4>2, <4>3, StepDoes DEF Executed, Prepared, RanAgent, Gathered, Advances
    <3> QED
      BY <2>2, <2>4, <3>1, <3>2, <3>3, <3>4
  <2> QED
    BY <2>3, <2>4
<1>3. ASSUME NEW k \in Children(n), Descends(n, k)
      PROVE  All(m, all_success', pc', success') /\ Sums(m, pc', success')
  <2>1. /\ success' = success /\ all_success' = all_success
        /\ \A x \in Node : pc'[x] = "over" <=> pc[x] = "over"
    BY <1>3, DescendKeeps
  <2>2. pc'[m] \in {"aggregated", "returned", "over"} => pc'[m] = pc[m]
    BY <1>3 DEF Descends
  <2> QED
    BY <1>1, <2>1, <2>2
<1>4. ASSUME NEW p, Collects(p, n)
      PROVE  All(m, all_success', pc', success') /\ Sums(m, pc', success')
  <2>1. /\ success' = success
        /\ \A x \in Node : x # n => (pc'[x] = "over" <=> pc[x] = "over")
        /\ pc[n] = "returned" /\ pc'[n] = "over" /\ pc'[p] = "descend"
        /\ p \in Node /\ n \in Children(p)
        /\ all_success'[p] = (all_success[p] /\ success[n])
        /\ Still(p, all_success, all_success')
    BY <1>4, CollectKeeps DEF Collects
  <2>2. CASE m = p
    <3>1. All(m, all_success', pc', success')
      BY <1>1, <2>1, <2>2
    <3> QED
      BY <2>1, <2>2, <3>1
  <2>3. CASE m # p
    <3>1. \A c \in Children(m) : c # n
      BY <2>1, <2>3, ParentIs
    <3>2. All(m, all_success', pc', success')
      BY <1>1, <2>1, <2>3, <3>1 DEF Still
    <3>3. pc'[m] \in {"aggregated", "returned", "over"} =>
            pc[m] \in {"aggregated", "returned", "over"}
      BY <1>4, <2>1, <2>3 DEF Collects
    <3>4. Sums(m, pc', success')
      BY <1>1, <2>1, <3>1, <3>3
    <3> QED
      BY <3>2, <3>4
  <2> QED
    BY <2>2, <2>3
<1> QED
  BY <1>2, <1>3, <1>4, StepDoes, StepIs

(* The texts of a call that advances: only the agent and the end of a        *)
(* parent's loop say something, only the beginning of the loop forgets.      *)
LEMMA AdvanceTells ==
  ASSUME NEW n \in Node, StepAdvances(n), Step(n), TypeOK
  PROVE  /\ \/ pc[n] = "gather" /\ pc'[n] = "descend"
              /\ (Gathers[n] = "parent_output" => child_outputs'[n] = parent_output[n])
            \/ child_outputs' = child_outputs /\ pc'[n] \notin {"descend", "waiting"}
         /\ \/ pc'[n] \notin {"captured", "aggregated", "returned", "over"}
            \/ success'[n] /\ n \in Judged => output'[n] # {}
            \/ /\ pc[n] \in {"captured", "aggregated"}
               /\ success' = success /\ output' = output
            \/ Aggregated(n)
<1> USE DEF Advances
<1>1. pc[n] \in AtWork /\ pc'[n] \in AtWork
  BY DEF StepAdvances
<1>2. CASE Executed(n)
  BY <1>2 DEF Executed
<1>3. CASE Prepared(n)
  BY <1>3 DEF Prepared
<1>4. CASE RanAgent(n)
  BY <1>4 DEF RanAgent
<1>5. CASE Finished(n, "captured") \/ Finished(n, "aggregated")
  BY <1>5 DEF Finished
<1>6. CASE Gathered(n)
  BY <1>6 DEF Gathered
<1>7. CASE Aggregated(n)
  <2>1. pc'[n] = "aggregated" /\ child_outputs' = child_outputs
    BY <1>7 DEF Aggregated
  <2> QED
    BY <1>7, <2>1
<1>8. ASSUME NEW c \in Children(n), Descends(n, c) PROVE FALSE
  BY <1>1, <1>8, Places DEF Descends
<1>9. ASSUME NEW p, Collects(p, n) PROVE FALSE
  BY <1>1, <1>9, Places DEF Collects
<1> QED
  BY <1>2, <1>3, <1>4, <1>5, <1>6, <1>7, <1>8, <1>9, StepDoes

Told(m, c) ==
  /\ pc[c] = "over" => output[c] \subseteq child_outputs[m]
  /\ pc[c] # "idle" /\ Gathers[m] = "parent_output" =>
       parent_output[m] \subseteq parent_output[c]
Said(m) ==
  /\ m \in Leaf \cap Judged
  /\ pc[m] \in {"captured", "aggregated", "returned", "over"} /\ success[m]
  => output[m] # {}
Seeded(m) ==
  pc[m] \in {"descend", "waiting"} /\ Gathers[m] = "parent_output" =>
    parent_output[m] \subseteq child_outputs[m]
Fed(b, c) == Precedes(b, c) /\ pc[c] # "idle" => output[b] \subseteq parent_output[c]

LEMMA TextIs ==
  TextInv <=> /\ \A m \in Node : Said(m) /\ Seeded(m)
              /\ \A m \in Node : \A c \in Children(m) : Told(m, c)
              /\ \A b, c \in Node : Fed(b, c)
BY DEF TextInv, Told, Said, Seeded, Fed

LEMMA TextIsNext ==
  TextInv' <=> /\ \A m \in Node : Said(m)' /\ Seeded(m)'
               /\ \A m \in Node : \A c \in Children(m) : Told(m, c)'
               /\ \A b, c \in Node : Fed(b, c)'
BY DEF TextInv, Told, Said, Seeded, Fed

LEMMA TextAdvances ==
  ASSUME TypeOK, PlaceInv, CursorInv, OrderInv, SuccessInv, TextInv,
         NEW n \in Node, Step(n), StepAdvances(n)
  PROVE  TextInv'
<1>1. ASSUME NEW m \in Node
      PROVE  Said(m)' /\ Seeded(m)'
  <2>0. Said(m) /\ Seeded(m)
    BY TextIs
  <2>1. CASE m # n
    <3>1. /\ pc'[m] = pc[m] /\ success'[m] = success[m] /\ output'[m] = output[m]
          /\ child_outputs'[m] = child_outputs[m] /\ parent_output' = parent_output
      BY <2>1, AdvanceKeeps
    <3> QED
      BY <2>0, <3>1 DEF Said, Seeded
  <2>2. CASE m = n
    <3>1. Said(n)'
      <4>1. CASE success'[n] /\ n \in Judged => output'[n] # {}
        BY <4>1 DEF Said
      <4>2. CASE /\ pc[n] \in {"captured", "aggregated"}
                 /\ success' = success /\ output' = output
        BY <2>0, <2>2, <4>2 DEF Said
      <4>3. CASE Aggregated(n)
        <5>1. n \notin Leaf
          BY <4>3 DEF PlaceInv, Aggregated, Advances
        <5> QED
          BY <5>1 DEF Said
      <4> QED
        BY <4>1, <4>2, <4>3, AdvanceTells DEF Said
    <3>2. Seeded(n)'
      <4>1. parent_output' = parent_output
        BY AdvanceKeeps
      <4> QED
        BY <4>1, AdvanceTells DEF Seeded
    <3> QED
      BY <2>2, <3>1, <3>2
  <2> QED
    BY <2>1, <2>2
<1>2. ASSUME NEW m \in Node, NEW c \in Children(m)
      PROVE  Told(m, c)'
  <2>1. c \in Node /\ Told(m, c)
    BY RegistryLists, TextIs
  <2>2. /\ pc'[c] = "idle" <=> pc[c] = "idle"
        /\ pc'[c] = "over" <=> pc[c] = "over"
        /\ pc[c] = "over" => output'[c] = output[c]
        /\ parent_output' = parent_output
    BY <2>1, AdvanceKeeps
  <2>3. pc[c] = "over" => child_outputs'[m] = child_outputs[m]
    <3>1. CASE m # n
      BY <3>1, AdvanceKeeps
    <3>2. CASE m = n
      <4>1. pc[c] = "over" => pc[n] # "gather"
        BY <3>2 DEF CursorInv
      <4> QED
        BY <3>2, <4>1, AdvanceTells
    <3> QED
      BY <3>1, <3>2
  <2> QED
    BY <2>1, <2>2, <2>3 DEF Told
<1>3. ASSUME NEW b \in Node, NEW c \in Node
      PROVE  Fed(b, c)'
  <2> SUFFICES ASSUME Precedes(b, c), pc'[c] # "idle"
               PROVE  output'[b] \subseteq parent_output'[c]
    BY DEF Fed
  <2>1. pc[c] # "idle" /\ parent_output' = parent_output
    BY AdvanceKeeps
  <2>2. pc[b] = "over"
    BY <2>1 DEF OrderInv
  <2>3. output'[b] = output[b]
    BY <2>2, AdvanceKeeps
  <2>4. Fed(b, c)
    BY TextIs
  <2> QED
    BY <2>1, <2>3, <2>4 DEF Fed
<1> QED
  BY <1>1, <1>2, <1>3, TextIsNext

LEMMA TextDescends ==
  ASSUME TypeOK, CursorInv, TextInv, OrderInv', NEW n \in Node, NEW k \in Children(n),
         Descends(n, k)
  PROVE  TextInv'
<1>0. /\ k \in Node /\ k # n
      /\ pc[n] = "descend" /\ pc[k] = "idle" /\ pc'[n] = "waiting" /\ pc'[k] = "execute"
      /\ \A x \in Node \ {n, k} : pc'[x] = pc[x]
      /\ parent_output'[k] = child_outputs[n] /\ Still(k, parent_output, parent_output')
      /\ child_outputs' = child_outputs /\ output' = output /\ success' = success
  BY RegistryLists DEF Descends
<1>1. ASSUME NEW m \in Node
      PROVE  Said(m)' /\ Seeded(m)'
  <2>0. Said(m) /\ Seeded(m)
    BY TextIs
  <2>1. m # k => parent_output'[m] = parent_output[m]
    BY <1>0 DEF Still
  <2> QED
    BY <1>0, <2>0, <2>1 DEF Said, Seeded
<1>2. ASSUME NEW m \in Node, NEW c \in Children(m)
      PROVE  Told(m, c)'
  <2>1. c \in Node /\ Told(m, c) /\ (c = k => m = n)
    BY RegistryLists, TextIs, ParentIs
  <2>2. pc'[c] = "over" <=> pc[c] = "over"
    BY <1>0, <2>1
  <2>3. ASSUME pc'[c] # "idle", Gathers[m] = "parent_output"
        PROVE  parent_output'[m] \subseteq parent_output'[c]
    <3>1. CASE c = k
      <4>1. parent_output'[n] = parent_output[n]
        BY <1>0 DEF Still
      <4>2. Seeded(n)
        BY TextIs
      <4> QED
        BY <1>0, <2>1, <2>3, <3>1, <4>1, <4>2 DEF Seeded
    <3>2. CASE c # k
      <4>1. pc[c] # "idle"
        BY <1>0, <2>1, <2>3, <3>2
      <4>2. m # k
        BY <1>0, <4>1 DEF CursorInv
      <4> QED
        BY <1>0, <2>1, <2>3, <3>2, <4>1, <4>2 DEF Told, Still
    <3> QED
      BY <3>1, <3>2
  <2> QED
    BY <1>0, <2>1, <2>2, <2>3 DEF Told
<1>3. ASSUME NEW b \in Node, NEW c \in Node
      PROVE  Fed(b, c)'
  <2> SUFFICES ASSUME Precedes(b, c), pc'[c] # "idle"
               PROVE  output'[b] \subseteq parent_output'[c]
    BY DEF Fed
  <2>1. CASE c = k
    <3>1. b \in Children(n)
      BY <2>1, Siblings, ParentIs
    <3>2. pc'[b] = "over"
      BY DEF OrderInv
    <3>3. pc[b] = "over"
      BY <3>2, DescendKeeps
    <3>4. Told(n, b)
      BY <3>1, TextIs
    <3> QED
      BY <1>0, <2>1, <3>3, <3>4 DEF Told
  <2>2. CASE c # k
    <3>1. pc[c] # "idle" /\ parent_output'[c] = parent_output[c]
      BY <1>0, <2>2 DEF Still
    <3>2. Fed(b, c)
      BY TextIs
    <3> QED
      BY <1>0, <3>1, <3>2 DEF Fed
  <2> QED
    BY <2>1, <2>2
<1> QED
  BY <1>1, <1>2, <1>3, TextIsNext

LEMMA TextCollects ==
  ASSUME TypeOK, CursorInv, TextInv, NEW p, NEW n \in Node, Collects(p, n)
  PROVE  TextInv'
<1>0. /\ p \in Node /\ n \in Children(p) /\ n # p /\ pc[p] = "waiting"
      /\ pc[n] = "returned" /\ pc'[p] = "descend" /\ pc'[n] = "over"
      /\ \A x \in Node \ {n, p} : pc'[x] = pc[x]
      /\ child_outputs'[p] = child_outputs[p] \cup output[n]
      /\ Still(p, child_outputs, child_outputs')
      /\ parent_output' = parent_output /\ output' = output /\ success' = success
  BY CursorCollects DEF Collects
<1>1. ASSUME NEW m \in Node
      PROVE  Said(m)' /\ Seeded(m)'
  <2>0. Said(m) /\ Seeded(m)
    BY TextIs
  <2>1. child_outputs[m] \subseteq child_outputs'[m]
    BY <1>0 DEF Still
  <2> QED
    BY <1>0, <2>0, <2>1 DEF Said, Seeded
<1>2. ASSUME NEW m \in Node, NEW c \in Children(m)
      PROVE  Told(m, c)'
  <2>1. c \in Node /\ Told(m, c) /\ (c = n => m = p)
    BY <1>0, RegistryLists, TextIs, ParentIs
  <2>2. child_outputs[m] \subseteq child_outputs'[m]
    BY <1>0 DEF Still
  <2>3. CASE c = n
    BY <1>0, <2>1, <2>3 DEF Told
  <2>4. CASE c # n
    BY <1>0, <2>1, <2>2, <2>4 DEF Told
  <2> QED
    BY <2>3, <2>4
<1>3. ASSUME NEW b \in Node, NEW c \in Node
      PROVE  Fed(b, c)'
  <2>1. Fed(b, c)
    BY TextIs
  <2>2. pc'[c] = "idle" <=> pc[c] = "idle"
    BY <1>0
  <2> QED
    BY <1>0, <2>1, <2>2 DEF Fed
<1> QED
  BY <1>1, <1>2, <1>3, TextIsNext

LEMMA TextStep ==
  ASSUME TypeOK, PlaceInv, CursorInv, OrderInv, SuccessInv, TextInv, NEW n \in Node, Step(n)
  PROVE  TextInv'
<1>1. CASE StepAdvances(n)
  BY <1>1, TextAdvances
<1>2. ASSUME NEW k \in Children(n), Descends(n, k)
      PROVE  TextInv'
  <2>1. OrderInv'
    BY OrderStep
  <2> QED
    BY <1>2, <2>1, TextDescends
<1>3. ASSUME NEW p, Collects(p, n)
      PROVE  TextInv'
  BY <1>3, TextCollects
<1> QED
  BY <1>1, <1>2, <1>3, StepDoes, StepIs

(* A call at work carries a failure up.                                      *)
Carries(a) ==
  \/ pc[a] \in {"aggregated", "returned"} /\ ~success[a]
  \/ pc[a] = "descend" /\ ~all_success[a]

LEMMA FailureIs ==
  FailureInv <=> \A x \in Node : manifest[x] = "Failed" =>
                   /\ \E l \in Leaf : manifest[l] = "Failed"
                   /\ \A a \in Node : pc[a] \in AtWork => Carries(a)
BY DEF FailureInv, Carries

LEMMA FailureIsNext ==
  FailureInv' <=> \A x \in Node : manifest'[x] = "Failed" =>
                    /\ \E l \in Leaf : manifest'[l] = "Failed"
                    /\ \A a \in Node : pc'[a] \in AtWork => Carries(a)'
BY DEF FailureInv, Carries

(* After a failure the only steps left are those that report it upwards.     *)
LEMMA FailureRises ==
  ASSUME TypeOK, PlaceInv, CursorInv, OrderInv, FailureInv, NEW n \in Node, Step(n),
         NEW y \in Node, manifest[y] = "Failed"
  PROVE  FailureInv'
<1>1. CursorInv'
  BY CursorStep
<1>2. PICK l \in Leaf : manifest[l] = "Failed"
  BY FailureIs
<1>3. l \in Node
  BY RegistryLists
<1>4. SUFFICES /\ manifest'[l] = "Failed"
               /\ \E a \in Node : pc'[a] \in AtWork /\ Carries(a)'
  BY <1>1, FailureIsNext DEF CursorInv
<1>5. pc[n] \in AtWork => Carries(n)
  BY FailureIs
<1>6. ASSUME NEW from, NEW to, Advances(n, from, to)
      PROVE  /\ pc[n] = from /\ pc'[n] = to /\ to \in AtWork /\ Carries(n)
             /\ all_success' = all_success
  BY <1>5, <1>6 DEF Advances
<1>7. ASSUME NEW from \in {"execute", "prepare", "agent", "gather", "captured"},
             NEW to, Advances(n, from, to)
      PROVE  FALSE
  <2>1. pc[n] = from /\ Carries(n)
    BY <1>6, <1>7
  <2> QED
    BY <2>1 DEF Carries
<1>8. ~(Executed(n) \/ Prepared(n) \/ RanAgent(n) \/ Gathered(n) \/ Finished(n, "captured"))
  <2>1. ~Executed(n)
    BY <1>7 DEF Executed
  <2>2. ~Prepared(n) /\ ~Gathered(n) /\ ~Finished(n, "captured")
    BY <1>7 DEF Prepared, Gathered, Finished
  <2>3. ~RanAgent(n)
    BY <1>7 DEF RanAgent
  <2> QED
    BY <2>1, <2>2, <2>3
<1>9. CASE Finished(n, "aggregated")
  <2>1. Advances(n, "aggregated", "returned") /\ success' = success
        /\ Still(n, manifest, manifest')
    BY <1>9 DEF Finished, Records
  <2>2. Carries(n)'
    BY <1>6, <2>1 DEF Carries
  <2>3. l # n
    BY <1>6, <2>1 DEF PlaceInv
  <2> QED
    BY <1>2, <1>3, <1>6, <2>1, <2>2, <2>3 DEF Still
<1>10. CASE Aggregated(n)
  <2>1. Advances(n, "descend", "aggregated") /\ success'[n] = all_success[n]
        /\ manifest' = manifest
    BY <1>10 DEF Aggregated, Keeps
  <2>2. Carries(n)'
    BY <1>6, <2>1 DEF Carries
  <2> QED
    BY <1>2, <1>6, <2>1, <2>2
<1>11. ASSUME NEW c \in Children(n), Descends(n, c)
       PROVE  FALSE
  BY <1>5, <1>11, Places DEF Descends, Carries
<1>12. ASSUME NEW p, Collects(p, n)
       PROVE  /\ manifest'[l] = "Failed"
              /\ \E a \in Node : pc'[a] \in AtWork /\ Carries(a)'
  <2>1. /\ p \in Node /\ pc[n] = "returned" /\ pc'[p] = "descend"
        /\ all_success'[p] = (all_success[p] /\ success[n])
    BY <1>12 DEF Collects
  <2>2. ~success[n]
    BY <1>5, <2>1, Places DEF Carries
  <2>3. Carries(p)' /\ pc'[p] \in AtWork
    BY <2>1, <2>2, Places DEF Carries
  <2> QED
    BY <1>2, <1>3, <1>12, <2>1, <2>3, BlockedStays
<1> QED
  BY <1>8, <1>9, <1>10, <1>11, <1>12, StepDoes

(* A failure begins with a leaf.                                             *)
LEMMA FailureStep ==
  ASSUME TypeOK, PlaceInv, CursorInv, OrderInv, SuccessInv, FailureInv,
         NEW n \in Node, Step(n)
  PROVE  FailureInv'
<1>1. CASE \E y \in Node : manifest[y] = "Failed"
  BY <1>1, FailureRises
<1>2. CASE \A y \in Node : manifest[y] # "Failed"
  <2>1. SUFFICES ASSUME NEW x \in Node, manifest'[x] = "Failed"
                 PROVE  /\ \E l \in Leaf : manifest'[l] = "Failed"
                        /\ \A a \in Node : pc'[a] \in AtWork => Carries(a)'
    BY FailureIsNext
  <2>2. manifest[x] # "Failed"
    BY <1>2
  <2>3. CASE Finished(n, "captured") \/ Finished(n, "aggregated")
    <3>1. PICK from \in {"captured", "aggregated"} : Finished(n, from)
      BY <2>3
    <3>2. /\ pc[n] = from /\ pc'[n] = "returned" /\ success' = success
          /\ manifest'[n] = IF success[n] THEN "Success" ELSE "Failed"
          /\ Still(n, manifest, manifest')
      BY <3>1 DEF Finished, Advances, Records
    <3>3. x = n /\ ~success[n]
      BY <2>1, <2>2, <3>2 DEF Still
    <3>4. n \in Leaf
      <4>1. ASSUME n \notin Leaf PROVE FALSE
        <5>1. from = "aggregated"
          BY <3>2, <4>1 DEF PlaceInv
        <5>2. PICK c \in Children(n) : pc[c] = "over" /\ ~success[c]
          BY <3>2, <3>3, <4>1, <5>1 DEF SuccessInv
        <5>3. c \in Node
          BY RegistryLists
        <5> QED
          BY <1>2, <5>2, <5>3 DEF PlaceInv
      <4> QED
        BY <4>1
    <3>5. CursorInv'
      BY CursorStep
    <3>6. \A a \in Node : pc'[a] \in AtWork => a = n
      BY <3>2, <3>5, Places DEF CursorInv
    <3>7. Carries(n)'
      BY <3>2, <3>3 DEF Carries
    <3> QED
      BY <2>1, <3>3, <3>4, <3>6, <3>7
  <2>4. CASE Executed(n)
    BY <2>1, <2>2, <2>4 DEF Executed, Records, Still
  <2>5. CASE Prepared(n) \/ RanAgent(n) \/ Gathered(n) \/ Aggregated(n)
    BY <2>1, <2>2, <2>5 DEF Prepared, RanAgent, Gathered, Aggregated, Keeps
  <2>6. ASSUME NEW c \in Children(n), Descends(n, c)
        PROVE  FALSE
    BY <2>1, <2>2, <2>6 DEF Descends, Records, Still
  <2>7. ASSUME NEW p, Collects(p, n)
        PROVE  FALSE
    BY <2>1, <2>2, <2>7, BlockedStays
  <2> QED
    BY <2>3, <2>4, <2>5, <2>6, <2>7, StepDoes
<1> QED
  BY <1>1, <1>2

(* While the root waits for nobody, nobody below it is under way.            *)
LEMMA RootAlone ==
  ASSUME CursorInv, pc[Root] # "waiting"
  PROVE  \A n \in Node \ {Root} : pc[n] \notin Live
<1> DEFINE S == {Root} \cup {n \in Node : pc[n] \notin Live}
<1>1. S \in SUBSET Node /\ Root \in S
  BY RegistryLists
<1>2. \A p \in S : p \in Node /\ pc[p] # "waiting"
  BY <1>1, Places
<1>3. \A p \in S : Children(p) \subseteq S
  BY <1>2, RegistryLists DEF CursorInv
<1>4. S = Node
  BY <1>1, <1>3
<1> QED
  BY <1>4

(* Once there is an outcome no call takes a step.                            *)
LEMMA StepBefore ==
  ASSUME TypeOK, CursorInv, OutcomeInv, NEW n \in Node, Step(n)
  PROVE  /\ outcome = "Pending" /\ pc[n] \in AtWork
         /\ outcome' = outcome /\ report' = report
         /\ pc'[Root] = "over" => pc[Root] = "over"
<1>1. \/ \E from, to : Advances(n, from, to) /\ from # "returned"
      \/ \E c \in Children(n) : Descends(n, c)
      \/ Collects(ParentOf(n), n) /\ n # Root
  BY StepDoes, ParentIs
     DEF Executed, Prepared, RanAgent, Finished, Gathered, Aggregated, Collects
<1>2. pc[n] \in AtWork /\ (n = Root => pc[n] # "returned")
  BY <1>1, Places DEF Advances, Descends, Collects
<1>3. outcome' = outcome /\ report' = report
  BY <1>1 DEF Advances, Descends, Collects
<1>4. pc'[Root] = "over" => pc[Root] = "over"
  <2>1. ASSUME NEW from, NEW to, Advances(n, from, to)
        PROVE  pc'[Root] = "over" => pc[Root] = "over"
    BY <2>1, RegistryLists, Places DEF Advances, Still
  <2>2. ASSUME NEW c \in Children(n), Descends(n, c)
        PROVE  pc'[Root] = "over" => pc[Root] = "over"
    BY <2>2, RegistryLists DEF Descends
  <2>3. ASSUME Collects(ParentOf(n), n), n # Root
        PROVE  pc'[Root] = "over" => pc[Root] = "over"
    BY <2>3, RegistryLists DEF Collects
  <2> QED
    BY <1>1, <2>1, <2>2, <2>3
<1>5. outcome = "Pending"
  <2>1. ASSUME outcome # "Pending" PROVE FALSE
    <3>1. pc[Root] \in {"returned", "over"}
      BY <2>1 DEF OutcomeInv
    <3>2. n # Root
      BY <1>2, <3>1, Places
    <3> QED
      BY <1>2, <3>1, <3>2, RootAlone, Places
  <2> QED
    BY <2>1
<1> QED
  BY <1>2, <1>3, <1>4, <1>5

LEMMA OutcomeStep ==
  ASSUME TypeOK, PlaceInv, CursorInv, OrderInv, OutcomeInv, NEW n \in Node, Step(n)
  PROVE  OutcomeInv'
<1>1. disk' = manifest' /\ disk_outcome' = outcome'
  <2>0. disk = manifest /\ disk_outcome = outcome
    BY DEF OutcomeInv
  <2>1. CASE Executed(n) \/ Finished(n, "captured") \/ Finished(n, "aggregated")
    BY <2>1 DEF Executed, Finished, Records, Advances
  <2>2. CASE Prepared(n) \/ RanAgent(n) \/ Gathered(n) \/ Aggregated(n)
    BY <2>0, <2>2 DEF Prepared, RanAgent, Gathered, Aggregated, Keeps, Advances
  <2>3. ASSUME NEW c \in Children(n), Descends(n, c)
        PROVE  disk' = manifest' /\ disk_outcome' = outcome'
    BY <2>3 DEF Descends, Records
  <2>4. ASSUME NEW p, Collects(p, n)
        PROVE  disk' = manifest' /\ disk_outcome' = outcome'
    <3>1. TypeOK'
      BY TypeOfStep
    <3>2. manifest \in [Node -> NodeState] /\ manifest' \in [Node -> NodeState]
      BY <3>1, TypesOf, TypesOfNext DEF Types
    <3>3. \A x \in Node : manifest'[x] = manifest[x]
      BY <2>4, BlockedStays
    <3>4. manifest' = manifest
      BY <3>2, <3>3
    <3> QED
      BY <2>0, <2>4, <3>4 DEF Collects
  <2> QED
    BY <2>1, <2>2, <2>3, <2>4, StepDoes
<1>2. /\ outcome' = "Pending" /\ report' = report
      /\ pc'[Root] = "over" => pc[Root] = "over"
  BY StepBefore
<1>3. ~(report \/ pc[Root] = "over")
  BY StepBefore DEF OutcomeInv
<1> QED
  BY <1>1, <1>2, <1>3 DEF OutcomeInv

-----------------------------------------------------------------------------
(* The inductive invariant.                                                  *)

LEMMA LiveInit == Init => LiveInv
<1> SUFFICES ASSUME Init PROVE LiveInv
  OBVIOUS
<1> USE DEF Init
<1>1. \A n \in Node : /\ pc[n] = IF n = Root THEN "execute" ELSE "idle"
                      /\ manifest[n] = IF n = Root THEN "Pending" ELSE "Blocked"
                      /\ files[n] = {} /\ all_success[n] = TRUE
  OBVIOUS
<1>2. PlaceInv
  BY <1>1 DEF PlaceInv
<1>3. CursorInv
  <2>1. \A n \in Node : \A c \in Children(n) : pc[c] = "idle"
    BY <1>1, RegistryLists, ParentIs
  <2> QED
    BY <1>1, <2>1, RegistryLists, Places DEF CursorInv
<1>4. OrderInv
  BY <1>1, Siblings DEF OrderInv
<1>5. SuccessInv
  <2>1. \A n \in Node : \A c \in Children(n) : pc[c] # "over"
    BY <1>1, RegistryLists
  <2> QED
    BY <1>1, <2>1 DEF SuccessInv
<1>6. TextInv
  <2>1. \A n \in Node : Said(n) /\ Seeded(n)
    BY <1>1 DEF Said, Seeded
  <2>2. \A n \in Node : \A c \in Children(n) : Told(n, c)
    <3>1. \A n \in Node : \A c \in Children(n) : pc[c] = "idle"
      BY <1>1, RegistryLists, ParentIs
    <3> QED
      BY <3>1 DEF Told
  <2>3. \A b, c \in Node : Fed(b, c)
    BY <1>1, Siblings DEF Fed
  <2> QED
    BY <2>1, <2>2, <2>3, TextIs
<1>7. FailureInv
  BY <1>1 DEF FailureInv
<1>8. OutcomeInv
  BY <1>1, RegistryLists DEF OutcomeInv
<1> QED
  BY <1>2, <1>3, <1>4, <1>5, <1>6, <1>7, <1>8 DEF LiveInv

LEMMA LiveStep ==
  ASSUME TypeOK, LiveInv, NEW n \in Node, Step(n)
  PROVE  LiveInv'
BY PlaceStep, CursorStep, OrderStep, SuccessStep, TextStep, FailureStep, OutcomeStep
   DEF LiveInv

LEMMA LiveFinalize == TypeOK /\ LiveInv /\ finalize => LiveInv'
<1> SUFFICES ASSUME TypeOK, LiveInv, finalize PROVE LiveInv'
  OBVIOUS
<1>1. UNCHANGED <<manifest, files, pc, parent_output, child_outputs, output, success,
                  all_success>>
  BY DEF finalize, given, result
<1>2. PlaceInv' /\ CursorInv' /\ OrderInv' /\ SuccessInv' /\ FailureInv'
  BY <1>1 DEF LiveInv, PlaceInv, CursorInv, OrderInv, SuccessInv, FailureInv
<1>3. TextInv'
  BY <1>1 DEF LiveInv, TextInv
<1>4. OutcomeInv'
  BY <1>1 DEF LiveInv, OutcomeInv, finalize
<1> QED
  BY <1>2, <1>3, <1>4 DEF LiveInv

LEMMA LiveReport == TypeOK /\ LiveInv /\ write_report => LiveInv'
<1> SUFFICES ASSUME TypeOK, LiveInv, write_report PROVE LiveInv'
  OBVIOUS
<1>0. PlaceInv /\ CursorInv /\ OrderInv /\ SuccessInv /\ TextInv /\ FailureInv /\ OutcomeInv
  BY DEF LiveInv
<1>1. UNCHANGED <<manifest, outcome, disk, disk_outcome, files, parent_output,
                  child_outputs, output, success, all_success>>
  BY DEF write_report, inMemory, given, result
<1>2. /\ pc[Root] = "returned" /\ pc'[Root] = "over" /\ outcome # "Pending"
      /\ \A n \in Node : n # Root => pc'[n] = pc[n]
  BY TypesOf, RegistryLists DEF write_report, Goto, Types
<1>3. \A n \in Node : /\ pc'[n] \in AtWork => pc[n] \in AtWork
                      /\ pc'[n] \in Live => pc[n] \in Live
                      /\ pc'[n] = "idle" <=> pc[n] = "idle"
                      /\ pc'[n] = "waiting" <=> pc[n] = "waiting"
                      /\ pc'[n] \in {"idle", "execute", "gather"} => pc'[n] = pc[n]
  BY <1>2, Places
<1>4. \A n \in Node : \A c \in Children(n) : c \in Node /\ c # Root /\ pc'[c] = pc[c]
  BY <1>2, RegistryLists, ParentIs
<1>5. PlaceInv'
  BY <1>0, <1>1, <1>2 DEF PlaceInv
<1>6. CursorInv'
  BY <1>0, <1>3, <1>4, RegistryLists DEF CursorInv
<1>7. OrderInv'
  <2>1. ASSUME NEW b \in Node, NEW c \in Node, Precedes(b, c), pc'[c] # "idle"
        PROVE  pc'[b] = "over" /\ success'[b]
    <3>1. b # Root /\ c # Root
      BY <2>1, Siblings
    <3> QED
      BY <1>0, <1>1, <1>2, <2>1, <3>1 DEF OrderInv
  <2> QED
    BY <2>1 DEF OrderInv, Precedes
<1>8. SuccessInv'
  <2>1. \A n \in Node : pc'[n] \in {"aggregated", "returned", "over"} =>
                        pc[n] \in {"aggregated", "returned", "over"}
    BY <1>2
  <2> QED
    BY <1>0, <1>1, <1>4, <2>1 DEF SuccessInv
<1>9. TextInv'
  <2>1. ASSUME NEW n \in Node PROVE Said(n)' /\ Seeded(n)'
    BY <1>0, <1>1, <1>2, TextIs DEF Said, Seeded
  <2>2. ASSUME NEW n \in Node, NEW c \in Children(n) PROVE Told(n, c)'
    BY <1>0, <1>1, <1>4, TextIs DEF Told
  <2>3. ASSUME NEW b \in Node, NEW c \in Node PROVE Fed(b, c)'
    BY <1>0, <1>1, <1>3, TextIs DEF Fed
  <2> QED
    BY <2>1, <2>2, <2>3, TextIsNext
<1>10. FailureInv'
  <2>1. ASSUME NEW a \in Node, pc'[a] \in AtWork PROVE pc'[a] = pc[a]
    BY <1>2, <2>1, Places
  <2> QED
    BY <1>0, <1>1, <2>1 DEF FailureInv
<1>11. OutcomeInv'
  BY <1>0, <1>1, <1>2 DEF OutcomeInv
<1> QED
  BY <1>5, <1>6, <1>7, <1>8, <1>9, <1>10, <1>11 DEF LiveInv

(* A run that broke off takes no further step.                               *)
LEMMA BrokenRests == TypeOK /\ Broken /\ Next => FALSE
<1> SUFFICES ASSUME TypeOK, Broken, Next PROVE FALSE
  OBVIOUS
<1>1. pc[Root] = "broken"
  BY RegistryLists DEF Broken
<1>2. ASSUME NEW n \in Node, Step(n) PROVE FALSE
  <2>1. pc[n] = "broken"
    BY DEF Broken
  <2> QED
    BY <1>2, <2>1, StepDoes, StepIs, AdvanceKeeps, Places
       DEF StepAdvances, Advances, Descends, Collects
<1>3. ~finalize /\ ~write_report /\ ~BreakOff
  BY <1>1 DEF finalize, write_report, BreakOff
<1> QED
  BY <1>2, <1>3 DEF Next, Progress

-----------------------------------------------------------------------------
(* What the properties say, of one state.                                    *)

LEMMA SettledIs ==
  ASSUME TypeOK, PlaceInv, NEW n \in Node
  PROVE  /\ manifest[n] = "Success" <=> pc[n] \in {"returned", "over"} /\ success[n]
         /\ manifest[n] = "Failed" <=> pc[n] \in {"returned", "over"} /\ ~success[n]
         /\ manifest[n] \in NodeState \ {"Success", "Failed", "Blocked"} => pc[n] \in Live
         /\ manifest[n] \in NodeState
         /\ manifest[n] = "Running" => pc[n] # "execute" /\ pc[n] # "returned"
<1>1. pc[n] \in Place /\ pc[n] # "broken"
  BY TypesOf DEF Types, PlaceInv
<1>2. /\ pc[n] = "idle" => manifest[n] = "Blocked"
      /\ pc[n] = "execute" => manifest[n] = "Pending"
      /\ pc[n] \in {"prepare", "agent", "captured", "gather", "descend", "waiting",
                    "aggregated"} => manifest[n] = "Running"
      /\ pc[n] \in {"returned", "over"} =>
           manifest[n] = IF success[n] THEN "Success" ELSE "Failed"
  BY DEF PlaceInv
<1> QED
  BY <1>1, <1>2, TypesOf DEF Place, Live, AtWork, NodeState, Types

LEMMA LiveTells == TypeOK /\ LiveInv => DiskTellsTheTree
<1> SUFFICES ASSUME TypeOK, LiveInv PROVE DiskTellsTheTree
  OBVIOUS
<1>0. /\ PlaceInv /\ CursorInv /\ OrderInv /\ SuccessInv /\ OutcomeInv
      /\ disk = manifest /\ disk_outcome = outcome
  BY DEF LiveInv, OutcomeInv
<1>1. ASSUME NEW n \in Node, manifest[n] \in {"Running", "Pending"}, n # Root
      PROVE  manifest[ParentOf(n)] = "Running"
  <2>1. pc[n] \in Live
    BY <1>0, <1>1, SettledIs DEF NodeState
  <2>2. ParentOf(n) \in Node /\ n \in Children(ParentOf(n))
    BY <1>1, HasParent
  <2>3. pc[ParentOf(n)] = "waiting"
    BY <1>0, <2>1, <2>2 DEF CursorInv
  <2> QED
    BY <1>0, <2>2, <2>3 DEF PlaceInv
<1>2. ASSUME NEW n \in Node, manifest[n] \in Settled
      PROVE  "output" \in files[n]
  <2>1. pc[n] \in {"returned", "over"}
    BY <1>0, <1>2, SettledIs DEF Settled
  <2> QED
    BY <1>0, <2>1 DEF PlaceInv
<1>3. ASSUME NEW n \in Node, manifest[n] = "Success", NEW c \in Children(n)
      PROVE  manifest[c] = "Success"
  <2>1. n \notin Leaf /\ c \in Node
    BY RegistryLists
  <2>2. pc[n] \in {"returned", "over"} /\ success[n]
    BY <1>0, <1>3, SettledIs
  <2>3. pc[c] = "over" /\ success[c]
    BY <1>0, <2>1, <2>2 DEF SuccessInv
  <2> QED
    BY <1>0, <2>1, <2>3, SettledIs
<1>4. ASSUME NEW n \in Node, manifest[n] = "Failed", n \notin Leaf
      PROVE  \E c \in Children(n) :
                /\ manifest[c] = "Failed"
                /\ \A d \in Node : Precedes(c, d) => manifest[d] = "Blocked" /\ files[d] = {}
  <2>1. pc[n] \in {"returned", "over"} /\ ~success[n]
    BY <1>0, <1>4, SettledIs
  <2>2. PICK c \in Children(n) : pc[c] = "over" /\ ~success[c]
    BY <1>0, <1>4, <2>1 DEF SuccessInv
  <2>3. c \in Node /\ manifest[c] = "Failed"
    BY <1>0, <2>2, SettledIs, RegistryLists
  <2>4. \A d \in Node : Precedes(c, d) => pc[d] = "idle"
    BY <1>0, <2>2, <2>3 DEF OrderInv
  <2> QED
    BY <1>0, <2>3, <2>4 DEF PlaceInv
<1>5. ASSUME outcome # "Pending"
      PROVE  /\ \A n \in Node : manifest[n] \in Settled \cup {"Blocked"}
             /\ outcome = "Success" <=> manifest[Root] = "Success"
  <2>1. /\ pc[Root] \in {"returned", "over"}
        /\ outcome = IF success[Root] THEN "Success" ELSE "Failure"
    BY <1>0, <1>5 DEF OutcomeInv
  <2>2. ASSUME NEW n \in Node
        PROVE  manifest[n] \in Settled \cup {"Blocked"}
    <3>1. CASE n = Root
      BY <1>0, <2>1, <3>1 DEF PlaceInv, Settled
    <3>2. CASE n # Root
      <4>1. pc[n] \notin Live
        BY <1>0, <2>1, <3>2, RootAlone
      <4> QED
        BY <1>0, <4>1, SettledIs DEF Settled
    <3> QED
      BY <3>1, <3>2
  <2>3. outcome = "Success" <=> manifest[Root] = "Success"
    BY <1>0, <2>1, SettledIs, RegistryLists
  <2> QED
    BY <2>2, <2>3
<1>6. report => outcome # "Pending"
  BY <1>0 DEF OutcomeInv
<1> QED
  BY <1>0, <1>1, <1>2, <1>3, <1>4, <1>5, <1>6 DEF DiskTellsTheTree

LEMMA LiveFeeds == TypeOK /\ LiveInv => FedBySiblings
<1> SUFFICES ASSUME TypeOK, LiveInv, NEW n \in Leaf, pc[n] = "agent"
             PROVE  /\ {"prompt", "ego", "fear"} \subseteq files[n]
                    /\ \A b \in Node : Precedes(b, n) =>
                         /\ b \in Leaf \cap Judged => output[b] # {}
                         /\ output[b] \subseteq parent_output[n]
                    /\ Gathers[ParentOf(n)] = "parent_output" =>
                         \A b \in Node : Precedes(b, ParentOf(n)) =>
                           output[b] \subseteq parent_output[n]
  BY DEF FedBySiblings
<1>0. PlaceInv /\ CursorInv /\ OrderInv /\ TextInv /\ n \in Node
  BY RegistryLists DEF LiveInv
<1>1. {"prompt", "ego", "fear"} \subseteq files[n]
  BY <1>0 DEF PlaceInv
<1>2. ASSUME NEW b \in Node, Precedes(b, n)
      PROVE  (b \in Leaf \cap Judged => output[b] # {}) /\ output[b] \subseteq parent_output[n]
  <2>1. pc[b] = "over" /\ success[b]
    BY <1>0, <1>2 DEF OrderInv
  <2>2. Said(b) /\ Fed(b, n)
    BY <1>0, TextIs
  <2> QED
    BY <1>2, <2>1, <2>2 DEF Said, Fed
<1>3. ASSUME NEW b \in Node, Gathers[ParentOf(n)] = "parent_output", Precedes(b, ParentOf(n))
      PROVE  output[b] \subseteq parent_output[n]
  <2>1. CASE n = Root
    <3> DEFINE S == {Root}
    <3>1. S \in SUBSET Node /\ Root \in S
      BY RegistryLists
    <3>2. \A p \in S : Children(p) \subseteq S
      BY <2>1, RegistryLists
    <3>3. S = Node
      BY <3>1, <3>2
    <3> QED
      BY <1>3, <3>3, PrecedesNodes, Siblings
  <2>2. CASE n # Root
    <3>1. ParentOf(n) \in Node /\ n \in Children(ParentOf(n))
      BY <1>0, <2>2, HasParent
    <3>2. Told(ParentOf(n), n) /\ Fed(b, ParentOf(n))
      BY <1>0, <3>1, TextIs
    <3>3. pc[ParentOf(n)] = "waiting"
      BY <1>0, <3>1, Places DEF CursorInv
    <3>4. /\ output[b] \subseteq parent_output[ParentOf(n)]
          /\ parent_output[ParentOf(n)] \subseteq parent_output[n]
      BY <1>3, <3>2, <3>3 DEF Told, Fed
    <3> QED
      BY <3>4
  <2> QED
    BY <2>1, <2>2
<1> QED
  BY <1>1, <1>2, <1>3

LEMMA BrokenFeeds == Broken => FedBySiblings
BY RegistryLists DEF Broken, FedBySiblings

LEMMA LiveTellsNext == (TypeOK /\ LiveInv => DiskTellsTheTree)'
BY LiveTells, PTL

(* What is on disk stays as it was when the run breaks off.                  *)
LEMMA BreakKeeps ==
  ASSUME TypeOK, TypeOK', DiskTellsTheTree, UNCHANGED onDisk
  PROVE  DiskTellsTheTree'
BY DEF onDisk, DiskTellsTheTree

LEMMA InvInit == Init => Inv
BY TypeInit, LiveInit, LiveTells DEF Inv

LEMMA InvStep == Inv /\ [Next]_vars => Inv'
<1> SUFFICES ASSUME Inv, [Next]_vars PROVE Inv'
  OBVIOUS
<1>0. TypeOK /\ TypeOK' /\ DiskTellsTheTree
  BY TypeStep DEF Inv
<1>1. ASSUME LiveInv, Progress
      PROVE  LiveInv'
  BY <1>0, <1>1, LiveStep, LiveFinalize, LiveReport DEF Progress
<1>2. ASSUME BreakOff
      PROVE  Broken' /\ UNCHANGED onDisk
  BY <1>2 DEF BreakOff, Broken
<1>3. ASSUME UNCHANGED vars
      PROVE  UNCHANGED onDisk /\ (LiveInv => LiveInv') /\ (Broken => Broken')
  <2>1. UNCHANGED <<manifest, outcome, disk, disk_outcome, report, files, pc, parent_output,
                    child_outputs, output, success, all_success>>
    BY <1>3 DEF vars, inMemory, onDisk, given, result
  <2>2. /\ PlaceInv => PlaceInv'
        /\ CursorInv => CursorInv'
        /\ OrderInv => OrderInv'
        /\ SuccessInv => SuccessInv'
    BY <2>1 DEF PlaceInv, CursorInv, OrderInv, SuccessInv
  <2>3. TextInv => TextInv'
    BY <2>1 DEF TextInv
  <2>4. (FailureInv => FailureInv') /\ (OutcomeInv => OutcomeInv')
    BY <2>1 DEF FailureInv, OutcomeInv
  <2> QED
    BY <2>1, <2>2, <2>3, <2>4 DEF LiveInv, Broken, onDisk
<1>4. CASE LiveInv /\ Progress
  BY <1>0, <1>1, <1>4, LiveTellsNext DEF Inv
<1>5. CASE BreakOff
  BY <1>0, <1>2, <1>5, BreakKeeps DEF Inv
<1>6. CASE UNCHANGED vars
  BY <1>0, <1>3, <1>6, BreakKeeps DEF Inv
<1>7. CASE Broken /\ Next
  BY <1>0, <1>7, BrokenRests
<1> QED
  BY <1>4, <1>5, <1>6, <1>7 DEF Inv, Next

LEMMA InvHolds == Spec => []Inv
BY InvInit, InvStep, PTL DEF Spec

(* Every variable of the run keeps its type (executor.rs, manifest.rs).      *)
THEOREM TypesHold == Spec => []TypeOK
BY InvHolds, PTL DEF Inv

(* A reader of the run's directory may believe the manifest he finds there,  *)
(* wherever the run broke off: who runs has a parent that runs, who is       *)
(* settled left its output, a parent succeeded with all its children and     *)
(* failed with one after which none was begun, and with an outcome nothing   *)
(* is under way (executor.rs:229-237, 343-352, 448-463, 476-501,             *)
(* manifest.rs:114-122).                                                     *)
THEOREM DiskTellsAlways == Spec => []DiskTellsTheTree
BY InvHolds, PTL DEF Inv

(* Every agent is given the text of its earlier siblings, and, below a       *)
(* parent that passes on its own, that of the parent's earlier siblings,     *)
(* with its files written first (executor.rs:257-275, 401-410, 554-557).     *)
THEOREM FedAlways == Spec => []FedBySiblings
<1>1. Inv => FedBySiblings
  BY LiveFeeds, BrokenFeeds DEF Inv
<1> QED
  BY <1>1, InvHolds, PTL

-----------------------------------------------------------------------------
(* A run is a pipeline of its leaves.                                        *)

Done == Cardinality(LeavesIn("Success"))

LEMMA LeavesAre ==
  /\ \A s, l : /\ l \in LeavesIn(s) <=> l \in Leaf /\ manifest[l] = s
               /\ l \in LeavesIn(s)' <=> l \in Leaf /\ manifest'[l] = s
  /\ \A s : /\ LeavesIn(s) = {} <=> \A l \in Leaf : manifest[l] # s
            /\ LeavesIn(s)' = {} <=> \A l \in Leaf : manifest'[l] # s
  /\ IsFiniteSet(Leaf) /\ \A s : LeavesIn(s) \subseteq Leaf
<1>1. IsFiniteSet(Leaf)
  BY FS_Subset, RegistryLists
<1> QED
  BY <1>1 DEF LeavesIn

LEMMA LeavesSame ==
  ASSUME NEW s, \A l \in Leaf : manifest'[l] = s <=> manifest[l] = s
  PROVE  LeavesIn(s)' = LeavesIn(s)
BY DEF LeavesIn

(* The stage of a run that has no outcome yet.                               *)
StageNow ==
  IF LeavesIn("Failed") # {} THEN "failed"
  ELSE IF LeavesIn("Running") # {} THEN "working" ELSE "between"

LEMMA StageIs ==
  /\ disk_outcome = "Pending" /\ pc[Root] # "broken" => StageReached = StageNow
  /\ disk_outcome = "Pending" /\ pc[Root] = "broken" => StageReached = "broken"
  /\ disk_outcome = "Success" => StageReached = "success"
  /\ disk_outcome = "Failure" => StageReached = "failure"
BY DEF StageReached, StageNow

LEMMA StageIsNext ==
  /\ disk_outcome' = "Pending" /\ pc'[Root] # "broken" => StageReached' = StageNow'
  /\ disk_outcome' = "Pending" /\ pc'[Root] = "broken" => StageReached' = "broken"
  /\ disk_outcome' = "Success" => StageReached' = "success"
  /\ disk_outcome' = "Failure" => StageReached' = "failure"
BY DEF StageReached, StageNow

Pipe == Stage!PipeNext \/ (StageReached' = StageReached /\ Done' = Done)

LEMMA PipeIs ==
  Pipe <=> \/ Stage!Begin \/ Stage!Succeed \/ Stage!Fail \/ Stage!End \/ Stage!BreakOff
           \/ StageReached' = StageReached /\ Done' = Done
BY DEF Pipe, Stage!PipeNext

(* A step that leaves the leaves as they are is none of the pipeline's.      *)
LEMMA SameLeaves ==
  ASSUME disk_outcome = "Pending", disk_outcome' = "Pending",
         pc[Root] # "broken", pc'[Root] # "broken",
         \A s \in {"Success", "Failed", "Running"} : LeavesIn(s)' = LeavesIn(s)
  PROVE  Pipe
<1>1. StageNow' = StageNow /\ Done' = Done
  BY DEF StageNow, Done
<1> QED
  BY <1>1, StageIs, StageIsNext, PipeIs

(* An agent begins: the run is between two stages and has one left.          *)
LEMMA ExecutePipes ==
  ASSUME TypeOK, LiveInv, disk_outcome = "Pending", disk_outcome' = "Pending",
         pc[Root] # "broken", pc'[Root] # "broken", NEW n \in Leaf, Executed(n)
  PROVE  Pipe
<1>0. n \in Node /\ PlaceInv /\ CursorInv /\ FailureInv /\ pc[n] = "execute"
  BY RegistryLists DEF LiveInv, Executed, Advances
<1>1. manifest[n] = "Pending" /\ manifest'[n] = "Running" /\ Still(n, manifest, manifest')
  BY <1>0 DEF PlaceInv, Executed, Records
<1>2. LeavesIn("Failed") = {}
  <2>1. \A x \in Node : manifest[x] # "Failed"
    BY <1>0, Places DEF FailureInv
  <2> QED
    BY <2>1, LeavesAre, RegistryLists
<1>3. LeavesIn("Running") = {}
  <2>1. ASSUME NEW l \in Leaf, manifest[l] = "Running" PROVE FALSE
    <3>1. l \in Node /\ pc[l] \in Live /\ pc[l] # "execute"
      BY <1>0, <2>1, RegistryLists, SettledIs DEF NodeState
    <3>2. pc[l] # "waiting"
      BY <1>0, <2>1, <3>1 DEF PlaceInv
    <3>3. pc[l] \in AtWork /\ pc[n] \in AtWork
      BY <1>0, <3>1, <3>2, Places
    <3> QED
      BY <1>0, <3>1, <3>3 DEF CursorInv
  <2> QED
    BY <2>1, LeavesAre
<1>4. LeavesIn("Failed")' = {} /\ n \in LeavesIn("Running")'
  <2>1. \A l \in Leaf : l # n => manifest'[l] = manifest[l]
    BY <1>1, RegistryLists DEF Still
  <2>2. \A l \in Leaf : manifest'[l] # "Failed"
    BY <1>1, <1>2, <2>1, LeavesAre
  <2> QED
    BY <1>1, <2>2, LeavesAre
<1>5. StageReached = "between" /\ StageReached' = "working"
  BY <1>2, <1>3, <1>4, StageIs, StageIsNext DEF StageNow
<1>6. LeavesIn("Success")' = LeavesIn("Success") /\ n \notin LeavesIn("Success")
  <2>1. \A l \in Leaf : manifest'[l] = "Success" <=> manifest[l] = "Success"
    BY <1>1, RegistryLists DEF Still
  <2>2. LeavesIn("Success")' = LeavesIn("Success")
    BY <2>1, LeavesSame
  <2>3. n \notin LeavesIn("Success")
    BY <1>1, LeavesAre
  <2> QED
    BY <2>2, <2>3
<1>7. Done' = Done /\ Done < Cardinality(Leaf)
  <2>1. /\ Cardinality(LeavesIn("Success")) <= Cardinality(Leaf)
        /\ Cardinality(LeavesIn("Success")) # Cardinality(Leaf)
        /\ IsFiniteSet(LeavesIn("Success"))
    BY <1>6, LeavesAre, FS_Subset
  <2>2. Cardinality(LeavesIn("Success")) \in Nat /\ Cardinality(Leaf) \in Nat
    BY <2>1, LeavesAre, FS_CardinalityType
  <2> QED
    BY <1>6, <2>1, <2>2 DEF Done
<1>8. Stage!Begin
  BY <1>5, <1>7 DEF Stage!Begin, Done
<1> QED
  BY <1>8, PipeIs

(* An agent's turn is over: the stage succeeded or failed.                   *)
LEMMA FinishPipes ==
  ASSUME TypeOK, LiveInv, disk_outcome = "Pending", disk_outcome' = "Pending",
         pc[Root] # "broken", pc'[Root] # "broken",
         NEW n \in Leaf, Finished(n, "captured")
  PROVE  Pipe
<1>0. n \in Node /\ PlaceInv /\ CursorInv /\ FailureInv /\ pc[n] = "captured"
  BY RegistryLists DEF LiveInv, Finished, Advances
<1>1. /\ manifest[n] = "Running" /\ Still(n, manifest, manifest')
      /\ manifest'[n] = IF success[n] THEN "Success" ELSE "Failed"
  BY <1>0 DEF PlaceInv, Finished, Records
<1>2. LeavesIn("Failed") = {} /\ n \in LeavesIn("Running")
  <2>1. \A x \in Node : manifest[x] # "Failed"
    BY <1>0, Places DEF FailureInv
  <2> QED
    BY <1>1, <2>1, LeavesAre, RegistryLists
<1>3. \A l \in Leaf : manifest[l] = "Running" => l = n
  <2>1. SUFFICES ASSUME NEW l \in Leaf, manifest[l] = "Running" PROVE l = n
    OBVIOUS
  <2>2. l \in Node /\ pc[l] \in Live
    BY <1>0, <2>1, RegistryLists, SettledIs DEF NodeState
  <2>3. pc[l] # "waiting"
    BY <1>0, <2>1, <2>2 DEF PlaceInv
  <2>4. pc[l] \in AtWork /\ pc[n] \in AtWork
    BY <1>0, <2>2, <2>3, Places
  <2> QED
    BY <1>0, <2>2, <2>4 DEF CursorInv
<1>4. StageReached = "working"
  BY <1>2, StageIs DEF StageNow
<1>5. \A l \in Leaf : l # n => manifest'[l] = manifest[l]
  BY <1>1, RegistryLists DEF Still
<1>6. CASE success[n]
  <2>1. LeavesIn("Failed")' = {} /\ LeavesIn("Running")' = {}
    <3>0. \A l \in Leaf : manifest[l] # "Failed"
      BY <1>2, LeavesAre
    <3>1. \A l \in Leaf : manifest'[l] # "Failed" /\ manifest'[l] # "Running"
      BY <1>1, <1>3, <1>5, <1>6, <3>0
    <3> QED
      BY <3>1, LeavesAre
  <2>2. StageReached' = "between"
    BY <2>1, StageIsNext DEF StageNow
  <2>3. LeavesIn("Success")' = LeavesIn("Success") \cup {n} /\ n \notin LeavesIn("Success")
    <3>1. \A l : l \in LeavesIn("Success")' <=> l \in LeavesIn("Success") \/ l = n
      BY <1>1, <1>5, <1>6, LeavesAre
    <3>2. n \notin LeavesIn("Success")
      BY <1>1, LeavesAre
    <3> QED
      BY <3>1, <3>2
  <2>4. IsFiniteSet(LeavesIn("Success"))
    BY LeavesAre, FS_Subset
  <2>5. Cardinality(LeavesIn("Success") \cup {n}) = Cardinality(LeavesIn("Success")) + 1
    BY <2>3, <2>4, FS_AddElement
  <2>6. Stage!Succeed
    BY <1>4, <2>2, <2>3, <2>5 DEF Stage!Succeed
  <2> QED
    BY <2>6, PipeIs
<1>7. CASE ~success[n]
  <2>1. n \in LeavesIn("Failed")'
    BY <1>1, <1>7, LeavesAre
  <2>2. StageReached' = "failed"
    BY <2>1, StageIsNext DEF StageNow
  <2>3. LeavesIn("Success")' = LeavesIn("Success")
    <3>1. \A l \in Leaf : manifest'[l] = "Success" <=> manifest[l] = "Success"
      BY <1>1, <1>5, <1>7
    <3> QED
      BY <3>1, LeavesSame
  <2>4. Stage!Fail
    BY <1>4, <2>2, <2>3 DEF Stage!Fail
  <2> QED
    BY <2>4, PipeIs
<1> QED
  BY <1>6, <1>7

(* Every other step of a call leaves the leaves as they are.                 *)
LEMMA StepPipes ==
  ASSUME TypeOK, LiveInv, LiveInv', NEW n \in Node, Step(n)
  PROVE  Pipe
<1>0. PlaceInv /\ CursorInv /\ OrderInv /\ OutcomeInv /\ PlaceInv' /\ OutcomeInv'
  BY DEF LiveInv
<1>1. disk_outcome = "Pending" /\ disk_outcome' = "Pending"
  BY <1>0, StepBefore DEF OutcomeInv
<1>2. pc[Root] # "broken" /\ pc'[Root] # "broken"
  BY <1>0, RegistryLists DEF PlaceInv
<1>3. ASSUME \A l \in Leaf : \A s \in {"Success", "Failed", "Running"} :
               manifest'[l] = s <=> manifest[l] = s
      PROVE  Pipe
  <2>1. ASSUME NEW s \in {"Success", "Failed", "Running"} PROVE LeavesIn(s)' = LeavesIn(s)
    BY <1>3, LeavesSame
  <2> QED
    BY <1>1, <1>2, <2>1, SameLeaves
<1>4. CASE Executed(n)
  <2>1. CASE n \in Leaf
    BY <1>1, <1>2, <1>4, <2>1, ExecutePipes
  <2>2. CASE n \notin Leaf
    <3>1. \A l \in Leaf : manifest'[l] = manifest[l]
      BY <1>4, <2>2, RegistryLists DEF Executed, Records, Still
    <3> QED
      BY <1>3, <3>1
  <2> QED
    BY <2>1, <2>2
<1>5. CASE Finished(n, "captured")
  <2>1. n \in Leaf
    BY <1>0, <1>5 DEF Finished, Advances, PlaceInv
  <2> QED
    BY <1>1, <1>2, <1>5, <2>1, FinishPipes
<1>6. CASE Finished(n, "aggregated")
  <2>1. n \notin Leaf
    BY <1>0, <1>6 DEF Finished, Advances, PlaceInv
  <2>2. \A l \in Leaf : manifest'[l] = manifest[l]
    BY <1>6, <2>1, RegistryLists DEF Finished, Records, Still
  <2> QED
    BY <1>3, <2>2
<1>7. CASE Prepared(n) \/ RanAgent(n) \/ Gathered(n) \/ Aggregated(n)
  BY <1>3, <1>7 DEF Prepared, RanAgent, Gathered, Aggregated, Keeps
<1>8. ASSUME NEW c \in Children(n), Descends(n, c)
      PROVE  Pipe
  <2>1. /\ c \in Node /\ pc[c] = "idle" /\ manifest'[c] = "Pending"
        /\ Still(c, manifest, manifest')
    BY <1>8, RegistryLists DEF Descends, Records
  <2>2. manifest[c] = "Blocked"
    BY <1>0, <2>1 DEF PlaceInv
  <2>3. \A l \in Leaf : \A s \in {"Success", "Failed", "Running"} :
          manifest'[l] = s <=> manifest[l] = s
    BY <2>1, <2>2, RegistryLists DEF Still
  <2> QED
    BY <1>3, <2>3
<1>9. ASSUME NEW p, Collects(p, n)
      PROVE  Pipe
  BY <1>0, <1>3, <1>9, BlockedStays, RegistryLists
<1> QED
  BY <1>4, <1>5, <1>6, <1>7, <1>8, <1>9, StepDoes

(* A root that succeeded has leaves that all did.                            *)
LEMMA SuccessIsWhole ==
  ASSUME TypeOK, LiveInv, manifest[Root] = "Success"
  PROVE  \A n \in Node : manifest[n] = "Success"
<1> DEFINE S == {n \in Node : manifest[n] = "Success"}
<1>1. S \in SUBSET Node /\ Root \in S
  BY RegistryLists
<1>2. \A p \in S : \A c \in Children(p) : manifest[c] = "Success"
  BY LiveTells DEF DiskTellsTheTree, LiveInv, OutcomeInv
<1>3. \A p \in S : Children(p) \subseteq S
  BY <1>1, <1>2, RegistryLists
<1>4. S = Node
  BY <1>1, <1>3
<1> QED
  BY <1>4

LEMMA FinalizePipes ==
  ASSUME TypeOK, LiveInv, finalize
  PROVE  Pipe
<1>0. PlaceInv /\ FailureInv /\ OutcomeInv
  BY DEF LiveInv
<1>1. /\ pc[Root] = "returned" /\ disk_outcome = "Pending" /\ manifest' = manifest
      /\ disk_outcome' = IF success[Root] THEN "Success" ELSE "Failure"
  BY <1>0 DEF finalize, OutcomeInv
<1>2. StageReached = StageNow /\ Done' = Done
  BY <1>1, StageIs DEF Done, LeavesIn
<1>3. CASE success[Root]
  <2>1. manifest[Root] = "Success"
    BY <1>0, <1>1, <1>3, SettledIs, RegistryLists
  <2>2. \A l \in Leaf : manifest[l] = "Success"
    BY <2>1, SuccessIsWhole, RegistryLists
  <2>3. LeavesIn("Success") = Leaf /\ LeavesIn("Failed") = {} /\ LeavesIn("Running") = {}
    <3>1. \A l : l \in LeavesIn("Success") <=> l \in Leaf
      BY <2>2, LeavesAre
    <3>2. LeavesIn("Failed") = {} /\ LeavesIn("Running") = {}
      BY <2>2, LeavesAre
    <3> QED
      BY <3>1, <3>2
  <2>4. StageReached = "between" /\ StageReached' = "success"
    BY <1>1, <1>2, <1>3, <2>3, StageIsNext DEF StageNow
  <2>5. Stage!End
    BY <1>2, <2>3, <2>4 DEF Stage!End, Done
  <2> QED
    BY <2>5, PipeIs
<1>4. CASE ~success[Root]
  <2>1. manifest[Root] = "Failed"
    BY <1>0, <1>1, <1>4, SettledIs, RegistryLists
  <2>2. LeavesIn("Failed") # {}
    BY <1>0, <2>1, LeavesAre, RegistryLists DEF FailureInv
  <2>3. StageReached = "failed" /\ StageReached' = "failure"
    BY <1>1, <1>2, <1>4, <2>2, StageIsNext DEF StageNow
  <2>4. Stage!End
    BY <1>2, <2>3 DEF Stage!End, Done
  <2> QED
    BY <2>4, PipeIs
<1> QED
  BY <1>3, <1>4

LEMMA BreakPipes ==
  ASSUME TypeOK, LiveInv, BreakOff
  PROVE  Pipe
<1>1. /\ disk_outcome' = disk_outcome /\ manifest' = manifest
      /\ pc[Root] # "broken" /\ pc'[Root] = "broken"
  BY RegistryLists DEF BreakOff, inMemory, onDisk
<1>2. Done' = Done /\ disk_outcome \in {"Pending", "Success", "Failure"}
  BY <1>1, TypesOf DEF Done, LeavesIn, Types
<1>3. CASE disk_outcome = "Pending"
  <2>1. StageReached = StageNow /\ StageReached' = "broken"
    BY <1>1, <1>3, StageIs, StageIsNext
  <2>2. Stage!BreakOff
    BY <1>2, <2>1 DEF Stage!BreakOff, StageNow, Done
  <2> QED
    BY <2>2, PipeIs
<1>4. CASE disk_outcome # "Pending"
  <2>1. StageReached' = StageReached
    BY <1>1, <1>2, <1>4, StageIs, StageIsNext
  <2> QED
    BY <1>2, <2>1, PipeIs
<1> QED
  BY <1>3, <1>4

LEMMA PipeStep == Inv /\ Inv' /\ [Next]_vars => Pipe
<1> SUFFICES ASSUME Inv, Inv', [Next]_vars PROVE Pipe
  OBVIOUS
<1>0. TypeOK
  BY DEF Inv
<1>1. CASE UNCHANGED vars
  <2>1. disk_outcome' = disk_outcome /\ manifest' = manifest /\ pc' = pc
    BY <1>1 DEF vars, inMemory, onDisk
  <2>2. Done' = Done /\ StageReached' = StageReached
    BY <2>1 DEF Done, LeavesIn, StageReached
  <2> QED
    BY <2>2, PipeIs
<1>2. CASE Next
  <2>1. LiveInv
    BY <1>0, <1>2, BrokenRests DEF Inv
  <2>2. ASSUME NEW n \in Node, Step(n)
        PROVE  Pipe
    <3>1. LiveInv'
      BY <1>0, <2>1, <2>2, LiveStep
    <3> QED
      BY <1>0, <2>1, <2>2, <3>1, StepPipes
  <2>3. CASE finalize
    BY <1>0, <2>1, <2>3, FinalizePipes
  <2>4. CASE write_report
    <3>1. /\ disk_outcome' = disk_outcome /\ manifest' = manifest /\ outcome # "Pending"
      BY <2>4 DEF write_report, inMemory
    <3>2. disk_outcome \in {"Success", "Failure"} /\ Done' = Done
      BY <2>1, <3>1, TypesOf, <1>0 DEF LiveInv, OutcomeInv, Types, Done, LeavesIn
    <3> QED
      BY <3>1, <3>2, StageIs, StageIsNext, PipeIs
  <2>5. CASE BreakOff
    BY <1>0, <2>1, <2>5, BreakPipes
  <2> QED
    BY <1>2, <2>2, <2>3, <2>4, <2>5 DEF Next, Progress
<1> QED
  BY <1>1, <1>2

LEMMA PipeBegins == Init => Stage!PipeInit
<1> SUFFICES ASSUME Init PROVE Stage!PipeInit
  OBVIOUS
<1>1. disk_outcome = "Pending" /\ pc[Root] = "execute"
      /\ \A l \in Leaf : manifest[l] \in {"Pending", "Blocked"}
  BY RegistryLists DEF Init
<1>2. \A s \in {"Success", "Failed", "Running"} : LeavesIn(s) = {}
  BY <1>1, LeavesAre
<1>3. StageReached = "between"
  BY <1>1, <1>2, StageIs DEF StageNow
<1> QED
  BY <1>2, <1>3, FS_EmptySet DEF Stage!PipeInit

(* A run, of whatever tree, is a pipeline of its leaves: one agent after the *)
(* other, none after a failure, and an outcome that is a success only when   *)
(* every leaf was one (executor.rs:229-237, 343-352, 448-463, 476-501).      *)
THEOREM RunIsPipeline == Spec => IsPipeline
<1>1. Inv /\ Inv' /\ [Next]_vars
        => [Stage!PipeNext]_<<Cardinality(LeavesIn("Success")), StageReached>>
  BY PipeStep DEF Pipe, Done
<1> QED
  BY <1>1, PipeBegins, InvHolds, PTL DEF Spec, IsPipeline, Stage!PipeSpec, Stage!pipe

=============================================================================
