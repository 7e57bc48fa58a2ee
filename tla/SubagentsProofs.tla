--------------------------- MODULE SubagentsProofs ---------------------------
(***************************************************************************)
(* Proofs about Subagents, for every family of agents, any number of        *)
(* callers of the subagent tool and any limit of iterations.                 *)
(***************************************************************************)
EXTENDS Subagents, TLAPS

USE SubagentsAssumption

Begun == {"llm", "tools", "ok", "err"}

\* Where a call is, and what that says about what it has left behind.
CallInv ==
  \A a \in Agent :
    /\ pc[a] \in Begun => runtime
    /\ pc[a] \in {"returned", "marked"} => outcome[a] \in {"ok", "err"}
    /\ pc[a] \notin {"returned", "marked", "done"} => outcome[a] = None
    /\ a \in session => pc[a] \in Begun \/ outcome[a] = "err"
    /\ manifest[a] = "success" => pc[a] = "done" /\ outcome[a] = "ok"
    /\ Over(a) /\ outcome[a] # None => status[a] \in {"Complete", "Failed", None}
    /\ status[a] = "Complete" => outcome[a] = "ok"
    /\ status[a] = "Failed" => outcome[a] = "err"

\* The tools of an agent return when the calls among them are over, and those
\* found its runtime.
FamilyInv ==
  \A a, b \in Agent :
    Parent[b] = a =>
      /\ pc[a] = "tools" \/ pc[b] \in {"uncalled", "done"}
      /\ pc[b] # "uncalled" => runtime
      /\ pc[b] = "done" => outcome[b] # None

-----------------------------------------------------------------------------
(* FlagsAgree, which has TypeOK as its first conjunct.                       *)

LEMMA InitFlags == Init => FlagsAgree
<1> SUFFICES ASSUME Init PROVE FlagsAgree
  OBVIOUS
<1>1. TypeOK
  BY DEF Init, TypeOK, Place
<1> QED
  BY <1>1 DEF Init, FlagsAgree, HasEntry, Status

\* What a visit does to the one entry it is about.
LEMMA VisitChanges ==
  ASSUME TypeOK, NEW c \in Control, Visit(c)
  PROVE  \E a \in Agent :
           /\ pending' \in [Control -> [cmd : Command, name : Agent] \cup {None}]
           /\ UNCHANGED calls
           /\ \A b \in Agent \ {a} :
                /\ status'[b] = status[b] /\ is_paused'[b] = is_paused[b]
                /\ kill_requested'[b] = kill_requested[b]
           /\ \/ UNCHANGED <<entries, killed>>
              \/ /\ status[a] = "Running" /\ UNCHANGED <<kill_requested, killed>>
                 /\ status' = [status EXCEPT ![a] = "Paused"]
                 /\ is_paused' = [is_paused EXCEPT ![a] = TRUE]
              \/ /\ status[a] = "Paused" /\ UNCHANGED <<kill_requested, killed>>
                 /\ status' = [status EXCEPT ![a] = "Running"]
                 /\ is_paused' = [is_paused EXCEPT ![a] = FALSE]
              \/ /\ status[a] \in Live /\ UNCHANGED is_paused
                 /\ status' = [status EXCEPT ![a] = "Killed"]
                 /\ kill_requested' = [kill_requested EXCEPT ![a] = TRUE]
                 /\ killed' = killed \cup {a}
<1> DEFINE a == pending[c].name
           cmd == pending[c].cmd
<1>1. a \in Agent /\ cmd \in Command
  BY DEF Visit, TypeOK
<1>2. pending' \in [Control -> [cmd : Command, name : Agent] \cup {None}]
  BY DEF Visit, TypeOK
<1>3. UNCHANGED calls
  BY DEF Visit
<1>4. CASE ~Applies(cmd, a)
  <2>1. UNCHANGED <<entries, killed>>
    BY <1>4 DEF Visit
  <2> QED
    BY <1>1, <1>2, <1>3, <2>1 DEF entries
<1>5. CASE Applies(cmd, a)
  <2>1. /\ status' = [status EXCEPT ![a] = Outcome(cmd)]
        /\ is_paused' = [is_paused EXCEPT ![a] = PausedAfter(cmd, @)]
        /\ kill_requested' = [kill_requested EXCEPT ![a] = @ \/ cmd = "kill"]
        /\ killed' = IF cmd = "kill" THEN killed \cup {a} ELSE killed
    BY <1>5 DEF Visit
  <2> HIDE DEF a, cmd
  <2>2. \A b \in Agent \ {a} :
          /\ status'[b] = status[b] /\ is_paused'[b] = is_paused[b]
          /\ kill_requested'[b] = kill_requested[b]
    BY <2>1 DEF TypeOK
  <2>3. CASE cmd = "pause"
    <3>1. /\ status[a] = "Running" /\ status' = [status EXCEPT ![a] = "Paused"]
          /\ is_paused' = [is_paused EXCEPT ![a] = TRUE]
          /\ UNCHANGED <<kill_requested, killed>>
      BY <1>1, <1>5, <2>1, <2>3 DEF Applies, Outcome, PausedAfter, TypeOK
    <3> QED
      BY <1>1, <1>2, <1>3, <2>2, <3>1
  <2>4. CASE cmd = "resume"
    <3>1. /\ status[a] = "Paused" /\ status' = [status EXCEPT ![a] = "Running"]
          /\ is_paused' = [is_paused EXCEPT ![a] = FALSE]
          /\ UNCHANGED <<kill_requested, killed>>
      BY <1>1, <1>5, <2>1, <2>4 DEF Applies, Outcome, PausedAfter, TypeOK
    <3> QED
      BY <1>1, <1>2, <1>3, <2>2, <3>1
  <2>5. CASE cmd = "kill"
    <3>1. /\ status[a] \in Live /\ status' = [status EXCEPT ![a] = "Killed"]
          /\ kill_requested' = [kill_requested EXCEPT ![a] = TRUE]
          /\ UNCHANGED is_paused /\ killed' = killed \cup {a}
      BY <1>1, <1>5, <2>1, <2>5 DEF Applies, Outcome, PausedAfter, TypeOK
    <3> QED
      BY <1>1, <1>2, <1>3, <2>2, <3>1
  <2> QED
    BY <1>1, <2>3, <2>4, <2>5 DEF Command
<1> QED
  BY <1>4, <1>5

LEMMA StepFlags ==
  ASSUME FlagsAgree, [Next]_vars
  PROVE  FlagsAgree'
<1> USE DEF FlagsAgree, TypeOK, HasEntry, Over, Status, Place, Goto, entries,
            calls, control
<1>1. CASE SetRuntime
  BY <1>1 DEF SetRuntime
<1>2. ASSUME NEW a \in Agent, Register(a)
      PROVE  FlagsAgree'
  <2>1. /\ pc[a] = "uncalled" /\ pc' = [pc EXCEPT ![a] = "registered"]
        /\ status' = [status EXCEPT ![a] = "Running"]
        /\ UNCHANGED <<is_paused, kill_requested, runtime, iterations, outcome,
                       session, manifest, pending, killed>>
    BY <1>2 DEF Register
  <2>2. ~is_paused[a] /\ ~kill_requested[a] /\ a \notin killed
    BY <2>1
  <2> QED
    BY <2>1, <2>2
<1>3. ASSUME NEW a \in Agent,
             \/ WriteArtifacts(a) \/ RuntimeMissing(a) \/ SpawnChild(a)
             \/ ToolsReturn(a) \/ Collect(a) \/ WriteResult(a)
      PROVE  FlagsAgree'
  <2>1. /\ UNCHANGED <<entries, runtime, iterations, control>>
        /\ pc' \in [Agent -> Place] /\ pc[a] # "uncalled" /\ pc'[a] # "uncalled"
        /\ \A b \in Agent : b # a => pc'[b] = pc[b]
        /\ pc[a] \in {"marked", "done"} => pc'[a] = "done"
    BY <1>3 DEF WriteArtifacts, RuntimeMissing, SpawnChild, ToolsReturn, Collect,
                WriteResult
  <2>2. /\ outcome' \in [Agent -> {"ok", "err", None}] /\ session' \subseteq Agent
        /\ manifest' \in [Agent -> {"running", "success", None}]
    <3>1. CASE RuntimeMissing(a) \/ SpawnChild(a) \/ ToolsReturn(a)
      BY <3>1 DEF RuntimeMissing, SpawnChild, ToolsReturn
    <3>2. CASE Collect(a)
      BY <3>2 DEF Collect
    <3>3. CASE WriteResult(a)
      BY <3>3 DEF WriteResult, Written
    <3>4. CASE WriteArtifacts(a)
      BY <3>4 DEF WriteArtifacts, Written
    <3> QED
      BY <1>3, <3>1, <3>2, <3>3, <3>4
  <2> QED
    BY <2>1, <2>2
<1>4. ASSUME NEW a \in Agent, Iterate(a)
      PROVE  FlagsAgree'
  <2>1. /\ UNCHANGED <<entries, runtime, outcome, session, manifest, control>>
        /\ iterations' \in [Agent -> Nat] /\ pc[a] = "llm"
    BY <1>4 DEF Iterate
  <2>2. PICK place \in {"ok", "err", "tools"} : Goto(a, place)
    BY <1>4 DEF Iterate
  <2> QED
    BY <2>1, <2>2
<1>5. ASSUME NEW a \in Agent, Mark(a)
      PROVE  FlagsAgree'
  BY <1>5 DEF Mark
<1>6. ASSUME NEW a \in Agent, Gc(a)
      PROVE  FlagsAgree'
  BY <1>6 DEF Gc, Live
<1>7. ASSUME NEW c \in Control, NEW cmd \in Command, NEW a \in Agent,
             Resolve(c, cmd, a)
      PROVE  FlagsAgree'
  BY <1>7 DEF Resolve
<1>8. ASSUME NEW c \in Control, Visit(c)
      PROVE  FlagsAgree'
  <2>1. PICK a \in Agent :
           /\ pending' \in [Control -> [cmd : Command, name : Agent] \cup {None}]
           /\ UNCHANGED calls
           /\ \/ UNCHANGED <<entries, killed>>
              \/ /\ status[a] = "Running" /\ UNCHANGED <<kill_requested, killed>>
                 /\ status' = [status EXCEPT ![a] = "Paused"]
                 /\ is_paused' = [is_paused EXCEPT ![a] = TRUE]
              \/ /\ status[a] = "Paused" /\ UNCHANGED <<kill_requested, killed>>
                 /\ status' = [status EXCEPT ![a] = "Running"]
                 /\ is_paused' = [is_paused EXCEPT ![a] = FALSE]
              \/ /\ status[a] \in Live /\ UNCHANGED is_paused
                 /\ status' = [status EXCEPT ![a] = "Killed"]
                 /\ kill_requested' = [kill_requested EXCEPT ![a] = TRUE]
                 /\ killed' = killed \cup {a}
    BY <1>8, VisitChanges
  <2>2. CASE UNCHANGED <<entries, killed>>
    BY <2>1, <2>2
  <2>3. CASE /\ status[a] = "Running" /\ UNCHANGED <<kill_requested, killed>>
             /\ status' = [status EXCEPT ![a] = "Paused"]
             /\ is_paused' = [is_paused EXCEPT ![a] = TRUE]
    BY <2>1, <2>3
  <2>4. CASE /\ status[a] = "Paused" /\ UNCHANGED <<kill_requested, killed>>
             /\ status' = [status EXCEPT ![a] = "Running"]
             /\ is_paused' = [is_paused EXCEPT ![a] = FALSE]
    BY <2>1, <2>4
  <2>5. CASE /\ status[a] \in Live /\ UNCHANGED is_paused
             /\ status' = [status EXCEPT ![a] = "Killed"]
             /\ kill_requested' = [kill_requested EXCEPT ![a] = TRUE]
             /\ killed' = killed \cup {a}
    <3>1. status[a] # None /\ pc[a] # "uncalled"
      BY <2>5 DEF Live
    <3>2. /\ status'[a] = "Killed" /\ kill_requested'[a] /\ a \in killed'
          /\ \A d \in Agent : d # a => /\ status'[d] = status[d]
                                      /\ kill_requested'[d] = kill_requested[d]
                                      /\ (d \in killed' <=> d \in killed)
          /\ UNCHANGED <<is_paused, pc>>
      BY <2>1, <2>5
    <3>3. TypeOK'
      BY <2>1, <2>5
    <3> QED
      BY <3>1, <3>2, <3>3
  <2> QED
    BY <2>1, <2>2, <2>3, <2>4, <2>5
<1>9. CASE UNCHANGED vars
  BY <1>9 DEF vars
<1> QED
  BY <1>1, <1>2, <1>3, <1>4, <1>5, <1>6, <1>7, <1>8, <1>9 DEF Next, Call

(* Whatever commands, ends of calls and gc cross each other, the flags say what
   the status says, a kill stays on record, and an entry is gone or says complete
   or failed only after a kill or the end of its call.                        *)
THEOREM FlagsTellTheStatus == Spec => []FlagsAgree
BY InitFlags, StepFlags, PTL DEF Spec

-----------------------------------------------------------------------------
LEMMA StepNeverRevives ==
  ASSUME FlagsAgree, [Next]_vars, FlagsAgree'
  PROVE  \A a \in Agent :
           kill_requested[a] /\ status'[a] # None
             => kill_requested'[a] /\ status'[a] \notin Live
<1> SUFFICES ASSUME NEW a \in Agent, kill_requested[a], status'[a] # None
             PROVE  kill_requested'[a]
  BY DEF FlagsAgree, Live
<1> USE DEF FlagsAgree, TypeOK, entries, calls, control
<1>1. CASE UNCHANGED vars \/ SetRuntime \/ \E b \in Agent : Call(b)
  BY <1>1 DEF vars, SetRuntime, Register, Call, WriteArtifacts, RuntimeMissing,
              SpawnChild, Iterate, ToolsReturn, Collect, Mark, WriteResult
<1>2. ASSUME NEW b \in Agent, Gc(b)
      PROVE  kill_requested'[a]
  BY <1>2 DEF Gc
<1>3. ASSUME NEW c \in Control, NEW cmd \in Command, NEW b \in Agent,
             Resolve(c, cmd, b)
      PROVE  kill_requested'[a]
  BY <1>3 DEF Resolve
<1>4. ASSUME NEW c \in Control, Visit(c)
      PROVE  kill_requested'[a]
  BY <1>4, VisitChanges
<1> QED
  BY <1>1, <1>2, <1>3, <1>4 DEF Next

(* A killed agent is never running or paused again, in any interleaving.     *)
THEOREM KilledStaysKilled == Spec => NeverRevived
<1>1. FlagsAgree /\ [Next]_vars /\ FlagsAgree'
        => [\A a \in Agent :
              kill_requested[a] /\ status'[a] # None
                => kill_requested'[a] /\ status'[a] \notin Live]_vars
  BY StepNeverRevives
<1> QED
  BY <1>1, FlagsTellTheStatus, PTL DEF Spec, NeverRevived

-----------------------------------------------------------------------------
(* The calls of the spawn tool, and what they leave behind.                  *)

LEMMA InitCall == Init => CallInv
BY DEF Init, CallInv, Begun, Over, Status

LEMMA StepCall ==
  ASSUME FlagsAgree, CallInv, [Next]_vars
  PROVE  CallInv'
<1> USE DEF CallInv, TypeOK, Begun, Over, HasEntry, Goto, entries, calls, control
<1> TypeOK
  BY DEF FlagsAgree
<1>1. CASE SetRuntime
  BY <1>1 DEF SetRuntime
<1>2. ASSUME NEW a \in Agent, Register(a)
      PROVE  CallInv'
  BY <1>2 DEF Register
<1>3. ASSUME NEW a \in Agent, WriteArtifacts(a)
      PROVE  CallInv'
  BY <1>3 DEF WriteArtifacts, Written
<1>4. ASSUME NEW a \in Agent, RuntimeMissing(a)
      PROVE  CallInv'
  BY <1>4 DEF RuntimeMissing
<1>5. ASSUME NEW a \in Agent, SpawnChild(a)
      PROVE  CallInv'
  BY <1>5 DEF SpawnChild
<1>6. ASSUME NEW a \in Agent, Iterate(a) \/ ToolsReturn(a)
      PROVE  CallInv'
  <2>1. /\ UNCHANGED <<status, runtime, outcome, session, manifest>>
        /\ pc[a] \in Begun /\ pc'[a] \in Begun
        /\ \A b \in Agent : b # a => pc'[b] = pc[b]
    BY <1>6 DEF Iterate, ToolsReturn
  <2> QED
    BY <2>1
<1>7. ASSUME NEW a \in Agent, Collect(a)
      PROVE  CallInv'
  <2>1. status[a] \notin {"Complete", "Failed"}
    BY <1>7 DEF Collect, FlagsAgree
  <2> QED
    BY <1>7, <2>1 DEF Collect
<1>8. ASSUME NEW a \in Agent, Mark(a)
      PROVE  CallInv'
  BY <1>8 DEF Mark
<1>9. ASSUME NEW a \in Agent, WriteResult(a)
      PROVE  CallInv'
  BY <1>9 DEF WriteResult, Written
<1>10. ASSUME NEW a \in Agent, Gc(a)
      PROVE  CallInv'
  BY <1>10 DEF Gc, Status
<1>11. ASSUME NEW c \in Control, NEW cmd \in Command, NEW a \in Agent,
             Resolve(c, cmd, a)
      PROVE  CallInv'
  BY <1>11 DEF Resolve
<1>12. ASSUME NEW c \in Control, Visit(c)
      PROVE  CallInv'
  <2>1. /\ UNCHANGED <<runtime, pc, outcome, session, manifest>>
        /\ \A b \in Agent :
             \/ status'[b] = status[b]
             \/ status[b] \in Live /\ status'[b] \in Live \cup {"Killed"}
    BY <1>12, VisitChanges DEF Live
  <2> QED
    BY <2>1 DEF Live, Status
<1>13. CASE UNCHANGED vars
  BY <1>13 DEF vars
<1> QED
  BY <1>1, <1>2, <1>3, <1>4, <1>5, <1>6, <1>7, <1>8, <1>9, <1>10, <1>11,
     <1>12, <1>13 DEF Next, Call

LEMMA CallHolds == Spec => []CallInv
<1>1. FlagsAgree /\ CallInv /\ [Next]_vars => CallInv'
  BY StepCall
<1> QED
  BY <1>1, InitCall, FlagsTellTheStatus, PTL DEF Spec

(* What a call leaves behind never says better of it than how it ended, even
   when artifacts fail to be written.                                         *)
THEOREM CallsAccount == Spec => []Accounts
<1>1. FlagsAgree /\ CallInv => Accounts
  <2> SUFFICES ASSUME FlagsAgree, CallInv
               PROVE  Accounts
    OBVIOUS
  <2> QED
    BY DEF Accounts, CallInv, FlagsAgree, TypeOK, Begun, Over, Live, Status
<1> QED
  BY <1>1, CallHolds, FlagsTellTheStatus, PTL

-----------------------------------------------------------------------------
(* Families.                                                                 *)

LEMMA InitFamily == Init => FamilyInv
BY DEF Init, FamilyInv

LEMMA StepFamily ==
  ASSUME TypeOK, CallInv, FamilyInv, [Next]_vars
  PROVE  FamilyInv'
<1> USE DEF TypeOK, Goto, entries, calls, control
<1>1. CASE SetRuntime
  BY <1>1 DEF SetRuntime, FamilyInv
<1>2. ASSUME NEW a \in Agent, Register(a)
      PROVE  FamilyInv'
  <2>1. /\ pc[a] = "uncalled" /\ pc'[a] = "registered"
        /\ \A b \in Agent : b # a => pc'[b] = pc[b]
        /\ Parent[a] # None => pc[Parent[a]] = "tools"
        /\ UNCHANGED <<runtime, outcome>>
    BY <1>2 DEF Register
  <2>2. ASSUME NEW p \in Agent, NEW b \in Agent, Parent[b] = p
        PROVE  /\ pc'[p] = "tools" \/ pc'[b] \in {"uncalled", "done"}
               /\ pc'[b] # "uncalled" => runtime'
               /\ pc'[b] = "done" => outcome'[b] # None
    <3>1. CASE b = a
      <4>1. pc[p] = "tools"
        BY <2>1, <2>2, <3>1
      <4>2. runtime
        BY <4>1 DEF CallInv, Begun
      <4> QED
        BY <2>1, <3>1, <4>1, <4>2
    <3>2. CASE b # a
      BY <2>1, <2>2, <3>2 DEF FamilyInv
    <3> QED
      BY <3>1, <3>2
  <2> QED
    BY <2>2 DEF FamilyInv
<1>3. ASSUME NEW a \in Agent,
             \/ WriteArtifacts(a) \/ SpawnChild(a) \/ Iterate(a)
             \/ Collect(a) \/ Mark(a)
      PROVE  FamilyInv'
  <2>1. /\ pc[a] \notin {"uncalled", "tools", "done"} /\ pc'[a] \notin {"uncalled", "done"}
        /\ \A b \in Agent : b # a => pc'[b] = pc[b] /\ outcome'[b] = outcome[b]
        /\ UNCHANGED runtime
    BY <1>3 DEF WriteArtifacts, SpawnChild, Iterate, Collect, Mark
  <2> QED
    BY <2>1 DEF FamilyInv
<1>4. ASSUME NEW a \in Agent, ToolsReturn(a)
      PROVE  FamilyInv'
  BY <1>4 DEF ToolsReturn, FamilyInv, Child
<1>5. ASSUME NEW a \in Agent, RuntimeMissing(a) \/ WriteResult(a)
      PROVE  FamilyInv'
  <2>1. /\ pc[a] \in {"written", "marked"} /\ pc'[a] = "done"
        /\ \A b \in Agent : b # a => pc'[b] = pc[b]
        /\ UNCHANGED <<runtime, outcome>>
        /\ outcome[a] # None \/ ~runtime
    BY <1>5 DEF RuntimeMissing, WriteResult, CallInv
  <2> QED
    BY <2>1 DEF FamilyInv
<1>6. CASE \/ \E a \in Agent : Gc(a)
           \/ \E c \in Control, cmd \in Command, a \in Agent : Resolve(c, cmd, a)
           \/ \E c \in Control : Visit(c)
           \/ UNCHANGED vars
  <2>1. UNCHANGED <<pc, runtime, outcome>>
    BY <1>6 DEF Gc, Resolve, Visit, vars
  <2> QED
    BY <2>1 DEF FamilyInv
<1> QED
  BY <1>1, <1>2, <1>3, <1>4, <1>5, <1>6 DEF Next, Call

(* No entry is live below a call that is over, for families of any depth.    *)
THEOREM NoneLiveBelowTheEnded == Spec => []NoneLiveBelow
<1>1. FlagsAgree /\ CallInv /\ FamilyInv /\ [Next]_vars => FamilyInv'
  BY StepFamily DEF FlagsAgree
<1>2. FlagsAgree /\ CallInv /\ FamilyInv => NoneLiveBelow
  <2> SUFFICES ASSUME FlagsAgree, CallInv, FamilyInv, NEW a \in Agent, NEW b \in Agent,
                      Over(a), Parent[b] = a
               PROVE  status[b] \notin Live
    BY DEF NoneLiveBelow
  <2>1. pc[b] \in {"uncalled", "done"} /\ (pc[b] = "done" => outcome[b] # None)
    BY DEF FamilyInv, Over
  <2>2. CASE pc[b] = "uncalled"
    <3>1. status[b] = None
      BY <2>2 DEF FlagsAgree, HasEntry
    <3> QED
      BY <3>1 DEF Live, Status
  <2>3. CASE pc[b] = "done"
    BY <2>1, <2>3 DEF CallInv, Over, Live, Status
  <2> QED
    BY <2>1, <2>2, <2>3
<1> QED
  BY <1>1, <1>2, InitFamily, FlagsTellTheStatus, CallHolds, PTL DEF Spec
=============================================================================
