------------------------------ MODULE Subagents ------------------------------
(***************************************************************************)
(* Child agents: the registry that names and controls them                 *)
(* (crates/agenticlaw-agent/src/subagent.rs), the spawn tool that registers *)
(* and runs one (crates/agenticlaw-tools/src/tools/spawn.rs), the loop that *)
(* runs it (AgentRuntime::spawn_child), and the subagent tool through which *)
(* an agent or a human lists, pauses, resumes and kills them               *)
(* (crates/agenticlaw-tools/src/tools/subagent.rs).                        *)
(*                                                                         *)
(* An agent is one call of the spawn tool, one that was given a registry.   *)
(* The tool registers it with no parent, whoever called it (spawn.rs:235),  *)
(* so no entry ever lists a child and the recursion with which pause,      *)
(* resume and kill promise to reach "all its children" visits nobody: a     *)
(* command is one entry under its lock.  Nobody waits at a pause gate and  *)
(* no loop looks at is_paused or is_killed, so the gates are left out: a    *)
(* paused or killed child goes on, and what the model shows is the          *)
(* registry's word.                                                         *)
(***************************************************************************)
EXTENDS Naturals, FiniteSets

CONSTANTS
  Agent,          \* calls of the spawn tool
  Parent,         \* the agent in whose tools a call is made, None for the main agent
  Control,        \* callers of the subagent tool
  MaxIterations,  \* max_iterations of a child
  None

Status == {"Running", "Paused", "Complete", "Failed", "Killed"}
Live == {"Running", "Paused"}
Command == {"pause", "resume", "kill"}

ASSUME SubagentsAssumption ==
  /\ Parent \in [Agent -> Agent \cup {None}]
  /\ None \notin Agent \cup Status \cup {"ok", "err", "running", "success"}
  /\ None \notin [cmd : Command, name : Agent]
  /\ MaxIterations \in Nat

Place == {"uncalled", "registered", "written", "llm", "tools", "ok", "err",
          "returned", "marked", "done"}

VARIABLES
  status,          \* of an entry, None when the agent has none
  is_paused, kill_requested,
  runtime,         \* the spawn tool has been given its runtime
  pc,              \* where a call of the spawn tool is
  iterations,
  outcome,         \* what spawn_child returned
  session,         \* agents whose session the runtime's registry holds
  manifest,        \* status line of manifest.yaml, None where there is none
  pending,         \* the subagent tool: a command and the name it was resolved to
  killed           \* history: agents that a kill has reached

entries == <<status, is_paused, kill_requested>>
calls == <<runtime, pc, iterations, outcome, session, manifest>>
control == <<pending, killed>>
vars == <<entries, calls, control>>

Init ==
  /\ status = [a \in Agent |-> None]
  /\ is_paused = [a \in Agent |-> FALSE] /\ kill_requested = [a \in Agent |-> FALSE]
  /\ runtime = FALSE
  /\ pc = [a \in Agent |-> "uncalled"]
  /\ iterations = [a \in Agent |-> 0] /\ outcome = [a \in Agent |-> None]
  /\ session = {} /\ manifest = [a \in Agent |-> None]
  /\ pending = [c \in Control |-> None]
  /\ killed = {}

HasEntry(a) == status[a] # None
Goto(a, place) == pc' = [pc EXCEPT ![a] = place]
Child(a) == {b \in Agent : Parent[b] = a}

-----------------------------------------------------------------------------
(* A call of the spawn tool.                                                *)

\* set_runtime, once, when the process is put together.
SetRuntime ==
  /\ ~runtime
  /\ runtime' = TRUE
  /\ UNCHANGED <<entries, pc, iterations, outcome, session, manifest, control>>

\* SpawnTool::execute up to the registration, which names no parent.  A child
\* agent calls it from its own tools.
Register(a) ==
  /\ pc[a] = "uncalled"
  /\ Parent[a] # None => pc[Parent[a]] = "tools"
  /\ status' = [status EXCEPT ![a] = "Running"]
  /\ Goto(a, "registered")
  /\ UNCHANGED <<is_paused, kill_requested, runtime, iterations, outcome, session,
                 manifest, control>>

\* write_artifact on manifest.yaml, whose errors are only logged: without a
\* directory or permission the old line stays, and a file cut short has none.
Written(a, line) ==
  \E left \in {line, manifest[a], None} : manifest' = [manifest EXCEPT ![a] = left]

\* The artifacts that are written before the child is spawned.
WriteArtifacts(a) ==
  /\ pc[a] = "registered"
  /\ Written(a, "running")
  /\ Goto(a, "written")
  /\ UNCHANGED <<entries, runtime, iterations, outcome, session, control>>

\* No runtime: the tool gives up; entry and manifest stay as they are.
RuntimeMissing(a) ==
  /\ pc[a] = "written" /\ ~runtime
  /\ Goto(a, "done")
  /\ UNCHANGED <<entries, runtime, iterations, outcome, session, manifest, control>>

\* spawn_child up to its loop.
SpawnChild(a) ==
  /\ pc[a] = "written" /\ runtime
  /\ session' = session \cup {a}
  /\ Goto(a, "llm")
  /\ UNCHANGED <<entries, runtime, iterations, outcome, manifest, control>>

\* One round of the loop: the limit ends it without an error, a request that
\* fails ends it with one, an answer without tools ends it, one with tools
\* leads to their execution.
Iterate(a) ==
  /\ pc[a] = "llm"
  /\ iterations' = [iterations EXCEPT ![a] = @ + 1]
  /\ IF iterations[a] + 1 > MaxIterations THEN Goto(a, "ok")
     ELSE \E place \in {"ok", "err", "tools"} : Goto(a, place)
  /\ UNCHANGED <<entries, runtime, outcome, session, manifest, control>>

\* Mutant of ToolsReturn: a call of the spawn tool is left to run by itself.
ToolsDetach(a) ==
  /\ pc[a] = "tools"
  /\ Goto(a, "llm")
  /\ UNCHANGED <<entries, runtime, iterations, outcome, session, manifest, control>>

\* join_all over the tools: every call of the spawn tool among them is over.
ToolsReturn(a) ==
  /\ pc[a] = "tools"
  /\ \A b \in Child(a) : pc[b] \in {"uncalled", "done"}
  /\ Goto(a, "llm")
  /\ UNCHANGED <<entries, runtime, iterations, outcome, session, manifest, control>>

\* Mutant of Collect: the session stays registered after a success too.
KeepsSession(a) ==
  /\ pc[a] \in {"ok", "err"}
  /\ outcome' = [outcome EXCEPT ![a] = pc[a]]
  /\ session' = session
  /\ Goto(a, "returned")
  /\ UNCHANGED <<entries, runtime, iterations, manifest, control>>

\* The end of spawn_child.  An error leaves through ? before the session is
\* removed from the registry.
Collect(a) ==
  /\ pc[a] \in {"ok", "err"}
  /\ outcome' = [outcome EXCEPT ![a] = pc[a]]
  /\ session' = IF pc[a] = "ok" THEN session \ {a} ELSE session
  /\ Goto(a, "returned")
  /\ UNCHANGED <<entries, runtime, iterations, manifest, control>>

\* mark_complete and mark_failed: whatever the entry's status was.
Mark(a) ==
  /\ pc[a] = "returned"
  /\ status' = IF HasEntry(a)
               THEN [status EXCEPT ![a] = IF outcome[a] = "ok" THEN "Complete" ELSE "Failed"]
               ELSE status
  /\ Goto(a, "marked")
  /\ UNCHANGED <<is_paused, kill_requested, runtime, iterations, outcome, session,
                 manifest, control>>

\* The artifacts that are written after: only a success rewrites the manifest.
WriteResult(a) ==
  /\ pc[a] = "marked"
  /\ IF outcome[a] = "ok" THEN Written(a, "success") ELSE UNCHANGED manifest
  /\ Goto(a, "done")
  /\ UNCHANGED <<entries, runtime, iterations, outcome, session, control>>

-----------------------------------------------------------------------------
(* The subagent tool.                                                        *)

\* SubagentTool::execute: the name is resolved, exactly or by prefix, to an
\* entry of the moment; the command comes later.
Resolve(c, cmd, a) ==
  /\ pending[c] = None /\ HasEntry(a)
  /\ pending' = [pending EXCEPT ![c] = [cmd |-> cmd, name |-> a]]
  /\ UNCHANGED <<entries, calls, killed>>

\* Mutant of Applies: resume takes any entry that is not running.
ResumesTheEnded(cmd, a) ==
  CASE cmd = "pause"  -> status[a] = "Running"
    [] cmd = "resume" -> status[a] # "Running"
    [] cmd = "kill"   -> status[a] \in Live

\* Which entries a command changes; at any other it stops with an error.
Applies(cmd, a) ==
  CASE cmd = "pause"  -> status[a] = "Running"
    [] cmd = "resume" -> status[a] = "Paused"
    [] cmd = "kill"   -> status[a] \in Live

\* What it does to status and is_paused.
Outcome(cmd) == CASE cmd = "pause"  -> "Paused"
                  [] cmd = "resume" -> "Running"
                  [] cmd = "kill"   -> "Killed"

\* Mutant of PausedAfter: resume forgets the flag.
OncePausedAlways(cmd, before) == before \/ cmd = "pause"
PausedAfter(cmd, before) == IF cmd = "kill" THEN before ELSE cmd = "pause"

\* SubagentRegistry::pause, resume and kill on the entry, under its lock.
Visit(c) ==
  /\ pending[c] # None
  /\ pending' = [pending EXCEPT ![c] = None]
  /\ LET a == pending[c].name
         cmd == pending[c].cmd
     IN IF Applies(cmd, a)
        THEN /\ status' = [status EXCEPT ![a] = Outcome(cmd)]
             /\ is_paused' = [is_paused EXCEPT ![a] = PausedAfter(cmd, @)]
             /\ kill_requested' = [kill_requested EXCEPT ![a] = @ \/ cmd = "kill"]
             /\ killed' = IF cmd = "kill" THEN killed \cup {a} ELSE killed
        ELSE UNCHANGED <<entries, killed>>
  /\ UNCHANGED calls

\* gc: an entry that has ended goes, once it is old enough.
Gc(a) ==
  /\ status[a] \in Status \ Live
  /\ status' = [status EXCEPT ![a] = None]
  /\ is_paused' = [is_paused EXCEPT ![a] = FALSE]
  /\ kill_requested' = [kill_requested EXCEPT ![a] = FALSE]
  /\ UNCHANGED <<calls, control>>

Call(a) ==
  \/ Register(a) \/ WriteArtifacts(a) \/ RuntimeMissing(a) \/ SpawnChild(a)
  \/ Iterate(a) \/ ToolsReturn(a) \/ Collect(a) \/ Mark(a) \/ WriteResult(a)

Next ==
  \/ SetRuntime
  \/ \E a \in Agent : Call(a) \/ Gc(a)
  \/ \E c \in Control, cmd \in Command, a \in Agent : Resolve(c, cmd, a)
  \/ \E c \in Control : Visit(c)

Spec == Init /\ [][Next]_vars

-----------------------------------------------------------------------------
TypeOK ==
  /\ status \in [Agent -> Status \cup {None}]
  /\ is_paused \in [Agent -> BOOLEAN] /\ kill_requested \in [Agent -> BOOLEAN]
  /\ runtime \in BOOLEAN
  /\ pc \in [Agent -> Place]
  /\ iterations \in [Agent -> Nat]
  /\ outcome \in [Agent -> {"ok", "err", None}]
  /\ session \in SUBSET Agent
  /\ manifest \in [Agent -> {"running", "success", None}]
  /\ pending \in [Control -> [cmd : Command, name : Agent] \cup {None}]
  /\ killed \in SUBSET Agent

\* The end of a call has been recorded, or the call gave up.
Over(a) == pc[a] \in {"marked", "done"}

\* The registry's word about an entry is consistent, whatever commands, the end
\* of the call and gc cross each other: the flags of a running, paused or killed
\* entry say what its status says, a kill stays on record as long as the
\* entry does although the end of the call overwrites the status, an entry
\* says complete or failed only when the call is over, and one that is gone
\* was killed or is over.  What is_paused says of an entry that has
\* completed or failed is left open: the end of a paused child leaves it set
\* (subagent.rs:160-358).
FlagsAgree ==
  /\ TypeOK
  /\ \A a \in Agent :
        /\ status[a] = "Running" => ~is_paused[a] /\ ~kill_requested[a]
        /\ status[a] = "Paused" => is_paused[a] /\ ~kill_requested[a]
        /\ status[a] = "Killed" => kill_requested[a]
        /\ HasEntry(a) => (kill_requested[a] <=> a \in killed)
        /\ pc[a] = "uncalled" => ~HasEntry(a) /\ a \notin killed
        /\ status[a] \in {"Complete", "Failed"} => Over(a)
        /\ ~HasEntry(a) =>
             /\ ~is_paused[a] /\ ~kill_requested[a]
             /\ pc[a] = "uncalled" \/ a \in killed \/ Over(a)

\* An agent that was killed is never running or paused again, whatever pause,
\* resume and the end of its own call do at the same time
\* (subagent.rs:160-245).
NeverRevived ==
  [][\A a \in Agent :
       kill_requested[a] /\ status'[a] # None
         => kill_requested'[a] /\ status'[a] \notin Live]_vars

\* No entry is live below a call that is over, although nobody tells the
\* registry who called whom: the tools of a child are joined before it goes
\* on, and where there is a child there is a runtime (runtime.rs:769-780,
\* spawn.rs:290-386).  Below an agent that was merely killed entries stay live.
NoneLiveBelow ==
  \A a, b \in Agent : Over(a) /\ Parent[b] = a => status[b] \notin Live

\* What a call leaves behind when it is over: only a child that failed leaves
\* its session, the manifest claims no success that was not one (though a write
\* that failed may leave it behind the truth), an entry that is still live
\* or killed belongs to a call that found no runtime, and the entry of a child
\* that ran tells how it ended even if it was killed meanwhile
\* (spawn.rs:142-150, 290-384, runtime.rs:822-824).
Accounts ==
  \A a \in Agent :
    /\ a \in session => pc[a] # "done" \/ outcome[a] = "err"
    /\ manifest[a] = "success" => pc[a] = "done" /\ outcome[a] = "ok"
    /\ pc[a] = "done" =>
         /\ status[a] \in Live \cup {"Killed"} => outcome[a] = None
         /\ status[a] = "Complete" => outcome[a] = "ok"
         /\ status[a] = "Failed" => outcome[a] = "err"
=============================================================================
