# Verification of agenticlaw

TLA+ models of the parts of agenticlaw that are hard to test, checked with TLC
on small instances and, where noted, proved with TLAPS for every value of the
constants. agenticlaw is an agent runtime in Rust: it talks to a language
model, runs tools for it, keeps conversations in `.ctx` files, and stacks
several agents into a "consciousness" in which each layer reads what the layer
above it wrote.

## Inventory

| Component (source) | State it keeps | What happens to it | What is hard |
|---|---|---|---|
| **DualCore** (`agenticlaw-consciousness/src/cores.rs`) | phase, tokens and samples of cores A and B, `ready_since`, `core-state.json`, `seed.txt` files | one task per delta of L3, one LLM turn per core, compaction, seed hand-over, 30 s timeout, hydration | two mutexes, tasks that outlive the state they read, crash between file writes |
| **Event queue** (`agenticlaw-agent/src/queue.rs`, `session.rs`) | priority buffer, active tools, current LLM call, conversations | messages preempt, tools end, streams end, fail or are cancelled | late results, stale answers, interruption across sessions |
| **VersionController** (`agenticlaw-consciousness/src/version.rs`) | manifest, directories `L4`, `core-a`, `core-b`, `core-state.json` | migrate, resume, create, roll back | crash between any two file operations |
| **AgentRuntime** (`agenticlaw-agent/src/runtime.rs`) | per-runtime steering and follow-up queues, cancel token, iteration count | `run_turn` loops, steering between tools, abort, `spawn_child` | queues shared by all sessions, an abort that is never reset, messages drained at the wrong moment |
| **Session, registry, .ctx files** (`session.rs`, `context.rs`, `ctx_file.rs`) | message list, pending counter, token estimate, file | append, merge tool results, resume, sleep | merging, resuming a file cut short |
| **Message healing** (`agenticlaw-llm/src/types.rs`) | none (pure) | pairs every tool use with one result | missing, duplicate and orphaned results |
| **Sub-agents** (`agenticlaw-agent/src/subagent.rs`, `agenticlaw-tools/src/tools/spawn.rs`, `subagent.rs`) | a status, pause and kill flag per child, parent/child tree, artifacts of a call | register, pause, resume, kill recursively, complete, fail, gc | a lock per step: children registered while their parent is being killed, completion after a kill |
| **Consciousness stack** (`stack.rs`) | one semaphore per layer, watcher channel | launch, cascade of deltas, layer updates, scanner | deltas skipped while a layer is busy, content delivered twice |
| **Watcher** (`watcher.rs`) | last size per file | poll, read what was appended | truncation, a read in the middle of a character, failure to send |
| **Injections** (`injection.rs`) | files in `injections/` and `.in-progress` | write; read and clear | the reader has no caller outside the tests |
| **Knowledge graph executor** (`agenticlaw-kg/src/{executor,manifest,registry,resource}.rs`) | manifest of a run in memory and on disk, artifacts, results | execute leaves and parents in order, block what follows a failure, finalize | a break between two writes, what each child is told |
| **Gateway** (`agenticlaw-gateway/src/{ws,rpc,server}.rs`) | sessions, subscribers, abort channels | `chat.send`, `chat.abort`, `sessions.delete`, event broadcast | an abort nobody receives, lagging subscribers, deletion during a turn |
| **Supervisor** (root `src/supervisor/`) | an entry and a card per worker, poll interval, `card-map.json` | poll with backoff, detect dead, frozen and straying workers, carry out the conductor's commands | a time threshold counted in polls of changing length, entries forgotten at an error of tmux, cards in three places |
| **Operator policy and proxy** (`operator/src/{policy,proxy,proxy_main}.rs`) | tiers of allow, deny and ask patterns; a connection's two loops and the channel between them | load and merge overlays, decide about a call, hand on or deny a message | the order of overlays, a full channel, two loops in one task |
| **Context tools** (root `src/{main,context,transform,parser,openclaw,format}.rs`) | modification times, an output file per session | follow session files, convert JSONL and `.ctx` into each other and into text | a file written while it is read, calls and results paired by id, text that looks like markup |
| **LLM stream, tools** (`agenticlaw-llm/src/anthropic.rs`, `agenticlaw-tools`) | parser state, child processes | parse SSE, run and cancel tools | partial lines, a process that outlives its timeout |
| Ego distillation, configuration, TUI, CLI, service files, operator builder and testers, `terraform/`, `bee/`, souls | | text in, text out | not concurrent; wording and layout |

How they interact. A client's message goes through the gateway to a runtime's
`run_turn` (or, in v3, to the event queue), which calls the model and the tools
and appends to a session. Sessions write `.ctx` files; the watcher of the stack
sees them grow and hands the delta to the next layer, whose runtime does the
same. L3's deltas go to the two cores. Inner layers answer upwards with
injection files. Sub-agents are runtimes of their own, started by the `spawn`
tool and known to the registry. Before any of that, the version controller
brings the workspace to schema version 2.

Beside the agents stand four programs that share nothing with them but files
and sockets: the knowledge graph executor runs an agent turn per leaf of a tree,
the supervisor watches other agents through tmux, the protectgateway sits
between a client and a gateway, and the context tools read the session files.

## Modules

| Module | What it is |
|---|---|
| `DualCore` | specification of `cores.rs`, its properties and inductive invariants |
| `EventQueue` | specification of `queue.rs` and of the conversation in `session.rs` |
| `VersionMigration` | specification of `version.rs`; implements `WorkspaceLife` |
| `WorkspaceLife` | abstract specification: a core's history survives upgrade and rollback |
| `Cascade` | specification of the watcher, the start-up scanners and the loop and tasks of `stack.rs` |
| `AgentTurns` | specification of `run_turn` in `runtime.rs`, its sessions and the gateway's calls |
| `HealMessages` | conversations and their repair (`types.rs`), as operators; used by `AgentTurns` |
| `Subagents` | specification of the registry, the spawn tool, the child's loop and the subagent tool |
| `KgExecutor` | specification of one run of the knowledge graph executor; implements `Pipeline` |
| `Pipeline` | abstract specification: stages one after the other, none after a failure |
| `Supervisor` | specification of the polling loop, its detectors and commands |
| `Policy` | what tiers of patterns decide about a call, and merging, as operators |
| `ProtectGateway` | specification of loading the policies and of a connection; uses `Policy` |
| `SessionText` | both text formats of a session and the conversions between them, as operators |
| `SessionWatch` | specification of the command that follows a session file; uses `SessionText` |
| `MC*` | a small instance of the module of that name for TLC, with a `.cfg` for each run |
| `*Proofs` | TLAPS proofs about the module of that name; `CoresProofs` about `VersionMigration` and `DualCore`, `SessionsProofs` about `AgentTurns`, `HealMessages` and `SessionWatch` |

In all of them an operator marked as a mutant is not part of the specification:
it stands next to a definition and shows what a plausible bug in the same code
would do, and each property is known to be violated by one of them.

### DualCore

*Correspondence.* A task that runs `process_l3_delta` for an L3 delta is an
element of `Delta`; `route` says where it is and `at` which core it looks at.
The LLM turn it spawns holds the core's semaphore permit: `turn[c]`. `state`
(phase, tokens, samples, skip counter, last compaction) is behind one mutex,
`ready` (`ready_since`) behind the other; a critical section without a wait or
a file write is one action. `CheckTimeout` is `check_ready_timeout`, `Reply` to
`Release` are the steps after the reply, in their order in the code.
`Checkpoint` writes `core-state.json` (`saved`), `WriteSeed` and `Absorb` handle
`seed.txt` (`seed`). `Restart` kills the process anywhere and hydrates.

*Abstraction.* Tokens and samples saturate at `MaxTokens` and `MaxSamples`
(saturation rather than a guard, so that infinite behaviours remain); of the
skip counter only the parity matters. The text of deltas and replies and the
injection file a turn may write are left out. `ProvideSeed` is the environment:
somebody leaves a `seed.txt`, which is the only way core B ever wakes.

*Runs.* `dualcore`: two seeds from outside and one restart, so that both cores
fill, tie, compact and time out. `DeepContext`: one core is always deep, in
memory and in the checkpoint; `ReadyPassesOn`: a core that is seen Ready is alone
and has its timer; `DurableCheckpoint`: a crash finds the checkpoint of the
present state and the seed of a core that was emptied; `ReadyEnds` (liveness): a
Ready core compacts or reverts, unless the two mutexes deadlock or the process is
restarted. `dualcore_deadlock` (a violation): they do deadlock, and no core
accumulates again. `dualcore_alternation` (a violation): a fresh workspace, left
to itself, does not "alternate between growing and compacting" (cores.rs:3).
Deadlock is not checked as such because of exactly the cycle of the first.

*Fairness.* Task steps, the timer and the arrival of deltas are weakly fair
(tokio runs what is ready). Steps that take a mutex, and the model's reply, are
strongly fair: tokio's mutex is handed out in order of arrival, and a model
that is asked again and again answers. Seeds and restarts need not happen.

*Bounds.* One task at a time already overlaps with the turns of both cores, the
timers and the turn it started before; the proofs are for any number of tasks.
With `HalfBudget` 2 a reply of 1 fills a
core in two turns; two seeds wake core B and refill it after its compaction. One
restart reaches every state a second one can, except the number of seeds. The
disk works in the run; the proofs cover one that fails.

*What the code does not do.* Without a seed from outside no core ever compacts
(`NeverCompacts`, proved as `FreshNeverCompacts`): a compaction needs a Growing
peer, B starts as an Infant and waits for a seed that only a compaction writes.
`Alternating` states what cores.rs:3 says and TLC finds it violated. A restart in
phase Ready loses the timer (`ready_since` is not persisted), so that part of
`ReadyPassesOn` is stated for a process that was not restarted. A seed is written
for a Growing peer, which reads it only after it has itself been emptied.

### EventQueue

*Correspondence.* The actions `handle_human_message`, `handle_tool_result`,
`handle_llm_complete`, `Ignore` and `Shutdown` are the arms of `run`, with
`recv_with_priority` as their guard; the loop shares nothing with its LLM calls
and tools but the channel and cancellation tokens, so an arm is one action.
`calls` and `tools` are all tasks ever started; a call carries the conversation
it was started with (`context`). `current` stands for `llm_cancel` and
`current_request_id`, which are always set and taken together while the loop
runs. `turn` is what a client last heard of a session: waiting, error or done.
`sent` counts what clients sent; a message's number is its place in that order.
`SleepAt` stands for the context window, in messages. `recv_with_priority` takes
the first of the buffer after a stable sort by priority, and drains the channel
into the buffer only when that is empty: `Drained` is the sequence that is sorted,
`Foremost` the index the sort puts first. The rest is left unsorted in `buffer`:
only the next sort looks at it, and equals keep their order either way.

*Abstraction.* The content of messages, answers and results; the capacity (1024)
of the channel: the loop is its only receiver and never sends to it, so a full
channel delays senders and nothing else; tool ids are unique.

*Run.* `queue`: two sessions that interrupt each other, two messages, one notice
or Shutdown, answers with no, one or two tools, a context window that may fill.
`AwaitedIsComing`: what the loop waits for is on its way; `CallsInHand`: one call
or some tools at a time, calls are paid for by messages, nothing runs on after
Shutdown; `ConversationHolds`: a result lands in its own conversation, after its
use, once, beside those of the same answer, and a use is left without one only
by a message that parked it; `AnswersLatest`: an answer is added only if it saw
every message; `MessageHandled` and `TurnEnds` (liveness): every message is
handled and every turn's end is heard. Deadlock is not checked: an idle loop
waits for ever.

*Fairness.* The loop is scheduled, a stream ends and a tool returns (bash has a
timeout). Nobody has to send a message.

*Bounds.* Two messages and two tools: the shortest histories in which a parked
tool's result arrives late, twice, after the turn's end, and beside a stale
answer. Two sessions are all that one can interrupt.

*What the code does not do*, seen while modelling and not repeated as runs: a
failed `complete_stream` sends no event, so `llm_cancel` stays set until the
next message (the third case of `AwaitedIsComing`); the late result of a parked
tool may start a call after the turn was done; a call started by a message has
tool uses without results in its context, while SPEC-v3-event-queue.md:452
promises "[tool X was parked]" (`UnansweredWereParked`, a part of `ConversationHolds`, says how far it goes); a
human message waits behind events that an earlier drain left in the buffer
(queue.rs:363), though queue.rs:99 says it is always processed next; a
message of another session ends a turn without Done or Error (excused in
`TurnEnds`); injections are dropped although queue.rs:323 says they are stored;
the loop holds a sender of its own channel, so it does not end when all clients
are gone.

### VersionMigration

*Correspondence.* `pc` is the next file operation of `ensure_version`,
`migrate_v1_to_v2`, `create_v2_layout` or `rollback_v2_to_v1`; `Detected` is the
decision of `ensure_version`. `Start` is `DualCore::new`, which creates missing
directories, and `Live` a core's turn. `Crash` is a kill or an operation that
returns an error (which ends the process by `?`).

*Run.* `workspace_migration`: from a new workspace or one with an `L4`, with two
crashes and two rollbacks: the promise of `WorkspaceLife` (`PromiseKept`, a refinement:
the history is the union of `L4` and `core-a`, the version is 2 exactly when the
manifest says v2); `HistoryIsFound`: one home of the history unless a rollback
was cut short, and a stack runs only on version 2 with both directories; and
`Relaunches`: every launch is followed by a running stack (weak fairness: the program runs and is started
again; crashes and rollbacks are bounded, so they end).

*Bounds.* Two episodes tell old history from new; two rollbacks are needed for
`L4` and `core-a` to exist together and meet a rename.

*What the code does not do.* A rollback killed after its rename leaves a v2
manifest, and the next launch starts with an empty `core-a` beside the history
in `L4` (`interrupted` in `OneHome`). A launch killed in `create_v2_layout` is
taken for complete by the next one (version.rs:97); `DualCore::new` repairs the
directories. A rollback removes core-b's history: version.rs:231 looks for
`.ctx` files at the top level only.

### Cascade

*Correspondence.* `FindFile` and `SendFile` are a start-up scanner's task;
`scan_for_new_files`, `Poll` and `SendChange` the loop of `CtxWatcher::run`, cut
where it waits for the channel; `Receive` the loop of `launch`, `Acquire` to
`End` the task it spawns for a change, with `process_layer_update` inside.
`permit[l]` is a layer's semaphore. `add_user_message` comes before the sleep
test, as in the code, so that a sleeping layer still passes the delta on.

*Abstraction.* A file is a number of chunks (its header with the first message;
the whole answer of a turn) and a change an interval of them. A read that fails
is a poll that has not happened yet. The order in which the watcher looks at
files is free. An injection is the fact that a layer wrote one. `Converse`, by
which the lowest layer's file grows, is the environment. `copies` is history:
how often each chunk went onto the channel.

*Run.* `cascade`. `OneTurn`: one turn per layer at a time; `SentWholeAndOnce`:
nothing left out behind the watcher's offset, nothing sent twice except by a
scanner; `Rises` (liveness): the watcher catches up with every file, and a new
stack wakes up to the cores whatever fails or sleeps.

*Fairness.* Weak, for the scanners, the watcher, the loop and the tasks: each is
a loop or a spawned task that tokio runs, and the model's calls end.

*Bounds.* Two layers, because every one does the same to the next; the second is
the one whose changes go to the cores. A channel of one change is full as soon
as anything is in it. Two chunks at the bottom give a small file, a large one
(`SmallFile` 1), one that grows during a send, and a change that meets a busy
layer.

*What the code does not do.* README.md:65 says that only new bytes propagate:
the scanner and the watcher both send the beginning of a new small file
(excused in `OnlyNew`). The watcher starts at the end of a file that has 8192
bytes when it first sees it, so its beginning reaches nobody unless a scanner
sends it (`start` in `NothingSkipped`; `Percolates` speaks of layers with a
scanner). A delta that meets a busy layer is dropped, and what the layer writes
is the delta plus its answer, so that data does not get less from layer to
layer. A layer that sleeps does so for ever. `read_and_clear_injections` has no
caller.

### AgentTurns and HealMessages

*Correspondence.* A turn is one call of `chat.send`, whose task `run_turn` is.
`Begin` to `Finish` are its steps, cut at every await where another turn can get
at what is shared: the session (`messages`, `pending`), the runtime's queues and
its cancel token. `Loop` is the head of the inner loop, which `AtLimit` leaves;
`Execute` is one round of `execute_tools_with_steering`, which runs or skips a
tool; `TakeFollowUps` to `FollowInput` are the outer loop. `registry` is the
`SessionRegistry`: a deleted session goes on for the turns that hold it.
`request` is what `validate_and_heal_messages` makes of the conversation;
`answered` is history.

*Abstraction.* A text is a name, a message says which texts, tool uses and
results it has; the token estimate is the number of messages (`SleepAt`);
parameters, tool output and events are left out. Ids of tool uses are unique, as
the model's API makes them. `steer`, `follow_up` and `abort` have no caller in
this commit: the model lets anybody call them at any time.

*Run.* `agent_turns`, with two turns of one session. `UsesPaired`: requests pair
every tool use with one result, also when another turn writes between a use and
its result, and every use in a session gets its result after it and once,
although a steering message skips tools; `NothingIsLost`: a steered or queued
text is always in exactly one place; `AllIsAnswered`: when the turns of a session
have ended well, all its texts were in a request that was answered; `TurnsEnd`
(liveness): both end although each adds to the other's session.

*Fairness.* Weak, per turn: a spawned task runs, a call of the model ends and a
tool returns. Clients need not do anything.

*Bounds.* Two turns are enough for one to write between any two steps of the
other. Two iterations: the second is the one that input or a tool result asks
for, and the limit comes after it. An answer has no tools or two, so that one
can be skipped. `MaxWishes` 1: one other call of a client, anywhere. Calls of
`chat.send` differ in name only and one that has not begun is seen by nobody, so
the second turn is begun after the first (`InOrder` of `MCAgentTurns`, in place
of a symmetry set, which is not sound with liveness). Deadlock is not checked:
when all turns are over nothing happens.

*What the code does not do.* The queues are the runtime's, so a steering message
goes to the turn that looks first, of whichever session. What has been taken
from the steering queue when the iteration limit is reached is dropped, and
pending input may go unanswered there (`Limited`). Texts said during another
turn of the same session are answered by both. A result that arrives after
another turn's message is repaired with "[cancelled]" where the API wants it,
and stays as an orphan where it is. `abort()` holds for ever: later turns all
end as aborted. rpc.rs:211 calls `chat.abort` "abort the current agent turn", but
its signal goes to a channel whose receiver nobody takes (`take_abort_rx` has no
caller), so no turn hears it; a second one waits for room in that channel, and its
connection with it. Healing drops the second of two equal results (types.rs:143),
but not from a message in which another result is missing (types.rs:181), which
`Mendable` leaves out of the proof; no turn makes such a message.

### Subagents

*Correspondence.* An agent is one call of the spawn tool; `pc` says where it is.
`Register` to `SpawnChild` and `Collect` to `WriteResult` are `execute` before and
after the child, `Iterate` and `ToolsReturn` the loop of `spawn_child`, in which a
child may call the spawn tool itself (`Parent` says in whose tools a call is made).
`Written` is `write_artifact`, whose errors are only logged: the line may stay what
it was, or be lost. A caller of the subagent tool resolves a name (`Resolve`,
`pending`) and then applies its command to the entry under its lock (`Visit`); `Gc`
is one entry that has ended. `killed` is history: agents that a kill has reached.

*Abstraction.* Nobody waits at a pause gate and no loop looks at `is_paused` or
`is_killed`, so the gates are left out. Prompts, reports and the time after which
`gc` takes an entry are left out; an entry that has ended may go at any time. A
manifest is its status line. `mark_complete` cuts a long output at byte 497 and
panics inside a character: left out.

*Run.* `subagents`. `FlagsAgree`: the flags say what the status says, a kill stays
on record, and an entry says complete or failed, or is gone, only when its call is
over or was killed; `NeverRevived`: an agent that was killed never runs or pauses
again, in spite of pause, resume and the end of its own call; `NoneLiveBelow`: no
entry is live below a call that is over; `Accounts`: session, manifest and entry
never say better of a call than how it ended, also when writes fail.
All are safety, so no fairness is assumed. Deadlock is not checked: calls end.

*Bounds.* A child and a grandchild: two generations are all that `ToolsReturn`
relates; two callers of the tool, which are alike (symmetry); two iterations, so
that one with tools is followed by another that may fail, end or meet the limit.

*What the code does not do.* subagent.rs:186, 216 and 248 recurse to the children
of an entry, and subagent.rs:36-38 promises that much, but spawn.rs:235 registers
every child without a parent, so no entry has children and the recursion visits
nobody: the entries below a paused or killed one stay `Running`. A paused or killed
child goes on to its end, and its end then overwrites the status: `Killed` turns
into `Complete` (`Accounts` allows both), and `is_paused` of an entry that ended
while paused stays set (`FlagsAgree` leaves it open). A call without a runtime
leaves its entry `Running`, and a child that fails leaves its session in the
runtime's registry. Nobody puts a registry into the production runtime: in this
commit the tests alone do.

### KgExecutor and Pipeline

*Correspondence.* The actions have the names of the functions of executor.rs,
cut at the writes: `manifest` and `outcome` are the `RunManifest` in memory,
`disk` and `disk_outcome` what `write_manifest` wrote last, `files` the artifacts
beside it. `parent_output` and `plan` are the template variables of a call,
`output` and `success` its `NodeResult`; `pc` says where each node's call of
`execute_node` is (`Place`). `MCKgExecutor` holds
`default_issue_registry`: the tree, what each parent gathers, the types that have a
criterion (`Judged`: all of them) and the phrases the criteria quote. The module takes any registry that is a tree (`TreeAssumption`:
finitely many types, each listed once, all reached from the root), which is what
`register_nodes_recursive` needs to come to an end and to give each node one
entry; TLC evaluates the assumption on the real one. `BreakOff` is an error that leaves all calls through `?`, or a
crash: the disk cannot tell.

*Abstraction.* A text is the set of nodes whose output it contains; every type
occurs once, so a node is its type. Tokens, times, the branch name and the events
are left out. One write is one step.

*Run.* `kg`. `DiskTellsTheTree`: wherever the run broke off, what the directory
says is true: a running node has a running parent, a settled one its output
beside it, a failed parent a failed child and nothing begun after that, a
finished run nothing under way. `FedBySiblings`: every agent begins with the text
of all its earlier siblings, which is not blank if a criterion was applied to it. `IsPipeline`: the run implements `Pipeline`, whose
stages are the leaves, `done` the number of `LeavesIn("Success")`, and whose state
(`StageReached`) is read off the manifest.
`RunEnds` (liveness): with its report, or broken off.

*Fairness.* Weak, for the run's one task: it goes on and its agents' turns end.
No break is owed. *Bounds.* None but the registry, which is the code's.

*What the code does not do.* executor.rs:579 says that impl is given the
analysis's plan; the plan is put into variables that only later siblings of
`synthesize-plan` see, of which there are none, so what impl gathers is empty and its
first child begins without a word of the analysis. `verify-ci` succeeds only if its output contains both
"CI PASS" and "CI FAIL", where registry.rs:531 says or. After a failure the later
siblings are blocked in memory and reach the disk with the parent's state.
`finalize` adds the tokens of every node although a parent's are its children's.

### Supervisor

*Correspondence.* A round of `run_supervisor` is `handle_conductor_cmd` (any
number of commands), `List`, one `Snapshot` per listed worker in the order of the
names, `EndRound` and `Sleep`. `sessions` is the table of `SessionState`s,
`unchanged` and `off` its counters; `detect_all` and the detectors have the names
of detect.rs; `card_map` and `card_file` are the cards in memory and in
`card-map.json`. tmux is `alive` and `pane`; workers move and die between any two
steps. A call of tmux may fail: `list-sessions` (no worker is listed), `has-session`
(the worker is taken for dead), a capture (an empty pane), and, with the error
dropped, `new_session`, `kill` and `send_keys`. So may a write of the cards
(`write_card_map(saves)`), which leaves the old file or none. `Restart` reads the
cards back. The failures overwrite the status one after the other (`StatusOf`).

*Abstraction.* A pane is what the detectors find in it: work on a card, one
command again and again, or a prompt; `moved` says whether it differs from the
last look. `quiet` is history: how long the watched worker's pane has not moved, or
since the supervisor began to count anew: when it looked at the worker for the first
time, killed or rotated it or reset its counters. In a dry run a reset types nothing, so
the next look is counted without an interval before it (`NotCounted`), as after an
error. The entry's `found` is history too: what the last look found, which the code
logs and acts on; it keeps `status` alone. `assigned`, `unsaved` and `lost` are
history of the cards: what the conductor gave out, that the last write failed, that
a restart came upon that. The wording of panes, log lines and typed messages is left
out.

*Run.* `supervisor`. `KnowsItsWorkers`: a round ends with an entry for every
listed worker and for the dead only besides, each judged by the card of the map; the
map holds what was assigned unless a restart read a file whose last write had
failed, and the file holds the map unless its last write failed. `FrozenInTime`: a
worker whose pane could be read is found frozen not before `base_ms` / `max_ms` of
the threshold and, without errors, at the next look once `max_ms` / `base_ms` of the
threshold and an interval have passed. `QuietIsFound` (liveness): no worker is quiet
for good without being found. Deadlock is checked: the loop never stops.

*Fairness.* `[]<><<Poll>>_vars`: the loop takes infinitely many steps. A step of it
is possible in every state (a round has a worker to look at next, or none left), so
this is weak fairness; workers and conductor owe nothing.

*Bounds.* Two workers: one is timed, the other resets the interval. 8 and 12
seconds with a threshold of 20 keep the ratio 3/2 by which the interval grows and
let it grow once; the proof is for any. One event (a command, a death, an error of
tmux or of the disk, `MaxEvents`) and one restart (`MaxRestarts`), each at any step,
so that a restart may come upon a failed write.
Counters stop where no comparison tells them apart (`MaxUnchanged`: as many
looks of the shortest interval as meet the threshold; `MaxDrift`; `MaxQuiet`: past
both ends of `FrozenInTime`).

*What the code does not do.* detect.rs:12 multiplies the number of looks by the
present interval, though bin/supervisor.rs:23 explains the threshold as "Seconds of no
change before declaring frozen". With the defaults (8 s growing to 60 s, threshold
240 s) a quiet round of polls reports a worker frozen after some 160 s, and a change of
another worker, which resets the interval, makes it late. `FrozenInTime` says how far it goes. An
error of `tmux list-sessions` is taken for an empty list and forgets all entries
(poll.rs:52). A worker that dies between two rounds is not listed and forgotten
instead of found dead; only one that dies within a round is. Spawning over a name
that has an entry leaves the old card in force (`respawned`). No code counts
retries, so `InfiniteLoop` is never found. poll.rs:122 says that the most severe
failure becomes the status, but the last one detected does: a frozen worker at a
prompt is Idle, one that strays from its card RabbitHoling, so `FrozenInTime` and
`QuietIsFound` speak of what was found, not of the status. A failed write of the
cards (poll.rs:221, 273) goes unnoticed. A capture that fails twice leaves two equal,
empty panes, which count as silence: a worker nobody could read is taken for frozen
(`Read` excuses it in `FrozenInTime`).

### Policy and ProtectGateway

*Correspondence.* `check_tier`, `check_tool_call`, `merge_tier` and
`merge_sub_policy` are the functions of policy.rs. `ReadOverlay` is the loop of
`main` over the overlays' directory, in any order, where a file may be skipped
with a warning. `client_to_upstream` and `upstream_to_client` are the two loops
of `handle_ws`, which run in one task joined by `select!`; `denial` is the
channel between them, `blocked` a message whose denial waits for room in it.

*Abstraction.* A pattern is the set of values it matches; a value stands for a
tool's name, a command in one of its spellings or an action with a path. The
heuristics that object to a command or path are a Boolean of the call.

*Run.* `protect_gateway`. `EachGoesItsWay`: the upstream has what the client said
and no loaded policy objects to, the denials are for the rest, each message once
and in order, whatever the order in which overlays were read; the policy's word
is `DeniedByAny`, which does not merge. "In order" is `IsSelection`: an increasing
map from what was kept onto the places of what was wanted. `NothingWaits` (liveness): whatever was
said is handed on or answered. Deadlock is not checked: a connection ends.

*Fairness.* Weak for the first loop, strong for relaying: `select!` chooses by
chance among what is ready, so a denial is not passed over for ever.

*Bounds.* Two overlays that contradict the base and each other; messages of up to
two calls; a channel of one denial and three messages, so that a message waits
behind a full channel and another behind it.

*What the code does not do.* No code checks the network tier of a call. `Ask` is
handed on, as there is nobody to ask. Binary messages are not looked into.

### SessionText and SessionWatch

*Correspondence.* `transform` is transform.rs, `emit`, `parse`, `to_wire`,
`init_session` and `from_wire_response` are context.rs, `format_session` is
format.rs. `Stat`, `Read`, `write_output` are the loop of `--watch` in main.rs
for one file: the modification time is taken, then the content, then the result
is written and the time remembered. The writer appends a record in two writes.

*Abstraction.* A record, an event and a line are tuples that begin with their
kind; a text is a sequence of lines, some of which may look like markup.
Timestamps and directories travel unchanged and are left out. The format version
and the token counts do not travel: `parse` gives version 0 and no counts, `to_wire`
drops the counts; a line of counts is written (`UsageLines`) and discarded by `parse`
(`TakeLine`), or, behind `</up>`, taken for content outside a turn. Left out are the
cut of arguments over 120 bytes, which panics inside a character, a result whose own
first line starts with "error: ", which is read back as an error, and the panics of
`parse` at "--- ---" and of `to_wire` at a timestamp under 19 bytes. No two writes
share a modification time.

*Run.* `session_watch`. `UpToDate`: while the command believes itself up to date
it is; `RoundTrip`: what `emit` writes of plain events `parse` gives back, lines of
token counts between them or not; `WireKeepsResults`: the JSONL output, read again,
keeps every result with its call if no two calls name one tool and the texts are
trimmed; `OnlyGrows`: an event keeps its place and
contents and a result stays. All safety, all proved for every instance; deadlock is not checked, since the
command may have nothing to do.

*Bounds.* Records of every kind, two calls in one answer, a result that comes
first, after its call or never, texts with blank lines, with markup and with lines
like those of a result; two
appended records after up to two old ones; each output format with and without
its options; one restart. `MaxToolResultLines` 2 for 20.

*What the code does not do.* context.rs:63 promises a "round trip"; it holds for
plain texts only (`Plain`): the later lines of a result come back as text, blank
lines of a user's text are dropped, adjacent texts merge, a text behind a call that
begins like a result is read as that call's, long results lose their middle,
arguments of unknown tools come back under another name. `to_wire` makes
the id of a call out of the tool's name (context.rs:690), so the results of two
calls of one tool mix. `a.jsonl` and `a.ctx` in one directory write the same
output file, and an output directory that is the watched one is watched too. Two
writes within one tick of the file system's clock are seen as one.

## Proofs

`CoresProofs` is about `version.rs`, which brings a workspace to its layout, and
`cores.rs`, which works in it; the names of the first begin with `Migration` where
both have one. Of the cores it proves, for any number of deltas, any bounds and any number of
restarts and failing writes: `TypeCorrect`, `FreshNeverCompacts`,
`OneCoreIsDeep`, `TiesAreBroken` and `ReadyCoresAreTimed` (together
`ReadyPasses`) and, for a disk that works, `CheckpointIsCurrent` and
`SeedIsDurable` (together `CheckpointIsDurable`). They rest on
`BoundsAssumption` only. `TypeOK` is inductive; the others need `FreshInv` (only
A ever runs), `PairInv` (at most one turn holds `state`, so a tie is seen by the
turn that made it only), `TimerInv` (a Ready core is timed or about to be) and
`DurableInv` (between two checkpoints `state` is held). Each step lemma has one
case per action.

Of the other it proves `MigrationTypeCorrect`, `StackRunsOnV2`,
`HistoryHasOneHome` (together `TheStackFindsItsHistory`) and the refinement
`MigrationKeepsPromise`. Types alone are not inductive: a core may write history
only into a directory that exists, so `StartInv` (a stack is started on a v2
manifest, with both directories) goes with them. `HomeInv` says at which steps
`L4` must be gone.

`CascadeProofs` proves, for any number of layers and messages and any size of the
channel, `TypeCorrect`, `OneTurnPerLayer`, `WatcherSkipsNothing` and
`OnlyNewIsSent` (together `SentWhole`). `PermitInv` (a permit is in the semaphore
or with a turn) makes the types inductive. The two facts about chunks need `WatchInv` (what the
watcher holds starts at its layer's offset and ends within the file) and
`CopyInv` (one copy is the scanner's, another the watcher's); the actions that
only write are one lemma, `OnlyWrites`.

`SubagentsProofs` proves, for any family of agents, callers and iteration limit,
all four properties of its run: `FlagsTellTheStatus` (with the types),
`KilledStaysKilled`, `CallsAccount` and `NoneLiveBelowTheEnded`. The flags are
inductive with the types; the accounts need `CallInv` (what the place of a call says
of its outcome, session, manifest and entry). The last needs `FamilyInv`: a call made
in an agent's tools is uncalled or done unless that agent is still in its tools, and
it found the runtime its caller ran in, so it did not give up with a live entry.

`SupervisorProofs` proves `KnowsItsWorkersAlways`, for any workers, cards,
thresholds, commands, errors and restarts. It needs the workers to be numbers and
goes by an invariant that says within a round what the property says at its end: a
worker that was already looked at has its entry, and that entry agrees with the card
map. That the map is what was assigned and the file what is in the map is inductive
with the history of failed writes.

It also proves `FrozenInTimeHolds`, for every threshold and every two ends of the
interval. The code counts looks and multiplies them by the interval of the moment;
`Timed` relates the count to the time that passed. `NotBefore`: each look that was
counted had an interval of `base_ms` before it, and the one to come has another.
`NotAfter`: without an error no look is left out but the one that finds the worker
new, so the time is at most that many intervals of `max_ms` and one; to be inductive it
needs `Listed` (a worker there is listed), `Emptied` (its pane is not read as empty) and
`NeverLooked`. `Early` and `Late` then do the arithmetic.
`MaxQuiet` caps the timer past both bounds, so that the cap decides nothing.

`ProtectGatewayProofs` proves `MergedWhateverTheOrder` (the policy in force is
the union, tier by tier, of the policies that were loaded), from it
`DeniesTheRefused` (a message is denied exactly when some loaded policy denies
one of its calls or none permits it), and from both `EachWayHolds`, the order
over a whole conversation. Its invariant adds to the property that nothing is
said before the policies are read, so what is due to a message never changes
afterwards, and that a blocked denial belongs behind those in the channel. A step
looks at one message more; `PassOver` and `TakeUp` say what that does to a
selection, which replaces an induction over the conversation.

`EventQueueProofs` proves, for any sessions, answers, budgets and numbers of
messages, calls and tools, `TypesHold`, `AwaitedHolds`, `CallsInHandHolds`,
`ConversationHoldsAlways` and `AnswersLatestHolds` from `QueueAssumption`: all
that the run checks but its two liveness properties. One inductive invariant,
`Inv`, with the types, carries the last four. Its parts and what they are needed for:

- `QueueInv`: a queued end is of a task that is over, and a tool's is queued once
  and not yet written down. Without it a result could land twice, which no
  property of one conversation can exclude: the second copy waits in the queue.
- `UsesInv`, `AnswersInv`: a tool has one use, in its own session; a result is
  behind it, once.
- `OpenInv`: the tools the loop waits for were used by the last answer of their
  session, results never follow results, and an open use is awaited or was parked.
- `PartedInv`: results of one answer lie apart only if a message came in between.
- `ContextInv`: the current call knows every user message of its session, which
  makes an answer that is not `Stale` an answer to the latest.
- `CallsInv`: what is left of the current message's budget and the calls already
  made are together within what the messages pay for.

Taking an event out of the queue and sorting need no induction: `Foremost` is the
least index among the most urgent, and it exists because a set of numbers has a
least element (`LeastNumber`, from the well-foundedness of `Nat`).

`KgExecutorProofs` proves, for every tree, any hooks and any criteria, or none,
`TypesHold`, `DiskTellsAlways`, `FedAlways` and the refinement `RunIsPipeline`,
from `KgAssumption` and `TreeAssumption`. `DiskTellsTheTree` is not inductive: that
a settled node has its output on disk and a failed parent a failed child depends
on where each call is. `LiveInv` says so for a run that is not broken off:
`PlaceInv` (what a call's place says of its manifest entry and files),
`CursorInv` (one call is at work, below calls that wait for it),
`OrderInv` and `SuccessInv` (a child begins when its earlier siblings succeeded;
a parent returns what they did), `TextInv` (what was collected includes what
they wrote), `FailureInv` (after a failure the call at work carries it up) and
`OutcomeInv` (the disk is not behind). A break keeps the disk and is `Broken`
for good. For the refinement, a step that settles a leaf adds it to
`LeavesIn("Success")` and so one to its cardinality; that a successful root means
that every leaf succeeded follows without induction over the tree: the nodes
that are over and successful contain the root and are closed under `Children`, and
`TreeAssumption` says that such a set is all of `Node`.

`SessionsProofs` proves, for any number of turns, sessions, texts and tools and any
limit, `TypesHold`, `UsesPairedHolds`, `AllIsAnsweredHolds` and
`NothingIsLostHolds`, all that the run checks but its liveness, and `HealingPairs`
about the repair itself: whatever the conversation, if no message has uses and
results at once or repeats a use, and none repeats a result in which another is
missing (`Mendable`), its repair has one result for every use right behind it, whether
it was missing or there twice, and keeps every text. `HealMessages` filters and joins with `FlattenSeq`, whose
definition is a recursive function; what it returns is proved once
(`FlattenLays`: where each sequence lies in the result), by an induction stated for a set
of numbers (`Induction`, from `LeastNumber`), which needs no operator as a parameter. The
invariants, each with the one before:

- `Fits`: with the types, what each place of a turn implies (`PlaceFits`): a turn that
  executes has calls left, one that is injecting has texts taken.
- `PairsFit`: a tool use in a session belongs to a turn of it and to an answer that
  turn has had, so a new answer's uses are new everywhere (`Owned`); each use that no turn is still
  to execute has one result, behind it. Requests are paired by `HealingPairs`, whatever the session
  looks like when two turns write to it.
- `AnswersFit`: each text of a session without an answer is one some turn of it still
  owes: it is in that turn's request, or the turn is on its way to one (`Busy`), or
  its pending counter tells, or the turn ended badly.
- `PlacesFit`: `OnePlace`, for texts that were said. A step does one of four things
  with a text (`Moves`): leave it, take it, drop it at the limit, add it.

About `SessionWatch` it proves, for any records, commands, appends and restarts:

- `UpToDateHolds`. `TimeInv`: a time that was remembered or taken is never later than
  the file's, and as long as it is the file's own the content that was read, or
  converted, is the file's. A write after the command took the time moves the file's
  time past it, so the next round reads again.
- `OnlyGrowsHolds`. `FileInv`: the file holds the header and the records written so
  far, perhaps without the last. A record put behind others (`RecordGrows`) changes
  nothing of what they say but the result of a call that had none: had the call a
  result, the new one is not for the same id (`FreshIn`); and a call never takes the
  result of one before it (`Taken` looks back only). `RecordsAssumption` says that a message has a
  sequence of blocks, and a text is one of lines, as `MessageRecord` has them.
- `WireKeepsResultsHolds`. The events of a session are what `AreEvents` says, from
  records (`TransformedAre`) and from any lines (`ParsedAre`: `parse` and `TurnContents`
  are recursive functions; that they exist is shown once, by induction over the lines left to
  read, since every step of `parse` goes forward, `IsStep`). What
  `to_wire` writes is laid out by `Wired`: a record for each event, in their order, and
  behind it the results of its calls. With one call for each name the record of a call finds its own
  result and no other (`OwnResult`), so `transform` gives one event for each
  of the first and none for the others (`Spread`). `ReadInv`: the command reads what the file held,
  and that is records or lines (`FileInv`).
- `RoundTripHolds`. What `emit` writes is laid out event by event, and a turn's lines
  content by content (`FlattenLays`, `Placed`). Line by line, by induction over the lines,
  `TakeLine` has taken exactly the contents whose lines are behind it (`TextRead`,
  `ContentRead`, `TurnRead`): a line of a text begins one or joins the one begun, and
  none is taken for a result, which is what `Apart` demands of two contents in a row. Each event ends
  where its own lines end (`EventRead`): no line inside a turn or a compaction is a
  separator, so the first blank line before one, or the first `</up>`, is the one
  `emit` put there. `parse` then gives the events one by one, from the last to the first
  (`EmitParsed`). `EventsOf` gives lists and events (`ReadEvents`), whatever was read.

The proofs found three errors in the model, not in the code: two arms of a `CASE` were true
at once in `Loop`, in `Healed` and in `RecordEvents`, where TLA+ may take either and
TLC takes the first; a dry-run kill forgot a worker without counting `quiet` anew; and
`RoundTrip` was stated of too many texts, since one that follows a call and begins with
an arrow is read back as its result (context.rs:481), which no record of the run had
shown. The arms are nested `IF`s now, `quiet` counts anew after a dry-run kill, and
`Plain` leaves such a text out, while it lets in blank lines that end a text and
compactions with blank lines, which the proof showed to be safe.

Only model-checked, and why: liveness and fairness, which are out of the prover's
reach. Every safety property of the passing runs is proved.

## Not modelled

- `Injections`: `Cascade` counts what is written. The reader,
  `read_and_clear_injections`, is called by the tests alone, so nothing
  interleaves with it in the program.
- `agenticlaw-kg/src/persistent.rs`: nodes that outlive a run; no caller runs one.
- Text as such: the wording of prompts, panes, seeds and events, the text of
  patterns and of commands, `.ctx` files of a running session beyond their order.
- LLM stream parsing and the tools: one task each, sequential; what a call or a
  tool may end in is part of `EventQueue` and `AgentTurns`.
- Operator builder, tester and mocks, ego distillation, configuration, TUI, CLI,
  authentication, service files, `terraform/` and the souls: nothing in them is
  concurrent or kept between two steps.
- Of the components above: capacities that only delay a sender, events that are
  broadcast to subscribers, calls that only read.

## Plan

Done: every component of the inventory that keeps state between steps, with an
abstract specification for the workspace and for a run of the executor, and
proofs for every module that has a run.

Next, in this order:

1. A refinement of `DualCore` to an abstract pair of phases, and its proof.
2. `Injections`, when something reads them.
