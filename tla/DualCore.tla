------------------------------ MODULE DualCore ------------------------------
(***************************************************************************)
(* The two "cores" at the bottom of the consciousness stack                *)
(* (crates/agenticlaw-consciousness/src/cores.rs).                         *)
(*                                                                         *)
(* Every change of L3's context file starts a task that runs               *)
(* process_l3_delta: it first reverts a core that has been Ready for too   *)
(* long, then offers the delta to core A and to core B.  A core that takes *)
(* it runs an LLM turn in a task of its own (one per core, a semaphore     *)
(* guards it) and, when the reply is there, takes the state mutex for the  *)
(* rest of the task: it counts the reply, and, when the core is full,      *)
(* hands a seed over and empties the core.  Two mutexes are shared by all  *)
(* of these tasks: `state' (here: phase, tokens, samples, skip, last) and  *)
(* `ready_since' (here: ready).  core-state.json (here: saved) and the     *)
(* seed.txt files survive a restart, nothing else does.                    *)
(*                                                                         *)
(* A critical section in which the task neither waits nor writes a file is *)
(* one action: nobody can look into it.  Where it waits for the other      *)
(* mutex, or between two file writes, it is cut, so that the other tasks   *)
(* and a crash get in.                                                     *)
(***************************************************************************)
EXTENDS Naturals

CONSTANTS
  Delta,          \* the process_l3_delta tasks that may run at once
  HalfBudget,     \* budget_tokens / 2, where a core becomes Ready
  ReplyTokens,    \* the estimates of the non-empty replies of an LLM turn
  SeedTokens,     \* the estimates of the seeds
  MaxTokens,      \* bound: estimated_tokens saturates here
  MaxSamples,     \* bound: samples saturates here
  OperatorSeeds,  \* bound: how often somebody else leaves a seed.txt
  MaxRestarts,    \* bound: how often the process is killed and restarted
  DiskMayFail     \* may a write or a removal of a file fail?

ASSUME BoundsAssumption ==
  /\ HalfBudget \in Nat \ {0}
  /\ MaxTokens \in Nat /\ HalfBudget <= MaxTokens
  /\ MaxSamples \in Nat
  /\ ReplyTokens \subseteq Nat
  /\ SeedTokens \subseteq 0 .. MaxTokens
  /\ OperatorSeeds \in Nat
  /\ MaxRestarts \in Nat
  /\ DiskMayFail \in BOOLEAN

Core == {"A", "B"}
Other(c) == IF c = "A" THEN "B" ELSE "A"

Phase == {"Growing", "Ready", "Compacting", "Infant", "Seeded"}

VARIABLES
  phase, tokens, samples,   \* SingleCoreState of each core ...
  skip,                     \* ... and the parity of its skip_counter
  last,                     \* last_compaction_core
  ready,                    \* ready_since: not set, set, set over 30s ago
  turn,                     \* the task holding the core's semaphore permit
  route, at,                \* each process_l3_delta: its step, its core
  seed,                     \* the cores whose directory has a seed.txt
  saved,                    \* core-state.json
  given, restarts           \* counters behind the two bounds

state == <<phase, tokens, samples, skip, last>>
vars == <<phase, tokens, samples, skip, last, ready, turn, route, at,
          seed, saved, given, restarts>>

-----------------------------------------------------------------------------

Capped(n, bound) == IF n <= bound THEN n ELSE bound

Memory == [phase |-> phase, tokens |-> tokens, samples |-> samples,
           skip |-> skip, last |-> last]

(* checkpoint_state: write a temporary file, rename it over core-state.json. *)
(* A failure is logged and forgotten.                                        *)
TmpFileOnly == UNCHANGED saved                                     \* mutant
Checkpoint == \/ saved' = Memory'
              \/ DiskMayFail /\ UNCHANGED saved

(* The mutexes.  `state' is held across steps only by a turn that has its    *)
(* reply, `ready_since' only by a delta that waits for `state'.              *)
HoldsState(c) == turn[c] \notin {"idle", "running"}
StateFree == \A c \in Core : ~HoldsState(c)
ReadyFree == \A t \in Delta : route[t] # "checking"

(* CoreState::new, which the version controller has also written to disk.    *)
FreshPhase == [c \in Core |-> IF c = "A" THEN "Growing" ELSE "Infant"]
Zero == [c \in Core |-> 0]

Init ==
  /\ phase = FreshPhase
  /\ tokens = Zero /\ samples = Zero /\ skip = Zero
  /\ last = "none"
  /\ ready = [c \in Core |-> "unset"]
  /\ turn = [c \in Core |-> "idle"]
  /\ route = [t \in Delta |-> "idle"]
  /\ at = [t \in Delta |-> "A"]
  /\ seed = {}
  /\ saved = Memory
  /\ given = 0 /\ restarts = 0

-----------------------------------------------------------------------------
(* process_l3_delta, one instance per change of L3.                          *)

Arrive(t) ==
  /\ route[t] = "idle"
  /\ route' = [route EXCEPT ![t] = "arrived"]
  /\ UNCHANGED <<state, ready, turn, at, seed, saved, given, restarts>>

LockReady(t) ==
  /\ route[t] = "arrived"
  /\ ReadyFree
  /\ route' = [route EXCEPT ![t] = "checking"]
  /\ UNCHANGED <<state, ready, turn, at, seed, saved, given, restarts>>

TimedOut(c) == ready[c] = "expired" /\ phase[c] = "Ready"

(* check_ready_timeout, once it also has the state mutex.                    *)
CheckTimeout(t) ==
  /\ route[t] = "checking"
  /\ StateFree
  /\ phase' = [c \in Core |-> IF TimedOut(c) THEN "Growing" ELSE phase[c]]
  /\ ready' = [c \in Core |-> IF TimedOut(c) THEN "unset" ELSE ready[c]]
  /\ UNCHANGED <<tokens, samples, skip, last>>
  /\ IF \E c \in Core : TimedOut(c) THEN Checkpoint ELSE UNCHANGED saved
  /\ route' = [route EXCEPT ![t] = "phase"]
  /\ UNCHANGED <<turn, at, seed, given, restarts>>

(* `continue' in the loop over the two cores, and its end.                   *)
NextCore(t) ==
  IF at[t] = "A"
    THEN /\ at' = [at EXCEPT ![t] = "B"]
         /\ route' = [route EXCEPT ![t] = "phase"]
    ELSE /\ at' = [at EXCEPT ![t] = "A"]
         /\ route' = [route EXCEPT ![t] = "idle"]

CheckPhase(t) ==
  /\ route[t] = "phase"
  /\ StateFree
  /\ IF phase[at[t]] \in {"Growing", "Seeded"}
       THEN route' = [route EXCEPT ![t] = "sample"] /\ UNCHANGED at
       ELSE NextCore(t)
  /\ UNCHANGED <<state, ready, turn, seed, saved, given, restarts>>

Small(c) == tokens[c] < tokens[Other(c)]

CountSkips(c) == [skip EXCEPT ![c] = @ + 1]                        \* mutant
FlipSkip(c) == [skip EXCEPT ![c] = 1 - @]

(* The smaller core takes every other delta.                                 *)
Sample(t) ==
  /\ route[t] = "sample"
  /\ StateFree
  /\ skip' = IF Small(at[t]) THEN FlipSkip(at[t]) ELSE skip
  /\ IF Small(at[t]) /\ skip[at[t]] = 0
       THEN NextCore(t)
       ELSE route' = [route EXCEPT ![t] = "spawn"] /\ UNCHANGED at
  /\ UNCHANGED <<phase, tokens, samples, last, ready, turn, seed, saved,
                 given, restarts>>

(* try_acquire_owned: the delta is dropped when a turn of the core is        *)
(* already running.                                                          *)
Spawn(t) ==
  /\ route[t] = "spawn"
  /\ turn' = [turn EXCEPT ![at[t]] = IF @ = "idle" THEN "running" ELSE @]
  /\ NextCore(t)
  /\ UNCHANGED <<state, ready, seed, saved, given, restarts>>

-----------------------------------------------------------------------------
(* The task of a turn.                                                       *)

(* run_core_turn failed or gave nothing.                                     *)
EmptyReply(c) ==
  /\ turn[c] = "running"
  /\ turn' = [turn EXCEPT ![c] = "idle"]
  /\ UNCHANGED <<state, ready, route, at, seed, saved, given, restarts>>

(* The reply is there and the task takes the state mutex, to keep it.  The   *)
(* phase is whatever the other tasks have made of it since the delta was     *)
(* routed.                                                                   *)
Reply(c, n) ==
  LET grown == Capped(tokens[c] + n, MaxTokens)
      full  == grown >= HalfBudget /\ phase[c] \in {"Growing", "Seeded"}
  IN  /\ turn[c] = "running"
      /\ StateFree
      /\ tokens' = [tokens EXCEPT ![c] = grown]
      /\ samples' = [samples EXCEPT ![c] = Capped(@ + 1, MaxSamples)]
      /\ phase' = [phase EXCEPT ![c] = IF full THEN "Ready"
                                       ELSE IF @ = "Seeded" THEN "Growing"
                                       ELSE @]
      /\ turn' = [turn EXCEPT ![c] = IF full THEN "marking" ELSE "deciding"]
      /\ UNCHANGED <<skip, last, ready, route, at, seed, saved, given,
                     restarts>>

(* Mutant: the timer of the core is not started.                             *)
NoTimer(c) ==
  /\ turn[c] = "marking"
  /\ ReadyFree
  /\ turn' = [turn EXCEPT ![c] = "deciding"]
  /\ UNCHANGED <<state, ready, route, at, seed, saved, given, restarts>>

(* ready_since.lock() while the state mutex is held.                         *)
MarkReady(c) ==
  /\ turn[c] = "marking"
  /\ ReadyFree
  /\ ready' = [ready EXCEPT ![c] = "set"]
  /\ turn' = [turn EXCEPT ![c] = "deciding"]
  /\ UNCHANGED <<state, route, at, seed, saved, given, restarts>>

BothReady == \A c \in Core : phase[c] = "Ready"
ApprovedByAnyPeer(c) == phase[c] = "Ready"                         \* mutant
Approved(c) == phase[c] = "Ready" /\ phase[Other(c)] = "Growing"

(* The compaction handshake: a Growing peer approves.                        *)
Approve(c) ==
  /\ turn[c] = "deciding"
  /\ Approved(c)
  /\ phase' = [phase EXCEPT ![c] = "Compacting"]
  /\ turn' = [turn EXCEPT ![c] = "seeding"]
  /\ UNCHANGED <<tokens, samples, skip, last>>
  /\ Checkpoint
  /\ UNCHANGED <<ready, route, at, seed, given, restarts>>

(* The tie-breaker: the core with fewer samples compacts, A on a draw, and   *)
(* the other one goes on growing.  No checkpoint is written here.            *)
TieBreak(c) ==
  /\ turn[c] = "deciding"
  /\ BothReady
  /\ LET k == IF samples["A"] <= samples["B"] THEN "A" ELSE "B"
     IN  phase' = [phase EXCEPT ![k] = "Compacting", ![Other(k)] = "Growing"]
  /\ turn' = [turn EXCEPT ![c] = "seeding"]
  /\ UNCHANGED <<tokens, samples, skip, last, ready, route, at, seed, saved,
                 given, restarts>>

(* Mutant: no tie-breaker.                                                   *)
TieStays(c) ==
  /\ turn[c] = "deciding"
  /\ ~Approved(c)
  /\ turn' = [turn EXCEPT ![c] = "settling"]
  /\ UNCHANGED <<state, ready, route, at, seed, saved, given, restarts>>

NoCompaction(c) ==
  /\ turn[c] = "deciding"
  /\ ~Approved(c) /\ ~BothReady
  /\ turn' = [turn EXCEPT ![c] = "settling"]
  /\ UNCHANGED <<state, ready, route, at, seed, saved, given, restarts>>

OwnDirectory(k) == k                                               \* mutant
SeedDirectory(k) == Other(k)

(* The seed goes into the directory of the peer (an error is ignored), the   *)
(* compacted core k is emptied.                                              *)
WriteSeed(c) ==
  /\ turn[c] = "seeding"
  /\ \E k \in Core :
       /\ phase[k] = "Compacting"
       /\ \/ seed' = seed \cup {SeedDirectory(k)}
          \/ DiskMayFail /\ UNCHANGED seed
       /\ phase' = [phase EXCEPT ![k] = "Infant"]
       /\ tokens' = [tokens EXCEPT ![k] = 0]
       /\ samples' = [samples EXCEPT ![k] = 0]
       /\ skip' = [skip EXCEPT ![k] = 0]
       /\ last' = k
  /\ turn' = [turn EXCEPT ![c] = "settling"]
  /\ UNCHANGED <<ready, route, at, saved, given, restarts>>

(* The checkpoint every turn with a reply writes.  (The injection into L0    *)
(* that follows writes no state of the cores.)                               *)
Settle(c) ==
  /\ turn[c] = "settling"
  /\ turn' = [turn EXCEPT ![c] = "absorbing"]
  /\ UNCHANGED state
  /\ Checkpoint
  /\ UNCHANGED <<ready, route, at, seed, given, restarts>>

CanAbsorb(k) == phase[k] = "Infant" /\ k \in seed

(* An Infant core absorbs the seed in its directory: the file is removed     *)
(* first, the checkpoint is written after that.                              *)
Absorb(c) ==
  /\ turn[c] = "absorbing"
  /\ \E k \in Core, n \in SeedTokens :
       /\ CanAbsorb(k)
       /\ phase' = [phase EXCEPT ![k] = "Seeded"]
       /\ tokens' = [tokens EXCEPT ![k] = n]
       /\ \/ seed' = seed \ {k}
          \/ DiskMayFail /\ UNCHANGED seed
  /\ turn' = [turn EXCEPT ![c] = "absorbed"]
  /\ UNCHANGED <<samples, skip, last, ready, route, at, saved, given,
                 restarts>>

SaveAbsorbed(c) ==
  /\ turn[c] = "absorbed"
  /\ turn' = [turn EXCEPT ![c] = "absorbing"]
  /\ UNCHANGED state
  /\ Checkpoint
  /\ UNCHANGED <<ready, route, at, seed, given, restarts>>

(* The end of the task: mutex and permit are released.                       *)
Release(c) ==
  /\ turn[c] = "absorbing"
  /\ \A k \in Core : ~CanAbsorb(k)
  /\ turn' = [turn EXCEPT ![c] = "idle"]
  /\ UNCHANGED <<state, ready, route, at, seed, saved, given, restarts>>

-----------------------------------------------------------------------------
(* What happens around the program.                                          *)

(* since.elapsed() > 30s from now on.                                        *)
Expire(c) ==
  /\ ready[c] = "set"
  /\ ready' = [ready EXCEPT ![c] = "expired"]
  /\ UNCHANGED <<state, turn, route, at, seed, saved, given, restarts>>

(* Somebody leaves a seed.txt in a core's directory: the code takes any file *)
(* of that name, whoever wrote it.                                           *)
ProvideSeed(c) ==
  /\ given < OperatorSeeds
  /\ c \notin seed
  /\ seed' = seed \cup {c}
  /\ given' = given + 1
  /\ UNCHANGED <<state, ready, turn, route, at, saved, restarts>>

(* The process is killed, at any point, and started again: DualCore::new     *)
(* hydrates the state from core-state.json; everything else starts empty.    *)
Restart ==
  /\ restarts < MaxRestarts
  /\ restarts' = restarts + 1
  /\ phase' = saved.phase /\ tokens' = saved.tokens
  /\ samples' = saved.samples /\ skip' = saved.skip /\ last' = saved.last
  /\ ready' = [c \in Core |-> "unset"]
  /\ turn' = [c \in Core |-> "idle"]
  /\ route' = [t \in Delta |-> "idle"]
  /\ at' = [t \in Delta |-> "A"]
  /\ UNCHANGED <<seed, saved, given>>

-----------------------------------------------------------------------------

DeltaStep(t) ==
  \/ Arrive(t) \/ LockReady(t) \/ CheckTimeout(t)
  \/ CheckPhase(t) \/ Sample(t) \/ Spawn(t)

TurnStep(c) ==
  \/ EmptyReply(c)
  \/ \E n \in ReplyTokens : Reply(c, n)
  \/ MarkReady(c)
  \/ Approve(c) \/ TieBreak(c) \/ NoCompaction(c)
  \/ WriteSeed(c) \/ Settle(c)
  \/ Absorb(c) \/ SaveAbsorbed(c) \/ Release(c)

Next ==
  \/ \E t \in Delta : DeltaStep(t)
  \/ \E c \in Core : TurnStep(c) \/ Expire(c) \/ ProvideSeed(c)
  \/ Restart

Spec == Init /\ [][Next]_vars

(* Tasks are scheduled, replies come and 30 seconds pass; L3 keeps changing. *)
(* The mutexes are tokio's, which are handed out in order of arrival, so a   *)
(* task that waits for one gets it if it is free again and again: strong     *)
(* fairness for the steps that take a mutex, and a model that is asked again *)
(* and again gives a reply.  Nothing makes a seed appear or the process      *)
(* restart.                                                                  *)
Fairness ==
  /\ \A t \in Delta :
       /\ WF_vars(Arrive(t)) /\ WF_vars(Spawn(t))
       /\ SF_vars(LockReady(t)) /\ SF_vars(CheckTimeout(t))
       /\ SF_vars(CheckPhase(t)) /\ SF_vars(Sample(t))
  /\ \A c \in Core :
       /\ SF_vars(\E n \in ReplyTokens : Reply(c, n))
       /\ SF_vars(MarkReady(c))
       /\ WF_vars(TurnStep(c)) /\ WF_vars(Expire(c))

FairSpec == Spec /\ Fairness

-----------------------------------------------------------------------------
(* Properties.                                                               *)

(* Every variable, and core-state.json, holds a value of its type.           *)
TypeOK ==
  /\ phase \in [Core -> Phase]
  /\ tokens \in [Core -> 0 .. MaxTokens]
  /\ samples \in [Core -> 0 .. MaxSamples]
  /\ skip \in [Core -> {0, 1}]
  /\ last \in Core \cup {"none"}
  /\ ready \in [Core -> {"unset", "set", "expired"}]
  /\ turn \in [Core -> {"idle", "running", "marking", "deciding", "seeding",
                        "settling", "absorbing", "absorbed"}]
  /\ route \in [Delta -> {"idle", "arrived", "checking", "phase", "sample",
                          "spawn"}]
  /\ at \in [Delta -> Core]
  /\ seed \subseteq Core
  /\ saved \in [phase : [Core -> Phase], tokens : [Core -> 0 .. MaxTokens],
                samples : [Core -> 0 .. MaxSamples],
                skip : [Core -> {0, 1}], last : Core \cup {"none"}]
  /\ given \in 0 .. OperatorSeeds
  /\ restarts \in 0 .. MaxRestarts

(* The module comment's "one core has deep context while the other           *)
(* recovers" (cores.rs:4): the two cores are never both empty or being       *)
(* emptied, neither in memory nor in the checkpoint, whatever the order of   *)
(* replies, timeouts, crashes and failed writes.                             *)
Deep(p) == \E c \in Core : p[c] \notin {"Compacting", "Infant"}
DeepContext == Deep(phase) /\ Deep(saved.phase)

(* Two Ready cores wait for each other's approval; the tie-breaker           *)
(* (cores.rs:339) ends that in the critical section where it arises, so no   *)
(* other task and no checkpoint ever sees it.                                *)
NeverBothReady ==
  /\ StateFree => ~BothReady
  /\ \E c \in Core : saved.phase[c] # "Ready"

(* A core that another task can see Ready has its timer running, or          *)
(* check_ready_timeout would never let it go; Compacting is visible to       *)
(* nobody but the task that compacts.  (In a process that was never          *)
(* restarted.)                                                               *)
ReadyIsTimed ==
  restarts = 0 /\ StateFree =>
    \A c \in Core : /\ phase[c] = "Ready" => ready[c] # "unset"
                    /\ phase[c] # "Compacting"

(* A Ready core is seen to get on: it does not wait for the other one to     *)
(* become Ready too, and its time is running out (cores.rs:291-356).         *)
ReadyPassesOn == NeverBothReady /\ ReadyIsTimed

(* Whenever the state mutex is free, core-state.json has caught up with the  *)
(* memory (all but the skip counters), so a crash at such a moment loses no  *)
(* phase, count or compaction.                                               *)
CheckpointCurrent ==
  StateFree => /\ saved.phase = phase /\ saved.tokens = tokens
               /\ saved.samples = samples /\ saved.last = last

(* The checkpoint says that a core was emptied only when the seed it handed  *)
(* over is on disk: a crash between the two writes does not lose both the    *)
(* core's context and its seed.                                              *)
SeedBeforeInfant ==
  \A c \in Core : saved.last = c /\ saved.phase[c] = "Infant" =>
                    Other(c) \in seed

(* What a crash finds on disk: the checkpoint of the present state, and the  *)
(* seed of a core the checkpoint calls emptied (cores.rs:299-417, 456-472).  *)
DurableCheckpoint == CheckpointCurrent /\ SeedBeforeInfant

(* check_ready_timeout holds ready_since and waits for state while a turn    *)
(* holds state and waits for ready_since: neither ever goes on.              *)
LockCycle == /\ \E t \in Delta : route[t] = "checking"
             /\ \E c \in Core : turn[c] = "marking"

(* The lock cycle is the only thing that keeps a core Ready for good in a    *)
(* process that is not restarted: it compacts or goes back to Growing.       *)
ReadyEnds ==
  \/ <>LockCycle \/ <>(restarts > 0)
  \/ \A c \in Core : phase[c] = "Ready" ~> phase[c] # "Ready"

-----------------------------------------------------------------------------
(* Inductive invariants behind the properties.                               *)

(* At most one task holds `state'; a tie is only seen by the turn that made  *)
(* it.                                                                       *)
PairInv ==
  /\ \A c \in Core : HoldsState(c) => ~HoldsState(Other(c))
  /\ DeepContext
  /\ BothReady => \E c \in Core : turn[c] \in {"marking", "deciding"}
  /\ \E c \in Core : saved.phase[c] # "Ready"

(* Before the first restart, a Ready core is timed or about to be, and a     *)
(* Compacting one about to be emptied.                                       *)
TimerInv ==
  restarts = 0 =>
    \A c \in Core :
      /\ phase[c] = "Ready" => ready[c] # "unset" \/ turn[c] = "marking"
      /\ phase[c] = "Compacting" => \E k \in Core : turn[k] = "seeding"

(* With a disk that works, the checkpoint is current whenever `state' is     *)
(* free or about to be released, and no emptied core is without its seed, in *)
(* memory as on disk.                                                        *)
Current == /\ saved.phase = phase /\ saved.tokens = tokens
           /\ saved.samples = samples /\ saved.last = last
DurableInv ==
  /\ StateFree \/ (\E c \in Core : turn[c] = "absorbing") => Current
  /\ SeedBeforeInfant
  /\ \A c \in Core : last = c /\ phase[c] = "Infant" => Other(c) \in seed

(* With no seed from outside: only core A ever runs.                         *)
FreshInv ==
  given = 0 =>
    /\ last = "none" /\ saved.last = "none"
    /\ seed = {}
    /\ phase["B"] = "Infant" /\ saved.phase["B"] = "Infant"
    /\ turn["B"] = "idle" /\ turn["A"] # "seeding"
    /\ \A t \in Delta : route[t] \in {"sample", "spawn"} => at[t] = "A"
    /\ phase["A"] # "Compacting" /\ saved.phase["A"] # "Compacting"

-----------------------------------------------------------------------------
(* What the repository says of the cores, and the code does not do.          *)

(* tests/consciousness_tests.rs:47, "one core is always accumulating while   *)
(* the other waits": again and again there is a core that takes deltas.      *)
Accumulating == []<>(\E c \in Core : phase[c] \in {"Growing", "Seeded"})

(* "Two cores (A and B) alternate between growing and compacting"            *)
(* (cores.rs:3): unless the two mutexes deadlock, each core grows and        *)
(* compacts again and again.                                                 *)
Alternating ==
  <>LockCycle \/ \A c \in Core : /\ []<>(phase[c] = "Growing")
                              /\ []<>(phase[c] = "Compacting")

(* Why they do not, left to themselves: a compaction needs a Growing peer, B *)
(* is an Infant until it finds a seed, and the only seed the program writes  *)
(* is written by a compaction.                                               *)
NeverCompacts ==
  given = 0 => /\ last = "none" /\ seed = {}
               /\ phase["B"] = "Infant"

=============================================================================
