----------------------------- MODULE CoresProofs -----------------------------
(* Proofs about the two cores: VersionMigration brings their workspace to    *)
(* its layout, for every set of episodes and every number of rollbacks,      *)
(* crashes and failures, and DualCore works in it, for every number of       *)
(* deltas and every bound.                                                   *)
EXTENDS VersionMigration, DualCore, TLAPS

USE MigrationAssumption

-----------------------------------------------------------------------------
(* VersionMigration.                                                         *)

LEMMA InitInv == MigrationInit => MigrationTypeOK /\ StartInv /\ HomeInv
<1> SUFFICES ASSUME MigrationInit
             PROVE  MigrationTypeOK /\ StartInv /\ HomeInv
  OBVIOUS
<1>1. 0 \in 0 .. MaxRollbacks /\ 0 \in 0 .. MaxCrashes
  OBVIOUS
<1>2. MigrationTypeOK
  BY <1>1 DEF MigrationInit, MigrationTypeOK, Dir
<1>3. StartInv /\ HomeInv
  BY DEF MigrationInit, StartInv, RunsOnV2, HomeInv
<1> QED
  BY <1>2, <1>3

(* A core that lives has a directory, so that types and the layout go        *)
(* together.                                                                 *)
LEMMA StepType ==
  ASSUME MigrationTypeOK, StartInv, [MigrationNext]_migration
  PROVE  MigrationTypeOK'
<1> USE DEF MigrationTypeOK, Dir, files, bounds, Goto
<1>1. CASE ensure_version
  BY <1>1 DEF ensure_version, Detected
<1>2. CASE Mark \/ WriteCoreState \/ Finish \/ RemoveCoreState \/ FinishRollback
  BY <1>2 DEF Mark, WriteCoreState, Finish, RemoveCoreState, FinishRollback
<1>3. CASE MigrateCoreA
  BY <1>3 DEF MigrateCoreA, ProvideCoreA, Rename, Create
<1>4. CASE CreateCoreA \/ CreateCoreB \/ Start
  BY <1>4 DEF CreateCoreA, CreateCoreB, Start, PrepareCores, Create
<1>5. CASE RenameBack
  BY <1>5 DEF RenameBack, Rename
<1>6. CASE RemoveCoreB
  BY <1>6 DEF RemoveCoreB, Removed
<1>7. ASSUME NEW c \in {"core-a", "core-b"}, NEW e \in Episode, Live(c, e)
      PROVE  MigrationTypeOK'
  <2>1. c \in exists
    BY <1>7 DEF Live, StartInv, RunsOnV2
  <2> QED
    BY <1>7, <2>1 DEF Live
<1>8. CASE Stop
  BY <1>8 DEF Stop
<1>9. CASE AskForRollback
  BY <1>9 DEF AskForRollback
<1>10. CASE Crash
  BY <1>10 DEF Crash
<1>11. CASE UNCHANGED migration
  BY <1>11 DEF migration
<1> QED
  BY <1>1, <1>2, <1>3, <1>4, <1>5, <1>6, <1>7, <1>8, <1>9, <1>10, <1>11
     DEF MigrationNext, Step

LEMMA StepStart ==
  ASSUME MigrationTypeOK, StartInv, [MigrationNext]_migration
  PROVE  StartInv'
<1> USE DEF MigrationTypeOK, StartInv, RunsOnV2, files, bounds, Goto
<1>1. CASE ensure_version
  BY <1>1 DEF ensure_version, Detected
<1>2. CASE Mark \/ WriteCoreState \/ Finish \/ RemoveCoreState \/ FinishRollback
  BY <1>2 DEF Mark, WriteCoreState, Finish, RemoveCoreState, FinishRollback
<1>3. CASE MigrateCoreA
  BY <1>3 DEF MigrateCoreA
<1>4. CASE CreateCoreA \/ CreateCoreB
  BY <1>4 DEF CreateCoreA, CreateCoreB
<1>5. CASE Start
  BY <1>5 DEF Start, PrepareCores, Create
<1>6. CASE RenameBack \/ RemoveCoreB
  BY <1>6 DEF RenameBack, RemoveCoreB
<1>7. ASSUME NEW c \in {"core-a", "core-b"}, NEW e \in Episode, Live(c, e)
      PROVE  StartInv'
  BY <1>7 DEF Live
<1>8. CASE Stop \/ AskForRollback \/ Crash
  BY <1>8 DEF Stop, AskForRollback, Crash
<1>9. CASE UNCHANGED migration
  BY <1>9 DEF migration
<1> QED
  BY <1>1, <1>2, <1>3, <1>4, <1>5, <1>6, <1>7, <1>8, <1>9
     DEF MigrationNext, Step

(* Types and layout, for any crashes and rollbacks.                          *)
THEOREM MigrationTypeCorrect ==
  MigrationSpec => [](MigrationTypeOK /\ StartInv)
<1>1. MigrationInit => MigrationTypeOK /\ StartInv
  BY InitInv
<1>2. MigrationTypeOK /\ StartInv /\ [MigrationNext]_migration
        => (MigrationTypeOK /\ StartInv)'
  BY StepType, StepStart
<1> QED
  BY <1>1, <1>2, PTL DEF MigrationSpec

(* However a launch was cut short, a stack only runs on a version 2          *)
(* manifest with both directories in place.                                  *)
THEOREM StackRunsOnV2 == MigrationSpec => []RunsOnV2
<1>1. StartInv => RunsOnV2
  BY DEF StartInv
<1> QED
  BY <1>1, MigrationTypeCorrect, PTL

-----------------------------------------------------------------------------
(* The home of the history.                                                  *)

LEMMA StepHome ==
  ASSUME MigrationTypeOK, StartInv, HomeInv, [MigrationNext]_migration
  PROVE  HomeInv'
<1> SUFFICES ASSUME ~interrupted'
             PROVE  HomeInv'
  BY DEF HomeInv
<1> USE DEF MigrationTypeOK, StartInv, HomeInv, files, bounds, Goto
<1>1. CASE ensure_version
  BY <1>1 DEF ensure_version, Detected
<1>2. CASE Mark \/ WriteCoreState \/ Finish
  BY <1>2 DEF Mark, WriteCoreState, Finish
<1>3. CASE MigrateCoreA
  BY <1>3 DEF MigrateCoreA, ProvideCoreA, Rename, Create
<1>4. CASE CreateCoreA \/ CreateCoreB \/ Start
  BY <1>4 DEF CreateCoreA, CreateCoreB, Start, PrepareCores, Create
<1>5. CASE RenameBack
  BY <1>5 DEF RenameBack, Rename
<1>6. CASE RemoveCoreB
  BY <1>6 DEF RemoveCoreB, Removed
<1>7. CASE RemoveCoreState \/ FinishRollback
  BY <1>7 DEF RemoveCoreState, FinishRollback
<1>8. ASSUME NEW c \in {"core-a", "core-b"}, NEW e \in Episode, Live(c, e)
      PROVE  HomeInv'
  BY <1>8 DEF Live
<1>9. CASE Stop \/ AskForRollback
  BY <1>9 DEF Stop, AskForRollback
<1>10. CASE Crash
  BY <1>10 DEF Crash
<1>11. CASE UNCHANGED migration
  BY <1>11 DEF migration
<1> QED
  BY <1>1, <1>2, <1>3, <1>4, <1>5, <1>6, <1>7, <1>8, <1>9, <1>10, <1>11
     DEF MigrationNext, Step

(* Whatever crashed on the way, the history is in one directory, and in      *)
(* core-a when a stack runs -- unless a rollback was cut short.              *)
THEOREM HistoryHasOneHome == MigrationSpec => []OneHome
<1>1. MigrationInit => HomeInv
  BY InitInv
<1>2. MigrationTypeOK /\ StartInv /\ HomeInv /\ [MigrationNext]_migration
        => HomeInv'
  BY StepHome
<1>3. HomeInv => OneHome
  BY DEF HomeInv, OneHome
<1> QED
  BY <1>1, <1>2, <1>3, MigrationTypeCorrect, PTL DEF MigrationSpec

(* However a launch was cut short, the next stack runs at version 2 and      *)
(* finds the history where it looks for it.                                  *)
THEOREM TheStackFindsItsHistory == MigrationSpec => []HistoryIsFound
BY MigrationTypeCorrect, HistoryHasOneHome, StackRunsOnV2, PTL DEF HistoryIsFound

-----------------------------------------------------------------------------
(* The promise of WorkspaceLife.                                             *)

LEMMA StepPromise ==
  ASSUME MigrationTypeOK, StartInv, [MigrationNext]_migration
  PROVE  [Life!Next]_<<IF manifest = "v2" THEN 2 ELSE 1,
                       history["L4"] \cup history["core-a"]>>
<1> DEFINE version == IF manifest = "v2" THEN 2 ELSE 1
           memory == history["L4"] \cup history["core-a"]
<1> SUFFICES \/ version' = version /\ memory' = memory
             \/ Life!Upgrade \/ Life!Rollback
             \/ \E e \in Episode : Life!Live(e)
  BY DEF Life!Next
<1> USE DEF MigrationTypeOK, Dir, files, bounds, Goto
<1>1. CASE \/ ensure_version \/ WriteCoreState \/ RemoveCoreState \/ Stop
           \/ AskForRollback \/ Crash \/ UNCHANGED migration
  BY <1>1 DEF ensure_version, WriteCoreState, RemoveCoreState, Stop,
              AskForRollback, Crash, migration
<1>2. CASE Mark
  BY <1>2 DEF Mark, Life!Rollback
<1>3. CASE MigrateCoreA
  BY <1>3 DEF MigrateCoreA, ProvideCoreA, Rename, Create
<1>4. CASE CreateCoreA \/ CreateCoreB \/ Start
  BY <1>4 DEF CreateCoreA, CreateCoreB, Start, PrepareCores, Create
<1>5. CASE RenameBack
  BY <1>5 DEF RenameBack, Rename
<1>6. CASE RemoveCoreB
  BY <1>6 DEF RemoveCoreB, Removed
<1>7. CASE Finish
  BY <1>7 DEF Finish, Life!Upgrade
<1>8. CASE FinishRollback
  BY <1>8 DEF FinishRollback, StartInv, Life!Rollback
<1>9. ASSUME NEW c \in {"core-a", "core-b"}, NEW e \in Episode, Live(c, e)
      PROVE  Life!Live(e) \/ (version' = version /\ memory' = memory)
  <2>1. version = 2 /\ version' = version
    BY <1>9 DEF Live, StartInv, RunsOnV2
  <2>2. CASE c = "core-a"
    BY <1>9, <2>1, <2>2 DEF Live, Life!Live
  <2>3. CASE c = "core-b"
    BY <1>9, <2>1, <2>3 DEF Live
  <2> QED
    BY <2>2, <2>3
<1> QED
  BY <1>1, <1>2, <1>3, <1>4, <1>5, <1>6, <1>7, <1>8, <1>9
     DEF MigrationNext, Step

(* The migration and the rollback implement WorkspaceLife: no crash, failure *)
(* or resumption loses what core A, or the L4 before it, lived through.      *)
THEOREM MigrationKeepsPromise == MigrationSpec => PromiseKept
<1>1. MigrationInit => Life!Init
  BY DEF MigrationInit, Life!Init, Dir
<1>2. MigrationTypeOK /\ StartInv /\ [MigrationNext]_migration
        => [Life!Next]_<<IF manifest = "v2" THEN 2 ELSE 1,
                         history["L4"] \cup history["core-a"]>>
  BY StepPromise
<1> QED
  BY <1>1, <1>2, MigrationTypeCorrect, PTL
     DEF MigrationSpec, PromiseKept, Life!Spec

-----------------------------------------------------------------------------
(* DualCore.                                                                 *)

USE DEF Core, Other, Phase, FlipSkip, SeedDirectory

-----------------------------------------------------------------------------
(* Types.                                                                    *)

LEMMA CheckpointType ==
  ASSUME TypeOK, Checkpoint, phase' \in [Core -> Phase],
         tokens' \in [Core -> 0 .. MaxTokens],
         samples' \in [Core -> 0 .. MaxSamples],
         skip' \in [Core -> {0, 1}], last' \in Core \cup {"none"}
  PROVE  saved' \in [phase : [Core -> Phase],
                     tokens : [Core -> 0 .. MaxTokens],
                     samples : [Core -> 0 .. MaxSamples],
                     skip : [Core -> {0, 1}], last : Core \cup {"none"}]
BY DEF TypeOK, Checkpoint, Memory

LEMMA InitType == Init => TypeOK
BY BoundsAssumption DEF Init, TypeOK, Memory, FreshPhase, Zero

LEMMA DeltaStepType ==
  ASSUME TypeOK, NEW t \in Delta, DeltaStep(t)
  PROVE  TypeOK'
<1>1. CASE Arrive(t)
  BY <1>1 DEF TypeOK, Arrive, state
<1>2. CASE LockReady(t)
  BY <1>2 DEF TypeOK, LockReady, state
<1>3. CASE CheckTimeout(t)
  <2>1. /\ phase' \in [Core -> Phase]
        /\ ready' \in [Core -> {"unset", "set", "expired"}]
    BY <1>3 DEF TypeOK, CheckTimeout
  <2>2. saved' \in [phase : [Core -> Phase],
                    tokens : [Core -> 0 .. MaxTokens],
                    samples : [Core -> 0 .. MaxSamples],
                    skip : [Core -> {0, 1}], last : Core \cup {"none"}]
    BY <1>3, <2>1, CheckpointType DEF TypeOK, CheckTimeout
  <2> QED
    BY <1>3, <2>1, <2>2 DEF TypeOK, CheckTimeout
<1>4. CASE CheckPhase(t)
  BY <1>4 DEF TypeOK, CheckPhase, NextCore, state
<1>5. CASE Sample(t)
  BY <1>5 DEF TypeOK, Sample, NextCore
<1>6. CASE Spawn(t)
  BY <1>6 DEF TypeOK, Spawn, NextCore, state
<1> QED
  BY <1>1, <1>2, <1>3, <1>4, <1>5, <1>6 DEF DeltaStep

LEMMA TurnStepType ==
  ASSUME TypeOK, NEW c \in Core, TurnStep(c)
  PROVE  TypeOK'
<1>1. CASE EmptyReply(c)
  BY <1>1 DEF TypeOK, EmptyReply, state
<1>2. ASSUME NEW n \in ReplyTokens, Reply(c, n)
      PROVE  TypeOK'
  <2>1. Capped(tokens[c] + n, MaxTokens) \in 0 .. MaxTokens
    <3>1. tokens[c] + n \in Nat /\ MaxTokens \in Nat
      BY BoundsAssumption DEF TypeOK
    <3> QED
      BY <3>1 DEF Capped
  <2>2. Capped(samples[c] + 1, MaxSamples) \in 0 .. MaxSamples
    <3>1. samples[c] + 1 \in Nat /\ MaxSamples \in Nat
      BY BoundsAssumption DEF TypeOK
    <3> QED
      BY <3>1 DEF Capped
  <2> QED
    BY <1>2, <2>1, <2>2 DEF TypeOK, Reply
<1>3. CASE MarkReady(c)
  BY <1>3 DEF TypeOK, MarkReady, state
<1>4. CASE Approve(c)
  <2>1. phase' \in [Core -> Phase]
    BY <1>4 DEF TypeOK, Approve
  <2> QED
    BY <1>4, <2>1, CheckpointType DEF TypeOK, Approve
<1>5. CASE TieBreak(c)
  BY <1>5 DEF TypeOK, TieBreak
<1>6. CASE NoCompaction(c)
  BY <1>6 DEF TypeOK, NoCompaction, state
<1>7. CASE WriteSeed(c)
  <2>1. 0 \in 0 .. MaxTokens /\ 0 \in 0 .. MaxSamples
    BY BoundsAssumption
  <2>2. PICK k \in Core :
          /\ phase' = [phase EXCEPT ![k] = "Infant"]
          /\ tokens' = [tokens EXCEPT ![k] = 0]
          /\ samples' = [samples EXCEPT ![k] = 0]
          /\ skip' = [skip EXCEPT ![k] = 0]
          /\ last' = k
          /\ seed' \subseteq Core
    BY <1>7 DEF WriteSeed, TypeOK
  <2> QED
    BY <1>7, <2>1, <2>2 DEF TypeOK, WriteSeed
<1>8. CASE Settle(c)
  BY <1>8, CheckpointType DEF TypeOK, Settle, state
<1>9. CASE Absorb(c)
  <2>1. PICK k \in Core, n \in SeedTokens :
          /\ phase' = [phase EXCEPT ![k] = "Seeded"]
          /\ tokens' = [tokens EXCEPT ![k] = n]
          /\ seed' \subseteq seed
    BY <1>9 DEF Absorb
  <2>2. n \in 0 .. MaxTokens
    BY BoundsAssumption
  <2> QED
    BY <1>9, <2>1, <2>2 DEF TypeOK, Absorb
<1>10. CASE SaveAbsorbed(c)
  BY <1>10, CheckpointType DEF TypeOK, SaveAbsorbed, state
<1>11. CASE Release(c)
  BY <1>11 DEF TypeOK, Release, state
<1> QED
  BY <1>1, <1>2, <1>3, <1>4, <1>5, <1>6, <1>7, <1>8, <1>9, <1>10, <1>11
     DEF TurnStep

(* The state mutex, the timers, the tasks and core-state.json keep to their  *)
(* types, whatever the number of deltas and the bounds.                      *)
THEOREM TypeCorrect == Spec => []TypeOK
<1>1. TypeOK /\ [Next]_vars => TypeOK'
  <2> SUFFICES ASSUME TypeOK, [Next]_vars PROVE TypeOK'
    OBVIOUS
  <2>1. CASE \E t \in Delta : DeltaStep(t)
    BY <2>1, DeltaStepType
  <2>2. ASSUME NEW c \in Core, TurnStep(c)
        PROVE  TypeOK'
    BY <2>2, TurnStepType
  <2>3. ASSUME NEW c \in Core, Expire(c)
        PROVE  TypeOK'
    BY <2>3 DEF TypeOK, Expire, state
  <2>4. ASSUME NEW c \in Core, ProvideSeed(c)
        PROVE  TypeOK'
    BY <2>4, BoundsAssumption DEF TypeOK, ProvideSeed, state
  <2>5. CASE Restart
    BY <2>5, BoundsAssumption DEF TypeOK, Restart
  <2>6. CASE UNCHANGED vars
    BY <2>6 DEF TypeOK, vars
  <2> QED
    BY <2>1, <2>2, <2>3, <2>4, <2>5, <2>6 DEF Next
<1> QED
  BY InitType, <1>1, PTL DEF Spec
-----------------------------------------------------------------------------
(* Without a seed from outside nothing is ever compacted.                    *)

LEMMA NextGiven ==
  ASSUME TypeOK, Next
  PROVE  given' = given \/ given' = given + 1
<1>1. ASSUME NEW t \in Delta, DeltaStep(t)
      PROVE  given' = given
  BY <1>1 DEF DeltaStep, Arrive, LockReady, CheckTimeout, CheckPhase, Sample,
              Spawn
<1>2. ASSUME NEW c \in Core, TurnStep(c)
      PROVE  given' = given
  BY <1>2 DEF TurnStep, EmptyReply, Reply, MarkReady, Approve, TieBreak,
              NoCompaction, WriteSeed, Settle, Absorb, SaveAbsorbed, Release
<1>3. ASSUME NEW c \in Core, Expire(c) \/ ProvideSeed(c)
      PROVE  given' = given \/ given' = given + 1
  BY <1>3 DEF Expire, ProvideSeed
<1>4. CASE Restart
  BY <1>4 DEF Restart
<1> QED
  BY <1>1, <1>2, <1>3, <1>4 DEF Next

LEMMA FreshStep ==
  ASSUME TypeOK, FreshInv, Next
  PROVE  FreshInv'
<1> SUFFICES ASSUME given' = 0
             PROVE  FreshInv'
  BY DEF FreshInv
<1> USE DEF TypeOK, FreshInv
<1>5. given \in Nat
  OBVIOUS
<1>7. given = 0
  BY <1>5, NextGiven
<1> USE <1>7
<1>6. \A c \in Core : ~ProvideSeed(c)
  BY <1>7 DEF ProvideSeed
<1>1. ASSUME NEW t \in Delta, DeltaStep(t)
      PROVE  FreshInv'
  <2>1. CASE Arrive(t)
    BY <2>1 DEF Arrive, state
  <2>6. CASE LockReady(t)
    BY <2>6 DEF LockReady, state
  <2>2. CASE CheckTimeout(t)
    BY <2>2 DEF CheckTimeout, TimedOut, Checkpoint, Memory
  <2>3. CASE CheckPhase(t)
    BY <2>3 DEF CheckPhase, NextCore, state
  <2>4. CASE Sample(t)
    BY <2>4 DEF Sample, NextCore
  <2>5. CASE Spawn(t)
    BY <2>5 DEF Spawn, NextCore, state
  <2> QED
    BY <1>1, <2>1, <2>2, <2>3, <2>4, <2>5, <2>6 DEF DeltaStep
<1>2. ASSUME NEW c \in Core, TurnStep(c)
      PROVE  FreshInv'
  <2>1. c = "A" \/ turn[c] = "idle"
    OBVIOUS
  <2>2. CASE EmptyReply(c) \/ MarkReady(c) \/ NoCompaction(c) \/ Release(c)
    <3>1. CASE EmptyReply(c)
      BY <2>1, <3>1 DEF EmptyReply, state
    <3>2. CASE MarkReady(c)
      BY <2>1, <3>2 DEF MarkReady, state
    <3>3. CASE NoCompaction(c)
      BY <2>1, <3>3 DEF NoCompaction, state
    <3>4. CASE Release(c)
      BY <2>1, <3>4 DEF Release, state
    <3> QED
      BY <2>2, <3>1, <3>2, <3>3, <3>4
  <2>3. CASE \E n \in ReplyTokens : Reply(c, n)
    BY <2>1, <2>3 DEF Reply
  <2>4. CASE Approve(c) \/ TieBreak(c)
    BY <2>1, <2>4 DEF Approve, TieBreak, Approved, BothReady
  <2>5. CASE WriteSeed(c) \/ Absorb(c)
    BY <2>1, <2>5 DEF WriteSeed, Absorb, CanAbsorb
  <2>6. CASE Settle(c)
    BY <2>1, <2>6 DEF Settle, Checkpoint, Memory, state
  <2>7. CASE SaveAbsorbed(c)
    BY <2>1, <2>7 DEF SaveAbsorbed, Checkpoint, Memory, state
  <2> QED
    BY <1>2, <2>2, <2>3, <2>4, <2>5, <2>6, <2>7 DEF TurnStep
<1>3. ASSUME NEW c \in Core, Expire(c)
      PROVE  FreshInv'
  BY <1>3 DEF Expire, state
<1>4. CASE Restart
  BY <1>4 DEF Restart
<1> QED
  BY <1>1, <1>2, <1>3, <1>4, <1>6 DEF Next

(* cores.rs as it stands cannot start the alternation it is written for: if  *)
(* nobody puts a seed.txt into the workspace, no reply, timeout, crash or    *)
(* order of tasks ever leads to a compaction or wakes core B.                *)
THEOREM FreshNeverCompacts == Spec => []NeverCompacts
<1>1. Init => FreshInv
  BY DEF Init, FreshInv, Memory, FreshPhase
<1>2. TypeOK /\ FreshInv /\ [Next]_vars => FreshInv'
  <2>1. CASE UNCHANGED vars
    BY <2>1 DEF FreshInv, vars
  <2> QED
    BY <2>1, FreshStep
<1>3. FreshInv => NeverCompacts
  BY DEF FreshInv, NeverCompacts
<1> QED
  BY <1>1, <1>2, <1>3, TypeCorrect, PTL DEF Spec

-----------------------------------------------------------------------------
(* The pair of phases.                                                       *)

LEMMA CheckpointDeep ==
  ASSUME Checkpoint, Deep(saved.phase), Deep(phase)',
         \E c \in Core : saved.phase[c] # "Ready",
         \E c \in Core : phase'[c] # "Ready"
  PROVE  /\ Deep(saved.phase)'
         /\ \E c \in Core : saved'.phase[c] # "Ready"
BY DEF Checkpoint, Memory, Deep

LEMMA PairStep ==
  ASSUME TypeOK, PairInv, Next
  PROVE  PairInv'
<1> USE DEF TypeOK, PairInv, DeepContext, Deep, HoldsState, StateFree,
            BothReady
<1>1. ASSUME NEW t \in Delta, DeltaStep(t)
      PROVE  PairInv'
  <2>1. CASE Arrive(t) \/ LockReady(t)
    BY <2>1 DEF Arrive, LockReady, state
  <2>2. CASE CheckTimeout(t)
    <3>1. /\ \E c \in Core : phase[c] # "Ready"
          /\ \A c \in Core : phase'[c] \in {phase[c], "Growing"}
      BY <2>2 DEF CheckTimeout
    <3>2. Deep(phase)' /\ \E c \in Core : phase'[c] # "Ready"
      BY <3>1
    <3>3. /\ Deep(saved.phase)'
          /\ \E c \in Core : saved'.phase[c] # "Ready"
      BY <2>2, <3>2, CheckpointDeep DEF CheckTimeout
    <3> QED
      BY <2>2, <3>2, <3>3 DEF CheckTimeout
  <2>3. CASE CheckPhase(t)
    BY <2>3 DEF CheckPhase, NextCore, state
  <2>4. CASE Sample(t)
    BY <2>4 DEF Sample, NextCore
  <2>5. CASE Spawn(t)
    BY <2>5 DEF Spawn, NextCore, state
  <2> QED
    BY <1>1, <2>1, <2>2, <2>3, <2>4, <2>5 DEF DeltaStep
<1>2. ASSUME NEW c \in Core, TurnStep(c)
      PROVE  PairInv'
  <2>1. CASE EmptyReply(c)
    BY <2>1 DEF EmptyReply, state
  <2>2. ASSUME NEW n \in ReplyTokens, Reply(c, n)
        PROVE  PairInv'
    BY <2>2 DEF Reply
  <2>3. CASE MarkReady(c)
    BY <2>3 DEF MarkReady, state
  <2>4. CASE Approve(c)
    <3>1. Deep(phase)' /\ \E k \in Core : phase'[k] # "Ready"
      BY <2>4 DEF Approve, Approved
    <3>2. /\ Deep(saved.phase)'
          /\ \E k \in Core : saved'.phase[k] # "Ready"
      BY <2>4, <3>1, CheckpointDeep DEF Approve
    <3> QED
      BY <2>4, <3>1, <3>2 DEF Approve
  <2>5. CASE TieBreak(c)
    BY <2>5 DEF TieBreak
  <2>6. CASE NoCompaction(c)
    BY <2>6 DEF NoCompaction, state
  <2>7. CASE WriteSeed(c)
    BY <2>7 DEF WriteSeed
  <2>8. CASE Settle(c) \/ SaveAbsorbed(c)
    <3>1. /\ Deep(phase)' /\ phase' = phase
          /\ \E k \in Core : phase'[k] # "Ready"
      BY <2>8 DEF Settle, SaveAbsorbed, state
    <3>2. /\ Deep(saved.phase)'
          /\ \E k \in Core : saved'.phase[k] # "Ready"
      BY <2>8, <3>1, CheckpointDeep DEF Settle, SaveAbsorbed
    <3> QED
      BY <2>8, <3>1, <3>2 DEF Settle, SaveAbsorbed
  <2>9. CASE Absorb(c)
    BY <2>9 DEF Absorb
  <2>10. CASE Release(c)
    BY <2>10 DEF Release, state
  <2> QED
    BY <1>2, <2>1, <2>2, <2>3, <2>4, <2>5, <2>6, <2>7, <2>8, <2>9, <2>10
       DEF TurnStep
<1>3. ASSUME NEW c \in Core, Expire(c) \/ ProvideSeed(c)
      PROVE  PairInv'
  BY <1>3 DEF Expire, ProvideSeed, state
<1>4. CASE Restart
  BY <1>4 DEF Restart
<1> QED
  BY <1>1, <1>2, <1>3, <1>4 DEF Next

LEMMA PairInvariant == Spec => []PairInv
<1>1. Init => PairInv
  BY DEF Init, PairInv, HoldsState, DeepContext, Deep, BothReady, Memory,
         FreshPhase
<1>2. TypeOK /\ PairInv /\ [Next]_vars => PairInv'
  <2>1. CASE UNCHANGED vars
    BY <2>1 DEF PairInv, HoldsState, DeepContext, Deep, BothReady, vars
  <2> QED
    BY <2>1, PairStep
<1> QED
  BY <1>1, <1>2, TypeCorrect, PTL DEF Spec

(* One of the two cores always holds its context, in memory and in the       *)
(* checkpoint a restart would read, with any number of restarts and failing  *)
(* writes.                                                                   *)
THEOREM OneCoreIsDeep == Spec => []DeepContext
<1>1. PairInv => DeepContext
  BY DEF PairInv
<1> QED
  BY <1>1, PairInvariant, PTL

(* No task but the one that breaks the tie, and no restart, ever meets two   *)
(* Ready cores.                                                              *)
THEOREM TiesAreBroken == Spec => []NeverBothReady
<1>1. PairInv => NeverBothReady
  BY DEF PairInv, NeverBothReady, StateFree, HoldsState
<1> QED
  BY <1>1, PairInvariant, PTL

-----------------------------------------------------------------------------
(* The timers of Ready cores.                                                *)

LEMMA TimerStep ==
  ASSUME TypeOK, PairInv, TimerInv, Next
  PROVE  TimerInv'
<1> SUFFICES ASSUME restarts' = 0
             PROVE  TimerInv'
  BY DEF TimerInv
<1> USE DEF TypeOK, TimerInv
<1>1. ASSUME NEW t \in Delta, DeltaStep(t)
      PROVE  TimerInv'
  <2>1. CASE CheckTimeout(t)
    BY <2>1 DEF CheckTimeout, TimedOut
  <2>2. CASE Arrive(t) \/ LockReady(t) \/ CheckPhase(t) \/ Sample(t)
    BY <2>2 DEF Arrive, LockReady, CheckPhase, Sample, state
  <2>3. CASE Spawn(t)
    <3>1. \A c \in Core : turn[c] \in {"marking", "seeding"} =>
                            turn'[c] = turn[c]
      BY <2>3 DEF Spawn
    <3> QED
      BY <2>3, <3>1 DEF Spawn, state
  <2> QED
    BY <1>1, <2>1, <2>2, <2>3 DEF DeltaStep
<1>2. ASSUME NEW c \in Core, TurnStep(c)
      PROVE  TimerInv'
  <2>1. CASE EmptyReply(c) \/ NoCompaction(c) \/ Release(c)
    BY <2>1 DEF EmptyReply, NoCompaction, Release, state
  <2>2. ASSUME NEW n \in ReplyTokens, Reply(c, n)
        PROVE  TimerInv'
    <3>1. /\ phase'[c] # phase[c] =>
               \/ phase'[c] = "Growing"
               \/ phase'[c] = "Ready" /\ turn'[c] = "marking"
          /\ \A k \in Core : k # c => phase'[k] = phase[k] /\ turn'[k] = turn[k]
          /\ turn[c] = "running"
          /\ UNCHANGED <<ready, restarts>>
      BY <2>2 DEF Reply
    <3> QED
      BY <3>1
  <2>3. CASE MarkReady(c)
    BY <2>3 DEF MarkReady, state
  <2>4. CASE Approve(c)
    BY <2>4 DEF Approve
  <2>5. CASE TieBreak(c)
    BY <2>5 DEF TieBreak
  <2>6. CASE WriteSeed(c)
    <3>1. \A k \in Core : phase'[k] # "Compacting"
      BY <2>6 DEF WriteSeed, PairInv, DeepContext, Deep
    <3> QED
      BY <2>6, <3>1 DEF WriteSeed
  <2>7. CASE Settle(c) \/ SaveAbsorbed(c)
    BY <2>7 DEF Settle, SaveAbsorbed, state
  <2>8. CASE Absorb(c)
    BY <2>8 DEF Absorb
  <2> QED
    BY <1>2, <2>1, <2>2, <2>3, <2>4, <2>5, <2>6, <2>7, <2>8 DEF TurnStep
<1>3. ASSUME NEW c \in Core, Expire(c) \/ ProvideSeed(c)
      PROVE  TimerInv'
  BY <1>3 DEF Expire, ProvideSeed, state
<1>4. CASE Restart
  BY <1>4, BoundsAssumption DEF Restart
<1> QED
  BY <1>1, <1>2, <1>3, <1>4 DEF Next

(* In a process that was not restarted, check_ready_timeout can always       *)
(* release a Ready core, and no task ever reads the phase Compacting.        *)
THEOREM ReadyCoresAreTimed == Spec => []ReadyIsTimed
<1>1. Init => TimerInv
  BY DEF Init, TimerInv, FreshPhase
<1>2. TypeOK /\ PairInv /\ TimerInv /\ [Next]_vars => TimerInv'
  <2>1. CASE UNCHANGED vars
    BY <2>1 DEF TimerInv, vars
  <2> QED
    BY <2>1, TimerStep
<1>3. TimerInv => ReadyIsTimed
  BY DEF TimerInv, ReadyIsTimed, StateFree, HoldsState
<1> QED
  BY <1>1, <1>2, <1>3, TypeCorrect, PairInvariant, PTL DEF Spec

(* Both at once: a Ready core is alone and timed (cores.rs:291-356).         *)
THEOREM ReadyPasses == Spec => []ReadyPassesOn
<1> QED
  BY TiesAreBroken, ReadyCoresAreTimed, PTL DEF ReadyPassesOn

-----------------------------------------------------------------------------
(* The checkpoint and the seed files, on a disk that works.                  *)

LEMMA DurableStep ==
  ASSUME DiskMayFail = FALSE, TypeOK, PairInv, DurableInv, Next
  PROVE  DurableInv'
<1> USE DEF TypeOK, DurableInv, SeedBeforeInfant, Current, StateFree,
            HoldsState
<1>1. ASSUME NEW t \in Delta, DeltaStep(t)
      PROVE  DurableInv'
  <2>1. CASE Arrive(t) \/ LockReady(t)
    BY <2>1 DEF Arrive, LockReady, state
  <2>2. CASE CheckTimeout(t)
    <3>1. Current'
      BY <2>2 DEF CheckTimeout, TimedOut, Checkpoint, Memory
    <3>2. \A k \in Core : phase'[k] = "Infant" => phase[k] = "Infant"
      BY <2>2 DEF CheckTimeout
    <3> QED
      BY <2>2, <3>1, <3>2 DEF CheckTimeout
  <2>3. CASE CheckPhase(t)
    BY <2>3 DEF CheckPhase, state
  <2>4. CASE Sample(t)
    BY <2>4 DEF Sample
  <2>5. CASE Spawn(t)
    <3>1. \A c \in Core : turn'[c] # turn[c] =>
                            turn[c] = "idle" /\ turn'[c] = "running"
      BY <2>5 DEF Spawn
    <3> QED
      BY <2>5, <3>1 DEF Spawn, state
  <2> QED
    BY <1>1, <2>1, <2>2, <2>3, <2>4, <2>5 DEF DeltaStep
<1>2. ASSUME NEW c \in Core, TurnStep(c)
      PROVE  DurableInv'
  <2> USE DEF PairInv
  <2>1. CASE EmptyReply(c)
    BY <2>1 DEF EmptyReply, state
  <2>2. ASSUME NEW n \in ReplyTokens, Reply(c, n)
        PROVE  DurableInv'
    <3>1. \A k \in Core : phase'[k] = "Infant" => phase[k] = "Infant"
      BY <2>2 DEF Reply
    <3>2. /\ turn'[c] \in {"marking", "deciding"}
          /\ \A k \in Core : k # c => turn'[k] \in {"idle", "running"}
      BY <2>2 DEF Reply
    <3> QED
      BY <2>2, <3>1, <3>2 DEF Reply
  <2>3. CASE MarkReady(c) \/ NoCompaction(c)
    BY <2>3 DEF MarkReady, NoCompaction, state
  <2>4. CASE Approve(c)
    BY <2>4 DEF Approve, Checkpoint, Memory
  <2>5. CASE TieBreak(c)
    BY <2>5 DEF TieBreak
  <2>6. CASE WriteSeed(c)
    BY <2>6 DEF WriteSeed, DeepContext, Deep
  <2>7. CASE Settle(c)
    BY <2>7 DEF Settle, Checkpoint, Memory, state
  <2>8. CASE SaveAbsorbed(c)
    BY <2>8 DEF SaveAbsorbed, Checkpoint, Memory, state
  <2>9. CASE Absorb(c)
    BY <2>9 DEF Absorb, CanAbsorb, DeepContext, Deep
  <2>10. CASE Release(c)
    BY <2>10 DEF Release, state
  <2> QED
    BY <1>2, <2>1, <2>2, <2>3, <2>4, <2>5, <2>6, <2>7, <2>8, <2>9, <2>10
       DEF TurnStep
<1>3. ASSUME NEW c \in Core, Expire(c) \/ ProvideSeed(c)
      PROVE  DurableInv'
  BY <1>3 DEF Expire, ProvideSeed, state
<1>4. CASE Restart
  BY <1>4 DEF Restart
<1> QED
  BY <1>1, <1>2, <1>3, <1>4 DEF Next

LEMMA DurableInvariant ==
  ASSUME DiskMayFail = FALSE
  PROVE  Spec => []DurableInv
<1>1. Init => DurableInv
  BY DEF Init, DurableInv, SeedBeforeInfant, Current, Memory
<1>2. TypeOK /\ PairInv /\ DurableInv /\ [Next]_vars => DurableInv'
  <2>1. CASE UNCHANGED vars
    BY <2>1 DEF DurableInv, SeedBeforeInfant, Current, StateFree, HoldsState,
                vars
  <2> QED
    BY <2>1, DurableStep
<1> QED
  BY <1>1, <1>2, TypeCorrect, PairInvariant, PTL DEF Spec

(* A crash while nobody holds the state mutex loses nothing but the parity   *)
(* of a skip counter.                                                        *)
THEOREM CheckpointIsCurrent ==
  ASSUME DiskMayFail = FALSE
  PROVE  Spec => []CheckpointCurrent
<1>1. DurableInv => CheckpointCurrent
  BY DEF DurableInv, Current, CheckpointCurrent
<1> QED
  BY <1>1, DurableInvariant, PTL

(* Wherever a crash falls, an emptied core's seed is on disk.                *)
THEOREM SeedIsDurable ==
  ASSUME DiskMayFail = FALSE
  PROVE  Spec => []SeedBeforeInfant
<1>1. DurableInv => SeedBeforeInfant
  BY DEF DurableInv
<1> QED
  BY <1>1, DurableInvariant, PTL

(* Both at once: what a crash finds on a disk that works                     *)
(* (cores.rs:299-417, 456-472).                                              *)
THEOREM CheckpointIsDurable ==
  ASSUME DiskMayFail = FALSE
  PROVE  Spec => []DurableCheckpoint
<1> QED
  BY CheckpointIsCurrent, SeedIsDurable, PTL DEF DurableCheckpoint

=============================================================================
