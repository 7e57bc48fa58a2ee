----------------------------- MODULE Supervisor -----------------------------
(***************************************************************************)
(* The polling loop that watches workers in tmux sessions                  *)
(* (src/supervisor/poll.rs): at each round it carries out what the          *)
(* conductor has asked for, lists the sessions, looks at each one's pane,   *)
(* judges it (detect.rs), types at it (lifecycle.rs), writes what it knows  *)
(* (state.rs) and sleeps, the longer the less has changed.                  *)
(*                                                                         *)
(* A pane is what the detectors find in it, and whether it has moved since  *)
(* the last look: two looks at a pane that moved differ.  Workers go on     *)
(* between any two steps of the loop; time passes while it sleeps.          *)
(***************************************************************************)
EXTENDS Integers, FiniteSets

CONSTANTS
  Worker,                     \* names, which are numbers: tmux lists them in order
  Card,                       \* what a worker may be assigned
  Shows,                      \* what a worker's pane may show: work on a card,
                              \* one command three times ("loop"), or a prompt;
                              \* never nothing, which is a capture that failed
  CardsKept,                  \* card-map.json when the supervisor is started
  dry_run,
  base_ms, max_ms,            \* BackoffConfig; its multiplier is 3/2
  frozen_threshold_secs,
  MaxEvents,                  \* bound: commands of the conductor, errors of tmux
                              \* and of the disk, and deaths of workers
  MaxRestarts,                \* bound: restarts of the supervisor
  Watched,                    \* the worker whose silence is timed
  None

ASSUME SupervisorAssumption ==
  /\ Worker \subseteq Nat
  /\ DOMAIN Shows = Worker /\ CardsKept = [w \in Worker |-> CardsKept[w]]
  /\ \A w \in Worker : Shows[w] # {}
  /\ base_ms \in Nat \ {0} /\ max_ms \in Nat /\ base_ms <= max_ms
  /\ frozen_threshold_secs \in Nat
  /\ MaxEvents \in Nat /\ MaxRestarts \in Nat
  /\ dry_run \in BOOLEAN /\ Watched \in Worker /\ None \notin Card
ASSUME ShowsAssumption == \A w \in Worker : "" \notin Shows[w]

Least(m, n) == IF m < n THEN m ELSE n

Threshold == frozen_threshold_secs * 1000

Failure == {"Dead", "Frozen", "Deranged", "SilentStall", "RabbitHoling"}
Status == {"Active", "Idle", "Frozen", "Deranged", "RabbitHoling", "Dead"}

\* Bounds: counters stop where no comparison tells them apart any more.
MaxUnchanged == Threshold \div base_ms + 1
MaxDrift == 3
MaxQuiet == (max_ms * (Threshold + base_ms)) \div base_ms + 1

VARIABLES
  alive, pane, moved,            \* tmux: sessions, what they show, and whether
                                 \* that is new
  quiet,                         \* history: ms since Watched's pane moved, or since
                                 \* the supervisor began to count anew
  sessions, card_map, backoff,   \* SupervisorState
  pc, seen, left, any_change,    \* the round: sessions listed, those still to
                                 \* look at
  card_file,                     \* card-map.json
  respawned,                     \* history: spawned while it had an entry
  assigned, unsaved, lost,       \* history: the cards the conductor gave out; the last
                                 \* write of the cards failed; a restart came upon that
  faulty,                        \* history: an error or a restart came in the way
  events, restarts               \* counters behind the bounds

tmux == <<alive, pane, moved, quiet>>
memory == <<sessions, card_map, backoff>>
round == <<pc, seen, left, any_change>>
disk == <<card_file, assigned, unsaved, lost>>
bounds == <<faulty, events, restarts>>
vars == <<tmux, memory, round, disk, respawned, bounds>>

\* A session that is gone shows nothing.
Shown(w) == IF alive[w] THEN Shows[w] ELSE {""}

\* found is history: what the last look found.  The code logs it and acts on it,
\* and keeps the status only.
SessionState_new == [last |-> "never", unchanged |-> 0, off |-> 0,
                     status |-> "Active", found |-> {}, card |-> None]

Init ==
  /\ alive \in [Worker -> BOOLEAN]
  /\ pane = [w \in Worker |-> CHOOSE p \in Shown(w) : TRUE]
  /\ moved = [w \in Worker |-> TRUE] /\ quiet = 0
  /\ sessions = [w \in Worker |-> None]
  /\ card_map = CardsKept /\ backoff = base_ms
  /\ pc = "commands" /\ seen = {} /\ left = {} /\ any_change = FALSE
  /\ card_file = card_map
  /\ assigned = card_map /\ unsaved = FALSE /\ lost = FALSE
  /\ respawned = {}
  /\ faulty = FALSE /\ events = 0 /\ restarts = 0

Known(w) == sessions[w] # None

\* One more event: one that goes well, or an error that shows.
Event(well) ==
  /\ events < MaxEvents
  /\ events' = events + 1
  /\ faulty' = (faulty \/ ~well)
  /\ UNCHANGED restarts
Fault == Event(FALSE)
NoFault == UNCHANGED bounds

-----------------------------------------------------------------------------
(* The workers, and tmux.                                                    *)

CountAnew(w) == quiet' = IF w = Watched THEN 0 ELSE quiet

\* The pane has moved, to whatever it may show.
Move(w) ==
  /\ \E p \in Shows[w] : pane' = [pane EXCEPT ![w] = p]
  /\ moved' = [moved EXCEPT ![w] = TRUE]
  /\ CountAnew(w)

Work(w) ==
  /\ alive[w]
  /\ Move(w)
  /\ UNCHANGED <<alive, memory, round, disk, respawned, bounds>>

Gone(w) ==
  /\ alive' = [alive EXCEPT ![w] = FALSE]
  /\ pane' = [pane EXCEPT ![w] = ""]
  /\ moved' = [moved EXCEPT ![w] = TRUE]
  /\ CountAnew(w)

Die(w) ==
  /\ alive[w] /\ Event(TRUE)
  /\ Gone(w)
  /\ UNCHANGED <<memory, round, disk, respawned>>

\* new_session, and claude is started in it; a session of that name, or
\* tmux, may be in the way, and the error is dropped.
new_session(w) ==
  \/ UNCHANGED tmux
  \/ /\ ~alive[w]
     /\ alive' = [alive EXCEPT ![w] = TRUE]
     /\ Move(w)

-----------------------------------------------------------------------------
(* The conductor's commands, carried out at the head of a round.  An error of *)
(* tmux is dropped and leaves the sessions as they are.                       *)

Command(well) == pc = "commands" /\ Event(well)

\* fs::write of the whole map, whose error is dropped: the file stays as it was,
\* or was cut and reads as no cards.
NoCards == [w \in Worker |-> None]
WritesFirst(saves) == card_file' = card_map /\ unsaved' = ~saves      \* mutant
write_card_map(saves) ==
  /\ IF saves THEN card_file' = card_map' ELSE card_file' \in {card_file, NoCards}
  /\ unsaved' = ~saves

Assign(w, c, saves) ==
  /\ card_map' = [card_map EXCEPT ![w] = c]
  /\ assigned' = [assigned EXCEPT ![w] = c]
  /\ write_card_map(saves)

SpawnWorker(w, c, saves) ==
  /\ Command(saves)
  /\ IF c # None THEN Assign(w, c, saves)
     ELSE UNCHANGED <<card_map, card_file, assigned, unsaved>>
  /\ IF dry_run THEN UNCHANGED tmux ELSE new_session(w)
  /\ respawned' = IF Known(w) THEN respawned \cup {w} ELSE respawned
  /\ UNCHANGED <<sessions, backoff, round, lost>>

\* The session is left as it is, and a new entry begins to count.
Left(w) == CountAnew(w) /\ UNCHANGED <<alive, pane, moved>>

KillWorker(w) ==
  /\ Command(TRUE)
  /\ Left(w) \/ (~dry_run /\ Gone(w))
  /\ sessions' = [sessions EXCEPT ![w] = None]
  /\ respawned' = respawned \ {w}
  /\ UNCHANGED <<card_map, backoff, round, disk>>

\* send_keys: a session that is there shows them, if they arrive.
send_keys(w) ==
  \/ UNCHANGED tmux
  \/ ~dry_run /\ alive[w] /\ Move(w) /\ UNCHANGED alive

SendToWorker(w) ==
  /\ Command(TRUE)
  /\ send_keys(w)
  /\ UNCHANGED <<memory, round, disk, respawned>>

OnlyInTheMap(w, c) == sessions                                        \* mutant
Reassigned(w, c) ==
  IF Known(w) THEN [sessions EXCEPT ![w].card = c, ![w].off = 0] ELSE sessions

\* With or without a briefing to type.
ReassignCard(w, c, saves) ==
  /\ Command(saves)
  /\ Assign(w, c, saves)
  /\ sessions' = Reassigned(w, c)
  /\ send_keys(w)
  /\ respawned' = respawned \ {w}
  /\ UNCHANGED <<backoff, round, lost>>

\* Harvested, killed and spawned again, as far as tmux does it; the entry is a
\* fresh one, with the card of the map.
RotateWorker(w) ==
  /\ Command(TRUE)
  /\ \/ Left(w)
     \/ ~dry_run /\ Gone(w)
     \/ ~dry_run /\ alive' = [alive EXCEPT ![w] = TRUE] /\ Move(w)
  /\ sessions' = [sessions EXCEPT ![w] = [SessionState_new EXCEPT !.card = card_map[w]]]
  /\ respawned' = respawned \ {w}
  /\ UNCHANGED <<card_map, backoff, round, disk>>

\* /clear and the briefing are typed, and the counters begin anew even if
\* nothing arrives.
ContextReset(w, arrives) ==
  /\ Command(arrives)
  /\ IF arrives /\ ~dry_run /\ alive[w]
     THEN Move(w) /\ UNCHANGED alive
     ELSE Left(w)
  /\ sessions' = IF Known(w) THEN [sessions EXCEPT ![w].unchanged = 0, ![w].off = 0]
                 ELSE sessions
  /\ UNCHANGED <<card_map, backoff, round, disk, respawned>>

handle_conductor_cmd ==
  \E w \in Worker :
    \/ \E c \in Card \cup {None}, saves \in BOOLEAN : SpawnWorker(w, c, saves)
    \/ \E c \in Card, saves \in BOOLEAN : ReassignCard(w, c, saves)
    \/ \E arrives \in BOOLEAN : ContextReset(w, arrives)
    \/ KillWorker(w) \/ SendToWorker(w) \/ RotateWorker(w)

-----------------------------------------------------------------------------
(* A round.                                                                  *)

\* The sessions of the moment; an error of tmux counts as none.
List ==
  /\ pc = "commands"
  /\ pc' = "polling" /\ any_change' = FALSE
  /\ \/ seen' = {w \in Worker : alive[w]} /\ NoFault
     \/ seen' = {} /\ Fault
  /\ left' = seen'
  /\ UNCHANGED <<tmux, memory, disk, respawned>>

\* The pane is what it was at the last look.
Same(w, content) ==
  CASE sessions[w].last = "never" -> FALSE
    [] sessions[w].last = "empty" -> content = ""
    [] sessions[w].last = "full"  -> ~moved[w] /\ content # ""

\* update_from_snapshot: the first look counts nothing.
NeverResets(s, same, content) ==                                      \* mutant
  [s EXCEPT !.last = IF content = "" THEN "empty" ELSE "full",
            !.unchanged = IF same THEN Least(@ + 1, MaxUnchanged) ELSE @]
update_from_snapshot(s, same, content) ==
  [s EXCEPT !.last = IF content = "" THEN "empty" ELSE "full",
            !.unchanged = IF s.last = "never" THEN @
                          ELSE IF same THEN Least(@ + 1, MaxUnchanged) ELSE 0]

detect_frozen(s) == (s.unchanged * backoff) \div 1000 >= frozen_threshold_secs
detect_silent_stall(s, p) == s.unchanged >= 2 /\ p = "prompt"
detect_rabbit_holing(s) == s.off > 2

\* Nothing is found in an empty pane; nothing but that it is dead in a
\* session that is gone.  No code counts retries, so InfiniteLoop is never.
StallTrumpsAll(s, exists, p) ==                                       \* mutant
  IF ~exists THEN {"Dead"}
  ELSE IF detect_silent_stall(s, p) THEN {"SilentStall"}
  ELSE {f \in {"Frozen", "Deranged"} : IF f = "Frozen" THEN detect_frozen(s) ELSE p = "loop"}
detect_all(s, exists, p) ==
  IF ~exists THEN {"Dead"}
  ELSE {f \in Failure :
          \/ f = "Frozen" /\ detect_frozen(s)
          \/ f = "Deranged" /\ p = "loop"
          \/ f = "SilentStall" /\ detect_silent_stall(s, p)
          \/ f = "RabbitHoling" /\ detect_rabbit_holing(s)}

\* The failures overwrite the status one after the other, in the order in which
\* they were detected; a stall makes it Idle.
StatusOf(s, found) ==
  IF found = {} THEN IF s.unchanged > 0 THEN "Idle" ELSE "Active"
  ELSE IF "RabbitHoling" \in found THEN "RabbitHoling"
  ELSE IF "SilentStall" \in found THEN "Idle"
  ELSE IF "Deranged" \in found THEN "Deranged"
  ELSE IF "Frozen" \in found THEN "Frozen" ELSE "Dead"

\* A frontier that has no word of the card: nothing to compare without a card,
\* or in an empty pane.
frontier_drifted(s, p) == s.card # None /\ p # "" /\ p # s.card

\* What the look at a worker makes of its entry, or of a new one.
Look(w, exists, content) ==
  LET entry == IF Known(w) THEN sessions[w] ELSE SessionState_new
      carded == [entry EXCEPT !.card = IF @ = None THEN card_map[w] ELSE @]
      updated == update_from_snapshot(carded, Known(w) /\ Same(w, content), content)
      drift == IF updated.unchanged > 0 THEN updated.off
               ELSE IF frontier_drifted(carded, content) THEN Least(updated.off + 1, MaxDrift)
               ELSE 0
      s == [updated EXCEPT !.off = drift]
      failures == detect_all(s, exists, content)
  IN [s EXCEPT !.status = StatusOf(s, failures), !.found = failures]

\* The body of the loop over the sessions.  A session may have gone since it
\* was listed; a has-session that fails is taken for that, and a capture that
\* fails leaves an empty pane.  A worker found frozen or deranged is typed at,
\* which moves its pane if the keys arrive.
Snapshot(w) ==
  /\ pc = "polling" /\ w \in left /\ \A v \in left : w <= v
  /\ \E exists \in {alive[w], FALSE}, p \in {pane[w], ""} :
       LET entry == Look(w, exists, p)
       IN /\ ~exists => p = ""
          /\ IF exists = alive[w] /\ p = pane[w] THEN NoFault ELSE Fault
          /\ sessions' = [sessions EXCEPT ![w] = entry]
          /\ any_change' = \/ any_change
                           \/ entry.unchanged = 0 /\ Known(w) /\ sessions[w].unchanged > 0
          /\ \/ entry.found \cap {"Frozen", "Deranged"} # {} /\ ~dry_run /\ Move(w)
             \/ /\ moved' = [moved EXCEPT ![w] = ~alive[w] \/ p # pane[w]]
                /\ IF Known(w) THEN UNCHANGED quiet ELSE CountAnew(w)
                /\ UNCHANGED pane
  /\ left' = left \ {w}
  /\ UNCHANGED <<alive, card_map, backoff, pc, seen, disk, respawned>>

\* What is no longer listed is forgotten, unless it was found dead; the table
\* is written, and the next sleep is as long as the change allows.
EndRound ==
  /\ pc = "polling" /\ left = {}
  /\ sessions' = [w \in Worker |->
        IF Known(w) /\ (w \in seen \/ sessions[w].status = "Dead") THEN sessions[w] ELSE None]
  /\ backoff' = IF any_change THEN base_ms ELSE Least((backoff * 3) \div 2, max_ms)
  /\ pc' = "sleeping" /\ any_change' = FALSE
  /\ respawned' = {w \in respawned : sessions'[w] # None}
  /\ UNCHANGED <<tmux, card_map, seen, left, disk, bounds>>

Sleep ==
  /\ pc = "sleeping"
  /\ pc' = "commands" /\ seen' = {} /\ left' = {}
  /\ quiet' = IF alive[Watched] THEN Least(quiet + backoff, MaxQuiet) ELSE 0
  /\ UNCHANGED <<alive, pane, moved, memory, any_change, disk, respawned, bounds>>

\* The supervisor is started again: run_supervisor reads the cards.
Restart ==
  /\ restarts < MaxRestarts
  /\ restarts' = restarts + 1 /\ faulty' = TRUE
  /\ sessions' = [w \in Worker |-> None] /\ card_map' = card_file /\ backoff' = base_ms
  /\ pc' = "commands" /\ seen' = {} /\ left' = {} /\ any_change' = FALSE
  /\ respawned' = {}
  /\ lost' = (lost \/ unsaved) /\ unsaved' = FALSE
  /\ UNCHANGED <<tmux, card_file, assigned, events>>

Poll == List \/ (\E w \in Worker : Snapshot(w)) \/ EndRound \/ Sleep

Next ==
  \/ \E w \in Worker : Work(w) \/ Die(w)
  \/ handle_conductor_cmd
  \/ Poll
  \/ Restart

\* The loop goes on; nobody else has to.  Poll is enabled in every state - a round
\* that is polling has a first worker to look at or none left - so to be weakly
\* fair to it is to let it take infinitely many steps.
Spec == Init /\ [][Next]_vars /\ []<><<Poll>>_vars

-----------------------------------------------------------------------------
AnyCard == Card \cup {None} \cup {CardsKept[w] : w \in Worker}
SessionState == [last : {"never", "empty", "full"}, unchanged : 0..MaxUnchanged, off : 0..MaxDrift,
                 status : Status, found : SUBSET Failure, card : AnyCard]

ASSUME NoneAssumption == None \notin SessionState

TypeOK ==
  /\ alive \in [Worker -> BOOLEAN] /\ moved \in [Worker -> BOOLEAN]
  /\ pane = [w \in Worker |-> pane[w]]
  /\ \A w \in Worker : pane[w] \in Shown(w)
  /\ quiet \in 0..MaxQuiet
  /\ sessions \in [Worker -> SessionState \cup {None}]
  /\ {card_map, card_file, assigned} \subseteq [Worker -> AnyCard]
  /\ unsaved \in BOOLEAN /\ lost \in BOOLEAN /\ faulty \in BOOLEAN
  /\ backoff \in base_ms..max_ms
  /\ pc \in {"commands", "polling", "sleeping"}
  /\ seen \in SUBSET Worker /\ left \in SUBSET seen /\ respawned \subseteq Worker

\* The count of looks times the present interval stands for the time that has
\* passed, though the interval has changed meanwhile (detect.rs:12,
\* poll.rs:191-199): what bin/supervisor.rs:23 calls "seconds of no change before
\* declaring frozen" is met within the ratio of the two intervals only.  One whose
\* pane could be read is taken for frozen no sooner than after base_ms / max_ms of
\* the threshold - one interval less if its counters were reset without a word
\* reaching it, as in a dry run or after an error - and one that has been quiet for
\* max_ms / base_ms of the threshold and an interval is taken for frozen at its next
\* look, if no error of tmux or restart was in the way.  Taken for frozen is what is
\* found, logged and typed at; the status may hide it (StatusOf).
FoundFrozen == Known(Watched) /\ "Frozen" \in sessions[Watched].found
Read == sessions[Watched].last = "full"
LooksAtWatched == pc = "polling" /\ Watched \in left \ left'
NotCounted == IF dry_run \/ faulty THEN base_ms ELSE 0

FrozenInTime ==
  [][LooksAtWatched =>
       /\ FoundFrozen' /\ Read' => max_ms * (quiet + NotCounted) >= base_ms * Threshold
       /\ base_ms * quiet >= max_ms * (Threshold + base_ms) /\ ~faulty' /\ alive[Watched]
            => FoundFrozen']_vars

\* No worker is quiet for good without being found frozen again and again,
\* whatever errors and restarts came before: each moves, dies, or is found out
\* (poll.rs:48-202).
QuietIsFound ==
  []<>(~alive[Watched] \/ moved[Watched] \/ quiet = 0 \/ FoundFrozen)

\* What the supervisor knows at the end of a round: an entry for every worker
\* it listed, no entry but for those and those it took for dead, every worker
\* judged by the card of the map, unless it was spawned again while it had an
\* entry, which leaves the old card in force.  The map holds the cards the
\* conductor gave out, unless a restart read a file whose last write had failed,
\* and the file holds the map unless its last write failed (poll.rs:71-73,
\* 157-164, 219-222, 272-273, 299-303, state.rs:48-69).
KnowsItsWorkers ==
  /\ TypeOK
  /\ ~lost => card_map = assigned
  /\ ~unsaved => card_file = card_map
  /\ pc = "sleeping" =>
       \A w \in Worker :
         /\ w \in seen => Known(w)
         /\ Known(w) /\ w \notin seen => sessions[w].status = "Dead"
         /\ w \in seen /\ w \notin respawned => sessions[w].card = card_map[w]
=============================================================================
