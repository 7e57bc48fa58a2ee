--------------------------- MODULE SupervisorProofs ---------------------------
(***************************************************************************)
(* What the supervisor knows after a round is so for any number of workers  *)
(* and cards, any thresholds and any number of commands, errors and         *)
(* restarts.  The invariant that carries it from command to round speaks of *)
(* the middle of a round: those already looked at have an entry with the    *)
(* card of the map, the others an entry with that card or none yet.         *)
(***************************************************************************)
EXTENDS Supervisor, TLAPS

USE SupervisorAssumption, NoneAssumption

Agrees(w) == Known(w) /\ w \notin respawned => sessions[w].card \in {None, card_map[w]}
Judged(w) == Known(w) /\ (w \notin respawned => sessions[w].card = card_map[w])

Inv ==
  /\ KnowsItsWorkers
  /\ \A w \in Worker : Agrees(w)
  /\ pc = "polling" => \A w \in seen \ left : Judged(w)

-----------------------------------------------------------------------------
LEMMA Division ==
  ASSUME NEW m \in Nat, NEW n \in Nat \ {0}
  PROVE  m \div n \in Nat
  OBVIOUS

\* Products, which the provers do not take apart by themselves.
LEMMA Times ==
  ASSUME NEW m \in Nat, NEW n \in Nat
  PROVE  m * n \in Nat /\ (m + 1) * n = m * n + n /\ m * n = n * m
  OBVIOUS

LEMMA TimesGrows ==
  ASSUME NEW m \in Nat, NEW n \in Nat, NEW k \in Nat, m <= n
  PROVE  m * k <= n * k
  OBVIOUS

LEMMA BoundsAreNat == MaxUnchanged \in Nat /\ MaxDrift \in Nat /\ MaxQuiet \in Nat
<1>1. Threshold \in Nat
  BY DEF Threshold
<1>2. Threshold \div base_ms \in Nat
  BY <1>1, Division
<1>3. (max_ms * (Threshold + base_ms)) \div base_ms \in Nat
  <2>1. Threshold + base_ms \in Nat
    BY <1>1
  <2>2. max_ms * (Threshold + base_ms) \in Nat
    BY <2>1, Times
  <2> QED BY <2>2, Division
<1> QED BY <1>2, <1>3 DEF MaxUnchanged, MaxDrift, MaxQuiet

LEMMA LeastIsBounded ==
  ASSUME NEW m \in Nat, NEW n \in Nat
  PROVE  Least(m, n) \in 0..n
  BY DEF Least

\* The interval grows by half of itself, between its two ends (poll.rs:191).
LEMMA BackoffGrows ==
  ASSUME NEW b \in base_ms..max_ms
  PROVE  Least((b * 3) \div 2, max_ms) \in base_ms..max_ms
  BY DEF Least

LEMMA ZeroIsCount == 0 \in 0..MaxUnchanged /\ 0 \in 0..MaxDrift
  BY BoundsAreNat

LEMMA NewIsState == SessionState_new \in SessionState
<1>1. "Active" \in Status /\ {} \in SUBSET Failure /\ None \in AnyCard
  BY Zenon DEF Status, AnyCard
<1>2. "never" \in {"never", "empty", "full"}
  OBVIOUS
<1> QED BY <1>1, <1>2, ZeroIsCount, Zenon DEF SessionState_new, SessionState

\* An entry stays one under what each action does to it.
LEMMA WithCard ==
  ASSUME NEW s \in SessionState, NEW c \in AnyCard
  PROVE  [s EXCEPT !.card = c] \in SessionState /\ [s EXCEPT !.card = c].card = c
  BY DEF SessionState

LEMMA WithZero ==
  ASSUME NEW s \in SessionState
  PROVE  /\ [s EXCEPT !.unchanged = 0, !.off = 0] \in SessionState
         /\ [s EXCEPT !.unchanged = 0, !.off = 0].card = s.card
  BY ZeroIsCount DEF SessionState

LEMMA WithDrift ==
  ASSUME NEW s \in SessionState, NEW d \in 0..MaxDrift
  PROVE  [s EXCEPT !.off = d] \in SessionState /\ [s EXCEPT !.off = d].card = s.card
  BY DEF SessionState

LEMMA WithStatus ==
  ASSUME NEW s \in SessionState, NEW n \in Status, NEW f \in SUBSET Failure
  PROVE  /\ [s EXCEPT !.status = n, !.found = f] \in SessionState
         /\ [s EXCEPT !.status = n, !.found = f].card = s.card
         /\ [s EXCEPT !.status = n, !.found = f].status = n
         /\ [s EXCEPT !.status = n, !.found = f].found = f
  BY DEF SessionState

LEMMA Updated ==
  ASSUME NEW s \in SessionState, NEW same, NEW content
  PROVE  /\ update_from_snapshot(s, same, content) \in SessionState
         /\ update_from_snapshot(s, same, content).card = s.card
<1>1. PICK n \in 0..MaxUnchanged, l \in {"never", "empty", "full"} :
        update_from_snapshot(s, same, content) = [s EXCEPT !.last = l, !.unchanged = n]
  <2>1. s.unchanged \in 0..MaxUnchanged
    BY DEF SessionState
  <2>2. Least(s.unchanged + 1, MaxUnchanged) \in 0..MaxUnchanged
    <3>1. s.unchanged + 1 \in Nat
      BY <2>1, BoundsAreNat
    <3> QED BY <3>1, BoundsAreNat, LeastIsBounded
  <2>3. 0 \in 0..MaxUnchanged
    BY BoundsAreNat
  <2> DEFINE n == IF s.last = "never" THEN s.unchanged
                  ELSE IF same THEN Least(s.unchanged + 1, MaxUnchanged) ELSE 0
             l == IF content = "" THEN "empty" ELSE "full"
  <2>4. n \in 0..MaxUnchanged /\ l \in {"never", "empty", "full"}
    BY <2>1, <2>2, <2>3
  <2>5. update_from_snapshot(s, same, content) = [s EXCEPT !.last = l, !.unchanged = n]
    BY DEF update_from_snapshot
  <2> QED BY <2>4, <2>5
<1> QED BY <1>1 DEF SessionState

LEMMA FoundIsStatus ==
  ASSUME NEW s, NEW exists, NEW p
  PROVE  /\ detect_all(s, exists, p) \in SUBSET Failure
         /\ StatusOf(s, detect_all(s, exists, p)) \in Status
<1>1. detect_all(s, exists, p) \in SUBSET Failure
  <2>1. "Dead" \in Failure
    BY DEF Failure
  <2> QED BY <2>1, Zenon DEF detect_all
<1>2. ASSUME NEW found PROVE StatusOf(s, found) \in Status
  BY DEF StatusOf, Status
<1> QED BY <1>1, <1>2

-----------------------------------------------------------------------------
(* tmux.                                                                     *)

TmuxOK ==
  /\ alive \in [Worker -> BOOLEAN] /\ moved \in [Worker -> BOOLEAN]
  /\ pane = [w \in Worker |-> pane[w]]
  /\ \A w \in Worker : pane[w] \in Shown(w)
  /\ quiet \in 0..MaxQuiet

LEMMA CountAnewOK ==
  ASSUME TmuxOK, NEW w \in Worker, CountAnew(w)
  PROVE  quiet' \in 0..MaxQuiet
  BY BoundsAreNat DEF TmuxOK, CountAnew

\* One pane has changed, to what a session there or a missing one may show.
LEMMA PaneOK ==
  ASSUME TmuxOK, NEW w \in Worker, NEW a \in BOOLEAN,
         NEW p \in IF a THEN Shows[w] ELSE {""},
         alive' = [alive EXCEPT ![w] = a], pane' = [pane EXCEPT ![w] = p],
         moved' \in [Worker -> BOOLEAN], quiet' \in 0..MaxQuiet
  PROVE  TmuxOK'
<1>1. alive' \in [Worker -> BOOLEAN]
  BY DEF TmuxOK
<1>2. pane' = [v \in Worker |-> pane'[v]]
  BY DEF TmuxOK
<1>3. ASSUME NEW v \in Worker PROVE pane'[v] \in Shown(v)'
  <2>1. alive'[v] = IF v = w THEN a ELSE alive[v]
    BY DEF TmuxOK
  <2>2. pane'[v] = IF v = w THEN p ELSE pane[v]
    BY DEF TmuxOK
  <2>3. CASE v = w
    BY <2>1, <2>2, <2>3, Zenon DEF Shown
  <2>4. CASE v # w
    BY <2>1, <2>2, <2>4, Zenon DEF Shown, TmuxOK
  <2> QED BY <2>3, <2>4
<1> QED BY <1>1, <1>2, <1>3 DEF TmuxOK

LEMMA MoveOK ==
  ASSUME TmuxOK, NEW w \in Worker, Move(w), alive' = [alive EXCEPT ![w] = TRUE]
  PROVE  TmuxOK'
<1>1. quiet' \in 0..MaxQuiet /\ moved' \in [Worker -> BOOLEAN]
  BY CountAnewOK DEF Move, TmuxOK
<1>2. PICK p \in Shows[w] : pane' = [pane EXCEPT ![w] = p]
  BY DEF Move
<1> QED BY <1>1, <1>2, PaneOK

LEMMA StillThere ==
  ASSUME TmuxOK, NEW w \in Worker, alive[w], UNCHANGED alive
  PROVE  alive' = [alive EXCEPT ![w] = TRUE]
  BY DEF TmuxOK

LEMMA GoneOK ==
  ASSUME TmuxOK, NEW w \in Worker, Gone(w)
  PROVE  TmuxOK'
<1>1. quiet' \in 0..MaxQuiet /\ moved' \in [Worker -> BOOLEAN]
  BY CountAnewOK DEF Gone, TmuxOK
<1> QED BY <1>1, PaneOK DEF Gone

LEMMA SameTmux ==
  ASSUME TmuxOK, UNCHANGED <<alive, pane>>, moved' \in [Worker -> BOOLEAN],
         quiet' \in 0..MaxQuiet
  PROVE  TmuxOK'
  BY DEF TmuxOK, Shown

LEMMA UnchangedOK ==
  ASSUME TmuxOK, UNCHANGED tmux
  PROVE  TmuxOK'
  BY SameTmux DEF tmux, TmuxOK

LEMMA LeftOK ==
  ASSUME TmuxOK, NEW w \in Worker, Left(w)
  PROVE  TmuxOK'
  BY SameTmux, CountAnewOK DEF Left, TmuxOK

LEMMA SpawnedOK ==
  ASSUME TmuxOK, NEW w \in Worker, new_session(w)
  PROVE  TmuxOK'
  BY UnchangedOK, MoveOK DEF new_session

LEMMA SentOK ==
  ASSUME TmuxOK, NEW w \in Worker, send_keys(w)
  PROVE  TmuxOK'
  BY UnchangedOK, MoveOK, StillThere DEF send_keys

-----------------------------------------------------------------------------
(* What is asked of an action, by where in the round it happens.             *)

LEMMA InvImplies == Inv => TypeOK /\ TmuxOK
  BY DEF Inv, KnowsItsWorkers, TypeOK, TmuxOK

\* The cards in memory, in the file, and as they were given out.
CardsOK ==
  /\ {card_map, card_file, assigned} \subseteq [Worker -> AnyCard]
  /\ unsaved \in BOOLEAN /\ lost \in BOOLEAN
  /\ ~lost => card_map = assigned
  /\ ~unsaved => card_file = card_map

LEMMA InvCards == Inv => CardsOK
  BY DEF Inv, KnowsItsWorkers, TypeOK, CardsOK

LEMMA SameCards ==
  ASSUME Inv, UNCHANGED <<card_map, disk>>
  PROVE  CardsOK'
  BY InvCards DEF disk, CardsOK

\* The bounds do not touch the sessions; an error is never forgotten.
LEMMA Faults ==
  ASSUME Inv, \/ NoFault \/ Fault \/ (\E well \in BOOLEAN : Event(well))
  PROVE  faulty' \in BOOLEAN /\ (faulty => faulty')
<1>1. faulty \in BOOLEAN
  BY DEF Inv, KnowsItsWorkers, TypeOK
<1>2. faulty' = faulty \/ faulty' = TRUE
  BY <1>1 DEF NoFault, Fault, Event, bounds
<1> QED BY <1>1, <1>2

\* tmux alone has changed.
LEMMA OnlyTmux ==
  ASSUME Inv, UNCHANGED <<memory, round, disk, respawned>>, TmuxOK', faulty' \in BOOLEAN
  PROVE  Inv'
<1>1. UNCHANGED <<sessions, card_map, backoff, pc, seen, left, card_file, assigned, unsaved,
                  lost, respawned>>
  BY DEF memory, round, disk
<1>2. \A w \in Worker : (Known(w)' <=> Known(w)) /\ (Agrees(w)' <=> Agrees(w))
  BY <1>1 DEF Known, Agrees
<1>3. \A w : Judged(w)' <=> Judged(w)
  BY <1>1 DEF Known, Judged
<1>4. TypeOK'
  BY <1>1 DEF Inv, KnowsItsWorkers, TypeOK, TmuxOK
<1>5. KnowsItsWorkers'
  BY <1>1, <1>2, <1>4 DEF Inv, KnowsItsWorkers
<1> QED BY <1>1, <1>2, <1>3, <1>5 DEF Inv

\* A command, which comes before the round.
LEMMA BeforeTheRound ==
  ASSUME Inv, pc = "commands", UNCHANGED <<round, backoff>>, TmuxOK', faulty' \in BOOLEAN,
         sessions' \in [Worker -> SessionState \cup {None}], CardsOK',
         respawned' \subseteq Worker, \A w \in Worker : Agrees(w)'
  PROVE  Inv'
<1>1. pc' = "commands" /\ UNCHANGED <<seen, left, backoff>>
  BY DEF round
<1>2. TypeOK'
  BY <1>1 DEF Inv, KnowsItsWorkers, TypeOK, TmuxOK, CardsOK
<1> QED BY <1>1, <1>2 DEF Inv, KnowsItsWorkers, CardsOK

LEMMA InitInv == Init => Inv
<1> SUFFICES ASSUME Init PROVE Inv
  OBVIOUS
<1>1. sessions \in [Worker -> SessionState \cup {None}] /\ \A w \in Worker : ~Known(w)
  BY DEF Init, Known
<1>2. CardsOK
  BY DEF Init, AnyCard, CardsOK
<1>3. TmuxOK
  <2>1. \A w \in Worker : Shown(w) # {}
    BY DEF Shown
  <2>2. \A w \in Worker : pane[w] \in Shown(w)
    BY <2>1 DEF Init
  <2>3. pane = [w \in Worker |-> pane[w]]
    BY DEF Init
  <2> QED BY <2>2, <2>3, BoundsAreNat DEF Init, TmuxOK
<1>4. TypeOK
  <2>1. backoff = base_ms /\ pc = "commands" /\ seen = {} /\ left = {} /\ respawned = {}
        /\ faulty = FALSE
    BY Zenon DEF Init
  <2>2. backoff \in base_ms..max_ms /\ pc \in {"commands", "polling", "sleeping"}
    BY <2>1
  <2>3. seen \in SUBSET Worker /\ left \in SUBSET seen /\ respawned \subseteq Worker
        /\ faulty \in BOOLEAN
    BY <2>1
  <2> QED BY <1>1, <1>2, <1>3, <2>2, <2>3, Zenon DEF TypeOK, TmuxOK, CardsOK
<1> QED BY <1>1, <1>2, <1>4 DEF Init, Inv, KnowsItsWorkers, Agrees, CardsOK

-----------------------------------------------------------------------------
(* The commands.                                                             *)

\* What the invariant says of the table of entries.
LEMMA Entries ==
  ASSUME Inv, NEW w \in Worker
  PROVE  /\ sessions \in [Worker -> SessionState \cup {None}]
         /\ Known(w) => sessions[w] \in SessionState
         /\ card_map \in [Worker -> AnyCard]
         /\ respawned \subseteq Worker
         /\ Agrees(w)
  BY DEF Inv, KnowsItsWorkers, TypeOK, Known

\* A card is given out: the map has it, and so has the file, if it was written.
LEMMA Assigned ==
  ASSUME Inv, NEW w \in Worker, NEW c \in AnyCard, NEW saves \in BOOLEAN,
         Assign(w, c, saves), UNCHANGED lost
  PROVE  /\ CardsOK'
         /\ \A v \in Worker : card_map'[v] = IF v = w THEN c ELSE card_map[v]
<1>1. /\ card_map' = [card_map EXCEPT ![w] = c]
      /\ assigned' = [assigned EXCEPT ![w] = c]
      /\ card_file' = card_map' \/ (~saves /\ card_file' \in {card_file, NoCards})
      /\ unsaved' = ~saves
  BY DEF Assign, write_card_map
<1>2. CardsOK
  BY InvCards
<1>3. NoCards \in [Worker -> AnyCard]
  BY DEF NoCards, AnyCard
<1>4. card_map' \in [Worker -> AnyCard] /\ assigned' \in [Worker -> AnyCard]
  BY <1>1, <1>2 DEF CardsOK
<1>5. card_file' \in [Worker -> AnyCard]
  BY <1>1, <1>2, <1>3, <1>4 DEF CardsOK
<1>6. ~lost' => card_map' = assigned'
  BY <1>1, <1>2 DEF CardsOK
<1>7. lost' \in BOOLEAN /\ unsaved' \in BOOLEAN /\ (~unsaved' => card_file' = card_map')
  BY <1>1, <1>2 DEF CardsOK
<1>8. CardsOK'
  BY <1>4, <1>5, <1>6, <1>7 DEF CardsOK
<1> QED BY <1>1, <1>2, <1>8 DEF CardsOK

LEMMA SpawnInv ==
  ASSUME Inv, NEW w \in Worker, NEW c \in Card \cup {None}, NEW saves \in BOOLEAN,
         SpawnWorker(w, c, saves)
  PROVE  Inv'
<1>1. TmuxOK'
  BY UnchangedOK, SpawnedOK, InvImplies DEF SpawnWorker
<1>2. CardsOK' /\ \A v \in Worker : v # w => card_map'[v] = card_map[v]
  <2>1. CASE c # None
    <3>1. c \in AnyCard
      BY DEF AnyCard
    <3> QED BY <2>1, <3>1, Assigned DEF SpawnWorker
  <2>2. CASE c = None
    BY <2>2, SameCards DEF SpawnWorker, disk
  <2> QED BY <2>1, <2>2
<1>3. UNCHANGED sessions /\ respawned' \subseteq Worker
      /\ respawned' = IF Known(w) THEN respawned \cup {w} ELSE respawned
  BY Entries DEF SpawnWorker
<1>4. ASSUME NEW v \in Worker PROVE Agrees(v)'
  <2>1. Agrees(v)
    BY Entries
  <2>2. CASE v = w
    BY <1>3, <2>2 DEF Agrees, Known
  <2>3. CASE v # w
    BY <1>2, <1>3, <2>1, <2>3 DEF Agrees, Known
  <2> QED BY <2>2, <2>3
<1>5. faulty' \in BOOLEAN /\ pc = "commands" /\ UNCHANGED <<round, backoff>>
  BY Faults DEF SpawnWorker, Command
<1> QED BY <1>1, <1>2, <1>3, <1>4, <1>5, Entries, BeforeTheRound

LEMMA KillInv ==
  ASSUME Inv, NEW w \in Worker, KillWorker(w)
  PROVE  Inv'
<1>1. TmuxOK'
  BY LeftOK, GoneOK, InvImplies DEF KillWorker
<1>2. sessions' = [sessions EXCEPT ![w] = None] /\ respawned' = respawned \ {w}
      /\ UNCHANGED <<card_map, disk>>
  BY DEF KillWorker
<1>3. sessions' \in [Worker -> SessionState \cup {None}] /\ respawned' \subseteq Worker
  BY <1>2, Entries
<1>4. ASSUME NEW v \in Worker PROVE Agrees(v)'
  <2>1. Agrees(v) /\ sessions'[v] = IF v = w THEN None ELSE sessions[v]
    BY <1>2, Entries
  <2> QED BY <1>2, <2>1 DEF Agrees, Known
<1>5. faulty' \in BOOLEAN /\ pc = "commands" /\ UNCHANGED <<round, backoff>>
  BY Faults DEF KillWorker, Command
<1> QED BY <1>1, <1>2, <1>3, <1>4, <1>5, SameCards, BeforeTheRound

LEMMA SendInv ==
  ASSUME Inv, NEW w \in Worker, SendToWorker(w)
  PROVE  Inv'
<1>1. TmuxOK'
  BY SentOK, InvImplies DEF SendToWorker
<1>2. faulty' \in BOOLEAN
  BY Faults DEF SendToWorker, Command
<1> QED BY <1>1, <1>2, OnlyTmux DEF SendToWorker

LEMMA ReassignInv ==
  ASSUME Inv, NEW w \in Worker, NEW c \in Card, NEW saves \in BOOLEAN,
         ReassignCard(w, c, saves)
  PROVE  Inv'
<1>1. TmuxOK'
  BY SentOK, InvImplies DEF ReassignCard
<1>2. c \in AnyCard
  BY DEF AnyCard
<1>3. /\ CardsOK'
      /\ \A v \in Worker : card_map'[v] = IF v = w THEN c ELSE card_map[v]
      /\ respawned' = respawned \ {w}
      /\ sessions' = IF Known(w) THEN [sessions EXCEPT ![w].card = c, ![w].off = 0] ELSE sessions
  BY <1>2, Assigned DEF ReassignCard, Reassigned
<1>0. faulty' \in BOOLEAN /\ pc = "commands" /\ UNCHANGED <<round, backoff>>
  BY Faults DEF ReassignCard, Command
<1>4. CASE Known(w)
  <2> DEFINE s == [sessions[w] EXCEPT !.card = c, !.off = 0]
  <2>1. s \in SessionState /\ s.card = c
    BY <1>2, <1>4, Entries, ZeroIsCount DEF SessionState
  <2>2. sessions' = [sessions EXCEPT ![w] = s]
    BY <1>3, <1>4
  <2> HIDE DEF s
  <2>3. sessions' \in [Worker -> SessionState \cup {None}]
    BY <2>1, <2>2, Entries
  <2>4. ASSUME NEW v \in Worker PROVE Agrees(v)'
    <3>1. Agrees(v) /\ sessions'[v] = IF v = w THEN s ELSE sessions[v]
      BY <2>2, Entries
    <3>2. card_map'[v] = IF v = w THEN c ELSE card_map[v]
      BY <1>3, Entries
    <3> QED BY <1>3, <2>1, <3>1, <3>2 DEF Agrees, Known
  <2> QED BY <1>0, <1>1, <1>3, <2>3, <2>4, Entries, BeforeTheRound
<1>5. CASE ~Known(w)
  <2>1. ASSUME NEW v \in Worker PROVE Agrees(v)'
    <3>1. Agrees(v)
      BY Entries
    <3>2. card_map'[v] = IF v = w THEN c ELSE card_map[v]
      BY <1>3, Entries
    <3> QED BY <1>3, <1>5, <3>1, <3>2 DEF Agrees, Known
  <2> QED BY <1>0, <1>1, <1>3, <1>5, <2>1, Entries, BeforeTheRound
<1> QED BY <1>4, <1>5

LEMMA RotateInv ==
  ASSUME Inv, NEW w \in Worker, RotateWorker(w)
  PROVE  Inv'
<1>1. TmuxOK'
  BY LeftOK, GoneOK, MoveOK, InvImplies DEF RotateWorker
<1> DEFINE s == [SessionState_new EXCEPT !.card = card_map[w]]
<1>2. s \in SessionState /\ s.card = card_map[w]
  BY NewIsState, WithCard, Entries
<1>3. sessions' = [sessions EXCEPT ![w] = s] /\ respawned' = respawned \ {w}
      /\ UNCHANGED <<card_map, disk>>
  BY DEF RotateWorker
<1> HIDE DEF s
<1>4. sessions' \in [Worker -> SessionState \cup {None}] /\ respawned' \subseteq Worker
  BY <1>2, <1>3, Entries
<1>5. ASSUME NEW v \in Worker PROVE Agrees(v)'
  <2>1. Agrees(v) /\ sessions'[v] = IF v = w THEN s ELSE sessions[v]
    BY <1>3, Entries
  <2> QED BY <1>2, <1>3, <2>1 DEF Agrees, Known
<1>6. faulty' \in BOOLEAN /\ pc = "commands" /\ UNCHANGED <<round, backoff>>
  BY Faults DEF RotateWorker, Command
<1> QED BY <1>1, <1>3, <1>4, <1>5, <1>6, SameCards, BeforeTheRound

LEMMA ResetInv ==
  ASSUME Inv, NEW w \in Worker, NEW arrives \in BOOLEAN, ContextReset(w, arrives)
  PROVE  Inv'
<1>1. TmuxOK'
  BY LeftOK, MoveOK, StillThere, InvImplies DEF ContextReset
<1>2. UNCHANGED <<card_map, disk, respawned>> /\ CardsOK'
  BY SameCards DEF ContextReset
<1>0. faulty' \in BOOLEAN /\ pc = "commands" /\ UNCHANGED <<round, backoff>>
  BY Faults DEF ContextReset, Command
<1>3. CASE Known(w)
  <2> DEFINE s == [sessions[w] EXCEPT !.unchanged = 0, !.off = 0]
  <2>1. s \in SessionState /\ s.card = sessions[w].card
    BY <1>3, Entries, WithZero
  <2>2. sessions' = [sessions EXCEPT ![w] = s]
    BY <1>3 DEF ContextReset
  <2> HIDE DEF s
  <2>3. sessions' \in [Worker -> SessionState \cup {None}]
    BY <2>1, <2>2, Entries
  <2>4. ASSUME NEW v \in Worker PROVE Agrees(v)'
    <3>1. Agrees(v) /\ sessions'[v] = IF v = w THEN s ELSE sessions[v]
      BY <2>2, Entries
    <3> QED BY <1>2, <1>3, <2>1, <3>1 DEF Agrees, Known
  <2> QED BY <1>0, <1>1, <1>2, <2>3, <2>4, Entries, BeforeTheRound
<1>4. CASE ~Known(w)
  <2>1. UNCHANGED sessions
    BY <1>4 DEF ContextReset
  <2>2. ASSUME NEW v \in Worker PROVE Agrees(v)'
    <3>1. Agrees(v)
      BY Entries
    <3> QED BY <1>2, <2>1, <3>1 DEF Agrees, Known
  <2> QED BY <1>0, <1>1, <1>2, <2>1, <2>2, Entries, BeforeTheRound
<1> QED BY <1>3, <1>4

-----------------------------------------------------------------------------
(* The round.                                                                *)

LEMMA ListInv == Inv /\ List => Inv'
<1> SUFFICES ASSUME Inv, List PROVE Inv'
  OBVIOUS
<1>1. /\ UNCHANGED <<sessions, card_map, backoff, disk, respawned, alive, moved, pane, quiet>>
      /\ pc' = "polling" /\ seen' \in SUBSET Worker /\ left' = seen'
  BY DEF List, tmux, memory
<1>2. faulty' \in BOOLEAN /\ CardsOK'
  BY <1>1, Faults, SameCards DEF List
<1>3. TypeOK'
  BY <1>1, <1>2 DEF Inv, KnowsItsWorkers, TypeOK, Shown, CardsOK
<1>4. \A w \in Worker : Agrees(w)'
  BY <1>1 DEF Inv, Agrees, Known
<1> QED BY <1>1, <1>2, <1>3, <1>4 DEF Inv, KnowsItsWorkers, CardsOK

\* What a look leaves of an entry, or of a new one: a state with the card the
\* entry had, or else the card of the map; of a session that is gone it says
\* that it is dead (poll.rs:60-141).
LookedAt(w, exists, s) ==
  /\ s \in SessionState
  /\ s.card = IF Known(w) /\ sessions[w].card # None THEN sessions[w].card ELSE card_map[w]
  /\ ~exists => s.found = {"Dead"}

LEMMA Looked ==
  ASSUME Inv, NEW w \in Worker, NEW exists, NEW content
  PROVE  LookedAt(w, exists, Look(w, exists, content))
<1> DEFINE entry == IF Known(w) THEN sessions[w] ELSE SessionState_new
           card == IF entry.card = None THEN card_map[w] ELSE entry.card
           carded == [entry EXCEPT !.card = card]
           updated == update_from_snapshot(carded, Known(w) /\ Same(w, content), content)
           drift == IF updated.unchanged > 0 THEN updated.off
                    ELSE IF frontier_drifted(carded, content) THEN Least(updated.off + 1, MaxDrift)
                    ELSE 0
           s == [updated EXCEPT !.off = drift]
           found == detect_all(s, exists, content)
           status == StatusOf(s, found)
<1>1. Look(w, exists, content) = [s EXCEPT !.status = status, !.found = found]
  BY DEF Look
<1>2. entry \in SessionState /\ entry.card \in AnyCard
  BY Entries, NewIsState DEF SessionState
<1>3. card = IF Known(w) /\ sessions[w].card # None THEN sessions[w].card ELSE card_map[w]
  BY DEF SessionState_new
<1>4. card \in AnyCard
  BY <1>2, Entries
<1> HIDE DEF entry, card
<1>5. carded \in SessionState /\ carded.card = card
  BY <1>2, <1>4, WithCard
<1> HIDE DEF carded
<1>6. updated \in SessionState /\ updated.card = carded.card
  BY <1>5, Updated
<1> HIDE DEF updated
<1>7. drift \in 0..MaxDrift
  <2>1. updated.off \in 0..MaxDrift
    BY <1>6 DEF SessionState
  <2>2. updated.off + 1 \in Nat
    BY <2>1, BoundsAreNat
  <2>3. Least(updated.off + 1, MaxDrift) \in 0..MaxDrift
    BY <2>2, BoundsAreNat, LeastIsBounded
  <2> QED BY <2>1, <2>3, ZeroIsCount
<1> HIDE DEF drift
<1>8. status \in Status /\ found \in SUBSET Failure
  BY FoundIsStatus
<1>9. ~exists => found = {"Dead"}
  BY Zenon DEF detect_all
<1> HIDE DEF status, found
<1>10. s \in SessionState /\ s.card = updated.card
  BY <1>6, <1>7, WithDrift
<1> HIDE DEF s
<1> DEFINE r == [s EXCEPT !.status = status, !.found = found]
<1>11. r \in SessionState /\ r.card = s.card /\ r.found = found
  BY <1>8, <1>10 DEF SessionState
<1> HIDE DEF r
<1>12. Look(w, exists, content) = r
  BY <1>1 DEF r
<1> QED BY <1>3, <1>5, <1>6, <1>9, <1>10, <1>11, <1>12 DEF LookedAt

\* Only a session that is there is typed at.
LEMMA TypedAt ==
  ASSUME Inv, NEW w \in Worker, NEW exists \in {alive[w], FALSE}, NEW p,
         Look(w, exists, p).found \cap {"Frozen", "Deranged"} # {}
  PROVE  alive[w] /\ exists
<1> SUFFICES ASSUME ~exists PROVE FALSE
  OBVIOUS
<1>1. Look(w, exists, p).found = {"Dead"}
  BY Looked DEF LookedAt
<1>2. {"Dead"} \cap {"Frozen", "Deranged"} = {}
  OBVIOUS
<1> QED BY <1>1, <1>2, Zenon

LEMMA SnapshotInv ==
  ASSUME Inv, NEW w \in Worker, Snapshot(w)
  PROVE  Inv'
<1>1. /\ UNCHANGED <<alive, card_map, backoff, pc, seen, disk, respawned>>
      /\ pc = "polling" /\ w \in left /\ left' = left \ {w}
  BY DEF Snapshot
<1>2. PICK exists \in {alive[w], FALSE}, p \in {pane[w], ""} :
        /\ IF exists = alive[w] /\ p = pane[w] THEN NoFault ELSE Fault
        /\ sessions' = [sessions EXCEPT ![w] = Look(w, exists, p)]
        /\ \/ /\ Look(w, exists, p).found \cap {"Frozen", "Deranged"} # {}
              /\ Move(w)
           \/ /\ moved' = [moved EXCEPT ![w] = ~alive[w] \/ p # pane[w]]
              /\ IF Known(w) THEN UNCHANGED quiet ELSE CountAnew(w)
              /\ UNCHANGED pane
  BY Zenon DEF Snapshot
<1>3. TmuxOK'
  <2>1. CASE Look(w, exists, p).found \cap {"Frozen", "Deranged"} # {} /\ Move(w)
    <3>1. alive[w]
      BY <2>1, TypedAt
    <3> QED BY <1>1, <2>1, <3>1, MoveOK, StillThere, InvImplies
  <2>2. CASE /\ moved' = [moved EXCEPT ![w] = ~alive[w] \/ p # pane[w]]
             /\ IF Known(w) THEN UNCHANGED quiet ELSE CountAnew(w)
             /\ UNCHANGED pane
    <3>1. moved' \in [Worker -> BOOLEAN] /\ quiet' \in 0..MaxQuiet
      BY <2>2, CountAnewOK, InvImplies DEF TmuxOK
    <3> QED BY <1>1, <2>2, <3>1, SameTmux, InvImplies
  <2> QED BY <1>2, <2>1, <2>2
<1> DEFINE s == Look(w, exists, p)
<1>4. LookedAt(w, exists, s) /\ sessions' = [sessions EXCEPT ![w] = s]
  BY <1>2, Looked, Zenon
<1>5. faulty' \in BOOLEAN /\ CardsOK'
  <2>1. NoFault \/ Fault
    BY <1>2
  <2> QED BY <1>1, <2>1, Faults, SameCards
<1> HIDE DEF s
<1>6. sessions' \in [Worker -> SessionState \cup {None}]
      /\ \A v \in Worker : sessions'[v] = IF v = w THEN s ELSE sessions[v]
  BY <1>4, Entries DEF LookedAt
<1>7. s # None /\ (w \notin respawned => s.card = card_map[w])
  BY <1>4, Entries DEF Agrees, LookedAt
<1>8. TypeOK'
  BY <1>1, <1>3, <1>5, <1>6 DEF Inv, KnowsItsWorkers, TypeOK, TmuxOK, CardsOK
<1>9. ASSUME NEW v \in Worker PROVE Agrees(v)' /\ (v = w => Judged(v)') /\ (v # w => (Judged(v)' <=> Judged(v)))
  <2>1. Agrees(v)
    BY Entries
  <2> QED BY <1>1, <1>6, <1>7, <2>1 DEF Agrees, Judged, Known
<1>10. \A v \in seen' \ left' : Judged(v)'
  <2> SUFFICES ASSUME NEW v \in seen' \ left' PROVE Judged(v)'
    OBVIOUS
  <2>1. v \in Worker /\ (v # w => v \in seen \ left)
    BY <1>1 DEF Inv, KnowsItsWorkers, TypeOK
  <2> QED BY <1>1, <1>9, <2>1 DEF Inv
<1> QED BY <1>1, <1>5, <1>8, <1>9, <1>10, Entries DEF Inv, KnowsItsWorkers, CardsOK

LEMMA EndRoundInv == Inv /\ EndRound => Inv'
<1> SUFFICES ASSUME Inv, EndRound PROVE Inv'
  OBVIOUS
<1> DEFINE kept(w) == Known(w) /\ (w \in seen \/ sessions[w].status = "Dead")
<1>1. /\ UNCHANGED <<alive, moved, pane, quiet, card_map, seen, left, disk, faulty>>
      /\ pc = "polling" /\ left = {} /\ pc' = "sleeping"
      /\ sessions' = [w \in Worker |-> IF kept(w) THEN sessions[w] ELSE None]
      /\ respawned' = {w \in respawned : sessions'[w] # None}
  BY DEF EndRound, tmux, bounds
<1>2. backoff' \in base_ms..max_ms
  <2>1. base_ms \in base_ms..max_ms /\ backoff \in base_ms..max_ms
    BY DEF Inv, KnowsItsWorkers, TypeOK
  <2>2. Least((backoff * 3) \div 2, max_ms) \in base_ms..max_ms
    BY <2>1, BackoffGrows
  <2> QED BY <2>1, <2>2 DEF EndRound
<1>3. ASSUME NEW w \in Worker
      PROVE  /\ sessions'[w] = IF kept(w) THEN sessions[w] ELSE None
             /\ Known(w)' <=> kept(w)
             /\ kept(w) => (w \in respawned' <=> w \in respawned)
  BY <1>1 DEF Known
<1>4. sessions' \in [Worker -> SessionState \cup {None}]
  BY <1>1, Entries
<1>5. TypeOK' /\ CardsOK'
  <2>1. CardsOK'
    BY <1>1, SameCards
  <2> QED BY <1>1, <1>2, <1>4, <2>1 DEF Inv, KnowsItsWorkers, TypeOK, Shown, CardsOK
<1>6. ASSUME NEW w \in Worker
      PROVE  /\ Agrees(w)'
             /\ w \in seen => Known(w)'
             /\ Known(w)' /\ w \notin seen => sessions'[w].status = "Dead"
             /\ w \in seen /\ w \notin respawned' => sessions'[w].card = card_map[w]
  <2>1. Agrees(w) /\ (w \in seen => Judged(w))
    BY <1>1 DEF Inv
  <2> QED BY <1>1, <1>3, <2>1 DEF Agrees, Judged, Known
<1>7. KnowsItsWorkers'
  BY <1>1, <1>5, <1>6, Entries DEF KnowsItsWorkers, CardsOK
<1> QED BY <1>1, <1>6, <1>7 DEF Inv

LEMMA SleepInv == Inv /\ Sleep => Inv'
<1> SUFFICES ASSUME Inv, Sleep PROVE Inv'
  OBVIOUS
<1>1. /\ UNCHANGED <<alive, moved, pane, sessions, card_map, backoff, disk, respawned, faulty>>
      /\ pc' = "commands" /\ seen' = {} /\ left' = {}
  BY DEF Sleep, memory, bounds
<1>2. quiet' \in 0..MaxQuiet
  <2>1. quiet + backoff \in Nat
    BY BoundsAreNat DEF Inv, KnowsItsWorkers, TypeOK
  <2>2. Least(quiet + backoff, MaxQuiet) \in 0..MaxQuiet
    BY <2>1, BoundsAreNat, LeastIsBounded
  <2> QED BY <2>2, BoundsAreNat DEF Sleep
<1>3. TypeOK' /\ CardsOK'
  <2>1. CardsOK'
    BY <1>1, SameCards
  <2> QED BY <1>1, <1>2, <2>1 DEF Inv, KnowsItsWorkers, TypeOK, Shown, CardsOK
<1>4. \A w \in Worker : Agrees(w)'
  BY <1>1 DEF Inv, Agrees, Known
<1> QED BY <1>1, <1>3, <1>4, Entries DEF Inv, KnowsItsWorkers, CardsOK

LEMMA RestartInv == Inv /\ Restart => Inv'
<1> SUFFICES ASSUME Inv, Restart PROVE Inv'
  OBVIOUS
<1>1. /\ UNCHANGED <<alive, moved, pane, quiet, card_file, assigned>>
      /\ sessions' = [w \in Worker |-> None] /\ card_map' = card_file /\ backoff' = base_ms
      /\ pc' = "commands" /\ seen' = {} /\ left' = {} /\ respawned' = {}
      /\ lost' = (lost \/ unsaved) /\ unsaved' = FALSE /\ faulty' = TRUE
  BY DEF Restart, tmux
<1>2. CardsOK'
  BY <1>1, InvCards DEF CardsOK
<1>3. TypeOK'
  <2>1. TmuxOK'
    BY <1>1, InvImplies, SameTmux DEF TmuxOK
  <2>2. sessions' \in [Worker -> SessionState \cup {None}] /\ backoff' \in base_ms..max_ms
    BY <1>1
  <2> QED BY <1>1, <1>2, <2>1, <2>2 DEF TypeOK, TmuxOK, CardsOK
<1>4. \A w \in Worker : Agrees(w)'
  BY <1>1 DEF Agrees, Known
<1> QED BY <1>1, <1>2, <1>3, <1>4 DEF Inv, KnowsItsWorkers, CardsOK

-----------------------------------------------------------------------------
LEMMA NextInv == Inv /\ [Next]_vars => Inv'
<1> SUFFICES ASSUME Inv, [Next]_vars PROVE Inv'
  OBVIOUS
<1>1. ASSUME NEW w \in Worker, Work(w) PROVE Inv'
  <2>1. alive' = [alive EXCEPT ![w] = TRUE]
    BY <1>1, StillThere, InvImplies DEF Work
  <2>2. TmuxOK'
    BY <1>1, <2>1, MoveOK, InvImplies DEF Work
  <2>3. faulty' \in BOOLEAN
    BY <1>1, Faults DEF Work, NoFault
  <2> QED BY <1>1, <2>2, <2>3, OnlyTmux DEF Work
<1>2. ASSUME NEW w \in Worker, Die(w) PROVE Inv'
  <2>1. faulty' \in BOOLEAN
    BY <1>2, Faults DEF Die
  <2> QED BY <1>2, <2>1, GoneOK, InvImplies, OnlyTmux DEF Die
<1>3. CASE handle_conductor_cmd
  <2> PICK w \in Worker :
        \/ \E c \in Card \cup {None}, saves \in BOOLEAN : SpawnWorker(w, c, saves)
        \/ \E c \in Card, saves \in BOOLEAN : ReassignCard(w, c, saves)
        \/ \E arrives \in BOOLEAN : ContextReset(w, arrives)
        \/ KillWorker(w) \/ SendToWorker(w) \/ RotateWorker(w)
    BY <1>3 DEF handle_conductor_cmd
  <2> QED BY SpawnInv, ReassignInv, KillInv, SendInv, RotateInv, ResetInv
<1>4. CASE Poll
  BY <1>4, ListInv, SnapshotInv, EndRoundInv, SleepInv DEF Poll
<1>5. CASE Restart
  BY <1>5, RestartInv
<1>6. CASE UNCHANGED vars
  <2>1. TmuxOK' /\ faulty' \in BOOLEAN
    BY <1>6, InvImplies, UnchangedOK, Faults DEF vars, NoFault
  <2> QED BY <1>6, <2>1, OnlyTmux DEF vars
<1> QED BY <1>1, <1>2, <1>3, <1>4, <1>5, <1>6 DEF Next

\* At the end of every round the supervisor has an entry for each worker it
\* listed, none but for those and those taken for dead, and each but those
\* spawned again over an old entry under the card of the map; the map holds what
\* the conductor assigned and the file holds the map, but for writes that failed
\* (poll.rs:45-202, 204-329, state.rs:48-69).
THEOREM KnowsItsWorkersAlways == Spec => []KnowsItsWorkers
<1>1. Inv => KnowsItsWorkers
  BY DEF Inv
<1> QED BY <1>1, InitInv, NextInv, PTL DEF Spec

-----------------------------------------------------------------------------
(* How long Watched has been silent, and what its entry says of it.          *)

Entry == sessions[Watched]
ToLook == pc = "commands" \/ (pc = "polling" /\ Watched \in left)
Starts == ~Known(Watched) \/ moved[Watched] \/ Entry.last = "never"

\* Each look that counted had an interval before it, and so has the one to come.
Counted(k) == quiet >= Threshold \/ quiet + NotCounted >= k * base_ms
NotBefore ==
  alive[Watched] /\ Known(Watched) /\ ~moved[Watched] /\ Entry.last = "full" =>
    Counted(IF ToLook THEN Entry.unchanged + 1 ELSE Entry.unchanged)

\* Without errors and restarts no look is left out, but the one that finds it new.
NotAfter ==
  ~faulty /\ alive[Watched] =>
    IF Starts THEN quiet <= (IF ToLook THEN max_ms ELSE 0)
    ELSE \/ Entry.unchanged = MaxUnchanged
         \/ quiet <= (Entry.unchanged + (IF ToLook THEN 2 ELSE 1)) * max_ms

NeverLooked == Known(Watched) /\ Entry.last = "never" => Entry.unchanged = 0
Listed == ~faulty /\ alive[Watched] /\ pc # "commands" => Watched \in seen
Emptied == ~faulty /\ alive[Watched] /\ Known(Watched) /\ Entry.last = "empty"
             => moved[Watched]

Timed == NotBefore /\ NotAfter /\ NeverLooked /\ Listed /\ Emptied

SameEntry ==
  /\ Known(Watched)' <=> Known(Watched)
  /\ Known(Watched) => /\ sessions'[Watched].last = Entry.last
                       /\ sessions'[Watched].unchanged = Entry.unchanged

LEMMA Numbers ==
  /\ Threshold \in Nat /\ NotCounted \in Nat
  /\ base_ms \in Nat /\ max_ms \in Nat /\ base_ms <= max_ms /\ base_ms > 0
  /\ Watched \in Worker
  BY DEF Threshold, NotCounted

LEMMA Watching ==
  ASSUME Inv
  PROVE  /\ quiet \in Nat /\ backoff \in Nat /\ base_ms <= backoff /\ backoff <= max_ms
         /\ pane[Watched] \in Shown(Watched)
         /\ moved \in [Worker -> BOOLEAN] /\ alive \in [Worker -> BOOLEAN]
         /\ sessions \in [Worker -> SessionState \cup {None}]
         /\ Known(Watched) => /\ Entry.unchanged \in 0..MaxUnchanged
                              /\ Entry.last \in {"never", "empty", "full"}
                              /\ Entry \in SessionState
         /\ pc \in {"commands", "polling", "sleeping"}
         /\ left \subseteq seen
<1>1. TypeOK
  BY InvImplies
<1>2. Known(Watched) => Entry \in SessionState
  BY <1>1 DEF TypeOK, Known, Entry
<1>3. quiet \in Nat /\ backoff \in Nat /\ base_ms <= backoff /\ backoff <= max_ms
  BY <1>1, BoundsAreNat DEF TypeOK
<1> QED BY <1>1, <1>2, <1>3 DEF TypeOK, SessionState

\* It moved, or the supervisor began to count anew.
LEMMA Anew ==
  ASSUME quiet' = 0, Starts' \/ ~alive'[Watched], NeverLooked', Listed'
  PROVE  Timed'
<1>1. NotBefore'
  BY DEF NotBefore, Starts, NeverLooked, Counted
<1>2. NotAfter'
  BY Numbers DEF NotAfter
<1>3. Emptied'
  BY DEF Emptied, Starts
<1> QED BY <1>1, <1>2, <1>3 DEF Timed

\* What was counted stays counted: an error only adds to what is not.
LEMMA StaysCounted ==
  ASSUME Inv, faulty => faulty', quiet' = quiet, NEW k \in Nat, Counted(k)
  PROVE  quiet' >= Threshold \/ quiet' + NotCounted' >= k * base_ms
<1>1. NotCounted <= NotCounted' /\ NotCounted' \in Nat
  BY Numbers DEF NotCounted
<1>2. k * base_ms \in Nat
  BY Times, Numbers
<1> QED BY <1>1, <1>2, Watching, Numbers DEF Counted

\* Nothing of it has changed.
LEMMA Untouched ==
  ASSUME Inv, Timed, faulty => faulty', quiet' = quiet,
         alive'[Watched] <=> alive[Watched], moved'[Watched] <=> moved[Watched],
         SameEntry, ToLook' <=> ToLook, Listed'
  PROVE  Timed'
<1>1. Starts' <=> Starts
  BY DEF Starts, SameEntry, Entry
<1>2. NotBefore'
  <2> SUFFICES ASSUME alive[Watched], Known(Watched), ~moved[Watched], Entry.last = "full"
               PROVE  \/ quiet' >= Threshold
                      \/ quiet' + NotCounted'
                           >= (IF ToLook THEN Entry.unchanged + 1 ELSE Entry.unchanged) * base_ms
    BY DEF NotBefore, SameEntry, Entry, Counted
  <2>1. Counted(IF ToLook THEN Entry.unchanged + 1 ELSE Entry.unchanged)
    BY DEF Timed, NotBefore
  <2>2. Entry.unchanged \in Nat /\ Entry.unchanged + 1 \in Nat
    BY Watching, BoundsAreNat
  <2> QED BY <2>1, <2>2, StaysCounted
<1>3. NotAfter'
  <2> SUFFICES ASSUME ~faulty', alive'[Watched]
               PROVE  IF Starts' THEN quiet' <= (IF ToLook' THEN max_ms ELSE 0)
                      ELSE \/ Entry'.unchanged = MaxUnchanged
                           \/ quiet' <= (Entry'.unchanged + (IF ToLook' THEN 2 ELSE 1)) * max_ms
    BY DEF NotAfter
  <2>1. ~faulty /\ alive[Watched] /\ NotAfter
    BY DEF Timed
  <2>2. CASE Starts
    BY <1>1, <2>1, <2>2 DEF NotAfter
  <2>3. CASE ~Starts
    <3>1. Entry'.unchanged = Entry.unchanged
      BY <2>3 DEF Starts, SameEntry, Entry
    <3> QED BY <1>1, <2>1, <2>3, <3>1 DEF NotAfter
  <2> QED BY <2>2, <2>3
<1>4. NeverLooked' /\ Emptied'
  BY DEF Timed, NeverLooked, Emptied, SameEntry, Entry
<1> QED BY <1>2, <1>3, <1>4 DEF Timed

\* The pane of a worker has moved, or its session is gone.
LEMMA PaneMoves ==
  ASSUME Inv, Timed, NEW w \in Worker, CountAnew(w), moved' = [moved EXCEPT ![w] = TRUE],
         \A v \in Worker \ {w} : alive'[v] <=> alive[v],
         alive'[Watched] => alive[Watched] \/ pc = "commands",
         UNCHANGED <<pc, seen, left>>, faulty => faulty', NeverLooked',
         w # Watched => SameEntry
  PROVE  Timed'
<1>1. Listed'
  BY DEF Timed, Listed
<1>3. CASE w = Watched
  <2>1. quiet' = 0 /\ moved'[Watched]
    BY <1>3, Watching DEF CountAnew
  <2> QED BY <1>1, <2>1, Anew DEF Starts
<1>4. CASE w # Watched
  <2>1. /\ quiet' = quiet /\ moved'[Watched] = moved[Watched]
        /\ alive'[Watched] <=> alive[Watched]
    BY <1>4, Watching, Numbers DEF CountAnew
  <2>2. ToLook' <=> ToLook
    BY DEF ToLook
  <2> QED BY <1>1, <1>4, <2>1, <2>2, Untouched
<1> QED BY <1>3, <1>4

\* What is read of a pane: its text, if there is any.
Readable(content) == content # ""

\* What a look makes of the count, and when the entry says frozen.
LEMMA LookCounts ==
  ASSUME Inv, NEW exists, NEW content
  PROVE  LET s == Look(Watched, exists, content) IN
         /\ s.last = IF Readable(content) THEN "full" ELSE "empty"
         /\ ~Known(Watched) => s.unchanged = 0
         /\ Known(Watched) => s.unchanged =
              IF Entry.last = "never" THEN Entry.unchanged
              ELSE IF Same(Watched, content) THEN Least(Entry.unchanged + 1, MaxUnchanged) ELSE 0
         /\ "Frozen" \in s.found <=>
              exists /\ (s.unchanged * backoff) \div 1000 >= frozen_threshold_secs
<1> DEFINE w == Watched
           entry == IF Known(w) THEN sessions[w] ELSE SessionState_new
           carded == [entry EXCEPT !.card = IF @ = None THEN card_map[w] ELSE @]
           same == Known(w) /\ Same(w, content)
           updated == update_from_snapshot(carded, same, content)
           drift == IF updated.unchanged > 0 THEN updated.off
                    ELSE IF frontier_drifted(carded, content) THEN Least(updated.off + 1, MaxDrift)
                    ELSE 0
           s == [updated EXCEPT !.off = drift]
           found == detect_all(s, exists, content)
           l == IF content = "" THEN "empty" ELSE "full"
           n == IF carded.last = "never" THEN carded.unchanged
                ELSE IF same THEN Least(carded.unchanged + 1, MaxUnchanged) ELSE 0
<1>1. Look(w, exists, content) = [s EXCEPT !.status = StatusOf(s, found), !.found = found]
  BY DEF Look
<1>2. entry \in SessionState /\ entry.card \in AnyCard
  BY Entries, NewIsState DEF SessionState
<1>3. /\ ~Known(w) => entry.last = "never" /\ entry.unchanged = 0
      /\ Known(w) => entry = Entry
  BY DEF SessionState_new, Entry
<1> HIDE DEF entry
<1>4. carded \in SessionState /\ carded.last = entry.last /\ carded.unchanged = entry.unchanged
  <2>1. (IF entry.card = None THEN card_map[w] ELSE entry.card) \in AnyCard
    BY <1>2, Entries
  <2>2. carded = [entry EXCEPT !.card = IF entry.card = None THEN card_map[w] ELSE entry.card]
    OBVIOUS
  <2> QED BY <1>2, <2>1, <2>2 DEF SessionState
<1> HIDE DEF carded
<1>5. updated = [carded EXCEPT !.last = l, !.unchanged = n]
  BY Zenon DEF update_from_snapshot
<1>6. updated \in SessionState
  BY <1>4, Updated
<1> HIDE DEF l, n
<1>7. updated.last = l /\ updated.unchanged = n
  BY <1>4, <1>5 DEF SessionState
<1> HIDE DEF updated, drift
<1>8. s.last = l /\ s.unchanged = n /\ s.off = drift
      /\ Look(w, exists, content).last = s.last
      /\ Look(w, exists, content).unchanged = s.unchanged
      /\ Look(w, exists, content).found = found
  BY <1>1, <1>6, <1>7 DEF SessionState
<1> HIDE DEF s
<1>9. "Frozen" \in found <=> exists /\ detect_frozen(s)
  <2>1. CASE ~exists
    BY <2>1, Zenon DEF detect_all
  <2>2. CASE exists
    <3>1. "Frozen" \in Failure
      BY DEF Failure
    <3> QED BY <2>2, <3>1, Zenon DEF detect_all
  <2> QED BY <2>1, <2>2
<1> HIDE DEF found
<1>11. n = IF entry.last = "never" THEN entry.unchanged
           ELSE IF same THEN Least(entry.unchanged + 1, MaxUnchanged) ELSE 0
  BY <1>4 DEF n
<1>12. Look(w, exists, content).last = IF Readable(content) THEN "full" ELSE "empty"
  <2>1. CASE content = ""
    BY <1>8, <2>1, Zenon DEF l, Readable
  <2>2. CASE content # ""
    BY <1>8, <2>2, Zenon DEF l, Readable
  <2> QED BY <2>1, <2>2, Zenon
<1>13. "Frozen" \in Look(w, exists, content).found <=>
         exists /\ (Look(w, exists, content).unchanged * backoff) \div 1000 >= frozen_threshold_secs
  BY <1>8, <1>9 DEF detect_frozen
<1>14. ~Known(w) => Look(w, exists, content).unchanged = 0
  BY <1>3, <1>8, <1>11, Zenon
<1>15. Known(w) => Look(w, exists, content).unchanged =
         IF Entry.last = "never" THEN Entry.unchanged
         ELSE IF Same(w, content) THEN Least(Entry.unchanged + 1, MaxUnchanged) ELSE 0
  BY <1>3, <1>8, <1>11
<1> QED BY <1>12, <1>13, <1>14, <1>15, Zenon

\* The threshold is met when the count of looks times the interval meets it.
LEMMA FrozenMeans ==
  ASSUME NEW n \in Nat
  PROVE  n \div 1000 >= frozen_threshold_secs <=> n >= Threshold
  BY DEF Threshold

\* What a look at Watched leaves: its entry is looked at, and the pane moves if
\* it is typed at, or not at all, or nobody can tell because it was not read.
Leaves(exists, p) ==
  /\ Known(Watched)' /\ Entry' = Look(Watched, exists, p)
  /\ faulty => faulty'
  /\ exists => alive[Watched]
  /\ ~exists => ~Readable(p)
  /\ ~faulty' /\ alive[Watched] => exists /\ p = pane[Watched]
  /\ \/ alive[Watched] /\ moved'[Watched] /\ quiet' = 0
     \/ /\ moved'[Watched] <=> ~alive[Watched] \/ p # pane[Watched]
        /\ quiet' = IF Known(Watched) THEN quiet ELSE 0

LEMMA LookLeaves ==
  ASSUME Inv, Snapshot(Watched)
  PROVE  \E exists, p : Leaves(exists, p)
<1>1. PICK exists \in {alive[Watched], FALSE}, p \in {pane[Watched], ""} :
        /\ ~exists => p = ""
        /\ IF exists = alive[Watched] /\ p = pane[Watched] THEN NoFault ELSE Fault
        /\ sessions' = [sessions EXCEPT ![Watched] = Look(Watched, exists, p)]
        /\ \/ /\ Look(Watched, exists, p).found \cap {"Frozen", "Deranged"} # {}
              /\ Move(Watched)
           \/ /\ moved' = [moved EXCEPT ![Watched] = ~alive[Watched] \/ p # pane[Watched]]
              /\ IF Known(Watched) THEN UNCHANGED quiet ELSE CountAnew(Watched)
  BY Zenon DEF Snapshot
<1>2. Look(Watched, exists, p) \in SessionState
  BY Looked, Numbers DEF LookedAt
<1>3. Known(Watched)' /\ Entry' = Look(Watched, exists, p)
  BY <1>1, <1>2, Watching, Numbers DEF Known, Entry
<1>4. NoFault \/ Fault
  BY <1>1
<1>5. faulty => faulty'
  BY <1>4, Faults
<1>6. ~faulty' /\ alive[Watched] => exists /\ p = pane[Watched]
  <2>1. CASE NoFault /\ exists = alive[Watched] /\ p = pane[Watched]
    BY <2>1
  <2>2. CASE Fault
    BY <2>2 DEF Fault, Event
  <2> QED BY <1>1, <2>1, <2>2, Zenon
<1>7. (exists => alive[Watched]) /\ (~exists => ~Readable(p))
  BY <1>1, Zenon DEF Readable
<1>8. CASE Look(Watched, exists, p).found \cap {"Frozen", "Deranged"} # {} /\ Move(Watched)
  <2>1. alive[Watched]
    BY <1>8, TypedAt, Numbers
  <2>2. moved'[Watched] /\ quiet' = 0
    BY <1>8, Watching, Numbers DEF Move, CountAnew
  <2> QED BY <1>3, <1>5, <1>6, <1>7, <2>1, <2>2, Zenon DEF Leaves
<1>9. CASE /\ moved' = [moved EXCEPT ![Watched] = ~alive[Watched] \/ p # pane[Watched]]
           /\ IF Known(Watched) THEN UNCHANGED quiet ELSE CountAnew(Watched)
  <2>1. quiet' = IF Known(Watched) THEN quiet ELSE 0
    BY <1>9 DEF CountAnew
  <2>2. moved'[Watched] <=> ~alive[Watched] \/ p # pane[Watched]
    BY <1>9, Watching, Numbers
  <2> QED BY <1>3, <1>5, <1>6, <1>7, <2>1, <2>2, Zenon DEF Leaves
<1> QED BY <1>1, <1>8, <1>9

LEMMA CountsDown ==
  ASSUME NEW k \in Nat, NEW n \in Nat, n <= k, quiet \in Nat, Counted(k)
  PROVE  Counted(n)
<1>1. n * base_ms <= k * base_ms /\ n * base_ms \in Nat /\ k * base_ms \in Nat
  BY TimesGrows, Times, Numbers
<1> QED BY <1>1, Numbers DEF Counted

LEMMA SameMeans ==
  ASSUME Inv, Known(Watched), NEW content, content # ""
  PROVE  Same(Watched, content) <=> Entry.last = "full" /\ ~moved[Watched]
<1>1. Entry.last \in {"never", "empty", "full"}
  BY Watching
<1>2. CASE Entry.last = "never"
  <2>1. Same(Watched, content) = FALSE
    BY <1>2, Zenon DEF Same, Entry
  <2> QED BY <1>2, <2>1
<1>3. CASE Entry.last = "empty"
  <2>1. Same(Watched, content) <=> content = ""
    BY <1>3, Zenon DEF Same, Entry
  <2>2. ~Same(Watched, content)
    BY <2>1, Zenon
  <2> QED BY <1>3, <2>2
<1>4. CASE Entry.last = "full"
  <2>1. Same(Watched, content) <=> ~moved[Watched] /\ content # ""
    BY <1>4, Zenon DEF Same, Entry
  <2> QED BY <1>4, <2>1, Zenon
<1> QED BY <1>1, <1>2, <1>3, <1>4

\* What the two ends of the interval make of a count of looks.
LEMMA Early ==
  ASSUME NEW q \in Nat, NEW n \in Nat, NEW b \in Nat, b <= max_ms,
         q >= n * base_ms, n * b >= Threshold
  PROVE  max_ms * q >= base_ms * Threshold
<1>1. n * b <= n * max_ms /\ n * max_ms \in Nat /\ n * base_ms \in Nat
  BY Times, TimesGrows, Numbers
<1>2. Threshold <= n * max_ms
  BY <1>1, Times, Numbers
<1>3. base_ms * Threshold <= base_ms * (n * max_ms)
  BY <1>1, <1>2, Times, TimesGrows, Numbers
<1>4. max_ms * (n * base_ms) <= max_ms * q
  BY <1>1, Times, TimesGrows, Numbers
<1>5. base_ms * (n * max_ms) = max_ms * (n * base_ms)
  BY Numbers
<1>6. /\ base_ms * Threshold \in Nat /\ base_ms * (n * max_ms) \in Nat
      /\ max_ms * q \in Nat
  BY <1>1, Times, Numbers
<1> QED BY <1>3, <1>4, <1>5, <1>6

LEMMA Late ==
  ASSUME NEW q \in Nat, NEW n \in Nat, NEW b \in Nat, base_ms <= b,
         q <= (n + 1) * max_ms, base_ms * q >= max_ms * (Threshold + base_ms)
  PROVE  n * b >= Threshold
<1> DEFINE m == n * base_ms + base_ms
<1>1. n * base_ms \in Nat /\ n * base_ms <= n * b /\ n * b \in Nat
  BY Times, TimesGrows, Numbers
<1>2. m \in Nat /\ (n + 1) * base_ms = m /\ (n + 1) * max_ms \in Nat
  BY <1>1, Times, Numbers
<1>3. base_ms * ((n + 1) * max_ms) = max_ms * ((n + 1) * base_ms)
  BY Numbers
<1>4. base_ms * q <= base_ms * ((n + 1) * max_ms)
  BY <1>2, Times, TimesGrows, Numbers
<1> HIDE DEF m
<1>5. max_ms * (Threshold + base_ms) <= max_ms * m
  <2>1. /\ base_ms * q \in Nat /\ max_ms * m \in Nat
        /\ max_ms * (Threshold + base_ms) \in Nat
    BY <1>2, Times, Numbers
  <2> QED BY <1>2, <1>3, <1>4, <2>1
<1>6. Threshold + base_ms <= m
  <2> SUFFICES ASSUME m + 1 <= Threshold + base_ms PROVE FALSE
    BY <1>2, Numbers
  <2>0. m + 1 \in Nat /\ Threshold + base_ms \in Nat /\ max_ms \in Nat
    BY <1>2, Numbers
  <2>1. (m + 1) * max_ms <= (Threshold + base_ms) * max_ms
    BY <2>0, TimesGrows
  <2>2. /\ (m + 1) * max_ms = m * max_ms + max_ms /\ m * max_ms = max_ms * m
        /\ (Threshold + base_ms) * max_ms = max_ms * (Threshold + base_ms)
        /\ m * max_ms \in Nat
    BY <1>2, Times, Numbers
  <2>3. max_ms > 0
    BY Numbers
  <2> QED BY <1>5, <2>1, <2>2, <2>3, Numbers
<1> QED BY <1>1, <1>6, Numbers DEF m

LEMMA EnoughLooks ==
  ASSUME NEW b \in Nat, base_ms <= b
  PROVE  MaxUnchanged * b >= Threshold
<1>1. (Threshold \div base_ms + 1) * base_ms >= Threshold
  BY Numbers
<1>2. MaxUnchanged * base_ms <= MaxUnchanged * b
  BY Times, TimesGrows, BoundsAreNat, Numbers
<1>3. MaxUnchanged * base_ms \in Nat /\ MaxUnchanged * b \in Nat
  BY Times, BoundsAreNat, Numbers
<1> QED BY <1>1, <1>2, <1>3, Numbers DEF MaxUnchanged

InTime ==
  /\ FoundFrozen' /\ Read' => max_ms * (quiet + NotCounted) >= base_ms * Threshold
  /\ base_ms * quiet >= max_ms * (Threshold + base_ms) /\ ~faulty' /\ alive[Watched]
       => FoundFrozen'

LEMMA LookReads ==
  ASSUME Inv, NEW exists, NEW content
  PROVE  LET s == Look(Watched, exists, content) IN
         /\ s.last = IF Readable(content) THEN "full" ELSE "empty"
         /\ ~Known(Watched) => s.unchanged = 0
         /\ Known(Watched) /\ Entry.last = "never" => s.unchanged = Entry.unchanged
         /\ Known(Watched) /\ Entry.last # "never" /\ Readable(content) => s.unchanged =
              IF Entry.last = "full" /\ ~moved[Watched]
              THEN Least(Entry.unchanged + 1, MaxUnchanged) ELSE 0
<1>1. ASSUME Known(Watched), Readable(content)
      PROVE  Same(Watched, content) <=> Entry.last = "full" /\ ~moved[Watched]
  BY <1>1, SameMeans, Zenon DEF Readable
<1> DEFINE s == Look(Watched, exists, content)
<1>2. s.last = IF Readable(content) THEN "full" ELSE "empty"
  BY LookCounts
<1>3. /\ ~Known(Watched) => s.unchanged = 0
      /\ Known(Watched) => s.unchanged =
           IF Entry.last = "never" THEN Entry.unchanged
           ELSE IF Same(Watched, content) THEN Least(Entry.unchanged + 1, MaxUnchanged) ELSE 0
  BY LookCounts
<1> HIDE DEF s
<1>4. Known(Watched) /\ Entry.last # "never" /\ Readable(content) => s.unchanged =
        IF Entry.last = "full" /\ ~moved[Watched]
        THEN Least(Entry.unchanged + 1, MaxUnchanged) ELSE 0
  BY <1>1, <1>3, Zenon
<1>5. Known(Watched) /\ Entry.last = "never" => s.unchanged = Entry.unchanged
  BY <1>3, Zenon
<1> QED BY <1>2, <1>3, <1>4, <1>5, Zenon DEF s

\* A count that says so much has had its intervals.
LEMMA LookEarly ==
  ASSUME Inv, Timed, Snapshot(Watched), NEW exists, NEW p, Readable(p), alive[Watched]
  PROVE  Counted(Look(Watched, exists, p).unchanged)
<1> DEFINE n == Look(Watched, exists, p).unchanged
<1>1. ToLook
  BY DEF Snapshot, ToLook
<1>2. Counted(0)
  BY Watching, Numbers DEF Counted
<1>3. CASE ~Known(Watched)
  BY <1>2, <1>3, LookReads
<1>4. CASE Known(Watched) /\ Entry.last = "never"
  BY <1>2, <1>4, LookReads DEF Timed, NeverLooked
<1>5. CASE Known(Watched) /\ Entry.last # "never" /\ ~(Entry.last = "full" /\ ~moved[Watched])
  <2>1. n = 0
    BY <1>5, LookReads, Zenon
  <2> QED BY <1>2, <2>1
<1>6. CASE Known(Watched) /\ Entry.last = "full" /\ ~moved[Watched]
  <2>1. n = Least(Entry.unchanged + 1, MaxUnchanged)
    <3>1. Entry.last # "never"
      BY <1>6
    <3> QED BY <1>6, <3>1, LookReads, Zenon
  <2>2. Entry.unchanged \in Nat
    BY <1>6, Watching, BoundsAreNat
  <2>3. Counted(Entry.unchanged + 1)
    BY <1>1, <1>6 DEF Timed, NotBefore
  <2> HIDE DEF n
  <2>4. n \in Nat /\ n <= Entry.unchanged + 1 /\ Entry.unchanged + 1 \in Nat
    BY <2>1, <2>2, BoundsAreNat DEF Least
  <2>5. Counted(n)
    BY <2>3, <2>4, Watching, CountsDown
  <2> QED BY <2>5 DEF n
<1> QED BY <1>3, <1>4, <1>5, <1>6

\* One that has been quiet has been counted.
LEMMA LookLate ==
  ASSUME Inv, Timed, Snapshot(Watched), NEW exists, NEW p, Readable(p), alive[Watched], ~faulty
  PROVE  \/ Look(Watched, exists, p).unchanged = MaxUnchanged
         \/ quiet <= (Look(Watched, exists, p).unchanged + 1) * max_ms
<1> DEFINE n == Look(Watched, exists, p).unchanged
<1>1. ToLook
  BY DEF Snapshot, ToLook
<1>2. n \in Nat
  <2>1. Look(Watched, exists, p) \in SessionState
    BY Looked, Numbers DEF LookedAt
  <2> QED BY <2>1, BoundsAreNat DEF SessionState
<1>3. CASE Starts
  <2>1. quiet <= max_ms
    BY <1>1, <1>3 DEF Timed, NotAfter
  <2> HIDE DEF n
  <2>2. (n + 1) * max_ms = n * max_ms + max_ms /\ n * max_ms \in Nat
    BY <1>2, Times, Numbers
  <2>3. quiet <= (n + 1) * max_ms
    BY <2>1, <2>2, Watching, Numbers
  <2> QED BY <2>3 DEF n
<1>4. CASE ~Starts
  <2>1. Known(Watched) /\ ~moved[Watched] /\ Entry.last = "full"
    BY <1>4, Watching DEF Starts, Timed, Emptied
  <2>2. n = Least(Entry.unchanged + 1, MaxUnchanged)
    <3>1. Entry.last # "never"
      BY <2>1
    <3> QED BY <2>1, <3>1, LookReads, Zenon
  <2>3. \/ Entry.unchanged = MaxUnchanged
        \/ quiet <= (Entry.unchanged + 2) * max_ms
    BY <1>1, <1>4 DEF Timed, NotAfter
  <2>4. Entry.unchanged \in Nat
    BY <2>1, Watching, BoundsAreNat
  <2> HIDE DEF n
  <2>5. n = MaxUnchanged \/ (n = Entry.unchanged + 1 /\ Entry.unchanged # MaxUnchanged)
    BY <2>2, <2>4, BoundsAreNat DEF Least
  <2>6. n = MaxUnchanged \/ quiet <= (n + 1) * max_ms
    <3>1. CASE n = Entry.unchanged + 1 /\ Entry.unchanged # MaxUnchanged
      <4>1. n + 1 = Entry.unchanged + 2
        BY <2>4, <3>1
      <4> QED BY <2>3, <3>1, <4>1
    <3> QED BY <2>5, <3>1
  <2> QED BY <2>6 DEF n
<1> QED BY <1>3, <1>4

LEMMA LookTimed ==
  ASSUME Inv, Timed, Snapshot(Watched)
  PROVE  Timed' /\ InTime
<1>0. PICK exists, p : Leaves(exists, p)
  BY LookLeaves
<1>1. /\ Known(Watched)' /\ Entry' = Look(Watched, exists, p)
      /\ faulty => faulty'
      /\ exists => alive[Watched]
      /\ ~exists => ~Readable(p)
      /\ ~faulty' /\ alive[Watched] => exists /\ p = pane[Watched]
      /\ \/ alive[Watched] /\ moved'[Watched] /\ quiet' = 0
         \/ /\ moved'[Watched] <=> ~alive[Watched] \/ p # pane[Watched]
            /\ quiet' = IF Known(Watched) THEN quiet ELSE 0
  BY <1>0, Zenon DEF Leaves
<1> DEFINE n == Look(Watched, exists, p).unchanged
<1>2. UNCHANGED <<alive, pc, seen>> /\ pc = "polling" /\ left' = left \ {Watched} /\ ~ToLook'
  BY DEF Snapshot, ToLook
<1>3. Entry'.last = (IF Readable(p) THEN "full" ELSE "empty") /\ Entry'.unchanged = n
  BY <1>1, LookReads
<1>4. /\ ~faulty' => ~faulty
      /\ ~faulty' /\ alive[Watched] => exists /\ Readable(p) /\ p = pane[Watched]
  <2>1. alive[Watched] => Readable(pane[Watched])
    <3>1. pane[Watched] \in Shown(Watched)
      BY Watching
    <3> QED BY <3>1, ShowsAssumption, Numbers, Zenon DEF Shown, Readable
  <2> QED BY <1>1, <2>1, Zenon
<1>5. n \in Nat /\ (~Known(Watched) => n = 0)
  <2>1. Look(Watched, exists, p) \in SessionState
    BY Looked, Numbers DEF LookedAt
  <2> QED BY <2>1, BoundsAreNat, LookReads DEF SessionState
<1>6. alive[Watched] /\ Readable(p) => Counted(n)
  BY LookEarly
<1>7. ~faulty /\ alive[Watched] /\ Readable(p) => n = MaxUnchanged \/ quiet <= (n + 1) * max_ms
  BY LookLate
<1>8. "Frozen" \in Entry'.found <=> exists /\ n * backoff >= Threshold
  <2>1. "Frozen" \in Look(Watched, exists, p).found <=>
          exists /\ (n * backoff) \div 1000 >= frozen_threshold_secs
    BY LookCounts
  <2> HIDE DEF n
  <2>2. n * backoff \in Nat
    BY <1>5, Watching, Times
  <2>3. (n * backoff) \div 1000 >= frozen_threshold_secs <=> n * backoff >= Threshold
    BY <2>2, FrozenMeans
  <2>4. "Frozen" \in Entry'.found <=> "Frozen" \in Look(Watched, exists, p).found
    BY <1>1
  <2>5. "Frozen" \in Look(Watched, exists, p).found <=> exists /\ n * backoff >= Threshold
    BY <2>1, <2>3
  <2> QED BY <2>4, <2>5
<1> HIDE DEF n
<1>9. FoundFrozen' <=> exists /\ n * backoff >= Threshold
  BY <1>1, <1>8 DEF FoundFrozen, Entry
<1>10. NotBefore'
  <2> SUFFICES ASSUME alive[Watched], ~moved'[Watched], Readable(p)
               PROVE  quiet' >= Threshold \/ quiet' + NotCounted' >= n * base_ms
    BY <1>2, <1>3 DEF NotBefore, Counted
  <2>1. CASE Known(Watched)
    <3>1. quiet' = quiet
      BY <1>1, <2>1
    <3> QED BY <1>1, <1>5, <1>6, <3>1, StaysCounted
  <2>2. CASE ~Known(Watched)
    <3>1. quiet' = 0 /\ n = 0 /\ NotCounted' \in Nat
      BY <1>1, <1>5, <2>2, Numbers DEF NotCounted
    <3> QED BY <3>1, Numbers
  <2> QED BY <2>1, <2>2
<1>11. NotAfter'
  <2> SUFFICES ASSUME ~faulty', alive[Watched]
               PROVE  IF moved'[Watched] THEN quiet' <= 0
                      ELSE n = MaxUnchanged \/ quiet' <= (n + 1) * max_ms
    BY <1>1, <1>2, <1>3 DEF NotAfter, Starts
  <2>1. Readable(p) /\ p = pane[Watched] /\ ~faulty
    BY <1>4
  <2>2. CASE moved'[Watched]
    BY <1>1, <2>1, <2>2
  <2>3. CASE ~moved'[Watched] /\ Known(Watched)
    BY <1>1, <1>7, <2>1, <2>3
  <2>4. CASE ~moved'[Watched] /\ ~Known(Watched)
    <3>1. quiet' = 0 /\ n = 0
      BY <1>1, <1>5, <2>4
    <3> QED BY <2>4, <3>1, Numbers
  <2> QED BY <2>2, <2>3, <2>4
<1>12. NeverLooked' /\ Listed' /\ Emptied'
  BY <1>2, <1>3, <1>4 DEF Timed, NeverLooked, Listed, Emptied
<1>13. Timed'
  BY <1>10, <1>11, <1>12 DEF Timed
<1>14. ASSUME FoundFrozen', Read' PROVE max_ms * (quiet + NotCounted) >= base_ms * Threshold
  <2>1. Readable(p)
    BY <1>3, <1>14 DEF Read, Entry
  <2>2. Counted(n) /\ n * backoff >= Threshold
    BY <1>1, <1>6, <1>9, <1>14, <2>1
  <2> DEFINE q == quiet + NotCounted
  <2>3. q \in Nat /\ quiet <= q
    BY Watching, Numbers
  <2>4. CASE quiet >= Threshold
    <3> HIDE DEF q
    <3>1. Threshold <= q
      BY <2>3, <2>4, Watching, Numbers
    <3>2. base_ms * Threshold <= max_ms * Threshold
      BY TimesGrows, Numbers
    <3>3. Threshold * max_ms <= q * max_ms
      BY <2>3, <3>1, TimesGrows, Numbers
    <3>4. /\ q * max_ms = max_ms * q /\ Threshold * max_ms = max_ms * Threshold
          /\ base_ms * Threshold \in Nat /\ max_ms * Threshold \in Nat /\ max_ms * q \in Nat
      BY <2>3, Times, Numbers
    <3>5. max_ms * q >= base_ms * Threshold
      BY <3>2, <3>3, <3>4
    <3> QED BY <3>5 DEF q
  <2>5. CASE q >= n * base_ms
    <3> HIDE DEF q
    <3>1. max_ms * q >= base_ms * Threshold
      BY <1>5, <2>2, <2>3, <2>5, Watching, Early
    <3> QED BY <3>1 DEF q
  <2> QED BY <2>2, <2>4, <2>5 DEF Counted
<1>15. ASSUME base_ms * quiet >= max_ms * (Threshold + base_ms), ~faulty', alive[Watched]
       PROVE  FoundFrozen'
  <2>0. exists
    BY <1>4, <1>15
  <2>1. n = MaxUnchanged \/ quiet <= (n + 1) * max_ms
    BY <1>4, <1>7, <1>15
  <2>2. CASE n = MaxUnchanged
    BY <1>9, <2>0, <2>2, Watching, EnoughLooks
  <2>3. CASE quiet <= (n + 1) * max_ms
    <3>1. n * backoff >= Threshold
      BY <1>5, <1>15, <2>3, Watching, Late
    <3> QED BY <1>9, <2>0, <3>1
  <2> QED BY <2>1, <2>2, <2>3
<1>16. InTime
  BY <1>14, <1>15 DEF InTime
<1> QED BY <1>13, <1>16

-----------------------------------------------------------------------------
(* What the other steps leave of it.                                         *)

LEMMA EntryStays ==
  ASSUME NeverLooked, sessions'[Watched] = sessions[Watched]
  PROVE  NeverLooked' /\ SameEntry
  BY DEF NeverLooked, SameEntry, Known, Entry

LEMMA MovesElsewhere ==
  ASSUME Inv, NEW w \in Worker \ {Watched}, CountAnew(w),
         moved' = [moved EXCEPT ![w] = TRUE]
  PROVE  quiet' = quiet /\ moved'[Watched] = moved[Watched]
  BY Watching, Numbers DEF CountAnew

LEMMA WorkTimed ==
  ASSUME Inv, Timed, NEW w \in Worker, Work(w)
  PROVE  Timed'
<1>1. /\ CountAnew(w) /\ moved' = [moved EXCEPT ![w] = TRUE]
      /\ UNCHANGED <<alive, sessions, pc, seen, left, faulty>>
  BY DEF Work, Move, memory, round, bounds
<1>2. NeverLooked' /\ SameEntry
  BY <1>1, EntryStays DEF Timed
<1> QED BY <1>1, <1>2, PaneMoves

LEMMA GoneTimed ==
  ASSUME Inv, Timed, NEW w \in Worker, Gone(w), UNCHANGED <<pc, seen, left>>,
         faulty => faulty', NeverLooked', w # Watched => SameEntry
  PROVE  Timed'
<1>1. /\ CountAnew(w) /\ moved' = [moved EXCEPT ![w] = TRUE]
      /\ alive' = [alive EXCEPT ![w] = FALSE]
  BY DEF Gone
<1>2. \A v \in Worker \ {w} : alive'[v] = alive[v]
  BY <1>1, Watching
<1>3. alive'[Watched] => alive[Watched]
  BY <1>1, Watching, Numbers
<1> QED BY <1>1, <1>2, <1>3, PaneMoves

LEMMA DieTimed ==
  ASSUME Inv, Timed, NEW w \in Worker, Die(w)
  PROVE  Timed'
<1>1. UNCHANGED <<sessions, pc, seen, left>> /\ Gone(w) /\ (faulty => faulty')
  BY Faults DEF Die, memory, round
<1>2. NeverLooked' /\ SameEntry
  BY <1>1, EntryStays DEF Timed
<1> QED BY <1>1, <1>2, GoneTimed

\* A session may be started, its pane may move, or nothing may happen to it.
LEMMA TypedTimed ==
  ASSUME Inv, Timed, NEW w \in Worker, UNCHANGED <<pc, seen, left>>, pc = "commands",
         faulty => faulty', NeverLooked', SameEntry,
         \/ UNCHANGED tmux
         \/ Move(w) /\ (alive' = [alive EXCEPT ![w] = TRUE] \/ UNCHANGED alive)
  PROVE  Timed'
<1>1. Listed'
  BY DEF Listed
<1>2. CASE UNCHANGED tmux
  <2>1. UNCHANGED <<alive, moved, quiet>> /\ (ToLook' <=> ToLook)
    BY <1>2 DEF tmux, ToLook
  <2> QED BY <1>1, <2>1, Untouched
<1>3. CASE Move(w) /\ (alive' = [alive EXCEPT ![w] = TRUE] \/ UNCHANGED alive)
  <2>1. CountAnew(w) /\ moved' = [moved EXCEPT ![w] = TRUE]
    BY <1>3 DEF Move
  <2>2. \A v \in Worker \ {w} : alive'[v] = alive[v]
    BY <1>3, Watching
  <2> QED BY <2>1, <2>2, PaneMoves
<1> QED BY <1>2, <1>3

LEMMA SpawnTimed ==
  ASSUME Inv, Timed, NEW w \in Worker, NEW c \in Card \cup {None}, NEW saves \in BOOLEAN,
         SpawnWorker(w, c, saves)
  PROVE  Timed'
<1>1. UNCHANGED <<sessions, pc, seen, left>> /\ pc = "commands" /\ (faulty => faulty')
  BY Faults DEF SpawnWorker, Command, round
<1>2. NeverLooked' /\ SameEntry
  BY <1>1, EntryStays DEF Timed
<1>3. \/ UNCHANGED tmux
      \/ Move(w) /\ alive' = [alive EXCEPT ![w] = TRUE]
  BY DEF SpawnWorker, new_session
<1> QED BY <1>1, <1>2, <1>3, TypedTimed

LEMMA SendTimed ==
  ASSUME Inv, Timed, NEW w \in Worker, SendToWorker(w)
  PROVE  Timed'
<1>1. UNCHANGED <<sessions, pc, seen, left>> /\ pc = "commands" /\ (faulty => faulty')
  BY Faults DEF SendToWorker, Command, memory, round
<1>2. NeverLooked' /\ SameEntry
  BY <1>1, EntryStays DEF Timed
<1>3. UNCHANGED tmux \/ (Move(w) /\ UNCHANGED alive)
  BY DEF SendToWorker, send_keys
<1> QED BY <1>1, <1>2, <1>3, TypedTimed

LEMMA ReassignTimed ==
  ASSUME Inv, Timed, NEW w \in Worker, NEW c \in Card, NEW saves \in BOOLEAN,
         ReassignCard(w, c, saves)
  PROVE  Timed'
<1>1. UNCHANGED <<pc, seen, left>> /\ pc = "commands" /\ (faulty => faulty')
      /\ sessions' = IF Known(w) THEN [sessions EXCEPT ![w].card = c, ![w].off = 0] ELSE sessions
  BY Faults DEF ReassignCard, Command, round, Reassigned
<1>2. NeverLooked' /\ SameEntry
  <2>1. CASE Known(w) /\ w = Watched
    <3> DEFINE s == [Entry EXCEPT !.card = c, !.off = 0]
    <3>1. sessions'[Watched] = s
      BY <1>1, <2>1, Watching, Numbers DEF Entry
    <3>2. /\ s.last = Entry.last /\ s.unchanged = Entry.unchanged
          /\ s \in SessionState
      <4>1. c \in AnyCard
        BY DEF AnyCard
      <4> QED BY <2>1, <4>1, Watching, ZeroIsCount DEF SessionState
    <3> HIDE DEF s
    <3>3. Known(Watched)'
      BY <3>1, <3>2 DEF Known
    <3> QED BY <2>1, <3>1, <3>2, <3>3 DEF Timed, NeverLooked, SameEntry, Entry
  <2>2. CASE ~(Known(w) /\ w = Watched)
    <3>1. sessions'[Watched] = sessions[Watched]
      BY <1>1, <2>2, Watching, Numbers
    <3> QED BY <3>1, EntryStays DEF Timed
  <2> QED BY <2>1, <2>2
<1>3. UNCHANGED tmux \/ (Move(w) /\ UNCHANGED alive)
  BY DEF ReassignCard, send_keys
<1> QED BY <1>1, <1>2, <1>3, TypedTimed

LEMMA KillTimed ==
  ASSUME Inv, Timed, NEW w \in Worker, KillWorker(w)
  PROVE  Timed'
<1>1. /\ UNCHANGED <<pc, seen, left>> /\ pc = "commands" /\ (faulty => faulty')
      /\ sessions' = [sessions EXCEPT ![w] = None]
  BY Faults DEF KillWorker, Command, round
<1>2. /\ w = Watched => ~Known(Watched)'
      /\ w # Watched => sessions'[Watched] = sessions[Watched]
  BY <1>1, Watching, Numbers DEF Known
<1>3. NeverLooked' /\ (w # Watched => SameEntry)
  <2>1. CASE w = Watched
    BY <1>2, <2>1 DEF NeverLooked
  <2>2. CASE w # Watched
    BY <1>2, <2>2, EntryStays DEF Timed
  <2> QED BY <2>1, <2>2
<1>4. CASE Gone(w)
  BY <1>1, <1>3, <1>4, GoneTimed
<1>5. CASE Left(w)
  <2>1. CountAnew(w) /\ UNCHANGED <<alive, moved>>
    BY <1>5 DEF Left
  <2>2. Listed'
    BY <1>1 DEF Listed
  <2>3. CASE w = Watched
    <3>1. quiet' = 0 /\ Starts'
      BY <1>2, <2>1, <2>3 DEF CountAnew, Starts
    <3> QED BY <1>3, <2>2, <3>1, Anew
  <2>4. CASE w # Watched
    <3>1. quiet' = quiet /\ (ToLook' <=> ToLook)
      BY <1>1, <2>1, <2>4 DEF CountAnew, ToLook
    <3> QED BY <1>1, <1>3, <2>1, <2>2, <2>4, <3>1, Untouched
  <2> QED BY <2>3, <2>4
<1> QED BY <1>4, <1>5 DEF KillWorker

LEMMA RotateTimed ==
  ASSUME Inv, Timed, NEW w \in Worker, RotateWorker(w)
  PROVE  Timed'
<1> DEFINE s == [SessionState_new EXCEPT !.card = card_map[w]]
<1>1. /\ UNCHANGED <<pc, seen, left>> /\ pc = "commands" /\ (faulty => faulty')
      /\ sessions' = [sessions EXCEPT ![w] = s]
      /\ CountAnew(w)
  BY Faults DEF RotateWorker, Command, round, Move, Left, Gone
<1>2. s.last = "never" /\ s.unchanged = 0
  BY DEF SessionState_new
<1> HIDE DEF s
<1>3. Listed'
  BY <1>1 DEF Listed
<1>4. CASE w = Watched
  <2>1. sessions'[Watched] = s /\ quiet' = 0
    BY <1>1, <1>4, Watching DEF CountAnew
  <2>2. NeverLooked' /\ Starts'
    BY <1>2, <2>1 DEF NeverLooked, Starts, Entry
  <2> QED BY <1>3, <2>1, <2>2, Anew
<1>5. CASE w # Watched
  <2>1. sessions'[Watched] = sessions[Watched] /\ quiet' = quiet /\ (ToLook' <=> ToLook)
    BY <1>1, <1>5, Watching, Numbers DEF CountAnew, ToLook
  <2>2. NeverLooked' /\ SameEntry
    BY <2>1, EntryStays DEF Timed
  <2>3. alive'[Watched] = alive[Watched] /\ moved'[Watched] = moved[Watched]
    BY <1>5, Watching, Numbers DEF RotateWorker, Move, Left, Gone
  <2> QED BY <1>1, <1>3, <2>1, <2>2, <2>3, Untouched
<1> QED BY <1>4, <1>5

LEMMA ResetTimed ==
  ASSUME Inv, Timed, NEW w \in Worker, NEW arrives \in BOOLEAN, ContextReset(w, arrives)
  PROVE  Timed'
<1>1. /\ UNCHANGED <<pc, seen, left>> /\ pc = "commands" /\ UNCHANGED alive
      /\ faulty => faulty'
      /\ CountAnew(w)
      /\ sessions' = IF Known(w) THEN [sessions EXCEPT ![w].unchanged = 0, ![w].off = 0]
                     ELSE sessions
      /\ IF arrives /\ ~dry_run /\ alive[w] THEN moved' = [moved EXCEPT ![w] = TRUE]
         ELSE UNCHANGED moved
  BY Faults DEF ContextReset, Command, round, Move, Left
<1>2. Listed'
  BY <1>1 DEF Listed
<1>3. CASE w # Watched
  <2>1. sessions'[Watched] = sessions[Watched] /\ quiet' = quiet /\ (ToLook' <=> ToLook)
    BY <1>1, <1>3, Watching, Numbers DEF CountAnew, ToLook
  <2>2. NeverLooked' /\ SameEntry
    BY <2>1, EntryStays DEF Timed
  <2>3. alive'[Watched] = alive[Watched] /\ moved'[Watched] = moved[Watched]
    BY <1>1, <1>3, Watching, Numbers
  <2> QED BY <1>1, <1>2, <2>1, <2>2, <2>3, Untouched
<1>4. CASE w = Watched
  <2>1. quiet' = 0 /\ ToLook'
    BY <1>1, <1>4 DEF CountAnew, ToLook
  <2>2. /\ Known(Watched)' <=> Known(Watched)
        /\ Known(Watched) => Entry'.last = Entry.last /\ Entry'.unchanged = 0
    <3>1. CASE Known(Watched)
      <4> DEFINE s == [Entry EXCEPT !.unchanged = 0, !.off = 0]
      <4>1. sessions'[Watched] = s
        BY <1>1, <1>4, <3>1, Watching, Numbers DEF Entry
      <4>2. s \in SessionState /\ s.last = Entry.last /\ s.unchanged = 0
        BY <3>1, Watching, ZeroIsCount DEF SessionState
      <4> HIDE DEF s
      <4> QED BY <3>1, <4>1, <4>2 DEF Known, Entry
    <3>2. CASE ~Known(Watched)
      BY <1>1, <1>4, <3>2 DEF Known
    <3> QED BY <3>1, <3>2
  <2>3. NeverLooked'
    BY <2>2 DEF NeverLooked
  <2>4. CASE arrives /\ ~dry_run /\ alive[Watched]
    <3>1. Starts'
      BY <1>1, <1>4, <2>4, Watching DEF Starts
    <3> QED BY <1>2, <2>1, <2>3, <3>1, Anew
  <2>5. CASE ~(arrives /\ ~dry_run /\ alive[Watched])
    <3>1. UNCHANGED moved
      BY <1>1, <1>4, <2>5
    <3>2. NotBefore'
      <4> SUFFICES ASSUME alive[Watched], Known(Watched)
                   PROVE  quiet' + NotCounted' >= (Entry'.unchanged + 1) * base_ms
        BY <1>1, <2>1, <2>2 DEF NotBefore, Counted
      <4>1. dry_run \/ faulty'
        BY <2>5 DEF ContextReset, Command, Event
      <4>2. NotCounted' = base_ms /\ Entry'.unchanged = 0
        BY <2>2, <4>1 DEF NotCounted
      <4> QED BY <2>1, <4>2, Numbers
    <3>3. NotAfter'
      <4> SUFFICES ASSUME ~Starts'
                   PROVE  quiet' <= (Entry'.unchanged + 2) * max_ms
        BY <2>1, Numbers DEF NotAfter
      <4>1. Entry'.unchanged = 0
        BY <2>2 DEF Starts
      <4> QED BY <2>1, <4>1, Numbers
    <3>4. Emptied'
      BY <1>1, <2>2, <3>1 DEF Timed, Emptied
    <3> QED BY <1>2, <2>3, <3>2, <3>3, <3>4 DEF Timed
  <2> QED BY <2>4, <2>5
<1> QED BY <1>3, <1>4

LEMMA ListTimed ==
  ASSUME Inv, Timed, List
  PROVE  Timed'
<1>1. /\ UNCHANGED <<alive, moved, quiet, sessions>>
      /\ pc = "commands" /\ pc' = "polling" /\ left' = seen'
      /\ \/ seen' = {w \in Worker : alive[w]} /\ NoFault
         \/ seen' = {} /\ Fault
  BY DEF List, tmux, memory
<1>2. (faulty => faulty') /\ (~faulty' => seen' = {w \in Worker : alive[w]})
  BY <1>1, Faults DEF Fault, Event
<1>3. ToLook /\ (ToLook' <=> Watched \in seen')
  BY <1>1 DEF ToLook
<1>4. Listed'
  BY <1>1, <1>2, Numbers DEF Listed
<1>5. NeverLooked' /\ SameEntry
  BY <1>1, EntryStays DEF Timed
<1>6. Starts' <=> Starts
  BY <1>1 DEF Starts, Known, Entry
<1>7. NotBefore'
  <2> SUFFICES ASSUME alive[Watched], Known(Watched), ~moved[Watched], Entry.last = "full"
               PROVE  /\ quiet' >= Threshold
                           \/ quiet' + NotCounted' >= (Entry.unchanged + 1) * base_ms
                      /\ quiet' >= Threshold
                           \/ quiet' + NotCounted' >= Entry.unchanged * base_ms
    BY <1>1 DEF NotBefore, Known, Entry, Counted
  <2>1. Counted(Entry.unchanged + 1)
    BY <1>3 DEF Timed, NotBefore
  <2>2. Entry.unchanged \in Nat /\ Entry.unchanged + 1 \in Nat
    BY Watching, BoundsAreNat
  <2>3. Counted(Entry.unchanged)
    BY <2>1, <2>2, Watching, CountsDown
  <2> QED BY <1>1, <1>2, <2>1, <2>2, <2>3, StaysCounted
<1>8. NotAfter'
  <2> SUFFICES ASSUME ~faulty', alive[Watched]
               PROVE  IF Starts THEN quiet <= max_ms
                      ELSE \/ Entry.unchanged = MaxUnchanged
                           \/ quiet <= (Entry.unchanged + 2) * max_ms
    BY <1>1, <1>2, <1>3, <1>6, Numbers DEF NotAfter, Entry
  <2> QED BY <1>2, <1>3 DEF Timed, NotAfter
<1>9. Emptied'
  BY <1>1, <1>2 DEF Timed, Emptied, Known, Entry
<1> QED BY <1>2, <1>4, <1>5, <1>7, <1>8, <1>9 DEF Timed

LEMMA OtherLookTimed ==
  ASSUME Inv, Timed, NEW w \in Worker \ {Watched}, Snapshot(w)
  PROVE  Timed'
<1>1. UNCHANGED <<alive, pc, seen>> /\ pc = "polling" /\ left' = left \ {w}
  BY DEF Snapshot
<1>2. NoFault \/ Fault
  BY Zenon DEF Snapshot
<1>3. (faulty => faulty') /\ (ToLook' <=> ToLook)
  BY <1>1, <1>2, Faults DEF ToLook
<1>4. PICK exists \in {alive[w], FALSE}, p \in {pane[w], ""} :
        /\ sessions' = [sessions EXCEPT ![w] = Look(w, exists, p)]
        /\ \/ Move(w)
           \/ /\ moved' = [moved EXCEPT ![w] = ~alive[w] \/ p # pane[w]]
              /\ IF Known(w) THEN UNCHANGED quiet ELSE CountAnew(w)
  BY Zenon DEF Snapshot
<1>5. sessions'[Watched] = sessions[Watched]
  BY <1>4, Watching, Numbers
<1>6. quiet' = quiet /\ moved'[Watched] = moved[Watched]
  BY <1>4, Watching, Numbers DEF Move, CountAnew
<1>7. NeverLooked' /\ SameEntry
  BY <1>5, EntryStays DEF Timed
<1>8. Listed'
  BY <1>1, <1>3 DEF Timed, Listed
<1> QED BY <1>1, <1>3, <1>6, <1>7, <1>8, Untouched

LEMMA EndRoundTimed ==
  ASSUME Inv, Timed, EndRound
  PROVE  Timed'
<1> DEFINE kept == Known(Watched) /\ (Watched \in seen \/ Entry.status = "Dead")
<1>1. /\ UNCHANGED <<alive, moved, quiet, seen, left, faulty>>
      /\ pc = "polling" /\ left = {} /\ pc' = "sleeping"
      /\ sessions'[Watched] = IF kept THEN Entry ELSE None
  BY Numbers DEF EndRound, tmux, bounds, Entry
<1>2. ~ToLook /\ ~ToLook'
  BY <1>1 DEF ToLook
<1>3. Listed'
  BY <1>1 DEF Timed, Listed
<1>4. CASE kept
  <2>1. sessions'[Watched] = sessions[Watched]
    BY <1>1, <1>4 DEF Entry
  <2>2. NeverLooked' /\ SameEntry
    BY <2>1, EntryStays DEF Timed
  <2> QED BY <1>1, <1>2, <1>3, <2>2, Untouched
<1>5. CASE ~kept
  <2>1. ~Known(Watched)'
    BY <1>1, <1>5 DEF Known
  <2>2. NotAfter'
    <3> SUFFICES ASSUME ~faulty, alive[Watched] PROVE quiet <= 0
      BY <1>1, <1>2, <2>1 DEF NotAfter, Starts
    <3>1. ~Known(Watched)
      BY <1>1, <1>5 DEF Timed, Listed
    <3> QED BY <1>2, <3>1 DEF Timed, NotAfter, Starts
  <2> QED BY <1>3, <2>1, <2>2 DEF Timed, NotBefore, NeverLooked, Emptied
<1> QED BY <1>4, <1>5

LEMMA QuietIsEnough == Threshold <= MaxQuiet
<1> DEFINE X == max_ms * (Threshold + base_ms)
<1>1. X \in Nat /\ Threshold * base_ms <= X
  <2>1. Threshold + base_ms \in Nat
    BY Numbers
  <2>2. base_ms * (Threshold + base_ms) <= max_ms * (Threshold + base_ms)
    BY <2>1, TimesGrows, Numbers
  <2>3. Threshold * base_ms <= (Threshold + base_ms) * base_ms
    BY <2>1, TimesGrows, Numbers
  <2>4. /\ (Threshold + base_ms) * base_ms = base_ms * (Threshold + base_ms)
        /\ (Threshold + base_ms) * base_ms \in Nat /\ X \in Nat /\ Threshold * base_ms \in Nat
    BY <2>1, Times, Numbers
  <2> HIDE DEF X
  <2>5. (Threshold + base_ms) * base_ms <= X
    BY <2>2, <2>4 DEF X
  <2> QED BY <2>3, <2>4, <2>5
<1> HIDE DEF X
<1>2. X < (X \div base_ms + 1) * base_ms /\ X \div base_ms \in Nat
  BY <1>1, Numbers
<1>3. MaxQuiet = X \div base_ms + 1
  BY DEF MaxQuiet, X
<1>4. X < MaxQuiet * base_ms
  BY <1>2, <1>3
<1> SUFFICES ASSUME MaxQuiet < Threshold PROVE FALSE
  BY BoundsAreNat, Numbers
<1>5. MaxQuiet * base_ms <= Threshold * base_ms
  BY BoundsAreNat, Numbers, TimesGrows
<1>6. MaxQuiet * base_ms \in Nat /\ Threshold * base_ms \in Nat
  BY BoundsAreNat, Numbers, Times
<1> QED BY <1>1, <1>4, <1>5, <1>6

LEMMA SleepTimed ==
  ASSUME Inv, Timed, Sleep
  PROVE  Timed'
<1>1. /\ UNCHANGED <<alive, moved, sessions, faulty>> /\ NotCounted' = NotCounted
      /\ pc = "sleeping" /\ pc' = "commands" /\ ~ToLook /\ ToLook'
      /\ quiet' = IF alive[Watched] THEN Least(quiet + backoff, MaxQuiet) ELSE 0
  BY DEF Sleep, bounds, memory, ToLook, NotCounted
<1>2. Listed' /\ NeverLooked' /\ Emptied'
  BY <1>1 DEF Timed, Listed, NeverLooked, Emptied, Known, Entry
<1>3. quiet \in Nat /\ backoff \in Nat /\ base_ms <= backoff /\ backoff <= max_ms
  BY Watching
<1>4. alive[Watched] =>
        /\ quiet' \in Nat /\ quiet' <= quiet + max_ms
        /\ quiet' >= Threshold \/ quiet' >= quiet + base_ms
        /\ quiet >= Threshold => quiet' >= Threshold
  <2> SUFFICES ASSUME alive[Watched], quiet' = Least(quiet + backoff, MaxQuiet)
               PROVE  /\ quiet' \in Nat /\ quiet' <= quiet + max_ms
                      /\ quiet' >= Threshold \/ quiet' >= quiet + base_ms
                      /\ quiet >= Threshold => quiet' >= Threshold
    BY <1>1
  <2> QED BY <1>3, Numbers, BoundsAreNat, QuietIsEnough DEF Least
<1>5. NotBefore'
  <2> SUFFICES ASSUME alive[Watched], Known(Watched), ~moved[Watched], Entry.last = "full"
               PROVE  \/ quiet' >= Threshold
                      \/ quiet' + NotCounted >= (Entry.unchanged + 1) * base_ms
    BY <1>1 DEF NotBefore, Known, Entry, Counted
  <2>1. Counted(Entry.unchanged)
    BY <1>1 DEF Timed, NotBefore
  <2>2. Entry.unchanged \in Nat
    BY Watching, BoundsAreNat
  <2>3. /\ (Entry.unchanged + 1) * base_ms = Entry.unchanged * base_ms + base_ms
        /\ Entry.unchanged * base_ms \in Nat
    BY <2>2, Times, Numbers
  <2> QED BY <1>3, <1>4, <2>1, <2>3, Numbers DEF Counted
<1>6. NotAfter'
  <2> SUFFICES ASSUME ~faulty, alive[Watched]
               PROVE  IF Starts THEN quiet' <= max_ms
                      ELSE \/ Entry.unchanged = MaxUnchanged
                           \/ quiet' <= (Entry.unchanged + 2) * max_ms
    BY <1>1 DEF NotAfter, Starts, Known, Entry
  <2>1. CASE Starts
    <3>1. quiet <= 0
      BY <1>1, <2>1 DEF Timed, NotAfter
    <3> QED BY <1>3, <1>4, <2>1, <3>1, Numbers
  <2>2. CASE ~Starts /\ Entry.unchanged # MaxUnchanged
    <3>1. quiet <= (Entry.unchanged + 1) * max_ms
      BY <1>1, <2>2 DEF Timed, NotAfter
    <3>2. Entry.unchanged \in Nat
      BY <2>2, Watching, BoundsAreNat DEF Starts
    <3>3. Entry.unchanged + 1 \in Nat
      BY <3>2
    <3>4. /\ ((Entry.unchanged + 1) + 1) * max_ms = (Entry.unchanged + 1) * max_ms + max_ms
          /\ (Entry.unchanged + 1) * max_ms \in Nat
      BY <3>3, Times, Numbers
    <3>5. (Entry.unchanged + 1) + 1 = Entry.unchanged + 2
      BY <3>2
    <3>6. quiet' <= (Entry.unchanged + 2) * max_ms
      BY <1>3, <1>4, <3>1, <3>4, <3>5, Numbers
    <3> QED BY <2>2, <3>6
  <2> QED BY <2>1, <2>2
<1> QED BY <1>2, <1>5, <1>6 DEF Timed

LEMMA RestartTimed ==
  ASSUME Inv, Timed, Restart
  PROVE  Timed' /\ ~Known(Watched)' /\ faulty'
<1>1. ~Known(Watched)' /\ faulty'
  BY Numbers DEF Restart, Known
<1> QED BY <1>1 DEF Timed, NotBefore, NotAfter, NeverLooked, Listed, Emptied

-----------------------------------------------------------------------------
LEMMA InitTimed == Init => Timed
<1> SUFFICES ASSUME Init PROVE Timed
  OBVIOUS
<1>1. ~Known(Watched) /\ quiet = 0 /\ pc = "commands"
  BY Numbers DEF Init, Known
<1>2. Starts /\ ToLook
  BY <1>1 DEF Starts, ToLook
<1> QED BY <1>1, <1>2, Numbers DEF Timed, NotBefore, NotAfter, NeverLooked, Listed, Emptied

LEMMA StepInTime ==
  ASSUME Inv, Timed, [Next]_vars
  PROVE  Timed' /\ (LooksAtWatched => InTime)
<1>1. ASSUME NEW w \in Worker, Work(w) PROVE Timed' /\ ~LooksAtWatched
  BY <1>1, WorkTimed DEF Work, round, LooksAtWatched
<1>2. ASSUME NEW w \in Worker, Die(w) PROVE Timed' /\ ~LooksAtWatched
  BY <1>2, DieTimed DEF Die, round, LooksAtWatched
<1>3. CASE handle_conductor_cmd
  <2> PICK w \in Worker :
        \/ \E c \in Card \cup {None}, saves \in BOOLEAN : SpawnWorker(w, c, saves)
        \/ \E c \in Card, saves \in BOOLEAN : ReassignCard(w, c, saves)
        \/ \E arrives \in BOOLEAN : ContextReset(w, arrives)
        \/ KillWorker(w) \/ SendToWorker(w) \/ RotateWorker(w)
    BY <1>3 DEF handle_conductor_cmd
  <2>1. Timed'
    BY SpawnTimed, ReassignTimed, KillTimed, SendTimed, RotateTimed, ResetTimed
  <2>2. pc = "commands"
    BY DEF SpawnWorker, ReassignCard, KillWorker, SendToWorker, RotateWorker, ContextReset, Command
  <2> QED BY <2>1, <2>2 DEF LooksAtWatched
<1>4. CASE List
  BY <1>4, ListTimed DEF List, LooksAtWatched
<1>5. ASSUME NEW w \in Worker, Snapshot(w) PROVE Timed' /\ (LooksAtWatched => InTime)
  <2>1. CASE w = Watched
    BY <1>5, <2>1, LookTimed
  <2>2. CASE w # Watched
    <3>1. ~LooksAtWatched
      BY <1>5, <2>2 DEF Snapshot, LooksAtWatched
    <3> QED BY <1>5, <2>2, <3>1, OtherLookTimed
  <2> QED BY <2>1, <2>2
<1>6. CASE EndRound
  BY <1>6, EndRoundTimed DEF EndRound, LooksAtWatched
<1>7. CASE Sleep
  BY <1>7, SleepTimed DEF Sleep, LooksAtWatched
<1>8. CASE Restart
  <2>1. Timed' /\ ~Known(Watched)' /\ faulty'
    BY <1>8, RestartTimed
  <2> QED BY <2>1 DEF InTime, FoundFrozen
<1>9. CASE UNCHANGED vars
  <2>1. UNCHANGED <<alive, moved, quiet, sessions, pc, seen, left, faulty>>
    BY <1>9 DEF vars, tmux, memory, round, bounds
  <2>2. NeverLooked' /\ SameEntry
    BY <2>1, EntryStays DEF Timed
  <2>3. Listed' /\ (ToLook' <=> ToLook)
    BY <2>1 DEF Timed, Listed, ToLook
  <2> QED BY <2>1, <2>2, <2>3, Untouched DEF LooksAtWatched
<1> QED BY <1>1, <1>2, <1>3, <1>4, <1>5, <1>6, <1>7, <1>8, <1>9 DEF Next, Poll

\* Whatever the thresholds and the ends of the interval are, no look whose pane
\* could be read finds a worker frozen before base_ms / max_ms of the threshold has
\* passed (less the interval a reset without a word may have left uncounted), and
\* every look finds frozen one that has been quiet for max_ms / base_ms of the
\* threshold and an interval, if no error or restart was in the way
\* (detect.rs:12-20, poll.rs:90-141, 191-199).
THEOREM FrozenInTimeHolds == Spec => FrozenInTime
<1>1. Init => Inv /\ Timed
  BY InitInv, InitTimed
<1>2. Inv /\ Timed /\ [Next]_vars => (Inv /\ Timed)'
  BY NextInv, StepInTime
<1>3. Inv /\ Timed /\ [Next]_vars =>
        [LooksAtWatched =>
           /\ FoundFrozen' /\ Read' => max_ms * (quiet + NotCounted) >= base_ms * Threshold
           /\ base_ms * quiet >= max_ms * (Threshold + base_ms) /\ ~faulty' /\ alive[Watched]
                => FoundFrozen']_vars
  BY StepInTime DEF InTime
<1> QED BY <1>1, <1>2, <1>3, PTL DEF Spec, FrozenInTime
===============================================================================
