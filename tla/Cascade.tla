------------------------------ MODULE Cascade -------------------------------
(***************************************************************************)
(* How what a layer writes reaches the layer above it: the start-up        *)
(* scanners, the CtxWatcher, the channel between them and the loop of      *)
(* ConsciousnessStack::launch, the tasks the loop spawns, and the turns    *)
(* they run (crates/agenticlaw-consciousness/src/stack.rs, watcher.rs).    *)
(*                                                                         *)
(* A .ctx file only grows.  It is a number of chunks: its header with the  *)
(* first message is one, all that the turn answers to a message is one.    *)
(* A change is an interval of chunks.  Files from before the launch do not *)
(* grow: every session of this launch has a file of its own, and of each   *)
(* layer the model follows one session.                                    *)
(***************************************************************************)
EXTENDS Naturals, SequencesExt

CONSTANTS
  Bottom,       \* the lowest layer the model follows, 0 for all of them
  Top,          \* the highest watched layer, whose changes go to the cores
  SmallFile,    \* the chunks that fit in less than 8192 bytes
  ChannelSize,  \* changes the channel holds
  MaxMessages   \* bound: chunks written to the file of layer Bottom

ASSUME CascadeAssumption ==
  /\ Bottom \in Nat /\ Top \in Nat /\ Bottom < Top /\ ChannelSize \in Nat \ {0}
  /\ SmallFile \in Nat /\ MaxMessages \in Nat

Layer == Bottom..Top
Inner == (Bottom + 1)..Top
Change == [layer : Layer, from : Nat, to : Nat]

VARIABLES
  size,      \* chunks in each layer's file; 0: there is no file yet
  asleep,    \* layers whose context has passed the threshold
  injected,  \* layers that have written an injection
  scanner,   \* of a layer that had no .ctx file at all at the launch
  found,     \* chunks the scanner has read
  watched,   \* layers whose file the watcher knows ...
  offset,    \* ... up to here ...
  start,     \* ... and from here on
  sending,   \* the change the watcher has to send, if any
  channel,
  waiting,   \* changes whose tasks have not asked for the permit yet
  permit,    \* permits left in each layer's semaphore
  turns,     \* the turns of each layer: "calling" the LLM or "ending"
  cores,     \* changes handed to the dual core
  copies     \* history: how often each chunk was put on the channel

files == <<size, asleep, injected>>
scan == <<scanner, found>>
watch == <<watched, offset, start, sending>>
tasks == <<waiting, permit, turns>>
vars == <<files, scan, watch, tasks, channel, cores, copies>>

Init ==
  /\ size = [l \in Layer |-> 0] /\ asleep = {} /\ injected = {}
  /\ scanner \in [Layer -> {"none", "looking"}]
  /\ found = [l \in Layer |-> 0]
  /\ watched = {} /\ sending = <<>>
  /\ offset = [l \in Layer |-> 0] /\ start = [l \in Layer |-> 0]
  /\ channel = <<>> /\ cores = 0
  /\ waiting = [l \in Inner |-> <<>>]
  /\ permit = [l \in Inner |-> 1]
  /\ turns = [l \in Inner |-> <<>>]
  /\ copies = [l \in Layer |-> <<>>]

(* A session appends to its file, which its first message creates.           *)
Write(l) ==
  /\ size' = [size EXCEPT ![l] = @ + 1]
  /\ copies' = [copies EXCEPT ![l] = Append(@, 0)]

(* What is said in the lowest layer, the gateway if that is layer 0, is not  *)
(* the doing of the layers above it.                                         *)
Converse ==
  /\ size[Bottom] < MaxMessages
  /\ Write(Bottom)
  /\ UNCHANGED <<asleep, injected, scan, watch, tasks, channel, cores>>

-----------------------------------------------------------------------------
(* Onto the channel.                                                         *)

Recounted(counts, change) ==
  [c \in DOMAIN counts |->
     IF change.from < c /\ c <= change.to THEN counts[c] + 1 ELSE counts[c]]

Send(change) ==
  /\ Len(channel) < ChannelSize
  /\ channel' = Append(channel, change)
  /\ copies' = [copies EXCEPT ![change.layer] = Recounted(@, change)]

(* A scanner looks every second, reads the file it finds and sends it.       *)
FindFile(l) ==
  /\ scanner[l] = "looking" /\ size[l] > 0
  /\ scanner' = [scanner EXCEPT ![l] = "found"]
  /\ found' = [found EXCEPT ![l] = size[l]]
  /\ UNCHANGED <<files, watch, tasks, channel, cores, copies>>

SendFile(l) ==
  /\ scanner[l] = "found"
  /\ Send([layer |-> l, from |-> 0, to |-> found[l]])
  /\ scanner' = [scanner EXCEPT ![l] = "done"]
  /\ UNCHANGED <<files, found, watch, tasks, cores>>

(* The watcher scans the directories for new files; a file that is large     *)
(* already is watched from its end.                                          *)
scan_for_new_files(l) ==
  /\ sending = <<>>
  /\ l \notin watched /\ size[l] > 0
  /\ watched' = watched \cup {l}
  /\ \E from \in {IF size[l] <= SmallFile THEN 0 ELSE size[l]} :
       /\ offset' = [offset EXCEPT ![l] = from]
       /\ start' = [start EXCEPT ![l] = from]
  /\ UNCHANGED <<files, scan, sending, tasks, channel, cores, copies>>

MissesLast(l) == size[l] > offset[l] + 1                           \* mutant
Grown(l) == size[l] > offset[l]

Poll(l) ==
  /\ sending = <<>>
  /\ l \in watched /\ Grown(l)
  /\ sending' = <<[layer |-> l, from |-> offset[l], to |-> size[l]]>>
  /\ UNCHANGED <<files, scan, watched, offset, start, tasks, channel, cores,
                 copies>>

ToItsSize(change) ==                                               \* mutant
  [offset EXCEPT ![change.layer] = size[change.layer]]
ToItsStart(change) ==                                              \* mutant
  [offset EXCEPT ![change.layer] = IF change.from = 0 THEN 0 ELSE change.to]
Advanced(change) == [offset EXCEPT ![change.layer] = change.to]

SendChange ==
  /\ sending # <<>>
  /\ Send(sending[1])
  /\ offset' = Advanced(sending[1])
  /\ sending' = <<>>
  /\ UNCHANGED <<files, scan, watched, start, tasks, cores>>

-----------------------------------------------------------------------------
(* The loop of launch, and the tasks it spawns.                              *)

Receive ==
  /\ channel # <<>>
  /\ channel' = Tail(channel)
  /\ LET change == Head(channel) IN
     IF change.layer = Top
       THEN cores' = cores + 1 /\ UNCHANGED waiting
       ELSE /\ waiting' = [waiting EXCEPT ![change.layer + 1] =
                             Append(@, change)]
            /\ UNCHANGED cores
  /\ UNCHANGED <<files, scan, watch, permit, turns, copies>>

(* run_turn writes the change down before it asks whether to sleep; once     *)
(* over the threshold, a context stays there.                                *)
WritesIfAwake(l, sleeps) ==                                        \* mutant
  IF sleeps THEN UNCHANGED <<size, copies>> ELSE Write(l)
add_user_message(l, sleeps) == Write(l)

StartTurn(l) ==
  \E sleeps \in BOOLEAN :
    /\ l \in asleep => sleeps
    /\ asleep' = IF sleeps THEN asleep \cup {l} ELSE asleep
    /\ add_user_message(l, sleeps)
    /\ turns' = [turns EXCEPT ![l] =
         Append(@, IF sleeps THEN "ending" ELSE "calling")]

DropsPermit(l) == permit' = permit                                 \* mutant
TakePermit(l) == permit' = [permit EXCEPT ![l] = @ - 1]

(* A spawned task runs when the scheduler says so: it starts a turn, or      *)
(* skips its change because the layer has one already.                       *)
Acquire(l, i) ==
  /\ waiting' = [waiting EXCEPT ![l] = RemoveAt(@, i)]
  /\ \/ /\ permit[l] > 0
        /\ TakePermit(l)
        /\ StartTurn(l)
     \/ /\ permit[l] = 0
        /\ UNCHANGED <<permit, turns, size, asleep, copies>>
  /\ UNCHANGED <<injected, scan, watch, channel, cores>>

(* A response is written down; from layer 2 on it may be an injection, too.  *)
Respond(l, i) ==
  /\ turns[l][i] = "calling"
  /\ Write(l)
  /\ turns' = [turns EXCEPT ![l][i] = "ending"]
  /\ \/ UNCHANGED injected
     \/ l >= 2 /\ injected' = injected \cup {l}
  /\ UNCHANGED <<asleep, scan, watch, waiting, permit, channel, cores>>

Fail(l, i) ==
  /\ turns[l][i] = "calling"
  /\ turns' = [turns EXCEPT ![l][i] = "ending"]
  /\ UNCHANGED <<files, scan, watch, waiting, permit, channel, cores, copies>>

End(l, i) ==
  /\ turns[l][i] = "ending"
  /\ turns' = [turns EXCEPT ![l] = RemoveAt(@, i)]
  /\ permit' = [permit EXCEPT ![l] = @ + 1]
  /\ UNCHANGED <<files, scan, watch, waiting, channel, cores, copies>>

-----------------------------------------------------------------------------
Task(l) ==
  \/ \E i \in DOMAIN waiting[l] : Acquire(l, i)
  \/ \E i \in DOMAIN turns[l] :
       Respond(l, i) \/ Fail(l, i) \/ End(l, i)

Tasks == \E l \in Inner : Task(l)
Scanners == \E l \in Layer : FindFile(l) \/ SendFile(l)
Watcher == SendChange \/ \E l \in Layer : scan_for_new_files(l) \/ Poll(l)

Next == Converse \/ Scanners \/ Watcher \/ Receive \/ Tasks

(* The runtime runs the watcher, the scanners, the loop and the tasks as long *)
(* as they can go on, and every call of the LLM ends.  Nobody has to say     *)
(* anything to the lowest layer.                                             *)
Fairness ==
  /\ WF_vars(Scanners) /\ WF_vars(Watcher) /\ WF_vars(Receive)
  /\ WF_vars(Tasks)

Spec == Init /\ [][Next]_vars
FairSpec == Spec /\ Fairness
-----------------------------------------------------------------------------
(* The variables have their types.                                           *)
TypeOK ==
  /\ size \in [Layer -> Nat] /\ asleep \subseteq Inner
  /\ injected \subseteq Inner
  /\ scanner \in [Layer -> {"none", "looking", "found", "done"}]
  /\ found \in [Layer -> Nat] /\ watched \subseteq Layer
  /\ offset \in [Layer -> Nat] /\ start \in [Layer -> Nat]
  /\ sending \in Seq(Change) /\ Len(sending) <= 1
  /\ channel \in Seq(Change) /\ Len(channel) <= ChannelSize
  /\ waiting \in [Inner -> Seq(Change)]
  /\ permit \in [Inner -> {0, 1}]
  /\ turns \in [Inner -> Seq({"calling", "ending"})]
  /\ cores \in Nat
  /\ copies \in [Layer -> Seq(Nat)]
  /\ \A l \in Layer : Len(copies[l]) = size[l]

(* The semaphores keep every layer to one turn at a time: two would mix in   *)
(* one conversation (stack.rs, "1 concurrent task per layer").               *)
OneTurn == \A l \in Inner : Len(turns[l]) <= 1

(* The watcher leaves nothing out: behind its offset every chunk it did not  *)
(* skip with a large new file has been sent, however the file grew between   *)
(* the poll and the end of the send.                                         *)
NothingSkipped ==
  \A l \in Layer : \A c \in 1..size[l] :
    start[l] < c /\ c <= offset[l] => copies[l][c] > 0

(* "Only new bytes propagate": nothing is sent twice, but for what a         *)
(* start-up scanner sent of a new file before or after the watcher did.      *)
OnlyNew ==
  \A l \in Layer : \A c \in 1..size[l] :
    copies[l][c] <= IF scanner[l] = "done" /\ c <= found[l] THEN 2 ELSE 1

(* Both: what a layer writes goes up whole, and once.                        *)
SentWholeAndOnce == NothingSkipped /\ OnlyNew

(* The watcher catches up with every file, in spite of a full channel.       *)
CatchesUp ==
  \A l \in Layer : []<>(size[l] > 0 => l \in watched /\ offset[l] = size[l])

Reached(l) == IF l > Top THEN cores > 0 ELSE size[l] > 0

(* A new stack wakes layer by layer: what is written in a layer without a    *)
(* .ctx file at the launch leads to something written in the next one, and   *)
(* at last to a change for the cores, also when layers fail, sleep, or skip  *)
(* changes.                                                                  *)
Percolates ==
  \A l \in Layer :
    scanner[l] = "looking" /\ size[l] > 0 ~> Reached(l + 1)

(* Both: no change stays below for ever.                                     *)
Rises == CatchesUp /\ Percolates
=============================================================================
