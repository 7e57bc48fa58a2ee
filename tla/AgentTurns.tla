----------------------------- MODULE AgentTurns -----------------------------
(***************************************************************************)
(* The turns of one AgentRuntime (crates/agenticlaw-agent/src/runtime.rs)  *)
(* as the gateway starts them, any number at a time                        *)
(* (crates/agenticlaw-gateway/src/rpc.rs), and the sessions they share     *)
(* (crates/agenticlaw-agent/src/session.rs).                               *)
(*                                                                         *)
(* A turn is a call of chat.send, and the text it says.  A session is      *)
(* named after the turn that created it; a key leads to a session until it *)
(* is deleted, while its turns go on with it.                              *)
(***************************************************************************)
EXTENDS HealMessages

CONSTANTS
  Turn,           \* calls of chat.send
  Steer,          \* texts steered into the runtime ...
  FollowUp,       \* ... and queued as follow-ups
  Key,            \* names of sessions
  MaxIterations,  \* max_tool_iterations
  ToolCounts,     \* how many tools a model may ask for at once
  MaxWishes,      \* bound: calls of clients other than chat.send
  SleepAt,        \* messages of a session over the sleep threshold
  None

ASSUME AgentAssumption ==
  /\ MaxIterations \in Nat /\ SleepAt \in Nat
  /\ ToolCounts \subseteq Nat /\ 0 \in ToolCounts
  /\ MaxWishes \in Nat
  /\ None \notin Turn
  /\ Turn \cap Steer = {} /\ Turn \cap FollowUp = {} /\ Steer \cap FollowUp = {}

Text == Turn \cup Steer \cup FollowUp
Over == {"done", "slept", "failed", "aborted"}

VARIABLES
  registry,   \* the session a key leads to
  messages,   \* of each session
  pending,    \* user messages added since the last drain_pending_input
  signal,     \* chat.abort has put a signal in the session's channel
  steering, follow_up,
  cancelled,  \* the runtime's one cancellation token
  said,       \* texts steered or queued so far
  wishes,     \* calls of clients other than chat.send so far
  pc,         \* where a turn is
  key, session,
  turn,       \* LLM calls of this turn, MaxIterations + 1 at most
  taken,      \* texts the turn has drained from a queue and not added yet
  calls,      \* tools still to execute
  request,    \* what the model has been sent
  answered    \* history: texts of each session that were in a request whose
              \* answer is in the session

sessions == <<registry, messages, pending, signal>>
queues == <<steering, follow_up>>
outside == <<said, wishes, cancelled>>
where == <<key, session>>
loop == <<turn, taken, calls, request>>
vars == <<sessions, queues, outside, pc, where, loop, answered>>

Init ==
  /\ registry = [k \in Key |-> None]
  /\ messages = [t \in Turn |-> <<>>] /\ pending = [t \in Turn |-> 0]
  /\ signal = [t \in Turn |-> FALSE]
  /\ steering = <<>> /\ follow_up = <<>> /\ said = {}
  /\ cancelled = FALSE /\ wishes = 0
  /\ pc = [t \in Turn |-> "unsent"]
  /\ key \in [Turn -> Key] /\ session = [t \in Turn |-> None]
  /\ turn = [t \in Turn |-> 0]
  /\ taken = [t \in Turn |-> <<>>] /\ calls = [t \in Turn |-> <<>>]
  /\ request = [t \in Turn |-> <<>>]
  /\ answered = [t \in Turn |-> {}]

Goto(t, place) == pc' = [pc EXCEPT ![t] = place]

-----------------------------------------------------------------------------
(* Sessions.                                                                 *)

add_user_message(s, text) ==
  /\ messages' = [messages EXCEPT ![s] = Append(@, UserText(text))]
  /\ pending' = [pending EXCEPT ![s] = @ + 1]

add_tool_result(s, id) ==
  LET old == messages[s] IN
  [messages EXCEPT ![s] =
     IF old # <<>> /\ Last(old).results # <<>>
       THEN [old EXCEPT ![Len(old)].results = Append(@, id)]
       ELSE Append(old, ToolResults(<<id>>))]

-----------------------------------------------------------------------------
(* What clients ask for.                                                     *)

handle_chat_send(t) ==
  /\ pc[t] = "unsent"
  /\ Goto(t, "sent")
  /\ UNCHANGED <<sessions, queues, outside, where, loop, answered>>

Wish == wishes < MaxWishes /\ wishes' = wishes + 1

(* A second signal waits for a receiver that nobody has taken.               *)
handle_chat_abort(k) ==
  /\ Wish
  /\ registry[k] # None /\ ~signal[registry[k]]
  /\ signal' = [signal EXCEPT ![registry[k]] = TRUE]
  /\ UNCHANGED <<registry, messages, pending, queues, said, cancelled, pc,
                 where, loop, answered>>

handle_sessions_delete(k) ==
  /\ Wish
  /\ registry[k] # None
  /\ registry' = [registry EXCEPT ![k] = None]
  /\ UNCHANGED <<messages, pending, signal, queues, said, cancelled, pc,
                 where, loop, answered>>

steer(m) ==
  /\ Wish
  /\ m \in Steer \ said
  /\ said' = said \cup {m} /\ steering' = Append(steering, m)
  /\ UNCHANGED <<sessions, follow_up, cancelled, pc, where, loop, answered>>

QueueFollowUp(m) ==
  /\ Wish
  /\ m \in FollowUp \ said
  /\ said' = said \cup {m} /\ follow_up' = Append(follow_up, m)
  /\ UNCHANGED <<sessions, steering, cancelled, pc, where, loop, answered>>

abort ==
  /\ Wish
  /\ ~cancelled
  /\ cancelled' = TRUE
  /\ UNCHANGED <<sessions, queues, said, pc, where, loop, answered>>

-----------------------------------------------------------------------------
(* run_turn.                                                                 *)

LateLimit(t) == turn[t] > MaxIterations                             \* mutant
AtLimit(t) == turn[t] >= MaxIterations

(* The head of the inner loop, with what has just been drained from the      *)
(* steering queue.  The limit leaves the inner loop only, and what was       *)
(* drained is not looked at again.                                           *)
Loop(t, has_more_tool_calls, texts) ==
  LET inner == has_more_tool_calls \/ texts # <<>>
      exceeded == inner /\ AtLimit(t)
  IN  /\ turn' = [turn EXCEPT ![t] =
            IF exceeded THEN MaxIterations + 1 ELSE IF inner THEN @ + 1 ELSE @]
      /\ taken' = [taken EXCEPT ![t] = IF exceeded THEN <<>> ELSE texts]
      /\ Goto(t, IF exceeded \/ ~inner THEN "stopping"
                 ELSE IF texts = <<>> THEN "asking" ELSE "injecting")

DrainAndLoop(t, has_more_tool_calls) ==
  /\ steering' = <<>>
  /\ Loop(t, has_more_tool_calls, steering)

(* The session is found or created, and the text added whether or not the    *)
(* session is to sleep.                                                      *)
Begin(t) ==
  /\ pc[t] = "sent"
  /\ LET k == key[t]
         s == IF registry[k] = None THEN t ELSE registry[k]
     IN  /\ registry' = [registry EXCEPT ![k] = s]
         /\ session' = [session EXCEPT ![t] = s]
         /\ add_user_message(s, t)
         /\ IF Len(messages[s]) + 1 > SleepAt
              THEN Goto(t, "slept") /\ UNCHANGED <<steering, turn, taken>>
              ELSE DrainAndLoop(t, TRUE)
  /\ UNCHANGED <<signal, follow_up, outside, key, calls, request, answered>>

Inject(t) ==
  /\ pc[t] = "injecting"
  /\ add_user_message(session[t], Head(taken[t]))
  /\ taken' = [taken EXCEPT ![t] = Tail(@)]
  /\ IF Len(taken[t]) = 1 THEN Goto(t, "asking") ELSE UNCHANGED pc
  /\ UNCHANGED <<registry, signal, queues, outside, where, turn, calls,
                 request, answered>>

drain_pending_input(t) ==
  /\ pc[t] = "asking"
  /\ pending' = [pending EXCEPT ![session[t]] = 0]
  /\ Goto(t, "requesting")
  /\ UNCHANGED <<registry, messages, signal, queues, outside, where, loop,
                 answered>>

stream_llm_response(t) ==
  /\ pc[t] = "requesting"
  /\ Goto(t, "calling")
  /\ request' = [request EXCEPT ![t] =
                   validate_and_heal_messages(messages[session[t]])]
  /\ UNCHANGED <<sessions, queues, outside, where, turn, taken, calls,
                 answered>>

(* The call fails, or is found to be aborted: the turn ends as it is.        *)
EndCall(t, place) ==
  /\ pc[t] = "calling"
  /\ request' = [request EXCEPT ![t] = <<>>]
  /\ Goto(t, place)
  /\ UNCHANGED <<sessions, queues, outside, where, turn, taken, calls,
                 answered>>

Fail(t) == EndCall(t, "failed")
Aborted(t) == cancelled /\ EndCall(t, "aborted")

Asked(t) == UNION {m.texts : m \in ToSet(request[t])}

Answer(t) ==
  /\ pc[t] = "calling" /\ ~cancelled
  /\ \E n \in ToolCounts :
       LET uses == [i \in 1..n |-> <<t, turn[t], i>>]
           message == IF n = 0 THEN AssistantText ELSE AssistantWithTools(uses)
       IN  /\ messages' = [messages EXCEPT ![session[t]] = Append(@, message)]
           /\ calls' = [calls EXCEPT ![t] = uses]
           /\ Goto(t, IF n = 0 THEN "checking" ELSE "executing")
  /\ answered' = [answered EXCEPT ![session[t]] = @ \cup Asked(t)]
  /\ request' = [request EXCEPT ![t] = <<>>]
  /\ UNCHANGED <<registry, pending, signal, queues, outside, where, turn,
                 taken>>

(* An answer without tools ends the inner loop, unless something was said    *)
(* to the session meanwhile.                                                 *)
CheckInput(t) ==
  /\ pc[t] = "checking"
  /\ pending' = [pending EXCEPT ![session[t]] = 0]
  /\ DrainAndLoop(t, pending[session[t]] > 0)
  /\ UNCHANGED <<registry, messages, signal, follow_up, outside, where,
                 calls, request, answered>>

(* A tool runs, unless a steering message was taken since the answer: then   *)
(* it is skipped.  Either way it has a result.                               *)
DrainsAgain(t) == steering                                         \* mutant
Steered(t) == IF taken[t] = <<>> THEN steering ELSE taken[t]

ForgetSkipped(t) ==                                                \* mutant
  IF Steered(t) # <<>> THEN <<>> ELSE Tail(calls[t])
NextCalls(t) == Tail(calls[t])

Execute(t) ==
  /\ pc[t] = "executing"
  /\ messages' = add_tool_result(session[t], Head(calls[t]))
  /\ calls' = [calls EXCEPT ![t] = NextCalls(t)]
  /\ steering' = IF taken[t] = <<>> THEN <<>> ELSE steering
  /\ IF NextCalls(t) = <<>>
       THEN Loop(t, TRUE, Steered(t))
       ELSE taken' = [taken EXCEPT ![t] = Steered(t)] /\ UNCHANGED <<pc, turn>>
  /\ UNCHANGED <<registry, pending, signal, follow_up, outside, where,
                 request, answered>>

-----------------------------------------------------------------------------
(* The outer loop of run_turn.                                               *)

TakeFollowUps(t) ==
  /\ pc[t] = "stopping" /\ follow_up # <<>>
  /\ taken' = [taken EXCEPT ![t] = follow_up]
  /\ follow_up' = <<>>
  /\ Goto(t, "following")
  /\ UNCHANGED <<sessions, steering, outside, where, turn, calls,
                 request, answered>>

AddFollowUp(t) ==
  /\ pc[t] = "following" /\ taken[t] # <<>>
  /\ add_user_message(session[t], Head(taken[t]))
  /\ taken' = [taken EXCEPT ![t] = Tail(@)]
  /\ UNCHANGED <<registry, signal, queues, outside, pc, where, turn, calls,
                 request, answered>>

StaysOut(t) == DrainAndLoop(t, FALSE)                              \* mutant
EnterAgain(t) == DrainAndLoop(t, TRUE)

Follow(t) ==
  /\ pc[t] = "following" /\ taken[t] = <<>>
  /\ EnterAgain(t)
  /\ UNCHANGED <<sessions, follow_up, outside, where, calls, request,
                 answered>>

KeepPending(t) == UNCHANGED pending                                \* mutant
DrainPending(t) == pending' = [pending EXCEPT ![session[t]] = 0]

FollowInput(t) ==
  /\ pc[t] = "stopping" /\ follow_up = <<>> /\ pending[session[t]] > 0
  /\ DrainPending(t)
  /\ EnterAgain(t)
  /\ UNCHANGED <<registry, messages, signal, follow_up, outside, where,
                 calls, request, answered>>

Finish(t) ==
  /\ pc[t] = "stopping" /\ follow_up = <<>> /\ pending[session[t]] = 0
  /\ Goto(t, "done")
  /\ UNCHANGED <<sessions, queues, outside, where, loop, answered>>

-----------------------------------------------------------------------------
run_turn(t) ==
  \/ Begin(t) \/ Inject(t) \/ drain_pending_input(t) \/ stream_llm_response(t)
  \/ Fail(t) \/ Aborted(t) \/ Answer(t) \/ CheckInput(t) \/ Execute(t)
  \/ TakeFollowUps(t) \/ AddFollowUp(t) \/ Follow(t) \/ FollowInput(t)
  \/ Finish(t)

Clients ==
  \/ \E t \in Turn : handle_chat_send(t)
  \/ \E k \in Key : handle_chat_abort(k) \/ handle_sessions_delete(k)
  \/ \E m \in Steer : steer(m)
  \/ \E m \in FollowUp : QueueFollowUp(m)
  \/ abort

Next == Clients \/ \E t \in Turn : run_turn(t)

(* A spawned turn runs, calls of the model end and tools return.             *)
Fairness == \A t \in Turn : WF_vars(run_turn(t))

Spec == Init /\ [][Next]_vars
FairSpec == Spec /\ Fairness
-----------------------------------------------------------------------------
ToolUse == Turn \X (1..MaxIterations) \X (Nat \ {0})
Message == [role : {"user", "assistant"}, texts : SUBSET Text,
            uses : Seq(ToolUse), results : Seq(ToolUse)]
Place == Over \cup {"unsent", "sent", "injecting", "asking",
                    "requesting", "calling", "checking", "executing",
                    "stopping", "following"}

(* The variables have their types; a turn that has begun has a session.      *)
TypeOK ==
  /\ registry \in [Key -> Turn \cup {None}]
  /\ messages \in [Turn -> Seq(Message)] /\ pending \in [Turn -> Nat]
  /\ signal \in [Turn -> BOOLEAN] /\ cancelled \in BOOLEAN
  /\ wishes \in 0..MaxWishes
  /\ steering \in Seq(Steer) /\ follow_up \in Seq(FollowUp)
  /\ said \subseteq Steer \cup FollowUp
  /\ pc \in [Turn -> Place] /\ key \in [Turn -> Key]
  /\ session \in [Turn -> Turn \cup {None}]
  /\ \A t \in Turn : session[t] = None => pc[t] \in {"unsent", "sent"}
  /\ turn \in [Turn -> 0..(MaxIterations + 1)]
  /\ taken \in [Turn -> Seq(Steer \cup FollowUp)]
  /\ calls \in [Turn -> Seq(ToolUse)]
  /\ \A t \in Turn : pc[t] = "executing" => calls[t] # <<>>
  /\ request \in [Turn -> Seq(Message)]
  /\ answered \in [Turn -> SUBSET Text]

(* "Every tool_use block has exactly one corresponding tool_result block in  *)
(* the immediately following user message" (types.rs:136) of every request,  *)
(* also when two turns write to one session.                                 *)
RequestsArePaired == \A t \in Turn : Paired(request[t])

ResultsOf(s, id) ==
  UNION {{<<i, j>> : j \in {n \in DOMAIN messages[s][i].results :
                              messages[s][i].results[n] = id}} :
         i \in DOMAIN messages[s]}

(* A tool use in a session has one result, after it, unless its turn is      *)
(* still to execute or skip it: also when a steering message interrupts.     *)
UsesHaveResults ==
  \A s \in Turn : \A i \in DOMAIN messages[s] :
    \A id \in ToSet(messages[s][i].uses) :
      IF \E t \in Turn : Contains(calls[t], id)
        THEN ResultsOf(s, id) = {}
        ELSE \E at \in ResultsOf(s, id) :
               ResultsOf(s, id) = {at} /\ at[1] > i

(* All of it: tool uses and results stay paired, in sessions and requests.   *)
UsesPaired == TypeOK /\ RequestsArePaired /\ UsesHaveResults

(* A turn that reaches the limit leaves what it has not answered.            *)
Limited(t) == turn[t] > MaxIterations

SaidIn(s) == UNION {m.texts : m \in ToSet(messages[s])}
Holds(t, m) == Contains(taken[t], m)

(* What is steered or queued is waiting in its queue, taken by one turn, or  *)
(* in one session, unless a turn at its limit dropped it.                    *)
NothingIsLost ==
  (\A t \in Turn : ~Limited(t)) =>
    \A m \in said :
      LET waits == Contains(steering \o follow_up, m) IN
      \/ waits /\ \A t \in Turn : ~Holds(t, m) /\ m \notin SaidIn(t)
      \/ ~waits /\ \E t \in Turn :
           \/ Holds(t, m) /\ \A u \in Turn :
                m \notin SaidIn(u) /\ (Holds(u, m) => u = t)
           \/ m \in SaidIn(t) /\ \A u \in Turn :
                ~Holds(u, m) /\ (m \in SaidIn(u) => u = t)

(* When all turns of a session have ended well, every text in it was in a    *)
(* request whose answer is in the session.                                   *)
AllIsAnswered ==
  \A s \in Turn :
    (\A t \in Turn : session[t] = s => pc[t] = "done" /\ ~Limited(t)) =>
      SaidIn(s) \subseteq answered[s]

(* Every turn ends, also when others keep adding to its session.             *)
TurnsEnd == \A t \in Turn : pc[t] = "sent" ~> pc[t] \in Over

=============================================================================
