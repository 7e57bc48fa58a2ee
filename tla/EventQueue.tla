----------------------------- MODULE EventQueue -----------------------------
(***************************************************************************)
(* The v3 "consciousness loop" (crates/agenticlaw-agent/src/queue.rs): one *)
(* task takes events from a channel, the urgent ones first, and everything *)
(* else that runs only sends it events.  A human message parks the running *)
(* tools, cancels the running LLM call and starts a new one; the answer of *)
(* a call ends the turn or launches tools; the result of the last tool     *)
(* starts the next call.                                                   *)
(*                                                                         *)
(* The LLM calls and the tools are tasks of their own that share nothing   *)
(* with the loop but the channel and their cancellation token, so handling *)
(* an event is one action, and so is the end of such a task.  Calls and    *)
(* tools are numbered in the order they are started.                       *)
(***************************************************************************)
EXTENDS Naturals, Sequences, SequencesExt, FiniteSets

CONSTANTS
  Session,        \* the session keys
  Replies,        \* what a call may answer: [tools : number, text : BOOLEAN]
  max_tool_iterations,
  SleepAt,        \* the messages that fill a session's context window
  MaxMessages,    \* bound: human messages and cascade deltas
  MaxNotices,     \* bound: injections, wake and sleep events
  MaxTools        \* bound: tools ever launched

ASSUME QueueAssumption ==
  /\ Replies \subseteq [tools : Nat, text : BOOLEAN]
  /\ max_tool_iterations \in Nat
  /\ SleepAt \in Nat
  /\ MaxMessages \in Nat /\ MaxNotices \in Nat /\ MaxTools \in Nat

VARIABLES
  channel, buffer,   \* queue_rx and priority_buffer
  active,            \* active_tools
  current,           \* llm_cancel and current_request_id: the call, 0 for None
  current_session,
  tool_iterations,
  messages,          \* each session's conversation
  running,           \* the loop has not seen Shutdown
  calls, tools,      \* every LLM call and tool task there ever was
  turn,              \* what a client last heard of its session's turn
  sent, notices      \* counters behind the bounds

loop == <<active, current, current_session, tool_iterations, messages>>
tasks == <<calls, tools>>
vars == <<channel, buffer, active, current, current_session, tool_iterations,
          messages, running, calls, tools, turn, sent, notices>>

Init ==
  /\ channel = <<>> /\ buffer = <<>>
  /\ active = {}
  /\ current = 0
  /\ current_session = "none"
  /\ tool_iterations = 0
  /\ messages = [s \in Session |-> <<>>]
  /\ running = TRUE
  /\ calls = <<>> /\ tools = <<>>
  /\ turn = [s \in Session |-> "none"]
  /\ sent = 0
  /\ notices = 0

-----------------------------------------------------------------------------
(* Events come from the clients, the cascade, the LLM calls and the tools.   *)

Submit(event) == channel' = Append(channel, event)

(* HumanMessage, or CascadeDelta for an inner layer.                         *)
SendMessage(s, kind) ==
  /\ sent < MaxMessages
  /\ sent' = sent + 1
  /\ Submit([kind |-> kind, session |-> s])
  /\ UNCHANGED <<buffer, loop, tasks, running, turn, notices>>

SendNotice(kind) ==
  /\ notices < MaxNotices
  /\ notices' = notices + 1
  /\ Submit([kind |-> kind])
  /\ UNCHANGED <<buffer, loop, tasks, running, turn, sent>>

(* The stream of a call ends by itself.  The select loop does not favour     *)
(* cancellation, so a cancelled call may still come to its end.              *)
Complete(c, reply) ==
  /\ calls[c].status = "running"
  /\ Len(tools) + reply.tools <= MaxTools
  /\ calls' = [calls EXCEPT ![c].status = "over"]
  /\ Submit([kind |-> "LlmComplete", call |-> c, reply |-> reply])
  /\ UNCHANGED <<buffer, loop, tools, running, turn, sent, notices>>

(* The stream of a cancelled call is dropped: no event.                      *)
Drop(c) ==
  /\ calls[c].status = "running" /\ calls[c].cancelled
  /\ calls' = [calls EXCEPT ![c].status = "over"]
  /\ UNCHANGED <<channel, buffer, loop, tools, running, turn, sent, notices>>

(* complete_stream returns an error: the clients hear it, the loop does not. *)
Fail(c) ==
  /\ calls[c].status = "running"
  /\ calls' = [calls EXCEPT ![c].status = "failed"]
  /\ turn' = [turn EXCEPT ![calls[c].session] = "error"]
  /\ UNCHANGED <<channel, buffer, loop, tools, running, sent, notices>>

(* An error in the stream is heard, but the stream goes on to its end.       *)
StreamError(c) ==
  /\ calls[c].status = "running"
  /\ turn' = [turn EXCEPT ![calls[c].session] = "error"]
  /\ UNCHANGED <<channel, buffer, loop, tasks, running, sent, notices>>

(* A tool always submits a result, if only that it was cancelled.            *)
FinishTool(t) ==
  /\ tools[t].status = "running"
  /\ tools' = [tools EXCEPT ![t].status = "over"]
  /\ Submit([kind |-> "ToolResult", tool |-> t])
  /\ UNCHANGED <<buffer, loop, calls, running, turn, sent, notices>>

-----------------------------------------------------------------------------
(* recv_with_priority: only an empty buffer is refilled, with all that the   *)
(* channel holds.  The sort is stable, so the event in front of the sorted   *)
(* buffer is the first of the most urgent ones; the buffer is left as it was *)
(* drained, since it is sorted again before the next event is taken.         *)

priority(event) ==
  CASE event.kind \in {"Shutdown", "Sleep"} -> 20    \* System
    [] event.kind = "HumanMessage"          -> 10    \* Human
    [] OTHER                                -> 0     \* Normal

Drained == IF buffer = <<>> THEN channel ELSE buffer
Precedes(i, j) ==
  \/ priority(Drained[i]) > priority(Drained[j])
  \/ priority(Drained[i]) = priority(Drained[j]) /\ i <= j
Foremost == CHOOSE i \in DOMAIN Drained : \A j \in DOMAIN Drained : Precedes(i, j)
Event == Drained[Foremost]

DrainsTwice == /\ Drained # <<>>                                   \* mutant
               /\ buffer' = RemoveAt(Drained, Foremost)
               /\ channel' = <<>>
recv_with_priority ==
  /\ Drained # <<>>
  /\ buffer' = RemoveAt(Drained, Foremost)
  /\ channel' = IF buffer = <<>> THEN <<>> ELSE channel

-----------------------------------------------------------------------------
(* The handlers.                                                             *)

UserMessage == [role |-> "user", ids |-> {}]
Assistant(ids) == [role |-> "assistant", ids |-> ids]

(* Session::add_tool_result: the results of a turn go into one user message, *)
(* as long as nothing else has been added since.                             *)
NeverMerges(conversation, t) ==                                    \* mutant
  Append(conversation, [role |-> "results", ids |-> {t}])
add_tool_result(conversation, t) ==
  LET n == Len(conversation)
  IN IF n > 0 /\ conversation[n].role = "results"
       THEN [conversation EXCEPT ![n].ids = @ \cup {t}]
       ELSE Append(conversation, [role |-> "results", ids |-> {t}])

KeepsRunning == calls                                              \* mutant
Cancelled == IF current = 0 THEN calls
             ELSE [calls EXCEPT ![current].cancelled = TRUE]

(* start_llm_call: the call takes the conversation as it is now.             *)
start_llm_call(s, before) ==
  /\ calls' = Append(before, [session |-> s, status |-> "running",
                              cancelled |-> FALSE, context |-> messages'[s]])
  /\ current' = Len(before) + 1

handle_human_message(event) ==
  LET s == event.session
  IN /\ event.kind \in {"HumanMessage", "CascadeDelta"}
     /\ active' = {}
     /\ tool_iterations' = 0
     /\ messages' = [messages EXCEPT ![s] = Append(@, UserMessage)]
     /\ IF Len(messages'[s]) > SleepAt
          THEN /\ calls' = Cancelled /\ current' = 0
               /\ turn' = [turn EXCEPT ![s] = "done"]
               /\ UNCHANGED current_session
          ELSE /\ start_llm_call(s, Cancelled)
               /\ turn' = [turn EXCEPT ![s] = "waiting"]
               /\ current_session' = s
     /\ UNCHANGED <<tools, running, sent, notices>>

ActiveSession(t) == current_session                                \* mutant
SessionOf(t) == tools[t].session

(* May the turn go on, once the result of tool t is there?                   *)
TestsTooEarly(t) == active = {} /\ current = 0                      \* mutant
ForgetsTools(t) == current = 0                                     \* mutant
ForgetsLlm(t) == active \ {t} = {}                                 \* mutant
NothingAwaited(t) == active \ {t} = {} /\ current = 0

NeverTooMany == FALSE                                              \* mutant
TooManyIterations == tool_iterations' > max_tool_iterations

handle_tool_result(event) ==
  LET t == event.tool
      s == SessionOf(t)
  IN /\ event.kind = "ToolResult"
     /\ active' = active \ {t}
     /\ messages' = [messages EXCEPT ![s] = add_tool_result(@, t)]
     /\ IF NothingAwaited(t)
          THEN /\ tool_iterations' = tool_iterations + 1
               /\ IF TooManyIterations
                    THEN /\ turn' = [turn EXCEPT ![s] = "done"]
                         /\ UNCHANGED <<calls, current>>
                    ELSE /\ start_llm_call(s, calls)
                         /\ UNCHANGED turn
          ELSE UNCHANGED <<tool_iterations, calls, current, turn>>
     /\ UNCHANGED <<current_session, tools, running, sent, notices>>

(* launch_tool, for every tool call of the answer.                           *)
LaunchOffByOne(s, n) ==                                            \* mutant
  /\ tools' = tools \o [i \in 1 .. n |-> [session |-> s, status |-> "running"]]
  /\ active' = active \cup (Len(tools) + 1 .. Len(tools) + n + 1)
launch_tools(s, n) ==
  /\ tools' = tools \o [i \in 1 .. n |-> [session |-> s, status |-> "running"]]
  /\ active' = active \cup (Len(tools) + 1 .. Len(tools) + n)

NoAnswerIsStale(c) == FALSE                                        \* mutant
Stale(c) == c # current

handle_llm_complete(event) ==
  LET c == event.call
      s == calls[c].session
      reply == event.reply
  IN /\ event.kind = "LlmComplete"
     /\ IF Stale(c)
          THEN UNCHANGED <<active, current, messages, tools, turn>>
          ELSE /\ current' = 0
               /\ launch_tools(s, reply.tools)
               /\ messages' =
                    IF reply.tools = 0 /\ ~reply.text THEN messages
                    ELSE [messages EXCEPT ![s] =
                            Append(@, Assistant(active' \ active))]
               /\ turn' = IF reply.tools = 0
                            THEN [turn EXCEPT ![s] = "done"] ELSE turn
     /\ UNCHANGED <<current_session, tool_iterations, calls, running, sent,
                    notices>>

(* Injection, Wake and Sleep change nothing.                                 *)
Ignore(event) ==
  /\ event.kind \in {"Injection", "Wake", "Sleep"}
  /\ UNCHANGED <<loop, tasks, running, turn, sent, notices>>

Shutdown(event) ==
  /\ event.kind = "Shutdown"
  /\ running' = FALSE
  /\ active' = {}
  /\ calls' = Cancelled /\ current' = 0
  /\ UNCHANGED <<current_session, tool_iterations, messages, tools, turn,
                 sent, notices>>

-----------------------------------------------------------------------------

Clients ==
  \/ \E s \in Session, kind \in {"HumanMessage", "CascadeDelta"} :
       SendMessage(s, kind)
  \/ \E kind \in {"Injection", "Wake", "Sleep", "Shutdown"} : SendNotice(kind)

EndOfCall(c) == Drop(c) \/ Fail(c) \/ \E reply \in Replies : Complete(c, reply)

run ==
  /\ running
  /\ recv_with_priority
  /\ \/ handle_human_message(Event) \/ handle_tool_result(Event)
     \/ handle_llm_complete(Event) \/ Ignore(Event) \/ Shutdown(Event)

Next ==
  \/ Clients
  \/ \E c \in DOMAIN calls : EndOfCall(c) \/ StreamError(c)
  \/ \E t \in DOMAIN tools : FinishTool(t)
  \/ run

Spec == Init /\ [][Next]_vars

(* The loop is scheduled, streams end and tools return (bash has a timeout). *)
(* Nobody has to send a message.                                             *)
Fairness ==
  /\ WF_vars(run)
  /\ WF_vars(\E c \in DOMAIN calls : EndOfCall(c))
  /\ WF_vars(\E t \in DOMAIN tools : FinishTool(t))

FairSpec == Spec /\ Fairness

-----------------------------------------------------------------------------
(* Properties.                                                               *)

Events ==
  [kind : {"HumanMessage", "CascadeDelta"}, session : Session]
    \cup [kind : {"Injection", "Wake", "Sleep", "Shutdown"}]
    \cup [kind : {"LlmComplete"}, call : DOMAIN calls, reply : Replies]
    \cup [kind : {"ToolResult"}, tool : DOMAIN tools]
Conversation ==
  Seq([role : {"user", "assistant", "results"}, ids : SUBSET DOMAIN tools])

(* Every variable holds a value of its type; events, tool uses and results   *)
(* only name calls and tools that were started.                              *)
TypeOK ==
  /\ channel \in Seq(Events) /\ buffer \in Seq(Events)
  /\ active \subseteq DOMAIN tools
  /\ current = 0 \/ current \in DOMAIN calls
  /\ current_session \in Session \cup {"none"}
  /\ tool_iterations \in Nat
  /\ messages \in [Session -> Conversation]
  /\ running \in BOOLEAN
  /\ calls \in Seq([session : Session, status : {"running", "over", "failed"},
                    cancelled : BOOLEAN, context : Conversation])
  /\ tools \in Seq([session : Session, status : {"running", "over"}])
  /\ turn \in [Session -> {"none", "waiting", "error", "done"}]
  /\ sent \in 0 .. MaxMessages
  /\ notices \in 0 .. MaxNotices

Queued(event) ==
  \/ \E i \in DOMAIN channel : event = channel[i]
  \/ \E i \in DOMAIN buffer : event = buffer[i]

(* The loop waits for one answer or for tools, never for both, and a call it *)
(* no longer waits for is cancelled: no call runs beside another one, and no *)
(* answer is paid for and then thrown away without the loop having tried to  *)
(* stop it.                                                                  *)
OneThingAtATime ==
  /\ current # 0 => active = {}
  /\ \A c \in DOMAIN calls :
       calls[c].status = "running" /\ ~calls[c].cancelled => c = current

(* What the loop waits for is on its way, unless the call failed: the call   *)
(* is running and not cancelled or its answer is queued, and so for tools.   *)
AwaitedIsComing ==
  /\ TypeOK
  /\ current # 0 =>
       \/ calls[current].status = "running" /\ ~calls[current].cancelled
       \/ calls[current].status = "failed"
       \/ \E reply \in Replies : Queued([kind |-> "LlmComplete",
                                         call |-> current, reply |-> reply])
  /\ \A t \in active : \/ tools[t].status = "running"
                        \/ Queued([kind |-> "ToolResult", tool |-> t])

Positions(conversation, role) ==
  {i \in DOMAIN conversation : conversation[i].role = role}

(* An answer is added to a conversation only if the model saw every user     *)
(* message of it, whatever was cancelled, finished or queued meanwhile.      *)
AnswersLatest ==
  [][\A s \in Session :
       Positions(messages'[s], "assistant") # Positions(messages[s], "assistant") =>
         Positions(messages[s], "user") = Positions(calls[Event.call].context, "user")
    ]_vars

(* No runaway: whatever results come late, the calls of all sessions are     *)
(* paid for by messages, each of which buys max_tool_iterations + 1.         *)
UserMessages ==
  UNION {{<<s, i>> : i \in Positions(messages[s], "user")} : s \in Session}
CallsPaidFor ==
  Len(calls) <= (max_tool_iterations + 1) * Cardinality(UserMessages)

Ids(conversation, role) ==
  UNION {conversation[i].ids : i \in Positions(conversation, role)}

(* A conversation holds the result of a tool only after the answer that used *)
(* it, and once: no event, however late, lands in another session's          *)
(* conversation, in front of its tool use, or twice.                         *)
ResultsFollowUses ==
  \A s \in Session : \A i \in DOMAIN messages[s] :
    messages[s][i].role = "results" =>
      /\ messages[s][i].ids
           \subseteq Ids(SubSeq(messages[s], 1, i - 1), "assistant")
      /\ messages[s][i].ids
           \cap Ids(SubSeq(messages[s], 1, i - 1), "results") = {}

Role(conversation, i, j, role) ==
  \E k \in i + 1 .. j - 1 : conversation[k].role = role

(* No message of another session has parked what this one waits for; such a  *)
(* message leaves no trace in this one's conversation.                       *)
Alone(s) == \A other \in Session \ {s} : messages[other] = <<>>

(* The results of one answer are in one user message (session.rs:324 says    *)
(* that the model's API wants that), unless a human message came before the  *)
(* last of them.                                                             *)
PartedByMessage ==
  \A s \in Session : \A i, j, k \in DOMAIN messages[s] :
    LET m == messages[s]
    IN /\ Alone(s)
       /\ m[i].role = "assistant" /\ j < k
       /\ m[j].role = "results" /\ m[i].ids \cap m[j].ids # {}
       /\ m[k].role = "results" /\ m[i].ids \cap m[k].ids # {}
       => Role(m, i, k, "user")

(* A call is started with a tool use unanswered only when a human message    *)
(* has parked that tool: its context has a user message after the use.       *)
UnansweredWereParked ==
  \A c \in DOMAIN calls :
    LET m == calls[c].context
    IN \A i \in DOMAIN m :
         /\ Alone(calls[c].session)
         /\ m[i].role = "assistant" /\ ~(m[i].ids \subseteq Ids(m, "results"))
         => Role(m, i, Len(m) + 1, "user")

(* After Shutdown nothing works on: every call still running is cancelled.   *)
StoppedIsQuiet ==
  ~running => /\ active = {}
              /\ \A c \in DOMAIN calls :
                   calls[c].status = "running" => calls[c].cancelled

(* What the loop lets run: one call or some tools, no more calls than were   *)
(* paid for, nothing after Shutdown (queue.rs:342-514).                      *)
CallsInHand == OneThingAtATime /\ CallsPaidFor /\ StoppedIsQuiet

(* The conversation a call is started with: every result behind its use and  *)
(* beside those of the same answer, every use with its result, but for what  *)
(* a human message came between (queue.rs:384-514, session.rs:315-355).      *)
ConversationHolds == ResultsFollowUses /\ PartedByMessage /\ UnansweredWereParked

(* A message is never lost or starved by tool results, answers or other      *)
(* messages: the loop gets to it, unless it is shut down.                    *)
MessageHandled ==
  Cardinality(UserMessages) < sent ~> Cardinality(UserMessages) = sent \/ ~running

(* A client that waits for its turn's end hears Done or Error, unless the    *)
(* loop was shut down or turned to a message of another session.             *)
TurnEnds ==
  \A s \in Session :
    turn[s] = "waiting" ~>
      turn[s] # "waiting" \/ current_session # s \/ ~running

=============================================================================
