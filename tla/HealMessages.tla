---------------------------- MODULE HealMessages ----------------------------
(***************************************************************************)
(* A conversation as the model's API sees it, and how it is repaired       *)
(* before it is sent (crates/agenticlaw-llm/src/types.rs).                 *)
(*                                                                         *)
(* A message has a role, the texts it carries, the tool uses of an         *)
(* assistant and the tool results of a user message.  What a tool use asks *)
(* for and what a result says is left out.                                 *)
(***************************************************************************)
EXTENDS Naturals, SequencesExt

UserText(text) ==
  [role |-> "user", texts |-> {text}, uses |-> <<>>, results |-> <<>>]
AssistantText ==
  [role |-> "assistant", texts |-> {}, uses |-> <<>>, results |-> <<>>]
AssistantWithTools(uses) == [AssistantText EXCEPT !.uses = uses]
ToolResults(ids) ==
  [role |-> "user", texts |-> {}, uses |-> <<>>, results |-> ids]

(* The user message right after message i, if there is one, has the results. *)
Followed(messages, i) ==
  i < Len(messages) /\ messages[i + 1].role = "user"

Given(messages, i) ==
  IF Followed(messages, i) THEN ToSet(messages[i + 1].results) ELSE {}

(* The ids that stand at the places, in their order.                         *)
Filter(ids, places) ==
  IF DOMAIN ids \subseteq places THEN ids
  ELSE FlattenSeq([i \in DOMAIN ids |-> IF i \in places THEN <<ids[i]>> ELSE <<>>])

Missing(messages, i) ==
  LET uses == messages[i].uses
  IN  Filter(uses, {j \in DOMAIN uses : uses[j] \notin Given(messages, i)})

FirstPlaces(ids) == {i \in DOMAIN ids : \A j \in 1..(i - 1) : ids[j] # ids[i]}
dedup_tool_results(message) ==
  [message EXCEPT !.results = Filter(@, FirstPlaces(@))]

(* What becomes of message i.  The results its predecessor misses are        *)
(* appended to the message as it was, with its duplicates.                   *)
NeverMissing(messages, i) == <<dedup_tool_results(messages[i])>>   \* mutant
Healed(messages, i) ==
  LET owed == IF i > 1 /\ messages[i].role = "user"
                THEN Missing(messages, i - 1) ELSE <<>>
      missing == Missing(messages, i)
  IN  IF owed # <<>> THEN <<[messages[i] EXCEPT !.results = @ \o owed]>>
      ELSE IF ~Followed(messages, i) /\ missing # <<>>
             THEN <<messages[i], ToolResults(missing)>>
             ELSE <<dedup_tool_results(messages[i])>>

validate_and_heal_messages(messages) ==
  FlattenSeq([i \in DOMAIN messages |-> Healed(messages, i)])

(* What the API asks for: every tool use has exactly one result in the       *)
(* message that follows.                                                     *)
Paired(messages) ==
  \A i \in DOMAIN messages : \A id \in ToSet(messages[i].uses) :
    /\ Followed(messages, i)
    /\ \E j \in DOMAIN messages[i + 1].results :
         \A k \in DOMAIN messages[i + 1].results :
           messages[i + 1].results[k] = id <=> k = j
=============================================================================
