--------------------------- MODULE ProtectGateway ---------------------------
(***************************************************************************)
(* The operator's protectgateway: it loads a policy and its overlays        *)
(* (operator/src/proxy_main.rs), and for each connection of a client runs   *)
(* two loops in one task (handle_ws in operator/src/proxy.rs), one that     *)
(* checks what the client says and hands it on, one that brings the         *)
(* client the upstream's answers and the first loop's denials.  A text that *)
(* is no JSON, or has no content, is a text without tool calls.             *)
(***************************************************************************)
EXTENDS Naturals, Sequences, Policy

CONSTANTS
  Base, Overlays,     \* policy.json, and the files of the overlays' directory
  Message,            \* what a client may say: [form, calls]
  Channel,            \* denials the channel between the loops holds
  MaxSaid, MaxReplies,    \* bounds
  None

ASSUME GatewayAssumption ==
  /\ Base \in Policies /\ Overlays \subseteq Policies
  /\ Message \subseteq [form : {"text", "binary", "close"}, calls : SUBSET ToolCall]
  /\ Channel \in Nat \ {0} /\ MaxSaid \in Nat /\ MaxReplies \in Nat
  /\ None \notin Message

VARIABLES
  pc,             \* "loading", "serving" a connection, "closed"
  policy, unread, \* the merged policy, overlays still to read
  loaded,         \* history: the policies that are merged in it
  inbox,          \* said by the client, not read yet
  blocked,        \* a message whose denial waits for room in the channel
  denial,         \* the channel
  upstream,       \* what the upstream was handed, in order
  replies,        \* answers of the upstream on their way
  read, denied    \* history: what the first loop has read; the denials the
                  \* client has been brought, by the message denied

setup == <<policy, unread, loaded>>
toUpstream == <<inbox, blocked, upstream, read>>
vars == <<pc, setup, toUpstream, denial, replies, denied>>

Init ==
  /\ pc = "loading"
  /\ policy = Base /\ loaded = {Base} /\ unread = Overlays
  /\ inbox = <<>> /\ blocked = None /\ denial = <<>>
  /\ upstream = <<>> /\ replies = 0
  /\ read = <<>> /\ denied = <<>>

-----------------------------------------------------------------------------
(* main.                                                                     *)

\* The directory's entries come in any order; one that cannot be loaded is
\* skipped with a warning.
ReadOverlay(sub) ==
  /\ pc = "loading" /\ sub \in unread
  /\ unread' = unread \ {sub}
  /\ \/ policy' = merge_sub_policy(policy, sub) /\ loaded' = loaded \cup {sub}
     \/ UNCHANGED <<policy, loaded>>
  /\ UNCHANGED <<pc, toUpstream, denial, replies, denied>>

Serve ==
  /\ pc = "loading" /\ unread = {}
  /\ pc' = "serving"
  /\ UNCHANGED <<setup, toUpstream, denial, replies, denied>>

-----------------------------------------------------------------------------
(* The two ends of a connection.                                             *)

Say(m) ==
  /\ pc = "serving" /\ Len(inbox) + Len(read) < MaxSaid
  /\ inbox' = Append(inbox, m)
  /\ UNCHANGED <<pc, setup, blocked, upstream, read, denial, replies, denied>>

Reply ==
  /\ pc = "serving" /\ replies < MaxReplies
  /\ replies' = replies + 1
  /\ UNCHANGED <<pc, setup, toUpstream, denial, denied>>

\* One of them goes away, and with the loop that notices the other loop ends.
HangUp ==
  /\ pc = "serving"
  /\ pc' = "closed"
  /\ UNCHANGED <<setup, toUpstream, denial, replies, denied>>

-----------------------------------------------------------------------------
(* client_to_upstream.                                                       *)

\* One call that is denied denies the message; Ask is allowed, as nobody is
\* there to be asked.  Only texts are looked into.
check_message(m) ==
  IF m.form = "text" /\ \E c \in m.calls : check_tool_call(policy, c) = "Deny"
  THEN "Deny" ELSE "Allow"

Take == /\ pc = "serving" /\ blocked = None /\ inbox # <<>>
        /\ inbox' = Tail(inbox)
        /\ read' = Append(read, Head(inbox))

Forward ==
  /\ Take
  /\ Head(inbox).form # "close" /\ check_message(Head(inbox)) = "Allow"
  /\ upstream' = Append(upstream, Head(inbox))
  /\ UNCHANGED <<pc, setup, blocked, denial, replies, denied>>

Deny ==
  /\ Take
  /\ Head(inbox).form # "close" /\ check_message(Head(inbox)) = "Deny"
  /\ blocked' = Head(inbox)
  /\ UNCHANGED <<pc, setup, upstream, denial, replies, denied>>

\* denial_tx.send waits until the channel has room.
SendDenial ==
  /\ blocked # None /\ Len(denial) < Channel
  /\ denial' = Append(denial, blocked)

HandOver ==
  /\ pc = "serving"
  /\ SendDenial
  /\ blocked' = None
  /\ UNCHANGED <<pc, setup, inbox, upstream, read, replies, denied>>

Close ==
  /\ Take
  /\ Head(inbox).form = "close"
  /\ pc' = "closed"
  /\ UNCHANGED <<setup, blocked, upstream, denial, replies, denied>>

-----------------------------------------------------------------------------
(* upstream_to_client.                                                       *)

RelayReply ==
  /\ pc = "serving" /\ replies > 0
  /\ replies' = replies - 1
  /\ UNCHANGED <<pc, setup, toUpstream, denial, denied>>

OnlyUnderPressure == denial # <<>> /\ blocked # None                  \* mutant
DenialReady == denial # <<>>

RelayDenial ==
  /\ pc = "serving" /\ DenialReady
  /\ denial' = Tail(denial)
  /\ denied' = Append(denied, Head(denial))
  /\ UNCHANGED <<pc, setup, toUpstream, replies>>

client_to_upstream == Forward \/ Deny \/ HandOver \/ Close
upstream_to_client == RelayReply \/ RelayDenial

Next ==
  \/ \E sub \in Overlays : ReadOverlay(sub)
  \/ Serve
  \/ \E m \in Message : Say(m)
  \/ Reply \/ HangUp
  \/ client_to_upstream \/ upstream_to_client

\* The task runs, and select! chooses by chance among what is ready, so a
\* denial that waits is relayed in the end however many answers there are.
Fairness == WF_vars(client_to_upstream) /\ SF_vars(RelayReply) /\ SF_vars(RelayDenial)

Spec == Init /\ [][Next]_vars /\ Fairness

-----------------------------------------------------------------------------
TypeOK ==
  /\ pc \in {"loading", "serving", "closed"}
  /\ policy \in Policies /\ unread \subseteq Overlays /\ loaded \subseteq Overlays \cup {Base}
  /\ inbox \in Seq(Message) /\ blocked \in Message \cup {None}
  /\ denial \in Seq(Message) /\ Len(denial) <= Channel
  /\ upstream \in Seq(Message) /\ replies \in Nat
  /\ read \in Seq(Message) /\ denied \in Seq(Message)

\* A text with a call that some loaded policy denies, or none permits.
Refused(m) == m.form = "text" /\ \E c \in m.calls : DeniedByAny(loaded, c)

\* kept is said without what is not wanted: each message once and in order.
IsSelection(kept, said, wanted) ==
  \E at \in [1..Len(kept) -> 1..Len(said)] :
    /\ \A i, j \in 1..Len(kept) : i < j => at[i] < at[j]
    /\ \A i \in 1..Len(kept) : kept[i] = said[at[i]]
    /\ \A j \in 1..Len(said) : said[j] \in wanted <=> \E i \in 1..Len(kept) : at[i] = j

ToDeny == {m \in Message : Refused(m)}
ToHandOn == {m \in Message : m.form # "close" /\ ~Refused(m)}
Denials == denied \o denial \o (IF blocked = None THEN <<>> ELSE <<blocked>>)

\* The upstream has what the client said and no loaded policy objects to, and
\* the client's denials, brought to it or on their way, are for the rest: each
\* message once and in order, whatever the order in which the overlays were
\* read (policy.rs:107-113, 233-252; proxy.rs:99-145).
EachGoesItsWay ==
  /\ TypeOK
  /\ IsSelection(upstream, read, ToHandOn)
  /\ IsSelection(Denials, read, ToDeny)

\* Whatever the client has said is handed on or answered by a denial, and so
\* are the denials a full channel holds back, unless the connection ends.
NothingWaits ==
  [](pc = "serving" => <>(pc = "closed" \/ (inbox = <<>> /\ blocked = None /\ denial = <<>>)))
=============================================================================
