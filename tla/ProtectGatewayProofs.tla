------------------------- MODULE ProtectGatewayProofs -------------------------
(***************************************************************************)
(* What the gateway denies is what some loaded policy objects to, and each  *)
(* message goes its way once and in order, for any policies, any overlays   *)
(* in any order, and any calls.  The policies merged so far are, tier by    *)
(* tier, the union of those that were loaded; a decision over a union of    *)
(* patterns is a decision over the policies.                                *)
(***************************************************************************)
EXTENDS ProtectGateway, SequenceTheorems, TLAPS

USE PatternAssumption, GatewayAssumption

Tiers == {"tools", "bash_commands", "filesystem"}
Kinds == {"allow", "deny", "ask"}

\* The policy in force allows, denies and asks what any of the policies does.
IsMergeOf(merged, policies) ==
  \A t \in Tiers, k \in Kinds : merged[t][k] = UNION {p[t][k] : p \in policies}

MergeInv ==
  /\ policy \in Policies
  /\ loaded \subseteq Policies /\ unread \subseteq Overlays
  /\ IsMergeOf(policy, loaded)

-----------------------------------------------------------------------------
\* Merging is the union of each tier's patterns (merge_tier, policy.rs:228).
LEMMA MergeUnites ==
  ASSUME NEW base \in Policies, NEW sub \in Policies
  PROVE  /\ merge_sub_policy(base, sub) \in Policies
         /\ \A t \in Tiers, k \in Kinds :
              merge_sub_policy(base, sub)[t][k] = base[t][k] \cup sub[t][k]
  BY DEF merge_sub_policy, merge_tier, Policies, PolicyTier, Tiers, Kinds

\* So one more overlay merged is one more policy in the union.
LEMMA OneMore ==
  ASSUME NEW base \in Policies, NEW sub \in Policies, NEW policies,
         IsMergeOf(base, policies)
  PROVE  IsMergeOf(merge_sub_policy(base, sub), policies \cup {sub})
<1> SUFFICES ASSUME NEW t \in Tiers, NEW k \in Kinds
             PROVE  merge_sub_policy(base, sub)[t][k]
                      = UNION {p[t][k] : p \in policies \cup {sub}}
  BY DEF IsMergeOf
<1>1. merge_sub_policy(base, sub)[t][k] = base[t][k] \cup sub[t][k]
  BY MergeUnites
<1>2. base[t][k] = UNION {p[t][k] : p \in policies}
  BY DEF IsMergeOf
<1> QED BY <1>1, <1>2

\* A union of patterns hits what some set of the union hits (check_tier's
\* loops over a tier's patterns, policy.rs:301).
LEMMA HitsOfUnion ==
  ASSUME NEW policies, NEW t \in Tiers, NEW k \in Kinds, NEW values,
         NEW merged, IsMergeOf(merged, policies)
  PROVE  Hits(merged[t][k], values) <=> \E p \in policies : Hits(p[t][k], values)
<1>1. merged[t][k] = UNION {p[t][k] : p \in policies}
  BY DEF IsMergeOf
<1> QED BY <1>1 DEF Hits

LEMMA HitsOfBoth ==
  ASSUME NEW a, NEW b, NEW values
  PROVE  Hits(a \cup b, values) <=> Hits(a, values) \/ Hits(b, values)
  BY DEF Hits

\* A tier of the merged policy denies what some policy denies or none permits.
LEMMA TierDenies ==
  ASSUME NEW policies, NEW t \in Tiers, NEW values, NEW merged, IsMergeOf(merged, policies)
  PROVE  check_tier(merged[t], values) = "Deny"
           <=> \/ \E p \in policies : Hits(p[t].deny, values)
               \/ \A p \in policies : ~Hits(p[t].ask \cup p[t].allow, values)
<1>1. Hits(merged[t].deny, values) <=> \E p \in policies : Hits(p[t].deny, values)
  BY HitsOfUnion DEF Kinds
<1>2. Hits(merged[t].ask, values) <=> \E p \in policies : Hits(p[t].ask, values)
  BY HitsOfUnion DEF Kinds
<1>3. Hits(merged[t].allow, values) <=> \E p \in policies : Hits(p[t].allow, values)
  BY HitsOfUnion DEF Kinds
<1>4. \A p \in policies : Hits(p[t].ask \cup p[t].allow, values)
                            <=> Hits(p[t].ask, values) \/ Hits(p[t].allow, values)
  BY HitsOfBoth
<1> QED BY <1>1, <1>2, <1>3, <1>4 DEF check_tier

\* The decision about a call (check_tool_call, policy.rs:173).
LEMMA CallDenied ==
  ASSUME NEW policies, NEW merged, IsMergeOf(merged, policies), NEW call \in ToolCall
  PROVE  check_tool_call(merged, call) = "Deny" <=> DeniedByAny(policies, call)
<1>1. check_tier(merged.tools, {call.name}) = "Deny"
        <=> \/ \E p \in policies : Hits(p.tools.deny, {call.name})
            \/ \A p \in policies : ~Hits(p.tools.ask \cup p.tools.allow, {call.name})
  BY TierDenies DEF Tiers
<1>2. call.tier # "none" =>
        (check_tier(merged[call.tier], call.spellings) = "Deny"
          <=> \/ \E p \in policies : Hits(p[call.tier].deny, call.spellings)
              \/ \A p \in policies :
                   ~Hits(p[call.tier].ask \cup p[call.tier].allow, call.spellings))
  <2> SUFFICES ASSUME call.tier # "none" PROVE call.tier \in Tiers
    BY TierDenies
  <2> QED BY DEF Tiers, ToolCall
<1>3. ASSUME NEW a, NEW b
      PROVE  most_restrictive(a, b) = "Deny" <=> a = "Deny" \/ b = "Deny"
  BY DEF most_restrictive
<1>4. CASE ~HasTarget(call)
  BY <1>1, <1>4, Zenon DEF check_tool_call, DeniedByAny
<1>5. CASE HasTarget(call) /\ call.suspicious
  BY <1>5, Zenon DEF check_tool_call, DeniedByAny
<1>6. CASE HasTarget(call) /\ ~call.suspicious
  <2>1. call.tier # "none"
    BY <1>6 DEF HasTarget
  <2>2. check_tool_call(merged, call)
          = most_restrictive(check_tier(merged.tools, {call.name}),
                             check_tier(merged[call.tier], call.spellings))
    BY <1>6, <2>1, Zenon DEF check_tool_call
  <2> QED BY <1>1, <1>2, <1>3, <1>6, <2>1, <2>2, Zenon DEF DeniedByAny
<1> QED BY <1>4, <1>5, <1>6

-----------------------------------------------------------------------------
LEMMA InitMerge == Init => MergeInv
<1> SUFFICES ASSUME Init PROVE MergeInv
  OBVIOUS
<1>1. IsMergeOf(policy, loaded)
  BY DEF Init, IsMergeOf
<1> QED BY <1>1 DEF Init, MergeInv

LEMMA NextMerge == MergeInv /\ [Next]_vars => MergeInv'
<1> SUFFICES ASSUME MergeInv, [Next]_vars PROVE MergeInv'
  OBVIOUS
<1>1. ASSUME NEW sub \in Overlays, ReadOverlay(sub)
      PROVE  MergeInv'
  <2>1. sub \in Policies /\ unread' \subseteq Overlays
    BY <1>1 DEF ReadOverlay, MergeInv
  <2>2. CASE UNCHANGED <<policy, loaded>>
    BY <2>1, <2>2 DEF MergeInv
  <2>3. CASE policy' = merge_sub_policy(policy, sub) /\ loaded' = loaded \cup {sub}
    <3>1. policy' \in Policies
      BY <2>1, <2>3, MergeUnites DEF MergeInv
    <3>2. IsMergeOf(merge_sub_policy(policy, sub), loaded \cup {sub})
      BY <2>1, OneMore DEF MergeInv
    <3> QED BY <2>1, <2>3, <3>1, <3>2 DEF MergeInv
  <2> QED BY <1>1, <2>2, <2>3 DEF ReadOverlay
<1>2. ASSUME Serve PROVE MergeInv'
  BY <1>2 DEF Serve, setup, MergeInv
<1>3. ASSUME UNCHANGED setup PROVE MergeInv'
  BY <1>3 DEF setup, MergeInv
<1>4. CASE \E m \in Message : Say(m)
  BY <1>4, <1>3 DEF Say
<1>5. CASE Reply \/ HangUp
  BY <1>5, <1>3 DEF Reply, HangUp
<1>6. CASE client_to_upstream
  BY <1>6, <1>3 DEF client_to_upstream, Forward, Deny, HandOver, Close
<1>7. CASE upstream_to_client
  BY <1>7, <1>3 DEF upstream_to_client, RelayReply, RelayDenial
<1>8. CASE UNCHANGED vars
  BY <1>8, <1>3 DEF vars
<1> QED BY <1>1, <1>2, <1>4, <1>5, <1>6, <1>7, <1>8 DEF Next

\* The policy in force is the union of what was loaded, in whatever order and
\* whichever overlays could not be (proxy_main.rs:43-66).
THEOREM MergedWhateverTheOrder == Spec => []IsMergeOf(policy, loaded)
<1>1. MergeInv => IsMergeOf(policy, loaded)
  BY DEF MergeInv
<1> QED BY <1>1, InitMerge, NextMerge, PTL DEF Spec

(* What the first loop decides is what the loaded policies say.              *)
LEMMA ChecksRight ==
  ASSUME MergeInv, NEW m \in Message
  PROVE  /\ check_message(m) = "Deny" <=> Refused(m)
         /\ check_message(m) \in {"Deny", "Allow"}
         /\ Refused(m) => m.form # "close"
<1>1. m.calls \subseteq ToolCall
  OBVIOUS
<1>2. \A c \in m.calls : check_tool_call(policy, c) = "Deny" <=> DeniedByAny(loaded, c)
  BY <1>1, CallDenied DEF MergeInv
<1> QED
  BY <1>2 DEF check_message, Refused

\* Every message is denied exactly when it is a text with a call that some
\* loaded policy denies or none permits (proxy.rs:193-255).
THEOREM DeniesTheRefused ==
  Spec => [](\A m \in Message : check_message(m) = "Deny" <=> Refused(m))
<1>1. MergeInv => \A m \in Message : check_message(m) = "Deny" <=> Refused(m)
  BY ChecksRight
<1> QED BY <1>1, InitMerge, NextMerge, PTL DEF Spec

-----------------------------------------------------------------------------
(* Selections, one message more at a time.                                   *)

LEMMA NothingSelected == \A wanted : IsSelection(<<>>, <<>>, wanted)
<1> SUFFICES ASSUME NEW wanted PROVE IsSelection(<<>>, <<>>, wanted)
  OBVIOUS
<1> DEFINE at == [i \in 1..Len(<<>>) |-> i]
<1>1. Len(<<>>) = 0 /\ 1..0 = {}
  OBVIOUS
<1>2. at \in [1..Len(<<>>) -> 1..Len(<<>>)]
  OBVIOUS
<1> HIDE DEF at
<1> QED
  BY <1>1, <1>2 DEF IsSelection

LEMMA PassOver ==
  ASSUME NEW kept \in Seq(Message), NEW said \in Seq(Message), NEW wanted,
         NEW m \in Message, IsSelection(kept, said, wanted), m \notin wanted
  PROVE  IsSelection(kept, Append(said, m), wanted)
<1> DEFINE n == Len(said)
           longer == Append(said, m)
<1>1. /\ n \in Nat /\ Len(longer) = n + 1 /\ longer[n + 1] = m
      /\ \A j \in 1..n : longer[j] = said[j]
  BY AppendProperties, LenProperties
<1>2. PICK at \in [1..Len(kept) -> 1..n] :
        /\ \A i, j \in 1..Len(kept) : i < j => at[i] < at[j]
        /\ \A i \in 1..Len(kept) : kept[i] = said[at[i]]
        /\ \A j \in 1..n : said[j] \in wanted <=> \E i \in 1..Len(kept) : at[i] = j
  BY DEF IsSelection
<1> HIDE DEF n, longer
<1>3. at \in [1..Len(kept) -> 1..Len(longer)]
  BY <1>1, <1>2
<1>4. \A i \in 1..Len(kept) : kept[i] = longer[at[i]]
  BY <1>1, <1>2
<1>5. ASSUME NEW j \in 1..Len(longer)
      PROVE  longer[j] \in wanted <=> \E i \in 1..Len(kept) : at[i] = j
  <2>0. j \in 1..n \/ j = n + 1
    BY <1>1
  <2>1. CASE j \in 1..n
    BY <1>1, <1>2, <2>1
  <2>2. CASE j = n + 1
    <3>1. \A i \in 1..Len(kept) : at[i] # n + 1
      BY <1>1, <1>2
    <3> QED
      BY <1>1, <2>2, <3>1
  <2> QED
    BY <2>0, <2>1, <2>2
<1> QED
  BY <1>2, <1>3, <1>4, <1>5 DEF IsSelection, longer

LEMMA TakeUp ==
  ASSUME NEW kept \in Seq(Message), NEW said \in Seq(Message), NEW wanted,
         NEW m \in Message, IsSelection(kept, said, wanted), m \in wanted
  PROVE  IsSelection(Append(kept, m), Append(said, m), wanted)
<1> DEFINE n == Len(said)
           k == Len(kept)
           longer == Append(said, m)
           more == Append(kept, m)
<1>1. /\ n \in Nat /\ Len(longer) = n + 1 /\ longer[n + 1] = m
      /\ \A j \in 1..n : longer[j] = said[j]
  BY AppendProperties, LenProperties
<1>2. /\ k \in Nat /\ Len(more) = k + 1 /\ more[k + 1] = m
      /\ \A i \in 1..k : more[i] = kept[i]
  BY AppendProperties, LenProperties
<1>3. PICK at \in [1..k -> 1..n] :
        /\ \A i, j \in 1..k : i < j => at[i] < at[j]
        /\ \A i \in 1..k : kept[i] = said[at[i]]
        /\ \A j \in 1..n : said[j] \in wanted <=> \E i \in 1..k : at[i] = j
  BY DEF IsSelection
<1> HIDE DEF n, k, longer, more
<1> DEFINE to == [i \in 1..(k + 1) |-> IF i = k + 1 THEN n + 1 ELSE at[i]]
<1>4. /\ \A i \in 1..k : i \in 1..(k + 1) /\ i # k + 1 /\ at[i] \in 1..n
      /\ k + 1 \in 1..(k + 1) /\ n + 1 \in 1..(n + 1)
      /\ \A i \in 1..(k + 1) : i \in 1..k \/ i = k + 1
      /\ \A j \in 1..(n + 1) : j \in 1..n \/ j = n + 1
      /\ \A j \in 1..n : j \in 1..(n + 1) /\ j < n + 1
  BY <1>1, <1>2, <1>3
<1>5. /\ to \in [1..(k + 1) -> 1..(n + 1)]
      /\ to[k + 1] = n + 1 /\ \A i \in 1..k : to[i] = at[i]
  BY <1>4
<1> HIDE DEF to
<1>6. ASSUME NEW i \in 1..(k + 1), NEW j \in 1..(k + 1), i < j
      PROVE  to[i] < to[j]
  <2>1. i \in 1..k
    BY <1>2, <1>6
  <2>2. CASE j = k + 1
    BY <1>4, <1>5, <2>1, <2>2
  <2>3. CASE j \in 1..k
    BY <1>3, <1>5, <1>6, <2>1, <2>3
  <2> QED
    BY <1>4, <2>2, <2>3
<1>7. ASSUME NEW i \in 1..(k + 1)
      PROVE  more[i] = longer[to[i]]
  <2>1. CASE i \in 1..k
    <3>1. to[i] = at[i] /\ at[i] \in 1..n
      BY <1>4, <1>5, <2>1
    <3>2. more[i] = kept[i] /\ kept[i] = said[at[i]] /\ longer[at[i]] = said[at[i]]
      BY <1>1, <1>2, <1>3, <2>1, <3>1
    <3> QED
      BY <3>1, <3>2
  <2>2. CASE i = k + 1
    BY <1>1, <1>2, <1>5, <2>2
  <2> QED
    BY <1>4, <2>1, <2>2
<1>8. ASSUME NEW j \in 1..(n + 1)
      PROVE  longer[j] \in wanted <=> \E i \in 1..(k + 1) : to[i] = j
  <2>1. CASE j \in 1..n
    <3>1. longer[j] \in wanted <=> \E i \in 1..k : at[i] = j
      BY <1>1, <1>3, <2>1
    <3>2. j # n + 1
      BY <1>1, <2>1
    <3> QED
      BY <1>4, <1>5, <3>1, <3>2
  <2>2. CASE j = n + 1
    BY <1>1, <1>4, <1>5, <2>2
  <2> QED
    BY <1>4, <2>1, <2>2
<1> QED
  <2>1. 1..Len(more) = 1..(k + 1) /\ 1..Len(longer) = 1..(n + 1)
    BY <1>1, <1>2
  <2>2. to \in [1..Len(more) -> 1..Len(longer)]
    BY <1>5, <2>1
  <2>3. \A i, j \in 1..Len(more) : i < j => to[i] < to[j]
    BY <1>6, <2>1
  <2>4. \A i \in 1..Len(more) : more[i] = longer[to[i]]
    BY <1>7, <2>1
  <2>5. \A j \in 1..Len(longer) :
          longer[j] \in wanted <=> \E i \in 1..Len(more) : to[i] = j
    BY <1>8, <2>1
  <2>6. IsSelection(more, longer, wanted)
    BY <2>2, <2>3, <2>4, <2>5, Zenon DEF IsSelection
  <2> QED
    BY <2>6 DEF more, longer

-----------------------------------------------------------------------------
(* The connection.                                                           *)

LEMMA Associative ==
  \A s, t, u \in Seq(Message) : (s \o t) \o u = s \o (t \o u)
BY ConcatAssociative

ConnectionInv ==
  /\ pc \in {"loading", "serving", "closed"}
  /\ unread \subseteq Overlays /\ loaded \subseteq Overlays \cup {Base}
  /\ inbox \in Seq(Message) /\ blocked \in Message \cup {None}
  /\ denial \in Seq(Message) /\ Len(denial) <= Channel
  /\ upstream \in Seq(Message) /\ replies \in Nat
  /\ read \in Seq(Message) /\ denied \in Seq(Message)

(* Nothing is said before the policies are loaded, so what is denied is      *)
(* denied by the same policies throughout.                                   *)
LoadsFirst ==
  pc = "loading" =>
    read = <<>> /\ upstream = <<>> /\ denied = <<>> /\ denial = <<>> /\ blocked = None

WayInv ==
  /\ MergeInv /\ ConnectionInv /\ LoadsFirst
  /\ IsSelection(upstream, read, ToHandOn)
  /\ IsSelection(Denials, read, ToDeny)

LEMMA InitWay == Init => WayInv
<1> SUFFICES ASSUME Init PROVE WayInv
  OBVIOUS
<1>1. upstream = <<>> /\ read = <<>> /\ Denials = <<>>
  BY DEF Init, Denials
<1>2. ConnectionInv
  BY DEF Init, ConnectionInv
<1>3. MergeInv /\ LoadsFirst
  BY InitMerge DEF Init, LoadsFirst
<1> QED
  BY <1>1, <1>2, <1>3, NothingSelected DEF WayInv

LEMMA TakeReads ==
  ASSUME ConnectionInv, Take
  PROVE  /\ Head(inbox) \in Message
         /\ inbox' \in Seq(Message) /\ read' = Append(read, Head(inbox))
         /\ read' \in Seq(Message) /\ pc = "serving" /\ blocked = None
BY HeadTailProperties, AppendProperties DEF ConnectionInv, Take

LEMMA SameSets ==
  ASSUME UNCHANGED loaded
  PROVE  ToDeny' = ToDeny /\ ToHandOn' = ToHandOn
BY DEF ToDeny, ToHandOn, Refused

LEMMA NextConnection ==
  ASSUME ConnectionInv, [Next]_vars
  PROVE  ConnectionInv' 
<1> USE DEF setup, toUpstream
<1>1. ASSUME NEW sub \in Overlays, ReadOverlay(sub)
      PROVE  ConnectionInv'
  BY <1>1 DEF ReadOverlay, ConnectionInv
<1>2. ASSUME NEW m \in Message, Say(m)
      PROVE  ConnectionInv'
  <2>1. inbox' \in Seq(Message)
    BY <1>2, AppendProperties DEF Say, ConnectionInv
  <2> QED
    BY <1>2, <2>1 DEF Say, ConnectionInv
<1>3. CASE Serve \/ Reply \/ HangUp \/ RelayReply
  BY <1>3 DEF Serve, Reply, HangUp, RelayReply, ConnectionInv
<1>4. CASE Forward
  <2>1. upstream' \in Seq(Message)
    BY <1>4, TakeReads, AppendProperties DEF Forward, ConnectionInv
  <2> QED
    BY <1>4, <2>1, TakeReads DEF Forward, ConnectionInv
<1>5. CASE Deny
  BY <1>5, TakeReads DEF Deny, ConnectionInv
<1>6. CASE Close
  BY <1>6, TakeReads DEF Close, ConnectionInv
<1>7. CASE HandOver
  <2>1. blocked \in Message /\ Len(denial) < Channel
    BY <1>7 DEF HandOver, SendDenial, ConnectionInv
  <2>2. denial' \in Seq(Message) /\ Len(denial') = Len(denial) + 1
    BY <1>7, <2>1, AppendProperties DEF HandOver, SendDenial, ConnectionInv
  <2>3. Len(denial') <= Channel
    BY <2>1, <2>2, LenProperties DEF ConnectionInv
  <2> QED
    BY <1>7, <2>2, <2>3 DEF HandOver, ConnectionInv
<1>8. CASE RelayDenial
  <2>1. denial # <<>> /\ Head(denial) \in Message /\ Tail(denial) \in Seq(Message)
        /\ Len(Tail(denial)) = Len(denial) - 1
    BY <1>8, HeadTailProperties DEF RelayDenial, DenialReady, ConnectionInv
  <2>2. denied' \in Seq(Message) /\ Len(denial') <= Channel
    BY <1>8, <2>1, AppendProperties, LenProperties DEF RelayDenial, ConnectionInv
  <2> QED
    BY <1>8, <2>1, <2>2 DEF RelayDenial, ConnectionInv
<1>9. CASE UNCHANGED vars
  BY <1>9 DEF vars, ConnectionInv
<1> QED
  BY <1>1, <1>2, <1>3, <1>4, <1>5, <1>6, <1>7, <1>8, <1>9
     DEF Next, client_to_upstream, upstream_to_client

LEMMA NextWay == WayInv /\ [Next]_vars => WayInv'
<1> SUFFICES ASSUME WayInv, [Next]_vars PROVE WayInv'
  OBVIOUS
<1>0. MergeInv /\ ConnectionInv /\ MergeInv' /\ ConnectionInv'
  BY NextMerge, NextConnection DEF WayInv
<1> USE DEF setup, toUpstream
<1>1. ASSUME LoadsFirst', IsSelection(upstream', read', ToHandOn'),
             IsSelection(Denials', read', ToDeny')
      PROVE  WayInv'
  BY <1>0, <1>1 DEF WayInv
<1>2. ASSUME NEW sub \in Overlays, ReadOverlay(sub)
      PROVE  WayInv'
  <2>1. /\ read' = <<>> /\ upstream' = <<>> /\ Denials' = <<>>
        /\ denied' = <<>> /\ denial' = <<>> /\ blocked' = None
    BY <1>2 DEF ReadOverlay, WayInv, LoadsFirst, Denials
  <2>2. LoadsFirst'
    BY <2>1 DEF LoadsFirst
  <2> QED
    BY <1>1, <2>1, <2>2, NothingSelected
<1>3. ASSUME UNCHANGED <<loaded, upstream, read, denied, denial, blocked>>,
             pc' = "loading" => pc = "loading"
      PROVE  WayInv'
  <2>1. LoadsFirst' /\ Denials' = Denials
    BY <1>3 DEF WayInv, LoadsFirst, Denials
  <2> QED
    BY <1>1, <1>3, <2>1, SameSets DEF WayInv
<1>4. ASSUME NEW m \in Message, Say(m)
      PROVE  WayInv'
  BY <1>3, <1>4 DEF Say
<1>5. CASE Serve \/ Reply \/ HangUp \/ RelayReply \/ UNCHANGED vars
  BY <1>3, <1>5 DEF Serve, Reply, HangUp, RelayReply, vars
<1> DEFINE m == Head(inbox)
<1>6. ASSUME Take, UNCHANGED loaded
      PROVE  /\ m \in Message /\ read' = Append(read, m)
             /\ Denials = denied \o denial
             /\ denied \o denial \in Seq(Message)
             /\ m \in ToDeny <=> Refused(m)
             /\ m \in ToHandOn <=> m.form # "close" /\ ~Refused(m)
             /\ ToDeny' = ToDeny /\ ToHandOn' = ToHandOn
  <2>1. m \in Message /\ read' = Append(read, m) /\ blocked = None
    BY <1>0, <1>6, TakeReads
  <2>2. denied \o denial \in Seq(Message)
    BY <1>0, ConcatProperties DEF ConnectionInv
  <2>3. Denials = denied \o denial
    BY <2>1, <2>2, ConcatEmptySeq DEF Denials
  <2> QED
    BY <1>6, <2>1, <2>2, <2>3, SameSets DEF ToDeny, ToHandOn
<1> HIDE DEF m
<1>a. /\ upstream \in Seq(Message) /\ read \in Seq(Message)
      /\ IsSelection(upstream, read, ToHandOn) /\ IsSelection(Denials, read, ToDeny)
  BY <1>0 DEF WayInv, ConnectionInv
<1>b. ASSUME Take, UNCHANGED loaded, m \notin ToHandOn, upstream' = upstream
      PROVE  IsSelection(upstream', read', ToHandOn')
  <2>1. IsSelection(upstream, Append(read, m), ToHandOn)
    BY <1>6, <1>a, <1>b, PassOver
  <2> QED
    BY <1>6, <1>b, <2>1
<1>c. ASSUME Take, UNCHANGED loaded, m \notin ToDeny, Denials' = Denials
      PROVE  IsSelection(Denials', read', ToDeny')
  <2>1. Denials \in Seq(Message)
    BY <1>6, <1>c
  <2>2. IsSelection(Denials, Append(read, m), ToDeny)
    BY <1>6, <1>a, <1>c, <2>1, PassOver
  <2> QED
    BY <1>6, <1>c, <2>2
<1>7. CASE Forward
  <2>1. /\ Take /\ UNCHANGED loaded /\ m.form # "close" /\ check_message(m) = "Allow"
        /\ upstream' = Append(upstream, m) /\ Denials' = Denials /\ pc' = "serving"
    BY <1>7 DEF Forward, Take, Denials, m
  <2>2. ~Refused(m)
    BY <1>0, <1>6, <2>1, ChecksRight
  <2>3. IsSelection(upstream', read', ToHandOn')
    <3>1. IsSelection(Append(upstream, m), Append(read, m), ToHandOn)
      BY <1>6, <1>a, <2>1, <2>2, TakeUp
    <3> QED
      BY <1>6, <2>1, <3>1
  <2>4. IsSelection(Denials', read', ToDeny')
    BY <1>6, <1>c, <2>1, <2>2
  <2>5. LoadsFirst'
    BY <2>1 DEF LoadsFirst
  <2> QED
    BY <1>1, <2>3, <2>4, <2>5
<1>8. CASE Deny
  <2>1. /\ Take /\ UNCHANGED loaded /\ m.form # "close" /\ check_message(m) = "Deny"
        /\ blocked' = m /\ UNCHANGED <<upstream, denied, denial>> /\ pc' = "serving"
    BY <1>8 DEF Deny, Take, m
  <2>2. Refused(m)
    BY <1>0, <1>6, <2>1, ChecksRight
  <2>3. Denials' = Append(Denials, m)
    <3>1. m # None
      BY <1>6, <2>1
    <3>2. Denials' = (denied \o denial) \o <<m>>
      BY <1>0, <1>6, <2>1, <3>1, ConcatAssociative DEF Denials, ConnectionInv
    <3>3. Denials = denied \o denial /\ Denials \in Seq(Message)
      BY <1>6, <2>1
    <3> QED
      BY <1>6, <3>2, <3>3, AppendIsConcat
  <2>4. IsSelection(upstream', read', ToHandOn')
    BY <1>6, <1>b, <2>1, <2>2
  <2>5. IsSelection(Denials', read', ToDeny')
    <3>1. Denials \in Seq(Message)
      BY <1>6, <2>1
    <3>2. IsSelection(Append(Denials, m), Append(read, m), ToDeny)
      BY <1>6, <1>a, <2>1, <2>2, <3>1, TakeUp
    <3> QED
      BY <1>6, <2>1, <2>3, <3>2
  <2>6. LoadsFirst'
    BY <2>1 DEF LoadsFirst
  <2> QED
    BY <1>1, <2>4, <2>5, <2>6
<1>9. CASE Close
  <2>1. /\ Take /\ UNCHANGED loaded /\ m.form = "close"
        /\ UNCHANGED <<upstream, denied, denial, blocked>> /\ pc' = "closed"
    BY <1>9 DEF Close, m
  <2>2. m \notin ToDeny /\ m \notin ToHandOn /\ Denials' = Denials
    BY <1>0, <1>6, <2>1, ChecksRight DEF Denials
  <2>3. IsSelection(upstream', read', ToHandOn')
    BY <1>b, <2>1, <2>2
  <2>4. IsSelection(Denials', read', ToDeny')
    BY <1>c, <2>1, <2>2
  <2>5. LoadsFirst'
    BY <2>1 DEF LoadsFirst
  <2> QED
    BY <1>1, <2>3, <2>4, <2>5
<1>10. ASSUME Denials' = Denials, UNCHANGED <<loaded, upstream, read>>, pc' = "serving"
       PROVE  WayInv'
  <2>1. LoadsFirst'
    BY <1>10 DEF LoadsFirst
  <2> QED
    BY <1>1, <1>10, <2>1, SameSets DEF WayInv
<1>11. CASE HandOver
  <2>1. /\ blocked \in Message /\ blocked # None /\ blocked' = None
        /\ denial' = Append(denial, blocked) /\ denied' = denied
        /\ denied \in Seq(Message) /\ denial \in Seq(Message)
    BY <1>0, <1>11 DEF HandOver, SendDenial, ConnectionInv
  <2>2. denial' = denial \o <<blocked>> /\ denial' \in Seq(Message)
    BY <2>1, AppendIsConcat, AppendProperties
  <2>3. Denials' = denied \o denial'
    <3>1. denied \o denial' \in Seq(Message)
      BY <2>1, <2>2, ConcatProperties
    <3>2. (denied \o denial') \o <<>> = denied \o denial'
      BY <3>1, ConcatEmptySeq
    <3>3. denied \o (denial' \o <<>>) = denied \o denial'
      BY <2>2, ConcatEmptySeq
    <3> QED
      BY <2>1, <3>2, <3>3 DEF Denials
  <2>4. <<blocked>> \in Seq(Message)
    BY <2>1
  <2>5. Denials = denied \o denial'
    <3>1. Denials = (denied \o denial) \o <<blocked>>
      BY <2>1 DEF Denials
    <3>2. (denied \o denial) \o <<blocked>> = denied \o (denial \o <<blocked>>)
      BY <2>1, <2>4, ConcatAssociative
    <3> QED
      BY <2>2, <3>1, <3>2
  <2> QED
    BY <1>10, <1>11, <2>3, <2>5 DEF HandOver
<1>12. CASE RelayDenial
  <2>1. /\ denial \in Seq(Message) /\ denial # <<>> /\ denial' = Tail(denial)
        /\ denied' = Append(denied, Head(denial)) /\ denied \in Seq(Message)
        /\ blocked' = blocked
    BY <1>0, <1>12 DEF RelayDenial, DenialReady, ConnectionInv
  <2>2. Head(denial) \in Message /\ Tail(denial) \in Seq(Message)
        /\ denial = <<Head(denial)>> \o Tail(denial)
    BY <2>1, HeadTailProperties, ConcatProperties
  <2>3. denied' = denied \o <<Head(denial)>> /\ <<Head(denial)>> \in Seq(Message)
    BY <2>1, <2>2, AppendIsConcat
  <2>4. denied' \o denial' = denied \o denial
    BY <2>1, <2>2, <2>3, ConcatAssociative
  <2>5. Denials' = Denials
    <3> DEFINE rest == IF blocked = None THEN <<>> ELSE <<blocked>>
    <3>1. rest \in Seq(Message)
      BY <1>0 DEF ConnectionInv
    <3> HIDE DEF rest
    <3>2. denied' \in Seq(Message) /\ denial' \in Seq(Message)
      BY <2>1, <2>2, AppendProperties
    <3>3. (denied' \o denial') \o rest = (denied \o denial) \o rest
      BY <2>4
    <3> QED
      BY <2>1, <3>3 DEF Denials, rest
  <2> QED
    BY <1>10, <1>12, <2>5 DEF RelayDenial
<1> QED
  BY <1>2, <1>4, <1>5, <1>7, <1>8, <1>9, <1>11, <1>12
     DEF Next, client_to_upstream, upstream_to_client

(* The upstream has what the client said and no loaded policy objects to,    *)
(* the client's denials are for the rest, each message once and in order,    *)
(* for any policies, in any order, and any channel (policy.rs:107-113,       *)
(* 233-252; proxy.rs:99-145).                                                *)
THEOREM EachWayHolds == Spec => []EachGoesItsWay
<1>1. WayInv => EachGoesItsWay
  BY DEF WayInv, MergeInv, ConnectionInv, EachGoesItsWay, TypeOK
<1> QED
  BY <1>1, InitWay, NextWay, PTL DEF Spec
===============================================================================
