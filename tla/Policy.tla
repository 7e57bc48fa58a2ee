------------------------------- MODULE Policy -------------------------------
(***************************************************************************)
(* The operator's policies (operator/src/policy.rs): what tiers of patterns *)
(* decide about a tool call, and how an overlay is merged into a policy.    *)
(*                                                                         *)
(* A pattern is used for the set of values it matches, and a value stands   *)
(* for a text that a call is looked up by: the tool's name, a command in    *)
(* each of its spellings, an action with a path.  No code of the repository *)
(* checks the network tier of a call.                                        *)
(***************************************************************************)
CONSTANTS
  Pattern,
  Value,
  Matches     \* pattern |-> values: glob_match, glob_match_permissive

ASSUME PatternAssumption == Matches \in [Pattern -> SUBSET Value]

Decision == {"Allow", "Deny", "Ask"}
PolicyTier == [allow : SUBSET Pattern, deny : SUBSET Pattern, ask : SUBSET Pattern]
Policies == [tools : PolicyTier, bash_commands : PolicyTier, filesystem : PolicyTier]

\* A call: its tool's name, the tier that judges what it is to work on, the
\* spellings of that, none when the argument is missing, and whether the
\* heuristics for commands and paths object to it.
ToolCall == [name : Value, tier : {"bash_commands", "filesystem", "none"},
             spellings : SUBSET Value, suspicious : BOOLEAN]

Hits(patterns, values) == \E p \in patterns : Matches[p] \cap values # {}

\* check_tier, and check_bash_command over all spellings: deny before ask
\* before allow, and deny when nothing matches.
check_tier(tier, values) ==
  IF Hits(tier.deny, values) THEN "Deny"
  ELSE IF Hits(tier.ask, values) THEN "Ask"
  ELSE IF Hits(tier.allow, values) THEN "Allow"
  ELSE "Deny"

most_restrictive(a, b) ==
  IF "Deny" \in {a, b} THEN "Deny" ELSE IF "Ask" \in {a, b} THEN "Ask" ELSE "Allow"

HasTarget(call) == call.tier # "none" /\ call.spellings # {}

check_tool_call(policy, call) ==
  LET tool_decision == check_tier(policy.tools, {call.name})
      target_decision ==
        IF call.tier = "none" THEN "Allow" ELSE check_tier(policy[call.tier], call.spellings)
  IN IF ~HasTarget(call) THEN tool_decision
     ELSE IF call.suspicious THEN "Deny"
     ELSE most_restrictive(tool_decision, target_decision)

LastWins(base, overlay) ==                                            \* mutant
  [allow |-> base.allow \cup overlay.allow,
   deny  |-> (base.deny \ overlay.allow) \cup overlay.deny,
   ask   |-> base.ask \cup overlay.ask]
merge_tier(base, overlay) ==
  [allow |-> base.allow \cup overlay.allow,
   deny  |-> base.deny \cup overlay.deny,
   ask   |-> base.ask \cup overlay.ask]

merge_sub_policy(base, sub) ==
  [tools         |-> merge_tier(base.tools, sub.tools),
   bash_commands |-> merge_tier(base.bash_commands, sub.bash_commands),
   filesystem    |-> merge_tier(base.filesystem, sub.filesystem)]

-----------------------------------------------------------------------------
\* What a set of policies says of a call, without merging them: some policy
\* denies its tool or its target, or none permits it.
DeniedByAny(policies, call) ==
  \/ \E p \in policies : Hits(p.tools.deny, {call.name})
  \/ \A p \in policies : ~Hits(p.tools.ask \cup p.tools.allow, {call.name})
  \/ /\ HasTarget(call)
     /\ \/ call.suspicious
        \/ \E p \in policies : Hits(p[call.tier].deny, call.spellings)
        \/ \A p \in policies : ~Hits(p[call.tier].ask \cup p[call.tier].allow, call.spellings)
=============================================================================
