---------------------------- MODULE MCSubagents ----------------------------
(***************************************************************************)
(* Subagents with a child of the main agent that calls another, and two    *)
(* callers of the subagent tool, which are alike.                           *)
(***************************************************************************)
EXTENDS Subagents, TLC

CONSTANTS child, grandchild

Family == (child :> None) @@ (grandchild :> child)
Alike == Permutations(Control)
=============================================================================
