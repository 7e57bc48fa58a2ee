---------------------------- MODULE MCKgExecutor ----------------------------
(***************************************************************************)
(* KgExecutor over default_issue_registry                                   *)
(* (crates/agenticlaw-kg/src/registry.rs): the types, their children, and   *)
(* the phrases their success criteria quote.  Purposes, fears, prompts,     *)
(* roles and limits on tools are text to the executor and left out.         *)
(***************************************************************************)
EXTENDS KgExecutor, TLC

Leaves(names) == [n \in names |-> <<>>]

IssueType == "issue" :> <<"analysis", "impl", "pr">>

AnalysisTypes ==
  LET children == <<"read-issue", "trace-entrypoints", "identify-files",
                    "check-conflicts", "synthesize-plan">>
  IN ("analysis" :> children) @@ Leaves(Listed(children))

ImplTypes ==
  LET children == <<"create-branch", "apply-changes", "write-tests", "run-tests">>
  IN ("impl" :> children) @@ Leaves(Listed(children))

PrTypes ==
  LET children == <<"fill-template", "push-and-create", "verify-ci">>
  IN ("pr" :> children) @@ Leaves(Listed(children))

default_issue_registry == IssueType @@ AnalysisTypes @@ ImplTypes @@ PrTypes

AllPhrases == {"TESTS PASS", "CI PASS", "CI FAIL"}

\* Every type there has a criterion.
JudgedTypes == DOMAIN default_issue_registry

\* Phrases between quotes in a criterion that says "contains".
SuccessCriteria ==
  ("run-tests" :> {"TESTS PASS"}) @@ ("verify-ci" :> {"CI PASS", "CI FAIL"})
    @@ [n \in DOMAIN default_issue_registry |-> {}]

ParentHooks ==
  ("analysis" :> "issue") @@ ("impl" :> "plan") @@ ("pr" :> "parent_output")
    @@ [n \in DOMAIN default_issue_registry |-> "nothing"]
=============================================================================
