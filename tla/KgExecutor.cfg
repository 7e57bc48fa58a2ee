SPECIFICATION Spec
CONSTANTS
  Registry <- default_issue_registry
  Root = "issue"
  Gathers <- ParentHooks
  Planner = "synthesize-plan"
  Phrases <- AllPhrases
  Judged <- JudgedTypes
  Quoted <- SuccessCriteria
INVARIANTS DiskTellsTheTree FedBySiblings
PROPERTIES IsPipeline RunEnds
CHECK_DEADLOCK FALSE
