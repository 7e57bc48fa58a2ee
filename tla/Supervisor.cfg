SPECIFICATION Spec
CONSTANTS
  Worker = {1, 2}
  card = card
  kept = kept
  Card = {card}
  Shows <- FirstShowsAll
  CardsKept <- FirstHasCard
  dry_run = FALSE
  base_ms = 8000
  max_ms = 12000
  frozen_threshold_secs = 20
  MaxEvents = 1
  MaxRestarts = 1
  Watched = 1
  None = None
INVARIANTS KnowsItsWorkers
PROPERTIES FrozenInTime QuietIsFound
