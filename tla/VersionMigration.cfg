SPECIFICATION FairMigration
CONSTANTS
  e1 = e1
  e2 = e2
  Episode <- TwoEpisodes
  MaxRollbacks = 2
  MaxCrashes = 2
INVARIANTS
  HistoryIsFound
PROPERTIES
  PromiseKept
  Relaunches
