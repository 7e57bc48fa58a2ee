SPECIFICATION WatchSpec
CONSTANTS
    MaxToolResultLines = 2
    Records <- AllRecords
    Openings <- Begins
    MaxRecords = 2
    Kinds <- BothKinds
    Commands <- FourCommands
    MaxRestarts = 1
INVARIANTS
    UpToDate
    
    WireKeepsResults
PROPERTIES
    OnlyGrows
CHECK_DEADLOCK FALSE
