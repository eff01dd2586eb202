CONSTANTS
    Configs <- BenchConfigs
    Missing = Missing
    NoSet = NoSet
    MaxDelay = 7
SPECIFICATION Spec
INVARIANTS CountsRight ResultsTrue FinishedSawAll KeyFound
PROPERTY Ends
CHECK_DEADLOCK FALSE
