SPECIFICATION Spec
CONSTANTS
    Questions = {"plain", "web off"}
    NoQuestion = "none"
    MaxMessages = 4
    MaxSequence = 3
    MaxSessions = 1
    HistoryTurns = 2
    FlakyReads = FALSE
    MaxCrashes = 1
INVARIANTS
    WebOffKeepsChatOffline
CHECK_DEADLOCK FALSE
