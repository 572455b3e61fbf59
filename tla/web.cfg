SPECIFICATION Spec
CONSTANTS
    Questions = {"plain", "web on", "web off", "search", "no web"}
    NoQuestion = "none"
    MaxMessages = 4
    MaxSequence = 3
    MaxSessions = 2
    HistoryTurns = 2
    FlakyReads = FALSE
    MaxCrashes = 0
INVARIANTS
    WebOffKeepsChatOffline
CHECK_DEADLOCK FALSE
