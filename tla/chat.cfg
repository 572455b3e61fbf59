SPECIFICATION Spec
CONSTANTS
    Questions = {"plain"}
    NoQuestion = "none"
    MaxMessages = 4
    MaxSequence = 4
    MaxSessions = 2
    HistoryTurns = 2
    FlakyReads = FALSE
    MaxCrashes = 1
INVARIANTS
    RetryRepeatsTheLastQuestion
    CancelSparesTheLiveRequest
    NoWorkForPublishedAnswer
PROPERTIES
    ImplementsService
CHECK_DEADLOCK FALSE
