SPECIFICATION FairSpec
CONSTANTS
    Questions = {"plain"}
    NoQuestion = "none"
    MaxMessages = 3
    MaxSequence = 3
    MaxSessions = 2
    HistoryTurns = 1
    FlakyReads = TRUE
    MaxCrashes = 1
INVARIANTS
    TypeOK
    AnswersFollowTheirQuestion
    AnswerBelongsToItsRequest
    NoCrossChatContext
PROPERTIES
    WaitingEnds
    QuestionIsAnswered
CHECK_DEADLOCK FALSE
