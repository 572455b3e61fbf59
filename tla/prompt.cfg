SPECIFICATION Spec
CONSTANTS
    Null = Null
    NotFinite = NotFinite
    MaxInventorySlots = 4
    MaxInventoryItems = 2
    MaxPlayers = 4
    MaxReplicatedPlayers = 2
    MaxEntries = 4
    MaxObjectives = 2
    MaxSubObjectives = 2
    MaxInteractedItems = 1
    MaxTechnologyEntries = 3
    MaxDefinitions = 2
    MaxRows = 2
    MaxTextCodeUnits = 9
    MaxStringBytes = 5
    MaxSnapshotBytes = 48
    MaxNormalizedBytes = 49
    MaxItems = 2
    MaxSources = 3
    MaxResponseBytes = 37
    Platforms = {"kde", "linux", "windows"}
    MaxCaptures <- MCCaptures
    Replies <- MCReplies
    Word = 32
    MaxDimension = 8
    MaxImageBytes = 16
    LateSpectacle = FALSE
    Worlds <- MCWorlds
    Questions <- MCQuestions
    Answers <- MCAnswers
    QuestionBytes = 3
    MaxContextBytes = 56
    MaxRequestBytes = 64
    MaxNow = 2
CHECK_DEADLOCK FALSE
INVARIANTS
    TypeOK
    ShotIsOfThisQuestion
    PromptIsOfThisMoment
    NothingLeftBehind
    HelperReportIsAccepted
    SnapshotReachesClaude
    AnswerArrives
    OmissionsAreListed
    AmountsAreTrue
    NamesReadBack
PROPERTY
    QuestionIsAnswered
