SPECIFICATION Spec
CONSTANTS
    Users = {u1}
    Absent = Absent
    None = None
    Length = 3
    BatchSize = 2
    Definition <- MCDefinition
    Texts <- MCTexts
    Number <- MCNumber
    Requests <- MCRequests
    UserUpdates <- MCUserUpdates
    MaxRetries = 2
    HalfDelay = 1
    Timeout = 2
    MaxCalls = 5
    Targets = {t1, t2}
    MaxCodes = 3
    Concurrency = 2
    Production = TRUE
    RowIds = {"t1", "t2"}
    GivenAmounts <- MCAmounts
    OpeningBalances <- MCOpenings
    NoRow = NoRow
    NoAmount = NoAmount
    MaxChanges = 5
CHECK_DEADLOCK FALSE
INVARIANT TypeOK
INVARIANT AnswersAreTrue
INVARIANT ResolvedIsStored
INVARIANT SelectionsAreShown
INVARIANT LoopsEndRight
INVARIANT OnlyHalvesDrift
INVARIANT MailsGoOutOnce
INVARIANT LastMailIsCurrent
PROPERTY EachElementOnce
PROPERTY JobsLeaveTheQueue
