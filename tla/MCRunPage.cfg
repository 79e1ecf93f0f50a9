SPECIFICATION PageSpec
CONSTANTS
    Scope = "TOKENIZE_ONLY"
    Hashes = {h1}
    OtherHash = h2
    Blocks = {b1}
    StatusTexts = {"success"}
    MaxPreparations = 2
    MaxCorrelations = 2
    TrackBudget = 1
    None = None
    GasCeiling = 4
    FeeFloor = 1
    FeeCeiling = 6
    PriorityFloor = 1
    PriorityCeiling = 4
    NetworkCeiling = 20
    SafetyBuffer = 1
    PrepareAnswers <- MCPrepareAnswers
    CorrelationAnswers <- MCCorrelationAnswers
    StatusAnswers <- MCStatusAnswers
    Readings <- MCReadings
    Chains <- MCChains
    BaseFees = {0, 3}
    Logs <- MCLogs
    WalletMaySend <- MCWalletMaySend
    MaxExtras = 1
INVARIANT PageTypeOK
INVARIANT OfferIsAccepted
INVARIANT AccountsForBrickken
INVARIANT ReviewedIsSent
INVARIANT ReleasedIsMandate
INVARIANT WithinMeansBounded
INVARIANT NoSubmissionIsTrue
INVARIANT PageInv
INVARIANT SendInv
PROPERTY ViewGoesBackOnlyByOldRead
CHECK_DEADLOCK FALSE
