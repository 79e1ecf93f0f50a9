SPECIFICATION TrackingSpec
CONSTANTS
    Scope = "LEGACY_FULL"
    Hashes = {h1}
    Blocks = {b1, b2}
    StatusTexts = {"success"}
    MaxPreparations = 1
    MaxCorrelations = 2
    TrackBudget = 1
    None = None
    Pollers = {p1, p2}
    b1 = b1
    b2 = b2
    Truths <- MintDone
    MaxReorgs = 0
    MaxFaults = 1
CHECK_DEADLOCK FALSE
INVARIANT
    TransientFailureIsRetried
