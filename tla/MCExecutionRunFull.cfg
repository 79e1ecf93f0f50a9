SPECIFICATION Spec
CONSTANTS
    Scope = "LEGACY_FULL"
    Hashes = {h1, h2}
    Blocks = {b1}
    StatusTexts = {"success"}
    MaxPreparations = 2
    MaxCorrelations = 2
    TrackBudget = 2
    None = None
SYMMETRY Symmetry
CHECK_DEADLOCK FALSE
INVARIANTS
    IInv
    ChainOfVerification
    SuccessMeansVerified
    BlockedInv
