SPECIFICATION Spec
CONSTANTS
    Scope = "TOKENIZE_ONLY"
    Hashes = {h1, h2}
    Blocks = {b1, b2}
    StatusTexts = {"pending", "success"}
    MaxPreparations = 2
    MaxCorrelations = 3
    TrackBudget = 2
    None = None
SYMMETRY Symmetry
CHECK_DEADLOCK FALSE
INVARIANTS
    TypeOK
    CodecAccepts
    SingleAuthority
    VerifiedMeansFinal
PROPERTIES
    BlockedRunIsInert
    EvidenceIsDurable
    AmbiguityFailsClosed
