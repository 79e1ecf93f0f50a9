SPECIFICATION SubmissionSpec
CONSTANTS
    Scope = "LEGACY_FULL"
    Hashes = {h1, h2}
    Blocks = {b1}
    StatusTexts = {"success"}
    MaxPreparations = 2
    MaxCorrelations = 1
    TrackBudget = 1
    None = None
    Requests = {q1, q2}
    Tabs = {t1, t2}
    MaxFaults = 1
SYMMETRY Symmetry
INVARIANTS
    IntentIsExclusive
    SubmissionInv
PROPERTIES
    OneSendPromise
