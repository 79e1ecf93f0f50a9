SPECIFICATION SubmissionSpec
CONSTANTS
    Scope = "LEGACY_FULL"
    Hashes = {h1, h2}
    Blocks = {b1}
    StatusTexts = {"success"}
    MaxPreparations = 2
    MaxCorrelations = 1
    TrackBudget = 1
    None = None
    Requests = {q1}
    Tabs = {t1}
    MaxFaults = 0
PROPERTY
    StalePreparationIsMarked
