SPECIFICATION SubmissionSpec
CONSTANTS
    Scope = "TOKENIZE_ONLY"
    Hashes = {h1}
    Blocks = {b1}
    StatusTexts = {"success"}
    MaxPreparations = 1
    MaxCorrelations = 1
    TrackBudget = 1
    None = None
    Requests = {q1, q2}
    Tabs = {t1}
    MaxFaults = 1
PROPERTIES
    SendIsAccountedFor
