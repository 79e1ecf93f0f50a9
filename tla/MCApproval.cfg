SPECIFICATION ApprovalSpec
CONSTANTS
    None = None
    Surfaces = {"SECTION", "CONTROLLER"}
    Providers = {p1}
    MaxPosts <- MCMaxPosts
INVARIANTS
    ApprovalIsSigned
    RecordedIsTrue
    NotRecordedIsTrue
    ReadyIsCurrent
    InProgressIsTrue
    DeadEndOnlyIfChanged
    ApprovalInv
CHECK_DEADLOCK FALSE
PROPERTY ApprovalSettles
