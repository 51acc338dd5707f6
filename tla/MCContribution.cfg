SPECIFICATION Spec
CONSTANTS
    None = None
    Positional = {"3"}
    SecretLike = {"token"}
    RunNames = {"delivery_day"}
    DayMinutes = 30
    Unsafe = {"!"}
    Targets = {"ta", "tb"}
    Contents <- MCContents
    Docs <- MCDocs
    Captures <- MCCaptures
    Answers <- MCAnswers
    Ctx <- MCCtx
    Registry0 <- MCRegistry
    Admissible <- MCAdmissible
    InitDirs <- MCInitDirs
    ScaffoldHost = "ote"
    ScaffoldDataset = "idm"
    Truth <- Says
    MaxCalls = 3
INVARIANTS
    AdmittedIsFetchedAndMapped
    ProposalIsContained
    NoFalseHealth
    BundleStaysGreen
PROPERTIES
    WriteIsAllOrNothing
CHECK_DEADLOCK FALSE
