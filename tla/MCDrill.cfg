SPECIFICATION Spec
CONSTANTS
    Runs = {1, 2}
    Target <- Siblings
    Serves <- Sources
    Payloads = {"a", "b"}
    Derivations = {1, 2}
    Value <- Values
    Unmappable = {}
    MaxCaptures = 3
    MaxEvents = 1
INVARIANTS
    RestoredViewAgrees
PROPERTIES
    FailureHasACause
    LossIsReported
CHECK_DEADLOCK FALSE
