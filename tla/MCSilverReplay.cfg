SPECIFICATION Spec
CONSTANTS
    Runs = {"r1"}
    Target <- OneRun
    Transport <- SoapOnly
    Owner <- FreeKey
    Payloads = {"a", "b"}
    ServedBy <- TwoDocuments
    Covers <- CoversOne
    Published <- NoStamp
    Derivations = {1, 2}
    Contract <- SameContract
    Computes <- ForSoap
    Quarantined <- BadForOld
    Workers = {w1, w2}
    MaxCaptures = 3
    MaxReleases = 2
    MaxDecisions = 0
SYMMETRY WorkerSymmetry
INVARIANTS
    CurrentFollowsTheCommits
PROPERTIES
    ExactRetryChangesNothing
