SPECIFICATION Spec
CONSTANTS
    Runs = {"r1", "r2"}
    Target <- TwoRuns
    Transport <- SoapOnly
    Owner <- FreeKey
    Payloads = {"a"}
    ServedBy <- OneDocument
    Covers <- CoversOne
    Published <- NoStamp
    Derivations = {1, 2}
    Contract <- SameContract
    Computes <- ForSoap
    Quarantined <- NoQuarantine
    Workers = {w1}
    MaxCaptures = 2
    MaxReleases = 1
    MaxDecisions = 0
INVARIANTS
    RepairRetiresTheDerivation
