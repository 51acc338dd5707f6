SPECIFICATION Spec
CONSTANTS
    Runs = {"r1", "h1"}
    Target <- WithCopy
    Transport <- BothTransports
    Owner <- OwnedKeys
    Payloads = {"a", "x"}
    ServedBy <- WithoutCorrection
    Covers <- CoversAll
    Published <- NoStamp
    Derivations = {1, 2, 3}
    Contract <- SameContract
    Computes <- LastForCopy
    Quarantined <- NoQuarantine
    Workers = {w1}
    MaxCaptures = 3
    MaxReleases = 1
    MaxDecisions = 1
INVARIANTS
    CurrentIsNotInvalidated
PROPERTIES
    CurrentNeverRegresses
