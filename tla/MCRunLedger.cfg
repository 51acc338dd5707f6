SPECIFICATION LedgerSpec
CONSTANTS
    w1 = w1
    w2 = w2
    Workers <- MCWorkers
    Instants = {"t1"}
    Operators = {"op"}
    Captures = {1, 2}
    Times = {1, 3}
    Ttl = 1
    MaxAttempts = 3
    MaxFence = 3
SYMMETRY Symmetry
INVARIANTS
    LedgerInv
    FreshClaimIsCurrent
    SingleCommitter
    ProcessedIsTheNamedCapture
    LostReplayIsNotForgotten
PROPERTIES
    AttemptsAreFinal
