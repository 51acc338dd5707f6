SPECIFICATION LedgerSpec
CONSTANTS
    w1 = w1
    w2 = w2
    Workers <- MCWorkers
    Instants = {"t1"}
    Operators = {"o1", "o2"}
    Captures = {1}
    Times = {1}
    Ttl = 1
    MaxAttempts = 2
    MaxFence = 1
INVARIANTS
    OnePendingReplay
