SPECIFICATION FairSpec
CONSTANTS
    Instants = {1}
    Workers = {w1, w2}
    Fetchers = {f1}
    Operators = {op}
    Captures = {1, 2, 3}
    Times = {2, 4}
    Ttl = 1
    MaxAttempts = 8
    MaxFence = 10
    Day <- OneDay
    Payloads = {"a", "b"}
    Unmappable = {}
    DetectGaps = FALSE
    Window = 2
    Correction = 0
    Tolerance = 1
    MaxFetches = 1
    MaxReplays = 1
    MaxDecisions = 0
    MaxFaults = 1
PROPERTIES
    LedgerSpec
    ReplaysAreCarriedOut
    NewestIsProcessed
