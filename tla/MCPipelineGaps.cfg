SPECIFICATION FairSpec
CONSTANTS
    Instants = {1}
    Workers = {w1}
    Fetchers = {f1}
    Operators = {}
    Captures = {1, 2, 3}
    Times = {2, 4}
    Ttl = 1
    MaxAttempts = 8
    MaxFence = 10
    Day <- OneDay
    Payloads = {"a", "b"}
    Unmappable = {"b"}
    DetectGaps = TRUE
    Window = 2
    Correction = 1
    Tolerance = 1
    MaxFetches = 2
    MaxReplays = 0
    MaxDecisions = 1
    MaxFaults = 0
PROPERTIES
    NewestIsProcessed
