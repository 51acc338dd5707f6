SPECIFICATION FairSpec
CONSTANTS
    Instants = {1}
    Workers = {w1}
    Fetchers = {f1}
    Operators = {}
    Captures = {1, 2, 3}
    Times = {2, 4}
    Ttl = 1
    MaxAttempts = 8
    MaxFence = 10
    Day <- OneDay
    Payloads = {"a", "b"}
    Unmappable = {"b"}
    DetectGaps = TRUE
    Window = 3
    Correction = 0
    Tolerance = 1
    MaxFetches = 1
    MaxReplays = 0
    MaxDecisions = 0
    MaxFaults = 0
PROPERTY CapturedIsNoGap
