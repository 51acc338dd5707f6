SPECIFICATION Spec
CONSTANTS
    w1 = w1
    w2 = w2
    p1 = p1
    p2 = p2
    u1 = u1
    u2 = u2
    Writers <- MCWriters
    Payloads <- MCPayloads
    Urls <- MCUrls
    Instants = {1}
    Day <- OneDay
    CreateOnly = TRUE
    MaxCollisions = 2
    MaxFetches = 3
    MaxLost = 1
SYMMETRY Symmetry
INVARIANTS
    AcknowledgedIsDurable
    EntriesAreFaithful
PROPERTIES
    ImplementsCaptureLog
