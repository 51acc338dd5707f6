SPECIFICATION Spec
CONSTANTS
    Urls <- Sites
    allowed_hosts = {"source"}
    allow_insecure = TRUE
    Registry <- Hosts
    IpLiterals = {}
    Addresses = {"public1", "public2", "private"}
    Blocked = {"private"}
    Blocks = {"rest"}
    Template <- Own
    DiscoveryUrl <- Page
    HasLimiter = FALSE
    Capacity = 1
    PerSeconds = 3
    max_redirects = 1
    Attempts = 3
    BaseDelay = 1
    CapDelay = 2
    BlockedInARow = 2
    MaxRounds = 3
    MaxGlitches = 1
INVARIANTS
    RateIsKept
CHECK_DEADLOCK FALSE
