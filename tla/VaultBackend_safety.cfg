CONSTANTS
    Readers = {r1, r2}
    AuthMethod = "approle"
    MaxTokens = 6
    LeaseTTLs = {1, 3}
    Renewables = {TRUE, FALSE}
    MinDelay = 2
    RetryWait = 1
    RetryMaxWait = 2
    MaxFaults = 1
SPECIFICATION Spec
INVARIANTS TypeOK AuthIsClients WakesInTime
SYMMETRY Symmetry
