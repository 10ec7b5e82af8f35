CONSTANTS
    Callers = {c1, c2}
    MaxTokens = 3
    TTLs = {3}
    MaxTTLs = {6}
    Margin = 1
    MaxLatency = 3
    MaxAttempts = 2
    MaxFaults = 2
SPECIFICATION Spec
INVARIANT TypeOK
PROPERTIES HandsOutLive NoWastedLogin
SYMMETRY Symmetry
