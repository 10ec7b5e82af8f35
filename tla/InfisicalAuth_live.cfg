CONSTANTS
    Callers = {c1, c2}
    MaxTokens = 3
    TTLs = {1}
    MaxTTLs = {3}
    Margin = 0
    MaxLatency = 0
    MaxAttempts = 2
    MaxFaults = 1
SPECIFICATION FairSpec
PROPERTIES GateReleased CallEnds 
