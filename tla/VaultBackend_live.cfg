CONSTANTS
    Readers = {r1}
    AuthMethod = "approle"
    MaxTokens = 6
    LeaseTTLs = {3}
    Renewables = {TRUE, FALSE}
    MinDelay = 1
    RetryWait = 1
    RetryMaxWait = 4
    MaxFaults = 3
SPECIFICATION FairSpec
PROPERTIES KeepsToken RefusalRecovers ReadEnds CloseEnds
