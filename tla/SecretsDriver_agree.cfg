CONSTANTS
    n1 = n1
    n2 = n2
    s1 = s1
    s2 = s2
    p1 = p1
    p2 = p2
    None = None
    Names = {n1}
    Services = {s1, s2}
    Paths = {p1}
    SecretPath <- Labelled
    KMSNames = {}
    MaxVersion = 1
    MaxSecrets = 3
    MaxServiceVersion = 1
    MaxFaults = 0
    MaxCount = 0
SPECIFICATION FairSpec
PROPERTY AllServicesAgree
