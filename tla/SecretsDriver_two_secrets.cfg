CONSTANTS
    n1 = n1
    n2 = n2
    s1 = s1
    s2 = s2
    p1 = p1
    p2 = p2
    None = None
    Names = {n1, n2}
    Services = {s1}
    Paths = {p1, p2}
    SecretPath <- Labelled
    KMSNames = {n1}
    MaxVersion = 1
    MaxSecrets = 5
    MaxServiceVersion = 3
    MaxFaults = 0
    MaxCount = 1
SPECIFICATION Spec
INVARIANTS TypeOK NoDanglingReference SlotKeepsItsSecret
PROPERTIES NoLostUpdate
