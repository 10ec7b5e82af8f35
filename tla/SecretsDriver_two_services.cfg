CONSTANTS
    n1 = n1
    n2 = n2
    s1 = s1
    s2 = s2
    p1 = p1
    p2 = p2
    None = None
    Names = {n1}
    Services = {s1, s2}
    Paths = {p1}
    SecretPath <- Labelled
    KMSNames = {n1}
    MaxVersion = 2
    MaxSecrets = 7
    MaxServiceVersion = 1
    MaxFaults = 1
    MaxCount = 1
SPECIFICATION FairSpec
INVARIANTS Inv RotationCoversSnapshot OnlyClearValues
PROPERTIES ChangeSettles Implements
