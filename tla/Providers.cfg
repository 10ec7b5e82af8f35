SPECIFICATION MCSpec
CONSTANTS
    Words <- MCWords
    ServiceNames <- MCServiceNames
    SecretNames <- MCSecretNames
    PathLabels <- MCPathLabels
    NameLabels <- MCNameLabels
    Upper <- MCUpper
    Kinds = {"kv1", "kv2", "aws", "gcp", "azure", "oci", "infisical"}
    Shapes = {"usual", "other", "text"}
    MaxChanges = 2
    Tokens = {"jwt1", "jwt2"}
    Blank = "blank"
    None = None
    NoJWT = NoJWT
INVARIANTS PathsSound MethodsAgree SendsCurrent
PROPERTIES QuietUnlessTouched
CHECK_DEADLOCK FALSE
