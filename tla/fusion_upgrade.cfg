CONSTANTS
    Versions = 2
    Namespaces <- TwoNamespaces
    OurNs = "ours"
    CalmUpgrades = TRUE
    Requests <- Usual
    Registries = {"persistent", "external"}
    Upsets = {"version", "secret", "registry", "rotation"}
    MaxUpsets = 1
    MaxFaults = 1
SPECIFICATION Spec
CHECK_DEADLOCK FALSE
INVARIANTS TypeOK BuildProtected
PROPERTY ReadyForThisSpec
