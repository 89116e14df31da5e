CONSTANTS
    Versions = 2
    Namespaces <- OneNamespace
    OurNs = "ours"
    CalmUpgrades = TRUE
    Requests <- Plain
    Registries = {"emptyDir"}
    Upsets = {"version", "url", "delete", "rebuild"}
    MaxUpsets = 1
    MaxFaults = 0
SPECIFICATION FairSpec
CHECK_DEADLOCK FALSE
PROPERTIES UpgradeCompletes BudgetGoesAway
