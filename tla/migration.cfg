CONSTANTS
    Devices <- Two
    Wwns <- Disks
    Nodes <- OneNode
    DeviceLists <- BothDevices
    Discoveries <- SharedOnOne
    Preexisting = {}
    Legacy <- Disks
    LegacyDevice <- Paths
    Skipped = {}
    LegacyClass = {TRUE}
    MaxClaims = 1
    Holds = {FALSE}
    Upsets = {}
    MaxUpsets = 0
    FaultKinds = {"crash", "error"}
    MaxFaults = 1
    PromptInformer = TRUE
SPECIFICATION FairMigration
CHECK_DEADLOCK FALSE
INVARIANTS MigrationTypeOK LegacyKept
PROPERTIES KeepsDisks MigrationSettles
