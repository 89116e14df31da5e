CONSTANTS
    Devices <- Two
    Wwns <- Disks
    Nodes <- OneNode
    DeviceLists <- OneDevice
    Discoveries <- SharedOnOne
    Preexisting = {}
    MaxClaims = 1
    Holds = {FALSE}
    Upsets = {"unhealthy"}
    MaxUpsets = 1
    FaultKinds = {"crash", "error"}
    MaxFaults = 1
    PromptInformer = FALSE
SPECIFICATION FairSpec
CHECK_DEADLOCK FALSE
PROPERTIES ClaimBecomesReady DeletionCompletes StaleReadyCorrected
