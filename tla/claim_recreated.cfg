CONSTANTS
    Devices <- Two
    Wwns <- Disks
    Nodes <- OneNode
    DeviceLists <- OneDevice
    Discoveries <- SharedOnOne
    Preexisting = {}
    MaxClaims = 2
    Holds = {FALSE}
    Upsets = {}
    MaxUpsets = 0
    FaultKinds = {"crash", "error", "create"}
    MaxFaults = 1
    PromptInformer = FALSE
SPECIFICATION Spec
CHECK_DEADLOCK FALSE
PROPERTY DeletesOnlyForDeletedClaim
