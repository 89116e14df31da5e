CONSTANTS
    Devices <- Two
    Wwns <- Disks
    Nodes <- OneNode
    DeviceLists <- OneDevice
    Discoveries <- SharedOnOne
    Preexisting = {}
    MaxClaims = 1
    Holds = {TRUE, FALSE}
    Upsets = {"volume", "drift", "unlabel"}
    MaxUpsets = 1
    FaultKinds = {}
    MaxFaults = 0
    PromptInformer = TRUE
SPECIFICATION ResyncSpec
CHECK_DEADLOCK FALSE
PROPERTIES DeletionCompletes
