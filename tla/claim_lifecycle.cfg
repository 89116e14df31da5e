CONSTANTS
    Devices <- Two
    Wwns <- Disks
    Nodes <- OneNode
    DeviceLists <- BothDevices
    Discoveries <- SharedOnOne
    Preexisting = {}
    MaxClaims = 1
    Holds = {FALSE}
    Upsets = {"volume", "unhealthy"}
    MaxUpsets = 2
    FaultKinds = {}
    MaxFaults = 0
    PromptInformer = TRUE
SPECIFICATION Spec
CHECK_DEADLOCK FALSE
INVARIANTS NeverMisreportsEdit NoOrphanStorageClass
PROPERTIES VolumesSafe KeepsContract
