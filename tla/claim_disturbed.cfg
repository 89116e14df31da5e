CONSTANTS
    Devices <- Two
    Wwns <- Disks
    Nodes <- TwoNodes
    DeviceLists <- AnyList
    Discoveries <- VaryingOnTwo
    Preexisting = {"wwn2"}
    MaxClaims = 1
    Holds = {FALSE}
    Upsets = {"volume", "unhealthy", "tamper", "drift", "discovery", "foreign", "edit"}
    MaxUpsets = 1
    FaultKinds = {}
    MaxFaults = 0
    PromptInformer = FALSE
SPECIFICATION Spec
CHECK_DEADLOCK FALSE
PROPERTY NoCreateWhileDeleting
