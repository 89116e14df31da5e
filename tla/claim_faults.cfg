CONSTANTS
    Devices <- Two
    Wwns <- Disks
    Nodes <- OneNode
    DeviceLists <- EitherList
    Discoveries <- SharedOnOne
    Preexisting = {}
    MaxClaims = 1
    Holds = {FALSE}
    Upsets = {"edit", "volume"}
    MaxUpsets = 1
    FaultKinds = {"crash", "error", "create"}
    MaxFaults = 2
    PromptInformer = FALSE
SPECIFICATION Spec
CHECK_DEADLOCK FALSE
INVARIANTS TypeOK DeletedMeansGone ReadyBacked BlockShown
PROPERTIES CleanupNeverUndone ClassGoesFirst UsedVolumesHold KeepsKnownContract
