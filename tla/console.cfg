SPECIFICATION FairSpec
CONSTANTS
    n1 = n1
    n2 = n2
    p1 = p1
    p2 = p2
    w1 = w1
    w2 = w2
    nameA = nameA
    Nodes <- MCNodes
    NodeOrder <- MCNodeOrder
    Paths <- MCPaths
    Wwns <- MCWwns
    Names <- MCNames
    ValidNames <- MCNames
    Discoveries <- MCDiscoveries
    FirstLabels <- MCFirstLabels
    FirstDisks <- MCFirstDisks
    FirstScreens = {"home", "nodes", "form"}
    ClusterAtFirst = {FALSE, TRUE}
    SmallNodes = {n2}
    MINIMUM_AMOUNT_OF_NODES = 2
    MINIMUM_AMOUNT_OF_SHARED_DISKS = 1
    MaxCalls = 2
    MaxSubmits = 1
    Upsets = {"watch", "refuse", "reply", "label", "discovery", "disk", "models", "visit"}
    MaxUpsets = 1
    MaxAlerts = 1
INVARIANTS TypeOK RequirementsShown ButtonFollowsRequirements OfferIsCurrent ChoiceFollowsDisk
PROPERTIES FailuresKept PendingEnds
CHECK_DEADLOCK FALSE
