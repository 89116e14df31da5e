CONSTANTS
    Nodes <- TwoNodes
    Disks <- TwoDisks
    DiskLists <- OtherDisks
    FirstLists <- OneDisk
    Selectors <- FirstNode
    MaxLVDs = 2
    Troubles = {"disks", "select", "delete", "node", "crash", "restart", "refused"}
    MaxTroubles = 1
SPECIFICATION FairSpec
CHECK_DEADLOCK FALSE
INVARIANTS DiscoveryTypeOK RememberedIsPublished
PROPERTIES ResultsCatchUp StatusCatchesUp OrphansGo
