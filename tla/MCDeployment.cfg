SPECIFICATION FairDeploymentSpec
CONSTANTS
    Paths = {"a", "l", "b"}
    RealPaths = {"A", "B"}
    Real <- MCReal
    Reads <- MCReads
    Precached <- MCPrecached
    Workers = {"v1", "v2"}
    Main = "main"
    Nobody = nobody
    RunParts = {"digests", "image", "hash", "queue", "sink", "deploy", "load", "vfs"}
    BlockSize = 4096
    MaxCount = 2
    Inodes <- ImageInodes
    MaxInodes = 3
    Options <- ImageOptions
    Ranges <- ImageRanges
    MaxRanges = 2
    Workloads <- AgreeingWorkloads
INVARIANTS
    DigestsAreShared
    ImageIsReadable
    WorkerIsTransparent
    SinkIsFaithful
    
    
    
PROPERTY
    CommandsEnd
CHECK_DEADLOCK FALSE
