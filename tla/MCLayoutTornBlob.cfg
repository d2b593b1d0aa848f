SPECIFICATION DeploymentSpec
CONSTANTS
    Paths = {"a", "l", "b"}
    RealPaths = {"A", "B"}
    Real <- MCReal
    Reads <- MCReads
    Precached <- MCPrecached
    Workers = {"v1", "v2"}
    Main = "main"
    Nobody = nobody
    RunParts = {"sink"}
    BlockSize = 4096
    MaxCount = 2
    Inodes <- ImageInodes
    MaxInodes = 3
    Options <- ImageOptions
    Ranges <- ImageRanges
    MaxRanges = 2
    Workloads <- AgreeingWorkloads
INVARIANT
    NeverCorrupt
CHECK_DEADLOCK FALSE
