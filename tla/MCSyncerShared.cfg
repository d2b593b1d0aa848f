SPECIFICATION SharedSpec
CONSTANTS
    BufLen = 3
    SrcLen = 5
    MaxRead = 2
    None = None
PROPERTIES
    CommitsEnd
CHECK_DEADLOCK FALSE
