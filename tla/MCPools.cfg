SPECIFICATION PoolsSpec
CONSTANTS
    read = read
    copy = copy
    upload = upload
    check = check
    lookup = lookup
    NoFeed = NoFeed
    Requests <- AllRequests
    RoleOf <- MCRoleOf
    MethodOf <- MCMethodOf
    Feed <- MCFeed
    Jobs = {0, 1, 2}
    EnvLimits = {0, 1}
INVARIANTS
    SlotAccounting
    NoLostWakeup
    PullIsSound
    GatewayIsSound
PROPERTIES
    AdmissionIsOrderly
    PoolsEnd
CHECK_DEADLOCK FALSE
