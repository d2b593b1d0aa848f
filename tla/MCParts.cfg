SPECIFICATION PartsSpec
CONSTANTS
    Requests = {r1, r2, r3}
    Entries = {e1, e2, e3}
    NoEntry = none
INVARIANTS
    OneHandshake
    ShardIsSound
    MarksExactlyReachable
PROPERTIES
    ImplementsLRUCache
    PartsEnd
