CONSTANTS
    Gateways = {g1}
    Clients = {c1, c2}
    Blobs = {layer}
    Ops = {"head", "read", "upload", "delete"}
    TTL = 3
    MaxLag = 1
    QueueDepth = 1
    BatchSize = 1
    MaxInFlight = 1
    MaxDonations = 1
    MaxRequests = 4
    MaxSnapshots = 0

SPECIFICATION FleetSpec

INVARIANTS
    DeletedEntryIsGone
