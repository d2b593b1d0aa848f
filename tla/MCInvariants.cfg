CONSTANTS
    Gateways = {g1, g2}
    Clients = {c1}
    Blobs = {layer}
    Ops = {"head", "read", "upload", "delete"}
    TTL = 3
    MaxLag = 1
    QueueDepth = 2
    BatchSize = 2
    MaxInFlight = 1
    MaxDonations = 1
    MaxRequests = 2
    MaxSnapshots = 1
SPECIFICATION PartsSpec
INVARIANTS
    BeliefIsBounded
    EventsAreFaithful
    
    
    
    
    
SYMMETRY FleetSymmetry
CHECK_DEADLOCK FALSE
