CONSTANTS
    index = index
    image = image
    signature = signature
    layer = layer
    latest = latest
    c1 = c1
    c2 = c2
    none = none
    NoManifest = none
    NoClient = none
    Manifests <- MCManifests
    Blobs = {layer}
    Tags = {latest}
    Clients = {c1}
    Header <- MCHeader
    MediaType <- MCMediaType
    Lists <- MCLists
    Layers <- MCLayers
    Subject <- MCSubject
    Requests <- AllRequests
    TTL = 1
    TagTTL = 2
    Interval = 1

SPECIFICATION Spec

INVARIANTS
    
    KeptIsComplete

PROPERTIES
    ReferrerStaysWithSubject
    
