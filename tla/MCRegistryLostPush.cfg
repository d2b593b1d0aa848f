CONSTANTS
    index = index
    image = image
    signature = signature
    layer = layer
    latest = latest
    c1 = c1
    c2 = c2
    none = none
    NoManifest = none
    NoClient = none
    Manifests <- MCManifestsUnsigned
    Blobs = {}
    Tags = {latest}
    Clients = {c1, c2}
    Header <- MCHeader
    MediaType <- MCMediaType
    Lists <- MCLists
    Layers <- MCLayers
    Subject <- MCSubject
    Requests <- PushRequests
    TTL = 1
    TagTTL = 1
    Interval = 1

SPECIFICATION Spec

INVARIANT UsedManifestIsKept
