---------------------------- MODULE MCRegistry ----------------------------
(***************************************************************************)
(* A registry with an index pushed under a wrong Content-Type, the image   *)
(* it lists, a signature of that image, and one or two layers.             *)
(***************************************************************************)
EXTENDS Registry, TLC

CONSTANTS index, image, signature, layer, latest, c1, c2, none

MCManifests == {index, image, signature}
MCManifestsUnsigned == {index, image}
MCHeader == [m \in Manifests |-> "manifest"]
MCMediaType == [m \in Manifests |-> IF m = signature THEN "manifest" ELSE "other"]
MCLists == [m \in Manifests |-> IF m = index THEN {image} ELSE {}]
MCLayers == [m \in Manifests |-> IF m = image THEN Blobs ELSE {}]
MCSubject == [m \in Manifests |-> IF m = signature THEN image ELSE NoManifest]

\* Every kind of request: one manifest is pushed under the tag, the index and the tag
\* are pulled, and the index, the image and the tag are deleted.
AllRequests ==
    {r \in RequestType : /\ r.op = "put" /\ r.target \in Tags => r.manifest = index
                         /\ r.op = "get" => r.target \in {index} \cup Tags
                         /\ r.op = "delete" => r.target # signature}

Put(m, target) == [op |-> "put", manifest |-> m, target |-> target]
Get(target) == [op |-> "get", target |-> target]
Delete(target) == [op |-> "delete", target |-> target]

\* Two clients that push an index and its image, by digest and by tag, pull and
\* delete them.
PushRequests == {Put(image, image), Put(index, index), Put(index, latest),
                 Get(index), Get(latest), Delete(index), Delete(latest)}

=============================================================================
