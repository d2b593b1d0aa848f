------------------------------ MODULE MCParts ------------------------------
(***************************************************************************)
(* Components that do not interact, each on an instance of its own and     *)
(* all in one run: a behaviour chooses one part in its initial state and   *)
(* moves nothing else.                                                     *)
(*                                                                         *)
(*   auth     three requests for one repository and scope (AuthCache)      *)
(*   shard    three slots, four keys: two that hash alike, one in the same *)
(*            bucket and one in another (ExistenceShard)                   *)
(*   rest     two instances and two clients (GatewayFleet)                 *)
(*   mark     every graph over an index that lists a second index and an   *)
(*            image, with a cycle between the indexes, and two referrers,  *)
(*            one of the other (Mark)                                      *)
(*   reader   two callers of one blob (CachingReader)                      *)
(***************************************************************************)
EXTENDS AuthCache, Integers

VARIABLES
    part,
    shard,
    upstream, cache, req, queue, pending, flights, warmup, requests, snapshots, gone, erased, purged,
    inflight, fetch, file, lru, stuck, reserved, disabled, at, call, result,
    graph, roots, worklist, seen

authVars == vars
fleetVars == <<upstream, cache, req, queue, pending, flights, warmup, requests, snapshots, gone, erased, purged>>
readerVars == <<inflight, fetch, file, lru, stuck, reserved, disabled, at, call, result>>
markVars == <<graph, roots, worklist, seen>>
partVars == <<part, authVars, shard, fleetVars, readerVars, markVars>>

Shard == INSTANCE ExistenceShard WITH
    Keys <- {"k1", "k2", "k3", "k4"}, NoKey <- "none", Capacity <- 3, Buckets <- 4, TTL <- 1, Lengths <- {7},
    Hash <- [k \in {"k1", "k2", "k3", "k4"} |-> IF k \in {"k1", "k2"} THEN 1 ELSE IF k = "k3" THEN 5 ELSE 2]

Pair == INSTANCE GatewayFleet WITH
    Gateways <- {"g1", "g2"}, Clients <- {"c1", "c2"}, Blobs <- {"layer"}, Ops <- {"upload", "delete"},
    TTL <- 1, MaxLag <- 0, QueueDepth <- 2, BatchSize <- 2, MaxInFlight <- 1, MaxDonations <- 1,
    MaxRequests <- 2, MaxSnapshots <- 0

Reader == INSTANCE CachingReader WITH
    Callers <- {"c1", "c2"}, Fetches <- {"f1"}, Digests <- {"d1"}, NoFetch <- "none", Chunks <- 1, MaxSize <- 0,
    Sources <- {"good"}, Ops <- {"ReaderForBlob"}, MaxAttempts <- 1, MaxBusy <- 3, pc <- at

Marks == INSTANCE Mark WITH
    Manifests <- {"top", "nested", "image", "signature", "attestation"}, Blobs <- {}, NoManifest <- "none",
    Header <- [top |-> "manifest", nested |-> "other", image |-> "other", signature |-> "other", attestation |-> "other"],
    MediaType <- [top |-> "other", nested |-> "index", image |-> "other", signature |-> "other", attestation |-> "other"],
    Lists <- [top |-> {"top", "nested", "image"}, nested |-> {"top", "image"},
              image |-> {}, signature |-> {}, attestation |-> {}],
    Layers <- [m \in {"top", "nested", "image", "signature", "attestation"} |-> {}],
    Subject <- [top |-> "none", nested |-> "none", image |-> "none", signature |-> "image", attestation |-> "signature"]

PartsInit ==
    /\ part \in {"auth", "shard", "rest", "reader", "mark"}
    /\ Init
    /\ Shard!Init
    /\ Pair!Init
    /\ Reader!Init
    /\ IF part = "mark" THEN Marks!Init ELSE graph = {} /\ roots = {} /\ worklist = <<>> /\ seen = {}

Auth(step) == part = "auth" /\ step /\ UNCHANGED <<part, shard, fleetVars, readerVars, markVars>>
Rest(step) == part = "rest" /\ step /\ UNCHANGED <<part, authVars, shard, readerVars, markVars>>
Reads(step) == part = "reader" /\ step /\ UNCHANGED <<part, authVars, shard, fleetVars, markVars>>
Mark(step) == part = "mark" /\ step /\ UNCHANGED <<part, authVars, shard, fleetVars, readerVars>>

PartsNext ==
    \/ Auth(Next)
    \/ part = "shard" /\ Shard!Next /\ UNCHANGED <<part, authVars, fleetVars, readerVars, markVars>>
    \/ Rest(Pair!Next)
    \/ Reads(Reader!Next)
    \/ Mark(Marks!Next)
    \/ part = "mark" /\ worklist = <<>> /\ UNCHANGED partVars

\* The fairness of the part that moves.
PartsFairness ==
    /\ \A r \in Requests : WF_partVars(Auth(Do(r) \/ Created(r) \/ Return(r)))
    /\ \A g \in {"g1", "g2"} : WF_partVars(Rest(Pair!Replicate(g)))
    /\ \A c \in {"c1", "c2"} : WF_partVars(Reads(Reader!Proceed(c)))
    /\ WF_partVars(Reads(Reader!run("f1")))
    /\ WF_partVars(Mark(Marks!Step))

PartsSpec == PartsInit /\ [][PartsNext]_partVars /\ PartsFairness

------------------------------------------------------------------------------
(* Properties: those of the parts. *)

\* The lists of a shard are well formed (claim, drop, find, unlink).
ShardIsSound == part = "shard" => Shard!TypeOK /\ Shard!ShardIsSound

\* A shard is a bounded LRU map with lifetimes: Shard!ImplementsLRUCache, looked at
\* while the shard is the part that moves.
ImplementsLRUCache ==
    /\ part = "shard" => Shard!Abstract!Init
    /\ [][part = "shard" => Shard!Abstract!Next]_Shard!EntriesInOrder

\* The mark loop of a sweep marks what is reachable (reachableLocked).
MarksExactlyReachable == Marks!MarksExactlyReachable

\* Nothing in the parts waits for ever: a request of AuthCache returns (any of them: they,
\* and the callers of a reader, are alike), replication comes to rest when clients stop sending requests, reads end
\* and leave no temporary file of an abandoned fetch, and the mark loop ends.
PartsEnd ==
    /\ []<>(/\ part = "auth" => pc[CHOOSE r \in Requests : TRUE] = "idle"
            /\ part = "rest" => Pair!Quiet
            /\ part = "reader" => at["c1"] = Reader!Idle
            /\ part = "mark" => worklist = <<>>)
    /\ []<>(part = "reader" => ~(fetch["f1"].abandoned /\ fetch["f1"].temp))
=============================================================================
