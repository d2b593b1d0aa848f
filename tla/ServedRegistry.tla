--------------------------- MODULE ServedRegistry ---------------------------
(***************************************************************************)
(* The registry command (cmd/registry/registry.go): one image served from  *)
(* blob stores the registry does not own (pkg/serve/registry), the sizes   *)
(* it needs to address them in the remote cache, and the keep-alive that   *)
(* asks the remote cache about the blobs that are live.                    *)
(*                                                                         *)
(* The collector is that of Registry, reduced to one manifest and its      *)
(* blobs.  A time is a number of ticks, Never for what is not there.       *)
(***************************************************************************)
EXTENDS Integers, Sequences, FiniteSets

LOCAL INSTANCE SequencesExt

CONSTANTS
    Configs, Layers,   \* the blobs the manifest names
    Stores,            \* --blob-store, in order
    S3Blobs, UpstreamBlobs,
    TTL,               \* --ttl; 0 keeps everything
    RemoteCacheTTL, ScanInterval, \* both positive
    Expires, MinLifetime, \* of presigned URLs
    MaxLate,           \* ticks that scans and requests may take beyond their time
    MaxNow             \* bound on the clock

VARIABLES
    now,
    cas,       \* blob -> when the remote cache last saw it used
    sizes,     \* BlobSizeCache: the blobs whose size is known
    used,      \* collector.blobs: blob -> lastUsed
    manifest,  \* when the manifest was last used
    put,       \* the blobs a PUT of the manifest has to look at, in order
    collected, \* swept blobs whose callbacks have not run
    firing,    \* of those, the ones found not to be back
    kept,      \* lastKeptAlive
    scan,      \* the scan in progress: its time, the blobs it found live and asks about
    watched,   \* the blobs the last successful scan found live
    scanned,   \* when the last successful scan started
    late,      \* ticks spent beyond the schedule
    urls       \* S3 cache: blob -> expiry of its presigned URL

servedVars == <<now, cas, sizes, used, manifest, put, collected, firing, kept, scan, watched, scanned, late, urls>>

Never == -1
ImageBlobs == Layers \cup Configs
Idle == [at |-> Never, live |-> {}, due |-> {}]
NonREAPI == SelectSeq(Stores, LAMBDA s : s # "reapi")
Max2(a, b) == IF a > b THEN a ELSE b
refreshAge == Max2(RemoteCacheTTL - 2 * ScanInterval, 0)

fresh(t) == t # Never /\ (TTL <= 0 \/ now - t < TTL)
Live(b) == fresh(used[b]) \/ fresh(manifest)

-----------------------------------------------------------------------------
(* Stat of the stores.  A result is [result, cas, urls] with what the question did *)
(* to the remote cache and to the URL cache.                                      *)

Result(r, c, u) == [result |-> r, cas |-> c, urls |-> u]

\* getCached and ensureCached: a URL is handed out again until MinLifetime after its
\* expiry.
S3Stat(b, u) ==
    IF u[b] # Never /\ u[b] > now - MinLifetime THEN Result("redirect", cas, u)
    ELSE IF b \in S3Blobs THEN Result("redirect", cas, [u EXCEPT ![b] = now + Expires])
    ELSE Result("unknown", cas, [u EXCEPT ![b] = Never])

\* An upstream's "not found" arrives wrapped and is an error like any other.
UpstreamStat(b, u) == Result(IF b \in UpstreamBlobs THEN "size" ELSE "error", cas, u)

OneStat(s, b, u) == IF s = "s3" THEN S3Stat(b, u) ELSE UpstreamStat(b, u)


\* combinedBlobStore: the first store that says anything but "not found".
FirstOf(results) ==
    LET decided == {i \in DOMAIN results : results[i].result # "unknown"}
    IN IF decided = {} THEN results[Len(results)]
       ELSE results[CHOOSE i \in decided : \A j \in decided : i <= j]

CombinedStat(stores, b, u) ==
    IF stores = <<>> THEN Result("unknown", cas, u)
    ELSE FirstOf([i \in DOMAIN stores |-> OneStat(stores[i], b, u)])

\* REAPIBlobHandler.Stat needs the size, from the cache or from the other stores.
\* FindMissingBlobs counts as a use.
REAPIStat(b, u) ==
    LET sized == CombinedStat(NonREAPI, b, u)
    IN IF b \notin sizes /\ sized.result # "size" THEN sized
       ELSE IF cas[b] = Never THEN Result("unknown", cas, u)
       ELSE Result("size", [cas EXCEPT ![b] = now], u)

Stat(b) ==
    FirstOf([i \in DOMAIN Stores |->
                IF Stores[i] = "reapi" THEN REAPIStat(b, urls) ELSE OneStat(Stores[i], b, urls)])

-----------------------------------------------------------------------------
(* Requests *)

\* HEAD (and GET, which asks the same) of a blob; a blob answered with its size is
\* touched.
HeadBlob(b) ==
    LET stat == Stat(b)
    IN /\ cas' = stat.cas /\ urls' = stat.urls
       /\ used' = IF stat.result = "size" THEN [used EXCEPT ![b] = now] ELSE used
       /\ UNCHANGED <<now, sizes, manifest, put, collected, firing, kept, scan, watched, scanned, late>>

\* PUT of a blob: REAPIBlobHandler.Put, then the handler touches it.
PutBlob(b) ==
    LET sized == CombinedStat(NonREAPI, b, urls)
    IN /\ "reapi" \in {Stores[i] : i \in DOMAIN Stores}
       /\ b \in sizes \/ sized.result = "size"
       /\ cas' = [cas EXCEPT ![b] = now]
       /\ used' = [used EXCEPT ![b] = now]
       /\ UNCHANGED <<now, sizes, manifest, put, collected, firing, kept, scan, watched, scanned, late, urls>>

\* blobcache Commit: sizes of all the blobs named, whether the cache has them or not.
Commit(b) ==
    /\ sizes' = sizes \cup {b}
    /\ cas' = IF cas[b] = Never THEN cas ELSE [cas EXCEPT ![b] = now]
    /\ UNCHANGED <<now, used, manifest, put, collected, firing, kept, scan, watched, scanned, late, urls>>

StartPut(order) ==
    /\ put = <<>> /\ put' = order
    /\ UNCHANGED <<now, cas, sizes, used, manifest, collected, firing, kept, scan, watched, scanned, late, urls>>

\* cacheFromManifest asks about a layer once its size is known, not about the config.
LookAt(b) == IF b \in Layers THEN Stat(b) ELSE Result("unknown", cas, urls)

\* ManifestPutCallback, one blob at a time.
PutCallback ==
    /\ put # <<>> /\ Head(put) # "store"
    /\ sizes' = sizes \cup {Head(put)}
    /\ LET stat == IF Head(put) \in sizes THEN LookAt(Head(put))
                   ELSE Result("size", IF Head(put) \in Layers /\ cas[Head(put)] # Never
                                       THEN [cas EXCEPT ![Head(put)] = now] ELSE cas, urls)
       IN cas' = stat.cas /\ urls' = stat.urls
    /\ put' = Tail(put)
    /\ UNCHANGED <<now, used, manifest, collected, firing, kept, scan, watched, scanned, late>>

\* The manifest is stored and touched with every blob it names.
StoreManifest ==
    /\ put # <<>> /\ Head(put) = "store"
    /\ manifest' = now
    /\ used' = [b \in ImageBlobs |-> now]
    /\ put' = <<>>
    /\ UNCHANGED <<now, cas, sizes, collected, firing, kept, scan, watched, scanned, late, urls>>

GetManifest ==
    /\ manifest # Never /\ manifest' = now
    /\ UNCHANGED <<now, cas, sizes, used, put, collected, firing, kept, scan, watched, scanned, late, urls>>

-----------------------------------------------------------------------------
(* The collector *)

\* Collect under the lock: what is not live is dropped.
Sweep ==
    /\ TTL > 0
    /\ manifest' = IF fresh(manifest) THEN manifest ELSE Never
    /\ used' = [b \in ImageBlobs |-> IF Live(b) THEN used[b] ELSE Never]
    /\ collected' = collected \cup {b \in ImageBlobs : used[b] # Never /\ ~Live(b)}
    /\ UNCHANGED <<now, cas, sizes, put, firing, kept, scan, watched, scanned, late, urls>>

\* reportCollectedBlobs looks whether the blob is back under the lock ...
Report(b) ==
    /\ b \in collected
    /\ collected' = collected \ {b}
    /\ firing' = IF used[b] = Never THEN firing \cup {b} ELSE firing
    /\ UNCHANGED <<now, cas, sizes, used, manifest, put, kept, scan, watched, scanned, late, urls>>

\* ... and runs the callback after it.
Forget(b) ==
    /\ b \in firing
    /\ firing' = firing \ {b}
    /\ sizes' = sizes \ {b}
    /\ UNCHANGED <<now, cas, used, manifest, put, collected, kept, scan, watched, scanned, late, urls>>

-----------------------------------------------------------------------------
(* KeepAlive.scanOnce *)

Due(b) == now - Max2(used[b], kept[b]) >= refreshAge

\* RangeLiveBlobs; what is no longer live is forgotten.
ScanStart ==
    /\ scan = Idle
    /\ scan' = [at |-> now, live |-> {b \in ImageBlobs : Live(b)}, due |-> {b \in ImageBlobs : Live(b) /\ Due(b)}]
    /\ kept' = [b \in ImageBlobs |-> IF Live(b) THEN kept[b] ELSE Never]
    /\ UNCHANGED <<now, cas, sizes, used, manifest, put, collected, firing, watched, scanned, late, urls>>

\* FindMissingBlobs: what is there was used; what is missing loses its size.
ScanAnswer ==
    LET missing == {b \in scan.due : cas[b] = Never}
    IN /\ scan # Idle
       /\ cas' = [b \in ImageBlobs |-> IF b \in scan.due \ missing THEN now ELSE cas[b]]
       /\ kept' = [b \in ImageBlobs |-> IF b \in missing THEN Never
                                   ELSE IF b \in scan.due THEN scan.at ELSE kept[b]]
       /\ sizes' = sizes \ missing
       /\ scanned' = scan.at /\ watched' = scan.live /\ scan' = Idle
       /\ UNCHANGED <<now, used, manifest, put, collected, firing, late, urls>>

\* The call fails: the next scan tries again.
ScanFails ==
    /\ scan # Idle /\ scan.due # {}
    /\ scan' = Idle
    /\ UNCHANGED <<now, cas, sizes, used, manifest, put, collected, firing, kept, watched, scanned, late, urls>>

-----------------------------------------------------------------------------
(* The remote cache and time *)

\* External: a client of the cache stores the blob.
Upload(b) ==
    /\ cas' = [cas EXCEPT ![b] = now]
    /\ UNCHANGED <<now, sizes, used, manifest, put, collected, firing, kept, scan, watched, scanned, late, urls>>

\* External: the cache may drop what nobody asked about for RemoteCacheTTL.
Evict(b) ==
    /\ cas[b] # Never /\ now - cas[b] >= RemoteCacheTTL
    /\ cas' = [cas EXCEPT ![b] = Never]
    /\ UNCHANGED <<now, sizes, used, manifest, put, collected, firing, kept, scan, watched, scanned, late, urls>>

\* Scans run every ScanInterval; MaxLate ticks are lost to scans that fail or come
\* late and to a PUT that is under way.
Tick ==
    LET slow == (IF now + 1 - scanned > ScanInterval THEN 1 ELSE 0)
                + (IF put # <<>> THEN 1 ELSE 0)
    IN /\ now < MaxNow /\ late + slow <= MaxLate
       /\ now' = now + 1
       /\ late' = late + slow
       /\ UNCHANGED <<cas, sizes, used, manifest, put, collected, firing, kept, scan, watched, scanned, urls>>

ServedInit ==
    /\ now = 0 /\ cas \in [ImageBlobs -> {Never, 0}] /\ sizes = {}
    /\ used = [b \in ImageBlobs |-> Never] /\ manifest = Never /\ put = <<>>
    /\ collected = {} /\ firing = {}
    /\ kept = [b \in ImageBlobs |-> Never] /\ scan = Idle /\ watched = {} /\ scanned = 0 /\ late = 0
    /\ urls = [b \in ImageBlobs |-> Never]

ServedNext ==
    \/ \E b \in ImageBlobs : HeadBlob(b) \/ PutBlob(b) \/ Commit(b) \/ Upload(b) \/ Evict(b) \/ Report(b) \/ Forget(b)
    \/ \E order \in SetToSeqs(Layers), configs \in SetToSeqs(Configs) : StartPut(order \o configs \o <<"store">>)
    \/ PutCallback \/ StoreManifest \/ GetManifest
    \/ Sweep \/ ScanStart \/ ScanAnswer \/ ScanFails \/ Tick

-----------------------------------------------------------------------------
ServedTypeOK ==
    /\ now \in 0 .. MaxNow /\ sizes \subseteq ImageBlobs
    /\ cas \in [ImageBlobs -> Never .. MaxNow] /\ used \in [ImageBlobs -> Never .. MaxNow]
    /\ kept \in [ImageBlobs -> Never .. MaxNow] /\ manifest \in Never .. MaxNow
    /\ collected \subseteq ImageBlobs /\ firing \subseteq ImageBlobs

\* keepalive.go: a layer of a live image is asked about before the cache could have
\* dropped it, although the registry counts its own requests as uses and a scan or a
\* push may be late.
LiveLayersStay ==
    \A b \in Layers \cap watched : Live(b) /\ cas[b] # Never => now - cas[b] < RemoteCacheTTL

\* combined.go: "not found" is the answer only when every store was asked and has
\* nothing: a blob of a bucket, and one the remote cache holds and whose size is
\* known, is found.
UnknownMeansNowhere ==
    \A b \in ImageBlobs : Stat(b).result = "unknown" =>
        /\ b \in sizes => cas[b] = Never
        /\ "s3" \in {Stores[i] : i \in DOMAIN Stores} => b \notin S3Blobs

=============================================================================
