------------------------------ MODULE Registry ------------------------------
(***************************************************************************)
(* The registry and its garbage collector: pkg/registry (manifest.go,      *)
(* blobs.go, store.go, collector.go, registry.go).                         *)
(*                                                                         *)
(* Requests are served concurrently.  Only the collector's mutex orders    *)
(* them: a sweep holds it from its first look at the store to its last     *)
(* delete, and every Touch and Forget takes it.  Calls to the store and to *)
(* the blob handler do not take it, so a request can store a manifest or a *)
(* blob in the middle of a sweep; it can only record the use afterwards.   *)
(*                                                                         *)
(* Time is the age of each record, counted in ticks up to Old, the longest *)
(* age any comparison tells apart.                                         *)
(***************************************************************************)
EXTENDS ObjectGraph, Integers

CONSTANTS
    Tags,       \* tag names
    Clients,    \* requests in flight at the same time
    Requests,   \* the requests clients may send
    TTL,        \* CollectorConfig.TTL in ticks, 0 for no expiry
    TagTTL,     \* CollectorConfig.TagTTL in ticks, 0 for no expiry
    Interval,   \* CollectorConfig.Interval in ticks
    NoClient

ASSUME RegistryAssumption ==
    /\ TTL \in Nat /\ TagTTL \in Nat /\ Interval \in Nat
    /\ NoClient \notin Clients
    /\ Tags \cap Manifests = {}

\* A request: what it does, the reference it names (a manifest's digest or a
\* tag) and the manifest or blob it carries or asks for.
RequestType ==
    [op : {"get", "delete"}, target : Manifests \cup Tags]
      \cup {r \in [op : {"put"}, target : Manifests \cup Tags, manifest : Manifests] :
               r.target \in Tags \cup {r.manifest}}
      \cup [op : {"list"}]
      \cup [op : {"headblob", "putblob", "deleteblob"}, blob : Blobs]

ASSUME RequestsAssumption == Requests \subseteq RequestType

VARIABLES
    held,        \* memStore.repos: the manifests the store holds
    tag,         \* memStore.tags: the manifest each tag points at
    content,     \* the blobs the blob handler holds
    mAge,        \* Collector.manifests: ticks since last use, or Untracked
    tAge,        \* Collector.tags
    bAge,        \* Collector.blobs
    sinceSweep,  \* ticks since lastSweep
    lock,        \* the client whose sweep holds the collector's mutex
    sweep,       \* what markLocked and sweepLocked have computed
    pc,          \* where each client's request is
    req,         \* the request itself
    object,      \* the manifest, tag or blob it is working on
    pending,     \* the blobs its current loop has still to go through
    untag,       \* the tags it has still to delete
    used,        \* ticks since a client last pushed or pulled a manifest or blob
    deleted      \* manifests and blobs a client has deleted since their last push

storeVars == <<held, tag, content>>
ageVars == <<mAge, tAge, bAge, sinceSweep>>
requestVars == <<req, object, pending, untag>>
historyVars == <<used, deleted>>
vars == <<storeVars, ageVars, lock, sweep, pc, requestVars, historyVars>>

Untracked == -1
Old == IF TTL > TagTTL THEN TTL ELSE TagTTL
Ages == Untracked .. Old
NoSweep == [graph |-> {}, roots |-> {}, live |-> {}, fresh |-> {}, stale |-> {}, tags |-> {}, todo |-> {}, blobs |-> {}]

Init ==
    /\ held = {}
    /\ tag = [t \in Tags |-> NoManifest]
    /\ content = {}
    /\ mAge = [m \in Manifests |-> Untracked]
    /\ tAge = [t \in Tags |-> Untracked]
    /\ bAge = [b \in Blobs |-> Untracked]
    /\ sinceSweep = 0
    /\ lock = NoClient
    /\ sweep = NoSweep
    /\ pc = [c \in Clients |-> "idle"]
    /\ req = [c \in Clients |-> [op |-> "list"]]
    /\ object = [c \in Clients |-> NoManifest]
    /\ pending = [c \in Clients |-> {}]
    /\ untag = [c \in Clients |-> {}]
    /\ used = [x \in Manifests \cup Blobs |-> Untracked]
    /\ deleted = {}

Goto(c, label) == pc' = [pc EXCEPT ![c] = label]

-----------------------------------------------------------------------------
(***************************************************************************)
(* Time and expiry.                                                        *)
(***************************************************************************)

\* Collector.fresh
Fresh(age, ttl) == ttl = 0 \/ age < ttl

Older(age) == IF age = Untracked \/ age = Old THEN age ELSE age + 1

\* The manifests and blobs a push in flight counts on: those a client pushed or
\* asked about before it pushed the manifest that names them.
InUse == UNION {Lists[req[c].manifest] : c \in {d \in Clients : pc[d] # "idle" /\ req[d].op = "put"}}
BlobsInUse == UNION {Layers[req[c].manifest] : c \in {d \in Clients : pc[d] # "idle" /\ req[d].op = "put"}}

\* Time passes.  A TTL is "comfortably longer than a push": what a push in
\* flight counts on does not expire under it.
Tick ==
    /\ \A m \in InUse : mAge[m] # Untracked => Fresh(Older(mAge[m]), TTL)
    /\ \A b \in BlobsInUse : bAge[b] # Untracked => Fresh(Older(bAge[b]), TTL)
    /\ mAge' = [m \in Manifests |-> Older(mAge[m])]
    /\ tAge' = [t \in Tags |-> Older(tAge[t])]
    /\ bAge' = [b \in Blobs |-> Older(bAge[b])]
    /\ used' = [x \in Manifests \cup Blobs |-> Older(used[x])]
    /\ sinceSweep' = IF sinceSweep < Interval THEN sinceSweep + 1 ELSE sinceSweep
    /\ UNCHANGED <<storeVars, lock, sweep, pc, requestVars, deleted>>

-----------------------------------------------------------------------------
(***************************************************************************)
(* Requests arrive.                                                        *)
(***************************************************************************)

Due == (TTL > 0 \/ TagTTL > 0) /\ sinceSweep >= Interval

\* The first step of a request's handler proper.
Handler(r) ==
    CASE r.op = "put" -> "check"
      [] r.op \in {"get", "delete"} -> "resolve"
      [] r.op = "list" -> "idle"
      [] OTHER -> r.op

\* A client pushes an image only after it pushed or found its children and its
\* blobs, and asked about them within the TTL.
Ready(r) ==
    r.op = "put" =>
        /\ \A m \in Lists[r.manifest] : mAge[m] # Untracked /\ Fresh(mAge[m], TTL)
        /\ \A b \in Layers[r.manifest] : b \in content /\ bAge[b] # Untracked /\ Fresh(bAge[b], TTL)

\* A request arrives.  The manifest, tag list, catalog and referrers handlers
\* call MaybeCollect first, which looks under the lock whether a sweep is due;
\* the blob handler does not.
Arrive(c, r) ==
    /\ pc[c] = "idle"
    /\ Ready(r)
    /\ r.op \notin {"headblob", "putblob", "deleteblob"} => lock = NoClient
    /\ req' = [req EXCEPT ![c] = r]
    /\ Goto(c, IF Due /\ r.op \notin {"headblob", "putblob", "deleteblob"}
               THEN "collect" ELSE Handler(r))
    /\ UNCHANGED <<storeVars, ageVars, lock, sweep, object, pending, untag, historyVars>>

-----------------------------------------------------------------------------
(***************************************************************************)
(* Collect: mark, sweep, then report the collected blobs.                  *)
(***************************************************************************)

\* Collect takes the lock and markLocked reads the manifests.  The store is not
\* locked, so tags are read later.  Freshness is judged by the clock now.
MarkManifests(c) ==
    /\ pc[c] = "collect"
    /\ lock = NoClient
    /\ lock' = c
    /\ sweep' = [NoSweep EXCEPT
          !.graph = held,
          !.roots = {m \in held : mAge[m] = Untracked \/ Fresh(mAge[m], TTL)},
          !.fresh = {t \in Tags : tAge[t] # Untracked /\ Fresh(tAge[t], TagTTL)},
          !.blobs = {b \in Blobs : bAge[b] # Untracked /\ Fresh(bAge[b], TTL)}]
    /\ Goto(c, "marktags")
    /\ UNCHANGED <<storeVars, ageVars, requestVars, historyVars>>

Tracked(age) == {x \in DOMAIN age : age[x] # Untracked}

\* markLocked reads the tags and marks; sweepLocked adopts what it had no record
\* of and is about to go through its records.
MarkTags(c) ==
    /\ pc[c] = "marktags"
    /\ LET stale     == {t \in Tags : tag[t] # NoManifest /\ tAge[t] # Untracked /\ t \notin sweep.fresh}
           rootTags  == {t \in Tags : tag[t] # NoManifest} \ stale
           live      == Reachable(sweep.graph, sweep.roots \cup {tag[t] : t \in rootTags})
           newTags   == rootTags \ Tracked(tAge)
           newM      == sweep.graph \ Tracked(mAge)
       IN /\ mAge' = [m \in Manifests |-> IF m \in newM THEN 0 ELSE mAge[m]]
          /\ tAge' = [t \in Tags |-> IF t \in newTags THEN 0 ELSE tAge[t]]
          /\ sweep' = [sweep EXCEPT
                !.live = live,
                !.stale = stale,
                !.todo = (Tracked(mAge) \cup newM) \ live,
                !.tags = Tracked(tAge) \cup newTags,
                !.blobs = @ \cup UNION {BlobsOf(m) : m \in live}]
    /\ Goto(c, "sweep")
    /\ UNCHANGED <<storeVars, bAge, sinceSweep, lock, requestVars, historyVars>>

\* sweepLocked removes one unreachable manifest and its record.
SweepManifest(c, m) ==
    /\ pc[c] = "sweep"
    /\ m \in sweep.todo
    /\ held' = held \ {m}
    /\ mAge' = [mAge EXCEPT ![m] = Untracked]
    /\ sweep' = [sweep EXCEPT !.todo = @ \ {m}]
    /\ UNCHANGED <<tag, content, tAge, bAge, sinceSweep, lock, pc, requestVars, historyVars>>

\* sweepLocked looks at one tag: a tag that is gone loses its record, one that
\* expired or points at nothing is about to be deleted.
SweepTag(c, t) ==
    /\ pc[c] = "sweep"
    /\ sweep.todo = {}
    /\ t \in sweep.tags
    /\ sweep' = [sweep EXCEPT !.tags = @ \ {t}]
    /\ IF tag[t] # NoManifest /\ (t \in sweep.stale \/ tag[t] \notin held)
       THEN object' = [object EXCEPT ![c] = t] /\ Goto(c, "untagswept")
       ELSE UNCHANGED <<pc, object>>
    /\ tAge' = IF tag[t] = NoManifest THEN [tAge EXCEPT ![t] = Untracked] ELSE tAge
    /\ UNCHANGED <<storeVars, mAge, bAge, sinceSweep, lock, req, pending, untag, historyVars>>

\* sweepLocked deletes the tag it looked at.
UntagSwept(c) ==
    /\ pc[c] = "untagswept"
    /\ tag' = [tag EXCEPT ![object[c]] = NoManifest]
    /\ tAge' = [tAge EXCEPT ![object[c]] = Untracked]
    /\ Goto(c, "sweep")
    /\ UNCHANGED <<held, content, mAge, bAge, sinceSweep, lock, sweep, requestVars, historyVars>>

\* sweepLocked drops the records of unreachable blobs, Collect notes the time
\* and releases the lock.
FinishSweep(c) ==
    /\ pc[c] = "sweep"
    /\ sweep.todo = {} /\ sweep.tags = {}
    /\ pending' = [pending EXCEPT ![c] = Tracked(bAge) \ sweep.blobs]
    /\ bAge' = [b \in Blobs |-> IF b \in sweep.blobs THEN bAge[b] ELSE Untracked]
    /\ sinceSweep' = 0
    /\ lock' = NoClient
    /\ sweep' = NoSweep
    /\ Goto(c, "report")
    /\ UNCHANGED <<storeVars, mAge, tAge, req, object, untag, historyVars>>

\* reportCollectedBlobs looks under the lock whether one blob is tracked again.
Report(c, b) ==
    /\ pc[c] = "report"
    /\ lock = NoClient
    /\ b \in pending[c]
    /\ pending' = [pending EXCEPT ![c] = @ \ {b}]
    /\ IF bAge[b] # Untracked
       THEN UNCHANGED <<pc, object>>
       ELSE object' = [object EXCEPT ![c] = b] /\ Goto(c, "prune")
    /\ UNCHANGED <<storeVars, ageVars, lock, sweep, req, untag, historyVars>>


\* The callback New registers deletes the blob's content, outside the lock.
Prune(c) ==
    /\ pc[c] = "prune"
    /\ content' = content \ {object[c]}
    /\ Goto(c, "report")
    /\ UNCHANGED <<held, tag, ageVars, lock, sweep, requestVars, historyVars>>

\* The sweep is over; the request that triggered it is served.
Serve(c) ==
    /\ pc[c] = "report"
    /\ pending[c] = {}
    /\ Goto(c, Handler(req[c]))
    /\ UNCHANGED <<storeVars, ageVars, lock, sweep, requestVars, historyVars>>

-----------------------------------------------------------------------------
(***************************************************************************)
(* The manifest handler.                                                   *)
(***************************************************************************)

\* PUT: an index whose children are absent is refused, and so is a manifest the
\* put callback rejects.
Check(c) ==
    /\ pc[c] = "check"
    /\ \/ Children(req[c].manifest) \subseteq held /\ Goto(c, "store")
       \/ Goto(c, "idle")
    /\ UNCHANGED <<storeVars, ageVars, lock, sweep, requestVars, historyVars>>

\* PUT: store the manifest under its digest.
StoreManifest(c) ==
    /\ pc[c] = "store"
    /\ held' = held \cup {req[c].manifest}
    /\ object' = [object EXCEPT ![c] = req[c].manifest]
    /\ pending' = [pending EXCEPT ![c] = BlobsOf(req[c].manifest)]
    /\ deleted' = deleted \ {req[c].manifest}
    /\ Goto(c, IF req[c].target \in Tags THEN "settag" ELSE "touch")
    /\ UNCHANGED <<tag, content, ageVars, lock, sweep, req, untag, used>>

\* PUT: point the tag at it.
SetTag(c) ==
    /\ pc[c] = "settag"
    /\ tag' = [tag EXCEPT ![req[c].target] = object[c]]
    /\ Goto(c, "touch")
    /\ UNCHANGED <<held, content, ageVars, lock, sweep, requestVars, historyVars>>

\* GET, HEAD and DELETE: resolve the reference, or answer that it is unknown.
Resolve(c) ==
    /\ pc[c] = "resolve"
    /\ LET target == req[c].target
           m == IF target \in Tags THEN tag[target] ELSE target
       IN IF m \notin held
          THEN Goto(c, "idle") /\ UNCHANGED <<object, untag>>
          ELSE /\ object' = [object EXCEPT ![c] = m]
               /\ untag' = [untag EXCEPT ![c] =
                     IF req[c].op = "delete" /\ target \in Tags THEN {target} ELSE {}]
               /\ Goto(c, IF req[c].op = "get" THEN "touch"
                          ELSE IF target \in Tags THEN "untag" ELSE "delete")
    /\ UNCHANGED <<storeVars, ageVars, lock, sweep, req, pending, historyVars>>


\* touch: TouchManifest.
TouchManifest(c) ==
    /\ pc[c] = "touch"
    /\ lock = NoClient
    /\ mAge' = [mAge EXCEPT ![object[c]] = 0]
    /\ used' = [used EXCEPT ![object[c]] = 0]
    /\ Goto(c, IF req[c].target \in Tags THEN "touchtag" ELSE "touchblobs")
    /\ UNCHANGED <<storeVars, tAge, bAge, sinceSweep, lock, sweep, requestVars, deleted>>

\* touch: TouchTag.
TouchTag(c) ==
    /\ pc[c] = "touchtag"
    /\ lock = NoClient
    /\ tAge' = [tAge EXCEPT ![req[c].target] = 0]
    /\ Goto(c, "touchblobs")
    /\ UNCHANGED <<storeVars, mAge, bAge, sinceSweep, lock, sweep, requestVars, historyVars>>

\* PUT: record the use of the blobs the manifest names, one at a time.
TouchNamedBlob(c, b) ==
    /\ pc[c] = "touchblobs"
    /\ lock = NoClient
    /\ b \in pending[c]
    /\ bAge' = [bAge EXCEPT ![b] = 0]
    /\ pending' = [pending EXCEPT ![c] = @ \ {b}]
    /\ UNCHANGED <<storeVars, mAge, tAge, sinceSweep, lock, sweep, pc, req, object, untag, historyVars>>

\* 201 for a PUT, 200 for a GET or HEAD.
Answer(c) ==
    /\ pc[c] = "touchblobs"
    /\ pending[c] = {}
    /\ Goto(c, "idle")
    /\ UNCHANGED <<storeVars, ageVars, lock, sweep, requestVars, historyVars>>

\* DELETE by digest: the manifest goes first.
DeleteManifest(c) ==
    /\ pc[c] = "delete"
    /\ held' = held \ {object[c]}
    /\ deleted' = deleted \cup {object[c]}
    /\ Goto(c, "forget")
    /\ UNCHANGED <<tag, content, ageVars, lock, sweep, requestVars, used>>

\* DELETE by digest: then its record, and every tag that points at it is next.
ForgetManifest(c) ==
    /\ pc[c] = "forget"
    /\ lock = NoClient
    /\ mAge' = [mAge EXCEPT ![object[c]] = Untracked]
    /\ untag' = [untag EXCEPT ![c] = {t \in Tags : tag[t] = object[c]}]
    /\ Goto(c, "untag")
    /\ UNCHANGED <<storeVars, tAge, bAge, sinceSweep, lock, sweep, req, object, pending, historyVars>>

\* DELETE: one tag goes.
DeleteTag(c, t) ==
    /\ pc[c] = "untag"
    /\ t \in untag[c]
    /\ tag' = [tag EXCEPT ![t] = NoManifest]
    /\ untag' = [untag EXCEPT ![c] = @ \ {t}]
    /\ object' = [object EXCEPT ![c] = t]
    /\ Goto(c, "forgettag")
    /\ UNCHANGED <<held, content, ageVars, lock, sweep, req, pending, historyVars>>

\* DELETE: and its record.
ForgetTag(c) ==
    /\ pc[c] = "forgettag"
    /\ lock = NoClient
    /\ tAge' = [tAge EXCEPT ![object[c]] = Untracked]
    /\ Goto(c, "untag")
    /\ UNCHANGED <<storeVars, mAge, bAge, sinceSweep, lock, sweep, requestVars, historyVars>>

\* DELETE: 202.
Deleted(c) ==
    /\ pc[c] = "untag"
    /\ untag[c] = {}
    /\ Goto(c, "idle")
    /\ UNCHANGED <<storeVars, ageVars, lock, sweep, requestVars, historyVars>>

-----------------------------------------------------------------------------
(***************************************************************************)
(* The blob handler.                                                       *)
(***************************************************************************)

\* HEAD and GET: look for the blob.
HeadBlob(c) ==
    /\ pc[c] = "headblob"
    /\ Goto(c, IF req[c].blob \in content THEN "touchblob" ELSE "idle")
    /\ UNCHANGED <<storeVars, ageVars, lock, sweep, requestVars, historyVars>>

\* POST and PUT: store content that matches its digest; other content is refused.
PutBlob(c) ==
    /\ pc[c] = "putblob"
    /\ \/ /\ content' = content \cup {req[c].blob}
          /\ deleted' = deleted \ {req[c].blob}
          /\ Goto(c, "touchblob")
       \/ Goto(c, "idle") /\ UNCHANGED <<content, deleted>>
    /\ UNCHANGED <<held, tag, ageVars, lock, sweep, requestVars, used>>

\* HEAD, GET, POST and PUT: TouchBlob, and the answer.
TouchBlob(c) ==
    /\ pc[c] = "touchblob"
    /\ lock = NoClient
    /\ bAge' = [bAge EXCEPT ![req[c].blob] = 0]
    /\ used' = [used EXCEPT ![req[c].blob] = 0]
    /\ Goto(c, "idle")
    /\ UNCHANGED <<storeVars, mAge, tAge, sinceSweep, lock, sweep, requestVars, deleted>>

\* DELETE: an absent blob is an error and changes nothing.
DeleteBlob(c) ==
    /\ pc[c] = "deleteblob"
    /\ IF req[c].blob \in content
       THEN /\ content' = content \ {req[c].blob}
            /\ deleted' = deleted \cup {req[c].blob}
            /\ Goto(c, "forgetblob")
       ELSE Goto(c, "idle") /\ UNCHANGED <<content, deleted>>
    /\ UNCHANGED <<held, tag, ageVars, lock, sweep, requestVars, used>>

\* DELETE: ForgetBlob, and the answer.
ForgetBlob(c) ==
    /\ pc[c] = "forgetblob"
    /\ lock = NoClient
    /\ bAge' = [bAge EXCEPT ![req[c].blob] = Untracked]
    /\ Goto(c, "idle")
    /\ UNCHANGED <<storeVars, mAge, tAge, sinceSweep, lock, sweep, requestVars, historyVars>>

-----------------------------------------------------------------------------
Collect(c) ==
    \/ MarkManifests(c)
    \/ MarkTags(c)
    \/ \E m \in Manifests : SweepManifest(c, m)
    \/ \E t \in Tags : SweepTag(c, t)
    \/ UntagSwept(c)
    \/ FinishSweep(c)
    \/ \E b \in Blobs : Report(c, b)
    \/ Prune(c)
    \/ Serve(c)

HandleManifest(c) ==
    \/ Check(c) \/ StoreManifest(c) \/ SetTag(c)
    \/ Resolve(c)
    \/ TouchManifest(c) \/ TouchTag(c)
    \/ \E b \in Blobs : TouchNamedBlob(c, b)
    \/ Answer(c)
    \/ DeleteManifest(c) \/ ForgetManifest(c)
    \/ \E t \in Tags : DeleteTag(c, t)
    \/ ForgetTag(c) \/ Deleted(c)

HandleBlob(c) ==
    \/ HeadBlob(c) \/ PutBlob(c) \/ TouchBlob(c)
    \/ DeleteBlob(c) \/ ForgetBlob(c)

Progress(c) == Collect(c) \/ HandleManifest(c) \/ HandleBlob(c)

Next ==
    \/ Tick
    \/ \E c \in Clients, r \in Requests : Arrive(c, r)
    \/ \E c \in Clients : Progress(c)

\* A request that arrived is served to its end; a Go mutex starves nobody, so a
\* step that waits for the collector's lock is strongly fair.
Spec == Init /\ [][Next]_vars /\ \A c \in Clients : SF_vars(Progress(c))

-----------------------------------------------------------------------------
(***************************************************************************)
(* Properties.                                                             *)
(***************************************************************************)

Labels == {"idle", "collect", "marktags", "sweep", "untagswept", "report", "prune",
           "check", "store", "settag", "resolve", "touch", "touchtag", "touchblobs",
           "delete", "forget", "untag", "forgettag",
           "headblob", "putblob", "touchblob", "deleteblob", "forgetblob"}

\* The registry's state is well formed, and a client that sweeps holds the
\* collector's lock.
TypeOK ==
    /\ held \subseteq Manifests
    /\ tag \in [Tags -> Manifests \cup {NoManifest}]
    /\ content \subseteq Blobs
    /\ mAge \in [Manifests -> Ages]
    /\ tAge \in [Tags -> Ages]
    /\ bAge \in [Blobs -> Ages]
    /\ sinceSweep \in 0..Interval
    /\ pc \in [Clients -> Labels]
    /\ \A c \in Clients : pc[c] \in {"marktags", "sweep", "untagswept"} => lock = c
    /\ pending \in [Clients -> SUBSET Blobs]
    /\ untag \in [Clients -> SUBSET Tags]
    /\ used \in [Manifests \cup Blobs -> Ages]
    /\ deleted \subseteq Manifests \cup Blobs

\* What a client pushed or pulled within the TTL is still held, unless a client
\* deleted it ("TTL is how long a manifest or blob is kept after it was last used").
UsedManifestIsKept ==
    \A m \in Manifests : used[m] # Untracked /\ Fresh(used[m], TTL) => m \in held \cup deleted

\* The same for blobs, whose content New's callback prunes after a sweep
\* ("skipping any blob a concurrent request has since brought back").
UsedBlobIsKept ==
    \A b \in Blobs : used[b] # Untracked /\ Fresh(used[b], TTL) => b \in content \cup deleted


\* What can be pulled can be pulled completely, except for what a client deleted
\* and what a sweep in progress is taking: a held index has every manifest it
\* lists (issue #695: "an index that resolves over a child that is gone"), a held
\* image has its blobs however old they are, and between requests a tag resolves.
KeptIsComplete ==
    /\ TypeOK
    /\ \A m \in held \ sweep.todo :
          Lists[m] \subseteq held \cup deleted /\ Layers[m] \subseteq content \cup deleted
    /\ (\A c \in Clients : pc[c] = "idle") =>
          \A t \in Tags : tag[t] # NoManifest => tag[t] \in held

\* A sweep removes a referrer only when its subject is not held or goes in the
\* same sweep: a signature is not swept out from under the image it describes.
ReferrerStaysWithSubject ==
    [][\A c \in Clients, m \in Manifests :
          (SweepManifest(c, m) /\ m \in held) => Subject[m] \notin held \ sweep.todo]_vars

=============================================================================
