----------------------------- MODULE DedupPush -----------------------------
(***************************************************************************)
(* The deduplicated push of the deploy command, as the persistent worker   *)
(* runs it: requests that are planned on their own share the homes of      *)
(* blobs through one cache.                                                *)
(*                                                                         *)
(*   cmd/deploy/dedup_push.go       existence check, plan, uploads, push   *)
(*   cmd/deploy/dedup_locations.go  blobLocations                          *)
(*                                                                         *)
(* There is one registry, whose blob store is per repository.  A           *)
(* repository is a number, ordered as its name is, and 0 is the empty      *)
(* name.  Everything under blobLocations.mu is one step, and so is an      *)
(* upload or the push of one manifest as the registry sees it.             *)
(***************************************************************************)
EXTENDS Naturals, FiniteSets

CONSTANTS
    Requests,        \* work requests, each with a deploy manifest of its own
    Blobs,           \* layers
    Repositories,    \* positive numbers
    Deploys,         \* what the requests may be about: records with the fields
                     \*   work    the manifests a request writes (dedupWorkingSet)
                     \*   served  those the registry serves to begin with
                     \*   mounts  what the registry lets a cross-mount take: whatever is
                     \*           stored, what a manifest references, or nothing
                     \*   blobRepository  Settings.BlobRepository, or 0
                     \*   incremental     blobLocations.incremental
    Jobs,            \* --jobs
    MaxFailures      \* bound on failing operations and cancelled requests

\* A manifestDestination, with the upstream repository recorded for each layer.
IsManifest(m) ==
    /\ m.repository \in Repositories /\ m.home \in Repositories \cup {0}
    /\ m.layers \subseteq Blobs
    /\ m.upstream \in [m.layers -> Repositories \cup {0}]
    /\ {m.artificial, m.lenient} \subseteq BOOLEAN

\* What the constants must be for the model to make sense.
ConstantsFit ==
    /\ Repositories \subseteq Nat \ {0}
    /\ Jobs \in Nat \ {0} /\ MaxFailures \in Nat
    /\ \A d \in Deploys :
          /\ d.blobRepository \in Repositories \cup {0} /\ d.incremental \in BOOLEAN
          /\ \A r \in Requests : \A m \in d.work[r] : IsManifest(m)

VARIABLES
    deploy,     \* the element of Deploys (never changes)
    present,    \* blobLocations.present
    inflight,   \* blobLocations.inflight
    flights,    \* blobLocations.flights: the request that performs an upload, or none
    pc,         \* where a request is
    found,      \* what its existence check found
    todo,       \* blobs that are still to be resolved
    plan,       \* its dedupPlan
    up,         \* where the goroutine of each of its uploads is
    stopped,    \* requests whose context is done: cancelled, or an upload failed
    erred,      \* requests whose errgroup holds an error
    abandoned,  \* uploads given up without failing the request
    stored,     \* the registry: blobs of each repository
    referenced, \* the registry: those of them that a manifest references
    served,     \* the registry: manifests
    failures,   \* failures and cancellations so far
    hurt,       \* history: requests that were cancelled or one of whose own operations failed
    sent        \* history: how often the bytes of a blob went to the registry, up to 2

cacheVars == <<present, inflight, flights>>
requestVars == <<pc, found, todo, plan, up, stopped, erred, abandoned>>
registryVars == <<stored, referenced, served>>
historyVars == <<failures, hurt, sent>>
vars == <<deploy, cacheVars, requestVars, registryVars, historyVars>>

NoMount == [repository |-> 0, kind |-> "none"]
NoPlan == [sources |-> [b \in Blobs |-> 0], mountOnly |-> {}, joined |-> {}]
Nobody == "nobody"

Init ==
    /\ deploy \in Deploys
    /\ present = [b \in Blobs |-> NoMount]
    /\ inflight = [b \in Blobs |-> NoMount]
    /\ flights = [t \in Repositories \X Blobs |-> Nobody]
    /\ pc = [r \in Requests |-> "idle"]
    /\ found = [r \in Requests |-> {}]
    /\ todo = [r \in Requests |-> {}]
    /\ plan = [r \in Requests |-> NoPlan]
    /\ up = [r \in Requests |-> [b \in Blobs |-> "none"]]
    /\ stopped = {}
    /\ erred = {}
    /\ abandoned = [r \in Requests |-> {}]
    /\ served = deploy.served
    /\ stored = [p \in Repositories |-> UNION {m.layers : m \in {x \in served : x.repository = p}}]
    /\ referenced = stored
    /\ failures = 0
    /\ hurt = {}
    /\ sent = [b \in Blobs |-> 0]

Smallest(s) == CHOOSE p \in s : \A q \in s : p <= q

-----------------------------------------------------------------------------
(* What a request knows about a blob: blobNeed and confirmed in            *)
(* planDedupPush.                                                          *)

Missing(r) == deploy.work[r] \ found[r]
Wanting(r, b) == {m \in Missing(r) : b \in m.layers}

Needing(r, b) == {m.repository : m \in Wanting(r, b)}
Confirmed(r, b) == {m.repository : m \in {x \in found[r] : b \in x.layers}}

\* The upstream repository the destinations agree on.
Upstream(r, b) ==
    LET named == {m.upstream[b] : m \in Wanting(r, b)}
    IN IF Cardinality(named) = 1 THEN Smallest(named) ELSE 0

\* pickHome: the smallest repository that is pinned.
Home(r, b) ==
    LET pinned == {m.home : m \in Wanting(r, b)} \ {0}
    IN IF pinned = {} THEN 0 ELSE Smallest(pinned)

Artificial(r, b) == \E m \in Wanting(r, b) : m.artificial
Lenient(r, b) == \E m \in Wanting(r, b) : m.lenient

MountedInto(r, b, home) == Needing(r, b) \ {home}

\* resolveBlobMount, for a blob that some repository needs.
resolveBlobMount(r, b) ==
    LET pinnedHome == Home(r, b)
        confirmed == Confirmed(r, b)
        upstream == Upstream(r, b)
        mount == IF pinnedHome # 0 THEN [repository |-> pinnedHome, kind |-> "upload"]
                 ELSE IF confirmed # {} THEN [repository |-> Smallest(confirmed), kind |-> "confirmed"]
                 ELSE IF upstream # 0 THEN [repository |-> upstream, kind |-> "upstream"]
                 ELSE IF deploy.blobRepository # 0 THEN [repository |-> deploy.blobRepository, kind |-> "upload"]
                 ELSE [repository |-> Smallest(Needing(r, b)), kind |-> "upload"]
    IN IF ~deploy.incremental /\ MountedInto(r, b, mount.repository) = {} THEN NoMount ELSE mount

-----------------------------------------------------------------------------
(* Existence check and plan.                                               *)

Fail(r) == pc' = [pc EXCEPT ![r] = "failed"]

\* A failure of an operation that request r performs.
Failing(r) ==
    /\ r \in stopped \/ failures < MaxFailures
    /\ failures' = IF r \in stopped THEN failures ELSE failures + 1
    /\ hurt' = hurt \cup {r}

\* findPresentManifests: a destination that denies access counts as absent.
Check(r) ==
    /\ pc[r] = "idle"
    /\ UNCHANGED <<deploy, cacheVars, registryVars, plan, up, stopped, erred, abandoned, sent>>
    /\ \/ /\ r \notin stopped
          /\ \E here \in SUBSET (deploy.work[r] \cap served) :
                /\ found' = [found EXCEPT ![r] = here]
                /\ todo' = [todo EXCEPT ![r] = UNION {m.layers : m \in deploy.work[r] \ here}]
          /\ pc' = [pc EXCEPT ![r] = "plan"]
          /\ UNCHANGED <<failures, hurt>>
       \/ Failing(r) /\ Fail(r) /\ UNCHANGED <<found, todo>>

\* homeAllowed
homeAllowed(r, b, mount) ==
    /\ mount # NoMount
    /\ Home(r, b) \in {0, mount.repository}

\* A blob that must be mounted from the home this process puts it in.
Insists(r, b, mount) ==
    /\ mount.kind = "upload"
    /\ MountedInto(r, b, mount.repository) # {}
    /\ ~Lenient(r, b)

\* blobLocations.resolve, and what planDedupPush makes of the answer.
Resolve(r, b) ==
    LET reused == homeAllowed(r, b, present[b])
        joined == ~reused /\ homeAllowed(r, b, inflight[b])
        mount == IF reused THEN present[b] ELSE IF joined THEN inflight[b] ELSE resolveBlobMount(r, b)
        uploads == mount.kind = "upload" /\ ~reused
    IN /\ pc[r] = "plan" /\ b \in todo[r]
       /\ todo' = [todo EXCEPT ![r] = @ \ {b}]
       /\ present' = IF reused \/ joined \/ mount = NoMount \/ uploads THEN present
                     ELSE [present EXCEPT ![b] = mount]
       /\ inflight' = IF uploads /\ ~joined THEN [inflight EXCEPT ![b] = mount] ELSE inflight
       /\ plan' = [plan EXCEPT
             ![r].sources[b] = mount.repository,
             ![r].mountOnly = IF Insists(r, b, mount) THEN @ \cup {b} ELSE @,
             ![r].joined = IF joined THEN @ \cup {b} ELSE @]
       /\ up' = IF uploads THEN [up EXCEPT ![r][b] = "pending"] ELSE up
       /\ UNCHANGED <<deploy, flights, pc, found, stopped, erred, abandoned, registryVars, historyVars>>

\* blobLocations.seedConfirmed, after which the uploads begin.
Seed(r) ==
    /\ pc[r] = "plan" /\ todo[r] = {}
    /\ present' = [b \in Blobs |->
          IF present[b] = NoMount /\ inflight[b] = NoMount /\ Confirmed(r, b) # {}
          THEN [repository |-> Smallest(Confirmed(r, b)), kind |-> "confirmed"]
          ELSE present[b]]
    /\ pc' = [pc EXCEPT ![r] = "upload"]
    /\ UNCHANGED <<deploy, inflight, flights, found, todo, plan, up, stopped, erred, abandoned, registryVars, historyVars>>

-----------------------------------------------------------------------------
(* uploadDedupBlobs: one goroutine for each upload, Jobs at a time.        *)

Target(r, b) == <<plan[r].sources[b], b>>

Running(r) == {b \in Blobs : up[r][b] \in {"entering", "waiting", "leading", "sending", "landed", "error"}}

\* g.Go, which blocks while the limit is reached.
Go(r, b) ==
    /\ pc[r] = "upload" /\ up[r][b] = "pending"
    /\ Cardinality(Running(r)) < Jobs
    /\ up' = [up EXCEPT ![r][b] = "entering"]
    /\ UNCHANGED <<deploy, cacheVars, pc, found, todo, plan, stopped, erred, abandoned, registryVars, historyVars>>


\* uploadOnce under its mutex: wait for the flight there is, or be the one that flies.
uploadOnce(r, b) ==
    /\ up[r][b] = "entering"
    /\ IF flights[Target(r, b)] = Nobody
       THEN /\ flights' = [flights EXCEPT ![Target(r, b)] = r]
            /\ up' = [up EXCEPT ![r][b] = "leading"]
       ELSE /\ up' = [up EXCEPT ![r][b] = "waiting"]
            /\ UNCHANGED flights
    /\ UNCHANGED <<deploy, present, inflight, pc, found, todo, plan, stopped, erred, abandoned, registryVars, historyVars>>


\* The flight is withdrawn.  Who waits for it is done, or tries for itself.
Land(r, b, here, next) ==
    /\ flights' = [flights EXCEPT ![Target(r, b)] = Nobody]
    /\ up' = [q \in Requests |-> [c \in Blobs |->
          IF q = r /\ c = b THEN here
          ELSE IF up[q][c] = "waiting" /\ Target(q, c) = Target(r, b) THEN next
          ELSE up[q][c]]]

\* Bytes leave the process only for what the repository does not have.
Send(repository, blobs) ==
    LET new == blobs \ stored[repository]
    IN sent' = [b \in Blobs |-> IF b \in new /\ sent[b] < 2 THEN sent[b] + 1 ELSE sent[b]]

\* The pusher asks whether the repository has the blob, and sends it if not.
Head(r, b) ==
    /\ up[r][b] = "leading" /\ r \notin stopped
    /\ Send(plan[r].sources[b], {b})
    /\ up' = [up EXCEPT ![r][b] = "sending"]
    /\ UNCHANGED <<deploy, cacheVars, pc, found, todo, plan, stopped, erred, abandoned, registryVars, failures, hurt>>

Upload(r, b) ==
    /\ up[r][b] = "sending" /\ r \notin stopped
    /\ stored' = [stored EXCEPT ![plan[r].sources[b]] = @ \cup {b}]
    /\ referenced' = IF Artificial(r, b)
                     THEN [referenced EXCEPT ![plan[r].sources[b]] = @ \cup {b}] ELSE referenced
    /\ Land(r, b, "landed", "landed")
    /\ UNCHANGED <<deploy, present, inflight, pc, found, todo, plan, stopped, erred, abandoned, served, historyVars>>

\* The attempt fails, possibly after the blob got there and before its
\* artificial manifest did.
UploadFails(r, b) ==
    /\ up[r][b] \in {"leading", "sending"}
    /\ Failing(r)
    /\ \/ UNCHANGED stored
       \/ /\ up[r][b] = "sending" /\ r \notin stopped
          /\ stored' = [stored EXCEPT ![plan[r].sources[b]] = @ \cup {b}]
    /\ Land(r, b, "error", "entering")
    /\ UNCHANGED <<deploy, present, inflight, pc, found, todo, plan, stopped, erred, abandoned, referenced, served, sent>>

\* ctx.Done in uploadOnce
StopWaiting(r, b) ==
    /\ up[r][b] = "waiting" /\ r \in stopped
    /\ up' = [up EXCEPT ![r][b] = "error"]
    /\ UNCHANGED <<deploy, cacheVars, pc, found, todo, plan, stopped, erred, abandoned, registryVars, historyVars>>

Withdraw(b, home) ==
    inflight' = IF inflight[b].repository = home THEN [inflight EXCEPT ![b] = NoMount] ELSE inflight

\* blobLocations.promote
Promote(r, b) ==
    /\ up[r][b] = "landed"
    /\ Withdraw(b, plan[r].sources[b])
    /\ present' = [present EXCEPT ![b] = [repository |-> plan[r].sources[b], kind |-> "upload"]]
    /\ up' = [up EXCEPT ![r][b] = "settled"]
    /\ UNCHANGED <<deploy, flights, pc, found, todo, plan, stopped, erred, abandoned, registryVars, historyVars>>

\* The three ways to deal with an error, in the order of the cases.
Settle(r, b) ==
    LET joined == b \in plan[r].joined
        fatal == ~joined /\ ~Lenient(r, b)
        givenUp == ~fatal /\ r \notin stopped
    IN /\ up[r][b] = "error"
       /\ up' = [up EXCEPT ![r][b] = "settled"]
       /\ IF fatal \/ (givenUp /\ ~joined) THEN Withdraw(b, plan[r].sources[b]) ELSE UNCHANGED inflight
       /\ erred' = IF fatal THEN erred \cup {r} ELSE erred
       /\ stopped' = IF fatal THEN stopped \cup {r} ELSE stopped
       /\ abandoned' = IF givenUp THEN [abandoned EXCEPT ![r] = @ \cup {b}] ELSE abandoned
       /\ UNCHANGED <<deploy, present, flights, pc, found, todo, plan, registryVars, historyVars>>

\* g.Wait
Wait(r) ==
    /\ pc[r] = "upload"
    /\ \A b \in Blobs : up[r][b] \in {"none", "settled"}
    /\ pc' = [pc EXCEPT ![r] = IF r \in erred THEN "failed" ELSE "push"]
    /\ plan' = [plan EXCEPT ![r].mountOnly = @ \ abandoned[r]]
    /\ UNCHANGED <<deploy, cacheVars, found, todo, up, stopped, erred, abandoned, registryVars, historyVars>>

-----------------------------------------------------------------------------
(* The manifest push, by the registry client, out of the views of the plan:*)
(* a layer is skipped where the repository has it, mounted where the       *)
(* registry mounts it, and sent otherwise, unless it is mount-only.        *)

Mountable(r, b) ==
    /\ plan[r].sources[b] # 0
    /\ deploy.mounts = "stored" => b \in stored[plan[r].sources[b]]
    /\ deploy.mounts = "referenced" => b \in referenced[plan[r].sources[b]]
    /\ deploy.mounts # "nothing"

Unmounted(r, m) == {b \in m.layers \ stored[m.repository] : ~Mountable(r, b)}

Refused(r, m) == Unmounted(r, m) \cap plan[r].mountOnly # {}

PushManifest(r, m) ==
    /\ pc[r] = "push" /\ r \notin stopped
    /\ m \notin served /\ ~Refused(r, m)
    /\ Send(m.repository, Unmounted(r, m))
    /\ stored' = [stored EXCEPT ![m.repository] = @ \cup m.layers]
    /\ referenced' = [referenced EXCEPT ![m.repository] = @ \cup m.layers]
    /\ served' = served \cup {m}
    /\ UNCHANGED <<deploy, cacheVars, requestVars, failures, hurt>>

\* A mount-only layer whose bytes are asked for fails the push.
PushRefused(r, m) ==
    /\ pc[r] = "push" /\ r \notin stopped
    /\ m \notin served /\ Refused(r, m)
    /\ Fail(r)
    /\ UNCHANGED <<deploy, cacheVars, found, todo, plan, up, stopped, erred, abandoned, registryVars, historyVars>>

PushFails(r) ==
    /\ pc[r] = "push"
    /\ Failing(r)
    /\ Fail(r)
    /\ UNCHANGED <<deploy, cacheVars, found, todo, plan, up, stopped, erred, abandoned, registryVars, sent>>

Finish(r) ==
    /\ pc[r] = "push" /\ deploy.work[r] \subseteq served
    /\ pc' = [pc EXCEPT ![r] = "done"]
    /\ UNCHANGED <<deploy, cacheVars, found, todo, plan, up, stopped, erred, abandoned, registryVars, historyVars>>

\* The client cancels the work request.
Cancel(r) ==
    /\ pc[r] \notin {"done", "failed"} /\ r \notin stopped
    /\ failures < MaxFailures
    /\ failures' = failures + 1
    /\ hurt' = hurt \cup {r}
    /\ stopped' = stopped \cup {r}
    /\ UNCHANGED <<deploy, cacheVars, pc, found, todo, plan, up, erred, abandoned, registryVars, sent>>

Step(r) ==
    \/ Check(r) \/ Seed(r) \/ Wait(r) \/ Finish(r) \/ PushFails(r)
    \/ \E m \in deploy.work[r] : PushManifest(r, m) \/ PushRefused(r, m)
    \/ \E b \in Blobs :
          \/ Resolve(r, b) \/ Go(r, b) \/ uploadOnce(r, b) \/ Head(r, b) \/ Upload(r, b) \/ UploadFails(r, b)
          \/ StopWaiting(r, b) \/ Promote(r, b) \/ Settle(r, b)

Ended == \A r \in Requests : pc[r] \in {"done", "failed"}

Next ==
    \/ \E r \in Requests : Step(r) \/ Cancel(r)
    \/ Ended /\ UNCHANGED vars

Spec == Init /\ [][Next]_vars

-----------------------------------------------------------------------------
Mounts == [repository : Repositories \cup {0}, kind : {"none", "upload", "confirmed", "upstream"}]

\* The cache, the plans and the registry have their types, and a claim in
\* flight is always one to upload.
TypeOK ==
    /\ ConstantsFit
    /\ deploy \in Deploys
    /\ present \in [Blobs -> Mounts]
    /\ inflight \in [Blobs -> Mounts] /\ \A b \in Blobs : inflight[b].kind \in {"none", "upload"}
    /\ flights \in [Repositories \X Blobs -> Requests \cup {Nobody}]
    /\ pc \in [Requests -> {"idle", "plan", "upload", "push", "done", "failed"}]
    /\ \A r \in Requests : found[r] \subseteq deploy.work[r]
    /\ todo \in [Requests -> SUBSET Blobs]
    /\ plan \in [Requests -> [sources : [Blobs -> Repositories \cup {0}],
                              mountOnly : SUBSET Blobs, joined : SUBSET Blobs]]
    /\ up \in [Requests -> [Blobs ->
                  {"none", "pending", "entering", "waiting", "leading", "sending", "landed", "error", "settled"}]]
    /\ stopped \subseteq Requests /\ erred \subseteq Requests
    /\ abandoned \in [Requests -> SUBSET Blobs]
    /\ stored \in [Repositories -> SUBSET Blobs]
    /\ \A p \in Repositories : referenced[p] \subseteq stored[p]
    /\ \A m \in served : m.layers \subseteq referenced[m.repository]
    /\ failures \in 0..MaxFailures
    /\ hurt \subseteq Requests
    /\ sent \in [Blobs -> 0..2]

Strict(r) == \E b \in Blobs : Wanting(r, b) # {} /\ ~Lenient(r, b)

MountsSuffice ==
    \/ deploy.mounts = "stored"
    \/ /\ deploy.mounts = "referenced"
       /\ \A r \in Requests : \A m \in deploy.work[r] : m.artificial


Undirected == \A r \in Requests : \A m \in deploy.work[r] :
    m.home = 0 /\ \A b \in m.layers : m.upstream[b] = 0

\* While nothing fails and no destination pins a home or names an upstream,
\* the bytes of a blob leave the process once however the requests interleave,
\* and not at all where an existence check found it (dedup_locations.go:132).
BytesAreSentOnce ==
    Undirected /\ deploy.mounts = "stored" /\ failures = 0 => \A b \in Blobs : sent[b] <= 1

\* A claim in the cache has an upload behind it (dedup_locations.go:51), except
\* one that a cancelled best-effort request leaves.
ClaimsAreHeld ==
    /\ TypeOK
    /\ \A b \in Blobs : inflight[b] # NoMount =>
          \E r \in Requests :
              /\ plan[r].sources[b] = inflight[b].repository
              /\ \/ up[r][b] \in {"pending", "entering", "waiting", "leading", "sending", "landed", "error"}
                 \/ r \in stopped /\ Lenient(r, b)

\* A destination that pins the home of its blobs never mounts one of them from
\* a repository that another request filled (dedup_locations.go:127).
PinsAreHonoured ==
    \A r \in Requests : \A b \in Blobs :
        pc[r] \in {"upload", "push", "done"} /\ Home(r, b) # 0 =>
            plan[r].sources[b] = Home(r, b)


\* No request waits for ever: a waiter's leader is always at work in another
\* request, even when both may run one upload at a time (dedup_locations.go:276).
RequestsEnd == \A r \in Requests : <>(pc[r] \in {"done", "failed"})

=============================================================================
