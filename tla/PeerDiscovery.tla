--------------------------- MODULE PeerDiscovery ---------------------------
(***************************************************************************)
(* How a gateway learns who its peers are (pkg/serve/gateway/peers.go):    *)
(* it lists the EndpointSlices of its Service, watches them from the       *)
(* version of the list, and lists again when the watch ends.               *)
(*                                                                         *)
(* The API server keeps a history of the slices; a watch delivers the      *)
(* changes after the version it was opened at, until it ends, fails or     *)
(* goes silent.  An endpoint is [url, id, ready, terminating].             *)
(***************************************************************************)
EXTENDS Integers, Sequences, FiniteSets

CONSTANTS
    SliceNames,
    SliceStates,   \* what a slice may hold: sets of endpoints; {} when there is no slice
    Self,          \* selfName
    MaxChanges,
    MaxFailures    \* how often the API server refuses or drops a request

VARIABLES
    history,   \* the slices at every version: a sequence of slice -> endpoints
    seen,      \* the version the gateway's slices are of
    slices,    \* slice -> the peers of it
    peers,     \* the set published: one [url, id, ready] of each URL
    settled,
    mode,      \* "list", "watch" or "backoff"
    silent,    \* whether the watch is open and delivers nothing any more
    failures

\* The endpoints of a slice as peers: not this instance, none that is shutting down.
peersOf(endpoints) ==
    {[url |-> e.url, id |-> e.id, ready |-> e.ready] :
        e \in {x \in endpoints : ~x.terminating /\ x.id # Self}}

\* publish: the peers of all slices, one of each URL; of two the sort and the compaction
\* keep either.
Flat(known) == UNION {known[s] : s \in SliceNames}
Published(known, set) ==
    /\ set \subseteq Flat(known)
    /\ \A p \in Flat(known) : Cardinality({q \in set : q.url = p.url}) = 1

-----------------------------------------------------------------------------
\* The control plane changes a slice.
Change(s, endpoints) ==
    /\ Len(history) <= MaxChanges /\ history[Len(history)][s] # endpoints
    /\ history' = Append(history, [history[Len(history)] EXCEPT ![s] = endpoints])
    /\ UNCHANGED <<seen, slices, peers, settled, mode, silent, failures>>

\* list, and the watch opened from its version.
List(set) ==
    /\ mode = "list"
    /\ seen' = Len(history)
    /\ slices' = [s \in SliceNames |-> peersOf(history[Len(history)][s])]
    /\ Published(slices', set) /\ peers' = set
    /\ settled' = TRUE /\ mode' = "watch" /\ silent' = FALSE
    /\ UNCHANGED <<history, failures>>

\* retry: the slices known stay, and the loop sleeps.
Fail ==
    /\ mode \in {"list", "watch"} /\ failures < MaxFailures
    /\ failures' = failures + 1 /\ mode' = "backoff" /\ silent' = FALSE
    /\ UNCHANGED <<history, seen, slices, peers, settled>>
Wake ==
    /\ mode = "backoff"
    /\ mode' = "list"
    /\ UNCHANGED <<history, seen, slices, peers, settled, silent, failures>>

Changed(v) == CHOOSE s \in SliceNames : history[v][s] # history[v + 1][s]

\* An ADDED, MODIFIED or DELETED event.
WatchEvent(set) ==
    /\ mode = "watch" /\ ~silent /\ seen < Len(history)
    /\ LET s == Changed(seen) IN slices' = [slices EXCEPT ![s] = peersOf(history[seen + 1][s])]
    /\ Published(slices', set) /\ peers' = set
    /\ seen' = seen + 1
    /\ UNCHANGED <<history, settled, mode, silent, failures>>

\* Something in the path wedges the connection.
FallSilent ==
    /\ mode = "watch" /\ ~silent /\ failures < MaxFailures
    /\ silent' = TRUE /\ failures' = failures + 1
    /\ UNCHANGED <<history, seen, slices, peers, settled, mode>>

\* The watch ends: the API server closes it at its timeout, or the deadline of the
\* context does.
WatchEnds ==
    /\ mode = "watch"
    /\ mode' = IF silent THEN "backoff" ELSE "list"
    /\ silent' = FALSE
    /\ UNCHANGED <<history, seen, slices, peers, settled, failures>>

Endpoints == UNION SliceStates
Candidates == {[url |-> e.url, id |-> e.id, ready |-> e.ready] : e \in Endpoints}

DiscoveryInit ==
    /\ history = <<[s \in SliceNames |-> {}]>> /\ seen = 1
    /\ slices = [s \in SliceNames |-> {}] /\ peers = {} /\ settled = FALSE
    /\ mode = "list" /\ silent = FALSE /\ failures = 0

Listing == \E set \in SUBSET Candidates : List(set)
Watching == \E set \in SUBSET Candidates : WatchEvent(set)
Run == Listing \/ Watching \/ WatchEnds \/ Wake
DiscoveryNext ==
    \/ Run \/ Fail \/ FallSilent
    \/ \E s \in SliceNames, endpoints \in SliceStates : Change(s, endpoints)

-----------------------------------------------------------------------------
DiscoveryTypeOK ==
    /\ seen \in 1..Len(history) /\ Len(history) <= MaxChanges + 1
    /\ peers \subseteq Candidates /\ settled \in BOOLEAN /\ silent \in BOOLEAN
    /\ mode \in {"list", "watch", "backoff"} /\ failures \in 0..MaxFailures

\* The URLs of the endpoints at a version that serve and are not this instance.
ServingAt(v) ==
    {e.url : e \in {x \in UNION {history[v][s] : s \in SliceNames} : ~x.terminating /\ x.id # Self}}

\* Through lists, watches and failures the peers are those of one version of the
\* Service, the last one heard of: no peer of a deleted slice lingers, and none is lost
\* when two slices name it and one goes.
PeersAreOfOneVersion ==
    /\ settled => {p.url : p \in peers} = ServingAt(seen)
    /\ ~settled => peers = {}
    /\ \A p, q \in peers : p.url = q.url => p = q

\* The peers are those of the Service as it is now.
PeersAreCurrent == {p.url : p \in peers} = ServingAt(Len(history))
=============================================================================
