------------------------------ MODULE RefGraph ------------------------------
(***************************************************************************)
(* img sync-oci-ref-graph (cmd/syncocirefgraph/syncocirefgraph.go): which  *)
(* blobs the pulled images consist of.  The manifests listed, then the     *)
(* manifests their indexes name, are taken from the facts of an earlier    *)
(* run or downloaded by a pool of workers from the sources of the image    *)
(* listed; the graph becomes the facts of the next run.                    *)
(***************************************************************************)
EXTENDS Integers, FiniteSets

CONSTANTS
    ContentOf,  \* digest -> [kind, refs]: the manifest with the digest; kind is "manifest",
                \* "index" or "unknown" (manifestKind)
    HasOf,      \* source -> the digests it has
    SourcesOf,  \* digest -> the sources of the image when it is listed
    ImageSets,  \* what the images files list
    NumWorkers,
    MaxRuns

VARIABLES
    facts,    \* the digests with an oci_ref_graph@ entry in the facts file
    images,   \* the digests listed
    graph,    \* ociRefGraph: digest -> entry
    jobs,     \* the jobs sent and not taken: [digest, img]
    working,  \* the jobs being done
    results,  \* the results collected: [digest, entry, error]
    fetched,  \* the digests this run asked sources for
    phase,    \* "idle", "top", "child", "failed" (exit 1) or "written"
    runs

graphVars == <<facts, images, graph, jobs, working, results, fetched, phase, runs>>

Entry(d) == ContentOf[d]
Merged(old, new) ==
    [d \in DOMAIN old \cup {r.digest : r \in new} |->
        IF d \in DOMAIN old THEN old[d] ELSE Entry(d)]

\* Phase 1: a job for every image listed.
Start(set) ==
    /\ phase \in {"idle", "written", "failed"} /\ runs < MaxRuns
    /\ runs' = runs + 1 /\ images' = set /\ phase' = "top"
    /\ jobs' = {[digest |-> d, img |-> d] : d \in set}
    /\ graph' = <<>> /\ working' = {} /\ results' = {} /\ fetched' = {}
    /\ UNCHANGED facts

\* A worker of downloadManifestsParallel takes a job.
TakeJob(job) ==
    /\ job \in jobs /\ Cardinality(working) < NumWorkers
    /\ jobs' = jobs \ {job} /\ working' = working \cup {job}
    /\ UNCHANGED <<facts, images, graph, results, fetched, phase, runs>>

\* downloadAndParseManifest for a digest of the facts.
Cached(job) ==
    /\ job \in working /\ job.digest \in facts
    /\ working' = working \ {job}
    /\ results' = results \cup {[digest |-> job.digest, entry |-> Entry(job.digest), error |-> FALSE]}
    /\ UNCHANGED <<facts, images, graph, jobs, fetched, phase, runs>>

\* downloadManifestFromSources: the first source that has the manifest and answers; the
\* sources are those of the image listed, also for a child of it.
Download(job, answering) ==
    /\ job \in working /\ job.digest \notin facts
    /\ answering \subseteq SourcesOf[job.img]
    /\ working' = working \ {job}
    /\ fetched' = fetched \cup {job.digest}
    /\ results' = results \cup
        {[digest |-> job.digest, entry |-> Entry(job.digest),
          error |-> \/ \A s \in answering : job.digest \notin HasOf[s]
                    \/ Entry(job.digest).kind = "unknown"]}
    /\ UNCHANGED <<facts, images, graph, jobs, phase, runs>>

AllDone == jobs = {} /\ working = {}

\* The children of the indexes of the graph it does not hold yet; a child of two indexes
\* is a job of each.
ChildJobs(g) ==
    UNION {{[digest |-> c, img |-> p] : c \in g[p].refs \ DOMAIN g} :
               p \in {q \in DOMAIN g : g[q].kind = "index"}}

\* The updated facts: exactly the graph.
Write(g) == facts' = DOMAIN g /\ phase' = "written"
Exit == phase' = "failed" /\ UNCHANGED <<facts, graph, jobs, results>>

\* Phase 2, after all the results of phase 1.
TopLevelDone ==
    /\ phase = "top" /\ AllDone
    /\ \/ (\E r \in results : r.error) /\ Exit
       \/ /\ \A r \in results : ~r.error
          /\ graph' = Merged(<<>>, results)
          /\ jobs' = ChildJobs(graph') /\ results' = {}
          /\ IF jobs' = {} THEN Write(graph') ELSE phase' = "child" /\ UNCHANGED facts
    /\ UNCHANGED <<images, working, fetched, runs>>

ChildrenDone ==
    /\ phase = "child" /\ AllDone
    /\ \/ (\E r \in results : r.error \/ r.entry.kind # "manifest") /\ Exit
       \/ /\ \A r \in results : ~r.error /\ r.entry.kind = "manifest"
          /\ graph' = Merged(graph, results)
          /\ Write(graph')
          /\ UNCHANGED <<jobs, results>>
    /\ UNCHANGED <<images, working, fetched, runs>>

GraphInit ==
    /\ facts = {} /\ images = {} /\ graph = <<>> /\ jobs = {} /\ working = {} /\ results = {}
    /\ fetched = {} /\ phase = "idle" /\ runs = 0
GraphStep ==
    \/ TopLevelDone \/ ChildrenDone
    \/ \E job \in jobs : TakeJob(job)
    \/ \E job \in working : Cached(job) \/ \E a \in SUBSET SourcesOf[job.img] : Download(job, a)
GraphNext == GraphStep \/ \E set \in ImageSets : Start(set)

-----------------------------------------------------------------------------
GraphTypeOK ==
    /\ facts \subseteq DOMAIN ContentOf /\ images \subseteq DOMAIN ContentOf
    /\ fetched \subseteq DOMAIN ContentOf /\ DOMAIN graph \subseteq DOMAIN ContentOf
    /\ phase \in {"idle", "top", "child", "failed", "written"} /\ runs \in 0..MaxRuns

Parts(set) == set \cup UNION {ContentOf[d].refs : d \in {x \in set : ContentOf[x].kind = "index"}}

\* The facts written hold the images listed and every manifest of their indexes, and
\* nothing else: what the repository rules then name as blobs is there.
FactsAreTheGraph == phase = "written" => facts = Parts(images) /\ DOMAIN graph = facts
\* A run over images whose facts are there asks no source for anything, whatever ran and
\* failed before it, and fails only over an index that names an index not listed.
SyncedIsOffline ==
    Parts(images) \subseteq facts /\ phase # "written" =>
        /\ fetched = {}
        /\ phase = "failed" => \E d \in Parts(images) \ images : ContentOf[d].kind = "index"
RefGraphIsClosed == FactsAreTheGraph /\ SyncedIsOffline
=============================================================================
