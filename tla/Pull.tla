-------------------------------- MODULE Pull --------------------------------
(***************************************************************************)
(* The commands that download: img pull, download-blob, download-manifest.  *)
(* Each tries its registries in turn until one attempt succeeds.  img pull   *)
(* writes into a blob store (pkg/blobstore) and reads through a transport    *)
(* that serves a blob from memory or from that store before it asks the      *)
(* registry (pkg/transport/cachedblob).  The workers of an index are not     *)
(* waited for when one of them fails: they go on beside the next attempt.    *)
(***************************************************************************)
EXTENDS Naturals, Sequences, FiniteSets

CONSTANTS
    Manifests,   \* the manifests of the index; {} when the reference is an image
    Root,        \* the blob the reference names
    Config,      \* Config[m]: the config blob of an image
    Layers,      \* Layers[m]: its layers
    Sources,     \* the number of --registry or --source flags
    Concurrency, \* -j
    Modes,       \* the command lines: records [command, eager, airgapped]
    Announced,   \* the blobs whose length the registries announce
    MaxFailures, \* bound: network requests, and writes to the disk, that fail
    MaxCrashes   \* bound: the command is killed and run again on the same directory

VARIABLES
    mode, attempt, phase,
    file,     \* the files by digest: "absent", "torn" while it is written or since a
              \* crash, "partial" when this command failed to write it, or "whole"
    cache,    \* Transport.blobCache: the blobs in memory
    queue,    \* the jobs channel: jobs <<attempt, name>> no worker took
    todo,     \* todo[j]: the steps left of a job
    failed,   \* the jobs that returned an error
    failures, crashes

vars == <<mode, attempt, phase, file, cache, queue, todo, failed, failures, crashes>>

Images == IF Manifests = {} THEN {Root} ELSE Manifests
AllLayers == UNION {Layers[m] : m \in Images}
Blobs == {Root} \cup Images \cup {Config[m] : m \in Images} \cup AllLayers
Main == "main"
PullJobs == (1..Sources) \X ({Main} \cup Blobs)
Over == {"done", "failed"}

-----------------------------------------------------------------------------
\* What a job does, as steps <<step, blob>>.

\* Exists and os.WriteFile, which truncates before it writes.
WriteSmallWithDigest(d) == <<<<"exists", d>>, <<"create", d>>, <<"write", d>>>>

\* downloadImage stores the config.
downloadImage(m) == <<<<"get", Config[m]>>>> \o WriteSmallWithDigest(Config[m])

processManifest(m) == <<<<"get", m>>>> \o WriteSmallWithDigest(m) \o downloadImage(m)

\* downloadManifest; a reference that is no digest only fails.
downloadManifest == <<<<"get", Root>>>> \o WriteSmallWithDigest(Root)

\* downloadLayer and WriteLarge: the blob is whole when it gets its name.
downloadLayer(d) == <<<<"large", d>>>>

\* download-blob opens its output before it asks for the bytes.
downloadFromRegistry == <<<<"create", Root>>, <<"ask", Root>>, <<"write", Root>>>>

\* download-manifest has the bytes when it opens its output.
downloadManifestTo == <<<<"ask", Root>>, <<"create", Root>>, <<"write", Root>>>>

\* pullFromRegistry up to the jobs of the index or of the layers.
FirstSteps(m) ==
    IF m.command = "blob" THEN downloadFromRegistry
    ELSE IF m.command = "manifest" THEN downloadManifestTo
    ELSE IF Manifests = {} THEN downloadManifest \o downloadImage(Root)
    ELSE downloadManifest

-----------------------------------------------------------------------------
\* The transport.

\* serveFromCache and addToCache: memory, or a file that matches its digest.
serveFromCache(d) == d \in cache \/ file[d] = "whole"

\* A file that does not match is a fatal error: no registry is asked.
fatalCacheError(d) == ~serveFromCache(d) /\ file[d] \in {"torn", "partial"}

\* fallbackRoundTrip: the registry answers, or not; in airgapped mode it is not asked.
Network(ok) ==
    \/ ok /\ ~mode.airgapped /\ UNCHANGED failures
    \/ ~ok /\ mode.airgapped /\ UNCHANGED failures
    \/ ~ok /\ ~mode.airgapped /\ failures < MaxFailures /\ failures' = failures + 1

RoundTrip(d, ok) ==
    IF serveFromCache(d) THEN ok /\ UNCHANGED failures
    ELSE IF fatalCacheError(d) THEN ~ok /\ UNCHANGED failures
    ELSE Network(ok)

\* addToCache keeps the file it read, fallbackRoundTripAndCache an answer only if its
\* length was announced.
Keeps(d, ok) == IF ok /\ (d \in Announced \/ file[d] = "whole") THEN cache \cup {d} ELSE cache

\* A call that opens or writes a file succeeds, or the disk is full.
Disk(ok) ==
    \/ ok /\ UNCHANGED failures
    \/ ~ok /\ failures < MaxFailures /\ failures' = failures + 1

-----------------------------------------------------------------------------
\* A worker takes a job, and makes its steps.

Running(a) == {j \in PullJobs : j[1] = a /\ todo[j] # <<>>}

\* A worker that ends at an error.
TakeUnlessFailed(j) ==
    /\ phase \notin Over /\ j \in queue /\ \A k \in failed : k[1] # j[1]
    /\ Cardinality(Running(j[1])) < Concurrency
    /\ queue' = queue \ {j}
    /\ todo' = [todo EXCEPT ![j] = IF j[2] \in Manifests THEN processManifest(j[2])
                                   ELSE downloadLayer(j[2])]
    /\ UNCHANGED <<mode, attempt, phase, file, cache, failed, failures, crashes>>

Take(j) ==
    /\ phase \notin Over /\ j \in queue
    /\ Cardinality(Running(j[1])) < Concurrency
    /\ queue' = queue \ {j}
    /\ todo' = [todo EXCEPT ![j] = IF j[2] \in Manifests THEN processManifest(j[2])
                                   ELSE downloadLayer(j[2])]
    /\ UNCHANGED <<mode, attempt, phase, file, cache, failed, failures, crashes>>

\* The next step of job j is op, on Blob(j); the process is alive.
At(j, op) == phase \notin Over /\ todo[j] # <<>> /\ todo[j][1][1] = op
Blob(j) == todo[j][1][2]

Done(j, ok) ==
    /\ todo' = [todo EXCEPT ![j] = IF ok THEN Tail(@) ELSE <<>>]
    /\ failed' = IF ok THEN failed ELSE failed \cup {j}
    /\ UNCHANGED <<mode, attempt, phase, queue, crashes>>

Get(j, ok) ==
    /\ At(j, "get")
    /\ RoundTrip(Blob(j), ok)
    /\ cache' = Keeps(Blob(j), ok)
    /\ Done(j, ok) /\ UNCHANGED file

\* The download commands do not read through the cache.
Ask(j, ok) ==
    /\ At(j, "ask")
    /\ Network(ok)
    /\ Done(j, ok) /\ UNCHANGED <<file, cache>>

\* Exists: the two steps of the write are skipped.
Exists(j) ==
    /\ At(j, "exists")
    /\ todo' = [todo EXCEPT ![j] = SubSeq(@, IF file[Blob(j)] = "absent" THEN 2 ELSE 4, Len(@))]
    /\ UNCHANGED <<mode, attempt, phase, queue, crashes, file, cache, failed, failures>>

Create(j, ok) ==
    /\ At(j, "create")
    /\ Disk(ok)
    /\ file' = IF ok THEN [file EXCEPT ![Blob(j)] = "torn"] ELSE file
    /\ Done(j, ok) /\ UNCHANGED cache

\* A write that fails leaves what it wrote.  The bytes of download-blob come from the
\* network while they are written; the reader checks their digest at the end.
Write(j, ok) ==
    /\ At(j, "write")
    /\ IF mode.command = "blob" THEN Network(ok) ELSE Disk(ok)
    /\ file' = [file EXCEPT ![Blob(j)] = IF ok THEN "whole" ELSE "partial"]
    /\ Done(j, ok) /\ UNCHANGED cache

WriteLarge(j, ok) ==
    /\ At(j, "large")
    /\ RoundTrip(Blob(j), ok) \/ (~ok /\ Disk(ok))
    /\ file' = IF ok THEN [file EXCEPT ![Blob(j)] = "whole"] ELSE file
    /\ Done(j, ok) /\ UNCHANGED cache

-----------------------------------------------------------------------------
\* The main goroutine.

Idle(a) == Running(a) = {} /\ \A j \in queue : j[1] # a
Failed(a) == \E j \in failed : j[1] = a

Start(a, m) ==
    /\ attempt' = a /\ phase' = "main"
    /\ todo' = [todo EXCEPT ![<<a, Main>>] = FirstSteps(m)]

\* The loop over the registries, after an attempt that failed.
NextAttempt ==
    IF attempt < Sources THEN Start(attempt + 1, mode)
    ELSE phase' = "failed" /\ UNCHANGED <<attempt, todo>>

Submit(names, next) ==
    /\ phase' = next
    /\ queue' = queue \cup {<<attempt, n>> : n \in names}
    /\ UNCHANGED <<attempt, todo>>

AfterImages ==
    IF mode.command = "pull" /\ mode.eager THEN Submit(AllLayers, "layers")
    ELSE phase' = "done" /\ UNCHANGED <<attempt, todo, queue>>

\* downloadManifest and an image are the main goroutine's own.
MainEnds ==
    /\ phase = "main" /\ todo[<<attempt, Main>>] = <<>>
    /\ IF Failed(attempt) THEN NextAttempt /\ UNCHANGED queue
       ELSE IF mode.command = "pull" /\ Manifests # {} THEN Submit(Manifests, "index")
       ELSE AfterImages
    /\ UNCHANGED <<mode, file, cache, failed, failures, crashes>>

\* downloadIndex that takes the first result for the whole.
ReturnEarly ==
    /\ phase = "index"
    /\ IF Failed(attempt) THEN NextAttempt /\ UNCHANGED queue
       ELSE AfterImages
    /\ UNCHANGED <<mode, file, cache, failed, failures, crashes>>

\* downloadIndex returns at the first error, or when every worker is done.
downloadIndex ==
    /\ phase = "index"
    /\ IF Failed(attempt) THEN NextAttempt /\ UNCHANGED queue
       ELSE Idle(attempt) /\ AfterImages
    /\ UNCHANGED <<mode, file, cache, failed, failures, crashes>>

\* The pool of the layers is waited for.
LayersEnd ==
    /\ phase = "layers" /\ Idle(attempt)
    /\ IF Failed(attempt) THEN NextAttempt ELSE phase' = "done" /\ UNCHANGED <<attempt, todo>>
    /\ UNCHANGED <<mode, file, cache, queue, failed, failures, crashes>>

\* The command is killed, or ended, and is run once more on the directory it left.
Restart(m) ==
    /\ m.command = mode.command
    /\ crashes < MaxCrashes /\ crashes' = crashes + 1
    /\ mode' = m /\ attempt' = 1 /\ phase' = "main"
    /\ todo' = [j \in PullJobs |-> IF j = <<1, Main>> THEN FirstSteps(m) ELSE <<>>]
    /\ file' = [d \in Blobs |-> IF file[d] = "partial" THEN "torn" ELSE file[d]]
    /\ cache' = {} /\ queue' = {} /\ failed' = {}
    /\ UNCHANGED failures

Init ==
    /\ mode \in Modes /\ attempt = 1 /\ phase = "main"
    /\ file = [d \in Blobs |-> "absent"]
    /\ cache = {} /\ queue = {} /\ failed = {}
    /\ todo = [j \in PullJobs |-> IF j = <<1, Main>> THEN FirstSteps(mode) ELSE <<>>]
    /\ failures = 0 /\ crashes = 0

Step ==
    \/ \E j \in PullJobs : Take(j)
    \/ \E j \in PullJobs : Exists(j)
    \/ \E j \in PullJobs, ok \in BOOLEAN :
          Get(j, ok) \/ Ask(j, ok) \/ Create(j, ok) \/ Write(j, ok) \/ WriteLarge(j, ok)
    \/ MainEnds \/ downloadIndex \/ LayersEnd

Next == Step \/ \E m \in Modes : Restart(m)

Spec == Init /\ [][Next]_vars

-----------------------------------------------------------------------------
TypeOK ==
    /\ mode \in Modes /\ attempt \in 1..Sources
    /\ phase \in {"main", "index", "layers"} \cup Over
    /\ file \in [Blobs -> {"absent", "torn", "partial", "whole"}]
    /\ cache \subseteq Blobs /\ queue \cup failed \subseteq PullJobs
    /\ DOMAIN todo = PullJobs
    /\ failures \in 0..MaxFailures /\ crashes \in 0..MaxCrashes

Needed ==
    IF mode.command # "pull" THEN {Root}
    ELSE {Root} \cup Images \cup {Config[m] : m \in Images}
            \cup (IF mode.eager THEN AllLayers ELSE {})

\* A stray worker of an earlier attempt was between truncating d and writing it.
StrayWriter(d) == \E j \in PullJobs : j[1] < attempt /\ todo[j] # <<>> /\ todo[j][1] = <<"write", d>>

\* A command that reports success leaves every blob it was asked for, whole, also when
\* an earlier command left torn files: those are noticed and fail the pull.  Two files of
\* img pull may be torn all the same: one that the worker of a failed attempt holds open,
\* which the end of the process tears, and one that this very command failed to write,
\* since Exists finds it in the next attempt, which has the bytes from the memory of the
\* transport (Exists, os.WriteFile, downloadIndex).  Layers, and the output of the
\* download commands, are whole.
PullIsSound ==
    phase = "done" => \A d \in Needed :
        \/ file[d] = "whole"
        \/ /\ mode.command = "pull" /\ d \notin AllLayers
           /\ file[d] = "partial" \/ (StrayWriter(d) /\ file[d] = "torn")

==============================================================================
