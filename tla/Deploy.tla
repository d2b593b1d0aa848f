------------------------------- MODULE Deploy -------------------------------
(***************************************************************************)
(* What "img deploy" does to a registry and a daemon, as a command         *)
(* (DeployWithExtras) or for a request of the persistent worker            *)
(* (processRequest).  A deploy is a sequence of stages; the tasks of a     *)
(* stage run concurrently up to the limit of their lane (errgroup.SetLimit *)
(* or a loop), a task that fails cancels its stage and ends the deploy.    *)
(*                                                                         *)
(* What the outside holds is a set of facts <<kind, place, name, image>>:  *)
(*    blob       a layer in a repository        tag     a tag of a repo    *)
(*    manifest   an image in a repository       loaded  a name in a daemon *)
(*    signature  of an image, in a repository   committed  a CAS registry  *)
(*                                                                         *)
(* An operation is a record of cmd, registry, repo, tags, image, sign      *)
(* ("no", "best_effort", "yes") and dedup (its deduplicated_push).  The    *)
(* rest of the deduplicated push is the module DedupPush; command lines    *)
(* that name a directory sink are LayoutSink's.                            *)
(***************************************************************************)
EXTENDS Integers, Sequences, FiniteSets, SequencesExt

CONSTANTS
    Jobs,           \* --jobs
    Layers,         \* of each image: the set of its layers
    RequestFiles,   \* of each file name: a record of the operations and the settings it holds
    CommandLines    \* [worker, args (a sequence of flags and values), blobCache, force (--sign_force), dedup (the worker's --deduplicated-push)]

VARIABLES
    line,      \* the command line
    stages,    \* the stages left, the first one under way
    active,    \* the tasks under way
    cancelled, \* the context of the stage is cancelled
    facts,     \* what the registry and the daemon hold
    exit       \* "parsing", "running", "ok" or "error"

vars == <<line, stages, active, cancelled, facts, exit>>

None == ""

------------------------------------------------------------------------------
(* Arguments and request files. *)

NoOptions == [files |-> <<>>, registry |-> None, repo |-> None, sink |-> None, dedup |-> None, tags |-> {}, ok |-> TRUE]

DedupModes == {None, "enabled", "best_effort", "disabled"}

\* parseWorkerArgs, and the flag set of the command: request files and tags accumulate,
\* the last value of the other flags wins, a value that is no mode is an error. A work
\* request has no extra tags and may not name a directory sink.
Parse(worker, args) ==
    LET Set(o, a) ==
          IF a[1] = "--request-file" THEN [o EXCEPT !.files = Append(@, a[2])]
          ELSE IF a[1] = "--registry" THEN [o EXCEPT !.registry = a[2]]
          ELSE IF a[1] = "--repository" THEN [o EXCEPT !.repo = a[2]]
          ELSE IF a[1] = "--deduplicated-push" THEN [o EXCEPT !.dedup = a[2], !.ok = @ /\ a[2] \in DedupModes]
          ELSE IF a[1] = "--tag" /\ ~worker THEN [o EXCEPT !.tags = @ \cup {a[2]}]
          ELSE IF a[1] = "--sink" THEN [o EXCEPT !.sink = a[2], !.ok = @ /\ ~(worker /\ a[2] \in {"oci", "distribution", "distribution-flat"})]
          ELSE o
        parsed == FoldLeft(Set, NoOptions, args)
    IN [parsed EXCEPT !.ok = @ /\ parsed.files # <<>>]

opts == Parse(line.worker, line.args)

\* mergeRequestFiles: the operations of all files, the settings of the last.
Operations == FlattenSeq([i \in DOMAIN opts.files |-> RequestFiles[opts.files[i]].operations])
Settings == RequestFiles[Last(opts.files)].settings

Ops(cmd) == {o \in ToSet(Operations) : o.cmd = cmd}

Or(override, value) == IF override # None THEN override ELSE value

\* Where an operation goes (tags, opRegistry, opRepository): a load that names no
\* repository is left alone.
Place(op) ==
    IF op.cmd = "load" /\ op.repo = None THEN <<None, None>>
    ELSE <<Or(opts.registry, op.registry), Or(opts.repo, op.repo)>>

\* dedupFlags.or and dedupSelector: the request's mode, else the worker's, else the operation's.
Dedup(op) == Or(opts.dedup, Or(line.dedup, op.dedup)) \in {"enabled", "best_effort"}

------------------------------------------------------------------------------
(* The stages. A task is what it adds, its lane, and whether its failure is ignored. *)

Task(lane, kind, place, name, image) ==
    [lane |-> lane, fact |-> <<kind, place, name, image>>, optional |-> FALSE]

NoStage == {}

\* validateDeduplicatedPush, the missing endpoint of a CAS registry, nothing to do, and
\* "no pusher" are found before any request is made: such a deploy fails at once.
Refused ==
    \/ ~opts.ok
    \/ (\E op \in Ops("push") \cup Ops("registry_tag") : Dedup(op)) /\ Settings.pushStrategy \in {"bes", "cas_registry"}
    \/ ~line.worker /\ Ops("push") # {} /\ Settings.pushStrategy = "cas_registry" /\ ~line.blobCache
    \/ ~line.worker /\ Operations = <<>>

\* preUploadStagingBlobs for stagingPushOperations.
Staging ==
    IF line.worker \/ Settings.blobRepository = None \/ Settings.forbidLayerPush THEN NoStage
    ELSE {Task("upload", "blob", <<Or(opts.registry, op.registry), Settings.blobRepository>>, l, op.image)
            : <<op, l>> \in {x \in Ops("push") \X UNION {Layers[i] : i \in DOMAIN Layers} :
                               ~Dedup(x[1]) /\ x[2] \in Layers[x[1].image]}}

\* uploader.PushAll: the digest and every tag of every operation, each a push of its own.
\* Under cas_registry the blobs are committed first; under bes nothing is pushed.
Pushes ==
    IF Settings.pushStrategy = "bes" THEN NoStage
    ELSE UNION {{Task("push", "manifest", Place(op), None, op.image)}
                \cup {Task("push", "tag", Place(op), t, op.image) : t \in (op.tags \cup opts.tags) \ {None}} : op \in Ops("push")}

Commits == IF Settings.pushStrategy = "cas_registry" /\ Ops("push") # {}
             THEN {Task("commit", "committed", <<None, None>>, None, None)} ELSE NoStage

\* A load that names no repository has full references for tags; --tag adds one of its own.
Loads == UNION {{Task("load", "loaded", Place(op), t, op.image) : t \in op.tags \cup opts.tags} : op \in Ops("load")}

\* forEachSignature, one operation after the other. Under bes there is no pusher.
Signs(op) == op.sign # "no" \/ line.force
Signatures ==
    IF line.worker THEN NoStage
    ELSE {[Task("sign", "signature", Place(op), None, op.image) EXCEPT !.optional = (op.sign = "best_effort")]
            : op \in {o \in Ops("push") : Signs(o)}}

\* applyRegistryTagOperations, registryTagOps.
Tags ==
    IF Settings.pushStrategy = "bes" THEN NoStage
    ELSE UNION {{Task("tag", "tag", Place(op), t, op.image) : t \in op.tags} : op \in Ops("registry_tag")}

\* The worker pushes (pushOps), then tags (registryTagOps); then it loads.
WorkerRegistryStages == <<Commits \cup Pushes, Tags>>
WorkerStages == Append(WorkerRegistryStages, Loads)


\* The order of the stages: tags and signatures come after every push.
Stages == IF line.worker THEN WorkerStages
          ELSE <<Staging, Commits \cup Pushes \cup Loads, Signatures, Tags>>

Limit(lane) == IF lane \in {"upload", "push", "tag"} THEN Jobs ELSE 1

------------------------------------------------------------------------------

Init ==
    /\ line \in CommandLines
    /\ stages = <<>> /\ active = {} /\ cancelled = FALSE
    /\ facts = {} /\ exit = "parsing"

\* The plan is made, or refused.
Begin ==
    /\ exit = "parsing"
    /\ IF Refused THEN exit' = "error" /\ stages' = <<>> ELSE exit' = "running" /\ stages' = Stages
    /\ UNCHANGED <<line, active, cancelled, facts>>

Running == exit = "running"
Waiting == IF stages = <<>> THEN {} ELSE Head(stages)

\* A lane has room. What is pushed waits for what is committed. A task may still start
\* once the context is cancelled: it then fails.
Start(t) ==
    /\ Running /\ t \in Waiting
    /\ Cardinality({a \in active : a.lane = t.lane}) < Limit(t.lane)
    /\ t.lane = "push" => \A c \in Waiting \cup active : c.lane # "commit"
    /\ active' = active \cup {t}
    /\ stages' = [stages EXCEPT ![1] = @ \ {t}]
    /\ UNCHANGED <<line, cancelled, facts, exit>>

\* What a push leaves behind: the image with its layers, and the tag moved to it.
Effect(f) ==
    LET image == {<<"manifest", f[2], None, f[4]>>} \cup {<<"blob", f[2], l, f[4]>> : l \in Layers[f[4]]}
    IN IF f[1] = "manifest" THEN facts \cup image
       ELSE IF f[1] = "tag" THEN {g \in facts : <<g[1], g[2], g[3]>> # <<"tag", f[2], f[3]>>} \cup image \cup {f}
       ELSE IF f[1] = "loaded" THEN {g \in facts : <<g[1], g[2], g[3]>> # <<"loaded", f[2], f[3]>>} \cup {f}
       ELSE facts \cup {f}

\* The worker has no client for a CAS registry, and no signature can be pushed under bes.
Impossible(t) == (t.lane = "commit" /\ line.worker) \/ (t.lane = "sign" /\ Settings.pushStrategy = "bes")

Succeed(t) ==
    /\ Running /\ t \in active /\ ~Impossible(t)
    /\ active' = active \ {t}
    /\ facts' = Effect(t.fact)
    /\ UNCHANGED <<line, stages, cancelled, exit>>

\* A request fails or is cancelled. The remaining tasks of the lane's group still run, or
\* fail, before g.Wait returns; a sequential lane starts nothing more.
Fail(t) ==
    /\ Running /\ t \in active
    /\ active' = active \ {t}
    /\ cancelled' = (cancelled \/ ~t.optional)
    /\ stages' = [stages EXCEPT ![1] = IF t.optional THEN @ ELSE {u \in @ : Limit(u.lane) > 1 /\ t.lane # "commit"}]
    /\ UNCHANGED <<line, facts, exit>>

\* g.Wait: the next stage, the end, or the error.
StageEnds ==
    /\ Running /\ active = {} /\ Waiting = {}
    /\ IF cancelled THEN exit' = "error" /\ stages' = <<>>
       ELSE IF stages = <<>> THEN exit' = "ok" /\ UNCHANGED stages
       ELSE stages' = Tail(stages) /\ UNCHANGED exit
    /\ UNCHANGED <<line, active, cancelled, facts>>

Proceed == Begin \/ StageEnds \/ (\E t \in Waiting \cup active : Start(t) \/ Succeed(t) \/ Fail(t))

Spec == Init /\ [][Proceed]_vars /\ WF_vars(Proceed)

------------------------------------------------------------------------------
(* Correctness. *)

\* A deploy that succeeds has done everything it was asked for: each reference names its
\* image, or one that another operation gave the same reference; nothing points at an
\* image its repository does not hold.
Holds(kind, place, name, image) ==
    \/ <<kind, place, name, image>> \in facts
    \/ \E o \in ToSet(Operations) \ {p \in ToSet(Operations) : p.image = image} :
         Place(o) = place /\ <<kind, place, name, o.image>> \in facts

Pushed(op) ==
    /\ <<"manifest", Place(op), None, op.image>> \in facts
    /\ \A t \in op.tags \cup opts.tags : Holds("tag", Place(op), t, op.image)
    /\ ~line.worker /\ (op.sign = "yes" \/ (op.sign = "no" /\ line.force)) =>
         <<"signature", Place(op), None, op.image>> \in facts

SuccessIsComplete ==
    exit = "ok" =>
      /\ Settings.pushStrategy # "bes" => (\A op \in Ops("push") : Pushed(op))
                                          /\ \A op \in Ops("registry_tag") : \A t \in op.tags : Holds("tag", Place(op), t, op.image)
      /\ \A op \in Ops("load") : \A t \in op.tags \cup opts.tags : Holds("loaded", Place(op), t, op.image)

\* A tag that only a registry_tag operation gives, and a signature, follow the pushes of
\* all operations: they appear when every image is in its place.
OnlyTagOp(f) == f[1] = "tag" /\ \A op \in Ops("push") : ~(Place(op) = f[2] /\ f[3] \in op.tags \cup opts.tags)

LateIsLast ==
    exit # "parsing" => \A f \in facts : f[1] = "signature" \/ OnlyTagOp(f) =>
        \A op \in Ops("push") : <<"manifest", Place(op), None, op.image>> \in facts

TypeOK ==
    /\ line \in CommandLines /\ cancelled \in BOOLEAN
    /\ exit \in {"parsing", "running", "ok", "error"}
    /\ \A t \in active : Cardinality({u \in active : u.lane = t.lane}) <= Limit(t.lane)


=============================================================================
