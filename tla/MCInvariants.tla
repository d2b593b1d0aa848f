---------------------------- MODULE MCInvariants ----------------------------
(***************************************************************************)
(* Components that promise invariants only, each on an instance of its own *)
(* and all in one run: a behaviour chooses a part in its initial state and *)
(* moves only that one.  The parts but the first keep their variables in   *)
(* s1 .. s15.                                                              *)
(*                                                                         *)
(*   fleet      two gateways in front of a registry (GatewayFleet)         *)
(*   layer      three entries of a tar layer, from 18 kinds (TarLayer)     *)
(*   tree       four operations of an EROFS file system writer (ErofsTree) *)
(*   manifest   a config from a base, a fragment and flags (ImageManifest) *)
(*   metadata   one or two deployments, merged (DeployMetadata)            *)
(*   expand     templates of tags and labels (ExpandTemplate)              *)
(*   graph      two runs over nested indexes (RefGraph)                    *)
(*   layout     layouts written, and converted (OCILayout)                 *)
(*   mtree      four entries in up to three layers (LayerTree)             *)
(*   ztoc       a gzip stream of four bytes (Ztoc)                         *)
(*   peers      two connections to a gateway (PeerAuth)                    *)
(*   remote     a registry in front of a remote cache (ServedRegistry)     *)
(*   stores     one in front of a bucket and a remote cache                *)
(***************************************************************************)
EXTENDS GatewayFleet, TLC

VARIABLES part, s1, s2, s3, s4, s5, s6, s7, s8, s9, s10, s11, s12, s13, s14, s15

slots == <<s1, s2, s3, s4, s5, s6, s7, s8, s9, s10, s11, s12, s13, s14, s15>>

fleetVars == vars
partVars == <<part, fleetVars, slots>>

\* The instances of a deployment are interchangeable.
FleetSymmetry == Permutations(Gateways)

\* A slot that a part does not use.
Unused == 0

------------------------------------------------------------------------------
(* Manifests: what is inherited of the environment, the command and the entrypoint. *)

Inherit == "<inherit from base>"
NoConfig ==
    [os |-> "", arch |-> "", variant |-> "", user |-> "", env |-> {}, entrypoint |-> {}, cmd |-> {}, labels |-> <<>>,
     created |-> {}, diffIDs |-> <<>>, history |-> <<>>]
BaseConfigs ==
    {{}} \cup {{[NoConfig EXCEPT !.os = o, !.env = e, !.cmd = c, !.entrypoint = {<<"bash">>}]} :
        o \in {"", "linux"}, c \in {{}, {<<"b">>}},
        e \in {{<<<<"A", "b">>, <<"B", "b">>>>}, {<<<<"A", "b1">>, <<"A", "b2">>>>}}}
FragmentConfigs ==
    {{}} \cup {{[NoConfig EXCEPT !.os = o, !.env = e, !.cmd = c]} :
        o \in {"", "windows"}, e \in {{}, {<<<<"A", "f">>, <<"C", "f">>>>}}, c \in {{}, {<<>>}, {<<"f">>}}}
NoFlags ==
    [os |-> "linux", arch |-> "amd64", variant |-> "", media |-> "", user |-> Inherit, env |-> <<>>,
     envTemplates |-> {}, envFile |-> <<>>, entrypoint |-> <<Inherit>>, cmd |-> <<Inherit>>, labels |-> <<>>,
     labelTemplates |-> {}, labelsFile |-> <<>>, annotations |-> <<>>, annotationTemplates |-> {},
     describes |-> <<>>, created |-> {}, createdTemplate |-> {}, createdFile |-> {}]
ManifestFlags ==
    {[NoFlags EXCEPT !.env = e, !.envFile = ef, !.envTemplates = et] :
        e \in {<<>>, "A" :> "flag"}, ef \in {<<>>, ("A" :> "file") @@ ("D" :> "file")}, et \in {{}, {"C" :> "tpl"}}}
    \cup {[NoFlags EXCEPT !.entrypoint = e, !.cmd = c] :
        e \in {<<>>, <<Inherit>>, <<Inherit, "y">>}, c \in {<<>>, <<Inherit>>, <<"z">>, <<Inherit, "z">>}}
    \cup {[NoFlags EXCEPT !.media = m, !.arch = a] :
        m \in {"", "image config", "empty json", "helm"}, a \in {"arm64", "amd64"}}
DockerLayer == [media |-> "docker layer", digest |-> "d1", diffID |-> "i1", history |-> <<"h1">>]
JSONLayer == [media |-> "empty json", digest |-> "d2", diffID |-> "", history |-> <<>>]

Manifest == INSTANCE ImageManifest WITH
    Bases <- BaseConfigs, Fragments <- FragmentConfigs, CommandLines <- ManifestFlags,
    LayerLists <- {<<DockerLayer, DockerLayer>>, <<JSONLayer>>}, SortedKeys <- <<"A", "B", "C", "D">>,
    base <- s1, fragment <- s2, flags <- s3, layers <- s4, config <- s5, manifest <- s6, step <- s7

------------------------------------------------------------------------------
(* Deployments: an index of two manifests with tags, referrers, settings and hints. *)

SomeManifest(d) == {[digest |-> d, config |-> d \o "c", layers |-> <<"l1">>]}
Push ==
    [command |-> "push", kind |-> "index", root |-> "x", manifests |-> <<SomeManifest("m1"), SomeManifest("m2")>>,
     registry |-> "r", repository |-> "p", destination |-> {}, tags |-> {"v1"}, tagFiles |-> <<>>, referrers |-> <<>>,
     sign |-> "", signTargets |-> {"all"}, strategy |-> "lazy", blobRepository |-> "", forbid |-> FALSE,
     defaultSign |-> "", dedup |-> "", mountStrategy |-> "", mountFrom |-> <<>>, daemon |-> "d", hints |-> {}]
SBOM(subject) == [root |-> "sbom", kind |-> "manifest", subject |-> subject, manifests |-> <<>>]
Place(registry, repository) == [registry |-> registry, repository |-> repository]
Tagged ==
    {[Push EXCEPT !.tagFiles = t, !.referrers = rs, !.forbid = f, !.sign = IF f THEN "k" ELSE ""] :
        t \in {<<>>, 1 :> {"a", ""}, (1 :> {"a"}) @@ (2 :> {"a", "b"}), (1 :> {"a"}) @@ (2 :> {"b"}), 3 :> {"a"}},
        rs \in {<<>>, <<SBOM({"m1"})>>, <<SBOM({"l1"}), SBOM({"m2"})>>, <<SBOM({"zz"})>>, <<SBOM({})>>}, f \in BOOLEAN}
Placed ==
    {[Push EXCEPT !.blobRepository = b, !.defaultSign = s, !.root = "y"] : b \in {"", "b1", "b2"}, s \in {"", "s1"}}
    \cup {[Push EXCEPT !.manifests = <<{}, SomeManifest("m2")>>, !.tagFiles = 2 :> {"a"}, !.kind = k, !.destination = d] :
              k \in {"index", "manifest"}, d \in {{}, {Place("r", "")}, {Place("r", "q")}}}
    \cup {[Push EXCEPT !.mountStrategy = s, !.mountFrom = <<Place("o", "p1"), Place("r", "p2")>>] :
              s \in {"same_registry", "cross_registry"}}
    \cup {[Push EXCEPT !.hints = h] :
              h \in {{<<"p1", "l1">>, <<"p2", "l2">>}, {<<"p3", "l1">>, <<"p4", "l1">>}, {<<"p5", "">>}}}
    \cup {[Push EXCEPT !.command = "load", !.registry = g, !.tags = t] : g \in {"", "r"}, t \in {{"v1"}, {"bad"}}}
    \cup {[Push EXCEPT !.command = "load", !.registry = "", !.repository = "", !.root = "z"]}

Metadata == INSTANCE DeployMetadata WITH
    Jobs <- {<<a>> : a \in Tagged} \cup {<<a, b>> : a \in Tagged \cup Placed, b \in Placed},
    Filters <- {{}, {"push"}, {"load"}}, BadNames <- {"bad"}, MaxPaths <- 2,
    jobs <- s1, kinds <- s2, written <- s3, merged <- s4, hints <- s5, phase <- s6

------------------------------------------------------------------------------
(* Templates: stamp files, build settings, JSON variables written in two cases, files of tags and labels. *)

Text(x) == [text |-> x, ref |-> <<>>, var |-> ""]
RefTo(path) == [text |-> "", ref |-> path, var |-> ""]
Variable(v) == [text |-> "", ref |-> <<>>, var |-> v]
OneString(t) == [kind |-> "string", of |-> <<t>>]
Command ==
    [stamps |-> <<>>, settings |-> <<>>, templates |-> "t" :> OneString(RefTo(<<"base", "env">>)), files |-> <<>>,
     jsonVars |-> <<>>, roots |-> <<>>, exposed |-> <<>>]
Scalar(x) == [text |-> x, kv |-> <<>>]
Env == [text |-> "list", kv |-> <<<<"A", "1">>, <<"A", "2">>, <<"B", "1">>>>]
Json1 == (<<"Env">> :> Env) @@ (<<"env">> :> Scalar("low")) @@ (<<"Os">> :> Scalar("linux"))
Json2 == (<<"Config", "Env">> :> Env) @@ (<<"config", "user">> :> Scalar("u"))
Json3 == (<<"Config", "Env">> :> Env) @@ (<<"os">> :> Scalar("o"))
Json4 == <<>> :> Scalar("scalar")
JsonVar(path, json) == [path |-> path, json |-> json]
JsonVars ==
    {<<>>} \cup {<<JsonVar(<<"Base">>, j)>> : j \in {Json1, Json2, Json3, Json4}}
    \cup {<<JsonVar(<<"base">>, j), JsonVar(<<"base", "config">>, k)>> : j \in {Json3, Json4}, k \in {Json1, Json4}}
    \cup {<<JsonVar(<<"base", "config">>, Json1), JsonVar(<<"base">>, Json3)>>,
          <<JsonVar(<<"base">>, Json3), JsonVar(<<"Base">>, Json1)>>}
Pair(k, x) == <<k, Text(x)>>
FileOf(form, items, pairs) == [form |-> form, items |-> items, pairs |-> pairs]
Labels == FileOf("text", <<Pair("k", "f"), Pair("k", "g"), Pair("l", "f")>>, <<>>)
LabelObject == FileOf("object", <<>>, "k" :> <<Pair("k", "o")>>)
NoLabels == FileOf("object", <<>>, "k" :> <<>>)
Tags == FileOf("text", <<<<Text("v2")>>, <<Text("v1")>>>>, <<>>)
NoTags == FileOf("text", <<>>, <<>>)
Mixed == FileOf("array", <<Pair("k", "f"), <<Text("v1")>>>>, <<>>)
Files ==
    {<<Labels>>, <<Labels, LabelObject>>, <<LabelObject, Labels>>, <<Tags>>, <<Tags, NoTags>>, <<Labels, Tags>>,
     <<NoTags>>, <<Mixed>>, <<NoLabels>>, <<NoLabels, Labels>>}
TagTemplates ==
    {<<>>, "tags" :> OneString(Text("v1")), "tags" :> OneString(Text("")),
     "tags" :> [kind |-> "list", of |-> <<RefTo(<<"V">>), Text("")>>],
     "tags" :> [kind |-> "map", of |-> ("k" :> Text("t")) @@ ("m" :> Text("t"))]}
ExpandCommands ==
    {[Command EXCEPT !.stamps = st, !.settings = se, !.jsonVars = jv] :
        st \in {<<>>, <<"V" :> "s1">>,
                <<("V" :> "s1") @@ ("BUILD_TIMESTAMP" :> "1700000000"), ("V" :> "s2") @@ ("BUILD_TIMESTAMP" :> "x")>>},
        se \in {<<>>, "V" :> "set", "base" :> "set", "BUILD_TIMESTAMP_RFC3339" :> "set", "V" :> "unsupported type"},
        jv \in {<<>>, <<JsonVar(<<"base">>, Json1)>>}}
    \cup {[Command EXCEPT !.jsonVars = jv, !.roots = ro, !.exposed = ex, !.templates = tp] :
        jv \in JsonVars,
        ro \in {<<>>, <<[var |-> <<"base">>, path |-> <<"config">>]>>, <<[var |-> <<"Base">>, path |-> <<"Config">>]>>},
        ex \in {<<>>, <<<<"base", "env">>>>, <<<<"base", "config", "env">>, <<"V">>>>},
        tp \in {"t" :> OneString(RefTo(<<"base", "env">>)),
                ("t" :> OneString(Variable("A"))) @@ ("u" :> OneString(RefTo(<<"V">>)))}}
    \cup {[Command EXCEPT !.files = "tags" :> fi, !.templates = tp, !.settings = "V" :> "v1"] :
        fi \in Files, tp \in TagTemplates}
    \cup {[Command EXCEPT !.files = ("tags" :> fi) @@ ("labels" :> fj), !.templates = <<>>, !.settings = "V" :> "v1"] :
        fi, fj \in Files}

Expand == INSTANCE ExpandTemplate WITH
    Inputs <- ExpandCommands, Rank <- ("" :> 0) @@ ("v1" :> 1) @@ ("v2" :> 2),
    Fold <- ("Env" :> "env") @@ ("Os" :> "os") @@ ("Config" :> "config") @@ ("Base" :> "base") @@ ("V" :> "v"),
    input <- s1, settings <- s2, templates <- s3, unmerged <- s4, vars <- s5, at <- s6, data <- s7, prelude <- s8,
    output <- s9, stage <- s10

------------------------------------------------------------------------------
(* Two indexes, one inside the other, two manifests and a document of no known kind. *)

Documents ==
    ("i" :> [kind |-> "index", refs |-> {"m", "n"}]) @@ ("j" :> [kind |-> "index", refs |-> {"n", "i"}])
    @@ ("m" :> [kind |-> "manifest", refs |-> {"x"}]) @@ ("n" :> [kind |-> "manifest", refs |-> {"x"}])
    @@ ("u" :> [kind |-> "unknown", refs |-> {}])

Graph == INSTANCE RefGraph WITH
    ContentOf <- Documents, HasOf <- ("r1" :> DOMAIN Documents) @@ ("r2" :> {"i", "m"}),
    SourcesOf <- [d \in DOMAIN Documents |-> IF d = "j" THEN {"r1"} ELSE {"r1", "r2"}],
    ImageSets <- {{"i"}, {"i", "j"}, {"j"}, {"m", "u"}, {"m", "i"}}, NumWorkers <- 2, MaxRuns <- 2,
    facts <- s1, images <- s2, graph <- s3, jobs <- s4, working <- s5, results <- s6, fetched <- s7, phase <- s8,
    runs <- s9

------------------------------------------------------------------------------
(* Layouts of an image or an index, in three forms, from three sources. *)

Platform(os, arch, variant) == [os |-> os, arch |-> arch, variant |-> variant]
Described(d, p) == [digest |-> d, media |-> "manifest", platform |-> p, ref |-> ""]
Past(empties) == [i \in DOMAIN empties |-> [empty |-> empties[i]]]
OneImage ==
    [tool |-> "oci-layout", format |-> "directory", index |-> "", manifest |-> "ma", config |-> TRUE, manifests |-> <<>>,
     configs |-> 0, files |-> {"l1", "l2", "l3"}, cstreams |-> {}, allowMissing |-> FALSE, repoTags |-> <<>>,
     configTags |-> <<>>]
OneIndex ==
    [OneImage EXCEPT !.index = "ix", !.manifest = "", !.config = FALSE, !.manifests = <<"ma", "mb">>, !.configs = 2]
Sink(d, index, refs, children) ==
    [digest |-> d, isIndex |-> index, refs |-> refs, repository |-> "r", fallback |-> TRUE, children |-> children]
Convert(tool, platforms, media) == [tool |-> tool, platforms |-> platforms, media |-> media]

Layout == INSTANCE OCILayout WITH
    ManifestOf <- [ma |-> [config |-> "ca", layers |-> <<"l1", "l2">>], mb |-> [config |-> "cb", layers |-> <<"l1", "l3">>]],
    ConfigOf <- [ca |-> [os |-> "linux", arch |-> "amd64", variant |-> "", history |-> Past(<<TRUE, FALSE, TRUE, FALSE, TRUE>>)],
                 cb |-> [os |-> "linux", arch |-> "arm64", variant |-> "v8", history |-> Past(<<FALSE, TRUE>>)]],
    IndexOf <- [ix |-> <<Described("ma", {Platform("linux", "amd64", "")}), Described("mb", {Platform("linux", "arm64", "")})>>,
                iy |-> <<Described("mb", {Platform("linux", "arm64", "v8")})>>],
    MediaOf <- [l1 |-> "tar", l2 |-> "tar", l3 |-> "other"],
    Flags <- {OneImage, OneIndex, [OneImage EXCEPT !.files = {"l1"}], [OneImage EXCEPT !.files = {"l1"}, !.allowMissing = TRUE],
              [OneImage EXCEPT !.config = FALSE], [OneIndex EXCEPT !.configs = 1], [OneIndex EXCEPT !.format = "tar"],
              [OneImage EXCEPT !.tool = "docker-save", !.repoTags = <<"t", "u">>, !.format = "tar"],
              [OneImage EXCEPT !.tool = "docker-save", !.configTags = <<"t">>],
              [OneIndex EXCEPT !.tool = "docker-save", !.format = "tar"],
              [OneImage EXCEPT !.tool = "sparse-oci-layout", !.files = {}, !.cstreams = {"l2"}],
              [OneIndex EXCEPT !.tool = "sparse-oci-layout", !.files = {}]},
    Loads <- {[index |-> "", manifests |-> <<"ma">>, tags |-> <<"t">>, filter |-> <<>>],
              [index |-> "ix", manifests |-> <<"ma", "mb">>, tags |-> <<>>, filter |-> <<[included |-> <<2>>, default |-> 2]>>]},
    Sunk <- {[docker |-> TRUE, images |-> <<>>],
             [docker |-> TRUE, images |-> <<Sink("ix", TRUE, <<"t">>, <<"ma", "mb">>), Sink("ma", FALSE, <<"u">>, <<"ma">>),
                                            Sink("ma", FALSE, <<"u">>, <<"ma">>)>>],
             [docker |-> FALSE, images |-> <<Sink("ma", FALSE, <<>>, <<"ma">>), Sink("iy", TRUE, <<"t">>, <<"mb">>)>>],
             [docker |-> TRUE, images |-> <<Sink("ix", TRUE, <<"t">>, <<"ma", "mb">>)>>]},
    Requests <- {Convert("manifest", <<Platform("linux", "amd64", "")>>, <<<<"tar", "tar">>>>),
                 Convert("manifest", <<Platform("linux", "arm64", "")>>, <<<<"tar", "other">>>>),
                 Convert("index", <<Platform("linux", "amd64", ""), Platform("linux", "arm64", "v8")>>,
                         <<<<"tar", "tar">>, <<"tar", "other">>>>),
                 Convert("index", <<Platform("linux", "arm64", ""), Platform("linux", "amd64", "")>>,
                         <<<<"tar", "other">>, <<"tar", "tar">>>>),
                 Convert("metadata", <<>>, <<>>)},
    command <- s1, layout <- s2, unwritten <- s3, missing <- s4, request <- s5, source <- s6, todo <- s7, out <- s8,
    result <- s9, stage <- s10

------------------------------------------------------------------------------
(* Layers as they are read. *)

LayerEntry(path, kind) == [path |-> path, kind |-> kind, target |-> <<>>]

Mtree == INSTANCE LayerTree WITH
    Entries <- {LayerEntry(<<"a">>, k) : k \in {"file", "dir", "whiteout", "opaque"}}
               \cup {LayerEntry(<<"a", "b">>, "file"), LayerEntry(<<"a", "b", "d">>, "file"), LayerEntry(<<"a", "b">>, "whiteout"),
                     [path |-> <<"c">>, kind |-> "link", target |-> <<"a", "b">>]},
    MaxEntries <- 4, MaxInputs <- 3, collected <- s1, input <- s2, tree <- s3, fs <- s4

Stream == INSTANCE Ztoc WITH
    WinSize <- 2, SpanSize <- 1, LiteralBits <- {3}, CopyBits <- {7, 13}, Copies <- {<<1, 2>>, <<3, 1>>, <<2, 2>>},
    HeaderBytes <- {10}, MaxOutput <- 4, MaxBlocks <- 3, MaxMembers <- 2,
    incnt <- s1, nbits <- s2, buf <- s3, pos <- s4, total <- s5, memberStart <- s6, at <- s7, final <- s8,
    lastPoint <- s9, checkpoints <- s10, consumed <- s11, output <- s12, truePoints <- s13, blocks <- s14, members <- s15

------------------------------------------------------------------------------
(* Servers with caches. *)

Identity == INSTANCE PeerAuth WITH
    Clients <- {"c1", "c2"}, Static <- {"s"}, Accounts <- {"t1"}, Strangers <- {"x"}, Minds <- {"ok", "foreign"},
    Certificates <- {[names |-> {<<"a", "x">>}, until |-> 1], [names |-> {<<"x">>}, until |-> 9]},
    Allowed <- {[wildcard |-> TRUE, labels |-> <<"x">>], [wildcard |-> FALSE, labels |-> <<"b">>]},
    TTL <- 1, MaxEntries <- 1, Patience <- 1, MaxNow <- 3, MaxChanges <- 2,
    now <- s1, conn <- s2, state <- s3, token <- s4, verdict <- s5, asked <- s6, reviews <- s7, api <- s8, up <- s9,
    last <- s10, changes <- s11

Remote == INSTANCE ServedRegistry WITH
    Configs <- {}, Layers <- {"l"}, Stores <- <<"reapi">>, S3Blobs <- {}, UpstreamBlobs <- {}, TTL <- 3,
    RemoteCacheTTL <- 4, ScanInterval <- 1, Expires <- 2, MinLifetime <- 1, MaxLate <- 1, MaxNow <- 5,
    now <- s1, cas <- s2, sizes <- s3, used <- s4, manifest <- s5, put <- s6, collected <- s7, firing <- s8, kept <- s9,
    scan <- s10, watched <- s11, scanned <- s12, late <- s13, urls <- s14

Bucket == INSTANCE ServedRegistry WITH
    Configs <- {"c"}, Layers <- {"l"}, Stores <- <<"s3", "reapi">>, S3Blobs <- {"c"}, UpstreamBlobs <- {}, TTL <- 0,
    RemoteCacheTTL <- 3, ScanInterval <- 1, Expires <- 1, MinLifetime <- 1, MaxLate <- 0, MaxNow <- 1,
    now <- s1, cas <- s2, sizes <- s3, used <- s4, manifest <- s5, put <- s6, collected <- s7, firing <- s8, kept <- s9,
    scan <- s10, watched <- s11, scanned <- s12, late <- s13, urls <- s14

------------------------------------------------------------------------------
Unused12 == s12 = Unused /\ s13 = Unused /\ s14 = Unused /\ s15 = Unused
Unused11 == s11 = Unused /\ Unused12
Unused10 == s10 = Unused /\ Unused11
Unused8 == s8 = Unused /\ s9 = Unused /\ Unused10
Unused7 == s7 = Unused /\ Unused8
Unused5 == s5 = Unused /\ s6 = Unused /\ Unused7
Unused3 == s3 = Unused /\ s4 = Unused /\ Unused5
UnusedSlots == s1 = Unused /\ s2 = Unused /\ Unused3

From15 == <<s15>>
From12 == <<s12, s13, s14, s15>>
From11 == <<s11, From12>>
From10 == <<s10, From11>>
From8 == <<s8, s9, From10>>
From7 == <<s7, From8>>
From5 == <<s5, s6, From7>>
ImagesInit ==
    \/ part = "manifest" /\ Manifest!ManifestInit /\ Unused8
    \/ part = "metadata" /\ Metadata!MetadataInit /\ Unused7
    \/ part = "expand" /\ Expand!ExpandInit /\ Unused11
    \/ part = "graph" /\ Graph!GraphInit /\ Unused10
    \/ part = "layout" /\ Layout!LayoutInit /\ Unused11
    \/ part = "mtree" /\ Mtree!MtreeInit /\ Unused5
    \/ part = "ztoc" /\ Stream!ZtocInit
    \/ part = "peers" /\ Identity!Init /\ Unused12
    \/ part = "remote" /\ Remote!ServedInit /\ s15 = Unused
    \/ part = "stores" /\ Bucket!ServedInit /\ s15 = Unused

ImagesNext ==
    \/ part = "manifest" /\ Manifest!ManifestNext /\ UNCHANGED From8
    \/ part = "metadata" /\ Metadata!MetadataNext /\ UNCHANGED From7
    \/ part = "expand" /\ Expand!ExpandNext /\ UNCHANGED From11
    \/ part = "graph" /\ Graph!GraphNext /\ UNCHANGED From10
    \/ part = "layout" /\ Layout!LayoutNext /\ UNCHANGED From11
    \/ part = "mtree" /\ Mtree!MtreeNext /\ UNCHANGED From5
    \/ part = "ztoc" /\ Stream!ZtocNext
    \/ part = "peers" /\ Identity!Next /\ UNCHANGED From12
    \/ part = "remote" /\ Remote!ServedNext /\ UNCHANGED From15
    \/ part = "stores" /\ Bucket!ServedNext /\ UNCHANGED From15

------------------------------------------------------------------------------
(* Entries of a layer: X is small enough to be inlined, two paths are below directories. *)

A == <<"a">>
B == <<"b">>
AB == <<"a", "b">>
ABC == <<"a", "b", "c">>
DA == <<"d", "a">>
X == <<"x">>

Entry(path, content, meta) == [kind |-> "entry", path |-> path, content |-> content, meta |-> meta]
TreeOf(path) ==
    [kind |-> "tree", path |-> path,
     files |-> <<[name |-> <<"f">>, content |-> "X"], [name |-> <<"g">>, content |-> "Z"]>>]
LayerOps ==
    {[kind |-> "file", path |-> p, content |-> c] : p \in {A, DA}, c \in {"X", "Y"}}
    \cup {Entry(p, "X", m) : p \in {A, B}, m \in {"plain", "mine"}}
    \cup {Entry(<<"c">>, "X", "other")}
    \cup {TreeOf(p) : p \in {<<"t">>, <<"d", "t">>, <<"d", "u">>}}
    \cup {[kind |-> "symlink", path |-> <<"s">>, target |-> A], [kind |-> "dir", path |-> <<"d">>, meta |-> "mine"],
          [kind |-> "empty", path |-> <<"e">>]}
LayerOption(parents, trees, inline, defaults, overrides, jobs, format, estargz) ==
    [parents |-> parents, trees |-> trees, inline |-> inline, defaults |-> defaults,
     overrides |-> overrides, jobs |-> jobs, format |-> format, estargz |-> estargz]

Layer == INSTANCE TarLayer WITH
    Ops <- LayerOps, MaxOps <- 3, Sizes <- [X |-> 1, Y |-> 2, E |-> 0, Z |-> 3],
    Options <- {LayerOption(TRUE, TRUE, 2, FALSE, {}, -1, "gzip", FALSE),
                LayerOption(FALSE, FALSE, 0, TRUE, {A}, 256, "gzip", FALSE),
                LayerOption(TRUE, FALSE, 3, TRUE, {}, 0, "none", FALSE)},
    w <- s1, asked <- s2, options <- s3, exit <- s4

------------------------------------------------------------------------------
(* Operations of an EROFS writer, merges of layers with a whiteout and an opaque directory. *)

Src(i, path, kind, data) ==
    [path |-> path, kind |-> kind, perm |-> "source", data |-> data,
     nlink |-> IF kind = "dir" THEN 2 ELSE IF i THEN 1 ELSE 0]
Sources(i) ==
    {<<Src(i, <<>>, "dir", <<>>), Src(i, A, "dir", <<>>), Src(i, AB, "whiteout", <<>>)>>,
     <<Src(i, <<>>, "dir", <<>>), Src(i, A, "dir", <<>>), Src(i, A, "opaque", <<>>), Src(i, AB, "file", <<"q">>)>>}
TreeOps ==
    {[do |-> "create", name |-> p] : p \in {ABC, X}}
    \cup {[do |-> "write"], [do |-> "closefile"]}
    \cup {[do |-> "addfile", name |-> p, data |-> <<"s">>] : p \in {A, AB}}
    \cup {[do |-> "mkdir", name |-> p, perm |-> "given"] : p \in {<<>>, A, AB}}
    \cup {[do |-> "mkdirsynthesized", name |-> AB], [do |-> "symlink", name |-> X, data |-> <<"t">>],
          [do |-> "mknod", name |-> X], [do |-> "chmod", name |-> A, perm |-> "given"],
          [do |-> "nlink", name |-> X, n |-> 7]}
    \cup {[do |-> d, old |-> p, name |-> X] : d \in {"link", "share"}, p \in {ABC, AB}}
    \cup {[do |-> "remove", name |-> p] : p \in {A, AB, X}}
    \cup UNION {{[do |-> "copy", source |-> s, merge |-> TRUE, image |-> i, metadataOnly |-> i] : s \in Sources(i)} :
                   i \in BOOLEAN}
TreeOption(dataFile, hook, prepare) == [dataFile |-> dataFile, start |-> 0, hook |-> hook, prepare |-> prepare]

Tree == INSTANCE ErofsTree WITH
    Ops <- TreeOps, MaxOps <- 4, BlockSize <- 2,
    Options <- {TreeOption(d, h, TRUE) : d, h \in BOOLEAN} \cup {TreeOption(FALSE, FALSE, FALSE)},
    w <- s1, image <- s2, calls <- s3

------------------------------------------------------------------------------
(* The sum. *)

PartsInit ==
    /\ Init
    /\ \/ part = "fleet" /\ UnusedSlots
       \/ part = "layer" /\ Layer!Init /\ Unused5
       \/ part = "tree" /\ Tree!TreeInit /\ s4 = Unused /\ Unused5
       \/ ImagesInit

Part(name, step) == part = name /\ step /\ UNCHANGED <<part, fleetVars, From5>>

PartsNext ==
    \/ part = "fleet" /\ Next /\ UNCHANGED <<part, slots>>
    \/ Part("layer", Layer!Next)
    \/ Part("tree", Tree!TreeNext) /\ UNCHANGED s4
    \/ ImagesNext /\ UNCHANGED <<part, fleetVars>>

PartsSpec == PartsInit /\ [][PartsNext]_partVars

\* The gateways on their own.
FleetSpec == part = "fleet" /\ PartsInit /\ [][PartsNext]_partVars

------------------------------------------------------------------------------
(* Properties: those of the parts; BeliefIsBounded and EventsAreFaithful are GatewayFleet's. *)





=============================================================================
