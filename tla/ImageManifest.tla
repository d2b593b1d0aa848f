--------------------------- MODULE ImageManifest ---------------------------
(***************************************************************************)
(* img manifest (cmd/manifest/manifest.go): the config and the manifest of *)
(* an image are put together from a base config, a fragment, the command   *)
(* line, the files it names and the metadata of the layers.                *)
(*                                                                         *)
(* A list of variables is a sequence of <<key, value>>, <<key>> being an   *)
(* entry without "="; a map is a function.  What may be absent is {} or    *)
(* {value}; the empty string is "".                                        *)
(***************************************************************************)
EXTENDS Integers, Sequences, FiniteSets

LOCAL INSTANCE SequencesExt

CONSTANTS
    Bases,      \* --base-config: sets of at most one config
    Fragments,  \* --config-fragment
    CommandLines,
    LayerLists, \* --layer-from-metadata
    SortedKeys  \* every key, in the order of slices.Sort

VARIABLES
    base, fragment, flags, layers, \* the inputs
    config,                        \* the config as far as it is known
    manifest,                      \* {} until it is put together
    step                           \* the next step, "done" or "failed"

manifestVars == <<base, fragment, flags, layers, config, manifest, step>>

Inherit == "<inherit from base>"
ImageConfig == "image config"
EmptyJSON == "empty json"
Docker == "docker layer"

EmptyConfig == [os |-> "", arch |-> "", variant |-> "", user |-> "", env |-> {},
                entrypoint |-> {}, cmd |-> {}, labels |-> <<>>,
                created |-> {}, diffIDs |-> <<>>, history |-> <<>>]

The(s) == CHOOSE x \in s : TRUE
OrEmpty(s) == IF s = {} THEN <<>> ELSE The(s)
Keys(env) == {env[i][1] : i \in DOMAIN env}
LastWith(env, k) == CHOOSE i \in DOMAIN env : env[i][1] = k /\ \A j \in DOMAIN env : env[j][1] = k => j <= i
Merge(under, over) ==
    [k \in DOMAIN under \cup DOMAIN over |-> IF k \in DOMAIN over THEN over[k] ELSE under[k]]

-----------------------------------------------------------------------------
(* overlayConfigFromFile *)


\* The first entry of a key is replaced, keys that are new are appended.
OverlayEnv(under, over) ==
    [i \in DOMAIN under |->
        IF under[i][1] \in Keys(over) /\ \A j \in 1 .. i - 1 : under[j][1] # under[i][1]
        THEN over[LastWith(over, under[i][1])] ELSE under[i]]
    \o SelectSeq(over, LAMBDA e : e[1] \notin Keys(under))

Clash(a, b) == a # "" /\ b # "" /\ a # b
Over(under, over) == IF over # "" THEN over ELSE under

\* overlayConfigFromFile refuses another platform, and an entry without "=" when
\* there is a list to merge.
Refuses(c, f) ==
    \/ Clash(f.os, c.os) \/ Clash(f.arch, c.arch)
    \/ f.env # {} /\ \E env \in f.env \cup c.env : \E i \in DOMAIN env : Len(env[i]) # 2

\* The variant, the history and the time of creation stay behind: config.Created
\* is nil whenever a fragment is merged.
overlayConfigFromFile(c, f) ==
    [c EXCEPT !.os = Over(@, f.os), !.arch = Over(@, f.arch), !.user = Over(@, f.user),
              !.env = IF f.env = {} THEN @ ELSE {OverlayEnv(OrEmpty(@), The(f.env))},
              !.entrypoint = IF f.entrypoint = {} THEN @ ELSE f.entrypoint,
              !.cmd = IF f.cmd = {} THEN @ ELSE f.cmd,
              !.labels = Merge(@, f.labels)]

-----------------------------------------------------------------------------
(* overlayNewConfigValues *)

\* What the templates, or else the flags, say, over what a file says.
ToApply(f, templates, file) == Merge(file, IF templates = {} THEN f ELSE The(templates))

\* Every entry of a key is updated; keys that are new follow in order.
ApplyEnv(under, map) ==
    [i \in DOMAIN under |->
        IF under[i][1] \in DOMAIN map THEN <<under[i][1], map[under[i][1]]>> ELSE under[i]]
    \o LET new == SelectSeq(SortedKeys, LAMBDA k : k \in DOMAIN map \ Keys(under))
       IN  [i \in DOMAIN new |-> <<new[i], map[new[i]]>>]

applyStringConfig(field, value) == IF value = Inherit THEN field ELSE value

isPureInherit(list) == list = <<Inherit>>

\* expandInherit, for lists of at most two items.
expandInherit(list, inherited) ==
    LET Item(i) == IF i > Len(list) THEN <<>> ELSE IF list[i] = Inherit THEN inherited ELSE <<list[i]>>
    IN  Item(1) \o Item(2)

\* Setting the entrypoint clears cmd; unsetting it does not.
NewEntrypoint(c) ==
    IF isPureInherit(flags.entrypoint) THEN c.entrypoint
    ELSE IF flags.entrypoint = <<>> THEN {}
    ELSE {expandInherit(flags.entrypoint, OrEmpty(c.entrypoint))}

NewCmd(c) ==
    LET cleared == ~isPureInherit(flags.entrypoint) /\ flags.entrypoint # <<>>
    IN  IF isPureInherit(flags.cmd) THEN (IF cleared THEN {} ELSE c.cmd)
        ELSE IF flags.cmd = <<>> THEN {}
        ELSE {expandInherit(flags.cmd, OrEmpty(c.cmd))}

\* "ARM64 defaults to v8 variant".
Variant == IF flags.arch = "arm64" /\ flags.variant = "" THEN "v8" ELSE flags.variant

overlayNewConfigValues(c) ==
    LET env == ToApply(flags.env, flags.envTemplates, flags.envFile)
        labels == ToApply(flags.labels, flags.labelTemplates, flags.labelsFile)
    IN  [c EXCEPT !.os = Over(flags.os, @), !.arch = Over(flags.arch, @), !.variant = Over(Variant, @),
                  !.diffIDs = [i \in DOMAIN layers |-> layers[i].diffID],
                  !.user = applyStringConfig(@, flags.user),
                  !.env = IF DOMAIN env = {} THEN @ ELSE {ApplyEnv(OrEmpty(@), env)},
                  !.entrypoint = NewEntrypoint(c), !.cmd = NewCmd(c),
                  !.labels = Merge(@, labels)]

\* prepareConfig: the history of the layers, and the time of creation.  The file
\* goes before the templates, and these before the flag (effectiveCreatedTimestamp).
Created ==
    IF flags.createdFile # {} THEN flags.createdFile
    ELSE IF flags.createdTemplate # {} THEN flags.createdTemplate ELSE flags.created

Histories(ls) == FlattenSeq([i \in DOMAIN ls |-> ls[i].history])

-----------------------------------------------------------------------------
(* ManifestProcess *)

ManifestInit ==
    /\ base \in Bases /\ fragment \in Fragments /\ flags \in CommandLines /\ layers \in LayerLists
    /\ config = EmptyConfig /\ manifest = {} /\ step = "flags"

Goes(s) == step' = s /\ UNCHANGED <<base, fragment, flags, layers>>

\* A kind of config that is not an image's is given as a file, or is empty.
CheckFlags ==
    /\ step = "flags"
    /\ IF flags.media \notin {"", ImageConfig, EmptyJSON} /\ fragment = {} THEN Goes("failed")
       ELSE IF flags.media = "" THEN Goes("base") ELSE Goes("verbatim")
    /\ UNCHANGED <<config, manifest>>

\* The config is the file as it is; there is no file to read for an image config.
TakeVerbatim ==
    /\ step = "verbatim"
    /\ Goes(IF flags.media = EmptyJSON \/ fragment # {} THEN "manifest" ELSE "failed")
    /\ UNCHANGED <<config, manifest>>

OverlayBase ==
    /\ step = "base"
    /\ IF base # {} /\ Refuses(config, The(base)) THEN Goes("failed") /\ UNCHANGED config
       ELSE /\ config' = IF base = {} THEN config ELSE overlayConfigFromFile(config, The(base))
            /\ Goes("fragment")
    /\ UNCHANGED manifest

OverlayFragment ==
    /\ step = "fragment"
    /\ IF fragment # {} /\ Refuses(config, The(fragment)) THEN Goes("failed") /\ UNCHANGED config
       ELSE /\ config' = IF fragment = {} THEN config ELSE overlayConfigFromFile(config, The(fragment))
            /\ Goes("values")
    /\ UNCHANGED manifest

prepareConfig ==
    /\ step = "values"
    /\ IF Clash(config.os, flags.os) \/ Clash(config.arch, flags.arch) \/ Clash(config.variant, Variant)
       THEN Goes("failed") /\ UNCHANGED config
       ELSE /\ config' = [overlayNewConfigValues(config) EXCEPT !.created = Created, !.history = Histories(layers)]
            /\ Goes("manifest")
    /\ UNCHANGED manifest

\* The annotation for the base image, and the one for the SOCI index, unless set.
Annotations ==
    LET given == IF flags.annotationTemplates = {} THEN flags.annotations ELSE The(flags.annotationTemplates)
    IN  Merge(flags.describes, given)

\* Docker's name of a layer becomes OCI's; empty JSON travels in the descriptor.
Descriptors ==
    [i \in DOMAIN layers |->
        [media |-> IF layers[i].media = Docker THEN "oci layer" ELSE layers[i].media,
         digest |-> layers[i].digest, inline |-> layers[i].media = EmptyJSON]]

Assemble ==
    /\ step = "manifest"
    /\ manifest' = {[config |-> IF flags.media = "" THEN {config} ELSE fragment,
                     media |-> IF flags.media = "" THEN ImageConfig ELSE flags.media,
                     inline |-> flags.media = EmptyJSON /\ fragment = {},
                     layers |-> Descriptors, annotations |-> Annotations,
                     platform |-> IF flags.media \in {"", ImageConfig}
                                  THEN <<flags.os, flags.arch, Variant>> ELSE <<>>]}
    /\ Goes("done")
    /\ UNCHANGED config

ManifestNext ==
    CheckFlags \/ TakeVerbatim \/ OverlayBase \/ OverlayFragment \/ prepareConfig \/ Assemble

-----------------------------------------------------------------------------
ManifestTypeOK ==
    /\ step \in {"flags", "verbatim", "base", "fragment", "values", "manifest", "done", "failed"}
    /\ Cardinality(manifest) <= 1 /\ (step = "done") = (manifest # {})

Built == step = "done" /\ flags.media = ""
Given(s, k) == \E env \in s : k \in Keys(env)
Value(s, k) == LET env == The(s) IN env[LastWith(env, k)][2]
Twice(s, k) == \E env \in s : \E i, j \in DOMAIN env : i # j /\ env[i][1] = k /\ env[j][1] = k
FieldOf(s, f) == IF s = {} THEN {} ELSE The(s)[f]

\* A process in the container sees each variable as the most specific place sets it:
\* templates or --env, --env-file, the fragment, the base.  (A fragment does not reach
\* the second entry of a key that its base names twice.)
EnvironmentIsTheMostSpecific ==
    Built => \A k \in {SortedKeys[i] : i \in DOMAIN SortedKeys} :
        LET set == IF flags.envTemplates = {} THEN flags.env ELSE The(flags.envTemplates)
            b == FieldOf(base, "env")  f == FieldOf(fragment, "env")
        IN  IF k \in DOMAIN set THEN Value(config.env, k) = set[k]
            ELSE IF k \in DOMAIN flags.envFile THEN Value(config.env, k) = flags.envFile[k]
            ELSE IF Given(f, k) THEN Twice(b, k) \/ Value(config.env, k) = Value(f, k)
            ELSE IF Given(b, k) THEN Value(config.env, k) = Value(b, k)
            ELSE ~Given(config.env, k)

\* "Setting entrypoint clears Cmd", a lone sentinel changes nothing, and a sentinel
\* among other items is what base and fragment said, whatever became of it.
CommandsFollowTheFlags ==
    Built =>
      LET Said(f) == IF FieldOf(fragment, f) # {} THEN FieldOf(fragment, f) ELSE FieldOf(base, f)
          Mentions(list) == \E i \in DOMAIN list : list[i] = Inherit
      IN  /\ flags.entrypoint = <<Inherit>> /\ flags.cmd = <<Inherit>> =>
                config.entrypoint = Said("entrypoint") /\ config.cmd = Said("cmd")
          /\ flags.cmd = <<Inherit>> /\ flags.entrypoint \notin {<<>>, <<Inherit>>} => config.cmd = {}
          /\ Len(flags.cmd) > 1 /\ Mentions(flags.cmd) =>
                Len(OrEmpty(config.cmd)) = Len(flags.cmd) - 1 + Len(OrEmpty(Said("cmd")))
          /\ Len(flags.cmd) > 0 /\ ~Mentions(flags.cmd) => config.cmd = {flags.cmd}

\* An image that is built is for the platform its descriptor names, and so is every
\* config it was built from.
ImageIsOfOnePiece ==
    Built =>
      /\ manifest = {[The(manifest) EXCEPT !.platform = <<config.os, config.arch, config.variant>>]}
      /\ \A c \in base \cup fragment : ~Clash(c.os, config.os) /\ ~Clash(c.arch, config.arch)

=============================================================================
