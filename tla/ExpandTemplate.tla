--------------------------- MODULE ExpandTemplate ---------------------------
(***************************************************************************)
(* img expand-template (cmd/expandtemplate/expandtemplate.go) with the     *)
(* files of pkg/kvfile: stamp files, build settings, JSON files and lists  *)
(* kept in files become the data and the templates of a request, and every *)
(* template is expanded.                                                   *)
(*                                                                         *)
(* A template is a literal text, a reference to a path of the data or a    *)
(* $variable.  The value of a template key is [kind, of]: of is a sequence *)
(* of one template for a string, of several for a list, a function for a   *)
(* map.  A JSON value is the function from the paths of its leaves to the  *)
(* leaves, [text, kv]: kv holds the <<key, value>> entries of an array of  *)
(* "KEY=VALUE" strings.                                                    *)
(***************************************************************************)
EXTENDS Integers, Sequences, FiniteSets

LOCAL INSTANCE SequencesExt

CONSTANTS
    Inputs, \* command lines with the contents of the files they name
    Fold,   \* strings.ToLower on the names of Inputs
    Rank    \* the order of slices.Sort on the texts

VARIABLES
    input,
    settings,  \* buildSettings: name -> text
    templates, \* request.Templates
    unmerged,  \* keys whose files are not merged yet
    vars,      \* jsonVarData
    at,        \* how many stamp files, json-vars or roots were taken
    data,      \* templateData: the leaves by path
    prelude,   \* the $variables defined before every template
    output,    \* key -> expanded value
    stage

expandVars == <<input, settings, templates, unmerged, vars, at, data, prelude, output, stage>>

Timestamp == "BUILD_TIMESTAMP"
RFC3339 == "BUILD_TIMESTAMP_RFC3339"
NoValue == "<no value>"
Unsupported == "unsupported type"

Merge(under, over) ==
    [k \in DOMAIN under \cup DOMAIN over |-> IF k \in DOMAIN over THEN over[k] ELSE under[k]]
Leaf(text) == [text |-> text, kv |-> <<>>]
Literal(text) == [text |-> text, ref |-> <<>>, var |-> ""]

-----------------------------------------------------------------------------
(* kvfile *)

\* classify: <<key, value>> entries or <<item>> entries, never both.
classify(items) ==
    LET pairs == {i \in DOMAIN items : Len(items[i]) = 2}
        keys == {items[i][1] : i \in pairs}
    IN IF items = <<>> THEN [kind |-> "empty"]
       ELSE IF pairs # {} /\ pairs # DOMAIN items THEN [kind |-> "error"]
       ELSE IF pairs = {} THEN [kind |-> "list", list |-> [i \in DOMAIN items |-> items[i][1]]]
       ELSE IF "" \in keys THEN [kind |-> "error"]
       ELSE [kind |-> "pairs",
             pairs |-> [k \in keys |-> SelectSeq(items, LAMBDA e : e[1] = k)]]

\* A JSON object gives its pairs as they are, {} being no pair at all; arrays and
\* text leave out blank entries.
ParseFlexible(file) ==
    IF file.form = "object"
    THEN IF "" \in DOMAIN file.pairs THEN [kind |-> "error"]
         ELSE [kind |-> "pairs", pairs |-> file.pairs]
    ELSE classify(SelectSeq(file.items, LAMBDA e : e # <<Literal("")>>))

\* Flatten keeps the last value of a key and drops a key that has none.
Flatten(pairs) ==
    [k \in {j \in DOMAIN pairs : pairs[j] # <<>>} |-> pairs[k][Len(pairs[k])][2]]

-----------------------------------------------------------------------------
(* mergeNewlineDelimitedFiles, for the files of one key *)

PairsOf(parsed) ==
    LET files == SelectSeq(parsed, LAMBDA f : f.kind = "pairs")
        Of(f, k) == IF k \in DOMAIN f.pairs THEN f.pairs[k] ELSE <<>>
    IN [k \in UNION {DOMAIN files[i].pairs : i \in DOMAIN files} |->
            FlattenSeq([i \in DOMAIN files |-> Of(files[i], k)])]
ListOf(parsed) ==
    LET files == SelectSeq(parsed, LAMBDA f : f.kind = "list")
    IN FlattenSeq([i \in DOMAIN files |-> files[i].list])

Overlay(existing, pairs) == Merge(existing, Flatten(pairs))

\* The merged value of a key as {value}, {} when the files do not fit each other or
\* the template.
Merged(parsed, existing) ==
    LET kinds == {parsed[i].kind : i \in DOMAIN parsed}
    IN IF "error" \in kinds \/ {"pairs", "list"} \subseteq kinds THEN {}
       ELSE IF "pairs" \in kinds
       THEN IF existing # {} /\ \A v \in existing : v.kind # "map" THEN {}
            ELSE {[kind |-> "map",
                   of |-> Overlay(IF existing = {} THEN <<>> ELSE (CHOOSE v \in existing : TRUE).of,
                                  PairsOf(parsed))]}
       ELSE IF "list" \in kinds
       THEN IF \E v \in existing : v.kind = "map" THEN {}
            ELSE LET before == IF existing = {} THEN <<>> ELSE (CHOOSE v \in existing : TRUE).of
                 IN {[kind |-> "list", of |-> SelectSeq(before, LAMBDA t : t # Literal("")
                        \/ \E v \in existing : v.kind = "list") \o ListOf(parsed)]}
       ELSE existing

Fail == stage' = "failed" /\ UNCHANGED <<input, settings, templates, unmerged, vars, at, data, prelude, output>>

\* readStampFile: a line without a value is skipped; a later file overwrites.
ReadStamp ==
    /\ stage = "stamps" /\ at < Len(input.stamps)
    /\ at' = at + 1
    /\ settings' = Merge(settings, input.stamps[at + 1])
    /\ UNCHANGED <<input, templates, unmerged, vars, data, prelude, output, stage>>

\* The request is parsed: a build setting must be a string, a number or a bool.
ParseRequest ==
    /\ stage = "stamps" /\ at = Len(input.stamps)
    /\ IF Unsupported \in Range(input.settings) THEN Fail
       ELSE /\ stage' = "files"
            /\ templates' = input.templates
            /\ unmerged' = DOMAIN input.files
            /\ UNCHANGED <<input, settings, vars, at, data, prelude, output>>

\* The keys come in the order of a Go map.  Files that are all empty leave the key
\* as it was.
MergeFiles(key) ==
    LET parsed == [i \in DOMAIN input.files[key] |-> ParseFlexible(input.files[key][i])]
        existing == IF key \in DOMAIN templates THEN {templates[key]} ELSE {}
        empty == \A i \in DOMAIN parsed : parsed[i].kind = "empty"
        merged == Merged(parsed, existing)
    IN /\ stage = "files" /\ key \in unmerged
       /\ IF ~empty /\ merged = {} THEN Fail
          ELSE /\ unmerged' = unmerged \ {key}
               /\ templates' = IF empty THEN templates
                               ELSE Merge(templates, [k \in {key} |-> CHOOSE v \in merged : TRUE])
               /\ UNCHANGED <<input, settings, vars, at, data, prelude, output, stage>>

\* unixToRFC3339 of a setting; a malformed timestamp counts as none.
unixToRFC3339(text) == IF text = "1700000000" THEN "2023-11-14T22:13:20Z" ELSE ""

AddSettings(stamped, given) == Merge(stamped, given)

\* maps.Copy and deriveBuildTimestampRFC3339.
TakeSettings ==
    LET all == AddSettings(settings, input.settings)
        derived == unixToRFC3339(IF Timestamp \in DOMAIN all THEN all[Timestamp] ELSE "")
    IN /\ stage = "files" /\ unmerged = {}
       /\ settings' = IF RFC3339 \in DOMAIN all THEN all
                      ELSE Merge(all, [k \in {RFC3339} |-> derived])
       /\ stage' = "vars" /\ at' = 0
       /\ UNCHANGED <<input, templates, unmerged, vars, data, prelude, output>>

-----------------------------------------------------------------------------
(* JSON variables *)

FoldPath(p) == [i \in DOMAIN p |-> IF p[i] \in DOMAIN Fold THEN Fold[p[i]] ELSE p[i]]

\* Two names that differ in case only cannot both stay.
Apart(p, q) ==
    \A n \in 1 .. (IF Len(p) < Len(q) THEN Len(p) ELSE Len(q)) :
        FoldPath(SubSeq(p, 1, n)) = FoldPath(SubSeq(q, 1, n)) => SubSeq(p, 1, n) = SubSeq(q, 1, n)

\* makeCaseInsensitiveMap writes the names of a Go map in any order: of the names
\* that fold to the same one any may be the last.
Folded(json) ==
    {[p \in {FoldPath(q) : q \in kept} |-> json[CHOOSE q \in kept : FoldPath(q) = p]] :
        kept \in {s \in SUBSET DOMAIN json :
                    /\ \A p, q \in s : Apart(p, q)
                    /\ \A p \in DOMAIN json \ s : \E q \in s : ~Apart(p, q)}}

Below(json, p) == {q \in DOMAIN json : IsPrefix(p, q)}

\* The value at p is replaced as a whole.
Put(json, p, value) ==
    Merge([q \in DOMAIN json \ Below(json, p) |-> json[q]],
          [q \in {p \o r : r \in DOMAIN value} |-> value[SubSeq(q, Len(p) + 1, Len(q))]])

\* processJSONVar: no component on the way may be anything but a map.
ProcessJSONVar ==
    LET var == input.jsonVars[at + 1]
    IN /\ stage = "vars" /\ at < Len(input.jsonVars)
       /\ IF \E n \in 1 .. Len(var.path) - 1 : SubSeq(var.path, 1, n) \in DOMAIN vars THEN Fail
          ELSE /\ \E value \in Folded(var.json) : vars' = Put(vars, var.path, value)
               /\ at' = at + 1
               /\ UNCHANGED <<input, settings, templates, unmerged, data, prelude, output, stage>>

VarsRead ==
    /\ stage = "vars" /\ at = Len(input.jsonVars)
    /\ stage' = "roots" /\ at' = 0
    /\ UNCHANGED <<input, settings, templates, unmerged, vars, data, prelude, output>>

\* applyPathToRoot: the part of the variable below the path takes its place.
ApplyPathToRoot ==
    LET root == input.roots[at + 1]
        from == root.var \o root.path
        part == Below(vars, from)
    IN /\ stage = "roots" /\ at < Len(input.roots)
       /\ IF part = {} THEN Fail
          ELSE /\ vars' = Put(vars, root.var,
                              [q \in {SubSeq(p, Len(from) + 1, Len(p)) : p \in part} |-> vars[from \o q]])
               /\ at' = at + 1
               /\ UNCHANGED <<input, settings, templates, unmerged, data, prelude, output, stage>>

\* The settings replace the JSON variables of the same name as a whole.
OverlayData(json, given) ==
    Merge([q \in {p \in DOMAIN json : <<p[1]>> \notin DOMAIN given} |-> json[q]], given)

\* singleVariableDefinition of every --expose-kv: the first entry of a key counts,
\* and one path that is not there leaves the prelude empty.
Prelude(all) ==
    LET found(p) == Below(all, p) # {}
        Entries == UNION {Range(all[p].kv) : p \in {q \in Range(input.exposed) : q \in DOMAIN all}}
        FirstOf(p, k) == LET kv == all[p].kv
                             i == CHOOSE i \in DOMAIN kv : kv[i][1] = k /\ \A j \in 1 .. i - 1 : kv[j][1] # k
                         IN kv[i][2]
        Has(p, k) == p \in DOMAIN all /\ \E e \in Range(all[p].kv) : e[1] = k
        LastPath(k) == LET n == CHOOSE n \in DOMAIN input.exposed : Has(input.exposed[n], k)
                                    /\ \A m \in n + 1 .. Len(input.exposed) : ~Has(input.exposed[m], k)
                       IN input.exposed[n]
    IN IF \E p \in Range(input.exposed) : ~found(p) THEN <<>>
       ELSE [k \in {e[1] : e \in Entries} |-> FirstOf(LastPath(k), k)]

\* The variables are folded once more, the settings laid over them.
MakeData ==
    /\ stage = "roots" /\ at = Len(input.roots)
    /\ \E folded \in Folded(vars) :
         data' = OverlayData(folded, [p \in {<<n>> : n \in DOMAIN settings} |-> Leaf(settings[p[1]])])
    /\ prelude' = Prelude(data')
    /\ stage' = "expand"
    /\ UNCHANGED <<input, settings, templates, unmerged, vars, at, output>>

-----------------------------------------------------------------------------
(* Expansion *)

\* A path that is missing renders as no value; a field of anything but a map, and a
\* $variable the prelude does not define, are errors: {}.
expandTemplate(t) ==
    IF t.var # "" THEN {prelude[k] : k \in {t.var} \cap DOMAIN prelude}
    ELSE IF t.ref = <<>> THEN {t.text}
    ELSE IF t.ref \in DOMAIN data THEN {data[t.ref].text}
    ELSE IF \E n \in 1 .. Len(t.ref) - 1 : SubSeq(t.ref, 1, n) \in DOMAIN data THEN {}
    ELSE IF Below(data, t.ref) # {} THEN {"map"} ELSE {NoValue}

\* slices.Sort and slices.Compact of the tags.
Sorted(texts) ==
    [i \in 1 .. Cardinality(texts) |->
        CHOOSE x \in texts : Cardinality({y \in texts : Rank[y] < Rank[x]}) = i - 1]

Expanded(key, value) ==
    LET of == [i \in DOMAIN value.of |-> CHOOSE x \in expandTemplate(value.of[i]) : TRUE]
    IN [kind |-> value.kind,
        of |-> IF key = "tags" /\ value.kind = "list" THEN Sorted(Range(of)) ELSE of]

\* The keys come in the order of a Go map; the first error ends the command.
ExpandKey(key) ==
    /\ stage = "expand" /\ key \in DOMAIN templates \ DOMAIN output
    /\ IF \E i \in DOMAIN templates[key].of : expandTemplate(templates[key].of[i]) = {} THEN Fail
       ELSE /\ output' = Merge(output, [k \in {key} |-> Expanded(key, templates[key])])
            /\ UNCHANGED <<input, settings, templates, unmerged, vars, at, data, prelude, stage>>

WriteOutput ==
    /\ stage = "expand" /\ DOMAIN output = DOMAIN templates
    /\ stage' = "written"
    /\ UNCHANGED <<input, settings, templates, unmerged, vars, at, data, prelude, output>>

ExpandInit ==
    /\ input \in Inputs
    /\ settings = <<>> /\ templates = <<>> /\ unmerged = {} /\ vars = <<>> /\ at = 0
    /\ data = <<>> /\ prelude = <<>> /\ output = <<>> /\ stage = "stamps"

ExpandNext ==
    \/ ReadStamp \/ ParseRequest \/ TakeSettings
    \/ \E key \in unmerged : MergeFiles(key)
    \/ ProcessJSONVar \/ VarsRead \/ ApplyPathToRoot \/ MakeData
    \/ \E key \in DOMAIN templates : ExpandKey(key)
    \/ WriteOutput

-----------------------------------------------------------------------------
(* Properties *)

\* The text a setting must have: the request's own, else that of the last stamp
\* file that names it.
SettingOf(name) ==
    IF name \in DOMAIN input.settings THEN {input.settings[name]}
    ELSE {input.stamps[i][name] : i \in {j \in DOMAIN input.stamps :
            name \in DOMAIN input.stamps[j] /\ \A k \in j + 1 .. Len(input.stamps) : name \notin DOMAIN input.stamps[k]}}

\* The more specific source decides: build settings over stamp files, the last
\* stamp file over the others, both over JSON variables of the same name
\* (expandTemplates), and an explicit timestamp over the derived one
\* (deriveBuildTimestampRFC3339).
SettingsTakePrecedence ==
    stage \in {"expand", "written"} =>
        \A name \in DOMAIN settings :
            /\ data[<<name>>].text \in (IF SettingOf(name) # {} THEN SettingOf(name)
                                        ELSE {unixToRFC3339(IF SettingOf(Timestamp) = {} THEN ""
                                                ELSE CHOOSE x \in SettingOf(Timestamp) : TRUE)})
            /\ Below(data, <<name>>) = {<<name>>}

\* Every label or tag of a file reaches the output, and one that the request gives
\* itself does unless a file gives the key anew (mergeNewlineDelimitedFiles).
FilesReachTheOutput ==
    stage = "written" =>
        \A key \in DOMAIN input.files :
            LET files == {ParseFlexible(input.files[key][i]) : i \in DOMAIN input.files[key]}
                named == UNION {DOMAIN Flatten(f.pairs) : f \in {g \in files : g.kind = "pairs"}}
                items == UNION {Range(f.list) : f \in {g \in files : g.kind = "list"}}
                given == IF key \in DOMAIN input.templates THEN input.templates[key].of ELSE <<>>
            IN /\ named # {} => /\ output[key].kind = "map"
                                /\ DOMAIN output[key].of = named \cup DOMAIN given
                                /\ \A k \in named : \E f \in {g \in files : g.kind = "pairs"} :
                                      k \in DOMAIN Flatten(f.pairs)
                                        /\ expandTemplate(Flatten(f.pairs)[k]) = {output[key].of[k]}
               /\ items # {} => \A t \in items \cup (Range(given) \ {Literal("")}) :
                                    expandTemplate(t) \subseteq Range(output[key].of)

\* The last --json-var is there as a whole under its path, whatever the ones before
\* put there, and no leaf is there that no file has (processJSONVar).
LastVariableIsWhole ==
    stage = "roots" /\ at = 0 /\ input.jsonVars # <<>> =>
        LET last == input.jsonVars[Len(input.jsonVars)]
        IN \E value \in Folded(last.json) :
             /\ Below(vars, last.path) = {last.path \o q : q \in DOMAIN value}
             /\ \A q \in DOMAIN value : vars[last.path \o q] = value[q]

\* A name written in lower case finds a leaf of the JSON files however they write it,
\* and names that differ in more than case never hide each other: with no two names
\* that fold alike every leaf of the variables stays in the data or is replaced by a
\* setting.
LookupIgnoresCase ==
    stage \in {"expand", "written"} =>
        /\ \A p \in DOMAIN data : Len(p) > 1 => FoldPath(p) = p
        /\ \A p \in DOMAIN vars :
             (\A q \in DOMAIN vars : Apart(p, q)) =>
                \/ <<FoldPath(p)[1]>> \in DOMAIN data
                \/ FoldPath(p) \in DOMAIN data /\ data[FoldPath(p)] = vars[p]

\* Tags are handed on in order and without duplicates.
TagsAreOrdered ==
    "tags" \in DOMAIN output /\ output["tags"].kind = "list" =>
        \A i, j \in DOMAIN output["tags"].of : i < j => Rank[output["tags"].of[i]] < Rank[output["tags"].of[j]]

TemplatesAreExpanded ==
    SettingsTakePrecedence /\ FilesReachTheOutput /\ LastVariableIsWhole /\ LookupIgnoresCase /\ TagsAreOrdered
=============================================================================
