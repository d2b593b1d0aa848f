---------------------------- MODULE PeerMaterial ----------------------------
(***************************************************************************)
(* The files a gateway keeps fresh while it runs: the token files of       *)
(* pkg/serve/gateway/peerauth.go (Watch, tokensChanged, loadTokens) and    *)
(* the keypair and CA bundle of peertls.go (Watch, changed, Reload).       *)
(*                                                                         *)
(* The files are loaded in groups, each on its own: all token files, or    *)
(* the certificate with its key and then the CA bundle.  The files of a    *)
(* group are read one by one, put in force together, and stamped one by    *)
(* one after that; they may be replaced at any moment.                     *)
(***************************************************************************)
EXTENDS Naturals, Sequences, FiniteSets

CONSTANTS
    Groups,    \* a sequence of sequences of files
    Contents,  \* what a file may hold: a set of tokens, or a set with a version
    Malformed, \* contents that do not load: half-written, empty
    Gone,      \* the one of them that is no file at all: stat fails too
    Merged,    \* the files of a group add up (tokens); else they have to agree
    MaxWrites  \* bound on the writes of a behaviour

VARIABLES
    disk,     \* what each file holds
    written,  \* its size and modification time: how often it was written
    inForce,  \* the content of each file that is in force
    stamps,   \* the stamp of each file at its last load
    group,    \* the group being loaded, or 0
    todo,     \* its files still to be read, or to be stamped
    stage,    \* "idle", "reading" or "stamping"
    taken,    \* what was read
    failed,   \* a file of the group did not load
    raced,    \* history: the files replaced between their read and their stamp
    kept      \* history: what every content of a file that loads has held

vars == <<disk, written, inForce, stamps, group, todo, stage, taken, failed, raced, kept>>

Files == UNION {{Groups[g][i] : i \in DOMAIN Groups[g]} : g \in DOMAIN Groups}
GroupFiles(g) == {Groups[g][i] : i \in DOMAIN Groups[g]}

\* A stamp no file has: remember deletes the entry of a file it cannot stat.
Forgotten == MaxWrites + 1

\* The first load succeeds: a file that does not load is a startup error.
Init ==
    /\ \E c \in Contents : disk = [f \in Files |-> c]
    /\ written = [f \in Files |-> 0] /\ stamps = written
    /\ inForce = disk
    /\ group = 0 /\ todo = <<>> /\ stage = "idle"
    /\ taken = [f \in Files |-> {}] /\ failed = FALSE
    /\ raced = {} /\ kept = disk

Total(s) == LET sum[S \in SUBSET Files] == IF S = {} THEN 0 ELSE LET f == CHOOSE f \in S : TRUE IN s[f] + sum[S \ {f}]
            IN  sum[Files]

\* Somebody replaces a file.
Write(f, c) ==
    /\ Total(written) < MaxWrites /\ c # disk[f]
    /\ disk' = [disk EXCEPT ![f] = c]
    /\ written' = [written EXCEPT ![f] = @ + 1]
    /\ raced' = IF \/ stage = "reading" /\ f \in GroupFiles(group) /\ \A i \in DOMAIN todo : todo[i] # f
                   \/ stage = "stamping" /\ \E i \in DOMAIN todo : todo[i] = f
                THEN raced \cup {f} ELSE raced
    /\ kept' = IF c \in Malformed THEN kept ELSE [kept EXCEPT ![f] = @ \cap c]
    /\ UNCHANGED <<inForce, stamps, group, todo, stage, taken, failed>>

StartGroup(g) ==
    /\ group' = g
    /\ todo' = IF g = 0 THEN <<>> ELSE Groups[g]
    /\ stage' = IF g = 0 THEN "idle" ELSE "reading"
    /\ taken' = [f \in Files |-> {}] /\ failed' = FALSE
NextGroup == IF group = Len(Groups) THEN 0 ELSE group + 1

\* Watch: a tick that finds a file changed reloads every group.
Tick ==
    /\ stage = "idle"
    /\ \E f \in Files : disk[f] = Gone \/ stamps[f] # written[f]
    /\ StartGroup(1)
    /\ UNCHANGED <<disk, written, inForce, stamps, raced, kept>>

\* readTokenFile, LoadX509KeyPair and loadCA, one file at a time.
Read ==
    /\ stage = "reading" /\ todo # <<>>
    /\ LET f == Head(todo) IN
          IF disk[f] \in Malformed THEN failed' = TRUE /\ UNCHANGED taken
          ELSE taken' = [taken EXCEPT ![f] = disk[f]] /\ UNCHANGED failed
    /\ todo' = Tail(todo)
    /\ UNCHANGED <<disk, written, inForce, stamps, group, stage, raced, kept>>

Agrees == Merged \/ \A f, h \in GroupFiles(group) : taken[f] = taken[h]

\* loadTokens, loadCertificate, loadCA: in force as a whole, or not at all.
Install ==
    /\ stage = "reading" /\ todo = <<>>
    /\ IF failed \/ ~Agrees
       THEN StartGroup(NextGroup) /\ UNCHANGED inForce
       ELSE /\ inForce' = [f \in Files |-> IF f \in GroupFiles(group) THEN taken[f] ELSE inForce[f]]
            /\ stage' = "stamping" /\ todo' = Groups[group]
            /\ UNCHANGED <<group, taken, failed>>
    /\ UNCHANGED <<disk, written, stamps, raced, kept>>

\* remember, and the end of loadTokens.
Stamp ==
    /\ stage = "stamping" /\ todo # <<>>
    /\ LET f == Head(todo) IN stamps' = [stamps EXCEPT ![f] = IF disk[f] = Gone THEN Forgotten ELSE written[f]]
    /\ IF Len(todo) > 1 THEN todo' = Tail(todo) /\ UNCHANGED <<group, stage, taken, failed>>
       ELSE StartGroup(NextGroup)
    /\ UNCHANGED <<disk, written, inForce, raced, kept>>

Watch == Tick \/ Read \/ Install \/ Stamp
Next == Watch \/ \E f \in Files, c \in Contents \cup Malformed : Write(f, c)

Spec == Init /\ [][Next]_vars
-----------------------------------------------------------------------------
TypeOK ==
    /\ disk \in [Files -> Contents \cup Malformed] /\ inForce \in [Files -> Contents]
    /\ \A f \in Files : stamps[f] \in 0 .. written[f] \cup {Forgotten}
    /\ group \in 0 .. Len(Groups) /\ stage \in {"idle", "reading", "stamping"}

\* A rotation is seamless: a token that every token file which loads has held is
\* accepted throughout, whatever half-written, missing or replaced file a reload
\* meets on the way, and a certificate is never served with another one's key
\* ("keeping the previous set on any error", Reload of peerauth.go; "On failure
\* the previous material stays in force", Reload of peertls.go).
RotationIsSeamless ==
    \A g \in DOMAIN Groups :
        IF Merged THEN UNION {kept[f] : f \in GroupFiles(g)} \subseteq UNION {inForce[f] : f \in GroupFiles(g)}
        ELSE \A f, h \in GroupFiles(g) : inForce[f] = inForce[h]

\* A change of the files is in force, unless a file was replaced just after it was
\* read and before it was stamped (the end of loadTokens, remember): such a change
\* waits for the next one.
ChangeIsInForce ==
    \A g \in DOMAIN Groups :
        \/ GroupFiles(g) \cap raced # {}
        \/ \E f \in GroupFiles(g) : disk[f] \in Malformed \/ (~Merged /\ \E h \in GroupFiles(g) : disk[f] # disk[h])
        \/ \A f \in GroupFiles(g) : inForce[f] = disk[f]
=============================================================================
