------------------------------ MODULE MCPools ------------------------------
(***************************************************************************)
(* The two pools of the registry client and the parts of a gateway that    *)
(* have to get somewhere, each on an instance of its own and all in one    *)
(* run: a behaviour chooses one in its initial state and moves nothing     *)
(* else.  The parts but the first keep their variables in s1 .. s15.       *)
(*                                                                         *)
(*   slots      a streaming copy (a read that feeds an upload), a plain    *)
(*              upload, an existence check and a source lookup compete for *)
(*              one or two slots (SlotPool)                                *)
(*   pull       an index of two images from two registries (Pull)          *)
(*   match      patterns of up to four tokens (GatewayRequest)             *)
(*   request    two requests and a reload of the policy (GatewayRequest)   *)
(*   tokens     two token files that add up (PeerMaterial)                 *)
(*   keypair    a certificate with its key, and a CA bundle (PeerMaterial) *)
(*   discovery  two slices of a Service (PeerDiscovery)                    *)
(***************************************************************************)
EXTENDS SlotPool, Sequences, FiniteSets

CONSTANTS read, copy, upload, check, lookup

VARIABLES part, s1, s2, s3, s4, s5, s6, s7, s8, s9, s10, s11, s12, s13, s14, s15

slots == <<s1, s2, s3, s4, s5, s6, s7, s8, s9, s10, s11, s12, s13, s14, s15>>

\* A slot that a part does not use.
Unused == 0

slotVars == vars
partVars == <<part, slotVars, slots>>

------------------------------------------------------------------------------
SeqsUpTo(S, n) == UNION {[1 .. k -> S] : k \in 0 .. n}

\* The inputs of matchSegments and of matchOneSegment, a pattern and a name each.
SegmentInputs == SeqsUpTo({<<"a">>, <<"?">>, <<"*", "*">>}, 4) \X SeqsUpTo({<<"a">>, <<"b">>}, 3)
CharacterInputs == SeqsUpTo({"a", "b", "*", "?"}, 4) \X SeqsUpTo({"a", "b"}, 4)

------------------------------------------------------------------------------
(* Requests for two repositories of a registry, and for one of Docker Hub whose host has no dot. *)

RepoA == <<<<"a">>>>
RepoB == <<<<"b">>>>
GetBlob ==
    [path |-> "blob", method |-> "GET", host |-> <<"r", "io">>, repo |-> RepoA, ref |-> "d1", mount |-> <<>>,
     from |-> <<>>, digest |-> <<>>, parses |-> TRUE, valid |-> TRUE,
     headers |-> {"Authorization", "X-rules_img-Original-Host", "Accept"}]
Post(mount, from, digest) ==
    [GetBlob EXCEPT !.path = "upload", !.method = "POST", !.mount = mount, !.from = from, !.digest = digest]
ClientRequests ==
    {[GetBlob EXCEPT !.method = m] : m \in {"GET", "HEAD", "DELETE"}}
    \cup {[GetBlob EXCEPT !.method = "HEAD", !.headers = @ \cup {"Range"}], [GetBlob EXCEPT !.valid = FALSE],
          [GetBlob EXCEPT !.host = <<>>], [GetBlob EXCEPT !.host = <<"b">>]}
    \cup {Post(<<>>, <<>>, <<>>), Post(<<"d1">>, <<RepoB>>, <<>>), Post(<<"d1">>, <<RepoB>>, <<"d2">>),
          Post(<<"d1">>, <<RepoA, RepoB>>, <<>>), [Post(<<>>, <<>>, <<"d1">>) EXCEPT !.repo = RepoB]}
    \cup {[GetBlob EXCEPT !.path = "session", !.method = "PUT", !.digest = <<"d1">>],
          [GetBlob EXCEPT !.path = "session", !.method = "PATCH"]}
    \cup {[GetBlob EXCEPT !.path = p] : p \in {"health", "control", "version", "other"}}
    \cup {[GetBlob EXCEPT !.path = "manifest", !.method = m] : m \in {"HEAD", "PUT"}}

Rule(action, registry, repository, operations) ==
    [action |-> action, registry |-> registry, repository |-> repository, operations |-> operations]
PolicyFile(default, rules) == [version |-> 1, defaultAction |-> default, rules |-> rules]

Request == INSTANCE GatewayRequest WITH
    Requests <- ClientRequests,
    PolicyFiles <- {
        PolicyFile("deny", <<Rule("allow", <<"*", "io">>, RepoA, {"*"}), Rule("deny", <<"*">>, RepoB, {"blob:write"}),
                             Rule("allow", <<"r", "io">>, <<<<"*", "*">>>>, {"blob:read", "manifest:read"})>>),
        PolicyFile("deny", <<Rule("deny", <<"r", "io">>, RepoB, {"blob:read"}),
                             Rule("allow", <<"r", "io">>, <<<<"*">>>>, {"*"})>>),
        PolicyFile("allow", <<Rule("allow", <<"*">>, RepoA, {})>>)},
    Digests <- {"d1", "d2"}, Hub <- <<"h", "io">>, Gateway <- <<"g", "io">>, MaxRequests <- 2, MaxReloads <- 1,
    forwarder <- s1, policy <- s2, at <- s3, r <- s4, authz <- s5, answer <- s6, counted <- s7, blobs <- s8,
    cache <- s9, session <- s10, sent <- s11, held <- s12, stored <- s13, made <- s14, reloads <- s15

------------------------------------------------------------------------------
Tokens == INSTANCE PeerMaterial WITH
    Groups <- <<<<"t1", "t2">>>>, Contents <- {{"a"}, {"a", "b"}, {"b"}}, Malformed <- {{"bad"}, {"gone"}},
    Gone <- {"gone"}, Merged <- TRUE, MaxWrites <- 2,
    disk <- s1, written <- s2, inForce <- s3, stamps <- s4, group <- s5, todo <- s6, stage <- s7, taken <- s8,
    failed <- s9, raced <- s10, kept <- s11

KeyPair == INSTANCE PeerMaterial WITH
    Groups <- <<<<"cert", "key">>, <<"ca">>>>, Contents <- {{"1"}, {"2"}}, Malformed <- {{"bad"}, {"gone"}},
    Gone <- {"gone"}, Merged <- FALSE, MaxWrites <- 3,
    disk <- s1, written <- s2, inForce <- s3, stamps <- s4, group <- s5, todo <- s6, stage <- s7, taken <- s8,
    failed <- s9, raced <- s10, kept <- s11

------------------------------------------------------------------------------
Endpoint(url, id, ready, terminating) == [url |-> url, id |-> id, ready |-> ready, terminating |-> terminating]

Discovery == INSTANCE PeerDiscovery WITH
    SliceNames <- {"s1", "s2"}, Self <- "self", MaxChanges <- 3, MaxFailures <- 2,
    SliceStates <- {{}, {Endpoint("u1", "g1", TRUE, FALSE), Endpoint("u0", "self", TRUE, FALSE)},
                    {Endpoint("u1", "g1", FALSE, FALSE), Endpoint("u2", "g2", TRUE, FALSE)},
                    {Endpoint("u1", "g1", TRUE, TRUE)}},
    history <- s1, seen <- s2, slices <- s3, peers <- s4, settled <- s5, mode <- s6, silent <- s7, failures <- s8

------------------------------------------------------------------------------
From9 == <<s9, s10, s11, s12, s13, s14, s15>>
From12 == <<s12, s13, s14, s15>>
Unused12 == s12 = Unused /\ s13 = Unused /\ s14 = Unused /\ s15 = Unused
Unused11 == s11 = Unused /\ Unused12
Unused9 == s9 = Unused /\ s10 = Unused /\ Unused11
Unused3 == s3 = Unused /\ s4 = Unused /\ s5 = Unused /\ s6 = Unused /\ s7 = Unused /\ s8 = Unused /\ Unused9
UnusedSlots == s1 = Unused /\ s2 = Unused /\ Unused3

GatewayInit ==
    \/ part = "match" /\ s1 = "segments" /\ s2 \in SegmentInputs /\ Unused3
    \/ part = "match" /\ s1 = "characters" /\ s2 \in CharacterInputs /\ Unused3
    \/ part = "request" /\ Request!Init
    \/ part = "tokens" /\ Tokens!Init /\ Unused12
    \/ part = "keypair" /\ KeyPair!Init /\ Unused12
    \/ part = "discovery" /\ Discovery!DiscoveryInit /\ Unused9

GatewayNext ==
    \/ part = "request" /\ Request!Next
    \/ part = "tokens" /\ Tokens!Next /\ UNCHANGED From12
    \/ part = "keypair" /\ KeyPair!Next /\ UNCHANGED From12
    \/ part = "discovery" /\ Discovery!DiscoveryNext /\ UNCHANGED From9

\* The steps of a handler or a loop that runs, as against what clients, operators and
\* the control plane do.
GatewaySteps ==
    \/ part = "request" /\ Request!Serve
    \/ part = "tokens" /\ Tokens!Watch /\ UNCHANGED From12
    \/ part = "keypair" /\ KeyPair!Watch /\ UNCHANGED From12
    \/ part = "discovery" /\ Discovery!Run /\ UNCHANGED From9

------------------------------------------------------------------------------
AllRequests == {read, copy, upload, check, lookup}
MCRoleOf == [r \in Requests |->
    CASE r \in {read, copy} -> "auto"
      [] r = lookup -> "source"
      [] OTHER -> "destination"]
MCMethodOf == [r \in Requests |->
    CASE r = read -> "GET"
      [] r = copy -> "PATCH"
      [] r = upload -> "PUT"
      [] OTHER -> "HEAD"]
MCFeed == [r \in Requests |-> IF r = copy THEN read ELSE NoFeed]

Mode(command, eager, airgapped) == [command |-> command, eager |-> eager, airgapped |-> airgapped]

Puller == INSTANCE Pull WITH
    Manifests <- {"m1", "m2"}, Root <- "ix", Config <- [m \in {"m1", "m2"} |-> "c"],
    Layers <- [m1 |-> {"l1"}, m2 |-> {"l1", "l2"}], Sources <- 2, Concurrency <- 2,
    Modes <- {Mode("pull", TRUE, FALSE), Mode("pull", FALSE, TRUE), Mode("blob", FALSE, FALSE),
              Mode("manifest", FALSE, FALSE)},
    Announced <- {"ix", "m1", "c"}, MaxFailures <- 1, MaxCrashes <- 1,
    mode <- s1, attempt <- s2, phase <- s3, file <- s4, cache <- s5, queue <- s6, todo <- s7, failed <- s8,
    failures <- s9, crashes <- s10

From11 == <<s11, s12, s13, s14, s15>>

PoolsInit ==
    /\ Init /\ (part = "slots" \/ ~envLimit)
    /\ \/ part = "slots" /\ UnusedSlots
       \/ part = "pull" /\ Puller!Init /\ Unused11
       \/ GatewayInit

Slots(step) == part = "slots" /\ step /\ UNCHANGED <<part, slots>>
Pulls(step) == part = "pull" /\ step /\ UNCHANGED <<part, slotVars, From11>>
Serves(step) == step /\ UNCHANGED <<part, slotVars>>

PoolsNext == Slots(Next) \/ Pulls(Puller!Next) \/ Serves(GatewayNext)

\* The fairness of the part that moves.
PoolsFairness ==
    /\ \A r \in Requests :
          /\ WF_partVars(Slots(Wake(r)))
          /\ WF_partVars(Slots(\E outcome \in {"ok", "other", "error"} : RoundTrip(r, outcome)))
          /\ WF_partVars(Slots(CloseBody(r)))
    /\ WF_partVars(Pulls(Puller!Step) \/ Serves(GatewaySteps))

PoolsSpec == PoolsInit /\ [][PoolsNext]_partVars /\ PoolsFairness

-----------------------------------------------------------------------------
(* Properties: those of the parts; SlotAccounting, NoLostWakeup and         *)
(* AdmissionIsOrderly are SlotPool's.                                      *)

\* A pull that succeeds has left every blob whole (pullFromRegistry).
PullIsSound == part = "pull" => Puller!PullIsSound

\* A gateway decides each request by one policy that was in force, and the policy by what
\* its patterns mean; passes on what the registry said and nothing of its own hop
\* (policy.go, gateway.go, forward.go); keeps its credentials through every rotation
\* (peerauth.go, peertls.go); and knows the peers of one version of its Service (peers.go).
GatewayIsSound ==
    /\ part = "match" => IF s1 = "segments" THEN Request!SegmentsAreMatched(s2[1], s2[2])
                         ELSE Request!CharactersAreMatched(s2[1], s2[2])
    /\ part = "request" => Request!TypeOK /\ Request!RequestsAreSound
    /\ part = "tokens" => Tokens!TypeOK /\ Tokens!RotationIsSeamless
    /\ part = "keypair" => KeyPair!TypeOK /\ KeyPair!RotationIsSeamless
    /\ part = "discovery" => Discovery!DiscoveryTypeOK /\ Discovery!PeersAreOfOneVersion

\* What the parts get to, again and again.
GatewayIsThere ==
    /\ part = "request" => s3 = "idle"
    /\ part = "tokens" => Tokens!ChangeIsInForce
    /\ part = "keypair" => KeyPair!ChangeIsInForce
    /\ part = "discovery" => Discovery!PeersAreCurrent

\* Whoever asks for a slot ends and gives it back; a pull ends although its workers
\* stop at the first error (workerPool); every request to a gateway is answered, and
\* a change of the credential files or of the Service is in force in the end, whatever
\* watch fell silent (serve, Watch, run).
PoolsEnd == []<>(/\ Settled
                 /\ part = "pull" => s3 \in Puller!Over
                 /\ GatewayIsThere)
=============================================================================
