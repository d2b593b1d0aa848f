--------------------------- MODULE GatewayRequest ---------------------------
(***************************************************************************)
(* One registry request on its way from a client through a gateway, with   *)
(* or without a forwarding gateway in front of it, to the upstream and     *)
(* back: pkg/gateway/gateway.go (the client's transport), and, in          *)
(* pkg/serve/gateway, forward.go, gateway.go (serve, forward), classify.go,*)
(* errclass.go, policy.go and the error accounting of metrics.go.          *)
(* Requests come one after another; the policy may be reloaded at any      *)
(* moment.                                                                 *)
(*                                                                         *)
(* A request is a record                                                   *)
(*   [path    "health", "control", "version", "tags", "referrers",         *)
(*            "upload", "session", "blob", "manifest" or "other",          *)
(*    method, host (the labels the header names), repo, ref (a digest or a *)
(*    tag), mount, from, digest (the values of the query), parses (the     *)
(*    query does), valid (name.NewRepository takes it), headers]           *)
(***************************************************************************)
EXTENDS Naturals, Sequences, FiniteSets

CONSTANTS
    Requests,     \* what clients ask
    PolicyFiles,  \* the policy files an operator may write
    Digests,      \* references that are digests
    Hub,          \* index.docker.io
    Gateway,      \* the host of the gateway's endpoint
    MaxRequests,  \* bound on the requests of a behaviour
    MaxReloads    \* bound on the reloads

VARIABLES
    forwarder, \* the client talks to a forwarding gateway
    policy,    \* Handler.policy
    at,        \* how far the request is
    r,         \* the request
    authz,     \* the policy serve loaded
    answer,    \* [status, by (who decided it), gatewayError, location]
    counted,   \* of each hop: the errors obs.fail has counted
    blobs,     \* the upstream: <<host, repository, digest>>
    cache,     \* the blob existence cache
    session,   \* the upload session the client was given, with its Location
    sent,      \* history: what went upstream for this request
    held,      \* history: the policies in force since the request came
    stored,    \* history: the blobs the upstream has ever held
    made, reloads

vars == <<forwarder, policy, at, r, authz, answer, counted, blobs, cache, session, sent, held, stored, made, reloads>>
history == <<held, stored, made, reloads>>

-----------------------------------------------------------------------------
(* policy.go.  A host is the sequence of its labels and a repository the sequence of its  *)
(* segments; a segment, and a segment of a pattern, is the sequence of its characters.    *)

Operations == {"blob:read", "blob:write", "manifest:read", "manifest:write"}

\* The loop of matchSegments and matchOneSegment: greedy, with one place to go back to,
\* that of its last star and of what followed it.
Greedy(p, s, star, One(_, _)) ==
    LET Places == {<<>>} \cup ((1 .. Len(p)) \X (1 .. Len(s) + 1))
        loop[pi \in 1 .. Len(p) + 1, ni \in 1 .. Len(s) + 1, back \in Places] ==
            IF ni > Len(s) THEN \A i \in pi .. Len(p) : p[i] = star
            ELSE IF pi <= Len(p) /\ One(p[pi], s[ni]) THEN loop[pi + 1, ni + 1, back]
            ELSE IF pi <= Len(p) /\ p[pi] = star THEN loop[pi + 1, ni, <<pi, ni>>]
            ELSE IF back = <<>> THEN FALSE
            ELSE loop[back[1] + 1, back[2] + 1, <<back[1], back[2] + 1>>]
    IN  loop[1, 1, <<>>]

\* The characters loop compares before it looks for a star, the segments loop after.
OneCharacter(p, c) == p = "?" \/ p = c
matchOneSegment(p, s) == Greedy(p, s, "*", OneCharacter)
OneSegment(p, s) == p # <<"*", "*">> /\ matchOneSegment(p, s)
matchSegments(p, repo) == Greedy(p, repo, <<"*", "*">>, OneSegment)

\* hostPattern.match: "*", a suffix that needs a label before it, or the host.
HostMatches(p, host) ==
    IF p = <<"*">> THEN TRUE
    ELSE IF p[1] = "*"
         THEN Len(host) >= Len(p) /\ SubSeq(host, Len(host) - Len(p) + 2, Len(host)) = Tail(p)
         ELSE host = p

\* compileHostPattern
HostPatternIsValid(p) ==
    \/ p = <<"*">>
    \/ p[1] = "*" /\ Len(p) > 1 /\ \A i \in 2 .. Len(p) : p[i] # "*"
    \/ \A i \in DOMAIN p : p[i] # "*"

\* parseOperations: the set the tokens of a rule name.
OperationSet(tokens) == IF "*" \in tokens THEN Operations ELSE tokens
OperationsAreValid(tokens) == tokens # {} /\ tokens \subseteq Operations \cup {"*"}

\* compilePolicy: any problem is an error and no policy comes out.  A policy file
\* is [version, defaultAction, rules], a rule [action, registry, repository,
\* operations].
PolicyIsValid(cfg) ==
    /\ cfg.version = 1
    /\ cfg.defaultAction \in {"", "deny", "allow"}
    /\ \A i \in DOMAIN cfg.rules :
          LET rule == cfg.rules[i] IN
          /\ rule.action \in {"allow", "deny"}
          /\ rule.registry # <<>> /\ HostPatternIsValid(rule.registry)
          /\ rule.repository # <<>>
          /\ OperationsAreValid(rule.operations)

compilePolicy(cfg) ==
    [defaultAllow |-> cfg.defaultAction = "allow",
     rules |-> [i \in DOMAIN cfg.rules |->
        [host |-> cfg.rules[i].registry, repo |-> cfg.rules[i].repository,
         ops |-> OperationSet(cfg.rules[i].operations), allow |-> cfg.rules[i].action = "allow"]]]

\* A gateway without a policy denies everything, and AllowAll allows it.
DenyAll == [defaultAllow |-> FALSE, rules |-> <<>>]
AllowAll == [defaultAllow |-> TRUE, rules |-> <<>>]

\* RegistryAllowed: the default allows, or some rule names the host.
RegistryAllowed(p, host) ==
    p.defaultAllow \/ \E i \in DOMAIN p.rules : HostMatches(p.rules[i].host, host)

\* decideOp: the first rule that speaks to the operation decides.
decideOp(p, host, repo, op) ==
    LET speaks == {i \in DOMAIN p.rules : op \in p.rules[i].ops /\ HostMatches(p.rules[i].host, host)
                                             /\ matchSegments(p.rules[i].repo, repo)}
    IN  IF speaks = {} THEN p.defaultAllow
        ELSE p.rules[CHOOSE i \in speaks : \A j \in speaks : i <= j].allow

\* Decide: a HEAD is allowed when the read or the write is.
Decide(p, host, repo, requirement) == \E op \in requirement : decideOp(p, host, repo, op)

\* ReachesAnyHost: what the warning at startup is about.
ReachesAnyHost(p) ==
    p.defaultAllow \/ \E i \in DOMAIN p.rules : p.rules[i].allow /\ p.rules[i].host = <<"*">>

-----------------------------------------------------------------------------
NoAnswer == [status |-> 0, by |-> "nobody", gatewayError |-> "", location |-> <<>>]
NoSession == [host |-> <<>>, repo |-> <<>>, next |-> <<>>]
Nothing == [host |-> <<>>, headers |-> {}]
Hops == {"forwarder", "gateway"}

Init ==
    /\ forwarder \in BOOLEAN
    /\ policy \in {compilePolicy(cfg) : cfg \in {c \in PolicyFiles : PolicyIsValid(c)}}
    /\ at = "idle" /\ r = <<>> /\ authz = DenyAll
    /\ answer = NoAnswer /\ counted = [h \in Hops |-> 0]
    /\ blobs = {} /\ cache = {} /\ session = NoSession /\ sent = Nothing
    /\ held = {} /\ stored = {} /\ made = 0 /\ reloads = 0

-----------------------------------------------------------------------------
(* classify.go *)

Uploading == r.path \in {"upload", "session"}
Blob == r.path = "blob"

\* classify: the operations of which one has to be allowed.
Requirement ==
    IF Uploading THEN {"blob:write"}
    ELSE IF Blob THEN IF r.method = "GET" THEN {"blob:read"}
                      ELSE IF r.method = "HEAD" THEN {"blob:read", "blob:write"} ELSE {"blob:write"}
    ELSE IF r.path = "manifest" /\ r.method = "HEAD" THEN {"manifest:read", "manifest:write"}
    ELSE IF r.path = "manifest" /\ r.method # "GET" THEN {"manifest:write"}
    ELSE {"manifest:read"}

MalformedQuery ==
    Uploading /\ r.method = "POST" /\ (~r.parses \/ Len(r.mount) > 1 \/ Len(r.from) > 1)
MountFrom ==
    IF Uploading /\ r.method = "POST" /\ ~MalformedQuery /\ Len(r.mount) = 1 /\ Len(r.from) = 1
    THEN r.from[1] ELSE <<>>

\* committedDigest: the blob a POST or a PUT puts in the repository when it is
\* answered 201; a query that names two blobs names none.
committedDigest ==
    IF r.method = "POST" /\ Len(r.mount) = 1 /\ Len(r.from) = 1 /\ r.digest = <<>> THEN r.mount[1]
    ELSE IF Len(r.digest) = 1 /\ r.mount = <<>> THEN r.digest[1] ELSE "none"

\* request.digest
Digest ==
    LET ref == IF Uploading /\ r.method \in {"POST", "PUT"} /\ r.parses /\ ~MalformedQuery THEN committedDigest
               ELSE IF Blob /\ r.method \in {"GET", "HEAD", "DELETE"} THEN r.ref ELSE "none"
    IN  IF ref \in Digests THEN ref ELSE "none"

\* name.NewRepository: a host without a dot is a repository of Docker Hub.
\* NewRegistry takes the host as it is.
Resolved(host, repo) ==
    IF Len(host) = 1 THEN [host |-> Hub, repo |-> <<host>> \o repo]
    ELSE [host |-> host, repo |-> IF host = Hub /\ Len(repo) = 1 THEN <<<<"library">>>> \o repo ELSE repo]
Target == Resolved(r.host, r.repo)
Key == <<Target.host, Target.repo, Digest>>

-----------------------------------------------------------------------------
(* errclass.go and metrics.go *)

\* statusErrorType, as far as the accounting needs it.
IsError(status) == status >= 400 /\ status # 404

\* observation.fail: only the first failure of a request is counted.
fail(counts, hop, errors) ==
    [counts EXCEPT ![hop] = IF @ > 0 \/ errors = 0 THEN @ ELSE 1]

\* writeError: the gateway's own answer.
Reject(status) ==
    /\ answer' = [NoAnswer EXCEPT !.status = status, !.by = "gateway"]
    /\ counted' = fail(counted, "gateway", 1)
    /\ at' = "answered"

-----------------------------------------------------------------------------
(* The client *)

\* transport.RoundTrip: the header is the host of the URL, credentials stay behind.
Ask(q) ==
    /\ at = "idle" /\ made < MaxRequests
    /\ r' = [q EXCEPT !.headers = @ \ {"Authorization"}]
    /\ made' = made + 1 /\ at' = IF forwarder THEN "forwarder" ELSE "gateway"
    /\ held' = {policy}
    /\ UNCHANGED <<forwarder, policy, authz, answer, counted, blobs, cache, session, sent, stored, reloads>>

\* A request of a client, or the next one of the session it has, at the URL the
\* Location header named.
Begin ==
    \/ \E q \in {q \in Requests : q.path # "session"} : Ask(q)
    \/ /\ session # NoSession
       /\ \E q \in {q \in Requests : q.path = "session"} :
            Ask([q EXCEPT !.host = session.next, !.repo = session.repo])

Reload(cfg) ==
    /\ reloads < MaxReloads /\ reloads' = reloads + 1
    /\ policy' = IF PolicyIsValid(cfg) THEN compilePolicy(cfg) ELSE policy
    /\ held' = held \cup {policy'}
    /\ UNCHANGED <<forwarder, at, r, authz, answer, counted, blobs, cache, session, sent, stored, made>>

-----------------------------------------------------------------------------
(* The forwarding gateway *)

\* What a forwarder answers itself.
Refuse(status) ==
    /\ answer' = [NoAnswer EXCEPT !.status = status, !.by = "forwarder"]
    /\ counted' = fail(counted, "forwarder", 1)
    /\ at' = "done" /\ UNCHANGED r

\* ForwardHandler.ServeHTTP and rewrite: the control endpoints stop here; the
\* credential may be unreadable and the peer unreachable.
Relay ==
    /\ at = "forwarder"
    /\ \/ r.path = "control" /\ Refuse(404)
       \/ r.path # "control" /\ (Refuse(503) \/ Refuse(499))
       \/ /\ r.path # "control" /\ at' = "gateway"
          /\ r' = [r EXCEPT !.headers = (@ \ {"X-Forwarded-For", "Expect"}) \cup
                                        {"Authorization", "X-rules_img-Forwarded-By", "X-rules_img-Request-Id"}]
          /\ UNCHANGED <<answer, counted>>
    /\ UNCHANGED <<forwarder, policy, authz, blobs, cache, session, sent, history>>

\* peerRejectionFrom: the peer refused this gateway, it did not pass an answer on.
peerRejectionFrom(a) ==
    a.status >= 400 /\ a.gatewayError \in
        {"peer_unauthenticated", "peer_bad_credential", "peer_identity_denied", "peer_auth_failed"}

\* peerError: never a 401.
PeerError(a) ==
    [NoAnswer EXCEPT !.by = "forwarder", !.status =
        IF a.gatewayError = "peer_identity_denied" THEN 403
        ELSE IF a.gatewayError = "peer_auth_failed" THEN 503 ELSE 502]

\* modifyResponse, peerError and peerResponse on the way back; a response whose
\* body was cut short is cut short again.
Relayed ==
    /\ at \in {"answered", "aborted"}
    /\ IF forwarder
       THEN /\ answer' = IF peerRejectionFrom(answer) THEN PeerError(answer) ELSE answer
            /\ counted' = fail(counted, "forwarder",
                               IF at = "aborted" \/ peerRejectionFrom(answer) \/ IsError(answer.status) THEN 1 ELSE 0)
       ELSE UNCHANGED <<answer, counted>>
    /\ session' = IF at = "answered" /\ answer.location # <<>>
                  THEN [host |-> Target.host, repo |-> r.repo, next |-> answer.location] ELSE session
    /\ at' = IF at = "aborted" THEN "cut" ELSE "done"
    /\ UNCHANGED <<forwarder, policy, r, authz, blobs, cache, sent, history>>

-----------------------------------------------------------------------------
(* The serving gateway *)

\* peerAuthResponse
RejectPeer(status, errType) ==
    /\ answer' = [NoAnswer EXCEPT !.status = status, !.by = "gateway", !.gatewayError = errType]
    /\ counted' = fail(counted, "gateway", 1)
    /\ at' = "answered"

\* serve up to the policy: health, authentication, the control endpoints, which
\* live on a listener of their own here.
Authenticate ==
    /\ at = "gateway"
    /\ IF r.path = "health"
       THEN /\ \E status \in {200, 503} : answer' = [NoAnswer EXCEPT !.status = status, !.by = "health"]
            /\ at' = "answered" /\ UNCHANGED counted
       ELSE \/ RejectPeer(401, "peer_unauthenticated") \/ RejectPeer(401, "peer_bad_credential")
            \/ RejectPeer(403, "peer_identity_denied") \/ RejectPeer(503, "peer_auth_failed")
            \/ r.path = "control" /\ Reject(404)
            \/ r.path # "control" /\ at' = "authenticated" /\ UNCHANGED <<answer, counted>>
    /\ UNCHANGED <<forwarder, policy, r, authz, blobs, cache, session, sent, history>>

\* The policy is loaded once for a request.
Load ==
    /\ at = "authenticated"
    /\ authz' = policy /\ at' = "loaded"
    /\ UNCHANGED <<forwarder, policy, r, answer, counted, blobs, cache, session, sent, history>>

\* serve: the checks up to Decide.
Admit ==
    /\ at = "loaded"
    /\ IF r.host = <<>> THEN Reject(400)
       ELSE IF r.path = "version"
            THEN IF ~RegistryAllowed(authz, r.host) THEN Reject(403)
                 ELSE /\ answer' = [NoAnswer EXCEPT !.status = 200, !.by = "gateway"]
                      /\ at' = "answered" /\ UNCHANGED counted
       ELSE IF r.path = "other" THEN Reject(404)
       ELSE IF MalformedQuery \/ ~r.valid THEN Reject(400)
       ELSE IF ~RegistryAllowed(authz, Target.host) \/ ~Decide(authz, Target.host, Target.repo, Requirement) THEN Reject(403)
       ELSE at' = "admitted" /\ UNCHANGED <<answer, counted>>
    /\ UNCHANGED <<forwarder, policy, r, authz, blobs, cache, session, sent, history>>

\* Mutant: the source of a mount is decided by the policy in force now.
mountSourceReadableNow(p) ==
    LET from == Resolved(r.host, MountFrom)
    IN  RegistryAllowed(policy, from.host) /\ Decide(policy, from.host, from.repo, {"blob:read"})

mountSourceReadable(p) ==
    LET from == Resolved(r.host, MountFrom)
    IN  RegistryAllowed(p, from.host) /\ Decide(p, from.host, from.repo, {"blob:read"})

\* cacheableBlobHead
CacheableHead == Blob /\ r.method = "HEAD" /\ Digest # "none" /\ "Range" \notin r.headers

\* serve: the source of a mount, then the cache, then the upstream.
Permit ==
    /\ at = "admitted"
    /\ IF MountFrom # <<>> /\ ~mountSourceReadable(authz) THEN Reject(403)
       ELSE IF CacheableHead /\ Key \in cache
            THEN answer' = [NoAnswer EXCEPT !.status = 200, !.by = "cache"] /\ at' = "answered" /\ UNCHANGED counted
            ELSE at' = "permitted" /\ UNCHANGED <<answer, counted>>
    /\ UNCHANGED <<forwarder, policy, r, authz, blobs, cache, session, sent, history>>

\* copyHeader
Reserved == {"X-rules_img-Original-Host", "X-rules_img-Forwarded-By", "X-rules_img-Request-Id"}
Dropped == {"Authorization", "X-Forwarded-For", "Connection", "Named-By-Connection"}

\* forward: the handshake may fail.
Forward ==
    /\ at = "permitted"
    /\ \/ Reject(502) /\ UNCHANGED sent
       \/ /\ at' = "upstream"
          /\ sent' = [host |-> Target.host, headers |-> r.headers \ (Reserved \cup Dropped)]
          /\ UNCHANGED <<answer, counted>>
    /\ UNCHANGED <<forwarder, policy, r, authz, blobs, cache, session, history>>

\* What the registry makes of the request: its status, the blobs it then holds,
\* whether it names the digest, and the form of a Location.  The URI goes upstream
\* as it came, while the token is for the resolved repository: a registry refuses
\* a token for another repository than the one the URI names.
Outcome(status, then) == [status |-> status, blobs |-> then, named |-> FALSE, location |-> "none"]
At(d) == <<Target.host, Target.repo, d>>
From(d) == LET from == Resolved(r.host, MountFrom) IN <<from.host, from.repo, d>>
Opened == {[Outcome(202, blobs) EXCEPT !.location = l] : l \in {"relative", "absolute"}}
Stores(d) == {Outcome(201, blobs \cup {At(d)})}
Registry ==
    {Outcome(status, blobs) : status \in {401, 403, 404, 429, 500}} \cup
    (IF r.repo # Target.repo THEN {}
     ELSE IF r.path = "upload" /\ r.method = "POST" THEN
        (IF r.mount = <<>> \/ r.from = <<>> \/ From(r.mount[1]) \notin blobs THEN {} ELSE Stores(r.mount[1])) \cup
        (IF r.digest = <<>> THEN {} ELSE Stores(r.digest[1])) \cup Opened
     ELSE IF r.path = "session" /\ r.method = "PUT" THEN
        IF Target.host = session.host /\ r.digest # <<>> THEN Stores(r.digest[1]) ELSE {}
     ELSE IF Uploading THEN Opened
     ELSE IF Blob /\ r.method = "DELETE" THEN {Outcome(202, blobs \ {At(r.ref)}), Outcome(500, blobs \ {At(r.ref)})}
     ELSE IF Blob /\ At(r.ref) \in blobs THEN {[Outcome(200, blobs) EXCEPT !.named = b] : b \in BOOLEAN}
     ELSE IF Blob THEN {} ELSE {Outcome(200, blobs)})

\* rememberBlob
Remembers(o) ==
    /\ Digest # "none"
    /\ \/ CacheableHead /\ o.status = 200
       \/ Blob /\ r.method = "GET" /\ o.status = 200 /\ o.named
       \/ Uploading /\ o.status = 201

\* forgetDeletedBlob
Forgets == Blob /\ r.method = "DELETE" /\ Digest # "none"

\* rewriteLocation: a relative one becomes one of the upstream.
rewriteLocation(l) == Target.host

\* forward: the round trip, with or without an answer; the headers go out.
Do ==
    /\ at = "upstream"
    /\ \E o \in Registry :
        /\ blobs' = o.blobs /\ stored' = stored \cup o.blobs
        /\ \/ /\ Reject(502)
              /\ cache' = IF Forgets THEN cache \ {Key} ELSE cache
           \/ /\ answer' = [NoAnswer EXCEPT !.status = o.status, !.by = "registry", !.location =
                               IF o.location = "none" THEN <<>> ELSE rewriteLocation(o.location)]
              /\ counted' = fail(counted, "gateway", IF IsError(o.status) THEN 1 ELSE 0)
              /\ cache' = (IF Remembers(o) THEN cache \cup {Key} ELSE cache) \ (IF Forgets THEN {Key} ELSE {})
              /\ at' = IF r.method = "HEAD" THEN "answered" ELSE "copying"
    /\ UNCHANGED <<forwarder, policy, r, authz, session, sent, held, made, reloads>>

\* forward: the body; a copy that fails aborts the response.
Copy ==
    /\ at = "copying"
    /\ \/ at' = "answered" /\ UNCHANGED counted
       \/ at' = "aborted" /\ counted' = fail(counted, "gateway", 1)
    /\ UNCHANGED <<forwarder, policy, r, authz, answer, blobs, cache, session, sent, history>>

\* The client has its answer and the handlers have returned.
Reset ==
    /\ at \in {"done", "cut"}
    /\ at' = "idle" /\ r' = <<>> /\ authz' = DenyAll
    /\ answer' = NoAnswer /\ counted' = [h \in Hops |-> 0] /\ sent' = Nothing /\ held' = {}
    /\ UNCHANGED <<forwarder, policy, blobs, cache, session, stored, made, reloads>>

Serve == Relay \/ Relayed \/ Authenticate \/ Load \/ Admit \/ Permit \/ Forward \/ Do \/ Copy \/ Reset
Next == Begin \/ Serve \/ \E cfg \in PolicyFiles : Reload(cfg)

Spec == Init /\ [][Next]_vars
-----------------------------------------------------------------------------
TypeOK ==
    /\ at \in {"idle", "forwarder", "gateway", "authenticated", "loaded", "admitted", "permitted", "upstream",
               "copying", "answered", "aborted", "done", "cut"}
    /\ counted \in [Hops -> Nat] /\ blobs \subseteq stored

\* A request that goes upstream was allowed as a whole, its mount source
\* included, by one policy that was in force while it was served: a reload
\* never splits its decisions (gateway.go, serve: "Snapshot the policy once").
OnePolicyDecides ==
    at \in {"permitted", "upstream", "copying"} =>
        \E p \in held : /\ Decide(p, Target.host, Target.repo, Requirement)
                        /\ MountFrom # <<>> => mountSourceReadable(p)

\* Behind a forwarder a client sees 401 only from the registry itself, and what
\* the registry answered it sees unchanged (forward.go, peerError).
RejectionsStayApart ==
    at = "done" /\ forwarder /\ answer.status = 401 => answer.by = "registry"

\* Each hop a request went through counts one error when the request failed or
\* was cut short, and never two (metrics.go, fail).
ErrorsAreCountedOnce ==
    /\ \A h \in Hops : counted[h] <= 1
    /\ at = "cut" \/ (at = "done" /\ IsError(answer.status)) =>
          /\ forwarder => counted["forwarder"] = 1
          /\ answer.by \in {"gateway", "registry"} => counted["gateway"] = 1

\* The cache only ever learns of blobs the registry has held under that name:
\* no query, however it reads, teaches it another one (classify.go,
\* committedDigest; gateway.go, rememberBlob).
CacheLearnsFacts == cache \subseteq stored

\* The next step of an upload goes to the registry that opened the session,
\* however it spelled the Location (gateway.go, rewriteLocation).
SessionsAreFollowed ==
    at = "upstream" /\ r.path = "session" => sent.host = session.host

\* Nothing of the hop between client and gateway, no credential and no control
\* header, goes upstream (gateway.go, copyHeader).
HeadersStayOnTheirHop == sent.headers \cap ({"Authorization"} \cup Reserved) = {}

RequestsAreSound ==
    OnePolicyDecides /\ RejectionsStayApart /\ ErrorsAreCountedOnce /\ CacheLearnsFacts
    /\ SessionsAreFollowed /\ HeadersStayOnTheirHop

\* What a pattern means: a token of p that is a star stands for any number of elements
\* of s, and any other one for a single element that One relates it to.
Glob(p, s, star, One(_, _)) ==
    LET g[i \in 1 .. Len(p) + 1, j \in 1 .. Len(s) + 1] ==
        IF i > Len(p) THEN j > Len(s)
        ELSE \/ p[i] = star /\ (g[i + 1, j] \/ (j <= Len(s) /\ g[i, j + 1]))
             \/ p[i] # star /\ j <= Len(s) /\ One(p[i], s[j]) /\ g[i + 1, j + 1]
    IN  g[1, 1]

\* One place to go back to is enough: either loop answers what the pattern means
\* (policy.go, matchOneSegment and matchSegments).
CharactersAreMatched(p, s) == matchOneSegment(p, s) <=> Glob(p, s, "*", OneCharacter)
SegmentsAreMatched(p, repo) ==
    matchSegments(p, repo) <=>
        Glob(p, repo, <<"*", "*">>, LAMBDA q, s : Glob(q, s, "*", OneCharacter))
=============================================================================
