------------------------------ MODULE PeerAuth ------------------------------
(***************************************************************************)
(* How a gateway identifies its clients: PeerAuth of                       *)
(* pkg/serve/gateway/peerauth.go.  A client connects, with a certificate   *)
(* or without one, and sends requests on the connection while time passes, *)
(* certificates expire, and the API server that reviews ServiceAccount     *)
(* tokens comes, goes and changes its mind.                                *)
(*                                                                         *)
(* A certificate is [names (its SPIFFE ID and DNS names, each a sequence   *)
(* of labels), until]; an entry of the allow-list [wildcard, labels].      *)
(***************************************************************************)
EXTENDS Integers, Sequences, FiniteSets

CONSTANTS
    Clients,      \* connections, each with one request at a time
    Certificates, \* what a client may connect with
    Allowed,      \* allowedIDs; none at all allows every certificate
    Static,       \* the static tokens in force
    Accounts,     \* ServiceAccount tokens
    Strangers,    \* tokens of no account
    Minds,        \* what a review may say: "ok", "foreign" (no account that is allowed), "bad"
    TTL,          \* tokenReviewCacheTTL
    MaxEntries,   \* maxReviewCacheEntries
    Patience,     \* how long a review may take
    MaxNow,       \* bound on time
    MaxChanges    \* bound on what happens to the API server

VARIABLES
    now,
    conn,     \* of each client: its certificate, or NoCertificate
    state,    \* "away", "connected", "reviewing", "reviewed" or "answered"
    token,    \* the bearer token of its request
    verdict,  \* what the review said, then the answer
    asked,    \* when its review began
    reviews,  \* reviewCache.entries, a partial function of the tokens
    api,      \* of each token: what a review says of it
    up,       \* the API server answers
    last,     \* history: when the API server was last down, and of a mind
    changes

vars == <<now, conn, state, token, verdict, asked, reviews, api, up, last, changes>>

NoCertificate == [names |-> {}, until |-> -1]
NoToken == "no token"
Never == -(MaxNow + TTL + Patience)

Init ==
    /\ now = 0
    /\ conn = [c \in Clients |-> NoCertificate]
    /\ state = [c \in Clients |-> "away"]
    /\ token = [c \in Clients |-> NoToken] /\ verdict = [c \in Clients |-> ""]
    /\ asked = [c \in Clients |-> 0]
    /\ reviews = <<>>
    /\ api \in [Accounts -> Minds] /\ up = TRUE
    /\ changes = 0
    /\ last = [down |-> Never, mind |-> [t \in Accounts |-> [m \in Minds |-> IF api[t] = m THEN 0 ELSE Never]]]

-----------------------------------------------------------------------------
(* Certificates *)

\* identityPattern.matches: "*." stands for one label or more.
Matches(pattern, name) ==
    IF pattern.wildcard
    THEN /\ Len(name) > Len(pattern.labels)
         /\ SubSeq(name, Len(name) - Len(pattern.labels) + 1, Len(name)) = pattern.labels
    ELSE name = pattern.labels

\* certificateIdentity, with identityCandidates.
certificateIdentity(cert) ==
    IF /\ now <= cert.until
       /\ cert.names # {}
       /\ Allowed = {} \/ \E n \in cert.names, p \in Allowed : Matches(p, n)
    THEN "cert" ELSE "identity not allowed"

\* VerifyConnection: a certificate that is not allowed does not connect.
Connect(c, cert) ==
    /\ state[c] = "away"
    /\ cert = NoCertificate \/ certificateIdentity(cert) = "cert"
    /\ conn' = [conn EXCEPT ![c] = cert]
    /\ state' = [state EXCEPT ![c] = "connected"]
    /\ UNCHANGED <<now, token, verdict, asked, reviews, api, up, last, changes>>

-----------------------------------------------------------------------------
(* The review cache *)

\* reviewCache.get: an entry lives up to and including its last moment.
Cached(t) == t \in DOMAIN reviews /\ now <= reviews[t].expires

\* reviewCache.put: a table that is full is dropped first.
put(t, v) ==
    LET kept == IF Cardinality(DOMAIN reviews) >= MaxEntries THEN {} ELSE DOMAIN reviews
    IN  [k \in kept \cup {t} |-> IF k = t THEN [verdict |-> v, expires |-> now + TTL] ELSE reviews[k]]

\* validateTokenReview and the allow-list: what a review says of a token.
ReviewOf(t) == IF ~up THEN "unavailable" ELSE IF t \in Accounts THEN api[t] ELSE "bad"

\* Authenticate: what a verdict on the token becomes.  An account that is not
\* allowed is answered like a token that is not valid.
AnswerTo(v) == IF v = "ok" THEN "serviceaccount" ELSE IF v = "unavailable" THEN v ELSE "bad credential"

-----------------------------------------------------------------------------
(* Authenticate *)

\* What can be said without asking the API server.
DecideAtOnce(c, t) ==
    IF conn[c] # NoCertificate THEN certificateIdentity(conn[c])
    ELSE IF t = NoToken THEN "no credential"
    ELSE IF t \in Static THEN "token"
    ELSE IF Cached(t) THEN AnswerTo(reviews[t].verdict) ELSE "review"

Request(c, t) ==
    /\ state[c] = "connected"
    /\ token' = [token EXCEPT ![c] = t]
    /\ LET v == DecideAtOnce(c, t) IN
          /\ state' = [state EXCEPT ![c] = IF v = "review" THEN "reviewing" ELSE "answered"]
          /\ verdict' = [verdict EXCEPT ![c] = v]
    /\ asked' = [asked EXCEPT ![c] = now]
    /\ UNCHANGED <<now, conn, reviews, api, up, last, changes>>

\* Review: the API server makes up its mind.
Review(c) ==
    /\ state[c] = "reviewing"
    /\ state' = [state EXCEPT ![c] = "reviewed"]
    /\ verdict' = [verdict EXCEPT ![c] = ReviewOf(token[c])]
    /\ UNCHANGED <<now, conn, token, asked, reviews, api, up, last, changes>>


\* reviewServiceAccountToken: remember a verdict, never an outage.
Store(c) ==
    /\ state[c] = "reviewed"
    /\ reviews' = IF verdict[c] = "unavailable" THEN reviews ELSE put(token[c], verdict[c])
    /\ verdict' = [verdict EXCEPT ![c] = AnswerTo(verdict[c])]
    /\ state' = [state EXCEPT ![c] = "answered"]
    /\ UNCHANGED <<now, conn, token, asked, api, up, last, changes>>

\* The answer is sent; the connection is used again, or closed.
Finish(c) ==
    /\ state[c] = "answered"
    /\ \E s \in {"connected", "away"} :
          /\ state' = [state EXCEPT ![c] = s]
          /\ conn' = IF s = "away" THEN [conn EXCEPT ![c] = NoCertificate] ELSE conn
    /\ token' = [token EXCEPT ![c] = NoToken]
    /\ verdict' = [verdict EXCEPT ![c] = ""] /\ asked' = [asked EXCEPT ![c] = 0]
    /\ UNCHANGED <<now, reviews, api, up, last, changes>>

-----------------------------------------------------------------------------
(* The world *)

\* An answer goes out at once; a review takes at most Patience.
Tick ==
    /\ now < MaxNow
    /\ \A c \in Clients : state[c] # "answered"
    /\ \A c \in Clients : state[c] \in {"reviewing", "reviewed"} => now - asked[c] < Patience
    /\ now' = now + 1
    /\ last' = [down |-> IF up THEN last.down ELSE now + 1,
                mind |-> [t \in Accounts |-> [last.mind[t] EXCEPT ![api[t]] = now + 1]]]
    /\ UNCHANGED <<conn, state, token, verdict, asked, reviews, api, up, changes>>

ChangeMind(t, m) ==
    /\ m # api[t] /\ changes < MaxChanges /\ changes' = changes + 1
    /\ api' = [api EXCEPT ![t] = m]
    /\ last' = [last EXCEPT !.mind[t][m] = now]
    /\ UNCHANGED <<now, conn, state, token, verdict, asked, reviews, up>>

GoUpOrDown ==
    /\ up' = ~up /\ changes < MaxChanges /\ changes' = changes + 1
    /\ last' = IF up THEN [last EXCEPT !.down = now] ELSE last
    /\ UNCHANGED <<now, conn, state, token, verdict, asked, reviews, api>>

Serve(c) == Review(c) \/ Store(c) \/ Finish(c)
Next ==
    \/ \E c \in Clients : \/ Serve(c)
                          \/ \E cert \in Certificates \cup {NoCertificate} : Connect(c, cert)
                          \/ \E t \in Static \cup Accounts \cup Strangers \cup {NoToken} : Request(c, t)
    \/ Tick \/ GoUpOrDown
    \/ \E t \in Accounts, m \in Minds : ChangeMind(t, m)

Spec == Init /\ [][Next]_vars

-----------------------------------------------------------------------------
TypeOK ==
    /\ now \in 0 .. MaxNow
    /\ \A c \in Clients : state[c] \in {"away", "connected", "reviewing", "reviewed", "answered"}
    /\ DOMAIN reviews \subseteq Accounts \cup Strangers
    /\ api \in [Accounts -> Minds]

Answers(a) == {c \in Clients : state[c] = "answered" /\ verdict[c] = a}
Recently(when) == now - when <= TTL + Patience

\* A revoked token is let in, and a new one turned away, for as long as a cached
\* verdict lives after its review and no longer, however many connections renew
\* it (reviewServiceAccountToken, tokenReviewCacheTTL).
VerdictsAreFresh ==
    /\ \A c \in Answers("serviceaccount") : token[c] \in Accounts /\ Recently(last.mind[token[c]]["ok"])
    /\ \A c \in Answers("bad credential") : token[c] \in Strangers \/ \E m \in Minds \ {"ok"} : Recently(last.mind[token[c]][m])

\* "Do not cache 'the API server was unreachable'": a client is told so only
\* when the server was unreachable during its own review.
OutagesEnd == \A c \in Answers("unavailable") : last.down >= asked[c]

\* A client with a certificate is known by it, while it is valid, and by nothing
\* else: "never fall through on a certificate that is present but not allowed",
\* on a connection that outlives it either (Authenticate, certificateIdentity).
CertificatesDecide ==
    \A c \in Clients : state[c] = "answered" /\ conn[c] # NoCertificate =>
        verdict[c] = IF now <= conn[c].until THEN "cert" ELSE "identity not allowed"

TableIsBounded == Cardinality(DOMAIN reviews) <= MaxEntries

PeersAreVerified == VerdictsAreFresh /\ OutagesEnd /\ CertificatesDecide /\ TableIsBounded
=============================================================================
