------------------------- MODULE GatewayFleetSteps -------------------------
(***************************************************************************)
(* The inductive invariant of GatewayFleet, and the steps that keep it and *)
(* need neither induction over a batch nor counting: the registry, the     *)
(* requests, the queue, the send slots and time.                           *)
(***************************************************************************)
EXTENDS GatewayFleet, TLAPS

RequestType ==
    [stage : {"sent", "answered"}, gateway : Gateways, op : Ops, blob : Blobs,
     answer : {"ok", "other", "none"}, age : 0 .. MaxLag]
FlightType == [events : Seq(EventType), todo : SUBSET Gateways]
DonationType ==
    [stage : {"asking", "reading", "done"}, donor : SUBSET Gateways, entries : Lifetimes, age : 0 .. MaxLag]

\* The shape of the state.
Shape ==
    /\ upstream \subseteq Blobs /\ erased \subseteq Blobs
    /\ cache \in [Gateways -> Lifetimes]
    /\ req \in [Clients -> RequestType \cup {NoRequest}]
    /\ queue \in [Gateways -> Seq(EventType)]
    /\ pending \in [Gateways -> Seq(EventType)]
    /\ flights \in [Gateways -> [Slots -> FlightType]]
    /\ warmup \in [Gateways -> DonationType]
    /\ requests \in 0 .. MaxRequests /\ snapshots \in 0 .. MaxSnapshots
    /\ gone \in [Blobs -> 0 .. Horizon + 1]
    /\ purged \in [Gateways -> SUBSET Blobs]

\* Queues, batches and send slots are within their bounds.
Bounded(g) ==
    /\ Len(queue[g]) <= QueueDepth
    /\ Len(pending[g]) <= BatchSize
    /\ \A s \in Slots : Len(flights[g][s].events) <= BatchSize /\ flights[g][s].todo \subseteq Peers(g)
    /\ Cardinality(Reading(g)) <= MaxDonations

\* What a fact under way says was true at most its age, and the age of the answer
\* it comes from, ago: G is gone, E is erased and n the donations so far.
AnswerFits(r, G, E) ==
    r.stage = "answered" /\ r.answer = "ok" =>
        IF r.op = "delete" THEN r.blob \in E ELSE G[r.blob] <= r.age
EventFits(e, G, E) == IF e.deleted THEN e.blob \in E ELSE G[e.blob] <= MaxLag + e.age
AllFit(s, G, E) == \A i \in DOMAIN s : EventFits(s[i], G, E)

Span(copies) == TTL + copies * MaxLag
EntryFits(b, left, G, n) == left > 0 => G[b] + left <= Span(2 + n)
DonationFits(b, w, G, n) ==
    w.entries[b] > 0 => w.stage = "reading" /\ G[b] + w.entries[b] <= Span(1 + n) + w.age

EventsFit(g) ==
    /\ AllFit(queue[g], gone, erased)
    /\ AllFit(pending[g], gone, erased)
    /\ \A s \in Slots : AllFit(flights[g][s].events, gone, erased)

Inv ==
    /\ Shape
    /\ \A g \in Gateways : Bounded(g)
    /\ \A b \in upstream : gone[b] = 0
    /\ \A c \in Clients : AnswerFits(req[c], gone, erased)
    /\ \A g \in Gateways : EventsFit(g)
    /\ \A g \in Gateways, b \in Blobs : EntryFits(b, cache[g][b], gone, snapshots)
    /\ \A g \in Gateways, b \in Blobs : DonationFits(b, warmup[g], gone, snapshots)

-----------------------------------------------------------------------------
(***************************************************************************)
(* Capacities, lags and ages.                                              *)
(***************************************************************************)

\* The least capacities and lags, and what follows for the horizon.
LEMMA Numbers ==
    /\ TTL \in Nat /\ TTL > 0 /\ MaxLag \in Nat /\ QueueDepth \in Nat /\ QueueDepth > 0
    /\ BatchSize \in Nat /\ BatchSize > 0 /\ MaxInFlight \in Nat /\ MaxInFlight > 0
    /\ MaxDonations \in Nat /\ MaxRequests \in Nat /\ MaxSnapshots \in Nat
BY FleetAssumption

Times == 0 .. Horizon + 1

\* One more copy of a fact may be MaxLag on its way.
LEMMA SpanFacts ==
    ASSUME NEW n \in Nat
    PROVE  /\ Span(1 + n) \in Nat /\ Span(2 + n) \in Nat /\ Horizon \in Nat
           /\ Span(2 + n) = Span(1 + n) + MaxLag
           /\ Span(1 + (n + 1)) = Span(2 + n)
           /\ Span(2 + (n + 1)) >= Span(2 + n)
           /\ Span(2 + n) >= TTL + MaxLag + MaxLag
<1>1. TTL \in Nat /\ MaxLag \in Nat /\ MaxSnapshots \in Nat
  BY Zenon, Numbers
<1>2. n * MaxLag \in Nat /\ MaxSnapshots * MaxLag \in Nat
  BY <1>1
<1>3. /\ (1 + n) * MaxLag = n * MaxLag + MaxLag
      /\ (2 + n) * MaxLag = n * MaxLag + MaxLag + MaxLag
      /\ (1 + (n + 1)) * MaxLag = n * MaxLag + MaxLag + MaxLag
      /\ (2 + (n + 1)) * MaxLag = n * MaxLag + MaxLag + MaxLag + MaxLag
      /\ (2 + MaxSnapshots) * MaxLag = MaxSnapshots * MaxLag + MaxLag + MaxLag
  BY <1>1
<1> QED
  BY <1>1, <1>2, <1>3 DEF Span, Horizon

\* A blob that comes back, a delete that is confirmed and a donation that starts
\* leave what was true of the facts under way true.
LEMMA FactsStay ==
    ASSUME NEW G \in [Blobs -> Times], NEW H \in [Blobs -> Times], \A b \in Blobs : H[b] <= G[b],
           NEW E, NEW F, E \subseteq F, NEW n \in Nat
    PROVE  /\ \A r \in RequestType \cup {NoRequest} : AnswerFits(r, G, E) => AnswerFits(r, H, F)
           /\ \A s \in Seq(EventType) : AllFit(s, G, E) => AllFit(s, H, F)
           /\ \A b \in Blobs, left \in 0 .. TTL : EntryFits(b, left, G, n) => EntryFits(b, left, H, n)
           /\ \A b \in Blobs, w \in DonationType : DonationFits(b, w, G, n) => DonationFits(b, w, H, n)
<1>0. /\ MaxLag \in Nat /\ TTL \in Nat /\ Span(1 + n) \in Int /\ Span(2 + n) \in Int
      /\ \A b \in Blobs : G[b] \in Int /\ H[b] \in Int /\ H[b] <= G[b]
  BY Numbers, SpanFacts DEF Times
<1>1. ASSUME NEW r \in RequestType \cup {NoRequest}, AnswerFits(r, G, E)
      PROVE  AnswerFits(r, H, F)
  BY <1>0, <1>1 DEF AnswerFits, RequestType, NoRequest
<1>2. ASSUME NEW s \in Seq(EventType), AllFit(s, G, E)
      PROVE  AllFit(s, H, F)
  <2>1. ASSUME NEW e \in EventType, EventFits(e, G, E)
        PROVE  EventFits(e, H, F)
    BY <1>0, <2>1 DEF EventFits, EventType
  <2>2. \A i \in DOMAIN s : s[i] \in EventType
    OBVIOUS
  <2> QED
    BY Zenon, <1>2, <2>1, <2>2 DEF AllFit
<1>3. ASSUME NEW b \in Blobs, NEW left \in 0 .. TTL, EntryFits(b, left, G, n)
      PROVE  EntryFits(b, left, H, n)
  BY <1>0, <1>3 DEF EntryFits
<1>4. ASSUME NEW b \in Blobs, NEW w \in DonationType, DonationFits(b, w, G, n)
      PROVE  DonationFits(b, w, H, n)
  <2>1. w.entries[b] \in Int /\ w.age \in Int
    BY <1>0 DEF DonationType, Lifetimes
  <2> QED
    BY <1>0, <1>4, <2>1 DEF DonationFits
<1> QED
  BY Zenon, <1>1, <1>2, <1>3, <1>4

\* What the invariant says of the types, in the form the steps use.
LEMMA Types ==
    ASSUME Shape
    PROVE  /\ snapshots \in Nat /\ gone \in [Blobs -> Times]
           /\ \A g \in Gateways, b \in Blobs : cache[g][b] \in 0 .. TTL
           /\ \A g \in Gateways, s \in Slots : flights[g][s] \in FlightType
                                               /\ flights[g][s].events \in Seq(EventType)
BY DEF Shape, Times, Lifetimes, FlightType

\* The numbers the steps compute with.
LEMMA Amounts ==
    ASSUME Shape
    PROVE  /\ TTL \in Nat /\ MaxLag \in Nat /\ Horizon \in Nat /\ MaxDonations \in Nat
           /\ snapshots \in Nat /\ Span(1 + snapshots) \in Nat /\ Span(2 + snapshots) \in Nat
           /\ Span(2 + snapshots) = Span(1 + snapshots) + MaxLag
           /\ Span(2 + snapshots) >= TTL + MaxLag + MaxLag
           /\ \A b \in Blobs : gone[b] \in Nat
           /\ \A g \in Gateways, b \in Blobs : cache[g][b] \in 0 .. TTL
<1>1. TTL \in Nat /\ MaxLag \in Nat /\ MaxDonations \in Nat
  BY Zenon, Numbers
<1>2. snapshots \in Nat /\ gone \in [Blobs -> Times] /\ \A g \in Gateways, b \in Blobs : cache[g][b] \in 0 .. TTL
  BY Zenon, Types
<1>3. /\ Span(1 + snapshots) \in Nat /\ Span(2 + snapshots) \in Nat /\ Horizon \in Nat
      /\ Span(2 + snapshots) = Span(1 + snapshots) + MaxLag
      /\ Span(2 + snapshots) >= TTL + MaxLag + MaxLag
  BY Zenon, <1>2, SpanFacts
<1>4. \A b \in Blobs : gone[b] \in Nat
  BY <1>2, <1>3 DEF Times
<1> QED
  BY Zenon, <1>1, <1>2, <1>3, <1>4

-----------------------------------------------------------------------------
(***************************************************************************)
(* The registry and the requests.                                          *)
(***************************************************************************)

LEMMA CollectUpstreamInv ==
    ASSUME Inv, NEW b \in Blobs, CollectUpstream(b)
    PROVE  Inv'
<1>1. /\ upstream' = upstream \ {b}
      /\ UNCHANGED <<cache, req, queue, pending, flights, warmup, requests, snapshots, gone, erased, purged>>
  BY Zenon DEF CollectUpstream, replicationVars
<1>2. Shape'
  BY Zenon, <1>1 DEF Inv, Shape
<1>3. \A x \in upstream' : gone'[x] = 0
  BY Zenon, <1>1 DEF Inv
<1>4. ASSUME NEW g \in Gateways
      PROVE  Bounded(g)' /\ EventsFit(g)'
  BY Zenon, <1>1 DEF Inv, Bounded, Reading, EventsFit
<1> QED
  BY Zenon, <1>1, <1>2, <1>3, <1>4 DEF Inv

LEMMA ArriveInv ==
    ASSUME Inv, NEW c \in Clients, NEW g \in Gateways, NEW op \in Ops, NEW b \in Blobs,
           Arrive(c, g, op, b)
    PROVE  Inv'
<1> DEFINE r == [stage |-> "sent", gateway |-> g, op |-> op, blob |-> b, answer |-> "none", age |-> 0]
<1>1. /\ req' = [req EXCEPT ![c] = r]
      /\ requests < MaxRequests /\ requests' = requests + 1
      /\ UNCHANGED <<upstream, cache, queue, pending, flights, warmup, snapshots, gone, erased, purged>>
  BY Zenon DEF Arrive, replicationVars
<1>2. r \in RequestType /\ r.stage = "sent"
  BY Numbers DEF RequestType
<1> HIDE DEF r
<1>3. Shape'
  <2>1. requests' \in 0 .. MaxRequests
    BY <1>1, Numbers DEF Inv, Shape
  <2>2. req' \in [Clients -> RequestType \cup {NoRequest}]
    BY Zenon, <1>1, <1>2 DEF Inv, Shape
  <2> QED
    BY Zenon, <1>1, <2>1, <2>2 DEF Inv, Shape
<1>4. ASSUME NEW d \in Clients
      PROVE  AnswerFits(req'[d], gone', erased')
  BY Zenon, <1>1, <1>2 DEF Inv, Shape, AnswerFits
<1>5. ASSUME NEW h \in Gateways
      PROVE  Bounded(h)' /\ EventsFit(h)'
  BY Zenon, <1>1 DEF Inv, Bounded, Reading, EventsFit
<1> QED
  BY Zenon, <1>1, <1>3, <1>4, <1>5 DEF Inv

\* An answer that confirms that a blob is there comes from a registry that holds
\* it, one that confirms a delete from a registry that held it.
LEMMA AnswersFacts ==
    ASSUME NEW op \in Ops, NEW present \in BOOLEAN, NEW a \in Answers(op, present)
    PROVE  /\ a[1] \in {"ok", "other", "none"} /\ a[2] \in BOOLEAN
           /\ a[1] = "ok" /\ op # "delete" => a[2]
<1>1. op \in {"head", "read", "upload", "delete"}
  BY Zenon, FleetAssumption
<1>2. CASE op = "head"
  BY <1>2 DEF Answers
<1>3. CASE op = "read"
  BY Zenon, <1>3 DEF Answers
<1>4. CASE op = "upload"
  <2>1. a = <<"ok", TRUE>> \/ a \in {"other", "none"} \X {present, TRUE}
    BY Zenon, <1>4 DEF Answers
  <2>2. {present, TRUE} \subseteq BOOLEAN
    BY Zenon
  <2>3. CASE a = <<"ok", TRUE>>
    BY Zenon, <1>4, <2>3
  <2>4. CASE a \in {"other", "none"} \X {present, TRUE}
    <3>1. a[1] \in {"other", "none"} /\ a[2] \in {present, TRUE}
      BY Zenon, <2>4
    <3>2. a[2] \in BOOLEAN
      BY Zenon, <2>2, <3>1
    <3> QED
      BY Zenon, <1>4, <3>1, <3>2
  <2> QED
    BY Zenon, <2>1, <2>3, <2>4
<1>5. CASE op = "delete"
  <2>1. \/ a \in {"other", "none"} \X {present}
        \/ a \in {"ok", "none"} \X {FALSE}
    BY Zenon, <1>5 DEF Answers
  <2> QED
    BY Zenon, <1>5, <2>1
<1> QED
  BY Zenon, <1>1, <1>2, <1>3, <1>4, <1>5

LEMMA AnswerInv ==
    ASSUME Inv, NEW c \in Clients, Answer(c)
    PROVE  Inv'
<1> DEFINE r == req[c]
<1>1. r.stage = "sent" /\ r \in RequestType
  BY DEF Answer, Inv, Shape, NoRequest
<1>2. PICK a \in Answers(r.op, r.blob \in upstream) :
         /\ req' = [req EXCEPT ![c] = [r EXCEPT !.stage = "answered", !.answer = a[1]]]
         /\ upstream' = IF a[2] THEN upstream \cup {r.blob} ELSE upstream \ {r.blob}
         /\ gone' = IF a[2] THEN [gone EXCEPT ![r.blob] = 0] ELSE gone
         /\ purged' = IF a[2] THEN [g \in Gateways |-> purged[g] \ {r.blob}] ELSE purged
         /\ erased' = IF r.op = "delete" /\ a[1] = "ok" THEN erased \cup {r.blob} ELSE erased
  BY Zenon DEF Answer
<1>3. UNCHANGED <<cache, queue, pending, flights, warmup, requests, snapshots>>
  BY Zenon DEF Answer, replicationVars
<1>4. /\ r.op \in Ops /\ r.blob \in Blobs /\ (r.blob \in upstream) \in BOOLEAN
      /\ r.age \in 0 .. MaxLag /\ r.gateway \in Gateways
  BY <1>1 DEF RequestType
<1>5. /\ a[1] \in {"ok", "other", "none"} /\ a[2] \in BOOLEAN
      /\ a[1] = "ok" /\ r.op # "delete" => a[2]
  BY Zenon, <1>2, <1>4, AnswersFacts
<1> DEFINE q == [r EXCEPT !.stage = "answered", !.answer = a[1]]
<1>6. /\ q \in RequestType /\ q.stage = "answered" /\ q.answer = a[1]
      /\ q.op = r.op /\ q.blob = r.blob /\ q.age = r.age
  BY Zenon, <1>1, <1>5 DEF RequestType
<1>7. req' = [req EXCEPT ![c] = q]
  BY Zenon, <1>2
<1> HIDE DEF q, r
<1>8. /\ gone \in [Blobs -> Times] /\ gone' \in [Blobs -> Times] /\ 0 \in Times
      /\ \A b \in Blobs : gone'[b] <= gone[b]
      /\ a[2] => gone'[r.blob] = 0
  <2>1. gone \in [Blobs -> Times] /\ 0 \in Times /\ Times \subseteq Nat
    BY Types, SpanFacts DEF Inv, Times
  <2>2. CASE a[2]
    BY <1>2, <1>4, <2>1, <2>2
  <2>3. CASE ~a[2]
    BY <1>2, <2>1, <2>3
  <2> QED
    BY Zenon, <2>1, <2>2, <2>3
<1>9. erased \subseteq erased' /\ erased' \subseteq Blobs /\ upstream' \subseteq Blobs
  BY Zenon, <1>2, <1>4 DEF Inv, Shape
<1>10. Shape'
  <2>1. req' \in [Clients -> RequestType \cup {NoRequest}]
    BY Zenon, <1>6, <1>7 DEF Inv, Shape
  <2>2. purged' \in [Gateways -> SUBSET Blobs]
    BY Zenon, <1>2 DEF Inv, Shape
  <2> QED
    BY Zenon, <1>3, <1>8, <1>9, <2>1, <2>2 DEF Inv, Shape, Times
<1>11. \A b \in upstream' : gone'[b] = 0
  <2>1. \A b \in upstream : b \in Blobs /\ gone[b] = 0
    BY Zenon DEF Inv, Shape
  <2>2. CASE a[2]
    BY Zenon, <1>2, <1>4, <1>8, <2>1, <2>2
  <2>3. CASE ~a[2]
    BY Zenon, <1>2, <2>1, <2>3
  <2> QED
    BY Zenon, <2>2, <2>3
<1>12. ASSUME NEW d \in Clients
       PROVE  AnswerFits(req'[d], gone', erased')
  <2>1. CASE d = c
    <3>1. req'[d] = q
      BY Zenon, <1>7, <2>1 DEF Inv, Shape
    <3>2. a[1] = "ok" /\ r.op = "delete" => r.blob \in erased'
      BY Zenon, <1>2
    <3>3. 0 <= r.age
      BY <1>4
    <3> QED
      BY Zenon, <1>5, <1>6, <1>8, <3>1, <3>2, <3>3 DEF AnswerFits
  <2>2. CASE d # c
    <3>1. req'[d] = req[d] /\ req[d] \in RequestType \cup {NoRequest} /\ AnswerFits(req[d], gone, erased)
      BY Zenon, <1>7, <2>2 DEF Inv, Shape
    <3> QED
      BY Zenon, <1>8, <1>9, <3>1, FactsStay, 0 \in Nat
  <2> QED
    BY Zenon, <2>1, <2>2
<1>13. ASSUME NEW g \in Gateways
       PROVE  Bounded(g)' /\ EventsFit(g)'
  <2>1. Bounded(g)'
    BY Zenon, <1>3 DEF Inv, Bounded, Reading
  <2>2. /\ queue[g] \in Seq(EventType) /\ pending[g] \in Seq(EventType)
        /\ \A s \in Slots : flights[g][s].events \in Seq(EventType)
    BY Zenon, Types DEF Inv, Shape
  <2>3. \A s \in Seq(EventType) : AllFit(s, gone, erased) => AllFit(s, gone', erased')
    BY Zenon, <1>8, <1>9, FactsStay, 0 \in Nat
  <2>4. EventsFit(g)
    BY Zenon DEF Inv
  <2> QED
    BY Zenon, <1>3, <2>1, <2>2, <2>3, <2>4 DEF EventsFit
<1>14. ASSUME NEW g \in Gateways, NEW b \in Blobs
       PROVE  /\ EntryFits(b, cache'[g][b], gone', snapshots')
              /\ DonationFits(b, warmup'[g], gone', snapshots')
  <2>1. /\ cache[g][b] \in 0 .. TTL /\ warmup[g] \in DonationType /\ snapshots \in Nat
        /\ EntryFits(b, cache[g][b], gone, snapshots)
        /\ DonationFits(b, warmup[g], gone, snapshots)
    BY Zenon, Types DEF Inv, Shape
  <2>2. /\ EntryFits(b, cache[g][b], gone', snapshots)
        /\ DonationFits(b, warmup[g], gone', snapshots)
    BY Zenon, <1>8, <2>1, FactsStay
  <2> QED
    BY Zenon, <1>3, <2>2
<1> QED
  BY Zenon, <1>10, <1>11, <1>12, <1>13, <1>14 DEF Inv

\* One entry of one cache is written.
Written(C, g, b, x) == [C EXCEPT ![g][b] = x]

LEMMA CacheWrite ==
    ASSUME NEW C \in [Gateways -> Lifetimes], NEW g \in Gateways, NEW b \in Blobs, NEW x \in 0 .. TTL
    PROVE  /\ Written(C, g, b, x) \in [Gateways -> Lifetimes] /\ Written(C, g, b, x)[g][b] = x
           /\ \A h \in Gateways, k \in Blobs : h # g \/ k # b => Written(C, g, b, x)[h][k] = C[h][k]
<1> DEFINE l == [C[g] EXCEPT ![b] = x]
<1>1. Written(C, g, b, x) = [C EXCEPT ![g] = l]
  BY Zenon DEF Written
<1>2. l \in Lifetimes /\ l[b] = x /\ \A k \in Blobs : k # b => l[k] = C[g][k]
  BY Zenon DEF Lifetimes
<1> HIDE DEF l
<1> QED
  BY Zenon, <1>1, <1>2

\* An event is added to a queue or to a batch.
LEMMA AppendFits ==
    ASSUME NEW s \in Seq(EventType), NEW e \in EventType, NEW G, NEW E, AllFit(s, G, E), EventFits(e, G, E)
    PROVE  /\ Append(s, e) \in Seq(EventType) /\ Len(Append(s, e)) = Len(s) + 1
           /\ AllFit(Append(s, e), G, E)
<1>1. /\ Append(s, e) \in Seq(EventType) /\ Len(Append(s, e)) = Len(s) + 1 /\ Len(s) \in Nat
      /\ DOMAIN s = 1 .. Len(s) /\ DOMAIN Append(s, e) = 1 .. Len(s) + 1
      /\ \A i \in 1 .. Len(s) : Append(s, e)[i] = s[i]
      /\ Append(s, e)[Len(s) + 1] = e
  OBVIOUS
<1>2. ASSUME NEW i \in 1 .. Len(s) + 1
      PROVE  EventFits(Append(s, e)[i], G, E)
  <2>1. CASE i = Len(s) + 1
    BY Zenon, <1>1, <2>1
  <2>2. CASE i # Len(s) + 1
    <3>1. i \in 1 .. Len(s)
      BY <1>1, <2>2
    <3> QED
      BY Zenon, <1>1, <3>1 DEF AllFit
  <2> QED
    BY Zenon, <2>1, <2>2
<1> QED
  BY Zenon, <1>1, <1>2 DEF AllFit

LEMMA RecordFits ==
    ASSUME NEW s \in Seq(EventType), Len(s) <= QueueDepth, NEW b \in Blobs, NEW deleted \in BOOLEAN,
           NEW G, NEW E, AllFit(s, G, E),
           IF deleted THEN b \in E ELSE G[b] <= MaxLag
    PROVE  /\ Record(s, b, deleted) \in Seq(EventType) /\ Len(Record(s, b, deleted)) <= QueueDepth
           /\ AllFit(Record(s, b, deleted), G, E)
<1> DEFINE e == [blob |-> b, deleted |-> deleted, age |-> 0]
<1>1. e \in EventType /\ MaxLag + 0 = MaxLag
  BY Numbers DEF EventType
<1>2. EventFits(e, G, E)
  BY Zenon, <1>1 DEF EventFits
<1>3. Record(s, b, deleted) = IF Len(s) < QueueDepth THEN Append(s, e) ELSE s
  BY Zenon DEF Record
<1> HIDE DEF e
<1>4. CASE Len(s) < QueueDepth
  <2>1. Append(s, e) \in Seq(EventType) /\ Len(Append(s, e)) = Len(s) + 1 /\ AllFit(Append(s, e), G, E)
    BY Zenon, <1>1, <1>2, AppendFits
  <2>2. Len(s) + 1 <= QueueDepth
    BY <1>4, Numbers
  <2> QED
    BY Zenon, <1>3, <1>4, <2>1, <2>2
<1>5. CASE ~(Len(s) < QueueDepth)
  BY Zenon, <1>3, <1>5
<1> QED
  BY Zenon, <1>4, <1>5

LEMMA FinishInv ==
    ASSUME Inv, NEW c \in Clients, Finish(c)
    PROVE  Inv'
<1> DEFINE r == req[c]
           g == r.gateway
           b == r.blob
           x == IF Remembers(r) THEN TTL ELSE IF Forgets(r) THEN 0 ELSE cache[g][b]
           q == IF Tells(r) THEN Record(queue[g], b, r.op = "delete") ELSE queue[g]
           p == IF r.op = "delete" /\ b \notin upstream THEN purged[g] \cup {b} ELSE purged[g]
<1>1. r.stage = "answered" /\ r \in RequestType /\ AnswerFits(r, gone, erased)
  BY DEF Finish, Inv, Shape, NoRequest
<1>2. g \in Gateways /\ b \in Blobs /\ r.op \in Ops /\ r.age \in 0 .. MaxLag
  BY Zenon, <1>1 DEF RequestType
<1>3. /\ cache' = [cache EXCEPT ![g][b] = x]
      /\ queue' = [queue EXCEPT ![g] = q]
      /\ purged' = [purged EXCEPT ![g] = p]
      /\ req' = [req EXCEPT ![c] = NoRequest]
      /\ UNCHANGED <<upstream, pending, flights, warmup, requests, snapshots, gone, erased>>
  BY Zenon DEF Finish
<1>4. Remembers(r) => gone[b] <= r.age
  BY Zenon, <1>1 DEF Remembers, AnswerFits
<1>5. Tells(r) => IF r.op = "delete" THEN b \in erased ELSE gone[b] <= r.age
  BY Zenon, <1>1 DEF Tells, AnswerFits
<1>6. p \in SUBSET Blobs
  BY Zenon, <1>2 DEF Inv, Shape
<1>7. /\ TTL \in Nat /\ MaxLag \in Nat /\ snapshots \in Nat /\ Span(2 + snapshots) \in Nat
      /\ Span(2 + snapshots) >= TTL + MaxLag + MaxLag
      /\ gone[b] \in Nat /\ cache[g][b] \in 0 .. TTL
  BY Zenon, <1>2, Amounts DEF Inv
<1>8. x \in 0 .. TTL /\ EntryFits(b, x, gone, snapshots)
  <2>1. CASE Remembers(r)
    <3>1. x = TTL
      BY Zenon, <2>1
    <3>2. gone[b] + TTL <= Span(2 + snapshots)
      BY <1>2, <1>4, <1>7, <2>1
    <3>3. x \in 0 .. TTL
      BY <1>7, <3>1
    <3> QED
      BY Zenon, <3>1, <3>2, <3>3 DEF EntryFits
  <2>2. CASE ~Remembers(r)
    <3>1. x = 0 \/ x = cache[g][b]
      BY Zenon, <2>2
    <3>2. EntryFits(b, cache[g][b], gone, snapshots)
      BY Zenon, <1>2 DEF Inv
    <3>3. EntryFits(b, 0, gone, snapshots) /\ 0 \in 0 .. TTL
      BY <1>7 DEF EntryFits
    <3> QED
      BY Zenon, <1>7, <3>1, <3>2, <3>3
  <2> QED
    BY Zenon, <2>1, <2>2
<1>9. q \in Seq(EventType) /\ Len(q) <= QueueDepth /\ AllFit(q, gone, erased)
  <2>1. queue[g] \in Seq(EventType) /\ Len(queue[g]) <= QueueDepth /\ AllFit(queue[g], gone, erased)
    BY Zenon, <1>2 DEF Inv, Shape, Bounded, EventsFit
  <2>2. CASE Tells(r)
    <3> DEFINE d == r.op = "delete"
    <3>1. d \in BOOLEAN
      OBVIOUS
    <3>2. IF d THEN b \in erased ELSE gone[b] <= MaxLag
      BY <1>2, <1>5, <1>7, <2>2
    <3>3. q = Record(queue[g], b, d)
      BY Zenon, <2>2
    <3> HIDE DEF d, q, b, g
    <3>4. b \in Blobs
      BY Zenon, <1>2
    <3> QED
      BY Zenon, <2>1, <3>1, <3>2, <3>3, <3>4, RecordFits
  <2>3. CASE ~Tells(r)
    BY Zenon, <2>1, <2>3
  <2> QED
    BY Zenon, <2>2, <2>3
<1> HIDE DEF r, g, b, x, q, p
<1>10. /\ cache' \in [Gateways -> Lifetimes] /\ cache'[g][b] = x
       /\ \A h \in Gateways, k \in Blobs : h # g \/ k # b => cache'[h][k] = cache[h][k]
  <2>1. cache \in [Gateways -> Lifetimes]
    BY Zenon DEF Inv, Shape
  <2>2. cache' = Written(cache, g, b, x)
    BY Zenon, <1>3 DEF Written
  <2> QED
    BY <1>2, <1>8, <2>1, <2>2, CacheWrite
<1>11. Shape'
  <2>1. queue' \in [Gateways -> Seq(EventType)]
    BY Zenon, <1>3, <1>9 DEF Inv, Shape
  <2>2. purged' \in [Gateways -> SUBSET Blobs]
    BY Zenon, <1>3, <1>6 DEF Inv, Shape
  <2>3. req' \in [Clients -> RequestType \cup {NoRequest}]
    BY Zenon, <1>3 DEF Inv, Shape
  <2> QED
    BY Zenon, <1>3, <1>10, <2>1, <2>2, <2>3 DEF Inv, Shape
<1>12. ASSUME NEW d \in Clients
       PROVE  AnswerFits(req'[d], gone', erased')
  BY Zenon, <1>3 DEF Inv, Shape, AnswerFits, NoRequest
<1>13. ASSUME NEW h \in Gateways
       PROVE  Bounded(h)' /\ EventsFit(h)'
  <2>1. queue'[h] = IF h = g THEN q ELSE queue[h]
    BY Zenon, <1>2, <1>3 DEF Inv, Shape
  <2>2. Bounded(h) /\ EventsFit(h)
    BY Zenon DEF Inv
  <2>3. Bounded(h)'
    BY Zenon, <1>3, <1>9, <2>1, <2>2 DEF Bounded, Reading
  <2>4. EventsFit(h)'
    BY Zenon, <1>3, <1>9, <2>1, <2>2 DEF EventsFit
  <2> QED
    BY Zenon, <2>3, <2>4
<1>14. ASSUME NEW h \in Gateways, NEW k \in Blobs
       PROVE  EntryFits(k, cache'[h][k], gone', snapshots')
  <2>1. CASE h = g /\ k = b
    BY Zenon, <1>3, <1>8, <1>10, <2>1
  <2>2. CASE h # g \/ k # b
    BY <1>3, <1>10, <2>2 DEF Inv
  <2> QED
    BY Zenon, <2>1, <2>2
<1> QED
  BY Zenon, <1>3, <1>11, <1>12, <1>13, <1>14 DEF Inv

LEMMA EvictInv ==
    ASSUME Inv, NEW g \in Gateways, NEW b \in Blobs, Evict(g, b)
    PROVE  Inv'
<1>1. /\ cache' = Written(cache, g, b, 0)
      /\ UNCHANGED <<upstream, req, queue, pending, flights, warmup, requests, snapshots, gone, erased, purged>>
  BY Zenon DEF Evict, Written, replicationVars
<1>2. /\ cache' \in [Gateways -> Lifetimes] /\ cache'[g][b] = 0
      /\ \A h \in Gateways, k \in Blobs : h # g \/ k # b => cache'[h][k] = cache[h][k]
  <2>1. cache \in [Gateways -> Lifetimes] /\ 0 \in 0 .. TTL
    BY Numbers DEF Inv, Shape
  <2> QED
    BY <1>1, <2>1, CacheWrite
<1>3. Shape'
  BY Zenon, <1>1, <1>2 DEF Inv, Shape
<1>4. ASSUME NEW h \in Gateways
      PROVE  Bounded(h)' /\ EventsFit(h)'
  BY Zenon, <1>1 DEF Inv, Bounded, Reading, EventsFit
<1>5. ASSUME NEW h \in Gateways, NEW k \in Blobs
      PROVE  EntryFits(k, cache'[h][k], gone', snapshots')
  <2>1. CASE h = g /\ k = b
    BY <1>2, <2>1 DEF EntryFits
  <2>2. CASE h # g \/ k # b
    BY Zenon, <1>1, <1>2, <2>2 DEF Inv
  <2> QED
    BY Zenon, <2>1, <2>2
<1> QED
  BY Zenon, <1>1, <1>3, <1>4, <1>5 DEF Inv

-----------------------------------------------------------------------------
(***************************************************************************)
(* Batches that are collected, sent and lost, and a donation that arrives. *)
(***************************************************************************)

LEMMA CollectInv ==
    ASSUME Inv, NEW g \in Gateways, Collect(g)
    PROVE  Inv'
<1> DEFINE q == queue[g]
           p == pending[g]
           e == Head(q)
<1>1. /\ q # << >> /\ Len(p) < BatchSize
      /\ pending' = [pending EXCEPT ![g] = Append(p, e)]
      /\ queue' = [queue EXCEPT ![g] = Tail(q)]
      /\ UNCHANGED <<upstream, cache, req, flights, warmup, requests, snapshots, gone, erased, purged>>
  BY Zenon DEF Collect
<1>2. /\ q \in Seq(EventType) /\ p \in Seq(EventType) /\ Len(q) <= QueueDepth
      /\ AllFit(q, gone, erased) /\ AllFit(p, gone, erased)
  BY Zenon DEF Inv, Shape, Bounded, EventsFit
<1> HIDE DEF q, p
<1>3. /\ e \in EventType /\ e = q[1] /\ 1 \in DOMAIN q
      /\ Tail(q) \in Seq(EventType) /\ Len(Tail(q)) = Len(q) - 1 /\ Len(q) \in Nat
      /\ DOMAIN Tail(q) = 1 .. Len(q) - 1 /\ \A i \in 1 .. Len(q) - 1 : Tail(q)[i] = q[i + 1] /\ i + 1 \in DOMAIN q
  BY <1>1, <1>2
<1> HIDE DEF e
<1>4. EventFits(e, gone, erased) /\ AllFit(Tail(q), gone, erased)
  BY Zenon, <1>2, <1>3 DEF AllFit
<1>5. /\ Append(p, e) \in Seq(EventType) /\ Len(Append(p, e)) = Len(p) + 1
      /\ AllFit(Append(p, e), gone, erased)
  BY Zenon, <1>2, <1>3, <1>4, AppendFits
<1>6. Len(Append(p, e)) <= BatchSize /\ Len(Tail(q)) <= QueueDepth
  BY <1>1, <1>2, <1>3, <1>5, Numbers
<1>7. Shape'
  <2>1. pending' \in [Gateways -> Seq(EventType)]
    BY Zenon, <1>1, <1>5 DEF Inv, Shape
  <2>2. queue' \in [Gateways -> Seq(EventType)]
    BY Zenon, <1>1, <1>3 DEF Inv, Shape
  <2> QED
    BY Zenon, <1>1, <2>1, <2>2 DEF Inv, Shape
<1>8. ASSUME NEW h \in Gateways
      PROVE  Bounded(h)' /\ EventsFit(h)'
  <2>1. /\ queue'[h] = IF h = g THEN Tail(q) ELSE queue[h]
        /\ pending'[h] = IF h = g THEN Append(p, e) ELSE pending[h]
    BY Zenon, <1>1 DEF Inv, Shape
  <2>2. Bounded(h) /\ EventsFit(h)
    BY Zenon DEF Inv
  <2>3. Bounded(h)'
    BY Zenon, <1>1, <1>6, <2>1, <2>2 DEF Bounded, Reading
  <2>4. EventsFit(h)'
    BY Zenon, <1>1, <1>4, <1>5, <2>1, <2>2 DEF EventsFit
  <2> QED
    BY Zenon, <2>3, <2>4
<1> QED
  BY Zenon, <1>1, <1>7, <1>8 DEF Inv

\* One send slot of one instance changes.
Boarded(F, g, s, f) == [F EXCEPT ![g][s] = f]

LEMMA FlightWrite ==
    ASSUME NEW F \in [Gateways -> [Slots -> FlightType]], NEW g \in Gateways, NEW s \in Slots, NEW f \in FlightType
    PROVE  /\ Boarded(F, g, s, f) \in [Gateways -> [Slots -> FlightType]] /\ Boarded(F, g, s, f)[g][s] = f
           /\ \A h \in Gateways, t \in Slots : h # g \/ t # s => Boarded(F, g, s, f)[h][t] = F[h][t]
<1> DEFINE l == [F[g] EXCEPT ![s] = f]
<1>1. Boarded(F, g, s, f) = [F EXCEPT ![g] = l]
  BY Zenon DEF Boarded
<1>2. l \in [Slots -> FlightType] /\ l[s] = f /\ \A t \in Slots : t # s => l[t] = F[g][t]
  OBVIOUS
<1> HIDE DEF l
<1> QED
  BY Zenon, <1>1, <1>2

\* A batch of events that fit takes off, or lands.
LEMMA FlightFits ==
    ASSUME Inv, NEW g \in Gateways, NEW s \in Slots, NEW f \in FlightType,
           flights' = Boarded(flights, g, s, f),
           Len(f.events) <= BatchSize, f.todo \subseteq Peers(g), AllFit(f.events, gone, erased)
    PROVE  /\ flights' \in [Gateways -> [Slots -> FlightType]]
           /\ \A h \in Gateways, t \in Slots :
                 /\ Len(flights'[h][t].events) <= BatchSize /\ flights'[h][t].todo \subseteq Peers(h)
                 /\ AllFit(flights'[h][t].events, gone, erased)
<1>1. flights \in [Gateways -> [Slots -> FlightType]]
  BY Zenon DEF Inv, Shape
<1>2. /\ flights' \in [Gateways -> [Slots -> FlightType]] /\ flights'[g][s] = f
      /\ \A h \in Gateways, t \in Slots : h # g \/ t # s => flights'[h][t] = flights[h][t]
  BY <1>1, FlightWrite
<1>3. ASSUME NEW h \in Gateways, NEW t \in Slots
      PROVE  /\ Len(flights'[h][t].events) <= BatchSize /\ flights'[h][t].todo \subseteq Peers(h)
             /\ AllFit(flights'[h][t].events, gone, erased)
  <2>1. CASE h = g /\ t = s
    BY Zenon, <1>2, <2>1
  <2>2. CASE h # g \/ t # s
    <3>1. /\ Len(flights[h][t].events) <= BatchSize /\ flights[h][t].todo \subseteq Peers(h)
          /\ AllFit(flights[h][t].events, gone, erased)
      BY Zenon DEF Inv, Bounded, EventsFit
    <3> QED
      BY Zenon, <1>2, <2>2, <3>1
  <2> QED
    BY Zenon, <2>1, <2>2
<1> QED
  BY Zenon, <1>2, <1>3

LEMMA NoFlightFits ==
    ASSUME NEW g \in Gateways, NEW G, NEW E
    PROVE  NoFlight \in FlightType /\ Len(NoFlight.events) <= BatchSize /\ NoFlight.todo \subseteq Peers(g)
           /\ AllFit(NoFlight.events, G, E)
BY Numbers DEF NoFlight, FlightType, AllFit

\* A send ends.
LEMMA SentFits ==
    ASSUME Inv, NEW g \in Gateways, NEW s \in Slots, NEW p, Sent(g, s, p)
    PROVE  /\ flights' \in [Gateways -> [Slots -> FlightType]]
           /\ \A h \in Gateways, t \in Slots :
                 /\ Len(flights'[h][t].events) <= BatchSize /\ flights'[h][t].todo \subseteq Peers(h)
                 /\ AllFit(flights'[h][t].events, gone, erased)
<1> DEFINE f == flights[g][s]
           k == [f EXCEPT !.todo = f.todo \ {p}]
           n == IF f.todo = {p} THEN NoFlight ELSE k
<1>1. flights' = Boarded(flights, g, s, n)
  BY Zenon DEF Sent, Boarded
<1>2. /\ f \in FlightType /\ Len(f.events) <= BatchSize /\ f.todo \subseteq Peers(g)
      /\ AllFit(f.events, gone, erased)
  BY Zenon, Types DEF Inv, Bounded, EventsFit
<1> HIDE DEF f
<1>3. k \in FlightType /\ k.events = f.events /\ k.todo = f.todo \ {p}
  BY Zenon, <1>2 DEF FlightType
<1> HIDE DEF k
<1>4. /\ n \in FlightType /\ Len(n.events) <= BatchSize /\ n.todo \subseteq Peers(g)
      /\ AllFit(n.events, gone, erased)
  BY Zenon, <1>2, <1>3, NoFlightFits
<1> HIDE DEF n
<1> QED
  BY Zenon, <1>1, <1>4, FlightFits

LEMMA LoseInv ==
    ASSUME Inv, NEW g \in Gateways, NEW s \in Slots, NEW p \in Peers(g), Lose(g, s, p)
    PROVE  Inv'
<1>1. /\ Sent(g, s, p)
      /\ UNCHANGED <<upstream, cache, req, queue, pending, warmup, requests, snapshots, gone, erased, purged>>
  BY Zenon DEF Lose
<1>2. /\ flights' \in [Gateways -> [Slots -> FlightType]]
      /\ \A h \in Gateways, t \in Slots :
            /\ Len(flights'[h][t].events) <= BatchSize /\ flights'[h][t].todo \subseteq Peers(h)
            /\ AllFit(flights'[h][t].events, gone, erased)
  BY Zenon, <1>1, SentFits
<1>3. Shape'
  BY Zenon, <1>1, <1>2 DEF Inv, Shape
<1>4. ASSUME NEW h \in Gateways
      PROVE  Bounded(h)' /\ EventsFit(h)'
  BY Zenon, <1>1, <1>2 DEF Inv, Bounded, Reading, EventsFit
<1> QED
  BY Zenon, <1>1, <1>3, <1>4 DEF Inv

\* An entry that arrives has what is left of it: its TTL does not start again.
LEMMA DonatedInv ==
    ASSUME Inv, NEW g \in Gateways, NEW b \in Blobs, Donated(g, b)
    PROVE  Inv'
<1> DEFINE v == warmup[g]
           x == AtMost(v.entries[b], TTL)
           l == [v.entries EXCEPT ![b] = 0]
           w == [v EXCEPT !.entries = l]
<1>1. v.entries[b] > 0
  BY Zenon DEF Donated
<1>2. cache' = Written(cache, g, b, x)
  BY Zenon DEF Donated, Written
<1>3. warmup' = [warmup EXCEPT ![g] = w]
  BY Zenon DEF Donated
<1>4. UNCHANGED <<upstream, req, queue, pending, flights, requests, snapshots, gone, erased, purged>>
  BY Zenon DEF Donated, replicationVars
<1>5. /\ v \in DonationType /\ DonationFits(b, v, gone, snapshots)
      /\ \A k \in Blobs : DonationFits(k, v, gone, snapshots)
  BY Zenon DEF Inv, Shape
<1> HIDE DEF v
<1>6. v.entries \in Lifetimes /\ v.entries[b] \in 0 .. TTL /\ v.age \in 0 .. MaxLag
  BY Zenon, <1>5 DEF DonationType, Lifetimes
<1>7. /\ TTL \in Nat /\ MaxLag \in Nat /\ gone[b] \in Nat
      /\ Span(1 + snapshots) \in Nat /\ Span(2 + snapshots) = Span(1 + snapshots) + MaxLag
  BY Zenon, Amounts DEF Inv
<1>8. x = v.entries[b]
  <2>1. v.entries[b] \in Int /\ TTL \in Int /\ v.entries[b] <= TTL
    BY <1>6, <1>7
  <2> QED
    BY <2>1 DEF AtMost
<1>9. x \in 0 .. TTL /\ EntryFits(b, x, gone, snapshots)
  <2>1. gone[b] + v.entries[b] <= Span(2 + snapshots)
    BY <1>1, <1>5, <1>6, <1>7 DEF DonationFits
  <2> QED
    BY Zenon, <1>6, <1>8, <2>1 DEF EntryFits
<1> HIDE DEF x
<1>10. l \in Lifetimes /\ l[b] = 0 /\ \A k \in Blobs : k # b => l[k] = v.entries[k]
  BY <1>6, <1>7 DEF Lifetimes
<1> HIDE DEF l
<1>11. /\ w \in DonationType /\ w.stage = v.stage /\ w.donor = v.donor /\ w.age = v.age /\ w.entries = l
  BY Zenon, <1>5, <1>10 DEF DonationType
<1> HIDE DEF w
<1>12. \A k \in Blobs : DonationFits(k, w, gone, snapshots)
  BY <1>5, <1>10, <1>11 DEF DonationFits
<1>13. /\ cache' \in [Gateways -> Lifetimes] /\ cache'[g][b] = x
       /\ \A h \in Gateways, k \in Blobs : h # g \/ k # b => cache'[h][k] = cache[h][k]
  <2>1. cache \in [Gateways -> Lifetimes]
    BY Zenon DEF Inv, Shape
  <2> QED
    BY <1>2, <1>9, <2>1, CacheWrite
<1>14. \A h \in Gateways : warmup'[h] = IF h = g THEN w ELSE warmup[h]
  BY Zenon, <1>3 DEF Inv, Shape
<1>15. Shape'
  <2>1. warmup' \in [Gateways -> DonationType]
    BY Zenon, <1>3, <1>11 DEF Inv, Shape
  <2> QED
    BY Zenon, <1>4, <1>13, <2>1 DEF Inv, Shape
<1>16. ASSUME NEW h \in Gateways
       PROVE  Bounded(h)' /\ EventsFit(h)'
  <2>1. Reading(h)' = Reading(h)
    BY Zenon, <1>11, <1>14 DEF Reading, v
  <2>2. Cardinality(Reading(h))' = Cardinality(Reading(h))
    BY Zenon, <2>1
  <2> QED
    BY Zenon, <1>4, <2>2 DEF Inv, Bounded, EventsFit
<1>17. ASSUME NEW h \in Gateways, NEW k \in Blobs
       PROVE  /\ EntryFits(k, cache'[h][k], gone', snapshots')
              /\ DonationFits(k, warmup'[h], gone', snapshots')
  <2>1. CASE h = g /\ k = b
    BY Zenon, <1>4, <1>9, <1>12, <1>13, <1>14, <2>1
  <2>2. CASE h # g \/ k # b
    BY Zenon, <1>4, <1>12, <1>13, <1>14, <2>2 DEF Inv
  <2> QED
    BY Zenon, <2>1, <2>2
<1> QED
  BY Zenon, <1>4, <1>15, <1>16, <1>17 DEF Inv

-----------------------------------------------------------------------------
(***************************************************************************)
(* Time.                                                                   *)
(***************************************************************************)

\* A tick later every event is a tick older, and what it says a tick longer ago.
LEMMA AgedFits ==
    ASSUME NEW s \in Seq(EventType), InTime(s), NEW G \in [Blobs -> Times], NEW H \in [Blobs -> Times], NEW E,
           \A b \in Blobs : H[b] <= G[b] + 1, AllFit(s, G, E)
    PROVE  Aged(s) \in Seq(EventType) /\ Len(Aged(s)) = Len(s) /\ AllFit(Aged(s), H, E)
<1>0. MaxLag \in Nat /\ \A b \in Blobs : G[b] \in Int /\ H[b] \in Int /\ H[b] <= G[b] + 1
  BY Numbers, SpanFacts DEF Times
<1>1. DOMAIN s = 1 .. Len(s) /\ Len(s) \in Nat /\ \A i \in 1 .. Len(s) : s[i] \in EventType
  OBVIOUS
<1>2. ASSUME NEW e \in EventType, e.age < MaxLag
      PROVE  /\ [e EXCEPT !.age = @ + 1] \in EventType
             /\ EventFits(e, G, E) => EventFits([e EXCEPT !.age = @ + 1], H, E)
  <2> DEFINE o == [e EXCEPT !.age = @ + 1]
  <2>0. e = [blob |-> e.blob, deleted |-> e.deleted, age |-> e.age] /\ e.deleted \in BOOLEAN
    BY Zenon DEF EventType
  <2>1. /\ o.blob = e.blob /\ o.age = e.age + 1 /\ (o.deleted <=> e.deleted)
        /\ o = [blob |-> e.blob, deleted |-> e.deleted, age |-> e.age + 1]
    BY <2>0
  <2>2. e.blob \in Blobs /\ e.age \in Int /\ G[e.blob] \in Int /\ H[e.blob] \in Int /\ H[e.blob] <= G[e.blob] + 1
    BY <1>0 DEF EventType
  <2>3. o \in EventType
    <3>1. e.blob \in Blobs /\ e.age + 1 \in 0 .. MaxLag
      BY <1>0, <1>2 DEF EventType
    <3> QED
      BY Zenon, <2>0, <2>1, <3>1 DEF EventType
  <2> HIDE DEF o
  <2>4. EventFits(e, G, E) => EventFits(o, H, E)
    <3>1. CASE e.deleted
      BY Zenon, <2>1, <3>1 DEF EventFits
    <3>2. CASE ~e.deleted
      <4>1. G[e.blob] <= MaxLag + e.age => H[e.blob] <= MaxLag + (e.age + 1)
        BY <1>0, <2>2
      <4> QED
        BY Zenon, <2>1, <3>2, <4>1 DEF EventFits
    <3> QED
      BY Zenon, <3>1, <3>2
  <2> QED
    BY Zenon, <2>3, <2>4 DEF o
<1>3. ASSUME NEW i \in 1 .. Len(s)
      PROVE  s[i] \in EventType /\ s[i].age < MaxLag /\ EventFits(s[i], G, E)
  BY Zenon, <1>1 DEF InTime, Elements, AllFit
<1>4. /\ Aged(s) = [i \in 1 .. Len(s) |-> [s[i] EXCEPT !.age = @ + 1]]
  BY Zenon, <1>1 DEF Aged
<1>5. ASSUME NEW i \in 1 .. Len(s)
      PROVE  Aged(s)[i] \in EventType /\ EventFits(Aged(s)[i], H, E)
  <2>1. Aged(s)[i] = [s[i] EXCEPT !.age = @ + 1]
    BY Zenon, <1>4
  <2>2. s[i] \in EventType /\ s[i].age < MaxLag /\ EventFits(s[i], G, E)
    BY Zenon, <1>3
  <2> QED
    BY Zenon, <1>2, <2>1, <2>2
<1>6. Aged(s) \in [1 .. Len(s) -> EventType]
  BY Zenon, <1>4, <1>5
<1>7. Aged(s) \in Seq(EventType) /\ Len(Aged(s)) = Len(s) /\ DOMAIN Aged(s) = 1 .. Len(s)
  BY <1>1, <1>6
<1> QED
  BY Zenon, <1>5, <1>7 DEF AllFit

LEMMA TickInv ==
    ASSUME Inv, Tick
    PROVE  Inv'
<1>0. /\ TTL \in Nat /\ MaxLag \in Nat /\ Horizon \in Nat /\ snapshots \in Nat
      /\ Span(1 + snapshots) \in Nat /\ Span(2 + snapshots) \in Nat
      /\ gone \in [Blobs -> Times] /\ \A b \in Blobs : gone[b] \in Nat
  BY Zenon, Amounts, Types DEF Inv
<1>1. UNCHANGED <<upstream, requests, snapshots, erased, purged>>
  BY Zenon DEF Tick
<1>2. gone' \in [Blobs -> Times] /\ \A b \in Blobs : gone'[b] <= gone[b] + 1 /\ gone'[b] \in Nat
  <2>1. gone' = [b \in Blobs |-> IF b \in upstream THEN 0 ELSE AtMost(gone[b] + 1, Horizon + 1)]
    BY Zenon DEF Tick
  <2>2. ASSUME NEW b \in Blobs
        PROVE  gone'[b] \in Times /\ gone'[b] <= gone[b] + 1 /\ gone'[b] \in Nat
    BY <1>0, <2>1 DEF AtMost, Times
  <2> QED
    BY Zenon, <2>1, <2>2
<1>3. \A b \in upstream' : gone'[b] = 0
  BY Zenon, <1>1 DEF Tick, Inv, Shape
<1>4. ASSUME NEW g \in Gateways
      PROVE  /\ Aged(queue[g]) \in Seq(EventType) /\ Len(Aged(queue[g])) = Len(queue[g])
             /\ AllFit(Aged(queue[g]), gone', erased)
             /\ Aged(pending[g]) \in Seq(EventType) /\ Len(Aged(pending[g])) = Len(pending[g])
             /\ AllFit(Aged(pending[g]), gone', erased)
  <2>1. /\ queue[g] \in Seq(EventType) /\ pending[g] \in Seq(EventType)
        /\ AllFit(queue[g], gone, erased) /\ AllFit(pending[g], gone, erased)
        /\ InTime(queue[g]) /\ InTime(pending[g])
    BY Zenon DEF Inv, Shape, EventsFit, Tick
  <2> QED
    BY Zenon, <1>0, <1>2, <2>1, AgedFits
<1>5. ASSUME NEW g \in Gateways, NEW s \in Slots
      PROVE  /\ flights'[g][s] \in FlightType /\ flights'[g][s].todo = flights[g][s].todo
             /\ Len(flights'[g][s].events) = Len(flights[g][s].events)
             /\ AllFit(flights'[g][s].events, gone', erased)
  <2> DEFINE f == flights[g][s]
             ev == f.events
             old == Aged(ev)
  <2>1. f \in FlightType /\ ev \in Seq(EventType) /\ AllFit(ev, gone, erased) /\ InTime(ev)
    BY Zenon, Types DEF Inv, EventsFit, Tick
  <2>2. flights'[g][s] = [f EXCEPT !.events = old]
    BY Zenon DEF Tick
  <2> HIDE DEF ev
  <2>3. old \in Seq(EventType) /\ Len(old) = Len(ev) /\ AllFit(old, gone', erased)
    BY Zenon, <1>0, <1>2, <2>1, AgedFits
  <2> HIDE DEF f, old
  <2>4. /\ [f EXCEPT !.events = old] \in FlightType /\ [f EXCEPT !.events = old].todo = f.todo
        /\ [f EXCEPT !.events = old].events = old
    BY Zenon, <2>1, <2>3 DEF FlightType
  <2> QED
    BY Zenon, <2>2, <2>3, <2>4 DEF f, ev
<1>6. /\ queue' = [g \in Gateways |-> Aged(queue[g])]
      /\ pending' = [g \in Gateways |-> Aged(pending[g])]
  BY Zenon DEF Tick
<1>7. /\ queue' \in [Gateways -> Seq(EventType)] /\ pending' \in [Gateways -> Seq(EventType)]
      /\ flights' \in [Gateways -> [Slots -> FlightType]]
  <2>1. flights' = [g \in Gateways |-> [s \in Slots |-> [flights[g][s] EXCEPT !.events = Aged(@)]]]
    BY Zenon DEF Tick
  <2>2. \A g \in Gateways : flights'[g] \in [Slots -> FlightType]
    BY Zenon, <1>5, <2>1
  <2>3. flights' \in [Gateways -> [Slots -> FlightType]]
    BY Zenon, <2>1, <2>2
  <2> QED
    BY Zenon, <1>4, <1>6, <2>3
<1>8. ASSUME NEW c \in Clients
      PROVE  req'[c] \in RequestType \cup {NoRequest} /\ AnswerFits(req'[c], gone', erased')
  <2> DEFINE r == req[c]
             o == [r EXCEPT !.age = @ + 1]
  <2>1. /\ r \in RequestType \cup {NoRequest} /\ AnswerFits(r, gone, erased)
        /\ r.stage = "answered" => r.age < MaxLag
        /\ req'[c] = IF r.stage = "answered" THEN o ELSE r
    BY Zenon DEF Inv, Shape, Tick
  <2> HIDE DEF r
  <2>2. CASE r.stage = "answered"
    <3>1. r \in RequestType
      BY <2>1, <2>2 DEF NoRequest
    <3>2. /\ o \in RequestType /\ o.stage = r.stage /\ o.op = r.op /\ o.blob = r.blob /\ o.answer = r.answer
          /\ o.age = r.age + 1
      BY <1>0, <2>1, <2>2, <3>1 DEF RequestType
    <3>3. r.blob \in Blobs /\ r.age \in Nat
      BY <1>0, <3>1 DEF RequestType
    <3> HIDE DEF o
    <3>4. AnswerFits(o, gone', erased')
      BY <1>0, <1>1, <1>2, <2>1, <3>2, <3>3 DEF AnswerFits
    <3> QED
      BY Zenon, <2>1, <2>2, <3>2, <3>4
  <2>3. CASE r.stage # "answered"
    BY Zenon, <2>1, <2>3 DEF AnswerFits
  <2> QED
    BY Zenon, <2>2, <2>3
<1>9. ASSUME NEW g \in Gateways, NEW b \in Blobs
      PROVE  cache'[g][b] \in 0 .. TTL /\ EntryFits(b, cache'[g][b], gone', snapshots')
  <2>1. cache[g][b] \in 0 .. TTL /\ EntryFits(b, cache[g][b], gone, snapshots)
    BY Zenon, Types DEF Inv
  <2>2. cache'[g][b] = IF cache[g][b] = 0 THEN 0 ELSE cache[g][b] - 1
    BY Zenon DEF Tick
  <2>3. gone[b] \in Nat /\ gone'[b] \in Nat /\ gone'[b] <= gone[b] + 1
    BY Zenon, <1>0, <1>2
  <2> QED
    BY <1>0, <1>1, <2>1, <2>2, <2>3 DEF EntryFits
<1>10. ASSUME NEW g \in Gateways
       PROVE  /\ warmup'[g] \in DonationType
              /\ warmup'[g].stage = warmup[g].stage /\ warmup'[g].donor = warmup[g].donor
              /\ \A b \in Blobs : DonationFits(b, warmup'[g], gone', snapshots')
  <2> DEFINE w == warmup[g]
             o == [w EXCEPT !.age = @ + 1]
  <2>1. /\ w \in DonationType /\ \A b \in Blobs : DonationFits(b, w, gone, snapshots)
        /\ w.stage = "reading" => w.age < MaxLag
        /\ warmup'[g] = IF w.stage = "reading" THEN o ELSE w
    BY Zenon DEF Inv, Shape, Tick
  <2> HIDE DEF w
  <2>2. w.age \in Nat /\ \A b \in Blobs : w.entries[b] \in Nat
    BY <1>0, <2>1 DEF DonationType, Lifetimes
  <2>3. CASE w.stage = "reading"
    <3>1. /\ o \in DonationType /\ o.stage = w.stage /\ o.donor = w.donor /\ o.entries = w.entries
          /\ o.age = w.age + 1
      BY <1>0, <2>1, <2>3 DEF DonationType
    <3> HIDE DEF o
    <3>2. ASSUME NEW b \in Blobs
          PROVE  DonationFits(b, o, gone', snapshots)
      <4>1. gone[b] \in Nat /\ gone'[b] \in Nat /\ gone'[b] <= gone[b] + 1 /\ w.entries[b] \in Nat
        BY Zenon, <1>0, <1>2, <2>2
      <4>2. w.entries[b] > 0 => gone[b] + w.entries[b] <= Span(1 + snapshots) + w.age
        BY Zenon, <2>1 DEF DonationFits
      <4>3. w.entries[b] > 0 => gone'[b] + w.entries[b] <= Span(1 + snapshots) + (w.age + 1)
        BY <1>0, <2>2, <4>1, <4>2
      <4> QED
        BY Zenon, <2>3, <3>1, <4>3 DEF DonationFits
    <3> QED
      BY Zenon, <1>1, <2>1, <2>3, <3>1, <3>2 DEF w
  <2>4. CASE w.stage # "reading"
    <3>1. \A b \in Blobs : ~(w.entries[b] > 0)
      BY Zenon, <2>1, <2>4 DEF DonationFits
    <3> QED
      BY Zenon, <2>1, <2>4, <3>1 DEF DonationFits, w
  <2> QED
    BY Zenon, <2>3, <2>4
<1>11. Shape'
  <2>1. req' \in [Clients -> RequestType \cup {NoRequest}]
    <3>1. req' = [c \in Clients |-> IF req[c].stage = "answered" THEN [req[c] EXCEPT !.age = @ + 1] ELSE req[c]]
      BY Zenon DEF Tick
    <3> QED
      BY Zenon, <1>8, <3>1
  <2>2. cache' \in [Gateways -> Lifetimes]
    <3>1. cache' = [g \in Gateways |-> [b \in Blobs |-> IF cache[g][b] = 0 THEN 0 ELSE cache[g][b] - 1]]
      BY Zenon DEF Tick
    <3>2. \A g \in Gateways : cache'[g] \in Lifetimes
      BY Zenon, <1>9, <3>1 DEF Lifetimes
    <3> QED
      BY Zenon, <3>1, <3>2
  <2>3. warmup' \in [Gateways -> DonationType]
    <3>1. warmup' = [g \in Gateways |-> IF warmup[g].stage = "reading" THEN [warmup[g] EXCEPT !.age = @ + 1] ELSE warmup[g]]
      BY Zenon DEF Tick
    <3> QED
      BY Zenon, <1>10, <3>1
  <2> QED
    BY Zenon, <1>1, <1>2, <1>7, <2>1, <2>2, <2>3 DEF Inv, Shape, Times
<1>12. ASSUME NEW g \in Gateways
       PROVE  Bounded(g)' /\ EventsFit(g)'
  <2>1. Reading(g)' = Reading(g)
    BY Zenon, <1>10 DEF Reading
  <2>2. Cardinality(Reading(g))' = Cardinality(Reading(g))
    BY Zenon, <2>1
  <2>3. Bounded(g)
    BY Zenon DEF Inv
  <2>4. Bounded(g)'
    BY Zenon, <1>4, <1>5, <1>6, <2>2, <2>3 DEF Bounded
  <2>5. EventsFit(g)'
    BY Zenon, <1>1, <1>4, <1>5, <1>6 DEF EventsFit
  <2> QED
    BY Zenon, <2>4, <2>5
<1> QED
  BY Zenon, <1>3, <1>8, <1>9, <1>10, <1>11, <1>12 DEF Inv
=============================================================================
