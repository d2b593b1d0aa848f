--------------------------- MODULE ExistenceShard ---------------------------
(***************************************************************************)
(* A shard of the blob existence cache as it is laid out in memory:        *)
(* cacheShard in pkg/serve/gateway/existencecache.go.                      *)
(*                                                                         *)
(* One table of slots carries three kinds of list: the LRU list (prev,     *)
(* next), the hash buckets (hprev, hnext) and, through next again, the     *)
(* free list.  Every operation holds the shard's mutex, so each is one     *)
(* step; what they build is compared with LRUCache.  A deadline is what is *)
(* left of it, in ticks.                                                   *)
(***************************************************************************)
EXTENDS Integers, Sequences, FiniteSets

CONSTANTS
    Keys,      \* registry, repository and digest of a blob
    Capacity,  \* len(slots)
    Buckets,   \* len(buckets)
    Hash,      \* the 64-bit hash of each key
    TTL,       \* blobExistenceCache.ttl in ticks
    Lengths,   \* the lengths registries report
    NoKey

VARIABLE shard  \* the cacheShard

None == -1
Slots == 0 .. Capacity - 1
Unknown == -1

EmptySlot == [key |-> NoKey, left |-> 0, length |-> 0, prev |-> 0, next |-> 0, hprev |-> 0, hnext |-> 0]

Init ==
    shard = [slots |-> [i \in Slots |-> EmptySlot],
             buckets |-> [b \in 0 .. Buckets - 1 |-> None],
             head |-> None, tail |-> None, free |-> None, used |-> 0, live |-> 0]

------------------------------------------------------------------------------
(* The lists.  Each operator returns the shard its method leaves behind. *)

Bucket(s, i) == Hash[s.slots[i].key] % Buckets

\* Sets a field of slot i, if there is a slot i.
SetPrev(s, i, to) == IF i = None THEN s ELSE [s EXCEPT !.slots[i].prev = to]
SetNext(s, i, to) == IF i = None THEN s ELSE [s EXCEPT !.slots[i].next = to]

unlinkLRU(s, i) ==
    LET prev == s.slots[i].prev
        next == s.slots[i].next
        passed == SetPrev(SetNext(s, prev, next), next, prev)
    IN [passed EXCEPT !.head = IF prev = None THEN next ELSE @,
                      !.tail = IF next = None THEN prev ELSE @,
                      !.slots[i].prev = None, !.slots[i].next = None]

pushFront(s, i) ==
    [SetPrev(s, s.head, i) EXCEPT !.slots[i].prev = None, !.slots[i].next = s.head,
                                  !.head = i, !.tail = IF @ = None THEN i ELSE @]

link(s, i) ==
    LET b == Bucket(s, i)
        first == s.buckets[b]
        behind == IF first = None THEN s ELSE [s EXCEPT !.slots[first].hprev = i]
    IN [behind EXCEPT !.slots[i].hprev = None, !.slots[i].hnext = first, !.buckets[b] = i]

unlink(s, i) ==
    LET hprev == s.slots[i].hprev
        hnext == s.slots[i].hnext
    IN [s EXCEPT !.buckets = IF hprev = None THEN [@ EXCEPT ![Bucket(s, i)] = hnext] ELSE @,
                 !.slots = [j \in Slots |->
                     IF j = i THEN [@[j] EXCEPT !.hprev = None, !.hnext = None]
                     ELSE IF j = hprev THEN [@[j] EXCEPT !.hnext = hnext]
                     ELSE IF j = hnext THEN [@[j] EXCEPT !.hprev = hprev]
                     ELSE @[j]]]

touchInPlace(s, i) == s
touch(s, i) == IF s.head = i THEN s ELSE pushFront(unlinkLRU(s, i), i)

\* The slot is freed after it has left the LRU list, which writes next too.
dropFreeingFirst(s, i) ==
    LET freed == [s EXCEPT !.slots[i].next = s.free, !.slots[i].left = 0, !.free = i]
    IN [unlink(unlinkLRU(freed, i), i) EXCEPT !.live = @ - 1]
drop(s, i) ==
    [unlink(unlinkLRU(s, i), i) EXCEPT !.slots[i].left = 0, !.slots[i].next = s.free, !.free = i, !.live = @ - 1]

\* The slots along a list from slot i on, at most Capacity of them.
Chain(i, Step(_)) ==
    LET along[n \in 1 .. Capacity] ==
            IF n = 1 THEN IF i = None THEN <<>> ELSE <<i>>
            ELSE LET before == along[n - 1]
                     next == IF Len(before) < n - 1 THEN None ELSE Step(before[n - 1])
                 IN IF next = None THEN before ELSE Append(before, next)
    IN along[Capacity]
InBucket(s, b) == Chain(s.buckets[b], LAMBDA i : s.slots[i].hnext)
InOrder(s) == Chain(s.head, LAMBDA i : s.slots[i].next)
InFreeList(s) == Chain(s.free, LAMBDA i : s.slots[i].next)
Elements(seq) == {seq[n] : n \in DOMAIN seq}

find(s, k) ==
    LET chain == InBucket(s, Hash[k] % Buckets)
        found == {n \in DOMAIN chain : s.slots[chain[n]].key = k}
    IN IF found = {} THEN None ELSE chain[CHOOSE n \in found : \A m \in found : n <= m]

\* A slot for a new entry: a freed one, one never used, or that of the entry
\* unused for longest.  Returns the slot and the shard.
claim(s) ==
    IF s.free # None THEN <<s.free, [s EXCEPT !.free = s.slots[s.free].next]>>
    ELSE IF s.used < Capacity THEN <<s.used, [s EXCEPT !.used = @ + 1]>>
    ELSE <<s.tail, [unlink(unlinkLRU(s, s.tail), s.tail) EXCEPT !.live = @ - 1]>>

------------------------------------------------------------------------------
(* Operations *)

Tick ==
    shard' = [shard EXCEPT !.slots = [i \in Slots |-> [@[i] EXCEPT !.left = IF @ = 0 THEN 0 ELSE @ - 1]]]

lookup(k) ==
    LET i == find(shard, k) IN
    /\ i # None
    /\ shard' = IF shard.slots[i].left = 0 THEN drop(shard, i) ELSE touch(shard, i)

\* store is insert with the cache's TTL.
insert(k, length, lifetime) ==
    LET i == find(shard, k) IN
    \/ /\ i # None
       /\ shard' = touch([shard EXCEPT !.slots[i].left = lifetime,
                                       !.slots[i].length = IF length = Unknown THEN @ ELSE length], i)
    \/ /\ i = None
       /\ LET claimed == claim(shard)
              at == claimed[1]
              written == [claimed[2] EXCEPT !.slots[at].key = k, !.slots[at].left = lifetime,
                                            !.slots[at].length = length, !.live = @ + 1]
          IN shard' = pushFront(link(written, at), at)

forget(k) ==
    LET i == find(shard, k) IN
    /\ i # None
    /\ shard' = drop(shard, i)

Next ==
    \/ Tick
    \/ \E k \in Keys : lookup(k) \/ forget(k)
    \/ \E k \in Keys, length \in Lengths \cup {Unknown}, lifetime \in 1 .. TTL : insert(k, length, lifetime)

Spec == Init /\ [][Next]_shard

------------------------------------------------------------------------------
(* Properties *)

Links == Slots \cup {None}

\* Every link of the table is a slot or none, and the counters stay within it.
TypeOK ==
    shard \in [slots : [Slots -> [key : Keys \cup {NoKey}, left : 0 .. TTL, length : Lengths \cup {Unknown, 0},
                                     prev : Links, next : Links, hprev : Links, hnext : Links]],
                  buckets : [0 .. Buckets - 1 -> Links],
                  head : Links, tail : Links, free : Links, used : 0 .. Capacity, live : 0 .. Capacity]

\* Every slot ever used is on the LRU list or on the free list, exactly once, and
\* every slot on the LRU list is in the bucket of its key, exactly once: no slot
\* leaks and none is handed out twice (claim, drop).
SlotsAreAccountedFor ==
    LET lru == InOrder(shard)
        freed == InFreeList(shard)
        chains == [b \in 0 .. Buckets - 1 |-> InBucket(shard, b)]
    IN /\ Elements(lru) \cup Elements(freed) = 0 .. shard.used - 1
       /\ Len(lru) + Len(freed) = shard.used
       /\ shard.live = Len(lru)
       /\ \A i \in Elements(lru) : \E n \in DOMAIN chains[Bucket(shard, i)] : chains[Bucket(shard, i)][n] = i
       /\ \A b \in DOMAIN chains : Elements(chains[b]) \subseteq Elements(lru)
                                   /\ Len(chains[b]) = Cardinality(Elements(chains[b]))

\* A key is found exactly when a slot of the LRU list holds it, and no two slots do,
\* whatever other keys share its hash or its bucket (find, matches).
FindIsExact ==
    \A k \in Keys :
        LET holding == {i \in Elements(InOrder(shard)) : shard.slots[i].key = k}
        IN holding = IF find(shard, k) = None THEN {} ELSE {find(shard, k)}

\* The back links that unlinking relies on mirror the forward ones.
BackLinksMirror ==
    \A i \in Elements(InOrder(shard)) :
        LET e == shard.slots[i] IN
        /\ IF e.prev = None THEN shard.head = i ELSE shard.slots[e.prev].next = i
        /\ IF e.next = None THEN shard.tail = i ELSE shard.slots[e.next].prev = i
        /\ IF e.hprev = None THEN shard.buckets[Bucket(shard, i)] = i ELSE shard.slots[e.hprev].hnext = i
        /\ e.hnext # None => shard.slots[e.hnext].hprev = i

\* The three lists of a shard are well formed: no slot leaks or is handed out
\* twice (claim, drop), find finds a key exactly when a slot in use holds it, and
\* the back links mirror the forward ones (unlink, unlinkLRU).
ShardIsSound == SlotsAreAccountedFor /\ FindIsExact /\ BackLinksMirror

\* The shard is the LRU map with lifetimes that its callers see: the list from head
\* is the order of last use, and every operation changes it the way LRUCache says.
EntriesInOrder ==
    LET lru == InOrder(shard)
        entry(i) == [key |-> shard.slots[i].key, left |-> shard.slots[i].left, length |-> shard.slots[i].length]
    IN [n \in DOMAIN lru |-> entry(lru[n])]
Abstract == INSTANCE LRUCache WITH cache <- EntriesInOrder

ImplementsLRUCache == Abstract!Spec
=============================================================================
