------------------------------ MODULE LRUCache ------------------------------
(***************************************************************************)
(* What a shard of the blob existence cache promises                       *)
(* (pkg/serve/gateway/existencecache.go): a bounded map from blobs to      *)
(* their lengths, in the order of their last use, where an entry is        *)
(* believed until its lifetime is over and the one unused for longest      *)
(* makes room for a new one.                                               *)
(*                                                                         *)
(* A cache is the sequence of its entries, most recently used first.       *)
(***************************************************************************)
EXTENDS Integers, Sequences

CONSTANTS
    Keys,      \* registry, repository and digest of a blob
    Capacity,  \* the entries of a shard
    TTL,       \* the longest lifetime of an entry, in ticks
    Lengths    \* the lengths registries report

Unknown == -1

VARIABLE cache

Held(c) == {c[i].key : i \in DOMAIN c}
EntryOf(c, k) == c[CHOOSE i \in DOMAIN c : c[i].key = k]
Without(c, k) == SelectSeq(c, LAMBDA e : e.key # k)

Aged(c) == [i \in DOMAIN c |-> [c[i] EXCEPT !.left = IF @ = 0 THEN 0 ELSE @ - 1]]

Forgotten(c, k) == Without(c, k)

\* An entry whose time is up is dropped, not returned.
LookedUp(c, k) ==
    LET e == EntryOf(c, k) IN IF e.left = 0 THEN Without(c, k) ELSE <<e>> \o Without(c, k)

\* A length that is not known does not replace one that is.
Refreshed(c, k, length, lifetime) ==
    <<[key |-> k, left |-> lifetime, length |-> IF length = Unknown THEN EntryOf(c, k).length ELSE length]>>
        \o Without(c, k)

Admitted(c, k, length, lifetime) ==
    <<[key |-> k, left |-> lifetime, length |-> length]>> \o (IF Len(c) = Capacity THEN SubSeq(c, 1, Capacity - 1) ELSE c)

\* What one operation can make of a cache.
Successors(c) ==
    LET news == {<<length, lifetime>> : length \in Lengths \cup {Unknown}, lifetime \in 1 .. TTL} IN
    {Aged(c)}
      \cup {Forgotten(c, k) : k \in Held(c)}
      \cup {LookedUp(c, k) : k \in Held(c)}
      \cup {Refreshed(c, k, new[1], new[2]) : k \in Held(c), new \in news}
      \cup {Admitted(c, k, new[1], new[2]) : k \in Keys \ Held(c), new \in news}

Init == cache = <<>>
Next == cache' \in Successors(cache)
Spec == Init /\ [][Next]_cache
=============================================================================
