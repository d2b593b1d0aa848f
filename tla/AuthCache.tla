----------------------------- MODULE AuthCache -----------------------------
(***************************************************************************)
(* The gateway's cache of authenticated transports: authCache.get in       *)
(* pkg/serve/gateway/gateway.go, for one repository and scope.             *)
(*                                                                         *)
(* Requests share an entry and its sync.Once: one of them performs the     *)
(* handshake, the others wait for it.  An entry whose handshake failed is  *)
(* taken out of the map by every request that finds it so.                 *)
(***************************************************************************)
EXTENDS TLAPS

CONSTANTS
    Requests,  \* goroutines that serve requests
    Entries,   \* authEntry objects; one that nothing refers to can be used again
    NoEntry

ASSUME EntryAssumption == NoEntry \notin Entries

VARIABLES
    inner,   \* authCache.inner[key]
    status,  \* of each entry: "new", "running", "ok" or "failed"
    pc,      \* where each request is in get
    entry    \* the entry it has got hold of

vars == <<inner, status, pc, entry>>

Init ==
    /\ inner = NoEntry
    /\ status = [e \in Entries |-> "new"]
    /\ pc = [r \in Requests |-> "idle"]
    /\ entry = [r \in Requests |-> NoEntry]

Referenced(e) == e = inner \/ \E r \in Requests : entry[r] = e

\* The entry of the map, or a new one, under the mutex.
Lookup(r) ==
    /\ pc[r] = "idle"
    /\ pc' = [pc EXCEPT ![r] = "once"]
    /\ \/ /\ inner # NoEntry
          /\ entry' = [entry EXCEPT ![r] = inner]
          /\ UNCHANGED <<inner, status>>
       \/ /\ inner = NoEntry
          /\ \E e \in Entries :
                /\ ~Referenced(e)
                /\ inner' = e
                /\ status' = [status EXCEPT ![e] = "new"]
                /\ entry' = [entry EXCEPT ![r] = e]

\* once.Do: the first request runs create, the others go on when it is done.
DoTwice(r) ==
    LET e == entry[r] IN
    /\ pc[r] = "once"
    /\ \/ /\ status[e] \in {"new", "running"}
          /\ status' = [status EXCEPT ![e] = "running"]
          /\ pc' = [pc EXCEPT ![r] = "creating"]
       \/ /\ status[e] \in {"ok", "failed"}
          /\ pc' = [pc EXCEPT ![r] = "done"]
          /\ UNCHANGED status
    /\ UNCHANGED <<inner, entry>>
Do(r) ==
    LET e == entry[r] IN
    /\ pc[r] = "once"
    /\ \/ /\ status[e] = "new"
          /\ status' = [status EXCEPT ![e] = "running"]
          /\ pc' = [pc EXCEPT ![r] = "creating"]
       \/ /\ status[e] \in {"ok", "failed"}
          /\ pc' = [pc EXCEPT ![r] = "done"]
          /\ UNCHANGED status
    /\ UNCHANGED <<inner, entry>>

\* create ends, at the latest after authHandshakeTimeout.
Created(r) ==
    /\ pc[r] = "creating"
    /\ \E outcome \in {"ok", "failed"} : status' = [status EXCEPT ![entry[r]] = outcome]
    /\ pc' = [pc EXCEPT ![r] = "done"]
    /\ UNCHANGED <<inner, entry>>

ReturnRetrying(r) ==
    LET failed == status[entry[r]] = "failed" IN
    /\ pc[r] = "done"
    /\ status' = IF failed THEN [status EXCEPT ![entry[r]] = "new"] ELSE status
    /\ pc' = [pc EXCEPT ![r] = IF failed THEN "once" ELSE "idle"]
    /\ entry' = IF failed THEN entry ELSE [entry EXCEPT ![r] = NoEntry]
    /\ UNCHANGED inner

\* The request goes on with the transport, or drops the entry and fails.
Return(r) ==
    /\ pc[r] = "done"
    /\ inner' = IF status[entry[r]] = "failed" /\ inner = entry[r] THEN NoEntry ELSE inner
    /\ pc' = [pc EXCEPT ![r] = "idle"]
    /\ entry' = [entry EXCEPT ![r] = NoEntry]
    /\ UNCHANGED status

get(r) == Lookup(r) \/ Do(r) \/ Created(r) \/ Return(r)
Next == \E r \in Requests : get(r)

\* A goroutine that can go on does, and a handshake ends.
Fairness == \A r \in Requests : WF_vars(Do(r) \/ Created(r) \/ Return(r))
Spec == Init /\ [][Next]_vars /\ Fairness

------------------------------------------------------------------------------
(* Properties *)

\* A request holds an entry exactly while it is in get.
TypeOK ==
    /\ inner \in Entries \cup {NoEntry}
    /\ status \in [Entries -> {"new", "running", "ok", "failed"}]
    /\ pc \in [Requests -> {"idle", "once", "creating", "done"}]
    /\ entry \in [Requests -> Entries \cup {NoEntry}]
    /\ \A r \in Requests : pc[r] = "idle" <=> entry[r] = NoEntry

\* At most one handshake with the registry is under way, also while requests that
\* saw an earlier one fail are still on their way out.
OneHandshake ==
    \A r, s \in Requests : pc[r] = "creating" /\ pc[s] = "creating" => r = s

\* A transport that was created is not created again: its entry stays in the map
\* (authCache: "at most once per key while it succeeds").
SuccessIsKept == [][inner # NoEntry /\ status[inner] = "ok" => inner' = inner]_vars

\* A failed handshake is not remembered: its entry is gone once the requests that
\* waited for it have returned.
FailureIsDropped ==
    inner # NoEntry /\ status[inner] = "failed" => \E r \in Requests : pc[r] = "done" /\ entry[r] = inner

\* What makes them hold: an entry whose handshake is not over is the entry of the
\* map, and one request performs it.
Inv ==
    /\ TypeOK
    /\ FailureIsDropped
    /\ \A r \in Requests : pc[r] = "creating" => status[entry[r]] = "running"
    /\ \A r \in Requests : entry[r] # NoEntry /\ status[entry[r]] \in {"new", "running"} => entry[r] = inner
    /\ \A r, s \in Requests : pc[r] = "creating" /\ pc[s] = "creating" /\ entry[r] = entry[s] => r = s
    /\ \A r \in Requests : pc[r] = "done" => status[entry[r]] \in {"ok", "failed"}

------------------------------------------------------------------------------
(* Proofs, for any number of requests and entries. *)

\* The inductive invariant holds at first.
LEMMA InitInv == Init => Inv
BY EntryAssumption DEF Init, Inv, TypeOK, FailureIsDropped

\* Each step of get preserves Inv.
LEMMA NextInv == Inv /\ [Next]_vars => Inv'
<1> SUFFICES ASSUME Inv, [Next]_vars PROVE Inv'
  OBVIOUS
<1> USE EntryAssumption DEF Inv, TypeOK, FailureIsDropped
<1>1. ASSUME NEW r \in Requests, Lookup(r) PROVE Inv'
  <2>1. CASE inner # NoEntry
    BY <1>1, <2>1 DEF Lookup
  <2>2. CASE inner = NoEntry
    <3>1. PICK e \in Entries :
             /\ ~Referenced(e)
             /\ inner' = e
             /\ status' = [status EXCEPT ![e] = "new"]
             /\ entry' = [entry EXCEPT ![r] = e]
      BY <1>1, <2>2 DEF Lookup
    <3>2. pc[r] = "idle" /\ pc' = [pc EXCEPT ![r] = "once"]
      BY <1>1 DEF Lookup
    <3>3. \A s \in Requests : entry[s] # e
      BY <3>1 DEF Referenced
    <3> QED
      BY <3>1, <3>2, <3>3, <2>2
  <2> QED
    BY <2>1, <2>2
<1>2. ASSUME NEW r \in Requests, Do(r) PROVE Inv'
  BY <1>2 DEF Do
<1>3. ASSUME NEW r \in Requests, Created(r) PROVE Inv'
  BY <1>3 DEF Created
<1>4. ASSUME NEW r \in Requests, Return(r) PROVE Inv'
  BY <1>4 DEF Return
<1>5. CASE UNCHANGED vars
  BY <1>5 DEF vars
<1> QED
  BY <1>1, <1>2, <1>3, <1>4, <1>5 DEF Next, get

\* The inductive invariant holds throughout.
THEOREM AuthCacheInvariant == Spec => []Inv
BY InitInv, NextInv, PTL DEF Spec

\* For every number of requests: at most one handshake is under way at a time.
THEOREM HandshakeIsExclusive == Spec => []OneHandshake
<1>1. Inv => OneHandshake
  BY EntryAssumption DEF Inv, TypeOK, OneHandshake
<1> QED
  BY <1>1, AuthCacheInvariant, PTL

\* For every number of requests: no step takes the entry of a successful handshake
\* out of the map or replaces it.
THEOREM SuccessIsSticky == Spec => SuccessIsKept
<1>1. Inv /\ [Next]_vars => [inner # NoEntry /\ status[inner] = "ok" => inner' = inner]_vars
  BY DEF Inv, TypeOK, Next, get, Lookup, Do, Created, Return, vars
<1> QED
  BY <1>1, AuthCacheInvariant, PTL DEF Spec, SuccessIsKept
=============================================================================
