---------------------------- MODULE TenantCache ----------------------------
(***************************************************************************)
(* What every replica of the API keeps in memory of a store of the control *)
(* plane, by id and by slug.  An entry is read through, expires after a    *)
(* while, and is dropped on the replica that changes the row.  Reading the *)
(* row and keeping it are two steps, as are changing it and dropping it.   *)
(* The secrets of the integrations are kept in the same way by             *)
(* TenantSecretsService, under one key each.                               *)
(*                                                                         *)
(* Time is a number of periods.  A request takes less than one.            *)
(***************************************************************************)
EXTENDS Naturals

CONSTANTS
  Replicas, Readers,
  TTL,      \* CACHE_TTL_MS, in periods; an entry that is older is as good as none
  NoValue   \* no entry, no value

ASSUME CacheAssumption == TTL \in Nat \ {0} /\ NoValue \notin BOOLEAN

VARIABLES
  truth,    \* whether the store is ACTIVE
  since,    \* periods since that changed
  cache,    \* entries of each replica
  reading   \* requests between reading a row and keeping it

cacheVars == <<truth, since, cache, reading>>

Keys == {"id", "slug"}
NoEntry == [value |-> NoValue, age |-> 0]
NotReading == [at |-> NoValue, key |-> "id", value |-> NoValue, late |-> FALSE, drops |-> FALSE]

CacheInit ==
  /\ truth = TRUE /\ since = TTL + 1
  /\ cache = [i \in Replicas |-> [k \in Keys |-> NoEntry]]
  /\ reading = [q \in Readers |-> NotReading]

Valid(e) == e.value # NoValue
Answers(q) == reading' = [reading EXCEPT ![q] = NotReading]
IdleReader(q) == reading[q].at = NoValue

\* resolve and get: an entry that is valid answers, otherwise the row is read.
LookupKeepsAlive(q, i, k) ==
  /\ IdleReader(q)
  /\ IF Valid(cache[i][k])
     THEN cache' = [cache EXCEPT ![i][k].age = 0] /\ UNCHANGED reading
     ELSE /\ reading' = [reading EXCEPT ![q] = [NotReading EXCEPT !.at = i, !.key = k, !.value = truth]]
          /\ UNCHANGED cache
  /\ UNCHANGED <<truth, since>>

Lookup(q, i, k) ==
  /\ IdleReader(q) /\ ~Valid(cache[i][k])
  /\ reading' = [reading EXCEPT ![q] = [NotReading EXCEPT !.at = i, !.key = k, !.value = truth]]
  /\ UNCHANGED <<truth, since, cache>>

\* set: the entry is as young as the moment it is kept.
Keep(q) ==
  /\ ~IdleReader(q) /\ ~reading[q].drops
  /\ cache' = [cache EXCEPT ![reading[q].at][reading[q].key] = [value |-> reading[q].value, age |-> 0]]
  /\ Answers(q)
  /\ UNCHANGED <<truth, since>>

\* setStatus and syncTenant: the row first, ...
Change(q, i) ==
  /\ IdleReader(q)
  /\ truth' = ~truth /\ since' = 0
  /\ reading' = [reading EXCEPT ![q] = [NotReading EXCEPT !.at = i, !.drops = TRUE]]
  /\ UNCHANGED cache

\* ... then the entries of this replica, by id and by slug.
Invalidate(q) ==
  /\ ~IdleReader(q) /\ reading[q].drops
  /\ cache' = [cache EXCEPT ![reading[q].at] = [k \in Keys |-> NoEntry]]
  /\ Answers(q)
  /\ UNCHANGED <<truth, since>>

\* The oldest entry gives way when there are too many.
EvictOldest(i, k) ==
  /\ cache[i][k].value # NoValue
  /\ cache' = [cache EXCEPT ![i][k] = NoEntry]
  /\ UNCHANGED <<truth, since, reading>>

\* An entry of TTL periods is not valid any more.
Aged(e) == IF Valid(e) /\ e.age + 1 < TTL THEN [e EXCEPT !.age = @ + 1] ELSE NoEntry
Tick ==
  /\ \A q \in Readers : ~reading[q].late
  /\ cache' = [i \in Replicas |-> [k \in Keys |-> Aged(cache[i][k])]]
  /\ since' = IF since > TTL THEN since ELSE since + 1
  /\ reading' = [q \in Readers |-> IF IdleReader(q) THEN NotReading ELSE [reading[q] EXCEPT !.late = TRUE]]
  /\ UNCHANGED truth

CacheNext ==
  \/ \E q \in Readers :
       \/ Keep(q) \/ Invalidate(q)
       \/ \E i \in Replicas : Change(q, i) \/ \E k \in Keys : Lookup(q, i, k)
  \/ \E i \in Replicas, k \in Keys : EvictOldest(i, k)
  \/ Tick

CacheSpec == CacheInit /\ [][CacheNext]_cacheVars

-----------------------------------------------------------------------------
(* Properties *)

\* Every entry and every request has the values its type allows.
CacheTypeOK ==
  /\ truth \in BOOLEAN /\ since \in 0..TTL + 1
  /\ cache \in [Replicas -> [Keys -> [value : BOOLEAN \cup {NoValue}, age : 0..TTL - 1]]]
  /\ reading \in [Readers -> [at : Replicas \cup {NoValue}, key : Keys, value : BOOLEAN \cup {NoValue},
                              late : BOOLEAN, drops : BOOLEAN]]

\* Whatever a replica still answers from memory was true at most TTL and the
\* time of one request ago: a store that was suspended on another replica, or
\* while its row was being read here, is not served for longer.
StaleForTTLAtMost ==
  \A i \in Replicas, k \in Keys :
    Valid(cache[i][k]) /\ cache[i][k].value # truth => since <= TTL
=============================================================================
