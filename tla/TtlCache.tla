------------------------------ MODULE TtlCache ------------------------------
(***************************************************************************)
(* The decorator ttl_cache (ttl_cache.py) under the worker threads of the  *)
(* API, which call one decorated function at the same time and hold no     *)
(* lock.  Each operation on the OrderedDict is one step; between two of    *)
(* them another thread may run.  A value is named by the time at which the *)
(* upstream was read for it.                                               *)
(***************************************************************************)
EXTENDS Integers, FiniteSets

CONSTANTS
  Threads,
  Keys,
  Seconds,      \* the time to live
  MaxSize,      \* the capacity
  MaxTime,      \* bound on the clock
  MaxClears     \* bound on the calls of cache_clear

ASSUME ThreadsAssumption == IsFiniteSet(Threads)
ASSUME SecondsAssumption == Seconds \in Nat \ {0}
ASSUME SizeAssumption    == MaxSize \in Nat \ {0}
ASSUME BoundAssumption   == MaxTime \in Nat /\ MaxClears \in Nat

VARIABLES
  now,      \* time.monotonic()
  store,    \* the cached entries, by key
  older,    \* <<a, b>>: a comes before b in the OrderedDict
  pc,       \* where each thread stands in wrapper()
  key,      \* the key of its call
  began,    \* the clock it read at the start of the call
  value,    \* the value it is about to store or return
  clears

vars == <<now, store, older, pc, key, began, value, clears>>
call == <<key, began>>

Entry == [at : 0..MaxTime, value : 0..MaxTime]
-----------------------------------------------------------------------------
(* The OrderedDict *)

Cached == DOMAIN store

\* Assigning to a key that is there keeps its place; a new one goes to the end.
Assign(k, e) ==
  /\ store' = [x \in Cached \cup {k} |-> IF x = k THEN e ELSE store[x]]
  /\ older' = IF k \in Cached THEN older ELSE older \cup (Cached \X {k})

MoveToEnd(k) ==
  older' = {p \in older : p[1] # k /\ p[2] # k} \cup ((Cached \ {k}) \X {k})

IsOldest(k) == k \in Cached /\ \A x \in Cached : <<x, k>> \notin older

Remove(k) ==
  /\ store' = [x \in Cached \ {k} |-> store[x]]
  /\ older' = {p \in older : p[1] # k /\ p[2] # k}

Live(e, t) == began[t] - e.at < Seconds

\* Mutant: an entry is dated by the end of the fetch.
EntryDatedLate(t) == [at |-> now, value |-> value[t]]

\* An entry is dated by the clock read before the fetch.
NewEntry(t) == [at |-> began[t], value |-> value[t]]
-----------------------------------------------------------------------------
Init ==
  /\ now = 0
  /\ store = [k \in {} |-> [at |-> 0, value |-> 0]]
  /\ older = {}
  /\ pc = [t \in Threads |-> "idle"]
  /\ key \in [Threads -> Keys]
  /\ began = [t \in Threads |-> 0]
  /\ value = [t \in Threads |-> 0]
  /\ clears = 0

Tick ==
  /\ now < MaxTime
  /\ now' = now + 1
  /\ UNCHANGED <<store, older, pc, call, value, clears>>

\* wrapper() is called: it makes the key and reads the clock.
Call(t, k) ==
  /\ pc[t] = "idle"
  /\ pc' = [pc EXCEPT ![t] = "get"]
  /\ key' = [key EXCEPT ![t] = k]
  /\ began' = [began EXCEPT ![t] = now]
  /\ UNCHANGED <<now, store, older, value, clears>>

Hit(t) ==
  /\ pc[t] = "get"
  /\ key[t] \in Cached
  /\ Live(store[key[t]], t)
  /\ value' = [value EXCEPT ![t] = store[key[t]].value]
  /\ pc' = [pc EXCEPT ![t] = "touch"]
  /\ UNCHANGED <<now, store, older, call, clears>>

Miss(t) ==
  /\ pc[t] = "get"
  /\ key[t] \in Cached => ~ Live(store[key[t]], t)
  /\ pc' = [pc EXCEPT ![t] = "fetch"]
  /\ UNCHANGED <<now, store, older, call, value, clears>>

\* The decorated function reads the upstream, which may take any time.
Fetch(t) ==
  /\ pc[t] = "fetch"
  /\ value' = [value EXCEPT ![t] = now]
  /\ pc' = [pc EXCEPT ![t] = "store"]
  /\ UNCHANGED <<now, store, older, call, clears>>

\* Or it raises: the exception goes to the caller and nothing is cached.
FetchRaises(t) ==
  /\ pc[t] = "fetch"
  /\ pc' = [pc EXCEPT ![t] = "idle"]
  /\ UNCHANGED <<now, store, older, call, value, clears>>

Store(t) ==
  /\ pc[t] = "store"
  /\ Assign(key[t], NewEntry(t))
  /\ pc' = [pc EXCEPT ![t] = "bump"]
  /\ UNCHANGED <<now, call, value, clears>>

\* store.move_to_end(key), after a hit and after an insertion.
Touch(t) ==
  /\ pc[t] \in {"touch", "bump"}
  /\ key[t] \in Cached
  /\ MoveToEnd(key[t])
  /\ pc' = [pc EXCEPT ![t] = IF pc[t] = "touch" THEN "return" ELSE "trim"]
  /\ UNCHANGED <<now, store, call, value, clears>>

\* Another thread has evicted the key since: move_to_end raises KeyError.
TouchRaises(t) ==
  /\ pc[t] \in {"touch", "bump"}
  /\ key[t] \notin Cached
  /\ pc' = [pc EXCEPT ![t] = "KeyError"]
  /\ UNCHANGED <<now, store, older, call, value, clears>>

\* Mutant: the loop stops one entry beyond the capacity.
TrimLate(t) ==
  /\ pc[t] = "trim"
  /\ pc' = [pc EXCEPT ![t] = IF Cardinality(Cached) > MaxSize + 1 THEN "pop" ELSE "return"]
  /\ UNCHANGED <<now, store, older, call, value, clears>>

\* Mutant: the loop does not stop at the capacity.
TrimForEver(t) ==
  /\ pc[t] = "trim"
  /\ pc' = [pc EXCEPT ![t] = IF Cardinality(Cached) >= MaxSize THEN "trim" ELSE "return"]
  /\ UNCHANGED <<now, store, older, call, value, clears>>

\* while len(store) > maxsize
Trim(t) ==
  /\ pc[t] = "trim"
  /\ pc' = [pc EXCEPT ![t] = IF Cardinality(Cached) > MaxSize THEN "pop" ELSE "return"]
  /\ UNCHANGED <<now, store, older, call, value, clears>>

Pop(t) ==
  /\ pc[t] = "pop"
  /\ \E k \in Cached : IsOldest(k) /\ Remove(k)
  /\ pc' = [pc EXCEPT ![t] = "trim"]
  /\ UNCHANGED <<now, call, value, clears>>

\* popitem() of an empty OrderedDict.
PopRaises(t) ==
  /\ pc[t] = "pop"
  /\ Cached = {}
  /\ pc' = [pc EXCEPT ![t] = "KeyError"]
  /\ UNCHANGED <<now, store, older, call, value, clears>>

\* The caller has its value, or its exception, and the thread is free again.
Return(t) ==
  /\ pc[t] \in {"return", "KeyError"}
  /\ pc' = [pc EXCEPT ![t] = "idle"]
  /\ UNCHANGED <<now, store, older, call, value, clears>>

\* Mutant: the keys' order survives a clear.
CacheClearKeepingOrder ==
  /\ clears < MaxClears
  /\ clears' = clears + 1
  /\ store' = [k \in {} |-> [at |-> 0, value |-> 0]]
  /\ UNCHANGED <<now, older, pc, call, value>>

CacheClear ==
  /\ clears < MaxClears
  /\ clears' = clears + 1
  /\ store' = [k \in {} |-> [at |-> 0, value |-> 0]]
  /\ older' = {}
  /\ UNCHANGED <<now, pc, call, value>>

Advance(t) ==
  \/ Hit(t) \/ Miss(t) \/ Fetch(t) \/ FetchRaises(t) \/ Store(t)
  \/ Touch(t) \/ TouchRaises(t) \/ Trim(t) \/ Pop(t) \/ PopRaises(t) \/ Return(t)

Next ==
  \/ Tick
  \/ CacheClear
  \/ \E t \in Threads : Advance(t) \/ \E k \in Keys : Call(t, k)

\* A thread inside the wrapper keeps running; nothing forces anyone to call it.
Fairness == \A t \in Threads : WF_vars(Advance(t))

Spec == Init /\ [][Next]_vars /\ Fairness
-----------------------------------------------------------------------------
(* Properties *)

PcValues == {"idle", "get", "fetch", "store", "touch", "bump", "trim", "pop", "return", "KeyError"}

\* The dictionary holds entries for keys, in an order of its keys.
TypeOK ==
  /\ now \in 0..MaxTime
  /\ Cached \subseteq Keys
  /\ store \in [Cached -> Entry]
  /\ older \subseteq Cached \X Cached
  /\ pc \in [Threads -> PcValues]
  /\ key \in [Threads -> Keys]
  /\ began \in [Threads -> 0..MaxTime]
  /\ value \in [Threads -> 0..MaxTime]
  /\ clears \in 0..MaxClears

\* What a caller gets was read from the upstream less than the time to live
\* before its call, even when a slow fetch has overwritten the result of a
\* later one: an entry is dated by the clock before its fetch.
ReturnedIsFresh ==
  \A t \in Threads :
    pc[t] \in {"touch", "return"} => value[t] > began[t] - Seconds

\* The store outgrows its capacity only by what threads have inserted and not
\* yet trimmed, also when some of them died of a KeyError before trimming.
Trimming == {t \in Threads : pc[t] \in {"bump", "trim", "pop"}}
SizeIsBounded == Cardinality(Cached) <= MaxSize + Cardinality(Trimming)

\* A call ends, by returning or raising, unless the other threads insert into
\* the store for ever: then each insertion can undo an eviction, and the
\* while loop of an unlucky thread has no bound.
EveryCallEnds ==
  \A t \in Threads :
    \/ pc[t] = "get" ~> pc[t] = "idle"
    \/ []<>(\E u \in Threads \ {t} : pc[u] = "store")
=============================================================================
