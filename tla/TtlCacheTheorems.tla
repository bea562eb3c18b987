-------------------------- MODULE TtlCacheTheorems --------------------------
(***************************************************************************)
(* The safety of the ttl_cache decorator for any number of threads, keys   *)
(* and entries.                                                            *)
(*                                                                         *)
(* Freshness is not inductive alone: it rests on the dates of the entries  *)
(* and of the values in hand.  Neither is the bound on the size: a thread  *)
(* that dies of a KeyError in move_to_end trims nothing, and what pays for *)
(* its insertion is that its key has been evicted.  So a thread at "bump"  *)
(* counts only while its key is cached, and threads with the same key      *)
(* count once.                                                             *)
(***************************************************************************)
EXTENDS TtlCache, FiniteSetTheorems, FunctionTheorems, TLAPS

Inserting == {t \in Threads : pc[t] = "bump" /\ key[t] \in Cached}
Inserted  == {key[t] : t \in Inserting}
Evicting  == {t \in Threads : pc[t] \in {"trim", "pop"}}

EntriesDated ==
  \A k \in Cached : store[k].at <= now /\ store[k].at <= store[k].value

CallsDated ==
  \A t \in Threads :
    /\ began[t] <= now
    /\ pc[t] \in {"store", "bump", "trim", "pop"} => began[t] <= value[t]
    /\ pc[t] \in {"touch", "return"} => value[t] > began[t] - Seconds

FreshInv == TypeOK /\ EntriesDated /\ CallsDated

SizeInv ==
  /\ IsFiniteSet(Cached)
  /\ Cardinality(Cached) <= MaxSize + Cardinality(Inserted) + Cardinality(Evicting)
-----------------------------------------------------------------------------
(***************************************************************************)
(* Types and freshness                                                     *)
(***************************************************************************)
LEMMA FreshInit == Init => FreshInv
<1> SUFFICES ASSUME Init PROVE FreshInv
  OBVIOUS
<1>1. Cached = {}
  BY DEF Init, Cached
<1>2. TypeOK
  BY <1>1, BoundAssumption DEF Init, TypeOK, PcValues, Cached
<1>3. EntriesDated
  BY <1>1 DEF EntriesDated
<1>4. CallsDated
  BY SecondsAssumption DEF Init, CallsDated
<1> QED
  BY <1>2, <1>3, <1>4 DEF FreshInv

\* A step of thread t that leaves the store and the clock alone.
LEMMA FreshLocalStep ==
  ASSUME FreshInv, NEW t \in Threads, UNCHANGED <<now, store, older, clears, call>>,
         NEW p \in PcValues, pc' = [pc EXCEPT ![t] = p],
         NEW v \in 0..MaxTime, value' = [value EXCEPT ![t] = v],
         p \in {"store", "bump", "trim", "pop"} => began[t] <= v,
         p \in {"touch", "return"} => v > began[t] - Seconds
  PROVE  FreshInv'
<1> USE DEF FreshInv
<1>1. TypeOK'
  BY DEF TypeOK, Cached, call
<1>2. EntriesDated'
  BY DEF EntriesDated, Cached
<1>3. CallsDated'
  BY DEF CallsDated, TypeOK, call
<1> QED
  BY <1>1, <1>2, <1>3

LEMMA FreshStep == FreshInv /\ [Next]_vars => FreshInv'
<1> SUFFICES ASSUME FreshInv, [Next]_vars PROVE FreshInv'
  OBVIOUS
<1> USE DEF FreshInv
<1>a. ASSUME NEW t \in Threads
      PROVE  /\ pc[t] \in PcValues
             /\ value[t] \in 0..MaxTime
             /\ value' = value => value' = [value EXCEPT ![t] = value[t]]
             /\ {"idle", "get", "fetch", "store", "touch", "bump", "trim", "pop",
                 "return", "KeyError"} \subseteq PcValues
  BY DEF TypeOK, PcValues
<1>1. CASE Tick
  <2>1. TypeOK'
    BY <1>1, BoundAssumption DEF Tick, TypeOK, Cached, call
  <2>2. EntriesDated'
    BY <1>1, BoundAssumption DEF Tick, EntriesDated, Cached, TypeOK, Entry
  <2>3. CallsDated'
    BY <1>1, BoundAssumption DEF Tick, CallsDated, TypeOK, call
  <2> QED
    BY <2>1, <2>2, <2>3
<1>2. CASE CacheClear
  <2>1. Cached' = {}
    BY <1>2 DEF CacheClear, Cached
  <2>2. TypeOK'
    BY <1>2, <2>1, BoundAssumption DEF CacheClear, TypeOK, Cached, call
  <2>3. EntriesDated'
    BY <2>1 DEF EntriesDated
  <2>4. CallsDated'
    BY <1>2 DEF CacheClear, CallsDated, call
  <2> QED
    BY <2>2, <2>3, <2>4
<1>3. ASSUME NEW t \in Threads, NEW k \in Keys, Call(t, k) PROVE FreshInv'
  <2>1. TypeOK'
    BY <1>3 DEF Call, TypeOK, Cached, PcValues
  <2>2. EntriesDated'
    BY <1>3 DEF Call, EntriesDated, Cached
  <2>3. CallsDated'
    BY <1>3 DEF Call, CallsDated, TypeOK
  <2> QED
    BY <2>1, <2>2, <2>3
<1>4. ASSUME NEW t \in Threads, Hit(t) PROVE FreshInv'
  <2> DEFINE v == store[key[t]].value
  <2>1. key[t] \in Cached /\ store[key[t]] \in Entry
    BY <1>4 DEF Hit, TypeOK
  <2>2. v \in 0..MaxTime /\ v > began[t] - Seconds
    BY <1>4, <2>1, BoundAssumption, SecondsAssumption DEF Hit, Live, EntriesDated, TypeOK, Entry
  <2>3. /\ pc' = [pc EXCEPT ![t] = "touch"] /\ value' = [value EXCEPT ![t] = v]
        /\ UNCHANGED <<now, store, older, clears, call>>
    BY <1>4 DEF Hit
  <2>4. "touch" \in PcValues
    BY DEF PcValues
  <2> HIDE DEF v
  <2> QED
    BY <2>2, <2>3, <2>4, FreshLocalStep
<1>5. ASSUME NEW t \in Threads, Miss(t) PROVE FreshInv'
  BY <1>5, <1>a, FreshLocalStep DEF Miss
<1>6. ASSUME NEW t \in Threads, Fetch(t) PROVE FreshInv'
  <2>1. now \in 0..MaxTime /\ began[t] <= now
    BY DEF TypeOK, CallsDated
  <2> QED
    BY <1>6, <1>a, <2>1, FreshLocalStep DEF Fetch
<1>7. ASSUME NEW t \in Threads, FetchRaises(t) PROVE FreshInv'
  BY <1>7, <1>a, FreshLocalStep DEF FetchRaises
<1>8. ASSUME NEW t \in Threads, Store(t) PROVE FreshInv'
  <2>1. NewEntry(t) \in Entry /\ NewEntry(t).at <= now /\ NewEntry(t).at <= NewEntry(t).value
    BY <1>8 DEF Store, NewEntry, Entry, TypeOK, CallsDated
  <2>2. Cached' = Cached \cup {key[t]}
    BY <1>8 DEF Store, Assign, Cached
  <2>3. TypeOK'
    BY <1>8, <2>1, <2>2 DEF Store, Assign, TypeOK, PcValues, call, Cached
  <2>4. EntriesDated'
    BY <1>8, <2>1, <2>2 DEF Store, Assign, EntriesDated, call
  <2>5. CallsDated'
    BY <1>8 DEF Store, CallsDated, TypeOK, call
  <2> QED
    BY <2>3, <2>4, <2>5
<1>9. ASSUME NEW t \in Threads, Touch(t) PROVE FreshInv'
  <2>1. Cached' = Cached
    BY <1>9 DEF Touch, Cached
  <2>2. older' \subseteq Cached \X Cached
    BY <1>9 DEF Touch, MoveToEnd, TypeOK
  <2>3. TypeOK'
    BY <1>9, <2>1, <2>2 DEF Touch, TypeOK, PcValues, call
  <2>4. EntriesDated'
    BY <1>9, <2>1 DEF Touch, EntriesDated
  <2>5. CallsDated'
    BY <1>9 DEF Touch, CallsDated, TypeOK, call
  <2> QED
    BY <2>3, <2>4, <2>5
<1>10. ASSUME NEW t \in Threads, TouchRaises(t) PROVE FreshInv'
  <2>1. /\ pc' = [pc EXCEPT ![t] = "KeyError"]
        /\ UNCHANGED <<now, store, older, clears, call, value>>
    BY <1>10 DEF TouchRaises
  <2> QED
    BY <1>a, <2>1, FreshLocalStep
<1>11. ASSUME NEW t \in Threads, Trim(t) PROVE FreshInv'
  <2>1. began[t] <= value[t] /\ began[t] \in Int /\ value[t] \in Int
    BY <1>11 DEF Trim, CallsDated, TypeOK
  <2>2. value[t] > began[t] - Seconds
    BY <2>1, SecondsAssumption
  <2>3. PICK p \in {"pop", "return"} : pc' = [pc EXCEPT ![t] = p]
    BY <1>11 DEF Trim
  <2>4. /\ p \in PcValues /\ value[t] \in 0..MaxTime
        /\ value' = [value EXCEPT ![t] = value[t]]
        /\ UNCHANGED <<now, store, older, clears, call>>
    BY <1>11, <1>a DEF Trim, PcValues
  <2> QED
    BY <2>1, <2>2, <2>3, <2>4, FreshLocalStep
<1>12. ASSUME NEW t \in Threads, Pop(t) PROVE FreshInv'
  <2>1. PICK k \in Cached : Remove(k)
    BY <1>12 DEF Pop
  <2>2. Cached' = Cached \ {k}
    BY <2>1 DEF Remove, Cached
  <2>3. TypeOK'
    BY <1>12, <2>1, <2>2 DEF Pop, Remove, TypeOK, PcValues, call, Cached
  <2>4. EntriesDated'
    BY <1>12, <2>1, <2>2 DEF Pop, Remove, EntriesDated
  <2>5. CallsDated'
    BY <1>12 DEF Pop, CallsDated, TypeOK, call
  <2> QED
    BY <2>3, <2>4, <2>5
<1>13. ASSUME NEW t \in Threads, PopRaises(t) PROVE FreshInv'
  BY <1>13, <1>a, FreshLocalStep DEF PopRaises
<1>14. ASSUME NEW t \in Threads, Return(t) PROVE FreshInv'
  BY <1>14, <1>a, FreshLocalStep DEF Return
<1>15. CASE UNCHANGED vars
  BY <1>15 DEF vars, call, TypeOK, EntriesDated, CallsDated, Cached
<1> QED
  BY <1>1, <1>2, <1>3, <1>4, <1>5, <1>6, <1>7, <1>8, <1>9, <1>10, <1>11, <1>12,
     <1>13, <1>14, <1>15 DEF Next, Advance

LEMMA FreshInvariance == Spec => []FreshInv
<1> QED
  BY FreshInit, FreshStep, PTL DEF Spec

(***************************************************************************)
(* The dictionary, its order and the threads keep their types.             *)
(***************************************************************************)
THEOREM CacheTypeCorrect == Spec => []TypeOK
<1>1. FreshInv => TypeOK
  BY DEF FreshInv
<1> QED
  BY <1>1, FreshInvariance, PTL

(***************************************************************************)
(* Whatever a caller gets was read from the upstream less than the time to *)
(* live before its call, however long fetches take and threads overlap.    *)
(***************************************************************************)
THEOREM NothingStaleIsReturned == Spec => []ReturnedIsFresh
<1>1. FreshInv => ReturnedIsFresh
  BY DEF FreshInv, CallsDated, ReturnedIsFresh
<1> QED
  BY <1>1, FreshInvariance, PTL
-----------------------------------------------------------------------------
(***************************************************************************)
(* The size of the store                                                   *)
(***************************************************************************)
LEMMA SetsAreFinite ==
  ASSUME IsFiniteSet(Cached)
  PROVE  /\ IsFiniteSet(Inserted) /\ Cardinality(Inserted) \in Nat
         /\ IsFiniteSet(Evicting) /\ Cardinality(Evicting) \in Nat
         /\ Cardinality(Cached) \in Nat
<1>1. Inserted \in SUBSET Cached /\ Evicting \in SUBSET Threads
  BY DEF Inserted, Inserting, Evicting
<1>2. IsFiniteSet(Inserted) /\ IsFiniteSet(Evicting)
  BY <1>1, FS_Subset, ThreadsAssumption
<1> QED
  BY <1>2, FS_CardinalityType

\* A step that loses neither insertions nor evictions and caches nothing new.
LEMMA SizeMonotone ==
  ASSUME SizeInv, Cached' \subseteq Cached,
         Inserted \subseteq Inserted', Evicting \subseteq Evicting'
  PROVE  SizeInv'
<1>1. IsFiniteSet(Cached') /\ Cardinality(Cached') <= Cardinality(Cached)
  BY FS_Subset DEF SizeInv
<1>2. /\ IsFiniteSet(Inserted') /\ Cardinality(Inserted') \in Nat
      /\ IsFiniteSet(Evicting') /\ Cardinality(Evicting') \in Nat
  <2>1. Inserted' \in SUBSET (Cached') /\ Evicting' \in SUBSET Threads
    BY DEF Inserted, Inserting, Evicting
  <2>2. IsFiniteSet(Inserted') /\ IsFiniteSet(Evicting')
    BY <1>1, <2>1, FS_Subset, ThreadsAssumption
  <2> QED
    BY <2>2, FS_CardinalityType
<1>3. Cardinality(Inserted) <= Cardinality(Inserted')
      /\ Cardinality(Evicting) <= Cardinality(Evicting')
  BY <1>2, FS_Subset
<1>4. Cardinality(Cached') \in Nat
  BY <1>1, FS_CardinalityType
<1> QED
  BY <1>1, <1>2, <1>3, <1>4, SetsAreFinite, SizeAssumption DEF SizeInv

LEMMA SizeStep == TypeOK /\ TypeOK' /\ SizeInv /\ [Next]_vars => SizeInv'
<1> SUFFICES ASSUME TypeOK, TypeOK', SizeInv, [Next]_vars PROVE SizeInv'
  OBVIOUS
<1>a. /\ IsFiniteSet(Cached) /\ Cardinality(Cached) \in Nat
      /\ IsFiniteSet(Inserted) /\ Cardinality(Inserted) \in Nat
      /\ IsFiniteSet(Evicting) /\ Cardinality(Evicting) \in Nat
      /\ Cardinality(Cached) <= MaxSize + Cardinality(Inserted) + Cardinality(Evicting)
      /\ MaxSize \in Nat
  BY SetsAreFinite, SizeAssumption DEF SizeInv
<1>b. ASSUME IsFiniteSet(Cached')
      PROVE  /\ IsFiniteSet(Inserted') /\ Cardinality(Inserted') \in Nat
             /\ IsFiniteSet(Evicting') /\ Cardinality(Evicting') \in Nat
             /\ Cardinality(Cached') \in Nat
  <2>1. Inserted' \in SUBSET (Cached') /\ Evicting' \in SUBSET Threads
    BY DEF Inserted, Inserting, Evicting
  <2>2. IsFiniteSet(Inserted') /\ IsFiniteSet(Evicting')
    BY <1>b, <2>1, FS_Subset, ThreadsAssumption
  <2> QED
    BY <1>b, <2>2, FS_CardinalityType
\* Small stores are within the bound whatever the threads do.
<1>c. ASSUME IsFiniteSet(Cached'), Cardinality(Cached') <= MaxSize PROVE SizeInv'
  BY <1>a, <1>b, <1>c DEF SizeInv
\* Steps of a thread that is neither inserting nor evicting, before or after.
<1>d. ASSUME NEW t \in Threads, NEW p \in PcValues \ {"bump", "trim", "pop"},
             pc[t] \notin {"bump", "trim", "pop"}, pc' = [pc EXCEPT ![t] = p],
             Cached' = Cached, UNCHANGED key
      PROVE  SizeInv'
  <2>1. Inserting' = Inserting /\ Evicting' = Evicting
    BY <1>d DEF Inserting, Evicting, TypeOK
  <2>2. Inserted' = Inserted
    BY <1>d, <2>1 DEF Inserted
  <2> QED
    BY <1>d, <2>1, <2>2, SizeMonotone
<1>e. {"idle", "get", "fetch", "store", "touch", "return", "KeyError"}
        = PcValues \ {"bump", "trim", "pop"}
  BY DEF PcValues
<1>1. CASE Tick
  BY <1>1, SizeMonotone DEF Tick, call, Inserted, Inserting, Evicting, Cached
<1>2. CASE CacheClear
  <2>1. Cached' = {}
    BY <1>2 DEF CacheClear, Cached
  <2> QED
    BY <1>a, <1>c, <2>1, FS_EmptySet
<1>3. ASSUME NEW t \in Threads, NEW k \in Keys, Call(t, k) PROVE SizeInv'
  <2>1. Inserting' = Inserting /\ Evicting' = Evicting /\ Cached' = Cached
    BY <1>3 DEF Call, Inserting, Evicting, Cached, TypeOK
  <2>2. \A u \in Inserting : key'[u] = key[u]
    BY <1>3 DEF Call, Inserting, TypeOK
  <2>3. Inserted' = Inserted
    BY <2>1, <2>2 DEF Inserted
  <2> QED
    BY <2>1, <2>3, SizeMonotone
<1>4. ASSUME NEW t \in Threads, Hit(t) \/ Miss(t) \/ Fetch(t) \/ FetchRaises(t) \/ Return(t)
      PROVE  SizeInv'
  BY <1>4, <1>d, <1>e DEF Hit, Miss, Fetch, FetchRaises, Return, Cached, call
\* The new entry is paid for by the key being inserted.
<1>5. ASSUME NEW t \in Threads, Store(t) PROVE SizeInv'
  <2>1. Cached' = Cached \cup {key[t]} /\ key' = key
    BY <1>5 DEF Store, Assign, Cached, call
  <2>2. Inserting' = Inserting \cup {t} \cup {u \in Threads : pc[u] = "bump" /\ key[u] = key[t]}
    BY <1>5, <2>1 DEF Store, Inserting, TypeOK
  <2>3. Inserted' = Inserted \cup {key[t]}
    BY <2>1, <2>2 DEF Inserted
  <2>4. Evicting' = Evicting
    BY <1>5 DEF Store, Evicting, TypeOK
  <2>5. /\ IsFiniteSet(Cached')
        /\ Cardinality(Cached') = IF key[t] \in Cached THEN Cardinality(Cached)
                                 ELSE Cardinality(Cached) + 1
        /\ Cardinality(Inserted') = IF key[t] \in Inserted THEN Cardinality(Inserted)
                                   ELSE Cardinality(Inserted) + 1
    BY <1>a, <2>1, <2>3, FS_AddElement
  <2>6. key[t] \in Inserted => key[t] \in Cached
    BY DEF Inserted, Inserting
  <2> QED
    BY <1>a, <2>4, <2>5, <2>6 DEF SizeInv
\* The thread takes over from its key as what pays.
<1>6. ASSUME NEW t \in Threads, Touch(t) PROVE SizeInv'
  <2>1. Cached' = Cached /\ key' = key
    BY <1>6 DEF Touch, Cached, call
  <2>2. CASE pc[t] = "touch"
    <3>1. Inserting' = Inserting /\ Evicting' = Evicting
      BY <1>6, <2>1, <2>2 DEF Touch, Inserting, Evicting, TypeOK
    <3>2. Inserted' = Inserted
      BY <2>1, <3>1 DEF Inserted
    <3> QED
      BY <2>1, <3>1, <3>2, SizeMonotone
  <2>3. CASE pc[t] = "bump"
    <3>1. Inserting' = Inserting \ {t} /\ Evicting' = Evicting \cup {t} /\ t \notin Evicting
      BY <1>6, <2>1, <2>3 DEF Touch, Inserting, Evicting, TypeOK
    <3>2. Inserted \ {key[t]} \subseteq Inserted'
      BY <2>1, <3>1 DEF Inserted
    <3>3. Cardinality(Evicting') = Cardinality(Evicting) + 1
      BY <1>a, <3>1, FS_AddElement
    <3>4. /\ IsFiniteSet(Inserted \ {key[t]})
          /\ Cardinality(Inserted \ {key[t]}) >= Cardinality(Inserted) - 1
      BY <1>a, FS_RemoveElement
    <3>5. /\ IsFiniteSet(Inserted') /\ Cardinality(Inserted') \in Nat
      BY <1>a, <1>b, <2>1
    <3>6. Cardinality(Inserted') >= Cardinality(Inserted \ {key[t]})
      BY <3>2, <3>5, FS_Subset
    <3>7. Cardinality(Inserted \ {key[t]}) \in Nat
      BY <3>4, FS_CardinalityType
    <3> QED
      BY <1>a, <2>1, <3>3, <3>4, <3>5, <3>6, <3>7 DEF SizeInv
  <2> QED
    BY <1>6, <2>2, <2>3 DEF Touch
\* Its key is not cached, so it counted for nothing.
<1>7. ASSUME NEW t \in Threads, TouchRaises(t) PROVE SizeInv'
  <2>1. Cached' = Cached /\ key' = key
    BY <1>7 DEF TouchRaises, Cached, call
  <2>2. Inserting' = Inserting /\ Evicting' = Evicting
    BY <1>7, <2>1 DEF TouchRaises, Inserting, Evicting, TypeOK
  <2>3. Inserted' = Inserted
    BY <2>1, <2>2 DEF Inserted
  <2> QED
    BY <2>1, <2>2, <2>3, SizeMonotone
<1>8. ASSUME NEW t \in Threads, Trim(t) PROVE SizeInv'
  <2>1. Cached' = Cached /\ key' = key
    BY <1>8 DEF Trim, Cached, call
  <2>2. CASE Cardinality(Cached) > MaxSize
    <3>1. Inserting' = Inserting /\ Evicting' = Evicting
      BY <1>8, <2>1, <2>2 DEF Trim, Inserting, Evicting, TypeOK
    <3>2. Inserted' = Inserted
      BY <2>1, <3>1 DEF Inserted
    <3> QED
      BY <2>1, <3>1, <3>2, SizeMonotone
  <2>3. CASE Cardinality(Cached) <= MaxSize
    BY <1>a, <1>c, <2>1, <2>3
  <2> QED
    BY <1>a, <2>2, <2>3
\* The evicted key is the only one that may stop counting.
<1>9. ASSUME NEW t \in Threads, Pop(t) PROVE SizeInv'
  <2>1. PICK k \in Cached : Remove(k)
    BY <1>9 DEF Pop
  <2>2. Cached' = Cached \ {k} /\ key' = key
    BY <1>9, <2>1 DEF Pop, Remove, Cached, call
  <2>3. /\ Evicting' = Evicting
        /\ Inserting' = {u \in Inserting : key[u] # k}
    BY <1>9, <2>2 DEF Pop, Evicting, Inserting, TypeOK
  <2>4. Inserted' = Inserted \ {k}
    BY <2>2, <2>3 DEF Inserted
  <2>5. /\ IsFiniteSet(Cached')
        /\ Cardinality(Cached') = Cardinality(Cached) - 1
        /\ Cardinality(Inserted') >= Cardinality(Inserted) - 1
        /\ Cardinality(Inserted') \in Nat
    BY <1>a, <1>b, <2>2, <2>4, FS_RemoveElement
  <2> QED
    BY <1>a, <2>3, <2>5 DEF SizeInv
<1>10. ASSUME NEW t \in Threads, PopRaises(t) PROVE SizeInv'
  <2>1. Cached' = {}
    BY <1>10 DEF PopRaises, Cached
  <2> QED
    BY <1>a, <1>c, <2>1, FS_EmptySet
<1>11. CASE UNCHANGED vars
  BY <1>11, SizeMonotone DEF vars, call, Inserted, Inserting, Evicting, Cached
<1> QED
  BY <1>1, <1>2, <1>3, <1>4, <1>5, <1>6, <1>7, <1>8, <1>9, <1>10, <1>11 DEF Next, Advance

LEMMA SizeInvImpliesBound == SizeInv => SizeIsBounded
<1> SUFFICES ASSUME SizeInv PROVE SizeIsBounded
  OBVIOUS
<1> DEFINE f == [t \in Inserting |-> key[t]]
<1>1. Inserting \in SUBSET Threads /\ Trimming \in SUBSET Threads
  BY DEF Inserting, Trimming
<1>2. IsFiniteSet(Inserting) /\ IsFiniteSet(Trimming)
  BY <1>1, FS_Subset, ThreadsAssumption
<1>3. f \in Surjection(Inserting, Inserted)
  BY DEF Surjection, Inserted
<1>4. Cardinality(Inserted) <= Cardinality(Inserting)
  BY <1>2, <1>3, FS_Surjection
<1>5. Inserting \cap Evicting = {} /\ Inserting \cup Evicting \in SUBSET Trimming
  BY DEF Inserting, Evicting, Trimming
<1>6. IsFiniteSet(Evicting)
  BY SetsAreFinite DEF SizeInv
<1>7. /\ Cardinality(Inserting \cup Evicting)
           = Cardinality(Inserting) + Cardinality(Evicting)
      /\ IsFiniteSet(Inserting \cup Evicting)
  <2>1. /\ IsFiniteSet(Inserting \cup Evicting)
        /\ Cardinality(Inserting \cup Evicting)
             = Cardinality(Inserting) + Cardinality(Evicting) - Cardinality(Inserting \cap Evicting)
    BY <1>2, <1>6, FS_Union
  <2>2. Cardinality(Inserting \cap Evicting) = 0
    BY <1>5, FS_EmptySet
  <2>3. Cardinality(Inserting) \in Nat /\ Cardinality(Evicting) \in Nat
    BY <1>2, <1>6, FS_CardinalityType
  <2> QED
    BY <2>1, <2>2, <2>3
<1>8. Cardinality(Inserting \cup Evicting) <= Cardinality(Trimming)
  BY <1>2, <1>5, FS_Subset
<1>9. /\ Cardinality(Inserting) \in Nat /\ Cardinality(Evicting) \in Nat
      /\ Cardinality(Inserted) \in Nat /\ Cardinality(Trimming) \in Nat
      /\ Cardinality(Cached) \in Nat
  BY <1>2, SetsAreFinite, FS_CardinalityType DEF SizeInv
<1> QED
  BY <1>4, <1>7, <1>8, <1>9, SizeAssumption DEF SizeInv, SizeIsBounded

(***************************************************************************)
(* However threads interleave, die or clear the cache, the store exceeds   *)
(* its capacity by at most one entry per thread between its insertion and  *)
(* the end of its trimming loop.                                           *)
(***************************************************************************)
THEOREM StoreIsBounded == Spec => []SizeIsBounded
<1>1. Init => SizeInv
  <2> SUFFICES ASSUME Init PROVE SizeInv
    OBVIOUS
  <2>1. Cached = {} /\ Inserted = {} /\ Evicting = {}
    BY DEF Init, Cached, Inserted, Inserting, Evicting
  <2> QED
    BY <2>1, FS_EmptySet, SizeAssumption DEF SizeInv
<1> QED
  BY <1>1, CacheTypeCorrect, SizeStep, SizeInvImpliesBound, PTL DEF Spec
=============================================================================
