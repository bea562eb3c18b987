--------------------------- MODULE TickerTheorems ---------------------------
EXTENDS LensScoring, Scan, FiniteSetTheorems, WellFoundedInduction, TLAPS

(***************************************************************************)
(* Proofs about the research of a ticker, for every set of clients, modes, *)
(* lenses and scanners, every tape of prices and every answer a lens may   *)
(* give. Plan requests and lens scoring are proved from Typed (types, the  *)
(* shape of plans, stamps in the past) with one inductive invariant per    *)
(* property: StampsAreUnique, OverlapInv, SnapshotInv and OutcomeInv;      *)
(* scans from ScanInv. What a label promises is a fact about the rule      *)
(* cascades, proved for every price history (BuyIsEarned) and carried to   *)
(* the scans by TapesOK.                                                   *)
(***************************************************************************)

(***************************************************************************)
(* A set of naturals has a least element.                                  *)
(***************************************************************************)
LEMMA LeastNatural ==
  ASSUME NEW S \in SUBSET Nat, S # {}
  PROVE  \E m \in S : \A t \in S : m <= t
<1> DEFINE R == {p \in Nat \X Nat : p[1] < p[2]}
<1>1. IsWellFoundedOn(R, Nat)
  BY NatLessThanWellFounded DEF OpToRel
<1>2. PICK m \in S : \A t \in S : ~ (<<t, m>> \in R)
  BY <1>1, WFMin
<1>3. ASSUME NEW t \in S PROVE m <= t
  <2>1. <<t, m>> \in Nat \X Nat /\ ~ t < m
    BY <1>2
  <2> QED
    BY <2>1
<1> QED
  BY <1>3

(***************************************************************************)
(* A bounded one has a greatest element.                                   *)
(***************************************************************************)
LEMMA GreatestNatural ==
  ASSUME NEW S \in SUBSET Nat, S # {}, NEW b \in Nat, \A t \in S : t <= b
  PROVE  \E m \in S : \A t \in S : t <= m
<1>0. \A t \in S : t \in Nat /\ b - t \in Nat
  OBVIOUS
<1>1. PICK k \in {b - t : t \in S} : \A l \in {b - t : t \in S} : k <= l
  <2>1. {b - t : t \in S} \in SUBSET Nat /\ {b - t : t \in S} # {}
    BY <1>0
  <2> QED
    BY <2>1, LeastNatural
<1>2. PICK m \in S : k = b - m
  BY <1>1
<1>3. \A t \in S : t <= m
  BY <1>0, <1>1, <1>2
<1> QED
  BY <1>3

(***************************************************************************)
(* Max of a bounded, non-empty set of naturals is its greatest element.    *)
(***************************************************************************)
LEMMA MaxOfNaturals ==
  ASSUME NEW S \in SUBSET Nat, S # {}, NEW b \in Nat, \A t \in S : t <= b
  PROVE  Max(S) \in S /\ \A t \in S : t <= Max(S)
<1>1. \E m \in S : \A t \in S : m >= t
  BY GreatestNatural
<1> QED
  BY <1>1 DEF Max


(***************************************************************************)
(* The recursive function inside Total meets its defining equation.        *)
(***************************************************************************)
LEMMA TotalRecursion ==
  ASSUME NEW s \in Seq(Int)
  PROVE  LET D == DOMAIN s IN
         \E f : /\ Total(s) = f[D]
                /\ \A t \in SUBSET D :
                     f[t] = IF t = {} THEN 0 ELSE f[t \ {Max(t)}] + s[Max(t)]
<1> DEFINE D == DOMAIN s
           F(f, P) == f = [t \in P |-> IF t = {} THEN 0 ELSE f[t \ {Max(t)}] + s[Max(t)]]
           Upto(n) == {t \in SUBSET D : Cardinality(t) <= n}
           Bad == {n \in Nat : ~ \E f : F(f, Upto(n))}
<1>1. D = 1..Len(s) /\ Len(s) \in Nat /\ IsFiniteSet(D)
  <2>1. D = 1..Len(s) /\ Len(s) \in Nat
    OBVIOUS
  <2> QED
    BY <2>1, FS_Interval
<1>2. \A t \in SUBSET D : IsFiniteSet(t) /\ Cardinality(t) \in Nat /\ Cardinality(t) <= Cardinality(D)
  BY <1>1, FS_Subset, FS_CardinalityType
<1>3. \A t \in SUBSET D : t # {} => Max(t) \in t /\ t \ {Max(t)} \in SUBSET D
                            /\ Cardinality(t \ {Max(t)}) = Cardinality(t) - 1
  <2> SUFFICES ASSUME NEW t \in SUBSET D, t # {}
               PROVE  Max(t) \in t /\ t \ {Max(t)} \in SUBSET D
                            /\ Cardinality(t \ {Max(t)}) = Cardinality(t) - 1
    OBVIOUS
  <2>1. t \in SUBSET Nat /\ \A x \in t : x <= Len(s)
    BY <1>1
  <2>2. Max(t) \in t
    BY <1>1, <2>1, MaxOfNaturals
  <2> QED
    BY <1>2, <2>2, FS_RemoveElement
<1>4. ASSUME NEW n \in Nat, \E f : F(f, Upto(n)) PROVE \E f : F(f, Upto(n + 1))
  <2>1. PICK f : F(f, Upto(n))
    BY <1>4
  <2> DEFINE g == [t \in Upto(n + 1) |-> IF t = {} THEN 0 ELSE f[t \ {Max(t)}] + s[Max(t)]]
  <2>2. \A t \in Upto(n) : t \in Upto(n + 1) /\ g[t] = f[t]
    <3>1. \A t \in Upto(n) : t \in Upto(n + 1)
      BY <1>2
    <3> QED
      BY <2>1, <3>1
  <2>3. \A t \in Upto(n + 1) : t # {} => t \ {Max(t)} \in Upto(n)
    <3> SUFFICES ASSUME NEW t \in SUBSET D, Cardinality(t) <= n + 1, t # {}
                 PROVE  Cardinality(t \ {Max(t)}) <= n /\ t \ {Max(t)} \in SUBSET D
      OBVIOUS
    <3> QED
      BY <1>2, <1>3
  <2>4. F(g, Upto(n + 1))
    BY <2>2, <2>3
  <2> QED
    BY <2>4
<1>5. \E f : F(f, Upto(0))
  <2> DEFINE g == [t \in Upto(0) |-> 0]
  <2>1. \A t \in Upto(0) : t = {}
    BY <1>2, FS_EmptySet
  <2>2. F(g, Upto(0))
    BY <2>1
  <2> QED
    BY <2>2
<1>6. ASSUME NEW n \in Nat PROVE \E f : F(f, Upto(n))
  <2> HIDE DEF F, Upto
  <2>1. SUFFICES ASSUME Bad # {} PROVE FALSE
    OBVIOUS
  <2>2. PICK k \in Bad : \A l \in Bad : k <= l
    BY <2>1, LeastNatural
  <2>3. k # 0
    BY <1>5, <2>2
  <2>4. k - 1 \in Nat /\ ~ k <= k - 1 /\ (k - 1) + 1 = k
    BY <2>2, <2>3
  <2>5. \E f : F(f, Upto(k - 1))
    BY <2>2, <2>4
  <2>6. \E f : F(f, Upto((k - 1) + 1))
    BY <1>4, <2>4, <2>5
  <2> QED
    BY <2>2, <2>4, <2>6
<1>7. PICK f : F(f, Upto(Cardinality(D)))
  BY <1>2, <1>6
<1>8. Upto(Cardinality(D)) = SUBSET D
  BY <1>2
<1>9. \E h : F(h, SUBSET D)
  BY <1>7, <1>8
<1>10. Total(s) = (CHOOSE h : F(h, SUBSET D))[D]
  BY DEF Total, FoldLeft, MapThenFoldSet
<1>11. PICK h : F(h, SUBSET D) /\ Total(s) = h[D]
  BY <1>9, <1>10
<1>12. \A t \in SUBSET D : h[t] = IF t = {} THEN 0 ELSE h[t \ {Max(t)}] + s[Max(t)]
  BY <1>11
<1> QED
  BY <1>11, <1>12

(***************************************************************************)
(* The sum of a sequence of integers is an integer, and at least its       *)
(* length when no element is below one.                                    *)
(***************************************************************************)
LEMMA TotalIsANumber ==
  ASSUME NEW s \in Seq(Int)
  PROVE  /\ Total(s) \in Int
         /\ (\A i \in 1..Len(s) : s[i] >= 1) => Total(s) >= Len(s)
<1> DEFINE D == DOMAIN s
           Positive == \A i \in 1..Len(s) : s[i] >= 1
<1>1. PICK f : /\ Total(s) = f[D]
               /\ \A t \in SUBSET D : f[t] = IF t = {} THEN 0 ELSE f[t \ {Max(t)}] + s[Max(t)]
  BY TotalRecursion
<1> DEFINE Good(t) == f[t] \in Int /\ (Positive => f[t] >= Cardinality(t))
           Bad == {Cardinality(t) : t \in {u \in SUBSET D : ~ Good(u)}}
<1>2. D = 1..Len(s) /\ Len(s) \in Nat /\ IsFiniteSet(D) /\ Cardinality(D) = Len(s)
  <2>1. D = 1..Len(s) /\ Len(s) \in Nat
    OBVIOUS
  <2>2. Cardinality(1..Len(s)) = IF 1 > Len(s) THEN 0 ELSE Len(s) - 1 + 1
    BY <2>1, FS_Interval
  <2>3. IsFiniteSet(1..Len(s))
    BY <2>1, FS_Interval
  <2> QED
    BY <2>1, <2>2, <2>3
<1>3. \A t \in SUBSET D : IsFiniteSet(t) /\ Cardinality(t) \in Nat
  BY <1>2, FS_Subset, FS_CardinalityType
<1>4. \A t \in SUBSET D : Good(t)
  <2>1. SUFFICES ASSUME Bad # {} PROVE FALSE
    OBVIOUS
  <2>2. Bad \in SUBSET Nat
    BY <1>3
  <2>3. PICK t \in SUBSET D : ~ Good(t) /\ \A u \in SUBSET D : ~ Good(u) => Cardinality(t) <= Cardinality(u)
    <3>1. PICK k \in Bad : \A l \in Bad : k <= l
      BY <2>1, <2>2, LeastNatural
    <3> QED
      BY <3>1
  <2>4. t # {}
    <3>1. {} \in SUBSET D /\ f[{}] = 0 /\ Cardinality({}) = 0
      BY <1>1, FS_EmptySet
    <3>2. Good({})
      BY <3>1
    <3> QED
      BY <2>3, <3>2
  <2> DEFINE m == Max(t)
             u == t \ {m}
  <2>5. m \in t
    <3>1. t \in SUBSET Nat /\ \A x \in t : x <= Len(s)
      BY <1>2
    <3> QED
      BY <1>2, <2>4, <3>1, MaxOfNaturals
  <2>6. u \in SUBSET D /\ Cardinality(u) = Cardinality(t) - 1
    BY <1>3, <2>5, FS_RemoveElement
  <2>7. f[t] = f[u] + s[m] /\ s[m] \in Int /\ m \in 1..Len(s)
    <3>1. f[t] = f[u] + s[m]
      BY <1>1, <2>4
    <3> QED
      BY <1>2, <2>5, <3>1
  <2>8. Good(u)
    BY <1>3, <2>3, <2>6
  <2> HIDE DEF m, u
  <2> QED
    BY <1>2, <1>3, <2>3, <2>5, <2>6, <2>7, <2>8
<1> QED
  BY <1>1, <1>2, <1>4

(***************************************************************************)
(* Max of two integers is one of them, and neither exceeds it.             *)
(***************************************************************************)
LEMMA MaxOfTwo ==
  ASSUME NEW a \in Int, NEW b \in Int
  PROVE  /\ Max({a, b}) \in {a, b} /\ Max({a, b}) >= a /\ Max({a, b}) >= b
         /\ Min({a, b}) \in {a, b} /\ Min({a, b}) <= a /\ Min({a, b}) <= b
<1>1. \E x \in {a, b} : \A y \in {a, b} : x >= y
  OBVIOUS
<1>2. \E x \in {a, b} : \A y \in {a, b} : x <= y
  OBVIOUS
<1> QED
  BY <1>1, <1>2 DEF Max, Min

(***************************************************************************)
(* An index cut to a list's bounds, as resolve_levels cuts a model's pick, *)
(* names an element of the list.                                           *)
(***************************************************************************)
LEMMA ClampedIsAnElement ==
  ASSUME NEW S, NEW s \in Seq(S), s # <<>>, NEW i \in Int
  PROVE  Clamped(s, i) \in Range(s)
<1>1. Len(s) \in Nat /\ Len(s) # 0 /\ DOMAIN s = 1..Len(s)
  OBVIOUS
<1> DEFINE n == Len(s) - 1
           low == Min({i, n})
           at == Max({0, low})
<1>2. n \in Int /\ 0 <= n
  BY <1>1
<1>3. low \in Int /\ low <= n
  <2> HIDE DEF n
  <2> QED
    BY <1>2, MaxOfTwo
<1>4. at \in {0, low} /\ at >= 0
  <2> HIDE DEF low
  <2>1. 0 \in Int /\ low \in Int
    BY <1>3
  <2> QED
    BY ONLY <2>1, MaxOfTwo
<1>5. 1 + at \in DOMAIN s
  BY <1>1, <1>2, <1>3, <1>4
<1>6. Clamped(s, i) = s[1 + at]
  BY DEF Clamped
<1> HIDE DEF at
<1> QED
  BY <1>5, <1>6 DEF Range

(***************************************************************************)
(* A sequence is one over the set of its elements.                         *)
(***************************************************************************)
LEMMA SequenceOfItsElements ==
  ASSUME NEW s, NEW n \in Nat, DOMAIN s = 1..n, s = [i \in 1..n |-> s[i]]
  PROVE  s \in Seq(Range(s))
<1>1. \A i \in 1..n : s[i] \in Range(s)
  BY DEF Range
<1>2. [i \in 1..n |-> s[i]] \in Seq(Range(s))
  BY <1>1
<1> QED
  BY <1>2

(***************************************************************************)
(* And over any set that holds them.                                       *)
(***************************************************************************)
LEMMA SequenceOverItsRange ==
  ASSUME NEW S, NEW s \in Seq(S)
  PROVE  s \in Seq(Range(s))
<1>1. Len(s) \in Nat /\ DOMAIN s = 1..Len(s) /\ s = [i \in 1..Len(s) |-> s[i]]
  OBVIOUS
<1> QED
  BY <1>1, SequenceOfItsElements

(***************************************************************************)
(* The menu of primary exits is a sequence: an index into it is an exit of *)
(* the menu.                                                               *)
(***************************************************************************)
LEMMA PrimariesAreASequence ==
  ASSUME NEW v
  PROVE  Primaries(v) \in Seq(Range(Primaries(v)))
<1> DEFINE a == Band(v, Only(v.resistance))
           b == Band(v, v.high)
           c == Band(v, v.base + ((v.high - v.base) * 1272) \div 1000)
           S == {a, b, c}
           first == When(v.resistance # {}, <<a>>)
           close == first # <<>> /\ \E atr \in v.atr :
                      v.high - first[1].low < atr /\ first[1].low - v.high < atr
           second == When(v.high > v.close /\ ~ close, <<b>>)
           third == Extension(v, 1272)
<1>1. Primaries(v) = first \o second \o third
  BY DEF Primaries
<1>2. <<>> \in Seq(S) /\ <<a>> \in Seq(S) /\ <<b>> \in Seq(S) /\ <<c>> \in Seq(S)
  <2> HIDE DEF a, b, c
  <2> QED
    OBVIOUS
<1>3. first \in {<<>>, <<a>>} /\ second \in {<<>>, <<b>>}
  BY DEF When
<1>4. third \in {<<>>, <<c>>}
  BY DEF When, Extension
<1> HIDE DEF a, b, c, S, first, second, third
<1>5. first \in Seq(S) /\ second \in Seq(S) /\ third \in Seq(S)
  BY <1>2, <1>3, <1>4
<1>6. first \o second \in Seq(S)
  BY <1>5
<1>7. (first \o second) \o third \in Seq(S)
  BY <1>5, <1>6
<1> QED
  BY <1>1, <1>7, SequenceOverItsRange

(***************************************************************************)
(* So is the menu of runner exits.                                         *)
(***************************************************************************)
LEMMA RunnersAreASequence ==
  ASSUME NEW v
  PROVE  Runners(v) \in Seq(Range(Runners(v)))
<1> DEFINE near == [i \in DOMAIN Primaries(v) |->
                      Band(v, Primaries(v)[i].high + (3 * Only(v.atr)) \div 2)]
           far == Extension(v, 1618)
           c == Band(v, v.base + ((v.high - v.base) * 1618) \div 1000)
<1>1. Runners(v) = IF v.atr = {} THEN <<>> ELSE ByLow(near \o far)
  BY DEF Runners
<1>2. Len(Primaries(v)) \in Nat /\ DOMAIN Primaries(v) = 1..Len(Primaries(v))
  BY PrimariesAreASequence
<1>3. near \in Seq(Range(near))
  BY <1>2, SequenceOfItsElements
<1>4. far \in {<<>>, <<c>>}
  BY DEF When, Extension
<1>5. far \in Seq({c})
  <2> HIDE DEF c, far
  <2>1. <<>> \in Seq({c}) /\ <<c>> \in Seq({c})
    OBVIOUS
  <2> QED
    BY <1>4, <2>1
<1> HIDE DEF near, far
<1>6. Len(near \o far) \in Nat /\ DOMAIN (near \o far) = 1..Len(near \o far)
  <2> DEFINE U == Range(near) \cup {c}
  <2> HIDE DEF c
  <2>1. near \in Seq(U) /\ far \in Seq(U)
    BY <1>3, <1>5
  <2>2. near \o far \in Seq(U)
    <3> HIDE DEF U
    <3> QED BY <2>1
  <2> QED
    BY <2>2
<1>7. ByLow(near \o far) \in Seq(Range(ByLow(near \o far)))
  <2> DEFINE z == near \o far
             t == ByLow(z)
  <2>1. DOMAIN t = DOMAIN z /\ t = [k \in DOMAIN z |-> t[k]]
    <3> HIDE DEF z
    <3> QED BY DEF ByLow
  <2> HIDE DEF z, t
  <2>2. t \in Seq(Range(t))
    BY <1>6, <2>1, SequenceOfItsElements DEF z
  <2> QED
    BY <2>2 DEF t, z
<1>8. <<>> \in Seq(Range(<<>>))
  OBVIOUS
<1> QED
  BY <1>1, <1>7, <1>8

(***************************************************************************)
(* A view that can be resolved has, for every entry on its menu, a stop    *)
(* below it: the fallback search of resolve_levels finds one.              *)
(***************************************************************************)
LEMMA StopsLieBelowTheEntries ==
  ASSUME NEW v
  PROVE  /\ Stops(v) \in Seq(Range(Stops(v)))
         /\ \A p \in Range(Stops(v)), kind \in DOMAIN Entries(v) : p < Entries(v)[kind].low
<1> DEFINE usable(p) == \A kind \in DOMAIN Entries(v) : p < Entries(v)[kind].low
           add(seen, anchor) ==
             LET new == {p \in anchor : usable(p)} \ Range(seen)
             IN IF new = {} THEN seen ELSE Append(seen, Only(new))
           A == {z.stop : z \in Breakout(v)}
           B == {z.stop : z \in Pullback(v)}
           C == {v.base - atr \div 2 : atr \in v.atr \ {0}}
           U == {p \in A \cup B \cup v.support \cup C : usable(p)}
<1>1. ASSUME NEW seen \in Seq(U), NEW anchor \in SUBSET (A \cup B \cup v.support \cup C)
      PROVE  add(seen, anchor) \in Seq(U)
  <2> DEFINE new == {p \in anchor : usable(p)} \ Range(seen)
  <2>1. new # {} => Only(new) \in U
    BY DEF Only
  <2> HIDE DEF new, U
  <2> QED
    BY <2>1 DEF new
<1>2. <<>> \in Seq(U)
  OBVIOUS
<1>3. Stops(v) = add(add(add(add(<<>>, A), B), v.support), C)
  BY DEF Stops
<1> HIDE DEF add
<1>4. Stops(v) \in Seq(U)
  BY <1>1, <1>2, <1>3
<1>5. Range(Stops(v)) \subseteq U
  BY <1>4 DEF Range
<1> QED
  BY <1>4, <1>5, SequenceOverItsRange

-----------------------------------------------------------------------------
(***************************************************************************)
(* The day of an instant, and the instants of a day.                       *)
(***************************************************************************)
LEMMA ThirdsOfADay ==
  /\ \A a, b \in Int : a <= b => Day(a) <= Day(b)
  /\ \A a \in Nat : Day(a) \in Nat
BY DEF Day

Requesting(n) == [pc : {"idle", "gather", "quick", "deep", "conclude"},
                mode : Modes, forced : BOOLEAN, seen : 0..n,
                asOf : 0..MaxTime, lenses : Lenses]

(***************************************************************************)
(* No answers at all is a set of lens answers.                             *)
(***************************************************************************)
LEMMA NobodySpeaks == <<>> \in Lenses
<1>1. {} \in SUBSET Names
  OBVIOUS
<1>2. <<>> \in [{} -> Directions \cup {Unsound}]
  OBVIOUS
<1> QED
  BY <1>1, <1>2 DEF Lenses

Asking(mode, forced, n) ==
  [Idle EXCEPT !.pc = "gather", !.mode = mode, !.forced = forced, !.seen = n]

(***************************************************************************)
(* A request that has just been asked is well formed, and carries the      *)
(* mode, the force flag and the number of plans it was asked with.         *)
(***************************************************************************)
LEMMA AskingIsARequest ==
  ASSUME NEW n \in Nat, NEW mode \in Modes, NEW forced \in BOOLEAN
  PROVE  LET r == Asking(mode, forced, n)
         IN  r \in Requesting(n) /\ r.pc = "gather" /\ r.mode = mode /\ r.forced = forced /\ r.seen = n
<1> DEFINE a == [Idle EXCEPT !.pc = "gather"]
           b == [a EXCEPT !.mode = mode]
           d == [b EXCEPT !.forced = forced]
           e == [d EXCEPT !.seen = n]
<1>1. Idle \in Requesting(n)
  BY NobodySpeaks, ResearchAssumption DEF Idle, Requesting, Modes
<1>2. a \in Requesting(n) /\ a.pc = "gather"
  BY <1>1 DEF Requesting
<1> HIDE DEF a
<1>3. b \in Requesting(n) /\ b.pc = "gather" /\ b.mode = mode
  BY <1>2 DEF Requesting
<1> HIDE DEF b
<1>4. d \in Requesting(n) /\ d.pc = "gather" /\ d.mode = mode /\ d.forced = forced
  BY <1>3 DEF Requesting
<1> HIDE DEF d
<1>5. e \in Requesting(n) /\ e.pc = "gather" /\ e.mode = mode /\ e.forced = forced /\ e.seen = n
  BY <1>4 DEF Requesting
<1> QED
  BY <1>5 DEF a, b, d, Asking

\* The request has its as_of.
Gathered(c) == request[c].pc \in {"quick", "deep", "conclude"}

\* What the steps of Research and LensScoring amount to.
Quiet ==
  /\ now' \in {now, now + 1} /\ now' \in 0..MaxTime /\ asked' \in 0..MaxAsks
  /\ UNCHANGED <<tape, request, plans, snapshots>>

Drop(C) ==
  /\ request' = [c \in Clients |-> IF c \in C THEN Idle ELSE request[c]]
  /\ UNCHANGED <<now, tape, asked, plans, snapshots>>

Speak(c, lenses) ==
  /\ request[c].pc \in {"quick", "deep"}
  /\ request' = [request EXCEPT ![c].pc = "conclude", ![c].lenses = lenses]
  /\ Record(request[c], lenses)
  /\ UNCHANGED <<now, tape, asked, plans>>

Store(c, picks) == Conclude(c, picks) /\ request[c].lenses # <<>>

(***************************************************************************)
(* Every step of plan requests and of lens scoring is one of six: time     *)
(* passes or a question is counted, requests are asked, gather their       *)
(* evidence, are dropped, have their lenses speak, or are stored.          *)
(***************************************************************************)
LEMMA LensSteps ==
  ASSUME TypeOK, [LensNext]_vars
  PROVE  \/ Quiet
         \/ \E c \in Clients, mode \in Modes, forced \in BOOLEAN : Ask(c, mode, forced)
         \/ \E c \in Clients : Gather(c)
         \/ \E C \in SUBSET Clients : Drop(C)
         \/ \E c \in Clients, lenses \in Lenses : Speak(c, lenses)
         \/ \E c \in Clients, picks \in Answers : Store(c, picks)
<1> DEFINE Goal == \/ Quiet
                   \/ \E c \in Clients, mode \in Modes, forced \in BOOLEAN : Ask(c, mode, forced)
                   \/ \E c \in Clients : Gather(c)
                   \/ \E C \in SUBSET Clients : Drop(C)
                   \/ \E c \in Clients, lenses \in Lenses : Speak(c, lenses)
                   \/ \E c \in Clients, picks \in Answers : Store(c, picks)
<1>1. now \in Int /\ now \in 0..MaxTime /\ asked \in Int /\ asked \in 0..MaxAsks
      /\ MaxTime \in Nat /\ MaxAsks \in Nat
  BY ResearchAssumption DEF TypeOK
<1>2. request = [c \in Clients |-> request[c]]
  BY DEF TypeOK
<1>3. CASE UNCHANGED vars
  BY <1>1, <1>3 DEF vars, researchVars, Quiet
<1>4. ASSUME NEW c \in Clients, NEW mode \in Modes, AskCached(c, mode) PROVE Quiet
  BY <1>1, <1>4 DEF AskCached, Quiet
<1>5. CASE Tick
  BY <1>1, <1>5 DEF Tick, Quiet
<1>6. ASSUME NEW c \in Clients, Fail(c) PROVE \E C \in SUBSET Clients : Drop(C)
  <2>1. request' = [d \in Clients |-> IF d \in {c} THEN Idle ELSE request[d]]
    BY <1>2, <1>6 DEF Fail
  <2>2. Drop({c})
    BY <1>6, <2>1 DEF Fail, Drop
  <2> QED
    BY <2>2
<1>7. ASSUME Crash PROVE \E C \in SUBSET Clients : Drop(C)
  <2>1. Drop(Clients)
    BY <1>7 DEF Crash, Drop
  <2> QED
    BY <2>1
<1>8. ASSUME NEW c \in Clients, NEW picks \in Answers, Conclude(c, picks)
      PROVE  Store(c, picks) \/ \E C \in SUBSET Clients : Drop(C)
  <2>1. CASE request[c].lenses # <<>>
    BY <1>8, <2>1 DEF Store
  <2>2. CASE request[c].lenses = <<>>
    <3>1. request' = [d \in Clients |-> IF d \in {c} THEN Idle ELSE request[d]]
      BY <1>2, <1>8 DEF Conclude
    <3>2. Drop({c})
      BY <1>8, <2>2, <3>1 DEF Conclude, Drop
    <3> QED
      BY <3>2
  <2> QED
    BY <2>1, <2>2
<1>9. Panels \subseteq Lenses
  BY DEF Panels, Lenses
<1>10. ASSUME NEW c \in Clients, NEW lenses \in Panels, Quick(c, lenses) PROVE Speak(c, lenses)
  BY <1>10 DEF Quick, Speak
<1>11. \A lenses \in Panels : Revisions(lenses) \subseteq Lenses
  <2> SUFFICES ASSUME NEW lenses \in Panels PROVE Revisions(lenses) \subseteq Lenses
    OBVIOUS
  <2>1. DOMAIN lenses \in SUBSET Names /\ lenses \in Lenses
    BY <1>9 DEF Panels
  <2>2. [DOMAIN lenses -> Directions \cup {Unsound}] \subseteq Lenses
    BY <2>1 DEF Lenses
  <2> QED
    BY <2>1, <2>2 DEF Revisions
<1>12. ASSUME NEW c \in Clients, NEW first \in FirstRounds, NEW final \in Revisions(first),
              Debate(c, first, final)
       PROVE  final \in Lenses /\ Speak(c, final)
  BY <1>11, <1>12 DEF Debate, Speak, FirstRounds
<1>13. CASE \E lag \in {0, 1} : Score(Anchor(now) - lag)
  BY <1>1, <1>13 DEF Score, Quiet, researchVars
<1>14. CASE ResearchNext
  BY <1>4, <1>5, <1>6, <1>7, <1>8, <1>9, <1>10, <1>12, <1>14 DEF ResearchNext
<1> QED
  BY <1>3, <1>13, <1>14 DEF LensNext

-----------------------------------------------------------------------------
\* Rows are stored in the order of their ids, under the day of their packet.
RowsOK ==
  /\ plans \in Seq(Range(plans))
  /\ \A i \in DOMAIN plans : plans[i].asOf \in Nat /\ plans[i].day = Day(plans[i].asOf)

\* No packet is stamped ahead of the clock.
StampsOK == \A c \in Clients : Gathered(c) => request[c].asOf < now

Typed == TypeOK /\ RowsOK /\ StampsOK

(***************************************************************************)
(* At the start no request is under way and nothing is stored.             *)
(***************************************************************************)
LEMMA InitTyped == LensInit => Typed
<1> SUFFICES ASSUME LensInit PROVE Typed
  OBVIOUS
<1>1. now \in 0..MaxTime /\ tape \in Tape /\ asked \in 0..MaxAsks
  BY ResearchAssumption DEF LensInit, Init
<1>2. plans = <<>> /\ snapshots = <<>> /\ request = [c \in Clients |-> Idle]
  BY DEF LensInit, Init
<1>3. Len(plans) = 0 /\ DOMAIN plans = {} /\ DOMAIN snapshots = {}
  BY <1>2
<1>4. Idle \in Requesting(Len(plans))
  BY <1>3, NobodySpeaks, ResearchAssumption DEF Idle, Requesting, Modes
<1>5. TypeOK
  BY <1>1, <1>2, <1>3, <1>4 DEF TypeOK, Requesting
<1>6. RowsOK
  BY <1>2, <1>3 DEF RowsOK
<1>7. StampsOK
  BY <1>2 DEF StampsOK, Gathered, Idle
<1> QED
  BY <1>5, <1>6, <1>7 DEF Typed

(***************************************************************************)
(* Every step keeps the types, the shape of stored plans, and the stamps   *)
(* of the requests in the past.                                            *)
(***************************************************************************)
LEMMA TypedStep == Typed /\ [LensNext]_vars => Typed'
<1> SUFFICES ASSUME Typed, [LensNext]_vars PROVE Typed'
  OBVIOUS
<1> USE DEF Typed
<1>1. /\ now \in Int /\ now \in 0..MaxTime /\ tape \in Tape
      /\ MaxTime \in Nat /\ Len(plans) \in Nat /\ DOMAIN plans = 1..Len(plans)
      /\ request \in [Clients -> Requesting(Len(plans))]
  BY ResearchAssumption DEF TypeOK, RowsOK, Requesting
<1>2. Idle \in Requesting(Len(plans))
  BY <1>1, NobodySpeaks DEF Idle, Requesting, Modes
<1>3. CASE Quiet
  <2>1. now' \in 0..MaxTime /\ now <= now' /\ now' \in Int
    BY <1>1, <1>3 DEF Quiet
  <2>2. TypeOK'
    BY <1>1, <1>3, <2>1 DEF TypeOK, Quiet, RowsOK
  <2>3. StampsOK'
    BY <1>1, <1>3, <2>1 DEF StampsOK, Gathered, Quiet, Requesting
  <2> QED
    BY <1>3, <2>2, <2>3 DEF RowsOK, Quiet
<1>4. ASSUME NEW c \in Clients, NEW mode \in Modes, NEW forced \in BOOLEAN, Ask(c, mode, forced)
      PROVE  Typed'
  <2> DEFINE r == Asking(mode, forced, Len(plans))
  <2>1. r \in Requesting(Len(plans)) /\ r.pc = "gather"
    BY <1>1, AskingIsARequest
  <2>2. request' = [request EXCEPT ![c] = r] /\ UNCHANGED <<now, tape, plans, snapshots>>
    BY <1>4 DEF Ask, Asking
  <2> HIDE DEF r
  <2>3. request' \in [Clients -> Requesting(Len(plans))]
    BY <1>1, <2>1, <2>2
  <2>4. asked' \in 0..MaxAsks
    BY <1>4, ResearchAssumption DEF Ask, TypeOK
  <2>5. TypeOK'
    BY <2>2, <2>3, <2>4 DEF TypeOK, Requesting
  <2>6. StampsOK'
    BY <1>1, <2>1, <2>2 DEF StampsOK, Gathered
  <2> QED
    BY <2>2, <2>5, <2>6 DEF RowsOK
<1>5. ASSUME NEW c \in Clients, Gather(c) PROVE Typed'
  <2>1. /\ now' = now + 1 /\ now < MaxTime /\ UNCHANGED <<tape, asked, plans, snapshots>>
        /\ request' = [request EXCEPT ![c].pc = request[c].mode, ![c].asOf = now]
    BY <1>5 DEF Gather
  <2>2. request' \in [Clients -> Requesting(Len(plans))]
    BY <1>1, <2>1 DEF Requesting, Modes
  <2>3. TypeOK'
    BY <1>1, <2>1, <2>2 DEF TypeOK, Requesting, RowsOK
  <2>4. StampsOK'
    <3> SUFFICES ASSUME NEW d \in Clients, Gathered(d)' PROVE request'[d].asOf < now'
      BY DEF StampsOK
    <3>1. CASE d = c
      BY <1>1, <2>1, <3>1
    <3>2. CASE d # c
      BY <1>1, <2>1, <3>2 DEF StampsOK, Gathered, Requesting
    <3> QED
      BY <3>1, <3>2
  <2> QED
    BY <2>1, <2>3, <2>4 DEF RowsOK
<1>6. ASSUME NEW C \in SUBSET Clients, Drop(C) PROVE Typed'
  <2>1. /\ UNCHANGED <<now, tape, asked, plans, snapshots>>
        /\ request' = [c \in Clients |-> IF c \in C THEN Idle ELSE request[c]]
    BY <1>6 DEF Drop
  <2>2. request' \in [Clients -> Requesting(Len(plans))]
    BY <1>1, <1>2, <2>1
  <2>3. TypeOK'
    BY <2>1, <2>2 DEF TypeOK, Requesting
  <2>4. StampsOK'
    BY <2>1 DEF StampsOK, Gathered, Idle
  <2> QED
    BY <2>1, <2>3, <2>4 DEF RowsOK
<1>7. ASSUME NEW c \in Clients, NEW lenses \in Lenses, Speak(c, lenses) PROVE Typed'
  <2>1. /\ UNCHANGED <<now, tape, asked, plans>> /\ Record(request[c], lenses)
        /\ request[c].pc \in {"quick", "deep"}
        /\ request' = [request EXCEPT ![c].pc = "conclude", ![c].lenses = lenses]
    BY <1>7 DEF Speak
  <2>2. request' \in [Clients -> Requesting(Len(plans))]
    BY <1>1, <2>1 DEF Requesting
  <2>3. StampsOK'
    BY <1>1, <2>1 DEF StampsOK, Gathered
  <2>4. \A key \in DOMAIN snapshots' :
          key \in (0..MaxTime) \X Modes \X Names /\ snapshots'[key] \in Directions
    <3>1. CASE snapshots' = snapshots
      BY <3>1 DEF TypeOK
    <3>2. CASE Unsound \notin Range(lenses) /\ snapshots' = Recorded(request[c], lenses)
      <4>1. DOMAIN lenses \in SUBSET Names /\ \A name \in DOMAIN lenses : lenses[name] \in Directions
        BY <3>2 DEF Lenses, Range
      <4>2. request[c].asOf \in 0..MaxTime /\ request[c].mode \in Modes
        BY <1>1 DEF Requesting
      <4> SUFFICES ASSUME NEW key \in DOMAIN snapshots'
                   PROVE  key \in (0..MaxTime) \X Modes \X Names /\ snapshots'[key] \in Directions
        OBVIOUS
      <4>3. CASE key \in DOMAIN snapshots
        BY <3>2, <4>3 DEF Recorded, TypeOK
      <4>4. CASE key \notin DOMAIN snapshots
        <5>1. PICK name \in DOMAIN lenses : key = <<request[c].asOf, request[c].mode, name>>
          BY <3>2, <4>4 DEF Recorded
        <5>2. snapshots'[key] = lenses[name]
          BY <3>2, <4>4, <5>1 DEF Recorded
        <5> QED
          BY <4>1, <4>2, <5>1, <5>2
      <4> QED
        BY <4>3, <4>4
    <3> QED
      BY <2>1, <3>1, <3>2 DEF Record
  <2>5. TypeOK'
    BY <2>1, <2>2, <2>4 DEF TypeOK, Requesting
  <2> QED
    BY <2>1, <2>3, <2>5 DEF RowsOK
<1>8. ASSUME NEW c \in Clients, NEW picks \in Answers, Store(c, picks) PROVE Typed'
  <2>1. PICK plan : /\ plans' = Append(plans, plan)
                    /\ plan.mode = request[c].mode /\ plan.asOf = request[c].asOf
                    /\ plan.day = Day(plan.asOf) /\ plan.lenses = request[c].lenses
    BY <1>8 DEF Store, Conclude, PlanOf, KeyOf
  <2>2. /\ UNCHANGED <<now, tape, asked, snapshots>> /\ request[c].pc = "conclude"
        /\ request' = [request EXCEPT ![c] = Idle] /\ request[c].lenses # <<>>
    BY <1>8 DEF Store, Conclude
  <2>3. plans' \in Seq(Range(plans) \cup {plan}) /\ Len(plans') = Len(plans) + 1
    BY <1>1, <2>1 DEF RowsOK
  <2>4. \A i \in DOMAIN plans' : plans'[i] = IF i \in DOMAIN plans THEN plans[i] ELSE plan
    BY <1>1, <2>1, <2>3
  <2>5. request[c].asOf \in Nat /\ request[c].asOf < now
    BY <1>1, <2>2 DEF Requesting, StampsOK, Gathered
  <2>6. RowsOK'
    <3>1. plans' \in Seq(Range(plans'))
      BY <2>3, SequenceOverItsRange
    <3>2. \A i \in DOMAIN plans' : plans'[i].asOf \in Nat /\ plans'[i].day = Day(plans'[i].asOf)
      BY <2>1, <2>4, <2>5 DEF RowsOK
    <3> QED
      BY <3>1, <3>2 DEF RowsOK
  <2>7. request' \in [Clients -> Requesting(Len(plans) + 1)]
    BY <1>1, <1>2, <2>2 DEF Requesting
  <2>8. \A i \in DOMAIN plans' :
          plans'[i].mode \in Modes /\ plans'[i].asOf < now /\ plans'[i].lenses \in Lenses \ {<<>>}
    BY <1>1, <2>1, <2>2, <2>4, <2>5 DEF TypeOK, Requesting
  <2>9. TypeOK'
    BY <2>2, <2>3, <2>7, <2>8 DEF TypeOK, Requesting
  <2>10. StampsOK'
    BY <1>1, <2>2 DEF StampsOK, Gathered, Idle
  <2> QED
    BY <2>6, <2>9, <2>10
<1> QED
  BY <1>3, <1>4, <1>5, <1>6, <1>7, <1>8, LensSteps

(***************************************************************************)
(* So they hold throughout.                                                *)
(***************************************************************************)
LEMMA TypedAlways == LensSpec => []Typed
BY InitTyped, TypedStep, PTL DEF LensSpec

(***************************************************************************)
(* Plan requests, stored plans and lens snapshots keep their shapes        *)
(* whatever the clients, the modes, the price tape and the answers of the  *)
(* lenses (Research!TypeOK; routes/research.py, research/cache.py,         *)
(* models.py).                                                             *)
(***************************************************************************)
THEOREM ResearchTypeCorrect == LensSpec => []TypeOK
<1>1. Typed => TypeOK
  BY DEF Typed
<1> QED
  BY <1>1, TypedAlways, PTL

(***************************************************************************)
(* What storing a plan does to the plans and to the requests, field by     *)
(* field.                                                                  *)
(***************************************************************************)
LEMMA StoredRow ==
  ASSUME Typed, NEW c \in Clients, NEW picks \in Answers, Store(c, picks)
  PROVE  /\ request[c].pc = "conclude"
         /\ UNCHANGED <<now, tape, asked, snapshots>>
         /\ DOMAIN plans = 1..Len(plans) /\ Len(plans) \in Nat
         /\ DOMAIN plans' = 1..(Len(plans) + 1)
         /\ \A i \in DOMAIN plans : i \in DOMAIN plans' /\ plans'[i] = plans[i]
         /\ \E v \in {View(BarsAt(request[c].asOf))} :
              Resolvable(v) /\ plans'[Len(plans) + 1].levels = Resolve(picks, v)
         /\ LET plan == plans'[Len(plans) + 1]  r == request[c] IN
            /\ plan.mode = r.mode /\ plan.day = Day(r.asOf) /\ plan.asOf = r.asOf
            /\ plan.seen = r.seen /\ plan.forced = r.forced /\ plan.lenses = r.lenses
         /\ DOMAIN request' = Clients
         /\ \A d \in Clients : request'[d] = IF d = c THEN Idle ELSE request[d]
<1>1. /\ plans \in Seq(Range(plans)) /\ Len(plans) \in Nat /\ DOMAIN plans = 1..Len(plans)
      /\ request = [d \in Clients |-> request[d]]
  BY DEF Typed, RowsOK, TypeOK
<1>2. PICK v \in {View(BarsAt(request[c].asOf))} :
        Resolvable(v) /\ plans' = Append(plans, PlanOf(request[c], Resolve(picks, v)))
  BY DEF Store, Conclude
<1> DEFINE plan == PlanOf(request[c], Resolve(picks, v))
<1>3. plans' = Append(plans, plan)
  BY <1>2
<1>7. /\ plan.mode = request[c].mode /\ plan.day = Day(request[c].asOf)
      /\ plan.asOf = request[c].asOf /\ plan.seen = request[c].seen
      /\ plan.forced = request[c].forced /\ plan.lenses = request[c].lenses
      /\ plan.levels = Resolve(picks, v)
  BY DEF PlanOf, KeyOf
<1> HIDE DEF plan
<1>4. /\ DOMAIN plans' = 1..(Len(plans) + 1)
      /\ plans'[Len(plans) + 1] = plan
      /\ \A i \in 1..Len(plans) : plans'[i] = plans[i]
  BY <1>1, <1>3
<1>5. \A i \in DOMAIN plans : i \in DOMAIN plans' /\ plans'[i] = plans[i]
  BY <1>1, <1>4
<1>6. /\ request[c].pc = "conclude" /\ UNCHANGED <<now, tape, asked, snapshots>>
      /\ request' = [request EXCEPT ![c] = Idle]
  BY DEF Store, Conclude
<1> QED
  BY <1>1, <1>2, <1>4, <1>5, <1>6, <1>7

(***************************************************************************)
(* What the answers of the lenses do to the request that asked them.       *)
(***************************************************************************)
LEMMA SpokenRequest ==
  ASSUME Typed, NEW c \in Clients, NEW lenses \in Lenses, Speak(c, lenses)
  PROVE  /\ request[c].pc \in {"quick", "deep"} /\ UNCHANGED <<now, plans>>
         /\ request'[c].pc = "conclude" /\ request'[c].lenses = lenses
         /\ request'[c].asOf = request[c].asOf /\ request'[c].mode = request[c].mode
         /\ request'[c].seen = request[c].seen /\ request'[c].forced = request[c].forced
         /\ \A d \in Clients \ {c} : request'[d] = request[d]
<1>1. /\ request = [d \in Clients |-> request[d]]
      /\ request[c] \in Requesting(Len(plans))
  BY DEF Typed, TypeOK, Requesting
<1> QED
  BY <1>1 DEF Speak, Requesting

(***************************************************************************)
(* The clock never runs backwards.                                         *)
(***************************************************************************)
LEMMA NowAdvances == Typed /\ [LensNext]_vars => now \in Nat /\ now' \in Nat /\ now <= now'
<1> SUFFICES ASSUME Typed, [LensNext]_vars PROVE now \in Nat /\ now' \in Nat /\ now <= now'
  OBVIOUS
<1>1. now \in Nat /\ now' \in Nat
  BY TypedStep DEF Typed, TypeOK
<1>2. now' \in {now, now + 1}
  <2>1. Quiet => now' \in {now, now + 1}
    BY DEF Quiet
  <2>2. ASSUME NEW c \in Clients, NEW mode \in Modes, NEW forced \in BOOLEAN, Ask(c, mode, forced)
        PROVE now' = now
    BY <2>2 DEF Ask
  <2>3. ASSUME NEW c \in Clients, Gather(c) PROVE now' = now + 1
    BY <2>3 DEF Gather
  <2>4. ASSUME NEW C \in SUBSET Clients, Drop(C) PROVE now' = now
    BY <2>4 DEF Drop
  <2>5. ASSUME NEW c \in Clients, NEW lenses \in Lenses, Speak(c, lenses) PROVE now' = now
    BY <2>5 DEF Speak
  <2>6. ASSUME NEW c \in Clients, NEW picks \in Answers, Store(c, picks) PROVE now' = now
    BY <2>6, StoredRow
  <2> QED
    BY <2>1, <2>2, <2>3, <2>4, <2>5, <2>6, LensSteps DEF Typed
<1> QED
  BY <1>1, <1>2

\* No two requests that have gathered their evidence, and no such request and stored
\* plan, were stamped at the same instant.
StampsAreUnique ==
  /\ \A c, d \in Clients : c # d /\ Gathered(c) /\ Gathered(d) => request[c].asOf # request[d].asOf
  /\ \A c \in Clients, i \in DOMAIN plans : Gathered(c) => request[c].asOf # plans[i].asOf

(***************************************************************************)
(* Gathering evidence takes a fresh instant: no two requests under way,    *)
(* and no request and stored plan, carry the same as_of.                   *)
(***************************************************************************)
LEMMA StampsStep == Typed /\ StampsAreUnique /\ [LensNext]_vars => StampsAreUnique'
<1> SUFFICES ASSUME Typed, StampsAreUnique, [LensNext]_vars PROVE StampsAreUnique'
  OBVIOUS
<1>1. /\ now \in Int /\ request = [c \in Clients |-> request[c]]
      /\ \A c \in Clients : request[c] \in Requesting(Len(plans))
      /\ \A i \in DOMAIN plans : plans[i].asOf < now /\ plans[i].asOf \in Nat
  BY DEF Typed, TypeOK, RowsOK, Requesting
<1>2. \A c \in Clients : Gathered(c) => request[c].asOf < now /\ request[c].asOf \in Int
  BY <1>1 DEF Typed, StampsOK, Requesting
<1>3. CASE Quiet
  BY <1>3 DEF Quiet, StampsAreUnique, Gathered
<1>4. ASSUME NEW c \in Clients, NEW mode \in Modes, NEW forced \in BOOLEAN, Ask(c, mode, forced)
      PROVE  StampsAreUnique'
  <2>1. request' = [request EXCEPT ![c] = Asking(mode, forced, Len(plans))] /\ plans' = plans
    BY <1>4 DEF Ask, Asking
  <2>2. Asking(mode, forced, Len(plans)).pc = "gather"
    <3>1. Len(plans) \in Nat
      BY DEF Typed, RowsOK
    <3> QED
      BY <3>1, AskingIsARequest
  <2> QED
    BY <1>1, <2>1, <2>2 DEF StampsAreUnique, Gathered
<1>5. ASSUME NEW c \in Clients, Gather(c) PROVE StampsAreUnique'
  <2>1. /\ plans' = plans
        /\ request' = [request EXCEPT ![c].pc = request[c].mode, ![c].asOf = now]
    BY <1>5 DEF Gather
  <2>2. request'[c].asOf = now /\ \A d \in Clients \ {c} : request'[d] = request[d]
    BY <1>1, <2>1 DEF Requesting
  <2> QED
    BY <1>1, <1>2, <2>1, <2>2 DEF StampsAreUnique, Gathered
<1>6. ASSUME NEW C \in SUBSET Clients, Drop(C) PROVE StampsAreUnique'
  BY <1>6 DEF Drop, Idle, StampsAreUnique, Gathered
<1>7. ASSUME NEW c \in Clients, NEW lenses \in Lenses, Speak(c, lenses) PROVE StampsAreUnique'
  <2>1. /\ plans' = plans /\ Gathered(c)
        /\ \A d \in Clients : request'[d].asOf = request[d].asOf /\ (Gathered(d)' => Gathered(d))
    BY <1>7, SpokenRequest DEF Gathered
  <2> HIDE DEF Gathered
  <2> QED
    BY <2>1 DEF StampsAreUnique
<1>8. ASSUME NEW c \in Clients, NEW picks \in Answers, Store(c, picks) PROVE StampsAreUnique'
  <2>1. \A d \in Clients : request'[d] = IF d = c THEN Idle ELSE request[d]
    BY <1>8, StoredRow
  <2>2. \A i \in DOMAIN plans' : plans'[i].asOf = IF i \in DOMAIN plans THEN plans[i].asOf
                                                  ELSE request[c].asOf
    <3>1. \A i \in DOMAIN plans' : i \in DOMAIN plans \/ i = Len(plans) + 1
      BY <1>8, StoredRow
    <3> QED
      BY <1>8, <3>1, StoredRow
  <2>3. Gathered(c) /\ Idle.pc = "idle"
    BY <1>8, StoredRow DEF Gathered, Idle
  <2> QED
    BY <2>1, <2>2, <2>3 DEF StampsAreUnique, Gathered
<1> QED
  BY <1>3, <1>4, <1>5, <1>6, <1>7, <1>8, LensSteps DEF Typed

\* The day a request looks its plan up under, or its packet is of.
DayOf(c) == IF request[c].pc = "gather" THEN Day(now) ELSE Day(request[c].asOf)

UnforcedFoundNone ==
  \A c \in Clients : (request[c].pc # "idle" /\ ~ request[c].forced) =>
     \A i \in 1..request[c].seen : plans[i].mode = request[c].mode => plans[i].day < DayOf(c)

OverlapInv == UnforcedFoundNone /\ OnlyOverlapsPayTwice

(***************************************************************************)
(* A request that does not force and is under way found no plan of its key *)
(* when it was asked; one stored since was stored by a request that        *)
(* overlaps it.                                                            *)
(***************************************************************************)
LEMMA OverlapStep == Typed /\ OverlapInv /\ [LensNext]_vars => OverlapInv'
<1> SUFFICES ASSUME Typed, OverlapInv, [LensNext]_vars PROVE OverlapInv'
  OBVIOUS
<1>1. /\ now \in Int /\ now' \in Int /\ now <= now' /\ now >= 0
      /\ Len(plans) \in Nat /\ DOMAIN plans = 1..Len(plans)
      /\ request = [c \in Clients |-> request[c]]
      /\ \A c \in Clients : request[c] \in Requesting(Len(plans))
      /\ \A i \in DOMAIN plans : /\ plans[i].asOf < now /\ plans[i].asOf \in Nat
                                 /\ plans[i].day = Day(plans[i].asOf)
  BY NowAdvances DEF Typed, TypeOK, RowsOK, Requesting
<1>2. Day(now) <= Day(now') /\ Day(now) \in Int /\ Day(now') \in Int
      /\ \A i \in DOMAIN plans : plans[i].day \in Int /\ plans[i].day <= Day(now)
  BY <1>1, ThirdsOfADay
<1>3. CASE Quiet
  <2>1. OnlyOverlapsPayTwice'
    BY <1>3 DEF OverlapInv, Quiet, OnlyOverlapsPayTwice
  <2>2. UnforcedFoundNone'
    <3> SUFFICES ASSUME NEW c \in Clients, request[c].pc # "idle", ~ request[c].forced,
                        NEW i \in 1..request[c].seen, plans[i].mode = request[c].mode
                 PROVE  plans[i].day < DayOf(c)'
      BY <1>3 DEF UnforcedFoundNone, Quiet
    <3>1. plans[i].day < DayOf(c) /\ i \in DOMAIN plans
      BY <1>1 DEF OverlapInv, UnforcedFoundNone, Requesting
    <3> QED
      BY <1>2, <1>3, <3>1 DEF Quiet, DayOf
  <2> QED
    BY <2>1, <2>2 DEF OverlapInv
<1>4. ASSUME NEW c \in Clients, NEW mode \in Modes, NEW forced \in BOOLEAN, Ask(c, mode, forced)
      PROVE  OverlapInv'
  <2> DEFINE r == Asking(mode, forced, Len(plans))
  <2>1. request' = [request EXCEPT ![c] = r] /\ UNCHANGED <<now, plans>>
    BY <1>4 DEF Ask, Asking
  <2>2. r.pc = "gather" /\ r.mode = mode /\ r.forced = forced /\ r.seen = Len(plans)
    BY <1>1, AskingIsARequest
  <2> HIDE DEF r
  <2>3. ~ forced => \A i \in DOMAIN plans : plans[i].mode = mode => plans[i].day # Day(now)
    <3> SUFFICES ASSUME ~ forced PROVE \A i \in DOMAIN plans : plans[i].mode = mode => plans[i].day # Day(now)
      OBVIOUS
    <3>1. Cached(mode, Day(now)) = {}
      BY <1>4 DEF Ask
    <3>2. CachedIds(mode, Day(now)) = {}
      BY <3>1 DEF Cached
    <3> QED
      BY <3>2 DEF CachedIds
  <2>4. UnforcedFoundNone'
    <3> SUFFICES ASSUME NEW d \in Clients, request'[d].pc # "idle", ~ request'[d].forced,
                        NEW i \in 1..request'[d].seen, plans[i].mode = request'[d].mode
                 PROVE  plans[i].day < DayOf(d)'
      BY <2>1 DEF UnforcedFoundNone
    <3>1. CASE d # c
      BY <1>1, <2>1, <3>1 DEF OverlapInv, UnforcedFoundNone, DayOf
    <3>2. CASE d = c
      <4>1. request'[d] = r /\ i \in DOMAIN plans
        BY <1>1, <2>1, <2>2, <3>2
      <4>2. plans[i].day # Day(now)
        BY <2>2, <2>3, <4>1
      <4> QED
        BY <1>2, <2>1, <2>2, <4>1, <4>2 DEF DayOf
    <3> QED
      BY <3>1, <3>2
  <2> QED
    BY <2>1, <2>4 DEF OverlapInv, OnlyOverlapsPayTwice
<1>5. ASSUME NEW c \in Clients, Gather(c) PROVE OverlapInv'
  <2>1. /\ plans' = plans /\ now' = now + 1 /\ request[c].pc = "gather"
        /\ request' = [request EXCEPT ![c].pc = request[c].mode, ![c].asOf = now]
    BY <1>5 DEF Gather
  <2>2. /\ request'[c].asOf = now /\ request'[c].pc \in {"quick", "deep"}
        /\ request'[c].mode = request[c].mode /\ request'[c].seen = request[c].seen
        /\ request'[c].forced = request[c].forced
        /\ \A d \in Clients \ {c} : request'[d] = request[d]
    BY <1>1, <2>1 DEF Requesting, Modes
  <2>3. UnforcedFoundNone'
    <3> SUFFICES ASSUME NEW d \in Clients, request'[d].pc # "idle", ~ request'[d].forced,
                        NEW i \in 1..request'[d].seen, plans[i].mode = request'[d].mode
                 PROVE  plans[i].day < DayOf(d)'
      BY <2>1 DEF UnforcedFoundNone
    <3>1. plans[i].day < DayOf(d) /\ i \in DOMAIN plans
      BY <1>1, <2>1, <2>2 DEF OverlapInv, UnforcedFoundNone, Requesting
    <3>2. CASE d = c
      BY <2>1, <2>2, <3>1, <3>2 DEF DayOf
    <3>3. CASE d # c
      BY <1>2, <2>2, <3>1, <3>3 DEF DayOf
    <3> QED
      BY <3>2, <3>3
  <2> QED
    BY <2>1, <2>3 DEF OverlapInv, OnlyOverlapsPayTwice
<1>6. ASSUME NEW C \in SUBSET Clients, Drop(C) PROVE OverlapInv'
  <2>1. UnforcedFoundNone'
    BY <1>6 DEF Drop, Idle, OverlapInv, UnforcedFoundNone, DayOf
  <2> QED
    BY <1>6, <2>1 DEF Drop, OverlapInv, OnlyOverlapsPayTwice
<1>7. ASSUME NEW c \in Clients, NEW lenses \in Lenses, Speak(c, lenses) PROVE OverlapInv'
  <2>1. UNCHANGED <<plans, now>>
    BY <1>7, SpokenRequest
  <2>2. \A d \in Clients :
          /\ request[d].pc # "idle" <=> request'[d].pc # "idle"
          /\ request[d].pc = "gather" <=> request'[d].pc = "gather"
          /\ request'[d].asOf = request[d].asOf /\ request'[d].mode = request[d].mode
          /\ request'[d].seen = request[d].seen /\ request'[d].forced = request[d].forced
    BY <1>7, SpokenRequest
  <2>3. UnforcedFoundNone'
    BY <2>1, <2>2 DEF OverlapInv, UnforcedFoundNone, DayOf
  <2> QED
    BY <2>1, <2>3 DEF OverlapInv, OnlyOverlapsPayTwice
<1>8. ASSUME NEW c \in Clients, NEW picks \in Answers, Store(c, picks) PROVE OverlapInv'
  <2> DEFINE n == Len(plans) + 1
  <2>1. /\ \A d \in Clients : request'[d] = IF d = c THEN Idle ELSE request[d]
        /\ request[c].pc = "conclude" /\ now' = now /\ DOMAIN plans' = 1..n
        /\ \A i \in DOMAIN plans : plans'[i] = plans[i]
    BY <1>8, StoredRow
  <2>2. /\ plans'[n].mode = request[c].mode /\ plans'[n].day = Day(request[c].asOf)
        /\ plans'[n].seen = request[c].seen /\ plans'[n].forced = request[c].forced
    BY <1>8, StoredRow
  <2>3. UnforcedFoundNone'
    <3> SUFFICES ASSUME NEW d \in Clients, request'[d].pc # "idle", ~ request'[d].forced,
                        NEW i \in 1..request'[d].seen, plans'[i].mode = request'[d].mode
                 PROVE  plans'[i].day < DayOf(d)'
      BY DEF UnforcedFoundNone
    <3>1. d # c /\ request'[d] = request[d]
      BY <2>1 DEF Idle
    <3>2. i \in DOMAIN plans
      BY <1>1, <3>1 DEF Requesting
    <3> QED
      BY <2>1, <3>1, <3>2 DEF OverlapInv, UnforcedFoundNone, DayOf
  <2>4. OnlyOverlapsPayTwice'
    <3> SUFFICES ASSUME NEW i \in DOMAIN plans', NEW j \in DOMAIN plans', i < j,
                        plans'[i].mode = plans'[j].mode, plans'[i].day = plans'[j].day,
                        ~ plans'[j].forced
                 PROVE  plans'[j].seen < i
      BY DEF OnlyOverlapsPayTwice
    <3>1. i \in DOMAIN plans /\ (j \in DOMAIN plans \/ j = n)
      BY <1>1, <2>1
    <3>2. CASE j \in DOMAIN plans
      BY <2>1, <3>1, <3>2 DEF OverlapInv, OnlyOverlapsPayTwice
    <3>3. CASE j = n
      <4>1. request[c].seen \in Int /\ i \in Int /\ i >= 1
        BY <1>1, <3>1 DEF Requesting
      <4>2. SUFFICES ASSUME i <= request[c].seen PROVE FALSE
        BY <2>2, <3>3, <4>1
      <4>3. i \in 1..request[c].seen
        BY <4>1, <4>2
      <4>4. plans[i].mode = request[c].mode /\ plans[i].day = Day(request[c].asOf)
            /\ ~ request[c].forced
        BY <2>1, <2>2, <3>1, <3>3
      <4>5. plans[i].day < DayOf(c)
        BY <2>1, <4>3, <4>4 DEF OverlapInv, UnforcedFoundNone
      <4>6. plans[i].day < Day(request[c].asOf)
        BY <2>1, <4>5 DEF DayOf
      <4> QED
        BY <1>2, <3>1, <4>4, <4>6
    <3> QED
      BY <3>1, <3>2, <3>3
  <2> QED
    BY <2>3, <2>4 DEF OverlapInv
<1> QED
  BY <1>3, <1>4, <1>5, <1>6, <1>7, <1>8, LensSteps DEF Typed

(***************************************************************************)
(* A model is paid twice for the same ticker, mode and day only by a       *)
(* forced request or by requests that overlapped: the look-up of the day's *)
(* plan is exact (Research!OnlyOverlapsPayTwice;                           *)
(* research/cache.py, get_cached).                                         *)
(***************************************************************************)
THEOREM OverlapsOnly == LensSpec => []OnlyOverlapsPayTwice
<1>1. LensInit => OverlapInv
  BY DEF LensInit, Init, Idle, OverlapInv, UnforcedFoundNone, OnlyOverlapsPayTwice
<1>2. OverlapInv => OnlyOverlapsPayTwice
  BY DEF OverlapInv
<1> QED
  BY <1>1, <1>2, TypedAlways, OverlapStep, PTL DEF LensSpec

-----------------------------------------------------------------------------
\* The snapshots filed under a request under way: none before its lenses speak, and its
\* own answers afterwards.
SnapshotsAreOfRequests ==
  /\ \A key \in DOMAIN snapshots : key[1] < now
  /\ \A c \in Clients : request[c].pc \in {"quick", "deep"} =>
       \A key \in DOMAIN snapshots : key[1] # request[c].asOf
  /\ \A c \in Clients : request[c].pc = "conclude" =>
       \A name \in Names :
         LET key == <<request[c].asOf, request[c].mode, name>>
         IN key \in DOMAIN snapshots =>
              name \in DOMAIN request[c].lenses /\ snapshots[key] = request[c].lenses[name]

SnapshotInv == SnapshotsAreOfRequests /\ SnapshotsMatchPlans

(***************************************************************************)
(* Recording a request's lens answers adds keys of that request alone and  *)
(* rewrites none.                                                          *)
(***************************************************************************)
LEMMA WhatIsRecorded ==
  ASSUME NEW r, NEW lenses, Record(r, lenses)
  PROVE  /\ \A key \in DOMAIN snapshots : key \in DOMAIN snapshots' /\ snapshots'[key] = snapshots[key]
         /\ \A key \in DOMAIN snapshots' : key \notin DOMAIN snapshots =>
              \E name \in DOMAIN lenses : /\ key = <<r.asOf, r.mode, name>>
                                          /\ snapshots'[key] = lenses[name]
<1>1. CASE snapshots' = snapshots
  BY <1>1
<1>2. CASE snapshots' = Recorded(r, lenses)
  <2> DEFINE keys == {<<r.asOf, r.mode, name>> : name \in DOMAIN lenses}
  <2>1. snapshots' = [key \in keys \cup DOMAIN snapshots |->
          IF key \in DOMAIN snapshots THEN snapshots[key] ELSE lenses[key[3]]]
    BY <1>2 DEF Recorded
  <2>2. \A key \in keys : \E name \in DOMAIN lenses : key = <<r.asOf, r.mode, name>> /\ key[3] = name
    OBVIOUS
  <2> HIDE DEF keys
  <2> QED
    BY <2>1, <2>2
<1> QED
  BY <1>1, <1>2 DEF Record

(***************************************************************************)
(* A key of the snapshots belongs to one request: while it is under way    *)
(* its snapshots are the answers it holds, and the plan it stores holds    *)
(* the same answers.                                                       *)
(***************************************************************************)
LEMMA SnapshotStep == Typed /\ StampsAreUnique /\ SnapshotInv /\ [LensNext]_vars => SnapshotInv'
<1> SUFFICES ASSUME Typed, StampsAreUnique, SnapshotInv, [LensNext]_vars PROVE SnapshotInv'
  OBVIOUS
<1>1. /\ now \in Nat /\ now' \in Nat /\ now <= now'
      /\ Len(plans) \in Nat /\ DOMAIN plans = 1..Len(plans)
      /\ request = [c \in Clients |-> request[c]]
      /\ \A c \in Clients : request[c] \in Requesting(Len(plans))
      /\ \A c \in Clients : Gathered(c) => request[c].asOf < now
      /\ \A key \in DOMAIN snapshots : key[1] \in Nat
  BY NowAdvances DEF Typed, TypeOK, RowsOK, StampsOK, Requesting
<1>2. ASSUME snapshots' = snapshots PROVE \A key \in DOMAIN snapshots' : key[1] < now'
  BY <1>1, <1>2 DEF SnapshotInv, SnapshotsAreOfRequests
<1>3. ASSUME UNCHANGED <<plans, snapshots>> PROVE SnapshotsMatchPlans'
  BY <1>3 DEF SnapshotInv, SnapshotsMatchPlans
<1>4. CASE Quiet
  <2>1. SnapshotsAreOfRequests'
    BY <1>2, <1>4 DEF Quiet, SnapshotInv, SnapshotsAreOfRequests
  <2> QED
    BY <1>3, <1>4, <2>1 DEF SnapshotInv, Quiet
<1>5. ASSUME NEW c \in Clients, NEW mode \in Modes, NEW forced \in BOOLEAN, Ask(c, mode, forced)
      PROVE  SnapshotInv'
  <2>1. /\ request' = [request EXCEPT ![c] = Asking(mode, forced, Len(plans))]
        /\ UNCHANGED <<plans, snapshots>>
    BY <1>5 DEF Ask, Asking
  <2>2. Asking(mode, forced, Len(plans)).pc = "gather"
    BY <1>1, AskingIsARequest
  <2>3. request'[c].pc = "gather" /\ \A d \in Clients \ {c} : request'[d] = request[d]
    BY <1>1, <2>1, <2>2
  <2>4. SnapshotsAreOfRequests'
    BY <1>2, <2>1, <2>3 DEF SnapshotInv, SnapshotsAreOfRequests
  <2> QED
    BY <1>3, <2>1, <2>4 DEF SnapshotInv
<1>6. ASSUME NEW c \in Clients, Gather(c) PROVE SnapshotInv'
  <2>1. /\ UNCHANGED <<plans, snapshots>> /\ now' = now + 1
        /\ request' = [request EXCEPT ![c].pc = request[c].mode, ![c].asOf = now]
    BY <1>6 DEF Gather
  <2>2. /\ request'[c].asOf = now /\ request'[c].pc \in {"quick", "deep"}
        /\ \A d \in Clients \ {c} : request'[d] = request[d]
    BY <1>1, <2>1 DEF Requesting, Modes
  <2>3. \A key \in DOMAIN snapshots : key[1] # now
    BY <1>1 DEF SnapshotInv, SnapshotsAreOfRequests
  <2>4. snapshots' = snapshots
    BY <2>1
  <2>5. SnapshotsAreOfRequests'
    BY <1>2, <2>2, <2>3, <2>4 DEF SnapshotInv, SnapshotsAreOfRequests
  <2> QED
    BY <1>3, <2>1, <2>5 DEF SnapshotInv
<1>7. ASSUME NEW C \in SUBSET Clients, Drop(C) PROVE SnapshotInv'
  <2>1. \A c \in Clients : request'[c].pc # "idle" => request'[c] = request[c]
    BY <1>7 DEF Drop, Idle
  <2>2. SnapshotsAreOfRequests'
    BY <1>2, <1>7, <2>1 DEF Drop, SnapshotInv, SnapshotsAreOfRequests
  <2> QED
    BY <1>3, <1>7, <2>2 DEF Drop, SnapshotInv
<1>8. ASSUME NEW c \in Clients, NEW lenses \in Lenses, Speak(c, lenses) PROVE SnapshotInv'
  <2>1. /\ request[c].pc \in {"quick", "deep"} /\ UNCHANGED <<now, plans>>
        /\ request'[c].pc = "conclude" /\ request'[c].lenses = lenses
        /\ request'[c].asOf = request[c].asOf /\ request'[c].mode = request[c].mode
        /\ \A d \in Clients \ {c} : request'[d] = request[d]
    BY <1>8, SpokenRequest
  <2>2. Record(request[c], lenses)
    BY <1>8 DEF Speak
  <2>3. /\ \A key \in DOMAIN snapshots : key \in DOMAIN snapshots' /\ snapshots'[key] = snapshots[key]
        /\ \A key \in DOMAIN snapshots' : key \notin DOMAIN snapshots =>
              \E name \in DOMAIN lenses : /\ key = <<request[c].asOf, request[c].mode, name>>
                                          /\ snapshots'[key] = lenses[name]
    BY <2>2, WhatIsRecorded
  <2>4. \A key \in DOMAIN snapshots : key[1] # request[c].asOf
    BY <2>1 DEF SnapshotInv, SnapshotsAreOfRequests
  <2>5. \A key \in DOMAIN snapshots' : key \in DOMAIN snapshots \/ key[1] = request[c].asOf
    BY <2>3
  <2>6. Gathered(c)
    BY <2>1 DEF Gathered
  <2>7. \A key \in DOMAIN snapshots' : key[1] < now
    BY <1>1, <2>5, <2>6 DEF SnapshotInv, SnapshotsAreOfRequests
  <2>8. \A d \in Clients \ {c} : Gathered(d) => request[d].asOf # request[c].asOf
    BY <2>6 DEF StampsAreUnique
  <2>9. ASSUME NEW d \in Clients, request'[d].pc \in {"quick", "deep"}, NEW key \in DOMAIN snapshots'
        PROVE  key[1] # request'[d].asOf
    <3>1. d # c /\ request'[d] = request[d] /\ Gathered(d)
      BY <2>1, <2>9 DEF Gathered
    <3> QED
      BY <2>5, <2>8, <2>9, <3>1 DEF SnapshotInv, SnapshotsAreOfRequests
  <2>10. ASSUME NEW d \in Clients, request'[d].pc = "conclude", NEW name \in Names,
                <<request'[d].asOf, request'[d].mode, name>> \in DOMAIN snapshots'
         PROVE  /\ name \in DOMAIN request'[d].lenses
                /\ snapshots'[<<request'[d].asOf, request'[d].mode, name>>] = request'[d].lenses[name]
    <3> DEFINE key == <<request'[d].asOf, request'[d].mode, name>>
    <3>1. CASE d = c
      <4>1. key[1] = request[c].asOf /\ key[3] = name /\ key \in DOMAIN snapshots'
        BY <2>1, <2>10, <3>1
      <4>2. key \notin DOMAIN snapshots
        BY <2>4, <4>1
      <4>3. PICK other \in DOMAIN lenses : /\ key = <<request[c].asOf, request[c].mode, other>>
                                           /\ snapshots'[key] = lenses[other]
        BY <2>3, <4>1, <4>2
      <4>4. other = name
        BY <4>3
      <4> QED
        BY <2>1, <3>1, <4>3, <4>4
    <3>2. CASE d # c
      <4>1. request'[d] = request[d] /\ Gathered(d)
        BY <2>1, <2>10, <3>2 DEF Gathered
      <4>2. key[1] # request[c].asOf /\ key \in DOMAIN snapshots'
        BY <2>8, <2>10, <3>2, <4>1
      <4>3. key \in DOMAIN snapshots /\ snapshots'[key] = snapshots[key]
        BY <2>3, <2>5, <4>2
      <4> QED
        BY <2>10, <4>1, <4>3 DEF SnapshotInv, SnapshotsAreOfRequests
    <3> QED
      BY <3>1, <3>2
  <2>11. SnapshotsMatchPlans'
    <3> SUFFICES ASSUME NEW i \in DOMAIN plans, NEW name \in Names,
                        <<plans[i].asOf, plans[i].mode, name>> \in DOMAIN snapshots'
                 PROVE  LET key == <<plans[i].asOf, plans[i].mode, name>>
                        IN name \in DOMAIN plans[i].lenses /\ snapshots'[key] = plans[i].lenses[name]
      BY <2>1 DEF SnapshotsMatchPlans
    <3> DEFINE key == <<plans[i].asOf, plans[i].mode, name>>
    <3>1. key[1] # request[c].asOf
      BY <2>6 DEF StampsAreUnique
    <3>2. key \in DOMAIN snapshots /\ snapshots'[key] = snapshots[key]
      BY <2>3, <2>5, <3>1
    <3> QED
      BY <3>2 DEF SnapshotInv, SnapshotsMatchPlans
  <2>12. SnapshotsAreOfRequests'
    BY <2>1, <2>7, <2>9, <2>10 DEF SnapshotsAreOfRequests
  <2> QED
    BY <2>11, <2>12 DEF SnapshotInv
<1>9. ASSUME NEW c \in Clients, NEW picks \in Answers, Store(c, picks) PROVE SnapshotInv'
  <2> DEFINE n == Len(plans) + 1
  <2>1. /\ \A d \in Clients : request'[d] = IF d = c THEN Idle ELSE request[d]
        /\ request[c].pc = "conclude" /\ snapshots' = snapshots
        /\ \A i \in DOMAIN plans' : i \in DOMAIN plans \/ i = n
        /\ \A i \in DOMAIN plans : plans'[i] = plans[i]
        /\ plans'[n].mode = request[c].mode /\ plans'[n].asOf = request[c].asOf
        /\ plans'[n].lenses = request[c].lenses
    BY <1>9, StoredRow
  <2>2. SnapshotsAreOfRequests'
    <3>1. \A d \in Clients : request'[d].pc # "idle" => request'[d] = request[d]
      BY <2>1 DEF Idle
    <3> QED
      BY <1>2, <2>1, <3>1 DEF SnapshotInv, SnapshotsAreOfRequests
  <2>3. SnapshotsMatchPlans'
    <3> SUFFICES ASSUME NEW i \in DOMAIN plans', NEW name \in Names,
                        <<plans'[i].asOf, plans'[i].mode, name>> \in DOMAIN snapshots
                 PROVE  LET key == <<plans'[i].asOf, plans'[i].mode, name>>
                        IN name \in DOMAIN plans'[i].lenses /\ snapshots[key] = plans'[i].lenses[name]
      BY <2>1 DEF SnapshotsMatchPlans
    <3>1. CASE i \in DOMAIN plans
      BY <2>1, <3>1 DEF SnapshotInv, SnapshotsMatchPlans
    <3>2. CASE i = n
      BY <2>1, <3>2 DEF SnapshotInv, SnapshotsAreOfRequests
    <3> QED
      BY <2>1, <3>1, <3>2
  <2> QED
    BY <2>2, <2>3 DEF SnapshotInv
<1> QED
  BY <1>4, <1>5, <1>6, <1>7, <1>8, <1>9, LensSteps DEF Typed

(***************************************************************************)
(* A plan and the lens snapshots of its as_of and mode say the same: no    *)
(* interleaving of requests files one request's answers under another's    *)
(* plan (Research!SnapshotsMatchPlans; research/quick.py,                  *)
(* research/deep.py, research/lens_recording.py).                          *)
(***************************************************************************)
THEOREM SnapshotsMatch == LensSpec => []SnapshotsMatchPlans
<1>1. LensInit => StampsAreUnique /\ SnapshotInv
  BY DEF LensInit, Init, Idle, StampsAreUnique, Gathered, SnapshotInv, SnapshotsAreOfRequests,
         SnapshotsMatchPlans
<1>2. SnapshotInv => SnapshotsMatchPlans
  BY DEF SnapshotInv
<1> QED
  BY <1>1, <1>2, TypedAlways, StampsStep, SnapshotStep, PTL DEF LensSpec
-----------------------------------------------------------------------------
(***************************************************************************)
(* Whatever indices a model answers with, the resolved entry and stop are  *)
(* on the menus, the stop lies below the entry, and levels with a positive *)
(* reward are a combination of the menus.                                  *)
(***************************************************************************)
LEMMA ResolvedLevels ==
  ASSUME NEW v, Resolvable(v), NEW picks \in Answers
  PROVE  LET levels == Resolve(picks, v) IN
         /\ levels.entry \in Range(Entries(v))
         /\ levels.stop \in Range(Stops(v)) /\ levels.stop < levels.entry.low
         /\ RiskReward(levels.entry, levels.primary, levels.stop) > 0 => levels \in Combos(v)
<1> DEFINE entries == Entries(v)
           kind == IF picks.kind \in DOMAIN entries THEN picks.kind ELSE Only(DOMAIN entries)
           entry == entries[kind]
           primary == Clamped(Primaries(v), picks.primary)
           picked == Clamped(Stops(v), picks.stop)
           stop == StopBelow(entry, v, picked)
           runner == {Clamped(Runners(v), i) : i \in IF Runners(v) = <<>> THEN {} ELSE picks.runner}
           levels == Resolve(picks, v)
<1>1. kind \in DOMAIN entries
  BY DEF Resolvable, Only
<1>2. entry \in Range(entries)
  BY <1>1 DEF Range
<1>3. primary \in Range(Primaries(v))
  BY PrimariesAreASequence, ClampedIsAnElement, AnswersAssumption DEF Resolvable
<1>4. picked \in Range(Stops(v))
  BY StopsLieBelowTheEntries, ClampedIsAnElement, AnswersAssumption DEF Resolvable
<1>5. picked < entry.low
  BY <1>1, <1>4, StopsLieBelowTheEntries
<1>6. stop = picked
  BY <1>5 DEF StopBelow
<1>7. runner \in {{}} \cup {{r} : r \in Range(Runners(v))}
  <2>1. CASE Runners(v) = <<>> \/ picks.runner = {}
    <3>1. runner = {}
      BY <2>1
    <3> QED
      BY <3>1
  <2>2. CASE Runners(v) # <<>> /\ picks.runner # {}
    <3>1. PICK i : i \in picks.runner
      BY <2>2
    <3>2. picks.runner = {i} /\ i \in Int
      BY <3>1, AnswersAssumption
    <3>3. Clamped(Runners(v), i) \in Range(Runners(v))
      BY <2>2, <3>2, RunnersAreASequence, ClampedIsAnElement
    <3>4. runner = {Clamped(Runners(v), i)}
      BY <2>2, <3>2
    <3> HIDE DEF runner
    <3> QED
      BY <3>3, <3>4
  <2> QED
    BY <2>1, <2>2
<1>8. levels = [entry |-> entry, primary |-> primary, runner |-> runner, stop |-> stop]
  BY DEF Resolve
<1> HIDE DEF entry, primary, runner, stop, picked, levels, kind
<1>9. levels \in [entry : Range(entries), primary : Range(Primaries(v)),
                  runner : {{}} \cup {{r} : r \in Range(Runners(v))}, stop : Range(Stops(v))]
  BY <1>2, <1>3, <1>4, <1>6, <1>7, <1>8
<1>10. levels.entry = entry /\ levels.primary = primary /\ levels.stop = picked
  BY <1>6, <1>8
<1>11. RiskReward(levels.entry, levels.primary, levels.stop) > 0 => levels \in Combos(v)
  BY <1>5, <1>9, <1>10 DEF Combos
<1> QED
  BY <1>2, <1>4, <1>5, <1>10, <1>11 DEF levels

(***************************************************************************)
(* Every stored plan has levels that its evidence offered: the numbers of  *)
(* a plan come from the computed candidates, never from the model's answer *)
(* (Research!LevelsAreCandidates; research/agents/judge.py,                *)
(* _resolve_picks).                                                        *)
(***************************************************************************)
THEOREM LevelsAreReal == LensSpec => []LevelsAreCandidates
<1>1. LensInit => LevelsAreCandidates
  BY DEF LensInit, Init, LevelsAreCandidates
<1> DEFINE Real(levels, v) ==
             /\ levels.entry \in Range(Entries(v))
             /\ levels.stop \in Range(Stops(v)) /\ levels.stop < levels.entry.low
             /\ RiskReward(levels.entry, levels.primary, levels.stop) > 0 => levels \in Combos(v)
<1>2. LevelsAreCandidates <=> \A i \in DOMAIN plans : Real(plans[i].levels, View(BarsAt(plans[i].asOf)))
  BY DEF LevelsAreCandidates
<1>3. ASSUME Typed, LevelsAreCandidates, [LensNext]_vars PROVE LevelsAreCandidates'
  <2>1. \A t : BarsAt(t)' = BarsAt(t)
    <3>1. tape' = tape
      <4>1. ASSUME NEW c \in Clients, NEW picks \in Answers, Store(c, picks) PROVE tape' = tape
        BY <1>3, <4>1, StoredRow
      <4> QED
        BY <1>3, <4>1, LensSteps DEF Typed, Quiet, Ask, Gather, Drop, Speak
    <3> QED
      BY <3>1 DEF BarsAt, Bar, Session
  <2>2. LevelsAreCandidates' <=> \A i \in DOMAIN plans' : Real(plans'[i].levels, View(BarsAt(plans'[i].asOf)))
    BY <2>1 DEF LevelsAreCandidates
  <2> HIDE DEF Real
  <2>3. CASE plans' = plans
    BY <1>2, <1>3, <2>2, <2>3
  <2>4. ASSUME NEW c \in Clients, NEW picks \in Answers, Store(c, picks) PROVE LevelsAreCandidates'
    <3> DEFINE n == Len(plans) + 1
    <3>1. /\ \A i \in DOMAIN plans' : i \in DOMAIN plans \/ i = n
          /\ \A i \in DOMAIN plans : plans'[i] = plans[i]
          /\ plans'[n].asOf = request[c].asOf
      BY <1>3, <2>4, StoredRow
    <3>2. /\ Resolvable(View(BarsAt(request[c].asOf)))
          /\ plans'[n].levels = Resolve(picks, View(BarsAt(request[c].asOf)))
      BY <1>3, <2>4, StoredRow
    <3>3. Real(plans'[n].levels, View(BarsAt(plans'[n].asOf)))
      BY <3>1, <3>2, ResolvedLevels DEF Real
    <3>4. \A i \in DOMAIN plans' : Real(plans'[i].levels, View(BarsAt(plans'[i].asOf)))
      BY <1>2, <1>3, <3>1, <3>3
    <3> QED
      BY <2>2, <3>4
  <2> QED
    BY <1>3, <2>3, <2>4, LensSteps DEF Typed, Quiet, Ask, Gather, Drop, Speak
<1> QED
  BY <1>1, <1>3, TypedAlways, PTL DEF LensSpec

-----------------------------------------------------------------------------
(***************************************************************************)
(* The session whose close is known at t.                                  *)
(***************************************************************************)
LEMMA TheAnchor ==
  ASSUME NEW t \in Nat
  PROVE  /\ Anchor(t) \in Nat
         /\ Anchor(t) > 0 => Anchor(t) \in Calendar /\ CloseAt(Anchor(t)) <= t
         /\ \A s \in Calendar : CloseAt(s) <= t => s <= Anchor(t)
<1> DEFINE S == {0} \cup {s \in Calendar : CloseAt(s) <= t}
<1>1. Calendar = 1..Len(Benchmark) /\ Len(Benchmark) \in Nat
  BY LensAssumption DEF Calendar
<1>2. S \in SUBSET Nat /\ S # {} /\ \A s \in S : s <= t
  BY <1>1 DEF CloseAt
<1> HIDE DEF S
<1>3. Max(S) \in S /\ \A s \in S : s <= Max(S)
  BY <1>2, MaxOfNaturals
<1>4. Anchor(t) = Max(S)
  BY DEF Anchor, S
<1>5. Max(S) > 0 => Max(S) \in Calendar /\ CloseAt(Max(S)) <= t
  BY <1>3 DEF S
<1> QED
  BY <1>2, <1>3, <1>4, <1>5 DEF S

\* Outcomes are filed under an as_of and a horizon, and name sessions.
OutcomesOK ==
  \A p \in DOMAIN outcomes :
    /\ p[1][1] \in Nat /\ p[2] \in Nat
    /\ outcomes[p].entry \in Nat /\ outcomes[p].exit \in Nat

(***************************************************************************)
(* An exit that can be computed lies after the anchor of its snapshot,     *)
(* within the horizon and among the closes that are known.                 *)
(***************************************************************************)
LEMMA ExitIsWithinTheHorizon ==
  ASSUME now \in Nat, NEW asOf \in Nat, NEW n \in Nat \ {0}, NEW shown \in Int,
         ExitOf(asOf, n, shown) # {}
  PROVE  LET entry == Anchor(asOf)
             exit == Only(ExitOf(asOf, n, shown))
         IN /\ entry \in Nat /\ exit \in Nat
            /\ CloseAt(entry) <= asOf /\ asOf < CloseAt(entry + 1)
            /\ entry < exit /\ exit <= entry + n /\ CloseAt(exit) <= now
<1> DEFINE entry == Anchor(asOf)
           end == entry + n
           exit == Min({end, shown})
<1>1. /\ entry \in Nat
      /\ entry > 0 => entry \in Calendar /\ CloseAt(entry) <= asOf
      /\ \A s \in Calendar : CloseAt(s) <= asOf => s <= entry
  BY TheAnchor
<1> HIDE DEF entry
<1>2. /\ entry > 0 /\ end \in Calendar /\ CloseAt(end) <= now /\ shown > entry
      /\ ExitOf(asOf, n, shown) = {exit}
  BY DEF ExitOf, entry
<1>3. Only(ExitOf(asOf, n, shown)) = exit
  <2> HIDE DEF exit
  <2> QED
    BY <1>2 DEF Only
<1>4. exit \in {end, shown} /\ exit <= end /\ exit <= shown
  <2>1. end \in Int /\ shown \in Int
    BY <1>1
  <2> HIDE DEF end
  <2> QED
    BY <2>1, MaxOfTwo
<1>5. end \in Nat /\ entry < end /\ entry + 1 \in Calendar /\ exit \in Nat
  <2>1. Calendar = 1..Len(Benchmark) /\ Len(Benchmark) \in Nat
    BY LensAssumption DEF Calendar
  <2> HIDE DEF exit
  <2> QED
    BY <1>1, <1>2, <1>4, <2>1
<1>6. asOf < CloseAt(entry + 1)
  <2>1. ~ CloseAt(entry + 1) <= asOf
    BY <1>1, <1>5
  <2> QED
    BY <1>1, <2>1 DEF CloseAt
<1>7. entry < exit /\ exit <= entry + n /\ CloseAt(exit) <= now
  <2> HIDE DEF exit
  <2> QED
    BY <1>1, <1>2, <1>4, <1>5 DEF CloseAt
<1> QED
  BY <1>1, <1>2, <1>3, <1>5, <1>6, <1>7 DEF entry

OutcomeInv == OutcomesOK /\ OutcomesSpanTheirHorizon

(***************************************************************************)
(* Scoring adds such outcomes only, and never rewrites one.                *)
(***************************************************************************)
LEMMA OutcomeStep == Typed /\ OutcomeInv /\ [LensNext]_vars => OutcomeInv'
<1> SUFFICES ASSUME Typed, OutcomeInv, [LensNext]_vars PROVE OutcomeInv'
  OBVIOUS
<1>1. now \in Nat /\ now' \in Nat /\ now <= now' /\ tape \in Tape
  BY NowAdvances DEF Typed, TypeOK
<1> DEFINE Spans(p, o, t) ==
             /\ CloseAt(o.entry) <= p[1][1] /\ p[1][1] < CloseAt(o.entry + 1)
             /\ o.entry < o.exit /\ o.exit <= o.entry + p[2] /\ CloseAt(o.exit) <= t
           Good(p, o, t) == /\ p[1][1] \in Nat /\ p[2] \in Nat /\ o.entry \in Nat /\ o.exit \in Nat
                            /\ Spans(p, o, t)
<1>2. OutcomeInv <=> \A p \in DOMAIN outcomes : Good(p, outcomes[p], now)
  BY DEF OutcomeInv, OutcomesOK, OutcomesSpanTheirHorizon
<1>3. OutcomeInv' <=> \A p \in DOMAIN outcomes' : Good(p, outcomes'[p], now')
  BY DEF OutcomeInv, OutcomesOK, OutcomesSpanTheirHorizon
<1>4. \A p, o : Good(p, o, now) => Good(p, o, now')
  BY <1>1 DEF CloseAt
<1> HIDE DEF Good
<1>5. CASE outcomes' = outcomes
  BY <1>2, <1>3, <1>4, <1>5
<1>6. ASSUME NEW lag \in {0, 1}, Score(Anchor(now) - lag) PROVE OutcomeInv'
  <2> DEFINE shown == Anchor(now) - lag
  <2>1. shown \in Int
    BY <1>1, TheAnchor
  <2> HIDE DEF shown
  <2>2. Listed(shown) \in Int
    <3>1. Len(tape.closes) \in Int
      BY <1>1 DEF Tape
    <3> QED
      BY <2>1, <3>1, MaxOfTwo DEF Listed
  <2>3. \A p \in Due(shown) : Good(p, Outcome(p[1], p[2], shown), now)
    <3> SUFFICES ASSUME NEW p \in Due(shown) PROVE Good(p, Outcome(p[1], p[2], shown), now)
      OBVIOUS
    <3>1. /\ p[1] \in DOMAIN snapshots /\ p[2] \in Nat \ {0}
          /\ ExitOf(p[1][1], p[2], Listed(shown)) # {}
      BY LensAssumption DEF Due
    <3>2. p[1][1] \in Nat
      BY <3>1 DEF Typed, TypeOK
    <3> DEFINE o == Outcome(p[1], p[2], shown)
               entry == Anchor(p[1][1])
               exit == Only(ExitOf(p[1][1], p[2], Listed(shown)))
    <3>3. o.entry = entry /\ o.exit = exit
      BY DEF Outcome
    <3>4. /\ entry \in Nat /\ exit \in Nat
          /\ CloseAt(entry) <= p[1][1] /\ p[1][1] < CloseAt(entry + 1)
          /\ entry < exit /\ exit <= entry + p[2] /\ CloseAt(exit) <= now
      BY <1>1, <2>2, <3>1, <3>2, ExitIsWithinTheHorizon
    <3> HIDE DEF o, entry, exit
    <3>5. Good(p, o, now)
      BY <3>1, <3>2, <3>3, <3>4 DEF Good
    <3> QED
      BY <3>5 DEF o
  <2>4. outcomes' = [p \in DOMAIN outcomes \cup Due(shown) |->
                      IF p \in Due(shown) THEN Outcome(p[1], p[2], shown) ELSE outcomes[p]]
    BY <1>6 DEF Score, shown
  <2> QED
    BY <1>2, <1>3, <1>4, <2>3, <2>4
<1>7. outcomes' = outcomes \/ \E lag \in {0, 1} : Score(Anchor(now) - lag)
  BY DEF LensNext, vars
<1> QED
  BY <1>5, <1>6, <1>7

(***************************************************************************)
(* An outcome spans the horizon it is filed under, from the close known    *)
(* when the lens spoke, and uses no close that had not happened when it    *)
(* was scored (LensScoring!OutcomesSpanTheirHorizon; lens_outcomes.py).    *)
(***************************************************************************)
THEOREM OutcomesSpan == LensSpec => []OutcomesSpanTheirHorizon
<1>1. LensInit => OutcomeInv
  BY DEF LensInit, OutcomeInv, OutcomesOK, OutcomesSpanTheirHorizon
<1>2. OutcomeInv => OutcomesSpanTheirHorizon
  BY DEF OutcomeInv
<1> QED
  BY <1>1, <1>2, TypedAlways, OutcomeStep, PTL DEF LensSpec

-----------------------------------------------------------------------------
Active(c) == scans[c].pc # "idle"

\* What a scan has flushed is what it has found so far, or nothing.
Faithful(s) == /\ s.persist /\ ~ s.broken => s.written = OkRows(s)
               /\ ~ s.persist \/ s.broken => s.written = {}

\* Scans under way have ids of their own, which no result and no stored row carries yet.
ScansOK ==
  /\ DOMAIN scans = Scanners /\ started \in Nat
  /\ \A c \in Scanners : DOMAIN scans[c] = DOMAIN NoScan
  /\ \A c \in Scanners : Active(c) =>
       /\ scans[c].id \in 1..started /\ Faithful(scans[c])
       /\ \A d \in Scanners : d # c /\ Active(d) => scans[d].id # scans[c].id
       /\ \A r \in results : r.id # scans[c].id
       /\ \A s \in history : s.scan # scans[c].id
  /\ \A r \in results : r.id \in 1..started
  /\ \A s \in history : s.scan \in 1..started

\* What a step of a scan under way does to it.
Work(c) ==
  /\ Active(c) /\ DOMAIN scans' = Scanners /\ DOMAIN scans'[c] = DOMAIN NoScan
  /\ scans'[c].pc = scans[c].pc /\ scans'[c].id = scans[c].id /\ Faithful(scans'[c])
  /\ \A d \in Scanners \ {c} : scans'[d] = scans[d]
  /\ UNCHANGED <<started, history, results>>

(***************************************************************************)
(* Looking at a ticker, a failed write and an exception inside a scan      *)
(* change that scan only, and keep what it flushed equal to what it found, *)
(* or empty once its session broke.                                        *)
(***************************************************************************)
LEMMA RowsOfWork ==
  ASSUME ScansOK, NEW c \in Scanners, NEW t \in Tickers,
         Look(c, t) \/ PersistFails(c, t) \/ Raise(c, t)
  PROVE  Work(c)
<1> DEFINE s == scans[c]
<1>1. /\ DOMAIN scans = Scanners /\ Active(c) /\ Faithful(s)
      /\ {"pc", "id", "persist", "todo", "rows", "written", "broken"} = DOMAIN s
  BY DEF ScansOK, Active, Look, PersistFails, Raise, At, NoScan
<1>2. ASSUME NEW row, ~ row.error, Look(c, t),
             scans' = [scans EXCEPT ![c].todo = @ \ {t}, ![c].rows = @ \cup {row},
                              ![c].written = IF scans[c].persist THEN @ \cup {row} ELSE @]
      PROVE  Work(c)
  <2>1. ~ s.broken
    BY <1>2 DEF Look
  <2>2. /\ scans'[c].pc = s.pc /\ scans'[c].id = s.id /\ scans'[c].persist = s.persist
        /\ scans'[c].broken = s.broken /\ scans'[c].rows = s.rows \cup {row}
        /\ scans'[c].written = IF s.persist THEN s.written \cup {row} ELSE s.written
        /\ DOMAIN scans'[c] = DOMAIN s /\ DOMAIN scans' = Scanners
        /\ \A d \in Scanners \ {c} : scans'[d] = scans[d]
    BY <1>1, <1>2
  <2>3. Faithful(scans'[c])
    <3>1. OkRows(scans'[c]) = OkRows(s) \cup {row}
      BY <1>2, <2>2 DEF OkRows
    <3> QED
      BY <1>1, <2>1, <2>2, <3>1 DEF Faithful
  <2> QED
    BY <1>1, <1>2, <2>2, <2>3 DEF Work, Look, NoScan
<1>3. ASSUME NEW row, PersistFails(c, t),
             scans' = [scans EXCEPT ![c].todo = @ \ {t}, ![c].rows = @ \cup {row},
                              ![c].written = {}, ![c].broken = TRUE]
      PROVE  Work(c)
  <2>1. /\ scans'[c].pc = s.pc /\ scans'[c].id = s.id
        /\ scans'[c].broken = TRUE /\ scans'[c].written = {}
        /\ DOMAIN scans'[c] = DOMAIN s /\ DOMAIN scans' = Scanners
        /\ \A d \in Scanners \ {c} : scans'[d] = scans[d]
    BY <1>1, <1>3
  <2>2. Faithful(scans'[c])
    BY <2>1 DEF Faithful
  <2> QED
    BY <1>1, <1>3, <2>1, <2>2 DEF Work, PersistFails, NoScan
<1>4. ASSUME Raise(c, t) PROVE Work(c)
  <2>1. scans' = [scans EXCEPT ![c].todo = @ \ {t}, ![c].rows = @ \cup {ErrorRow(t)}]
    BY <1>4 DEF Raise
  <2>2. /\ scans'[c].pc = s.pc /\ scans'[c].id = s.id /\ scans'[c].persist = s.persist
        /\ scans'[c].broken = s.broken /\ scans'[c].rows = s.rows \cup {ErrorRow(t)}
        /\ scans'[c].written = s.written
        /\ DOMAIN scans'[c] = DOMAIN s /\ DOMAIN scans' = Scanners
        /\ \A d \in Scanners \ {c} : scans'[d] = scans[d]
    <3> HIDE DEF ErrorRow
    <3> QED
      BY <1>1, <2>1
  <2>3. Faithful(scans'[c])
    <3>1. OkRows(scans'[c]) = OkRows(s)
      <4>1. ErrorRow(t).error
        BY DEF ErrorRow
      <4> QED
        BY <2>2, <4>1 DEF OkRows
    <3> QED
      BY <1>1, <2>2, <3>1 DEF Faithful
  <2> QED
    BY <1>1, <1>4, <2>2, <2>3 DEF Work, Raise, NoScan
<1>5. \A view : ~ Row(t, view).error
  BY DEF Row
<1>6. CASE Look(c, t)
  BY <1>2, <1>5, <1>6 DEF Look
<1>7. CASE PersistFails(c, t)
  BY <1>3, <1>7 DEF PersistFails
<1> QED
  BY <1>4, <1>6, <1>7

(***************************************************************************)
(* What the end of a scan stores is what it flushed.                       *)
(***************************************************************************)
LEMMA EndOfAScan ==
  ASSUME ScansOK, NEW c \in Scanners, Finish(c) \/ Die(c)
  PROVE  /\ Active(c) /\ DOMAIN scans' = Scanners /\ started' = started
         /\ \A d \in Scanners : scans'[d] = IF d = c THEN NoScan ELSE scans[d]
         /\ \A s \in history' : s \in history \/ s.scan = scans[c].id
         /\ \A r \in results' : r \in results \/ r.id = scans[c].id
<1>1. DOMAIN scans = Scanners /\ scans' = [scans EXCEPT ![c] = NoScan] /\ started' = started
      /\ Active(c)
  BY DEF ScansOK, Finish, Die, Active
<1>2. \A s \in Stored(scans[c]) : s.scan = scans[c].id
  BY DEF Stored
<1>3. \A s \in history' : s \in history \/ s \in Stored(scans[c])
  BY DEF Finish, Die
<1>4. \A r \in results' : r \in results \/ r.id = scans[c].id
  <2>1. CASE Die(c)
    BY <2>1 DEF Die
  <2>2. CASE Finish(c)
    <3> DEFINE r == [id |-> scans[c].id, persist |-> scans[c].persist, rows |-> scans[c].rows]
    <3>1. results' \subseteq results \cup {r}
      BY <2>2 DEF Finish
    <3>2. r.id = scans[c].id
      OBVIOUS
    <3> QED
      BY <3>1, <3>2
  <2> QED
    BY <2>1, <2>2
<1> QED
  BY <1>1, <1>2, <1>3, <1>4

ScanInv == ScansOK /\ StoredScansAreWhole

(***************************************************************************)
(* So every step keeps the scans whole.                                    *)
(***************************************************************************)
LEMMA ScanStep == ScanInv /\ [ScanNext]_scanVars => ScanInv'
<1> SUFFICES ASSUME ScanInv, [ScanNext]_scanVars PROVE ScanInv'
  OBVIOUS
<1> USE DEF ScanInv
<1>1. CASE UNCHANGED <<scans, started, history, results>>
  BY <1>1 DEF ScansOK, Active, StoredScansAreWhole, StoredBy
<1>2. ASSUME UNCHANGED <<history, results>> PROVE StoredScansAreWhole'
  BY <1>2 DEF StoredScansAreWhole, StoredBy
<1>3. ASSUME NEW c \in Scanners, NEW tickers, NEW persist, Start(c, tickers, persist)
      PROVE  ScanInv'
  <2> DEFINE s == [NoScan EXCEPT !.pc = "scan", !.id = started + 1, !.persist = persist,
                                 !.todo = tickers]
  <2>1. /\ scans' = [scans EXCEPT ![c] = s] /\ started' = started + 1
        /\ UNCHANGED <<history, results>>
    BY <1>3 DEF Start
  <2>2. s.id = started + 1 /\ DOMAIN s = DOMAIN NoScan /\ s.rows = {} /\ s.written = {}
    BY DEF NoScan
  <2> HIDE DEF s
  <2>3. Faithful(s)
    BY <2>2 DEF Faithful, OkRows
  <2>4. ScansOK'
    BY <2>1, <2>2, <2>3 DEF ScansOK, Active
  <2> QED
    BY <1>2, <2>1, <2>4
<1>4. ASSUME NEW c \in Scanners, Work(c) PROVE ScanInv'
  BY <1>2, <1>4 DEF Work, ScansOK, Active
<1>5. ASSUME NEW c \in Scanners, Finish(c) \/ Die(c) PROVE ScanInv'
  <2>0. PICK id : id = scans[c].id
    OBVIOUS
  <2>1. /\ Active(c) /\ DOMAIN scans' = Scanners /\ started' = started
        /\ \A d \in Scanners : scans'[d] = IF d = c THEN NoScan ELSE scans[d]
        /\ \A s \in history' : s \in history \/ s.scan = id
        /\ \A r \in results' : r \in results \/ r.id = id
    BY <1>5, <2>0, EndOfAScan
  <2>2. /\ id \in 1..started
        /\ \A s \in history : s.scan # id
        /\ \A r \in results : r.id # id
        /\ \A d \in Scanners \ {c} : Active(d) => scans[d].id # id
    BY <2>0, <2>1 DEF ScansOK
  <2>3. ScansOK'
    <3>1. \A d \in Scanners : Active(d)' => d # c /\ scans'[d] = scans[d] /\ Active(d)
      BY <2>1 DEF Active, NoScan
    <3>2. \A d \in Scanners : DOMAIN scans'[d] = DOMAIN NoScan
      BY <2>1 DEF ScansOK
    <3>3. \A r \in results' : r.id \in 1..started
      BY <2>1, <2>2 DEF ScansOK
    <3>4. \A s \in history' : s.scan \in 1..started
      BY <2>1, <2>2 DEF ScansOK
    <3>5. started \in Nat
      BY DEF ScansOK
    <3>6. \A d \in Scanners : Active(d)' =>
            /\ scans'[d].id \in 1..started /\ Faithful(scans'[d])
            /\ \A e \in Scanners : e # d /\ Active(e)' => scans'[e].id # scans'[d].id
            /\ \A r \in results' : r.id # scans'[d].id
            /\ \A s \in history' : s.scan # scans'[d].id
      <4> HIDE DEF Active
      <4> QED
        BY <2>1, <2>2, <3>1 DEF ScansOK
    <3> QED
      BY <2>1, <3>2, <3>3, <3>4, <3>5, <3>6 DEF ScansOK
  <2>4. StoredScansAreWhole'
    <3>1. CASE Die(c)
      BY <1>2, <3>1 DEF Die
    <3>2. CASE Finish(c)
      <4> DEFINE new == IF c \in Commands THEN Stored(scans[c]) ELSE {}
                 result == [id |-> id, persist |-> scans[c].persist, rows |-> scans[c].rows]
      <4>1. history' = history \cup new /\ results \subseteq results'
        BY <2>0, <3>2 DEF Finish
      <4>2. \A x \in new : x.scan = id /\ x.row \in scans[c].written
        BY <2>0 DEF Stored
      <4>3. new = {} \/ (c \in Commands /\ Stored(scans[c]) # {})
        OBVIOUS
      <4>4. ASSUME NEW k \in {s.scan : s \in history}
            PROVE  \E r \in results' : r.id = k /\ StoredBy(k)' = OkRows(r)
        <5>1. k # id
          BY <2>2
        <5>2. StoredBy(k)' = StoredBy(k)
          <6> HIDE DEF new
          <6> QED
            BY <4>1, <4>2, <5>1 DEF StoredBy
        <5>3. PICK r \in results : r.id = k /\ StoredBy(k) = OkRows(r)
          BY <4>4 DEF StoredScansAreWhole
        <5> QED
          BY <4>1, <5>2, <5>3
      <4>5. ASSUME new # {}
            PROVE  \E r \in results' : r.id = id /\ StoredBy(id)' = OkRows(r)
        <5>1. c \in Commands /\ scans[c].written # {} /\ new = Stored(scans[c])
          BY <4>5 DEF Stored
        <5>2. ~ scans[c].broken /\ scans[c].written = OkRows(scans[c])
          BY <2>1, <5>1 DEF ScansOK, Faithful
        <5>3. result \in results'
          BY <2>0, <3>2, <5>2 DEF Finish
        <5>4. result.id = id /\ OkRows(result) = scans[c].written
          BY <5>2 DEF OkRows
        <5>5. StoredBy(id)' = scans[c].written
          <6>1. {x \in history' : x.scan = id} = new
            <7> HIDE DEF new
            <7> QED
              BY <2>2, <4>1, <4>2
          <6>2. {x.row : x \in Stored(scans[c])} = scans[c].written
            <7>1. \A x \in Stored(scans[c]) : x.row \in scans[c].written
              BY DEF Stored
            <7>2. \A row \in scans[c].written : \E x \in Stored(scans[c]) : x.row = row
              <8> SUFFICES ASSUME NEW row \in scans[c].written
                           PROVE  \E x \in Stored(scans[c]) : x.row = row
                OBVIOUS
              <8>1. [scan |-> scans[c].id, row |-> row] \in Stored(scans[c])
                BY DEF Stored
              <8>2. [scan |-> scans[c].id, row |-> row].row = row
                OBVIOUS
              <8> QED
                BY <8>1, <8>2
            <7> QED
              BY <7>1, <7>2
          <6>3. StoredBy(id)' = {x.row : x \in {y \in history' : y.scan = id}}
            BY DEF StoredBy
          <6> HIDE DEF new
          <6> QED
            BY <5>1, <6>1, <6>2, <6>3
        <5> QED
          BY <5>3, <5>4, <5>5
      <4>6. \A k \in {s.scan : s \in history'} : k \in {s.scan : s \in history} \/ (k = id /\ new # {})
        <5> HIDE DEF new
        <5> QED
          BY <4>1, <4>2
      <4> HIDE DEF new
      <4>7. \A k \in {s.scan : s \in history'} :
              \E r \in results' : r.id = k /\ StoredBy(k)' = OkRows(r)
        BY <4>4, <4>5, <4>6
      <4> QED
        BY <4>7 DEF StoredScansAreWhole
    <3> QED
      BY <1>5, <3>1, <3>2
  <2> QED
    BY <2>3, <2>4
<1>6. ASSUME NEW t \in Tickers, NEW rate \in Rates, Trade(t, rate) PROVE ScanInv'
  BY <1>1, <1>6 DEF Trade
<1>7. CASE UNCHANGED scanVars
  BY <1>1, <1>7 DEF scanVars
<1>8. CASE ScanNext
  BY <1>3, <1>4, <1>5, <1>6, <1>8, RowsOfWork DEF ScanNext
<1> QED
  BY <1>7, <1>8

(***************************************************************************)
(* A scan leaves either a row for each ticker it reports or none: a failed *)
(* write never leaves half a scan in the history                           *)
(* (Scan!StoredScansAreWhole; scan.py).                                    *)
(***************************************************************************)
THEOREM ScansAreWhole == ScanSpec => []StoredScansAreWhole
<1>1. ScanInit => ScanInv
  BY DEF ScanInit, ScanInv, ScansOK, Active, NoScan, StoredScansAreWhole
<1>2. ScanInv => StoredScansAreWhole
  BY DEF ScanInv
<1> QED
  BY <1>1, <1>2, ScanStep, PTL DEF ScanSpec

-----------------------------------------------------------------------------
(***************************************************************************)
(* A cascade whose last rule holds ends in its first rule that does.       *)
(***************************************************************************)
LEMMA FirstIs ==
  ASSUME NEW rules, NEW n \in Nat, DOMAIN rules = 1..n, rules[n].holds, n >= 1
  PROVE  \E k \in 1..n : /\ rules[k].holds /\ First(rules) = rules[k].says
                         /\ \A j \in 1..(k - 1) : ~ rules[j].holds
<1> DEFINE S == {i \in 1..n : rules[i].holds}
<1>1. S \in SUBSET Nat /\ S # {}
  OBVIOUS
<1>2. PICK m \in S : \A t \in S : m <= t
  BY <1>1, LeastNatural
<1>3. Min(S) \in S /\ \A t \in S : Min(S) <= t
  BY <1>2 DEF Min
<1>4. First(rules) = rules[Min(S)].says
  BY DEF First
<1> HIDE DEF S
<1>5. \A j \in 1..(Min(S) - 1) : j \notin S /\ j \in 1..n
  BY <1>1, <1>3 DEF S
<1> QED
  BY <1>3, <1>4, <1>5 DEF S

(***************************************************************************)
(* A constructive setup is liquid, not wild, and not both rising and       *)
(* extended: the rules that refuse come first.                             *)
(***************************************************************************)
LEMMA SetupIsEarned ==
  ASSUME NEW p, Setup(p) \in Constructive
  PROVE  p.liquid /\ ~ Wild(p) /\ ~ (Rising(p) /\ Extended(p))
<1> DEFINE rules == <<Rule(p.offLong = {}, "insufficient_data"),
                      Rule(~ p.liquid, "low_liquidity"),
                      Rule(Wild(p), "high_volatility_unstable"),
                      Rule(Falling(p), "downtrend"),
                      Rule(Rising(p) /\ Extended(p), "extended_momentum"),
                      Rule(Rising(p) /\ Dipped(p), "uptrend_pullback"),
                      Rule(Rising(p) /\ Breaking(p), "breakout_candidate"),
                      Rule(Rising(p) /\ Above(p.slope, 50), "strong_uptrend"),
                      Rule(p.alignment \in {"mixed", "insufficient"} /\ Within(p.range, 0, 1000),
                           "range_bound"),
                      Rule(TRUE, "unclear")>>
<1>1. Setup(p) = First(rules)
  BY DEF Setup
<1>2. DOMAIN rules = 1..10
  OBVIOUS
<1>3. /\ rules[1].says = "insufficient_data" /\ rules[2].says = "low_liquidity"
      /\ rules[3].says = "high_volatility_unstable" /\ rules[4].says = "downtrend"
      /\ rules[5].says = "extended_momentum" /\ rules[9].says = "range_bound"
      /\ rules[10].says = "unclear"
  BY DEF Rule
<1>4. /\ rules[2].holds <=> ~ p.liquid
      /\ rules[3].holds <=> Wild(p)
      /\ rules[5].holds <=> Rising(p) /\ Extended(p)
      /\ rules[10].holds
  BY DEF Rule
<1> HIDE DEF rules
<1>5. ASSUME NEW n \in Nat, n = 10
      PROVE  \E k \in 1..n : /\ rules[k].holds /\ First(rules) = rules[k].says
                             /\ \A j \in 1..(k - 1) : ~ rules[j].holds
  <2>1. rules[n].holds /\ DOMAIN rules = 1..n /\ n >= 1
    BY <1>2, <1>4, <1>5
  <2> QED
    BY <2>1, FirstIs
<1>6. PICK k \in 1..10 : First(rules) = rules[k].says /\ \A j \in 1..(k - 1) : ~ rules[j].holds
  BY <1>5
<1>7. k \in {6, 7, 8}
  <2>1. k \in {1, 2, 3, 4, 5, 6, 7, 8, 9, 10}
    OBVIOUS
  <2> QED
    BY <1>1, <1>3, <1>6, <2>1 DEF Constructive
<1>8. ~ rules[2].holds /\ ~ rules[3].holds /\ ~ rules[5].holds
  BY <1>6, <1>7
<1> QED
  BY <1>4, <1>8

Statuses == [status : {"insufficient_data", "skip_for_now", "extended_risk", "wait_for_setup"},
             confidence : {"low", "medium"}]
            \cup [status : {"research_candidate"}, confidence : {"medium", "high"}]
            \cup [status : {"watch"}, confidence : {"low", "medium"}]

(***************************************************************************)
(* A research candidate has a constructive setup and both high-weight      *)
(* rules.                                                                  *)
(***************************************************************************)
LEMMA StatusIsEarned ==
  ASSUME NEW p, NEW setup
  PROVE  /\ StatusOf(p, setup) \in Statuses
         /\ StatusOf(p, setup).status = "research_candidate" =>
              setup \in Constructive /\ Cardinality(HighPassed(p)) = 2
<1> DEFINE as(status, confidence) == [status |-> status, confidence |-> confidence]
           built == setup \in Constructive
           high == Cardinality(HighPassed(p))
           medium == Cardinality(MediumPassed(p, setup))
           rules == <<Rule(setup = "insufficient_data", as("insufficient_data", "low")),
                      Rule(setup \in Refused, as("skip_for_now", "medium")),
                      Rule(setup = "extended_momentum", as("extended_risk", "medium")),
                      Rule(built /\ high = 2 /\ medium >= 1 /\ 3 \in Fits(p, setup),
                           as("research_candidate", IF medium >= 2 THEN "high" ELSE "medium")),
                      Rule(built /\ high >= 1, as("watch", "medium")),
                      Rule(setup = "range_bound", as("wait_for_setup", "medium")),
                      Rule(setup = "unclear", as("wait_for_setup", "low")),
                      Rule(TRUE, as("watch", "low"))>>
<1>1. StatusOf(p, setup) = First(rules)
  BY DEF StatusOf
<1> HIDE DEF built, high, medium
<1>2. DOMAIN rules = 1..8
  OBVIOUS
<1>3. /\ rules[1].says = as("insufficient_data", "low")
      /\ rules[2].says = as("skip_for_now", "medium")
      /\ rules[3].says = as("extended_risk", "medium")
      /\ rules[4].says \in {as("research_candidate", "high"), as("research_candidate", "medium")}
      /\ rules[5].says = as("watch", "medium")
      /\ rules[6].says = as("wait_for_setup", "medium")
      /\ rules[7].says = as("wait_for_setup", "low")
      /\ rules[8].says = as("watch", "low")
  BY DEF Rule
<1>4. rules[4].holds => built /\ high = 2
  BY DEF Rule
<1>5. rules[8].holds
  BY DEF Rule
<1>6. \A i \in {1, 2, 3, 4, 5, 6, 7, 8} :
        /\ rules[i].says \in Statuses
        /\ rules[i].says.status = "research_candidate" => i = 4
  <2> HIDE DEF rules
  <2>1. \A i \in {1, 2, 3, 5, 6, 7, 8} : /\ rules[i].says \in Statuses
                                         /\ rules[i].says.status # "research_candidate"
    BY <1>3 DEF Statuses
  <2>2. rules[4].says \in Statuses
    BY <1>3 DEF Statuses
  <2> QED
    BY <2>1, <2>2
<1> HIDE DEF rules
<1>7. ASSUME NEW n \in Nat, n = 8
      PROVE  \E k \in 1..n : /\ rules[k].holds /\ First(rules) = rules[k].says
                             /\ \A j \in 1..(k - 1) : ~ rules[j].holds
  <2>1. rules[n].holds /\ DOMAIN rules = 1..n /\ n >= 1
    BY <1>2, <1>5, <1>7
  <2> QED
    BY <2>1, FirstIs
<1>8. PICK k \in 1..8 : rules[k].holds /\ First(rules) = rules[k].says
  BY <1>7
<1>9. k \in {1, 2, 3, 4, 5, 6, 7, 8}
  OBVIOUS
<1> QED
  BY <1>1, <1>4, <1>6, <1>8, <1>9 DEF built, high

(***************************************************************************)
(* The rubric has a label for every status, and only a research candidate  *)
(* is a buy.                                                               *)
(***************************************************************************)
LEMMA LabelIsMeant ==
  ASSUME NEW status \in Statuses, NEW zone
  PROVE  /\ LabelOf(status, zone) # "HOLD"
         /\ LabelOf(status, zone) \in {"BUY", "ACCUMULATE"} => status.status = "research_candidate"
<1> DEFINE is(s, c) == status.status = s /\ status.confidence \in c
           rules == <<Rule(status.status = "insufficient_data", "N/A"),
                      Rule(status.status = "skip_for_now", "AVOID"),
                      Rule(status.status = "extended_risk", "REDUCE"),
                      Rule(is("research_candidate", {"high"}) /\ zone # {}, "BUY"),
                      Rule(is("research_candidate", {"high", "medium"}), "ACCUMULATE"),
                      Rule(is("watch", {"medium", "low"}) \/ status.status = "wait_for_setup", "WAIT"),
                      Rule(TRUE, "HOLD")>>
<1>1. LabelOf(status, zone) = First(rules)
  BY DEF LabelOf
<1>2. DOMAIN rules = 1..7
  OBVIOUS
<1>3. /\ rules[1].says = "N/A" /\ rules[2].says = "AVOID" /\ rules[3].says = "REDUCE"
      /\ rules[4].says = "BUY" /\ rules[5].says = "ACCUMULATE" /\ rules[6].says = "WAIT"
      /\ rules[7].says = "HOLD"
  BY DEF Rule
<1>4. /\ rules[1].holds <=> status.status = "insufficient_data"
      /\ rules[2].holds <=> status.status = "skip_for_now"
      /\ rules[3].holds <=> status.status = "extended_risk"
      /\ rules[4].holds <=> is("research_candidate", {"high"}) /\ zone # {}
      /\ rules[5].holds <=> is("research_candidate", {"high", "medium"})
      /\ rules[6].holds <=> is("watch", {"medium", "low"}) \/ status.status = "wait_for_setup"
      /\ rules[7].holds
  BY DEF Rule
<1> HIDE DEF rules
<1>5. \E i \in {1, 2, 3, 5, 6} : rules[i].holds
  BY <1>4 DEF Statuses
<1>6. ASSUME NEW n \in Nat, n = 7
      PROVE  \E k \in 1..n : /\ rules[k].holds /\ First(rules) = rules[k].says
                             /\ \A j \in 1..(k - 1) : ~ rules[j].holds
  <2>1. rules[n].holds /\ DOMAIN rules = 1..n /\ n >= 1
    BY <1>2, <1>4, <1>6
  <2> QED
    BY <2>1, FirstIs
<1>7. PICK k \in 1..7 : /\ rules[k].holds /\ First(rules) = rules[k].says
                        /\ \A j \in 1..(k - 1) : ~ rules[j].holds
  BY <1>6
<1>8. k # 7
  BY <1>5, <1>7
<1>9. k \in {1, 2, 3, 4, 5, 6}
  BY <1>8
<1>10. First(rules) # "HOLD" /\ (First(rules) \in {"BUY", "ACCUMULATE"} => k \in {4, 5})
  BY <1>3, <1>7, <1>9
<1> QED
  BY <1>1, <1>4, <1>7, <1>10

-----------------------------------------------------------------------------
(***************************************************************************)
(* Division rounds down.                                                   *)
(***************************************************************************)
LEMMA Quotients ==
  ASSUME NEW x \in Int, NEW d \in Nat \ {0}
  PROVE  x \div d \in Int /\ d * (x \div d) <= x /\ x < d * (x \div d) + d
OBVIOUS

Prices == Nat \ {0}
BarRows == [high : Int, low : Int, close : Prices]

(***************************************************************************)
(* The bars of a price history.                                            *)
(***************************************************************************)
LEMMA BarsOfCloses ==
  ASSUME NEW closes \in PriceHistories, closes # <<>>
  PROVE  Bars(closes) \in Seq(BarRows) /\ Len(Bars(closes)) >= 1
<1>1. PICK n \in 0..MaxBars : closes \in [1..n -> Prices]
  BY DEF PriceHistories, Prices
<1>2. n \in Nat /\ n >= 1 /\ DOMAIN closes = 1..n
  <2>1. n \in Nat
    BY ScanAssumption
  <2>2. n = 0 => closes = <<>>
    BY <1>1
  <2> QED
    BY <1>1, <2>1, <2>2
<1> DEFINE open(i) == closes[Max({1, i - 1})]
           bar(i) == [high |-> Max({open(i), closes[i]}), low |-> Min({open(i), closes[i]}),
                      close |-> closes[i]]
<1>3. ASSUME NEW i \in 1..n PROVE bar(i) \in BarRows
  <2>1. i - 1 \in Int /\ 1 \in Int
    BY <1>2
  <2>2. Max({1, i - 1}) \in {1, i - 1} /\ Max({1, i - 1}) >= 1
    BY ONLY <2>1, MaxOfTwo
  <2>3. Max({1, i - 1}) \in 1..n
    BY <1>2, <2>2
  <2>4. open(i) \in Int /\ closes[i] \in Int /\ closes[i] \in Prices
    BY <1>1, <2>3 DEF Prices
  <2> HIDE DEF open
  <2>5. Max({open(i), closes[i]}) \in Int /\ Min({open(i), closes[i]}) \in Int
    BY <2>4, MaxOfTwo
  <2> QED
    BY <2>4, <2>5 DEF BarRows
<1>4. Bars(closes) = [i \in 1..n |-> bar(i)]
  BY <1>2 DEF Bars
<1> HIDE DEF bar
<1>5. [i \in 1..n |-> bar(i)] \in Seq(BarRows) /\ Len([i \in 1..n |-> bar(i)]) = n
  BY <1>2, <1>3
<1> QED
  BY <1>2, <1>4, <1>5

(***************************************************************************)
(* The mean of prices is a price.                                          *)
(***************************************************************************)
LEMMA MeanIsANumber ==
  ASSUME NEW s \in Seq(Int), s # <<>>
  PROVE  Mean(s) \in Int /\ (s \in Seq(Prices) => Mean(s) \in Prices)
<1>1. Len(s) \in Nat \ {0} /\ \A i \in 1..Len(s) : s[i] \in Int
  OBVIOUS
<1>2. Total(s) \in Int /\ ((\A i \in 1..Len(s) : s[i] >= 1) => Total(s) >= Len(s))
  BY TotalIsANumber
<1>3. Mean(s) \in Int
  BY <1>1, <1>2 DEF Mean
<1>4. ASSUME s \in Seq(Prices) PROVE Mean(s) \in Prices
  <2>1. \A i \in 1..Len(s) : s[i] \in Prices
    BY <1>4
  <2>2. Total(s) >= Len(s)
    BY <1>2, <2>1 DEF Prices
  <2>3. Total(s) \div Len(s) >= 1
    BY <1>1, <1>2, <2>2
  <2> QED
    BY <1>3, <2>3 DEF Mean, Prices
<1> QED
  BY <1>3, <1>4

(***************************************************************************)
(* The last n elements of a sequence that has as many.                     *)
(***************************************************************************)
LEMMA LatestOf ==
  ASSUME NEW S, NEW s \in Seq(S), NEW n \in Nat \ {0}, Len(s) >= n
  PROVE  Latest(s, n) \in Seq(S) /\ Latest(s, n) # <<>>
<1> DEFINE from == Len(s) - n + 1
<1>1. Len(s) \in Nat /\ from \in Int /\ 1 <= from /\ from <= Len(s)
  OBVIOUS
<1>2. Max({1, from}) = from
  <2>1. 1 \in Int /\ from \in Int /\ 1 <= from
    BY <1>1
  <2> HIDE DEF from
  <2>2. Max({1, from}) \in {1, from} /\ Max({1, from}) >= from
    BY ONLY <2>1, MaxOfTwo
  <2> QED
    BY <2>1, <2>2
<1>3. Latest(s, n) = SubSeq(s, from, Len(s))
  BY <1>2 DEF Latest
<1> HIDE DEF from
<1>4. SubSeq(s, from, Len(s)) \in Seq(S)
  BY <1>1
<1>5. Len(SubSeq(s, from, Len(s))) = Len(s) - from + 1
  BY <1>1
<1>6. SubSeq(s, from, Len(s)) # <<>>
  <2> DEFINE tail == SubSeq(s, from, Len(s))
  <2>1. Len(tail) >= 1 /\ Len(tail) \in Int
    BY <1>1, <1>5
  <2> HIDE DEF tail
  <2>2. tail # <<>>
    BY ONLY <2>1
  <2> QED
    BY <2>2 DEF tail
<1> QED
  BY <1>3, <1>4, <1>6

(***************************************************************************)
(* The closes of bars.                                                     *)
(***************************************************************************)
LEMMA ClosesOfBars ==
  ASSUME NEW bars \in Seq(BarRows)
  PROVE  /\ Closes(bars) \in Seq(Prices) /\ Len(Closes(bars)) = Len(bars)
         /\ \A i \in 1..Len(bars) : bars[i].close \in Prices /\ Closes(bars)[i] = bars[i].close
<1>1. Len(bars) \in Nat /\ DOMAIN bars = 1..Len(bars)
  OBVIOUS
<1>2. \A i \in 1..Len(bars) : bars[i].close \in Prices
  <2>1. \A i \in 1..Len(bars) : bars[i] \in BarRows
    BY <1>1
  <2> QED
    BY <2>1 DEF BarRows
<1>3. Closes(bars) = [i \in 1..Len(bars) |-> bars[i].close]
  BY <1>1 DEF Closes
<1> QED
  BY <1>1, <1>2, <1>3

(***************************************************************************)
(* A moving average is a price.                                            *)
(***************************************************************************)
LEMMA SmaIsAPrice ==
  ASSUME NEW bars \in Seq(BarRows), NEW m \in Sma(bars)
  PROVE  m \in Prices /\ Sma(bars) = {m}
<1> DEFINE s == Latest(Closes(bars), SmaBars)
<1>1. Len(bars) \in Nat /\ SmaBars \in Nat \ {0}
  BY BarsAssumption
<1>2. ~ Len(bars) < SmaBars /\ Sma(bars) = {Mean(s)} /\ m = Mean(s)
  BY DEF Sma
<1>3. s \in Seq(Prices) /\ s # <<>>
  BY <1>1, <1>2, ClosesOfBars, LatestOf
<1>4. s \in Seq(Int)
  <2> HIDE DEF s
  <2> QED
    BY <1>3 DEF Prices
<1> HIDE DEF s
<1> QED
  BY <1>2, <1>3, <1>4, MeanIsANumber

(***************************************************************************)
(* An average true range is an integer.                                    *)
(***************************************************************************)
LEMMA AtrIsANumber ==
  ASSUME NEW bars \in Seq(BarRows), NEW a \in Atr(bars)
  PROVE  a \in Int
<1> DEFINE s == [k \in 1..AtrBars |-> TrueRange(bars, Len(bars) - AtrBars + k)]
<1>1. Len(bars) \in Nat /\ AtrBars \in Nat \ {0}
  BY BarsAssumption
<1>2. ~ Len(bars) < AtrBars + 1 /\ a = Mean(s)
  BY DEF Atr
<1>3. ASSUME NEW i \in 2..Len(bars) PROVE TrueRange(bars, i) \in Int
  <2>1. bars[i] \in BarRows /\ bars[i - 1] \in BarRows
    <3>1. i \in 1..Len(bars) /\ i - 1 \in 1..Len(bars)
      BY <1>1
    <3> QED
      BY <3>1
  <2>2. bars[i].high \in Int /\ bars[i].low \in Int /\ bars[i - 1].close \in Int
    BY <2>1 DEF BarRows, Prices
  <2>3. Max({bars[i].high, bars[i - 1].close}) \in Int /\ Min({bars[i].low, bars[i - 1].close}) \in Int
    BY <2>2, MaxOfTwo
  <2> QED
    BY <2>3 DEF TrueRange
<1>4. \A k \in 1..AtrBars : Len(bars) - AtrBars + k \in 2..Len(bars)
  BY <1>1, <1>2
<1>5. \A k \in 1..AtrBars : TrueRange(bars, Len(bars) - AtrBars + k) \in Int
  BY <1>3, <1>4
<1>6. s \in Seq(Int) /\ s # <<>>
  BY <1>1, <1>5
<1> HIDE DEF s
<1> QED
  BY <1>2, <1>6, MeanIsANumber

(***************************************************************************)
(* The variance of returns is an integer.                                  *)
(***************************************************************************)
LEMMA VarianceIsANumber ==
  ASSUME NEW bars \in Seq(BarRows), NEW variance \in Variance(bars)
  PROVE  variance \in Int
<1> DEFINE moves == Moves(bars, VolBars)
           returns == [k \in DOMAIN moves |->
                         Ratio(moves[k], bars[Len(bars) - VolBars + k - 1].close)]
           sum == Total(returns)
           square == [k \in DOMAIN returns |-> returns[k] * returns[k]]
           squares == Total(square)
<1>1. Len(bars) \in Nat /\ VolBars \in Nat /\ VolBars >= 2
  BY AnalysisAssumption
<1>2. /\ ~ Len(bars) < VolBars + 1
      /\ variance = (VolBars * squares - sum * sum) \div (VolBars * (VolBars - 1))
  BY DEF Variance
<1>3. \A k \in 1..VolBars : /\ Len(bars) - VolBars + k \in 1..Len(bars)
                            /\ Len(bars) - VolBars + k - 1 \in 1..Len(bars)
  BY <1>1, <1>2
<1>4. \A i \in 1..Len(bars) : bars[i].close \in Prices
  BY ClosesOfBars
<1>5. DOMAIN moves = 1..VolBars /\ \A k \in 1..VolBars : moves[k] \in Int
  <2>1. \A k \in 1..VolBars :
          moves[k] = bars[Len(bars) - VolBars + k].close - bars[Len(bars) - VolBars + k - 1].close
    BY DEF Moves
  <2>2. DOMAIN moves = 1..VolBars
    BY DEF Moves
  <2> HIDE DEF moves
  <2> QED
    BY <1>3, <1>4, <2>1, <2>2 DEF Prices
<1> HIDE DEF moves
<1>6. \A k \in 1..VolBars : Ratio(moves[k], bars[Len(bars) - VolBars + k - 1].close) \in Int
  <2> SUFFICES ASSUME NEW k \in 1..VolBars
               PROVE  Ratio(moves[k], bars[Len(bars) - VolBars + k - 1].close) \in Int
    OBVIOUS
  <2> DEFINE close == bars[Len(bars) - VolBars + k - 1].close
  <2>1. 10000 * moves[k] \in Int /\ close \in Nat \ {0}
    BY <1>3, <1>4, <1>5 DEF Prices
  <2> HIDE DEF close
  <2>2. (10000 * moves[k]) \div close \in Int
    BY ONLY <2>1, Quotients
  <2> QED
    BY <2>2 DEF Ratio, close
<1>7. /\ returns \in Seq(Int) /\ DOMAIN returns = 1..VolBars
      /\ \A k \in 1..VolBars : returns[k] \in Int
  BY <1>1, <1>5, <1>6
<1> HIDE DEF returns
<1>8. \A k \in 1..VolBars : returns[k] \in Int /\ returns[k] * returns[k] \in Int
  BY <1>7
<1>9. square \in Seq(Int)
  BY <1>1, <1>7, <1>8
<1> HIDE DEF square
<1>10. sum \in Int /\ squares \in Int
  BY <1>7, <1>9, TotalIsANumber
<1> HIDE DEF sum, squares
<1>11. VolBars * (VolBars - 1) \in Nat \ {0} /\ VolBars * squares - sum * sum \in Int
  BY <1>1, <1>10
<1> QED
  BY <1>2, <1>11, Quotients

(***************************************************************************)
(* When both high-weight rules pass, the averages are stacked up and the   *)
(* short one rises.                                                        *)
(***************************************************************************)
LEMMA BothHighRules ==
  ASSUME NEW p, Cardinality(HighPassed(p)) = 2
  PROVE  Rising(p) /\ Above(p.slope, 0)
<1> DEFINE S == HighPassed(p)
<1>1. /\ "alignment" \in S <=> Rising(p)
      /\ "slope" \in S <=> Above(p.slope, 0)
      /\ S \subseteq {"alignment", "slope"}
  BY DEF HighPassed
<1> HIDE DEF S
<1>2. ASSUME NEW rule, S \subseteq {rule} PROVE FALSE
  <2>1. IsFiniteSet({rule}) /\ Cardinality({rule}) = 1
    BY FS_Singleton
  <2>2. Cardinality(S) <= 1 /\ Cardinality(S) = 2
    BY <1>2, <2>1, FS_Subset DEF S
  <2> QED
    BY <2>2
<1>3. "alignment" \in S
  <2>1. "alignment" \notin S => S \subseteq {"slope"}
    BY <1>1
  <2> QED
    BY <1>2, <2>1
<1>4. "slope" \in S
  <2>1. "slope" \notin S => S \subseteq {"alignment"}
    BY <1>1
  <2> QED
    BY <1>2, <2>1
<1> QED
  BY <1>1, <1>3, <1>4

(***************************************************************************)
(* Stacked averages: the close is above the short one, and that above the  *)
(* long one.                                                               *)
(***************************************************************************)
LEMMA Stacked ==
  ASSUME NEW price, NEW sma, NEW long, Alignment(price, sma, long) = "bullish_stack"
  PROVE  Below(sma, price) /\ \E s \in sma : Below(long, s)
BY DEF Alignment

\* What a label promises of a price history.
Promised(closes, view, trades) ==
  LET bars == Bars(closes)
      close == bars[Len(bars)].close
  IN /\ view.label # "HOLD"
     /\ view.label \in {"BUY", "ACCUMULATE"} =>
          /\ trades
          /\ \E sma \in Sma(bars), long \in LongSma(bars) : close > sma /\ sma > long
          /\ \E slope \in SlopeOf(bars, SmaBars, SlopeBars) : slope > 0
          /\ \A atr \in Atr(bars) : 100 * atr < 9 * close
          /\ \A variance \in Variance(bars) : 252 * variance <= 8000 * 8000
          /\ ~ \E sma \in Sma(bars), rsi \in Rsi(bars) :
                 100 * close > 116 * sma /\ rsi > 7500

\* What the label that was given for it promises.
Earned(closes, bench, trades) ==
  Promised(closes, Concluded(Bars(closes), bench, trades), trades)

(***************************************************************************)
(* The panel, the setup, the status and the label of any price history,    *)
(* one after the other.                                                    *)
(***************************************************************************)
LEMMA BuyIsEarned ==
  ASSUME NEW closes \in PriceHistories, closes # <<>>, NEW bench, NEW trades \in BOOLEAN
  PROVE  Earned(closes, bench, trades)
<1> DEFINE bars == Bars(closes)
           view == Concluded(bars, bench, trades)
           close == bars[Len(bars)].close
           p == Panel(bars, bench, trades)
           setup == Setup(p)
           status == StatusOf(p, setup)
           zone == ZoneOf(p, setup)
<1>1. bars \in Seq(BarRows) /\ Len(bars) >= 1
  BY BarsOfCloses
<1>2. view.label = LabelOf(status, zone)
  <2>1. bars # <<>>
    BY <1>1
  <2> HIDE DEF bars
  <2> QED
    BY <2>1 DEF Concluded
<1>3. close \in Prices
  <2>1. Len(bars) \in 1..Len(bars)
    BY <1>1
  <2> QED
    BY <1>1, <2>1, ClosesOfBars
<1> HIDE DEF bars, view, setup, status, zone
<1>4. /\ p.liquid = trades
      /\ p.alignment = Alignment(close, Sma(bars), LongSma(bars))
      /\ p.slope = SlopeOf(bars, SmaBars, SlopeBars)
      /\ p.offSma = {Ratio(close - m, m) : m \in Sma(bars)}
      /\ p.rsi = Rsi(bars)
      /\ p.atr = {Ratio(a, close) : a \in Atr(bars)}
      /\ p.variance = Variance(bars)
  <2> HIDE DEF close
  <2> QED
    BY DEF Panel, close
<1> HIDE DEF p, close
<1>5. status \in Statuses
  BY StatusIsEarned DEF status
<1>6. view.label # "HOLD"
  BY <1>2, <1>5, LabelIsMeant
<1>7. ASSUME view.label \in {"BUY", "ACCUMULATE"}
      PROVE  /\ trades
             /\ \E sma \in Sma(bars), long \in LongSma(bars) : close > sma /\ sma > long
             /\ \E slope \in SlopeOf(bars, SmaBars, SlopeBars) : slope > 0
             /\ \A atr \in Atr(bars) : 100 * atr < 9 * close
             /\ \A variance \in Variance(bars) : 252 * variance <= 8000 * 8000
             /\ ~ \E sma \in Sma(bars), rsi \in Rsi(bars) :
                    100 * close > 116 * sma /\ rsi > 7500
  <2>1. status.status = "research_candidate"
    BY <1>2, <1>5, <1>7, LabelIsMeant
  <2>2. setup \in Constructive /\ Cardinality(HighPassed(p)) = 2
    BY <2>1, StatusIsEarned DEF status
  <2>3. Rising(p) /\ Above(p.slope, 0)
    BY <2>2, BothHighRules
  <2>4. p.liquid /\ ~ Wild(p) /\ ~ Extended(p)
    BY <2>2, <2>3, SetupIsEarned DEF setup
  <2>5. trades
    BY <1>4, <2>4
  <2>6. \E sma \in Sma(bars), long \in LongSma(bars) : close > sma /\ sma > long
    <3>1. Below(Sma(bars), close) /\ \E s \in Sma(bars) : Below(LongSma(bars), s)
      BY <1>4, <2>3, Stacked DEF Rising
    <3>2. PICK s \in Sma(bars), l \in LongSma(bars) : l < s
      BY <3>1 DEF Below
    <3>3. PICK m \in Sma(bars) : m < close
      BY <3>1 DEF Below
    <3>4. m = s
      BY <1>1, SmaIsAPrice
    <3> QED
      BY <3>2, <3>3, <3>4
  <2>7. \E slope \in SlopeOf(bars, SmaBars, SlopeBars) : slope > 0
    BY <1>4, <2>3 DEF Above
  <2>8. ASSUME NEW atr \in Atr(bars) PROVE 100 * atr < 9 * close
    <3>1. ~ Ratio(atr, close) > 800
      BY <1>4, <2>4 DEF Wild, Above
    <3>2. atr \in Int
      BY <1>1, AtrIsANumber
    <3> QED
      BY <1>3, <3>1, <3>2 DEF Ratio, Prices
  <2>9. ASSUME NEW variance \in Variance(bars) PROVE 252 * variance <= 8000 * 8000
    <3>1. ~ variance > (8000 * 8000) \div 252
      BY <1>4, <2>4 DEF Wild, Above
    <3>2. variance \in Int
      BY <1>1, VarianceIsANumber
    <3> QED
      BY <3>1, <3>2
  <2>10. ASSUME NEW sma \in Sma(bars), NEW rsi \in Rsi(bars), 100 * close > 116 * sma, rsi > 7500
         PROVE  FALSE
    <3>1. ~ Ratio(close - sma, sma) > 1500
      BY <1>4, <2>4, <2>10 DEF Extended, Above
    <3>2. sma \in Nat \ {0} /\ close \in Int
      BY <1>1, <1>3, SmaIsAPrice DEF Prices
    <3> QED
      BY <2>10, <3>1, <3>2 DEF Ratio
  <2> QED
    BY <2>5, <2>6, <2>7, <2>8, <2>9, <2>10
<1> QED
  BY <1>6, <1>7 DEF Earned, Promised, view, close, bars

\* Prices are positive, and as many as the tape may hold.
TapesOK == tapes \in [Tickers -> PriceHistories] /\ liquid \in SUBSET Tickers

(***************************************************************************)
(* Trading keeps the price histories.                                      *)
(***************************************************************************)
LEMMA TapesStep == TapesOK /\ [ScanNext]_scanVars => TapesOK'
<1> SUFFICES ASSUME TapesOK, [ScanNext]_scanVars PROVE TapesOK'
  OBVIOUS
<1>1. CASE UNCHANGED <<tapes, liquid>>
  BY <1>1 DEF TapesOK
<1>2. ASSUME NEW t \in Tickers, NEW rate \in Rates, Trade(t, rate) PROVE TapesOK'
  <2> DEFINE s == tapes[t]
             last == s[Len(s)]
             close == (last * (100 + rate)) \div 100
  <2>a. s \in PriceHistories
    BY DEF TapesOK
  <2>1. PICK n \in 0..MaxBars : s \in [1..n -> Nat \ {0}]
    <3> HIDE DEF s
    <3> QED
      BY <2>a DEF PriceHistories
  <2>2. n \in Nat /\ MaxBars \in Nat /\ rate \in Int
    BY ScanAssumption
  <2>3. s \in Seq(Nat \ {0}) /\ Len(s) = n
    BY <2>1, <2>2
  <2>4. /\ s # <<>> /\ n < MaxBars /\ close > 0
        /\ tapes' = [tapes EXCEPT ![t] = Append(s, close)] /\ liquid' = liquid
    BY <1>2, <2>3 DEF Trade
  <2>5. last \in Int
    BY <2>3, <2>4
  <2>6. last * (100 + rate) \in Int
    BY <2>2, <2>5
  <2>7. close \in Nat \ {0}
    <3> HIDE DEF last
    <3> QED
      BY <2>4, <2>6
  <2> HIDE DEF close
  <2>8. Append(s, close) \in [1..(n + 1) -> Nat \ {0}] /\ n + 1 \in 0..MaxBars
    <3>1. n < MaxBars
      BY <2>4
    <3> HIDE DEF s
    <3> DEFINE longer == Append(s, close)
    <3>2. longer \in Seq(Nat \ {0}) /\ Len(longer) = n + 1
      BY ONLY <2>3, <2>7, <2>2
    <3> HIDE DEF longer
    <3>3. longer \in [1..(n + 1) -> Nat \ {0}]
      BY ONLY <3>2
    <3>4. n + 1 \in 0..MaxBars
      BY ONLY <3>1, <2>2
    <3> QED
      BY <3>3, <3>4 DEF longer
  <2>9. Append(s, close) \in PriceHistories
    BY <2>8 DEF PriceHistories
  <2> QED
    BY <2>4, <2>9 DEF TapesOK
<1>3. ASSUME NEW c \in Scanners, NEW tickers, NEW persist, Start(c, tickers, persist) PROVE TapesOK'
  BY <1>1, <1>3 DEF Start
<1>4. ASSUME NEW c \in Scanners, NEW t \in Tickers, Look(c, t) \/ PersistFails(c, t) \/ Raise(c, t)
      PROVE  TapesOK'
  BY <1>1, <1>4 DEF Look, PersistFails, Raise
<1>5. ASSUME NEW c \in Scanners, Finish(c) \/ Die(c) PROVE TapesOK'
  BY <1>1, <1>5 DEF Finish, Die
<1>6. CASE UNCHANGED scanVars
  BY <1>1, <1>6 DEF scanVars
<1>7. CASE ScanNext
  BY <1>2, <1>3, <1>4, <1>5, <1>7 DEF ScanNext
<1> QED
  BY <1>6, <1>7

(***************************************************************************)
(* A ticker is called a buy only when it trades in size, its averages are  *)
(* stacked and rising, and it is neither wild nor stretched, whatever its  *)
(* prices were; and no ticker falls through the rubric                     *)
(* (Scan!LabelsAreEarned; setup.py, status.py, action.py).                 *)
(***************************************************************************)
THEOREM BuysAreEarned == ScanSpec => []LabelsAreEarned
<1>1. ScanInit => TapesOK
  BY DEF ScanInit, TapesOK
<1>2. TapesOK => LabelsAreEarned
  <2> SUFFICES ASSUME TapesOK PROVE LabelsAreEarned
    OBVIOUS
  <2>1. ASSUME NEW t \in Tickers, tapes[t] # <<>>, NEW bench
        PROVE  Earned(tapes[t], bench, t \in liquid)
    <3> DEFINE s == tapes[t]
    <3>1. s \in PriceHistories /\ s # <<>>
      BY <2>1 DEF TapesOK
    <3>2. PICK trades : trades = (t \in liquid)
      OBVIOUS
    <3>3. trades \in BOOLEAN
      BY <3>2
    <3> HIDE DEF s
    <3>4. Earned(s, bench, trades)
      BY <3>1, <3>3, BuyIsEarned
    <3> QED
      BY <3>2, <3>4 DEF s
  <2>2. ASSUME NEW bench, NEW trades PROVE Concluded(<<>>, bench, trades).label = "N/A"
    BY DEF Concluded
  <2>3. SUFFICES ASSUME NEW t \in Tickers, tapes[t] # <<>>, NEW view \in Views(t)
                 PROVE  Promised(tapes[t], view, t \in liquid)
    BY DEF LabelsAreEarned, Promised
  <2>4. \E bench : \/ view = Concluded(Bars(tapes[t]), bench, t \in liquid)
                    \/ view = Concluded(<<>>, bench, t \in liquid)
    BY DEF Views
  <2>5. CASE view.label = "N/A"
    BY <2>5 DEF Promised
  <2> QED
    BY <2>1, <2>2, <2>3, <2>4, <2>5 DEF Earned
<1> QED
  BY <1>1, <1>2, TapesStep, PTL DEF ScanSpec
=============================================================================
