------------------------- MODULE PortfolioTheorems --------------------------
(***************************************************************************)
(* The portfolio ledger for any number of clients, tickers and trades.     *)
(*                                                                         *)
(* That an edit leaves a ledger that folds needs what its request knows:   *)
(* until another request commits, the table is the one it has read, so     *)
(* what it found acceptable still is (Validated), and the columns it will  *)
(* leave alone are those of the row it validated (UpToDate).               *)
(*                                                                         *)
(* That a create leaves one needs more: the fold validates it as the first *)
(* trade of its instant and the table holds it as the last one.  The two   *)
(* agree because nothing is owed after any initial part of a ledger that   *)
(* folds (NothingOwed), a fact about sums over sets, whose laws come       *)
(* first.                                                                  *)
(***************************************************************************)
EXTENDS Portfolio, FiniteSetTheorems, WellFoundedInduction, TLAPS

(***************************************************************************)
(* A set of naturals has a least element.                                  *)
(***************************************************************************)
LEMMA LeastNatural ==
  ASSUME NEW S \in SUBSET Nat, S # {}
  PROVE  \E m \in S : \A t \in S : m <= t
<1> DEFINE R == {p \in Nat \X Nat : p[1] < p[2]}
<1>1. IsWellFoundedOn(R, Nat)
  BY NatLessThanWellFounded DEF OpToRel
<1>2. PICK m \in S : \A t \in S : ~ (<<t, m>> \in R)
  BY <1>1, WFMin
<1>3. ASSUME NEW t \in S PROVE m <= t
  <2>1. <<t, m>> \in Nat \X Nat /\ ~ t < m
    BY <1>2
  <2> QED
    BY <2>1
<1> QED
  BY <1>3

(***************************************************************************)
(* A bounded one has a greatest element.                                   *)
(***************************************************************************)
LEMMA GreatestNatural ==
  ASSUME NEW S \in SUBSET Nat, S # {}, NEW b \in Nat, \A t \in S : t <= b
  PROVE  \E m \in S : \A t \in S : t <= m
<1>0. \A t \in S : t \in Nat /\ b - t \in Nat
  OBVIOUS
<1>1. PICK k \in {b - t : t \in S} : \A l \in {b - t : t \in S} : k <= l
  <2>1. {b - t : t \in S} \in SUBSET Nat /\ {b - t : t \in S} # {}
    BY <1>0
  <2> QED
    BY <2>1, LeastNatural
<1>2. PICK m \in S : k = b - m
  BY <1>1
<1>3. \A t \in S : t <= m
  BY <1>0, <1>1, <1>2
<1> QED
  BY <1>3
-----------------------------------------------------------------------------
\* The element a sum takes first.
Pick(t) == CHOOSE x \in t : TRUE

\* f sums fun over each of the subsets in P.
Sums(fun, f, P) ==
  f = [t \in P |-> IF t = {} THEN 0 ELSE fun[Pick(t)] + f[t \ {Pick(t)}]]

(***************************************************************************)
(* A sum over a set is the value that a function with the recursion of a   *)
(* fold has for it.                                                        *)
(***************************************************************************)
LEMMA SumIsFolded ==
  ASSUME NEW fun, NEW S
  PROVE  SumFunctionOnSet(fun, S) = (CHOOSE f : Sums(fun, f, SUBSET S))[S]
BY DEF SumFunctionOnSet, FoldFunctionOnSet, MapThenFoldSet, Sums, Pick

(***************************************************************************)
(* What the fold takes first is an element of the set, and leaves a        *)
(* smaller one.                                                            *)
(***************************************************************************)
LEMMA PickOf ==
  ASSUME NEW S, IsFiniteSet(S)
  PROVE  \A t \in SUBSET S :
           /\ IsFiniteSet(t) /\ Cardinality(t) \in Nat /\ Cardinality(t) <= Cardinality(S)
           /\ t # {} => /\ Pick(t) \in t /\ t \ {Pick(t)} \in SUBSET S
                        /\ Cardinality(t \ {Pick(t)}) = Cardinality(t) - 1
<1> SUFFICES ASSUME NEW t \in SUBSET S
             PROVE  /\ IsFiniteSet(t) /\ Cardinality(t) \in Nat /\ Cardinality(t) <= Cardinality(S)
                    /\ t # {} => /\ Pick(t) \in t /\ t \ {Pick(t)} \in SUBSET S
                                 /\ Cardinality(t \ {Pick(t)}) = Cardinality(t) - 1
  OBVIOUS
<1>1. IsFiniteSet(t) /\ Cardinality(t) \in Nat /\ Cardinality(t) <= Cardinality(S)
  BY FS_Subset, FS_CardinalityType
<1>2. t # {} => Pick(t) \in t
  BY DEF Pick
<1> QED
  BY <1>1, <1>2, FS_RemoveElement

(***************************************************************************)
(* A function with this recursion exists, by adding one element after the  *)
(* other.                                                                  *)
(***************************************************************************)
LEMMA SumsExist ==
  ASSUME NEW fun, NEW S, IsFiniteSet(S)
  PROVE  \E f : Sums(fun, f, SUBSET S)
<1> DEFINE Upto(n) == {t \in SUBSET S : Cardinality(t) <= n}
           Bad == {n \in Nat : ~ \E f : Sums(fun, f, Upto(n))}
<1>0. \A t \in SUBSET S :
        /\ IsFiniteSet(t) /\ Cardinality(t) \in Nat /\ Cardinality(t) <= Cardinality(S)
        /\ t # {} => /\ t \ {Pick(t)} \in SUBSET S
                     /\ Cardinality(t \ {Pick(t)}) = Cardinality(t) - 1
  BY PickOf
<1>a. \A t \in SUBSET S : IsFiniteSet(t) /\ Cardinality(t) \in Nat
  BY PickOf
<1>1. ASSUME NEW n \in Nat, \E f : Sums(fun, f, Upto(n)) PROVE \E f : Sums(fun, f, Upto(n + 1))
  <2>1. PICK f : Sums(fun, f, Upto(n))
    BY <1>1
  <2> DEFINE g == [t \in Upto(n + 1) |-> IF t = {} THEN 0 ELSE fun[Pick(t)] + f[t \ {Pick(t)}]]
  <2>2. \A t \in Upto(n) : t \in Upto(n + 1)
    BY <1>a
  <2>3. \A t \in Upto(n) : g[t] = f[t]
    BY <2>1, <2>2 DEF Sums
  <2>4. \A t \in Upto(n + 1) : t # {} => t \ {Pick(t)} \in Upto(n)
    BY <1>0
  <2>5. Sums(fun, g, Upto(n + 1))
    BY <2>3, <2>4 DEF Sums
  <2> QED
    BY <2>5
<1>2. \E f : Sums(fun, f, Upto(0))
  <2> DEFINE g == [t \in Upto(0) |-> 0]
  <2>1. \A t \in Upto(0) : t = {}
    <3> SUFFICES ASSUME NEW t \in SUBSET S, Cardinality(t) <= 0 PROVE t = {}
      OBVIOUS
    <3>1. IsFiniteSet(t) /\ Cardinality(t) = 0
      BY <1>a
    <3> QED
      BY <3>1, FS_EmptySet
  <2>2. Sums(fun, g, Upto(0))
    BY <2>1 DEF Sums
  <2> QED
    BY <2>2
<1>3. ASSUME NEW n \in Nat PROVE \E f : Sums(fun, f, Upto(n))
  <2> HIDE DEF Upto
  <2>1. SUFFICES ASSUME Bad # {} PROVE FALSE
    OBVIOUS
  <2>2. PICK k \in Bad : \A l \in Bad : k <= l
    BY <2>1, LeastNatural
  <2>3. k # 0
    BY <1>2, <2>2
  <2>4. k - 1 \in Nat /\ ~ k <= k - 1 /\ (k - 1) + 1 = k
    BY <2>2, <2>3
  <2>5. \E f : Sums(fun, f, Upto(k - 1))
    BY <2>2, <2>4
  <2>6. \E f : Sums(fun, f, Upto((k - 1) + 1))
    BY <1>1, <2>4, <2>5
  <2> QED
    BY <2>2, <2>4, <2>6
<1>4. Cardinality(S) \in Nat /\ Upto(Cardinality(S)) = SUBSET S
  <2>1. Cardinality(S) \in Nat
    BY <1>0
  <2> QED
    BY <2>1, <1>0
<1> HIDE DEF Upto
<1>5. \E f : Sums(fun, f, Upto(Cardinality(S)))
  BY <1>3, <1>4
<1> QED
  BY <1>4, <1>5

(***************************************************************************)
(* The sums over the subsets of a set meet the recursion, whichever set    *)
(* they are computed within.                                               *)
(***************************************************************************)
LEMMA SumRecursion ==
  ASSUME NEW fun, NEW S, IsFiniteSet(S)
  PROVE  SumFunctionOnSet(fun, S) =
           IF S = {} THEN 0 ELSE fun[Pick(S)] + SumFunctionOnSet(fun, S \ {Pick(S)})
<1>1. PICK f : Sums(fun, f, SUBSET S) /\ SumFunctionOnSet(fun, S) = f[S]
  <2> DEFINE f == CHOOSE f : Sums(fun, f, SUBSET S)
  <2>1. Sums(fun, f, SUBSET S)
    BY SumsExist
  <2>2. SumFunctionOnSet(fun, S) = f[S]
    BY SumIsFolded
  <2> HIDE DEF f
  <2> QED
    BY <2>1, <2>2
<1>2. CASE S = {}
  BY <1>1, <1>2 DEF Sums
<1>3. CASE S # {}
  <2> DEFINE T == S \ {Pick(S)}
  <2>1. T \in SUBSET S /\ IsFiniteSet(T)
    BY FS_Subset
  <2>2. PICK g : Sums(fun, g, SUBSET T) /\ SumFunctionOnSet(fun, T) = g[T]
    <3> DEFINE g == CHOOSE g : Sums(fun, g, SUBSET T)
    <3> HIDE DEF T
    <3>1. Sums(fun, g, SUBSET T)
      BY <2>1, SumsExist
    <3>2. SumFunctionOnSet(fun, T) = g[T]
      BY SumIsFolded
    <3> HIDE DEF g
    <3> QED
      BY <3>1, <3>2
  <2>3. f[S] = fun[Pick(S)] + f[T]
    BY <1>1, <1>3 DEF Sums
  <2> HIDE DEF T
  <2> DEFINE Bad == {Cardinality(t) : t \in {u \in SUBSET T : f[u] # g[u]}}
  <2>0. \A t \in SUBSET T : Cardinality(t) \in Nat
    BY <2>1, PickOf
  <2>4. Bad = {}
    <3>1. SUFFICES ASSUME Bad # {} PROVE FALSE
      OBVIOUS
    <3>2. Bad \in SUBSET Nat
      BY <2>0
    <3>3. PICK t \in SUBSET T : f[t] # g[t] /\ \A u \in SUBSET T : f[u] # g[u] => Cardinality(t) <= Cardinality(u)
      <4>1. PICK k \in Bad : \A l \in Bad : k <= l
        BY <3>1, <3>2, LeastNatural
      <4> QED
        BY <4>1
    <3> DEFINE u == t \ {Pick(t)}
    <3>4. /\ f[t] = IF t = {} THEN 0 ELSE fun[Pick(t)] + f[u]
          /\ g[t] = IF t = {} THEN 0 ELSE fun[Pick(t)] + g[u]
      BY <1>1, <2>1, <2>2 DEF Sums
    <3>5. t # {} => u \in SUBSET T /\ Cardinality(t) \in Nat /\ Cardinality(u) = Cardinality(t) - 1
      BY <2>1, PickOf
    <3> HIDE DEF u
    <3>6. t # {} => f[u] = g[u]
      BY <3>3, <3>5
    <3> QED
      BY <3>3, <3>4, <3>6
  <2>5. f[T] = g[T]
    BY <2>4
  <2> QED
    BY <1>1, <1>3, <2>2, <2>3, <2>5 DEF T
<1> QED
  BY <1>2, <1>3

(***************************************************************************)
(* A sum of integers is an integer, and any of them may be taken first.    *)
(***************************************************************************)
LEMMA SumOfSet ==
  ASSUME NEW S, IsFiniteSet(S), NEW fun, \A x \in S : fun[x] \in Int
  PROVE  /\ SumFunctionOnSet(fun, {}) = 0
         /\ SumFunctionOnSet(fun, S) \in Int
         /\ \A x \in S : SumFunctionOnSet(fun, S) = fun[x] + SumFunctionOnSet(fun, S \ {x})
<1> DEFINE Sum(t) == SumFunctionOnSet(fun, t)
           Good(t) == /\ Sum(t) \in Int
                      /\ \A x \in t : Sum(t) = fun[x] + Sum(t \ {x})
           Bad == {Cardinality(t) : t \in {u \in SUBSET S : ~ Good(u)}}
<1>0. \A t \in SUBSET S : IsFiniteSet(t) /\ Cardinality(t) \in Nat
  BY PickOf
<1>1. \A t \in SUBSET S : Sum(t) = IF t = {} THEN 0 ELSE fun[Pick(t)] + Sum(t \ {Pick(t)})
  BY <1>0, SumRecursion
<1> HIDE DEF Sum
<1>2. Bad = {}
  <2>1. SUFFICES ASSUME Bad # {} PROVE FALSE
    OBVIOUS
  <2>2. Bad \in SUBSET Nat
    BY <1>0
  <2>3. PICK t \in SUBSET S : ~ Good(t) /\ \A u \in SUBSET S : ~ Good(u) => Cardinality(t) <= Cardinality(u)
    <3>1. PICK k \in Bad : \A l \in Bad : k <= l
      BY <2>1, <2>2, LeastNatural
    <3> QED
      BY <3>1
  <2>4. t # {}
    <3>1. Sum({}) = 0
      BY <1>1
    <3>2. Good({})
      BY <3>1
    <3> HIDE DEF Good
    <3> QED
      BY <2>3, <3>2
  <2>5. ASSUME NEW x \in t PROVE t \ {x} \in SUBSET S /\ Good(t \ {x})
    <3>1. Cardinality(t \ {x}) = Cardinality(t) - 1 /\ Cardinality(t) \in Nat
      BY <1>0, FS_RemoveElement
    <3>2. ~ Cardinality(t) <= Cardinality(t \ {x})
      BY <3>1
    <3> QED
      BY <2>3, <3>2
  <2> DEFINE y == Pick(t)
  <2>6. y \in t /\ y \in S /\ fun[y] \in Int
    BY <2>4, PickOf
  <2>7. Sum(t) = fun[y] + Sum(t \ {y})
    BY <1>1, <2>4
  <2> HIDE DEF y
  <2>8. Sum(t) \in Int
    BY <2>5, <2>6, <2>7
  <2>9. ASSUME NEW x \in t PROVE Sum(t) = fun[x] + Sum(t \ {x})
    <3>1. CASE x = y
      BY <2>7, <3>1
    <3>2. CASE x # y
      <4> DEFINE r == (t \ {x}) \ {y}
      <4>1. r = (t \ {y}) \ {x} /\ x \in t \ {y} /\ y \in t \ {x}
        BY <2>6, <3>2
      <4>2. Sum(t \ {y}) = fun[x] + Sum(r) /\ Sum(t \ {x}) = fun[y] + Sum(r)
        BY <2>5, <2>6, <4>1
      <4>3. Sum(r) \in Int
        <5>1. IsFiniteSet(t \ {x})
          BY <2>5, <1>0
        <5>2. r \in SUBSET S /\ Cardinality(r) = Cardinality(t \ {x}) - 1
          BY <4>1, <5>1, FS_RemoveElement
        <5>3. Cardinality(t \ {x}) = Cardinality(t) - 1 /\ Cardinality(t) \in Nat
          BY <1>0, FS_RemoveElement
        <5>4. ~ Cardinality(t) <= Cardinality(r)
          BY <5>2, <5>3
        <5> QED
          BY <2>3, <5>2, <5>4
      <4> HIDE DEF r
      <4>4. fun[x] \in Int
        OBVIOUS
      <4> QED
        BY <2>6, <2>7, <4>2, <4>3, <4>4
    <3> QED
      BY <3>1, <3>2
  <2> QED
    BY <2>3, <2>8, <2>9
<1>3. Good(S)
  BY <1>2
<1>4. Sum({}) = 0
  BY <1>1
<1> QED
  BY <1>3, <1>4 DEF Sum


(***************************************************************************)
(* Two functions that agree on a set have the same sum over it.            *)
(***************************************************************************)
LEMMA SumAgrees ==
  ASSUME NEW S, IsFiniteSet(S), NEW fun, NEW gun, \A x \in S : fun[x] \in Int /\ fun[x] = gun[x]
  PROVE  SumFunctionOnSet(fun, S) = SumFunctionOnSet(gun, S)
<1> DEFINE Sum(f, t) == SumFunctionOnSet(f, t)
           Good(t) == Sum(fun, t) = Sum(gun, t)
           Bad == {Cardinality(t) : t \in {u \in SUBSET S : ~ Good(u)}}
<1>0. \A t \in SUBSET S : IsFiniteSet(t) /\ Cardinality(t) \in Nat
  BY PickOf
<1>1. /\ Sum(fun, {}) = 0 /\ Sum(gun, {}) = 0
      /\ \A t \in SUBSET S : \A x \in t : /\ Sum(fun, t) = fun[x] + Sum(fun, t \ {x})
                                         /\ Sum(gun, t) = fun[x] + Sum(gun, t \ {x})
  <2>1. Sum(fun, {}) = 0 /\ Sum(gun, {}) = 0
    BY SumOfSet
  <2>2. ASSUME NEW t \in SUBSET S, NEW x \in t
        PROVE  /\ Sum(fun, t) = fun[x] + Sum(fun, t \ {x})
               /\ Sum(gun, t) = fun[x] + Sum(gun, t \ {x})
    <3>1. IsFiniteSet(t) /\ \A y \in t : fun[y] \in Int /\ gun[y] \in Int /\ fun[y] = gun[y]
      BY <1>0
    <3>2. \A y \in t : Sum(fun, t) = fun[y] + Sum(fun, t \ {y})
      BY <3>1, SumOfSet
    <3>3. \A y \in t : Sum(gun, t) = gun[y] + Sum(gun, t \ {y})
      BY <3>1, SumOfSet
    <3> QED
      BY <3>1, <3>2, <3>3
  <2> QED
    BY <2>1, <2>2
<1> HIDE DEF Sum
<1>2. Bad = {}
  <2>1. SUFFICES ASSUME Bad # {} PROVE FALSE
    OBVIOUS
  <2>2. Bad \in SUBSET Nat
    BY <1>0
  <2>3. PICK t \in SUBSET S : ~ Good(t) /\ \A u \in SUBSET S : ~ Good(u) => Cardinality(t) <= Cardinality(u)
    <3>1. PICK k \in Bad : \A l \in Bad : k <= l
      BY <2>1, <2>2, LeastNatural
    <3> QED
      BY <3>1
  <2>4. PICK x \in t : TRUE
    <3>1. Good({})
      BY <1>1
    <3> HIDE DEF Good
    <3> QED
      BY <2>3, <3>1
  <2>5. Cardinality(t \ {x}) = Cardinality(t) - 1 /\ Cardinality(t) \in Nat /\ t \ {x} \in SUBSET S
    BY <1>0, FS_RemoveElement
  <2>6. ~ Cardinality(t) <= Cardinality(t \ {x})
    BY <2>5
  <2>7. Good(t \ {x})
    BY <2>3, <2>5, <2>6
  <2> QED
    BY <1>1, <2>3, <2>7
<1>3. Good(S)
  BY <1>2
<1> QED
  BY <1>3 DEF Sum
-----------------------------------------------------------------------------

Open(c) == pc[c] # "idle" /\ c \notin overtaken

UpToDate ==
  \A c \in Clients : Open(c) /\ req[c].op \in {"update", "delete"} =>
    /\ req[c].target \in Stored
    /\ req[c].op = "update" =>
         \A f \in Columns \ req[c].columns : req[c].candidate[f] = trades[req[c].target][f]

Validated == \A c \in Clients : Open(c) /\ pc[c] = "commit" => Acceptable(req[c])

Settled == \A c \in Clients : pc[c] = "idle" => c \notin overtaken

IInv == TypeOK /\ UpToDate /\ Validated /\ Settled
-----------------------------------------------------------------------------
(***************************************************************************)
(* A trade is a function on the columns.                                   *)
(***************************************************************************)
LEMMA TradeIsARecord ==
  ASSUME NEW t \in Trade
  PROVE  /\ DOMAIN t = Columns
         /\ t = [f \in Columns |-> t[f]]
         /\ t.ticker \in Tickers /\ t.side \in Sides /\ t.quantity \in Quantities
         /\ t.currency \in Currencies /\ t.traded_at \in Times
  BY DEF Trade, Columns

(***************************************************************************)
(* And such a function is a trade when each column has a value of its own  *)
(* kind.                                                                   *)
(***************************************************************************)
LEMMA TradeOfColumns ==
  ASSUME NEW t, t = [f \in Columns |-> t[f]],
         t["ticker"] \in Tickers, t["side"] \in Sides, t["quantity"] \in Quantities,
         t["currency"] \in Currencies, t["traded_at"] \in Times
  PROVE  t \in Trade
  BY DEF Trade, Columns

(***************************************************************************)
(* The table holds the wall clock of a candidate: its instant at another   *)
(* time unless the zone is UTC, and its other columns.                     *)
(***************************************************************************)
LEMMA WallClockOf ==
  ASSUME NEW r \in Request
  PROVE  /\ \A f \in Columns : f # "traded_at" => WallClock(r)[f] = r.candidate[f]
         /\ WallClock(r).ticker = r.candidate.ticker
         /\ r.offset = 0 => WallClock(r) = r.candidate
<1>1. r.candidate \in Trade
  BY DEF Request
<1> DEFINE t == r.candidate
<1>2. t = [f \in Columns |-> t[f]] /\ t.traded_at \in Nat
  BY <1>1, TradeIsARecord, TimesAssumption
<1>3. WallClock(r) = [t EXCEPT !.traded_at = t.traded_at + r.offset]
  BY DEF WallClock
<1> HIDE DEF t
<1>4. \A f \in Columns : f # "traded_at" => WallClock(r)[f] = t[f]
  BY <1>2, <1>3
<1>5. "ticker" \in Columns /\ "traded_at" \in Columns
  BY DEF Columns
<1>6. r.offset = 0 => WallClock(r) = t
  <2> SUFFICES ASSUME r.offset = 0 PROVE WallClock(r) = t
    OBVIOUS
  <2>1. t.traded_at + r.offset = t.traded_at
    BY <1>2
  <2> QED
    BY <1>2, <1>3, <2>1
<1> QED
  BY <1>4, <1>5, <1>6 DEF t

(***************************************************************************)
(* The columns an UPDATE sets, merged with the ones it leaves alone, are a *)
(* trade.                                                                  *)
(***************************************************************************)
LEMMA UpdatedIsATrade ==
  ASSUME TypeOK, NEW r \in Request, r.target \in Stored, WallClock(r) \in Trade
  PROVE  Updated(r) \in Trade
<1>1. WallClock(r) \in Trade /\ trades[r.target] \in Trade
  BY DEF TypeOK
<1>2. /\ Updated(r) = [f \in Columns |-> Updated(r)[f]]
      /\ \A f \in Columns : Updated(r)[f] = WallClock(r)[f] \/ Updated(r)[f] = trades[r.target][f]
  BY DEF Updated
<1>3. {"ticker", "side", "quantity", "currency", "traded_at"} \subseteq Columns
  BY DEF Columns
<1> QED
  BY <1>1, <1>2, <1>3, TradeIsARecord, TradeOfColumns

(***************************************************************************)
(* The id a create gets is above every id in use.                          *)
(***************************************************************************)
LEMMA NextIdIsNew ==
  ASSUME TypeOK
  PROVE  NextId \in Nat \ {0} /\ \A i \in Stored : i \in Nat \ {0} /\ i < NextId
<1>1. CASE Stored = {}
  BY <1>1 DEF NextId
<1>2. CASE Stored # {}
  <2>1. Stored \in SUBSET Nat /\ MaxId \in Nat /\ \A i \in Stored : i <= MaxId
    BY MaxIdAssumption DEF TypeOK, Ids
  <2>2. PICK m \in Stored : \A j \in Stored : j <= m
    BY <1>2, <2>1, GreatestNatural
  <2> DEFINE last == CHOOSE i \in Stored : \A j \in Stored : j <= i
  <2>3. last \in Stored /\ \A j \in Stored : j <= last
    BY <2>2
  <2>4. NextId = 1 + last
    BY <1>2 DEF NextId
  <2> HIDE DEF last
  <2>5. last \in Nat /\ \A i \in Stored : i \in Nat \ {0} /\ i < 1 + last
    BY <2>1, <2>3 DEF TypeOK, Ids
  <2> QED
    BY <2>4, <2>5
<1> QED
  BY <1>1, <1>2

(***************************************************************************)
(* The ledger starts out empty, with no request under way.                 *)
(***************************************************************************)
LEMMA InitEstablishes == Init => IInv
<1> SUFFICES ASSUME Init PROVE IInv
  OBVIOUS
<1>1. Stored = {}
  BY DEF Init, Stored
<1>2. TypeOK
  BY <1>1 DEF Init, TypeOK, Stored
<1>3. UpToDate /\ Validated /\ Settled
  BY DEF Init, UpToDate, Validated, Settled, Open
<1> QED
  BY <1>2, <1>3 DEF IInv
-----------------------------------------------------------------------------
(***************************************************************************)
(* A request is over: what the others know is as true as before if the     *)
(* table has not changed or if they all count as overtaken.                *)
(***************************************************************************)
LEMMA EndStep ==
  ASSUME IInv, NEW c \in Clients, End(c), suspect' \subseteq Tickers,
         Stored' \subseteq Ids, trades' \in [Stored' -> Trade],
         \/ trades' = trades /\ overtaken' = overtaken \ {c}
         \/ overtaken' = {d \in Clients \ {c} : pc[d] # "idle"}
  PROVE  IInv'
<1> USE DEF IInv
<1>1. overtaken' \subseteq Clients
  BY DEF TypeOK
<1>2. TypeOK'
  BY <1>1 DEF End, TypeOK
<1>3. Settled'
  BY DEF Settled, End, TypeOK
<1>4. CASE trades' = trades /\ overtaken' = overtaken \ {c}
  <2>1. \A d \in Clients : Open(d)' => d # c /\ Open(d) /\ req'[d] = req[d] /\ pc'[d] = pc[d]
    BY <1>4 DEF Open, End, TypeOK
  <2>2. now' = now /\ Stored' = Stored
    BY <1>4 DEF End, Stored
  <2>3. UpToDate'
    BY <1>4, <2>1, <2>2 DEF UpToDate
  <2>4. \A r : Acceptable(r)' <=> Acceptable(r)
    BY <1>4, <2>2 DEF Acceptable, BasicsHold, Records
  <2>5. Validated'
    BY <2>1, <2>4 DEF Validated
  <2> QED
    BY <1>2, <1>3, <2>3, <2>5
<1>5. CASE overtaken' = {d \in Clients \ {c} : pc[d] # "idle"}
  <2>1. \A d \in Clients : ~ Open(d)'
    BY <1>5 DEF Open, End, TypeOK
  <2> QED
    BY <1>2, <1>3, <2>1 DEF UpToDate, Validated
<1> QED
  BY <1>4, <1>5

(***************************************************************************)
(* A request that begins has read the table as it is.                      *)
(***************************************************************************)
LEMMA BeginStep ==
  ASSUME IInv, NEW c \in Clients,
         NEW kind \in {"create", "update", "delete"}, NEW i \in Ids \cup {None},
         NEW new \in Trade, NEW columns \in SUBSET Columns, NEW z \in Offsets,
         Begin(c, [op |-> kind, target |-> i, candidate |-> new, columns |-> columns,
                   offset |-> z]),
         kind \in {"update", "delete"} => i \in Stored,
         kind = "update" => \A f \in Columns \ columns : new[f] = trades[i][f]
  PROVE  IInv'
<1> USE DEF IInv
<1> DEFINE r == [op |-> kind, target |-> i, candidate |-> new, columns |-> columns,
                 offset |-> z]
<1>1. r \in Request /\ WallClock(r) \in Trade
  <2>1. r \in Request /\ r.candidate = new /\ r.offset = z
    BY DEF Request
  <2>2. WallClock(r).traded_at \in Times
    BY DEF Begin
  <2>3. WallClock(r) = [new EXCEPT !.traded_at = new.traded_at + z]
    BY <2>1 DEF WallClock
  <2> HIDE DEF r
  <2> QED
    BY <2>1, <2>2, <2>3 DEF Trade
<1>2. pc' = [pc EXCEPT ![c] = "validate"] /\ req' = [req EXCEPT ![c] = r]
      /\ pc[c] = "idle" /\ UNCHANGED <<trades, now, overtaken, suspect>>
  BY DEF Begin
<1> HIDE DEF r
<1>3. Stored' = Stored
  BY <1>2 DEF Stored
<1>4. TypeOK'
  BY <1>1, <1>2, <1>3 DEF TypeOK
<1>5. Settled'
  BY <1>2 DEF Settled, TypeOK
<1>6. UpToDate'
  BY <1>2, <1>3 DEF UpToDate, Open, TypeOK, r
<1>7. \A q : Acceptable(q)' <=> Acceptable(q)
  BY <1>2, <1>3 DEF Acceptable, BasicsHold, Records
<1>8. Validated'
  BY <1>2, <1>7 DEF Validated, Open, TypeOK
<1> QED
  BY <1>4, <1>5, <1>6, <1>8

(***************************************************************************)
(* Every step keeps what the requests know.                                *)
(***************************************************************************)
LEMMA StepPreserves == IInv /\ [Next]_vars => IInv'
<1> SUFFICES ASSUME IInv, [Next]_vars PROVE IInv'
  OBVIOUS
<1> USE DEF IInv
<1>1. CASE Tick
  <2>1. Stored' = Stored
    BY <1>1 DEF Tick, Stored
  <2>2. TypeOK' /\ UpToDate' /\ Settled'
    BY <1>1, <2>1 DEF Tick, TypeOK, UpToDate, Settled, Open
  <2>3. ASSUME NEW c \in Clients, pc[c] = "commit", Acceptable(req[c])
        PROVE  Acceptable(req[c])'
    <3>1. req[c] \in Request
      BY <2>3 DEF TypeOK
    <3>2. req[c].candidate.traded_at \in Nat /\ now \in Nat /\ now' = now + 1
      BY <1>1, <3>1, TimesAssumption, TradeIsARecord DEF Tick, TypeOK, Request
    <3>3. BasicsHold(req[c].candidate) => BasicsHold(req[c].candidate)'
      BY <1>1, <3>2 DEF Tick, BasicsHold
    <3> QED
      BY <1>1, <2>1, <2>3, <3>3 DEF Tick, Acceptable, Records
  <2>4. Validated'
    BY <1>1, <2>3 DEF Tick, Validated, Open
  <2> QED
    BY <2>2, <2>4
<1>2. ASSUME NEW c \in Clients, BeginCreate(c) PROVE IInv'
  <2>1. PICK t \in Payloads, z \in Offsets :
          Begin(c, [op |-> "create", target |-> None, candidate |-> t, columns |-> Columns,
                    offset |-> z])
    BY <1>2 DEF BeginCreate
  <2> QED
    BY <2>1, PayloadsAssumption, BeginStep
<1>3. ASSUME NEW c \in Clients, BeginUpdate(c) PROVE IInv'
  <2>1. PICK i \in Stored, p \in Patches, z \in Offsets :
          Begin(c, [op |-> "update", target |-> i, candidate |-> Merge(trades[i], p),
                    columns |-> Changed(trades[i], Merge(trades[i], p)), offset |-> z])
    BY <1>3, OffsetsAssumption DEF BeginUpdate
  <2> DEFINE new == Merge(trades[i], p)
  <2>2. trades[i] \in Trade /\ i \in Ids
    BY DEF TypeOK
  <2>3. new \in Trade
    BY <2>2, PatchesAssumption
  <2>4. /\ Changed(trades[i], new) \in SUBSET Columns
        /\ \A f \in Columns \ Changed(trades[i], new) : new[f] = trades[i][f]
    BY DEF Changed
  <2> QED
    BY <2>1, <2>2, <2>3, <2>4, BeginStep
<1>4. ASSUME NEW c \in Clients, BeginDelete(c) PROVE IInv'
  <2>1. PICK i \in Stored :
          Begin(c, [op |-> "delete", target |-> i, candidate |-> trades[i], columns |-> {},
                    offset |-> 0])
    BY <1>4 DEF BeginDelete
  <2>2. trades[i] \in Trade /\ i \in Ids /\ 0 \in Offsets
    BY OffsetsAssumption DEF TypeOK
  <2> QED
    BY <2>1, <2>2, BeginStep
<1>5. ASSUME NEW c \in Clients, Validate(c) PROVE IInv'
  <2>1. Stored' = Stored
    BY <1>5 DEF Validate, Stored
  <2>2. TypeOK' /\ UpToDate' /\ Settled'
    BY <1>5, <2>1 DEF Validate, TypeOK, UpToDate, Settled, Open
  <2>3. \A q : Acceptable(q)' <=> Acceptable(q)
    BY <1>5, <2>1 DEF Validate, Acceptable, BasicsHold, Records
  <2>4. Validated'
    BY <1>5, <2>3 DEF Validate, Validated, Open, TypeOK
  <2> QED
    BY <2>2, <2>4
<1>6. ASSUME NEW c \in Clients, CommitCreate(c) PROVE IInv'
  <2>1. req[c] \in Request /\ WallClock(req[c]) \in Trade
    BY <1>6 DEF CommitCreate, TypeOK
  <2>2. req[c].candidate \in Trade /\ req[c].candidate.ticker \in Tickers
    BY <2>1, TradeIsARecord DEF Request
  <2>3. NextId \in Ids
    BY <1>6, NextIdIsNew, MaxIdAssumption DEF CommitCreate, Ids
  <2>4. Stored' = Stored \cup {NextId}
    BY <1>6 DEF CommitCreate, Stored
  <2>5. Stored' \subseteq Ids /\ trades' \in [Stored' -> Trade]
    BY <1>6, <2>1, <2>3, <2>4 DEF CommitCreate, TypeOK
  <2>6. /\ End(c)
        /\ suspect' \subseteq Tickers
        /\ overtaken' = {d \in Clients \ {c} : pc[d] # "idle"}
    BY <1>6, <2>2 DEF CommitCreate, Commit, LeftSuspect, TypeOK
  <2> QED
    BY <2>5, <2>6, EndStep
<1>7. ASSUME NEW c \in Clients, CommitUpdate(c) PROVE IInv'
  <2>1. req[c] \in Request /\ req[c].target \in Stored /\ WallClock(req[c]) \in Trade
    BY <1>7 DEF CommitUpdate, TypeOK
  <2>2. /\ Updated(req[c]) \in Trade /\ trades[req[c].target] \in Trade
        /\ req[c].candidate \in Trade
    BY <2>1, UpdatedIsATrade DEF TypeOK, Request
  <2>3. /\ Updated(req[c]).ticker \in Tickers /\ trades[req[c].target].ticker \in Tickers
        /\ req[c].candidate.ticker \in Tickers
    BY <2>2, TradeIsARecord
  <2>4. Stored' = Stored /\ trades' \in [Stored -> Trade]
    BY <1>7, <2>1, <2>2 DEF CommitUpdate, Stored, TypeOK
  <2>5. Stored' \subseteq Ids
    BY <2>4 DEF TypeOK
  <2>6. /\ End(c)
        /\ suspect' \subseteq Tickers
        /\ overtaken' = {d \in Clients \ {c} : pc[d] # "idle"}
    BY <1>7, <2>3 DEF CommitUpdate, Commit, LeftSuspect, TypeOK
  <2> QED
    BY <2>4, <2>5, <2>6, EndStep
<1>8. ASSUME NEW c \in Clients, CommitDelete(c) PROVE IInv'
  <2>1. req[c].target \in Stored /\ trades[req[c].target] \in Trade
    BY <1>8 DEF CommitDelete, TypeOK
  <2>2. trades[req[c].target].ticker \in Tickers /\ req[c].candidate.ticker \in Tickers
    BY <1>8, <2>1, TradeIsARecord DEF CommitDelete, TypeOK, Request
  <2>3. Stored' = Stored \ {req[c].target}
    BY <1>8 DEF CommitDelete, Stored
  <2>4. Stored' \subseteq Ids /\ trades' \in [Stored' -> Trade]
    BY <1>8, <2>3 DEF CommitDelete, TypeOK
  <2>5. /\ End(c)
        /\ suspect' \subseteq Tickers
        /\ overtaken' = {d \in Clients \ {c} : pc[d] # "idle"}
    BY <1>8, <2>2 DEF CommitDelete, Commit, LeftSuspect, TypeOK
  <2> QED
    BY <2>4, <2>5, EndStep
<1>9. ASSUME NEW c \in Clients, Refused(c) \/ RowGone(c) \/ Fail(c) PROVE IInv'
  <2>1. /\ End(c) /\ trades' = trades /\ suspect' = suspect
        /\ overtaken' = overtaken \ {c}
    BY <1>9 DEF Refused, RowGone, Fail, GiveUp
  <2>2. Stored' = Stored
    BY <2>1 DEF Stored
  <2>3. Stored' \subseteq Ids /\ trades' \in [Stored' -> Trade] /\ suspect' \subseteq Tickers
    BY <2>1, <2>2 DEF TypeOK
  <2> QED
    BY <2>1, <2>3, EndStep
<1>10. CASE UNCHANGED vars
  <2>1. Stored' = Stored
    BY <1>10 DEF vars, Stored
  <2>2. TypeOK' /\ UpToDate' /\ Settled'
    BY <1>10, <2>1 DEF vars, TypeOK, UpToDate, Settled, Open
  <2>3. \A q : Acceptable(q)' <=> Acceptable(q)
    BY <1>10, <2>1 DEF vars, Acceptable, BasicsHold, Records
  <2>4. Validated'
    BY <1>10, <2>3 DEF vars, Validated, Open
  <2> QED
    BY <2>2, <2>4
<1> QED
  BY <1>1, <1>2, <1>3, <1>4, <1>5, <1>6, <1>7, <1>8, <1>9, <1>10 DEF Next

(***************************************************************************)
(* So it holds throughout.                                                 *)
(***************************************************************************)
LEMMA Invariance == Spec => []IInv
<1> QED
  BY InitEstablishes, StepPreserves, PTL DEF Spec

(***************************************************************************)
(* The table, the requests and the bookkeeping keep their types; the id a  *)
(* create gets is never that of a stored trade (NextIdIsNew).              *)
(***************************************************************************)
THEOREM LedgerTypeCorrect == Spec => []TypeOK
<1>1. IInv => TypeOK
  BY DEF IInv
<1> QED
  BY <1>1, Invariance, PTL
-----------------------------------------------------------------------------
(***************************************************************************)
(* The ledger of a ticker folds or not by its own trades alone.            *)
(***************************************************************************)
LEMMA OtherTickers ==
  ASSUME NEW R, NEW S, NEW k, OfTicker(R, k) = OfTicker(S, k), TickerFolds(R, k)
  PROVE  TickerFolds(S, k)
BY DEF TickerFolds

(***************************************************************************)
(* An UPDATE that was not overtaken leaves the row that was validated, at  *)
(* its wall clock.                                                         *)
(***************************************************************************)
LEMMA UpdateWritesTheCandidate ==
  ASSUME IInv, NEW c \in Clients, Open(c), req[c].op = "update", req[c] \in Request
  PROVE  /\ \A f \in Columns : f # "traded_at" => Updated(req[c])[f] = req[c].candidate[f]
         /\ Updated(req[c]).ticker = req[c].candidate.ticker
         /\ req[c].offset = 0 => Updated(req[c]) = req[c].candidate
<1> DEFINE r == req[c]
<1>1. r.candidate = [f \in Columns |-> r.candidate[f]]
  BY TradeIsARecord DEF Request
<1>2. \A f \in Columns \ r.columns : r.candidate[f] = trades[r.target][f]
  BY DEF IInv, UpToDate
<1>3. Updated(r) = [f \in Columns |-> IF f \in r.columns THEN WallClock(r)[f] ELSE trades[r.target][f]]
  BY DEF Updated
<1>4. /\ \A f \in Columns : f # "traded_at" => WallClock(r)[f] = r.candidate[f]
      /\ r.offset = 0 => WallClock(r) = r.candidate
  BY WallClockOf
<1>5. "ticker" \in Columns
  BY DEF Columns
<1> HIDE DEF r
<1>6. \A f \in Columns : f # "traded_at" => Updated(r)[f] = r.candidate[f]
  BY <1>2, <1>3, <1>4
<1>7. ASSUME r.offset = 0 PROVE Updated(r) = r.candidate
  BY <1>1, <1>2, <1>3, <1>4, <1>7
<1> QED
  BY <1>5, <1>6, <1>7 DEF r

(***************************************************************************)
(* And an edit that was not overtaken leaves the ledger that was           *)
(* validated, but for the ticker of the row it shifts when it names its    *)
(* instant in another zone.                                                *)
(***************************************************************************)
LEMMA EditLeavesAFold ==
  ASSUME IInv, NEW c \in Clients \ overtaken, CommitUpdate(c) \/ CommitDelete(c),
         NEW k \in Tickers, req[c].offset = 0 \/ k # req[c].candidate.ticker
  PROVE  TickerFolds(Records(Stored)', k)
<1> DEFINE r == req[c]
<1>1. /\ pc[c] = "commit" /\ r.op \in {"update", "delete"} /\ r.target \in Stored
      /\ r \in Request
  BY DEF CommitUpdate, CommitDelete, IInv, TypeOK
<1>2. Open(c) /\ Acceptable(r)
  BY <1>1 DEF Open, IInv, Validated
<1>3. CASE CommitUpdate(c)
  <2> DEFINE others == Records(Stored \ {r.target})
             new == Record(r.target, Updated(r))
             checked == Record(r.target, r.candidate)
  <2>1. r.op = "update" /\ trades' = [trades EXCEPT ![r.target] = Updated(r)]
    BY <1>3 DEF CommitUpdate
  <2>2. Updated(r).ticker = r.candidate.ticker /\ (r.offset = 0 => Updated(r) = r.candidate)
    BY <1>1, <1>2, <2>1, UpdateWritesTheCandidate
  <2>3. Stored' = Stored
    BY <2>1 DEF Stored, IInv, TypeOK
  <2>4. /\ trades'[r.target] = Updated(r)
        /\ \A i \in Stored \ {r.target} : trades'[i] = trades[i]
    BY <1>1, <2>1 DEF IInv, TypeOK
  <2>5. Records(Stored)' = others \cup {new}
    BY <1>1, <2>3, <2>4 DEF Records
  <2>6. TickerFolds(others \cup {checked}, k)
    BY <1>2, <2>1 DEF Acceptable, Folds
  <2>7. new.trade = Updated(r) /\ checked.trade = r.candidate
    BY DEF Record
  <2>8. r.offset = 0 => new = checked
    BY <2>2
  <2> HIDE DEF others, new, checked
  <2>9. OfTicker(others \cup {checked}, k) = OfTicker(others \cup {new}, k)
    BY <2>2, <2>7, <2>8 DEF OfTicker
  <2>10. TickerFolds(others \cup {new}, k)
    BY <2>6, <2>9, OtherTickers
  <2> QED
    BY <2>5, <2>10
<1>4. CASE CommitDelete(c)
  <2>1. r.op = "delete" /\ trades' = [i \in Stored \ {r.target} |-> trades[i]]
    BY <1>4 DEF CommitDelete
  <2>2. Stored' = Stored \ {r.target}
    BY <2>1 DEF Stored
  <2>3. Records(Stored)' = Records(Stored \ {r.target})
    BY <2>1, <2>2 DEF Records
  <2> QED
    BY <1>2, <2>1, <2>3 DEF Acceptable, Folds
<1> QED
  BY <1>3, <1>4

(***************************************************************************)
(* An update or a delete that no other commit has overtaken, and that      *)
(* names no instant in another zone than UTC, leaves a ledger that folds,  *)
(* for any ledger it found, any number of concurrent requests and any      *)
(* patch, whatever zones and races have left there (update_trade,          *)
(* delete_trade in portfolio/service.py).                                  *)
(***************************************************************************)
THEOREM EditsMendTheLedger == Spec => EditsMend
<1>1. IInv /\ [Next]_vars =>
        [ \A c \in Clients \ overtaken :
            (CommitUpdate(c) \/ CommitDelete(c)) /\ req[c].offset = 0 => Folds(Records(Stored))' ]_vars
  BY EditLeavesAFold DEF Folds
<1> QED
  BY <1>1, Invariance, PTL DEF Spec, EditsMend
-----------------------------------------------------------------------------
\* The quantity that a set of records leaves held.
Held(S) == SumFunctionOnSet([x \in S |-> Signed(x.trade)], S)

\* Records as the fold gets them: finitely many, each under an id of its own.
IsLedger(S) ==
  /\ IsFiniteSet(S)
  /\ \A x \in S : x = Record(x.id, x.trade) /\ x.id \in Nat /\ x.trade \in Trade
  /\ \A x, y \in S : x.id = y.id => x = y

(***************************************************************************)
(* The quantity of a trade counts up or down, and only a sell counts down. *)
(***************************************************************************)
LEMMA SignedIsANumber ==
  ASSUME NEW t \in Trade
  PROVE  Signed(t) \in Int /\ (t.side # "sell" => Signed(t) > 0)
<1>1. t.quantity \in Nat \ {0} /\ t.side \in {"buy", "sell"}
  BY QuantitiesAssumption DEF Trade, Sides
<1> QED
  BY <1>1 DEF Signed

(***************************************************************************)
(* What a set of records leaves held is a sum, from which any record can   *)
(* be split off.                                                           *)
(***************************************************************************)
LEMMA HeldIsASum ==
  ASSUME NEW S, IsLedger(S)
  PROVE  /\ Held({}) = 0 /\ Held(S) \in Int
         /\ \A x \in S : Held(S) = Signed(x.trade) + Held(S \ {x})
<1> DEFINE fun(T) == [x \in T |-> Signed(x.trade)]
<1>1. \A T \in SUBSET S : IsFiniteSet(T) /\ \A x \in T : fun(T)[x] = Signed(x.trade) /\ Signed(x.trade) \in Int
  <2>1. \A T \in SUBSET S : IsFiniteSet(T)
    BY FS_Subset DEF IsLedger
  <2>2. \A x \in S : Signed(x.trade) \in Int
    BY SignedIsANumber DEF IsLedger
  <2> QED
    BY <2>1, <2>2
<1>2. Held({}) = 0
  <2>1. IsFiniteSet({})
    BY FS_EmptySet
  <2>2. SumFunctionOnSet(fun({}), {}) = 0
    <3> DEFINE g == fun({})
    <3> HIDE DEF g
    <3>1. \A x \in {} : g[x] \in Int
      OBVIOUS
    <3>2. SumFunctionOnSet(g, {}) = 0
      BY ONLY <2>1, <3>1, SumOfSet
    <3> QED
      BY <3>2 DEF g
  <2> QED
    BY <2>2 DEF Held
<1>3. IsFiniteSet(S) /\ \A x \in S : fun(S)[x] \in Int /\ fun(S)[x] = Signed(x.trade)
  BY <1>1
<1>4. /\ Held(S) \in Int
      /\ \A x \in S : Held(S) = Signed(x.trade) + SumFunctionOnSet(fun(S), S \ {x})
  <2> DEFINE g == fun(S)
  <2>1. Held(S) = SumFunctionOnSet(g, S)
    BY DEF Held
  <2> HIDE DEF g
  <2>2. \A x \in S : g[x] \in Int
    BY <1>3 DEF g
  <2>3. SumFunctionOnSet(g, S) \in Int /\ \A x \in S : SumFunctionOnSet(g, S) = g[x] + SumFunctionOnSet(g, S \ {x})
    BY ONLY <1>3, <2>2, SumOfSet
  <2> QED
    BY <1>3, <2>1, <2>3 DEF g
<1>5. ASSUME NEW x \in S PROVE SumFunctionOnSet(fun(S), S \ {x}) = Held(S \ {x})
  <2> DEFINE g == fun(S)  T == S \ {x}  h == fun(T)
  <2>1. IsFiniteSet(T) /\ \A y \in T : g[y] \in Int /\ g[y] = h[y]
    BY <1>1
  <2>2. Held(T) = SumFunctionOnSet(h, T)
    BY DEF Held
  <2> HIDE DEF g, T, h
  <2>3. SumFunctionOnSet(g, T) = SumFunctionOnSet(h, T)
    BY ONLY <2>1, SumAgrees
  <2> QED
    BY <2>2, <2>3 DEF g, T
<1> QED
  BY <1>2, <1>4, <1>5

(***************************************************************************)
(* A non-empty ledger has a last record.                                   *)
(***************************************************************************)
LEMMA LastRecord ==
  ASSUME NEW T, IsLedger(T), T # {}
  PROVE  \E x \in T : \A y \in T : y = x \/ Before(y, x)
<1> DEFINE Below(x) == {y \in T : Before(y, x)}
<1>1. \A x \in T : x.id \in Nat /\ x.trade.traded_at \in Nat
  BY TimesAssumption DEF IsLedger, Trade
<1>2. \A x, y \in T : x = y \/ Before(x, y) \/ Before(y, x)
  BY <1>1 DEF IsLedger, Before
<1>3. \A x, y, z \in T : Before(x, y) /\ Before(y, z) => Before(x, z)
  BY <1>1 DEF Before
<1>4. \A x \in T : ~ Before(x, x)
  BY <1>1 DEF Before
<1>5. \A x \in T : /\ Below(x) \in SUBSET T /\ IsFiniteSet(Below(x))
                   /\ Cardinality(Below(x)) \in Nat /\ Cardinality(Below(x)) <= Cardinality(T)
  <2>1. \A x \in T : Below(x) \in SUBSET T
    OBVIOUS
  <2>2. IsFiniteSet(T)
    BY DEF IsLedger
  <2> HIDE DEF Below
  <2> QED
    BY <2>1, <2>2, FS_Subset, FS_CardinalityType
<1>6. ASSUME NEW x \in T, NEW y \in T, Before(x, y) PROVE Cardinality(Below(x)) < Cardinality(Below(y))
  <2>1. Below(x) \subseteq Below(y)
    BY <1>3, <1>6
  <2>2. x \in Below(y) /\ x \notin Below(x)
    BY <1>4, <1>6
  <2> HIDE DEF Below
  <2>3. Below(x) # Below(y)
    BY <2>2
  <2>4. Cardinality(Below(x)) <= Cardinality(Below(y))
    BY <1>5, <2>1, FS_Subset
  <2>5. Cardinality(Below(x)) = Cardinality(Below(y)) => Below(x) = Below(y)
    BY <1>5, <2>1, FS_Subset
  <2> QED
    BY <1>5, <2>3, <2>4, <2>5
<1> DEFINE Ranks == {Cardinality(Below(x)) : x \in T}
<1> HIDE DEF Below
<1>7. Ranks \in SUBSET Nat /\ Ranks # {} /\ (\A r \in Ranks : r <= Cardinality(T)) /\ Cardinality(T) \in Nat
  <2>1. Cardinality(T) \in Nat
    BY FS_CardinalityType DEF IsLedger
  <2> QED
    BY <1>5, <2>1
<1>8. PICK m \in Ranks : \A r \in Ranks : r <= m
  BY <1>7, GreatestNatural
<1>9. PICK x \in T : m = Cardinality(Below(x))
  BY <1>8
<1>10. ASSUME NEW y \in T PROVE ~ Before(x, y)
  <2>1. Cardinality(Below(y)) <= Cardinality(Below(x))
    BY <1>8, <1>9
  <2> QED
    BY <1>5, <1>6, <2>1
<1> QED
  BY <1>2, <1>10

\* A part of a ledger that holds, with a record, all that come before it.
Begins(T, own) == T \in SUBSET own /\ \A x \in T, y \in own : Before(y, x) => y \in T

(***************************************************************************)
(* Part of a ledger is a ledger.                                           *)
(***************************************************************************)
LEMMA LedgerParts ==
  ASSUME NEW S, IsLedger(S), NEW T \in SUBSET S
  PROVE  IsLedger(T)
BY FS_Subset DEF IsLedger

(***************************************************************************)
(* What is held after a record is what it and those before it leave held.  *)
(***************************************************************************)
LEMMA HeldUpTo ==
  ASSUME NEW own, NEW y
  PROVE  HeldAfter(own, y) = Held({z \in own : z = y \/ Before(z, y)})
BY DEF HeldAfter, SumFunction, Held

(***************************************************************************)
(* When no sell exceeds what is held at its point, nothing is owed after   *)
(* any initial part of the ledger, whether it ends in a sell or not.       *)
(***************************************************************************)
LEMMA NothingOwed ==
  ASSUME NEW own, IsLedger(own), NeverOversold(own), NEW T, Begins(T, own)
  PROVE  Held(T) >= 0
<1> DEFINE Good(t) == Begins(t, own) => Held(t) >= 0
           Bad == {Cardinality(t) : t \in {u \in SUBSET own : ~ Good(u)}}
<1>1. \A t \in SUBSET own : IsLedger(t) /\ IsFiniteSet(t) /\ Cardinality(t) \in Nat
  BY LedgerParts, FS_CardinalityType DEF IsLedger
<1>2. Bad = {}
  <2>1. SUFFICES ASSUME Bad # {} PROVE FALSE
    OBVIOUS
  <2>2. Bad \in SUBSET Nat
    BY <1>1
  <2>3. PICK t \in SUBSET own : ~ Good(t) /\ \A u \in SUBSET own : ~ Good(u) => Cardinality(t) <= Cardinality(u)
    <3>1. PICK k \in Bad : \A l \in Bad : k <= l
      BY <2>1, <2>2, LeastNatural
    <3> QED
      BY <3>1
  <2>4. Begins(t, own) /\ IsLedger(t) /\ Held(t) \in Int /\ ~ Held(t) >= 0
    BY <1>1, <2>3, HeldIsASum
  <2>5. t # {}
    <3>1. Held({}) = 0
      BY <2>4, HeldIsASum
    <3> QED
      BY <2>4, <3>1
  <2>6. PICK x \in t : \A y \in t : y = x \/ Before(y, x)
    BY <2>4, <2>5, LastRecord
  <2>7. x \in own /\ x.trade \in Trade
    BY DEF IsLedger
  <2>8. CASE x.trade.side = "sell"
    <3>1. t = {z \in own : z = x \/ Before(z, x)}
      BY <2>4, <2>6 DEF Begins
    <3>2. HeldAfter(own, x) >= 0
      BY <2>7, <2>8 DEF NeverOversold
    <3> QED
      BY <2>4, <3>1, <3>2, HeldUpTo
  <2>9. CASE x.trade.side # "sell"
    <3> DEFINE u == t \ {x}
    <3>1. Held(t) = Signed(x.trade) + Held(u)
      BY <2>4, HeldIsASum
    <3>2. u \in SUBSET own /\ Cardinality(u) = Cardinality(t) - 1 /\ Cardinality(t) \in Nat
      BY <1>1, FS_RemoveElement
    <3>3. Begins(u, own)
      <4>1. ASSUME NEW a \in u, NEW b \in own, Before(b, a) PROVE b \in u
        <5>1. b \in t
          BY <2>4, <4>1 DEF Begins
        <5>2. b # x
          <6>1. Before(a, x) /\ ~ (Before(a, x) /\ Before(x, a))
            <7>1. a.id \in Nat /\ x.id \in Nat /\ a.trade.traded_at \in Nat /\ x.trade.traded_at \in Nat
              BY <2>4, TimesAssumption DEF IsLedger, Trade
            <7> QED
              BY <2>6, <7>1 DEF Before
          <6> QED
            BY <4>1, <6>1
        <5> QED
          BY <5>1, <5>2
      <4> QED
        BY <3>2, <4>1 DEF Begins
    <3> HIDE DEF u
    <3>4. ~ Cardinality(t) <= Cardinality(u)
      BY <1>1, <3>2
    <3>5. Held(u) >= 0
      BY <2>3, <3>2, <3>3, <3>4
    <3>6. Signed(x.trade) \in Int /\ Signed(x.trade) > 0
      BY <2>7, <2>9, SignedIsANumber
    <3>7. Held(u) \in Int
      BY <1>1, <3>2, HeldIsASum
    <3> QED
      BY <2>4, <3>1, <3>5, <3>6, <3>7
  <2> QED
    BY <2>8, <2>9
<1> QED
  BY <1>2 DEF Begins

(***************************************************************************)
(* A trade that folds as the first of its instant, onto a ledger that      *)
(* folds without it, also folds as the last of its instant: the other      *)
(* trades of the instant sell no more than they did, and what is left for  *)
(* it is what all of them leave together.                                  *)
(***************************************************************************)
LEMMA CreateIsLast ==
  ASSUME NEW own, IsLedger(own), NeverOversold(own),
         NEW t \in Trade, NeverOversold(own \cup {Record(None, t)}),
         NEW n \in Nat \ {0}, \A x \in own : x.id \in Nat \ {0} /\ x.id < n
  PROVE  NeverOversold(own \cup {Record(n, t)})
<1> DEFINE cand == Record(None, t)
           new == Record(n, t)
           first == own \cup {cand}
           last == own \cup {new}
           upTo(y) == {z \in own : z = y \/ Before(z, y)}
<1>1. /\ cand.id = 0 /\ cand.trade = t /\ new.id = n /\ new.trade = t
      /\ cand \notin own /\ new \notin own
      /\ cand = Record(cand.id, cand.trade) /\ new = Record(new.id, new.trade)
  BY DEF Record, None
<1>2. t.traded_at \in Nat /\ \A x \in own : x.trade.traded_at \in Nat /\ x.id \in Nat
  BY TimesAssumption DEF Trade, IsLedger
<1>3. IsLedger(first) /\ IsLedger(last)
  <2>1. IsFiniteSet(first) /\ IsFiniteSet(last)
    BY FS_AddElement DEF IsLedger
  <2> HIDE DEF cand, new
  <2> QED
    BY <1>1, <2>1 DEF IsLedger
<1> HIDE DEF cand, new
<1>4. ASSUME NEW T \in SUBSET own
      PROVE  Held(T \cup {new}) = Held(T \cup {cand})
  <2> DEFINE A == T \cup {new}  B == T \cup {cand}
  <2>1. IsLedger(A) /\ IsLedger(B) /\ new \in A /\ cand \in B /\ A \ {new} = T /\ B \ {cand} = T
    <3>1. A \in SUBSET last /\ B \in SUBSET first
      OBVIOUS
    <3>2. new \in A /\ cand \in B /\ A \ {new} = T /\ B \ {cand} = T
      BY <1>1
    <3> HIDE DEF A, B, first, last
    <3> QED
      BY <1>3, <3>1, <3>2, LedgerParts
  <2> HIDE DEF A, B
  <2>2. Held(A) = Signed(new.trade) + Held(A \ {new})
    BY <2>1, HeldIsASum
  <2>3. Held(B) = Signed(cand.trade) + Held(B \ {cand})
    BY <2>1, HeldIsASum
  <2> QED
    BY <1>1, <2>1, <2>2, <2>3 DEF A, B
<1>5. ASSUME NEW y \in own, y.trade.side = "sell" PROVE HeldAfter(last, y) >= 0
  <2>1. CASE t.traded_at < y.trade.traded_at
    <3>1. {z \in last : z = y \/ Before(z, y)} = upTo(y) \cup {new}
      BY <1>1, <2>1 DEF Before
    <3>2. {z \in first : z = y \/ Before(z, y)} = upTo(y) \cup {cand}
      BY <1>1, <2>1 DEF Before
    <3>3. HeldAfter(first, y) >= 0
      BY <1>5 DEF NeverOversold, cand
    <3>4. HeldAfter(last, y) = Held(upTo(y) \cup {new}) /\ HeldAfter(first, y) = Held(upTo(y) \cup {cand})
      BY <3>1, <3>2, HeldUpTo
    <3>5. upTo(y) \in SUBSET own
      OBVIOUS
    <3> HIDE DEF upTo
    <3> QED
      BY <1>4, <3>3, <3>4, <3>5
  <2>2. CASE ~ t.traded_at < y.trade.traded_at
    <3>1. ~ Before(new, y) /\ new # y
      BY <1>1, <1>2, <2>2 DEF Before
    <3>2. {z \in last : z = y \/ Before(z, y)} = upTo(y)
      BY <3>1
    <3>3. HeldAfter(last, y) = HeldAfter(own, y)
      BY <3>2, HeldUpTo
    <3> QED
      BY <1>5, <3>3 DEF NeverOversold
  <2> QED
    BY <2>1, <2>2
<1>6. HeldAfter(last, new) >= 0
  <2> DEFINE T == {z \in own : z.trade.traded_at <= t.traded_at}
  <2>1. {z \in last : z = new \/ Before(z, new)} = T \cup {new}
    BY <1>1, <1>2 DEF Before
  <2>2. Begins(T \cup {cand}, first)
    BY <1>1, <1>2 DEF Begins, Before
  <2>3. T \in SUBSET own
    OBVIOUS
  <2> HIDE DEF T
  <2>4. HeldAfter(last, new) = Held(T \cup {new})
    BY <2>1, HeldUpTo
  <2>5. NeverOversold(first)
    BY DEF cand
  <2>6. Held(T \cup {cand}) >= 0
    <3> HIDE DEF first
    <3> QED
      BY <1>3, <2>2, <2>5, NothingOwed
  <2> QED
    BY <1>4, <2>3, <2>4, <2>6
<1> QED
  BY <1>5, <1>6 DEF NeverOversold, new

(***************************************************************************)
(* The stored trades of a ticker are a ledger.                             *)
(***************************************************************************)
LEMMA StoredIsALedger ==
  ASSUME TypeOK, NEW k
  PROVE  /\ IsLedger(OfTicker(Records(Stored), k))
         /\ \A x \in OfTicker(Records(Stored), k) : x.id \in Stored
<1> DEFINE R == Records(Stored)
<1>1. IsFiniteSet(Stored)
  <2>1. IsFiniteSet(Ids)
    BY MaxIdAssumption, FS_Interval DEF Ids
  <2> QED
    BY <2>1, FS_Subset DEF TypeOK
<1>2. IsFiniteSet(R)
  <2> DEFINE f == [i \in Stored |-> Record(i, trades[i])]
  <2>1. f \in Surjection(Stored, R)
    BY DEF Surjection, Records
  <2> HIDE DEF f, R
  <2> QED
    BY <1>1, <2>1, FS_Surjection
<1>3. \A x \in R : /\ x = Record(x.id, x.trade) /\ x.id \in Stored
                   /\ x.id \in Nat /\ x.trade \in Trade /\ x.trade = trades[x.id]
  BY MaxIdAssumption DEF Records, Record, TypeOK, Ids
<1>4. \A x, y \in R : x.id = y.id => x = y
  BY <1>3
<1>5. OfTicker(R, k) \in SUBSET R
  BY DEF OfTicker
<1> HIDE DEF R
<1>6. IsLedger(R)
  BY <1>2, <1>3, <1>4 DEF IsLedger
<1> QED
  BY <1>3, <1>5, <1>6, LedgerParts DEF R

\* A create carries no id.
Creating == \A c \in Clients : req[c].op = "create" => req[c].target = None

(***************************************************************************)
(* Every step keeps it so.                                                 *)
(***************************************************************************)
LEMMA CreatingStep == IInv /\ Creating /\ [Next]_vars => Creating'
<1> SUFFICES ASSUME IInv, Creating, [Next]_vars PROVE Creating'
  OBVIOUS
<1>1. req = [c \in Clients |-> req[c]]
  BY DEF IInv, TypeOK
<1>2. CASE UNCHANGED req
  BY <1>2 DEF Creating
<1>3. ASSUME NEW c \in Clients, End(c) PROVE Creating'
  BY <1>1, <1>3 DEF End, Creating, NoRequest
<1>4. ASSUME NEW c \in Clients, NEW r, Begin(c, r), r.op = "create" => r.target = None
      PROVE  Creating'
  BY <1>1, <1>4 DEF Begin, Creating
<1>5. ASSUME NEW c \in Clients, BeginCreate(c) \/ BeginUpdate(c) \/ BeginDelete(c) PROVE Creating'
  <2>1. CASE BeginCreate(c)
    BY <1>4, <2>1 DEF BeginCreate
  <2>2. CASE BeginUpdate(c)
    BY <1>4, <2>2 DEF BeginUpdate
  <2>3. CASE BeginDelete(c)
    BY <1>4, <2>3 DEF BeginDelete
  <2> QED
    BY <1>5, <2>1, <2>2, <2>3
<1>6. ASSUME NEW c \in Clients, CommitCreate(c) \/ CommitUpdate(c) \/ CommitDelete(c) PROVE Creating'
  BY <1>3, <1>6 DEF CommitCreate, CommitUpdate, CommitDelete, Commit
<1>7. ASSUME NEW c \in Clients, Refused(c) \/ RowGone(c) \/ Fail(c) PROVE Creating'
  BY <1>3, <1>7 DEF Refused, RowGone, Fail, GiveUp
<1>8. ASSUME NEW c \in Clients, Validate(c) PROVE Creating'
  BY <1>2, <1>8 DEF Validate
<1> QED
  BY <1>2, <1>5, <1>6, <1>7, <1>8 DEF Next, Tick, vars

(***************************************************************************)
(* A create keeps the ledgers foldable: that of its own ticker because it  *)
(* was validated on it, unless it was overtaken, and that of any other     *)
(* because it does not touch it.                                           *)
(***************************************************************************)
LEMMA CreateKeepsFolds ==
  ASSUME IInv, Creating, LedgerFolds, NEW c \in Clients, CommitCreate(c)
  PROVE  LedgerFolds'
<1> DEFINE r == req[c]
           t == WallClock(r)
           n == NextId
           before == Records(Stored)
<1>1. /\ r \in Request /\ t \in Trade /\ pc[c] = "commit" /\ r.op = "create" /\ r.target = None
      /\ t.ticker = r.candidate.ticker /\ (r.offset = 0 => t = r.candidate)
  <2>1. /\ r \in Request /\ t \in Trade /\ pc[c] = "commit" /\ r.op = "create"
        /\ r.target = None
    BY DEF CommitCreate, IInv, TypeOK, Creating
  <2> QED
    BY <2>1, WallClockOf
<1>2. n \in Nat \ {0} /\ \A i \in Stored : i \in Nat \ {0} /\ i < n
  BY NextIdIsNew DEF IInv
<1>3. trades' = [i \in Stored \cup {n} |-> IF i = n THEN t ELSE trades[i]]
  BY DEF CommitCreate
<1> HIDE DEF n, t
<1>4. Records(Stored)' = before \cup {Record(n, t)}
  <2>1. Stored' = Stored \cup {n} /\ n \notin Stored
    BY <1>2, <1>3 DEF Stored
  <2>2. trades'[n] = t /\ \A i \in Stored : trades'[i] = trades[i]
    BY <1>3, <2>1
  <2> QED
    BY <2>1, <2>2 DEF Records
<1> SUFFICES ASSUME NEW k \in Tickers \ suspect' PROVE TickerFolds(before \cup {Record(n, t)}, k)
  BY <1>4 DEF LedgerFolds
<1>5. CASE t.ticker # k
  <2>1. OfTicker(before \cup {Record(n, t)}, k) = OfTicker(before, k)
    BY <1>5 DEF OfTicker, Record
  <2>2. k \notin suspect
    BY <1>1 DEF CommitCreate, Commit, LeftSuspect
  <2>3. TickerFolds(before, k)
    BY <2>2 DEF LedgerFolds
  <2> HIDE DEF before
  <2> QED
    BY <2>1, <2>3, OtherTickers
<1>6. CASE t.ticker = k
  <2> DEFINE own == OfTicker(before, k)
  <2>1. c \notin overtaken /\ k \notin suspect /\ t = r.candidate
    BY <1>1, <1>6 DEF CommitCreate, Commit, LeftSuspect
  <2>2. NeverOversold(own) /\ OneCurrency(own)
    BY <2>1 DEF LedgerFolds, TickerFolds
  <2>3. Folds(Records(Stored \ {None}) \cup {Record(None, t)})
    <3>1. Acceptable(r)
      BY <1>1, <2>1 DEF IInv, Validated, Open
    <3> QED
      BY <1>1, <2>1, <3>1 DEF Acceptable
  <2>4. Records(Stored \ {None}) = before
    BY <1>2 DEF None
  <2>5. OfTicker(before \cup {Record(None, t)}, k) = own \cup {Record(None, t)}
    BY <1>6 DEF OfTicker, Record
  <2>6. OfTicker(before \cup {Record(n, t)}, k) = own \cup {Record(n, t)}
    BY <1>6 DEF OfTicker, Record
  <2>7. IsLedger(own) /\ \A x \in own : x.id \in Nat \ {0} /\ x.id < n
    BY <1>2, StoredIsALedger DEF IInv
  <2> HIDE DEF own, before
  <2>8. NeverOversold(own \cup {Record(None, t)}) /\ OneCurrency(own \cup {Record(None, t)})
    BY <2>3, <2>4, <2>5 DEF Folds, TickerFolds
  <2>9. NeverOversold(own \cup {Record(n, t)})
    BY <1>1, <1>2, <2>2, <2>7, <2>8, CreateIsLast
  <2>10. OneCurrency(own \cup {Record(n, t)})
    <3>1. ASSUME NEW x \in own \cup {Record(n, t)}
          PROVE  \E y \in own \cup {Record(None, t)} : y.trade = x.trade
      <4>1. Record(n, t).trade = t /\ Record(None, t).trade = t
        BY DEF Record
      <4> HIDE DEF t
      <4> QED
        BY <3>1, <4>1
    <3> QED
      BY <2>8, <3>1 DEF OneCurrency
  <2> QED
    BY <2>6, <2>9, <2>10 DEF TickerFolds
<1> QED
  BY <1>5, <1>6

(***************************************************************************)
(* So does an update or a delete, overtaken or not.                        *)
(***************************************************************************)
LEMMA EditKeepsFolds ==
  ASSUME IInv, LedgerFolds, NEW c \in Clients, CommitUpdate(c) \/ CommitDelete(c)
  PROVE  LedgerFolds'
<1>1. CASE c \notin overtaken
  <2> SUFFICES ASSUME NEW k \in Tickers \ suspect' PROVE TickerFolds(Records(Stored)', k)
    BY DEF LedgerFolds
  <2>1. req[c].offset = 0 \/ k # req[c].candidate.ticker
    BY <1>1 DEF CommitUpdate, CommitDelete, Commit, LeftSuspect
  <2> QED
    BY <1>1, <2>1, EditLeavesAFold
<1>2. CASE c \in overtaken
  <2> DEFINE i == req[c].target
             before == Records(Stored)
             after == Records(Stored)'
  <2>1. i \in Stored /\ trades = [j \in Stored |-> trades[j]]
    BY DEF CommitUpdate, CommitDelete, IInv, TypeOK
  <2> SUFFICES ASSUME NEW k \in Tickers \ suspect' PROVE TickerFolds(after, k)
    BY DEF LedgerFolds
  <2>2. k \notin suspect /\ trades[i].ticker # k
    BY <1>2 DEF CommitUpdate, CommitDelete, Commit
  <2>3. /\ Stored' \subseteq Stored /\ Stored \ {i} \subseteq Stored'
        /\ \A j \in Stored \ {i} : trades'[j] = trades[j]
        /\ i \in Stored' => trades'[i].ticker # k
    <3>1. CASE CommitUpdate(c)
      <4>1. trades' = [trades EXCEPT ![i] = Updated(req[c])] /\ Updated(req[c]).ticker # k
        BY <1>2, <3>1 DEF CommitUpdate, Commit
      <4> HIDE DEF i
      <4> QED
        BY <2>1, <4>1 DEF Stored
    <3>2. CASE CommitDelete(c)
      <4>1. trades' = [j \in Stored \ {i} |-> trades[j]]
        BY <3>2 DEF CommitDelete
      <4> HIDE DEF i
      <4> QED
        BY <4>1 DEF Stored
    <3> QED
      BY <3>1, <3>2
  <2> HIDE DEF i
  <2>4. OfTicker(after, k) = OfTicker(before, k)
    BY <2>1, <2>2, <2>3 DEF OfTicker, Records, Record
  <2>5. TickerFolds(before, k)
    BY <2>2 DEF LedgerFolds
  <2> HIDE DEF before, after
  <2> QED
    BY <2>4, <2>5, OtherTickers
<1> QED
  BY <1>1, <1>2

(***************************************************************************)
(* The ledger of a ticker can be folded unless a request that was          *)
(* overtaken by another, or that named its instant in another zone than    *)
(* UTC, has written one of its rows since the last edit that was neither,  *)
(* for any number of concurrent requests, trades, tickers, zones and       *)
(* instants (Portfolio!LedgerFolds; _validate_with, create_trade,          *)
(* update_trade, delete_trade in portfolio/service.py, fold_trades in      *)
(* portfolio/ledger.py).                                                   *)
(***************************************************************************)
THEOREM LedgersFold == Spec => []LedgerFolds
<1>1. Init => Creating /\ LedgerFolds
  <2> SUFFICES ASSUME Init PROVE Creating /\ LedgerFolds
    OBVIOUS
  <2>1. Creating
    BY DEF Init, Creating, NoRequest
  <2>2. Records(Stored) = {}
    BY DEF Init, Stored, Records
  <2>3. \A k \in Tickers : OfTicker(Records(Stored), k) = {}
    BY <2>2 DEF OfTicker
  <2> QED
    BY <2>1, <2>3 DEF LedgerFolds, TickerFolds, OneCurrency, NeverOversold
<1>2. IInv /\ Creating /\ LedgerFolds /\ [Next]_vars => LedgerFolds'
  <2> SUFFICES ASSUME IInv, Creating, LedgerFolds, [Next]_vars PROVE LedgerFolds'
    OBVIOUS
  <2>1. CASE UNCHANGED <<trades, suspect>>
    BY <2>1 DEF LedgerFolds, Records, Stored
  <2>2. ASSUME NEW c \in Clients, BeginCreate(c) \/ BeginUpdate(c) \/ BeginDelete(c) \/ Validate(c)
        PROVE  LedgerFolds'
    BY <2>1, <2>2 DEF BeginCreate, BeginUpdate, BeginDelete, Begin, Validate
  <2>3. ASSUME NEW c \in Clients, CommitCreate(c) PROVE LedgerFolds'
    BY <2>3, CreateKeepsFolds
  <2>4. ASSUME NEW c \in Clients, CommitUpdate(c) \/ CommitDelete(c) PROVE LedgerFolds'
    BY <2>4, EditKeepsFolds
  <2>5. ASSUME NEW c \in Clients, Refused(c) \/ RowGone(c) \/ Fail(c) PROVE LedgerFolds'
    BY <2>1, <2>5 DEF Refused, RowGone, Fail, GiveUp
  <2> QED
    BY <2>1, <2>2, <2>3, <2>4, <2>5 DEF Next, Tick, vars
<1> QED
  BY <1>1, <1>2, Invariance, CreatingStep, PTL DEF Spec
=============================================================================
