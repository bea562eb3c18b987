-------------------------- MODULE WalkForwardTheorems -------------------------
(***************************************************************************)
(* Proofs about WalkForward: in every world, for every strategy and every  *)
(* length of the tape, decisions use nothing from the future and trades    *)
(* are filled after them.                                                  *)
(***************************************************************************)
EXTENDS WalkForward, FiniteSetTheorems, WellFoundedInduction, TLAPS

(***************************************************************************)
(* A set of naturals has a least element.                                  *)
(***************************************************************************)
LEMMA LeastNatural ==
  ASSUME NEW S \in SUBSET Nat, S # {}
  PROVE  \E m \in S : \A t \in S : m <= t
<1> DEFINE R == {p \in Nat \X Nat : p[1] < p[2]}
<1>1. IsWellFoundedOn(R, Nat)
  BY NatLessThanWellFounded DEF OpToRel
<1>2. PICK m \in S : \A t \in S : ~ (<<t, m>> \in R)
  BY <1>1, WFMin
<1>3. ASSUME NEW t \in S PROVE m <= t
  <2>1. <<t, m>> \in Nat \X Nat /\ ~ t < m
    BY <1>2
  <2> QED
    BY <2>1
<1> QED
  BY <1>3

(***************************************************************************)
(* A bounded one has a greatest element.                                   *)
(***************************************************************************)
LEMMA GreatestNatural ==
  ASSUME NEW S \in SUBSET Nat, S # {}, NEW b \in Nat, \A t \in S : t <= b
  PROVE  \E m \in S : \A t \in S : t <= m
<1>0. \A t \in S : t \in Nat /\ b - t \in Nat
  OBVIOUS
<1>1. PICK k \in {b - t : t \in S} : \A l \in {b - t : t \in S} : k <= l
  <2>1. {b - t : t \in S} \in SUBSET Nat /\ {b - t : t \in S} # {}
    BY <1>0
  <2> QED
    BY <2>1, LeastNatural
<1>2. PICK m \in S : k = b - m
  BY <1>1
<1>3. \A t \in S : t <= m
  BY <1>0, <1>1, <1>2
<1> QED
  BY <1>3
-----------------------------------------------------------------------------

(***************************************************************************)
(* The bounds of the tape are numbers.                                     *)
(***************************************************************************)
LEMMA TapeOK ==
  /\ Session \subseteq Nat \ {0} /\ Sessions \in Nat
  /\ Moments \subseteq Nat
  /\ \A s \in Session : /\ Stamp(s) \in Moments /\ OpenAt(s) \in Moments /\ CloseAt(s) \in Moments
                        /\ Stamp(s) = 3 * s /\ OpenAt(s) = 3 * s + 1 /\ CloseAt(s) = 3 * s + 2
BY TapeAssumption DEF Session, Moments, Stamp, OpenAt, CloseAt

(***************************************************************************)
(* The last knowable session is the last that has closed, or none: the     *)
(* sessions up to it are those that have closed.                           *)
(***************************************************************************)
LEMMA KnowableIsClosed ==
  ASSUME NEW asOf \in Moments
  PROVE  /\ KnowableThrough(asOf) \in Nat
         /\ \A s \in Session : s <= KnowableThrough(asOf) <=> CloseAt(s) <= asOf
<1> DEFINE S == {0} \cup {s \in Session : CloseAt(s) <= asOf}
<1>1. S \in SUBSET Nat /\ S # {} /\ Sessions \in Nat /\ \A t \in S : t <= Sessions
  BY TapeOK DEF Session
<1>2. \E m \in S : \A t \in S : t <= m
  BY <1>1, GreatestNatural
<1>3. KnowableThrough(asOf) \in S /\ \A t \in S : t <= KnowableThrough(asOf)
  <2>1. \E m \in S : \A t \in S : m >= t
    BY <1>1, <1>2
  <2>2. Max(S) \in S /\ \A t \in S : Max(S) >= t
    BY <2>1 DEF Max
  <2> QED
    BY <1>1, <2>2 DEF KnowableThrough
<1>4. ASSUME NEW s \in Session, s <= KnowableThrough(asOf) PROVE CloseAt(s) <= asOf
  <2>1. KnowableThrough(asOf) \in Session /\ CloseAt(KnowableThrough(asOf)) <= asOf
    BY <1>3, <1>4, TapeOK
  <2>2. /\ CloseAt(s) = 3 * s + 2 /\ asOf \in Nat
        /\ CloseAt(KnowableThrough(asOf)) = 3 * KnowableThrough(asOf) + 2
    BY <2>1, TapeOK
  <2>3. s \in Nat /\ KnowableThrough(asOf) \in Nat
    BY <2>1, TapeOK
  <2> QED
    BY <2>1, <2>2, <2>3, <1>4
<1> QED
  BY <1>1, <1>3, <1>4
-----------------------------------------------------------------------------
World == [posts : SUBSET Post, bars : [Tickers -> SUBSET Session], cards : SUBSET Card,
          zoned : BOOLEAN]

(***************************************************************************)
(* What a strategy reads of a world at a moment is what was known then.    *)
(***************************************************************************)
LEMMA ReadsAreKnown ==
  ASSUME NEW w \in World,
         NEW asOf \in Moments
  PROVE  /\ Scoped(Known(w, asOf), asOf) = Scoped(w, asOf)
         /\ Credible(Known(w, asOf), asOf) = Credible(w, asOf)
         /\ Tradeable(Known(w, asOf), asOf) = Tradeable(w, asOf)
         /\ Recent(Known(w, asOf), asOf) = Recent(w, asOf)
<1>1. ASSUME NEW t \in Tickers
      PROVE  DailyBars(Known(w, asOf).bars[t], asOf, Volume) = DailyBars(w.bars[t], asOf, Volume)
  <2>1. w.bars[t] \subseteq Session
    BY DEF World
  <2>2. Known(w, asOf).bars[t] = {s \in w.bars[t] : CloseAt(s) <= asOf}
    BY DEF Known
  <2> QED
    BY <2>1, <2>2, KnowableIsClosed DEF DailyBars
<1>2. Tradeable(Known(w, asOf), asOf) = Tradeable(w, asOf)
  BY <1>1 DEF Tradeable
<1>3. Recent(Known(w, asOf), asOf) = Recent(w, asOf)
  BY DEF Recent, Known
<1>4. Credible(Known(w, asOf), asOf) = Credible(w, asOf)
  <2>1. ASSUME NEW c PROVE LastCards(Known(w, asOf), asOf, c) = LastCards(w, asOf, c)
    <3>1. {k \in Known(w, asOf).cards : k.creator = c /\ k.at <= asOf}
            = {k \in w.cards : k.creator = c /\ k.at <= asOf}
      BY DEF Known
    <3> QED
      BY <3>1 DEF LastCards
  <2> QED
    BY <2>1 DEF Credible
<1> QED
  BY <1>2, <1>3, <1>4 DEF Scoped

(***************************************************************************)
(* So the future cannot change a decision, nor whether there is one.       *)
(***************************************************************************)
LEMMA TheFutureDecidesNothing ==
  ASSUME NEW w \in World, NEW asOf \in Moments
  PROVE  Evaluations(Known(w, asOf), asOf) = Evaluations(w, asOf)
<1>1. ASSUME NEW K
      PROVE  /\ Compared(Known(w, asOf), asOf, K) = Compared(w, asOf, K)
             /\ Decisions(Known(w, asOf), asOf, K) = Decisions(w, asOf, K)
  BY ReadsAreKnown DEF Compared, Decisions
<1>2. Known(w, asOf).zoned = w.zoned /\ Credible(Known(w, asOf), asOf) = Credible(w, asOf)
  BY ReadsAreKnown DEF Known
<1> QED
  BY <1>1, <1>2 DEF Evaluations
-----------------------------------------------------------------------------
(***************************************************************************)
(* A finite set of sessions with more than n elements has one with n       *)
(* before it.  If not, take the least such n: the session after the one    *)
(* with n - 1 before it would do.                                          *)
(***************************************************************************)
LEMMA NthIsThere ==
  ASSUME NEW S \in SUBSET Nat, IsFiniteSet(S), NEW n \in Nat, n < Cardinality(S)
  PROVE  Nth(S, n) \in S /\ Cardinality({r \in S : r < Nth(S, n)}) = n
<1> DEFINE Before(s) == {r \in S : r < s}
           Missing == {k \in Nat : k < Cardinality(S) /\ ~ \E s \in S : Cardinality(Before(s)) = k}
<1>1. Cardinality(S) \in Nat
  BY FS_CardinalityType
<1>2. \A s : IsFiniteSet(Before(s)) /\ Before(s) \in SUBSET S
  BY FS_Subset
<1>3. Missing = {}
  <2>1. SUFFICES ASSUME Missing # {} PROVE FALSE
    OBVIOUS
  <2>2. Missing \in SUBSET Nat
    OBVIOUS
  <2>3. PICK k \in Missing : \A j \in Missing : k <= j
    BY <2>1, <2>2, LeastNatural
  <2>4. k \in Nat /\ k < Cardinality(S) /\ \A s \in S : Cardinality(Before(s)) # k
    OBVIOUS
  <2>5. CASE k = 0
    <3>1. S # {}
      BY <2>4, <2>5, FS_EmptySet
    <3>2. PICK m \in S : \A s \in S : m <= s
      BY <3>1, LeastNatural
    <3>3. Before(m) = {}
      <4>1. \A s \in S : s \in Nat /\ m \in Nat /\ ~ (s < m)
        BY <3>2
      <4> QED
        BY <4>1
    <3> QED
      BY <2>4, <2>5, <3>3, FS_EmptySet
  <2>6. CASE k # 0
    <3>1. k - 1 \in Nat /\ k - 1 < Cardinality(S) /\ ~ (k <= k - 1)
      BY <1>1, <2>4, <2>6
    <3>2. k - 1 \notin Missing
      BY <2>3, <3>1
    <3>3. PICK s \in S : Cardinality(Before(s)) = k - 1
      BY <3>1, <3>2
    <3> DEFINE Upto == Before(s) \cup {s}
               Beyond == {r \in S : r > s}
    <3>4. Cardinality(Upto) = k
      <4>1. s \notin Before(s)
        OBVIOUS
      <4>2. Cardinality(Upto) = Cardinality(Before(s)) + 1
        BY <1>2, <4>1, FS_AddElement, Zenon
      <4> QED
        BY <3>3, <4>2, <2>4
    <3>5. Beyond # {}
      <4>1. SUFFICES ASSUME Beyond = {} PROVE FALSE
        OBVIOUS
      <4>2. \A r \in S : ~ (r > s) /\ r \in Nat /\ s \in Nat
        BY <4>1
      <4>3. \A r \in S : r < s \/ r = s
        BY <4>2
      <4>4. S = Upto
        BY <4>3
      <4> QED
        BY <2>4, <3>4, <4>4, <1>1
    <3>6. PICK t \in Beyond : \A r \in Beyond : t <= r
      <4>1. Beyond \in SUBSET Nat
        OBVIOUS
      <4> QED
        BY <3>5, <4>1, LeastNatural
    <3>7. Before(t) = Upto
      <4>1. ASSUME NEW r \in S PROVE r < t <=> (r < s \/ r = s)
        BY <3>6
      <4> QED
        BY <4>1
    <3> QED
      BY <2>4, <3>4, <3>7
  <2> QED
    BY <2>5, <2>6
<1>4. \E s \in S : Cardinality(Before(s)) = n
  BY <1>3
<1> QED
  BY <1>4 DEF Nth
-----------------------------------------------------------------------------
WorldOK == world \in World

(***************************************************************************)
(* A simulated trade enters at the first open at or after its decision and *)
(* leaves Holding bars later, whatever holes the tape of its ticker has.   *)
(***************************************************************************)
FillFollows(t) ==
  LET bars == world.bars[t.decision.ticker] IN
  /\ OpenAt(t.entry) >= t.asOf
  /\ \A s \in bars : OpenAt(s) >= t.asOf => s >= t.entry
  /\ Cardinality({s \in bars : t.entry <= s /\ s < t.exit}) = Holding

Trade == [decision : DecisionSet, asOf : Moments, entry : Session, exit : Session, regime : Regimes]

LEMMA SimulatedFollows ==
  ASSUME WorldOK, NEW d \in DecisionSet, NEW asOf \in Moments, NEW t \in Simulated(d, asOf)
  PROVE  t \in Trade /\ FillFollows(t)
<1> DEFINE bars == world.bars[d.ticker]
           after == ForwardBars(bars, asOf)
<1>1. d.ticker \in Tickers /\ bars \in SUBSET Session
  BY DEF WorldOK, World, DecisionSet
<1>2. Holding \in Nat /\ asOf \in Nat
  BY StrategyAssumption, TapeOK
<1>3. after \in SUBSET Session /\ after \in SUBSET Nat /\ IsFiniteSet(after)
  <2>1. after \in SUBSET Session
    BY <1>1 DEF ForwardBars
  <2>2. IsFiniteSet(Session)
    BY TapeOK, FS_Interval DEF Session
  <2> QED
    BY <2>1, <2>2, FS_Subset, TapeOK
<1>4. /\ Holding < Cardinality(after)
      /\ t = [decision |-> d, asOf |-> asOf, regime |-> Regime(asOf),
              entry |-> Nth(after, 0), exit |-> Nth(after, Holding)]
  <2>1. ~ (Cardinality(after) <= Holding)
    BY DEF Simulated
  <2>2. Cardinality(after) \in Nat
    BY <1>3, FS_CardinalityType
  <2> QED
    BY <1>2, <2>1, <2>2 DEF Simulated
<1>5. 0 < Cardinality(after)
  BY <1>2, <1>3, <1>4, FS_CardinalityType
<1> HIDE DEF after
<1>6. t.entry \in after /\ Cardinality({r \in after : r < t.entry}) = 0
  <2>1. t.entry = Nth(after, 0)
    BY <1>4
  <2> QED
    BY <1>3, <1>5, <2>1, NthIsThere
<1>7. t.exit \in after /\ Cardinality({r \in after : r < t.exit}) = Holding
  <2>1. t.exit = Nth(after, Holding)
    BY <1>4
  <2> QED
    BY <1>2, <1>3, <1>4, <2>1, NthIsThere
<1>8. \A r \in after : r >= t.entry
  <2>1. {r \in after : r < t.entry} = {}
    BY <1>3, <1>6, FS_EmptySet, FS_Subset
  <2>2. \A r \in after : ~ (r < t.entry) /\ r \in Nat /\ t.entry \in Nat
    BY <1>3, <1>6, <2>1
  <2> QED
    BY <2>2
<1>9. \A s \in bars : s \in after <=> CloseAt(s) > asOf
  <2>1. ASSUME NEW s \in bars PROVE s \in after <=> CloseAt(s) > asOf
    <3>1. s \in Session /\ s \in Nat /\ CloseAt(s) \in Nat
      BY <1>1, TapeOK
    <3>2. s <= KnowableThrough(asOf) <=> CloseAt(s) <= asOf
      BY <3>1, KnowableIsClosed
    <3>3. KnowableThrough(asOf) \in Nat
      BY KnowableIsClosed
    <3>4. s \in after <=> s > KnowableThrough(asOf)
      BY DEF after, ForwardBars
    <3> QED
      BY <1>2, <3>1, <3>2, <3>3, <3>4
  <2> QED
    BY <2>1
<1>10. after \in SUBSET bars
  BY DEF after, ForwardBars
<1>11. t \in Trade
  <2>1. Regime(asOf) \in Regimes
    BY DEF Regime, Regimes
  <2>2. t.entry \in Session /\ t.exit \in Session
    BY <1>3, <1>6, <1>7
  <2> QED
    BY <1>4, <2>1, <2>2 DEF Trade
<1>12. OpenAt(t.entry) >= asOf
  <2>1. CloseAt(t.entry) > asOf
    BY <1>6, <1>9, <1>10
  <2>2. t.entry \in Session /\ t.entry \in Nat
    BY <1>3, <1>6
  <2>3. OpenAt(t.entry) = 3 * t.entry + 1 /\ CloseAt(t.entry) = 3 * t.entry + 2
    BY <2>2, TapeOK
  <2> QED
    BY <1>2, <2>1, <2>2, <2>3
<1>13. \A s \in bars : OpenAt(s) >= asOf => s >= t.entry
  <2>1. ASSUME NEW s \in bars, OpenAt(s) >= asOf PROVE s >= t.entry
    <3>1. s \in Session /\ s \in Nat
      BY <1>1, TapeOK
    <3>2. OpenAt(s) = 3 * s + 1 /\ CloseAt(s) = 3 * s + 2
      BY <3>1, TapeOK
    <3>3. CloseAt(s) > asOf
      BY <1>2, <2>1, <3>1, <3>2
    <3> QED
      BY <1>8, <1>9, <3>3
  <2> QED
    BY <2>1
<1>14. {s \in bars : t.entry <= s /\ s < t.exit} = {r \in after : r < t.exit}
  <2>1. ASSUME NEW s \in bars, t.entry <= s PROVE s \in after
    <3>1. s \in Session /\ s \in Nat /\ t.entry \in Session /\ t.entry \in Nat
      BY <1>1, <1>3, <1>6, TapeOK
    <3>2. CloseAt(t.entry) > asOf
      BY <1>6, <1>9, <1>10
    <3>3. CloseAt(s) = 3 * s + 2 /\ CloseAt(t.entry) = 3 * t.entry + 2
      BY <3>1, TapeOK
    <3> QED
      BY <1>2, <1>9, <2>1, <3>1, <3>2, <3>3
  <2>2. ASSUME NEW r \in after PROVE r \in bars /\ t.entry <= r
    <3>1. r \in Nat /\ t.entry \in Nat /\ r >= t.entry
      BY <1>3, <1>6, <1>8
    <3> QED
      BY <1>10, <3>1
  <2> QED
    BY <2>1, <2>2
<1> HIDE DEF bars
<1>15. t.asOf = asOf /\ world.bars[t.decision.ticker] = bars
  BY <1>4 DEF bars
<1> QED
  BY <1>7, <1>11, <1>12, <1>13, <1>14, <1>15 DEF FillFollows
-----------------------------------------------------------------------------
(***************************************************************************)
(* Whatever a strategy returns is a finite set of decisions, and none if   *)
(* it raises.                                                              *)
(***************************************************************************)
LEMMA DecisionsAreFinite ==
  ASSUME strategy \in Strategies, NEW w, NEW asOf, NEW e \in Evaluations(w, asOf)
  PROVE  e.raised \in BOOLEAN /\ e.made \in SUBSET DecisionSet /\ IsFiniteSet(e.made)
<1>1. \A T \in SUBSET Tickers : Buys(T) \in SUBSET DecisionSet
  BY DEF Buys, Decision, DecisionSet
<1>2. \A posts : Momentum(posts) \in SUBSET SUBSET DecisionSet
  <2>1. \A posts : Scored(posts) \in SUBSET Tickers
    BY DEF Scored
  <2> QED
    BY <1>1, <2>1 DEF Momentum
<1>3. \A posts : Catalysts(posts) \in SUBSET DecisionSet
  BY <1>1 DEF Catalysts
<1>4. \A posts, credible : Consensus(posts, credible) \in SUBSET DecisionSet
  BY DEF Consensus
<1>5. e.raised \in BOOLEAN /\ e.made \in SUBSET DecisionSet
  <2>1. \A K : Decisions(w, asOf, K) \in SUBSET SUBSET DecisionSet
    <3>1. Buys({Favourite} \cap Tradeable(w, asOf)) \in SUBSET DecisionSet
      BY <1>1 DEF Tradeable
    <3>2. \A K : \/ Decisions(w, asOf, K) = Momentum(Scoped(w, asOf))
                 \/ Decisions(w, asOf, K) = {Catalysts(Scoped(w, asOf))}
                 \/ Decisions(w, asOf, K) = {Consensus(Scoped(w, asOf), K)}
                 \/ Decisions(w, asOf, K) = {Buys({Favourite} \cap Tradeable(w, asOf))}
      BY DEF Decisions, Strategies
    <3>3. \A X \in SUBSET DecisionSet : {X} \in SUBSET SUBSET DecisionSet
      OBVIOUS
    <3>4. TAKE K
    <3>5. CASE Decisions(w, asOf, K) = Momentum(Scoped(w, asOf))
      BY <1>2, <3>5
    <3>6. CASE Decisions(w, asOf, K) = {Catalysts(Scoped(w, asOf))}
      BY <1>3, <3>3, <3>6
    <3>7. CASE Decisions(w, asOf, K) = {Consensus(Scoped(w, asOf), K)}
      BY <1>4, <3>3, <3>7
    <3>8. CASE Decisions(w, asOf, K) = {Buys({Favourite} \cap Tradeable(w, asOf))}
      BY <3>1, <3>3, <3>8
    <3> QED
      BY <3>2, <3>5, <3>6, <3>7, <3>8
  <2>2. \/ e = [raised |-> TRUE, made |-> {}]
        \/ \E K : \E D \in Decisions(w, asOf, K) : e = [raised |-> FALSE, made |-> D]
    BY DEF Evaluations
  <2>3. CASE e = [raised |-> TRUE, made |-> {}]
    BY <2>3
  <2>4. ASSUME NEW K, NEW D \in Decisions(w, asOf, K), e = [raised |-> FALSE, made |-> D]
        PROVE  e.raised \in BOOLEAN /\ e.made \in SUBSET DecisionSet
    <3>1. D \in SUBSET DecisionSet
      BY <2>1
    <3> QED
      BY <3>1, <2>4
  <2> QED
    BY <2>2, <2>3, <2>4
<1>6. IsFiniteSet(DecisionSet)
  <2> DEFINE Pairs == Tickers \X {"up", "down"}
             f == [p \in Pairs |-> [ticker |-> p[1], side |-> p[2]]]
  <2>1. IsFiniteSet({"up", "down"})
    <3>1. {"up", "down"} = {"up"} \cup {"down"}
      OBVIOUS
    <3>2. IsFiniteSet({"up"})
      BY FS_Singleton
    <3>3. IsFiniteSet({"up"} \cup {"down"})
      BY <3>2, FS_AddElement, Zenon
    <3> QED
      BY <3>1, <3>3
  <2>2. IsFiniteSet(Pairs)
    BY <2>1, WorldAssumption, FS_Product
  <2>3. f \in Surjection(Pairs, DecisionSet)
    <3>1. f \in [Pairs -> DecisionSet]
      BY DEF DecisionSet
    <3>2. ASSUME NEW d \in DecisionSet PROVE \E p \in Pairs : f[p] = d
      <4>1. <<d.ticker, d.side>> \in Pairs
        BY DEF DecisionSet
      <4>2. f[<<d.ticker, d.side>>] = [ticker |-> d.ticker, side |-> d.side]
        BY <4>1
      <4>3. d = [ticker |-> d.ticker, side |-> d.side]
        BY DEF DecisionSet
      <4> QED
        BY <4>1, <4>2, <4>3
    <3> QED
      BY <3>1, <3>2 DEF Surjection
  <2> QED
    BY <2>2, <2>3, FS_Surjection
<1> QED
  BY <1>5, <1>6, FS_Subset

(***************************************************************************)
(* The trades of a finite set of decisions are finitely many.              *)
(***************************************************************************)
LEMMA FewTrades ==
  ASSUME NEW D, IsFiniteSet(D), NEW asOf
  PROVE  IsFiniteSet(UNION {Simulated(d, asOf) : d \in D})
<1> DEFINE T == {Simulated(d, asOf) : d \in D}
           f == [d \in D |-> Simulated(d, asOf)]
<1>1. \A d \in D : IsFiniteSet(Simulated(d, asOf))
  BY FS_EmptySet, FS_Singleton DEF Simulated
<1>2. f \in Surjection(D, T)
  BY DEF Surjection
<1>3. IsFiniteSet(T)
  BY <1>2, FS_Surjection
<1> QED
  BY <1>1, <1>3, FS_UNION
-----------------------------------------------------------------------------
Inv == WorldOK /\ TypeOK /\ IsFiniteSet(trades)

LEMMA InitInv == Init => Inv
<1> SUFFICES ASSUME Init PROVE Inv
  OBVIOUS
<1>1. WorldOK
  BY WorldAssumption DEF Init, WorldOK, World
<1>2. /\ world.posts \subseteq Post /\ world.cards \subseteq Card
      /\ world.bars \in [Tickers -> SUBSET Session] /\ world.zoned \in BOOLEAN
  BY <1>1 DEF WorldOK, World
<1>3. todo \subseteq Moments
  BY TapeOK DEF Init, Rebalances
<1>4. IsFiniteSet(trades)
  BY FS_EmptySet DEF Init
<1> QED
  BY <1>1, <1>2, <1>3, <1>4 DEF Inv, Init, TypeOK

LEMMA NextInv == Inv /\ [Next]_vars => Inv'
<1> SUFFICES ASSUME Inv, [Next]_vars PROVE Inv'
  OBVIOUS
<1> USE DEF Inv
<1>1. CASE UNCHANGED vars
  BY <1>1 DEF vars, TypeOK, WorldOK
<1>2. ASSUME NEW asOf \in todo, Rebalance(asOf) PROVE Inv'
  <2>1. asOf \in Moments
    BY DEF TypeOK
  <2>2. PICK e \in Evaluations(world, asOf) :
          /\ decided' = decided \cup {[asOf |-> asOf, raised |-> e.raised, made |-> e.made]}
          /\ trades' = trades \cup UNION {Simulated(d, asOf) : d \in e.made}
    BY <1>2 DEF Rebalance
  <2> DEFINE D == e.made
  <2>3. e.raised \in BOOLEAN /\ D \in SUBSET DecisionSet /\ IsFiniteSet(D)
    BY DecisionsAreFinite DEF TypeOK
  <2>4. \A d \in D : Simulated(d, asOf) \subseteq Trade
    BY <2>1, <2>3, SimulatedFollows
  <2>5. trades' \subseteq Trade
    BY <2>2, <2>4 DEF TypeOK, Trade
  <2>6. IsFiniteSet(trades')
    <3>1. IsFiniteSet(UNION {Simulated(d, asOf) : d \in D})
      BY <2>3, FewTrades
    <3> QED
      BY <2>2, <3>1, FS_Union, Zenon
  <2>7. decided' \subseteq [asOf : Moments, raised : BOOLEAN, made : SUBSET DecisionSet]
    BY <2>1, <2>2, <2>3 DEF TypeOK
  <2>8. todo' \subseteq Moments
    BY <1>2 DEF Rebalance, TypeOK
  <2>9. UNCHANGED <<world, strategy, mode, results>>
    BY <1>2 DEF Rebalance
  <2> QED
    BY <2>5, <2>6, <2>7, <2>8, <2>9 DEF TypeOK, WorldOK, Trade
<1>3. CASE Finish
  <2>1. \A r : IsFiniteSet({t \in trades : t.regime = r})
    BY FS_Subset
  <2>2. \A r : InRegime(r) \in Nat
    BY <2>1, FS_CardinalityType DEF InRegime
  <2>3. InWindow \in BOOLEAN
    BY Zenon DEF InWindow
  <2>4. Cardinality(trades) \in Nat
    BY FS_CardinalityType
  <2>5. (Cardinality(trades) < Powered) \in BOOLEAN
    OBVIOUS
  <2>6. [r \in Regimes |-> InRegime(r)] \in [Regimes -> Nat]
    BY <2>2
  <2>7. {d.asOf : d \in {e \in decided : e.raised}} \in SUBSET Moments
    BY DEF TypeOK
  <2>9. results' \subseteq [trades : Nat, underpowered : BOOLEAN, regimes : [Regimes -> Nat],
                            inWindow : BOOLEAN, warnings : SUBSET Moments]
    <3> DEFINE n == Cardinality(trades)
               few == n < Powered
               byRegime == [r \in Regimes |-> InRegime(r)]
               warned == {d.asOf : d \in {e \in decided : e.raised}}
    <3>1. results' = {[trades |-> n, underpowered |-> few, regimes |-> byRegime,
                       inWindow |-> InWindow, warnings |-> warned]}
      BY <1>3 DEF Finish
    <3>2. /\ n \in Nat /\ few \in BOOLEAN /\ byRegime \in [Regimes -> Nat] /\ InWindow \in BOOLEAN
          /\ warned \in SUBSET Moments
      BY <2>3, <2>4, <2>5, <2>6, <2>7
    <3> DEFINE inside == InWindow
               row == [trades |-> n, underpowered |-> few, regimes |-> byRegime,
                       inWindow |-> inside, warnings |-> warned]
    <3> HIDE DEF n, few, byRegime, inside, warned
    <3>3. row \in [trades : Nat, underpowered : BOOLEAN, regimes : [Regimes -> Nat],
                   inWindow : BOOLEAN, warnings : SUBSET Moments]
      BY <3>2 DEF inside
    <3> QED
      BY <3>1, <3>3 DEF inside
  <2>8. UNCHANGED <<world, strategy, mode, todo, decided, trades>>
    BY <1>3 DEF Finish
  <2> QED
    BY <2>8, <2>9 DEF TypeOK, WorldOK
<1> QED
  BY <1>1, <1>2, <1>3 DEF Next

(***************************************************************************)
(* Type correctness, for every world and every tape.                       *)
(***************************************************************************)
THEOREM WalkForwardTypeCorrect == Spec => []TypeOK
<1>1. Inv => TypeOK
  BY DEF Inv
<1> QED
  BY <1>1, InitInv, NextInv, PTL DEF Spec

(***************************************************************************)
(* While the strategy is the same, so is what comes of it.                 *)
(***************************************************************************)
LEMMA OneStrategy ==
  ASSUME strategy' = strategy, NEW w, NEW asOf
  PROVE  Evaluations(w, asOf)' = Evaluations(w, asOf)
<1>1. ASSUME NEW K PROVE Compared(w, asOf, K)' = Compared(w, asOf, K)
  BY DEF Compared
<1>2. ASSUME NEW K PROVE Decisions(w, asOf, K)' = Decisions(w, asOf, K)
  BY DEF Decisions
<1> QED
  BY <1>1, <1>2 DEF Evaluations

(***************************************************************************)
(* "The strategy never sees data after as_of": no decision of any of the   *)
(* strategies, and no error, depends on a post, a card or a bar from after *)
(* it, on a database that keeps zones or one that does not                 *)
(* (WalkForward!DecisionsAreBlind; _execute in backtest/walkforward.py).   *)
(***************************************************************************)
THEOREM StrategiesAreBlind == Spec => []DecisionsAreBlind
<1>1. Init => DecisionsAreBlind
  BY DEF Init, DecisionsAreBlind
<1>2. ASSUME Inv, DecisionsAreBlind, [Next]_vars PROVE DecisionsAreBlind'
  <2>1. CASE UNCHANGED <<world, strategy, decided>>
    BY <1>2, <2>1, OneStrategy DEF DecisionsAreBlind
  <2>2. ASSUME NEW asOf \in todo, Rebalance(asOf) PROVE DecisionsAreBlind'
    <3>1. asOf \in Moments /\ WorldOK
      BY <1>2 DEF Inv, TypeOK
    <3>2. PICK e \in Evaluations(world, asOf) :
            decided' = decided \cup {[asOf |-> asOf, raised |-> e.raised, made |-> e.made]}
      BY <2>2 DEF Rebalance
    <3>3. [raised |-> e.raised, made |-> e.made] \in Evaluations(Known(world, asOf), asOf)
      <4>1. \/ e = [raised |-> TRUE, made |-> {}]
            \/ \E D : e = [raised |-> FALSE, made |-> D]
        BY DEF Evaluations
      <4>2. [raised |-> e.raised, made |-> e.made] = e
        BY <4>1
      <4>3. e \in Evaluations(Known(world, asOf), asOf)
        BY <3>1, TheFutureDecidesNothing DEF WorldOK
      <4> QED
        BY <4>2, <4>3
    <3>4. world' = world /\ strategy' = strategy
      BY <2>2 DEF Rebalance
    <3>5. \A d \in decided' :
            [raised |-> d.raised, made |-> d.made] \in Evaluations(Known(world, d.asOf), d.asOf)
      <4>1. TAKE d \in decided'
      <4>2. CASE d \in decided
        BY <1>2, <4>2 DEF DecisionsAreBlind
      <4>3. CASE d = [asOf |-> asOf, raised |-> e.raised, made |-> e.made]
        <5>1. d.asOf = asOf /\ d.raised = e.raised /\ d.made = e.made
          BY <4>3
        <5> QED
          BY <3>3, <5>1
      <4> QED
        BY <3>2, <4>2, <4>3
    <3> QED
      BY <3>4, <3>5, OneStrategy DEF DecisionsAreBlind
  <2>3. CASE Finish
    BY <2>1, <2>3 DEF Finish
  <2> QED
    BY <1>2, <2>1, <2>2, <2>3 DEF Next, vars
<1> QED
  BY <1>1, <1>2, InitInv, NextInv, PTL DEF Spec

(***************************************************************************)
(* Every trade, in every world: filled at the first open at or after its   *)
(* decision, and held for exactly Holding bars of its ticker.              *)
(***************************************************************************)
THEOREM TradesFollowDecisions == Spec => []FillsFollowDecisions
<1>1. Init => FillsFollowDecisions
  BY DEF Init, FillsFollowDecisions
<1>2. FillsFollowDecisions <=> \A t \in trades : FillFollows(t)
  BY DEF FillsFollowDecisions, FillFollows
<1>3. ASSUME Inv, FillsFollowDecisions, [Next]_vars PROVE FillsFollowDecisions'
  <2>1. CASE UNCHANGED <<world, trades>>
    BY <1>3, <2>1 DEF FillsFollowDecisions
  <2>2. ASSUME NEW asOf \in todo, Rebalance(asOf) PROVE FillsFollowDecisions'
    <3>1. asOf \in Moments /\ WorldOK /\ strategy \in Strategies
      BY <1>3 DEF Inv, TypeOK
    <3>2. PICK e \in Evaluations(world, asOf) :
            trades' = trades \cup UNION {Simulated(d, asOf) : d \in e.made}
      BY <2>2 DEF Rebalance
    <3> DEFINE D == e.made
    <3>3. D \in SUBSET DecisionSet
      BY <3>1, DecisionsAreFinite
    <3>4. \A d \in D : \A t \in Simulated(d, asOf) : FillFollows(t)
      BY <3>1, <3>3, SimulatedFollows
    <3>5. \A t \in trades' : FillFollows(t)
      BY <1>2, <1>3, <3>2, <3>4
    <3>6. world' = world
      BY <2>2 DEF Rebalance
    <3> QED
      BY <3>5, <3>6 DEF FillsFollowDecisions, FillFollows
  <2>3. CASE Finish
    BY <2>1, <2>3 DEF Finish
  <2> QED
    BY <1>3, <2>1, <2>2, <2>3 DEF Next, vars
<1> QED
  BY <1>1, <1>3, InitInv, NextInv, PTL DEF Spec
=============================================================================
