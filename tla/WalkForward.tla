----------------------------- MODULE WalkForward -----------------------------
(***************************************************************************)
(* The walk-forward test of a strategy (backtest/walkforward.py, its       *)
(* market reader, the three strategies and the one of its tests).  The     *)
(* world the test replays lies in the past and is chosen at the start:     *)
(* what creators posted, the sessions each ticker has bars for, and the    *)
(* scorecards.  Every rebalance shows the strategy a part of it and        *)
(* simulates what it decides.                                              *)
(*                                                                         *)
(* A database other than SQLite gives the time of a post with its zone;    *)
(* SQLite gives it without, and a strategy that compares it with as_of,    *)
(* which has one, raises.                                                  *)
(*                                                                         *)
(* Time is counted in thirds of a trading day, as in Evaluation: session s *)
(* is stamped 3s, opens at 3s + 1 and closes at 3s + 2.                    *)
(***************************************************************************)
EXTENDS Integers, FiniteSets, FiniteSetsExt

CONSTANTS
  Sessions,      \* the number of sessions of the tape
  Week,          \* sessions in a week
  Tickers, Creators,
  Favourite,     \* the ticker the strategy of the tests buys
  Benchmark,     \* the closes of the benchmark, one for a session
  Start, End,    \* cfg.start and cfg.end
  Cutoff,        \* settings.walkforward.t2_cutoff
  Lookback,      \* lookback_days of a strategy, in thirds of a day
  Loaded,        \* its required_lookback_days, likewise
  Volume,        \* the days is_tradeable looks back, likewise
  Trend,         \* bars of the trend that tells a regime
  Holding,       \* holding_period_days
  Agreeing,      \* min_distinct_creators, min_calibrated_creators
  Powered        \* cfg.min_n_trades

Session == 1..Sessions

ASSUME TapeAssumption ==
  /\ Sessions \in Nat /\ Week \in Nat \ {0}
  /\ Benchmark \in [Session -> Nat]
  /\ Start \in Nat /\ End \in Nat /\ Cutoff \in Nat
ASSUME StrategyAssumption ==
  /\ Lookback \in Nat /\ Loaded \in Nat /\ Lookback <= Loaded /\ Volume \in Nat
  /\ Trend \in Nat \ {0} /\ Holding \in Nat
  /\ Agreeing \in Nat \ {0} /\ Powered \in Nat
  /\ Favourite \in Tickers

Stamp(s)   == 3 * s
OpenAt(s)  == 3 * s + 1
CloseAt(s) == 3 * s + 2
Moments    == 0..CloseAt(Sessions)

Strategies == {"mention_momentum", "bullish_catalyst_aggregator", "creator_consensus",
               "test_always_aapl"}
Modes == {"daily", "weekly"}

\* An accepted claim or call of the kind the strategy reads; "up" is bullish or
\* long, "down" bearish or short.
Post == [creator : Creators, ticker : Tickers, side : {"up", "down"}, at : Moments]

\* A scorecard: a creator has one for each window and horizon, computed at some
\* moment and replaced by the next run; credible if it clears the threshold.
Card == [creator : Creators, credible : BOOLEAN, at : Moments]

VARIABLES
  world,       \* the posts, whether their times have a zone, the sessions with a
               \* bar of each ticker, the cards
  strategy, mode,
  todo,        \* the rebalances to come
  decided,     \* what was decided at each rebalance, or that the strategy raised
  trades,
  results      \* the row of walkforward_results, if there is one

vars == <<world, strategy, mode, todo, decided, trades, results>>

Opposite(side) == IF side = "up" THEN "down" ELSE "up"
-----------------------------------------------------------------------------
(* MarketDataReader at asOf *)

\* Mutant: the bars stamped before asOf, the session in progress included.
StampedThrough(asOf) == Max({0} \cup {s \in Session : Stamp(s) <= asOf})

\* The last session whose bar was complete at asOf.
KnowableThrough(asOf) == Max({0} \cup {s \in Session : CloseAt(s) <= asOf})

DailyBars(bars, asOf, back) ==
  {s \in bars : s <= KnowableThrough(asOf) /\ Stamp(s) >= asOf - back}

\* Mutant: forward_bars from the boundary on.
ForwardFromBoundary(bars, asOf) == {s \in bars : s >= KnowableThrough(asOf)}

ForwardBars(bars, asOf) == {s \in bars : s > KnowableThrough(asOf)}

Tradeable(w, asOf) == {t \in Tickers : DailyBars(w.bars[t], asOf, Volume) # {}}
-----------------------------------------------------------------------------
(* StrategyContext and Strategy.evaluate *)

\* _load_recent_calls, _load_recent_claims
Recent(w, asOf) == {p \in w.posts : p.at >= asOf - Loaded /\ p.at <= asOf}

Scoped(w, asOf) ==
  {p \in Recent(w, asOf) :
     p.ticker \in Tradeable(w, asOf) /\ p.at >= asOf - Lookback /\ p.at <= asOf}

Of(posts, t, side) == {p \in posts : p.ticker = t /\ p.side = side}
CreatorsOf(posts) == {p.creator : p \in posts}
DecisionSet == [ticker : Tickers, side : {"up", "down"}]
Decision(t, side) == [ticker |-> t, side |-> side]
Buys(tickers) == {Decision(t, "up") : t \in tickers}

\* The net polarity of a ticker's claims times its creators, as a fraction.
Numerator(posts, t) ==
  (Cardinality(Of(posts, t, "up")) - Cardinality(Of(posts, t, "down")))
    * Cardinality(CreatorsOf(Of(posts, t, "up") \cup Of(posts, t, "down")))
Mentions(posts, t) == Cardinality(Of(posts, t, "up") \cup Of(posts, t, "down"))
FirstMention(posts, t) == Min({p.at : p \in {q \in posts : q.ticker = t}})

\* A ticker that sorts before another: a better score, or the same and seen first.
Leads(posts, t, u) ==
  LET a == Numerator(posts, t) * Mentions(posts, u)
      b == Numerator(posts, u) * Mentions(posts, t)
  IN a > b \/ (a = b /\ FirstMention(posts, t) < FirstMention(posts, u))

\* MentionMomentum: the best tenth of the tickers with a positive score, or one;
\* the order of posts of one moment is the database's.
Scored(posts) == {t \in Tickers : Mentions(posts, t) > 0 /\ Numerator(posts, t) > 0}
Best(posts, chosen) ==
  /\ Cardinality(chosen) = (Cardinality(Scored(posts)) + 9) \div 10
  /\ \A t \in Scored(posts) \ chosen : \A u \in chosen : ~ Leads(posts, t, u)
Momentum(posts) == {Buys(C) : C \in {D \in SUBSET Scored(posts) : Best(posts, D)}}

\* BullishCatalystAggregator
Catalysts(posts) ==
  Buys({u \in Tickers : Cardinality(CreatorsOf(Of(posts, u, "up"))) >= Agreeing})

\* _load_creator_scorecards: the rows of a creator computed last by asOf, of which
\* the query puts any first.
LastCards(w, asOf, c) ==
  LET own == {k \in w.cards : k.creator = c /\ k.at <= asOf}
  IN {k \in own : \A j \in own : j.at <= k.at}

\* The sets that the creators whose card clears the threshold can be.
Credible(w, asOf) ==
  {S \in SUBSET Creators :
     /\ \A c \in S : \E k \in LastCards(w, asOf, c) : k.credible
     /\ \A c \in Creators \ S :
          LastCards(w, asOf, c) = {} \/ \E k \in LastCards(w, asOf, c) : ~ k.credible}

\* CreatorConsensus: enough credible creators agree and not as many disagree.
Consensus(posts, credible) ==
  LET agree(t, side) ==
        Cardinality(CreatorsOf({p \in Of(posts, t, side) : p.creator \in credible})) >= Agreeing
  IN {d \in DecisionSet : agree(d.ticker, d.side) /\ ~ agree(d.ticker, Opposite(d.side))}

\* The posts whose time evaluate compares with as_of: those that its conditions
\* before the comparison let through.
Compared(w, asOf, credible) ==
  CASE strategy = "mention_momentum" -> Recent(w, asOf)
    [] strategy = "bullish_catalyst_aggregator" ->
         {p \in Recent(w, asOf) : p.ticker \in Tradeable(w, asOf) /\ p.side = "up"}
    [] strategy = "creator_consensus" ->
         {p \in Recent(w, asOf) : /\ Cardinality(credible) >= Agreeing
                                  /\ p.ticker \in Tradeable(w, asOf) /\ p.creator \in credible}
    [] strategy = "test_always_aapl" -> {}

\* The sets of decisions the strategy may return.
Decisions(w, asOf, credible) ==
  LET posts == Scoped(w, asOf) IN
  CASE strategy = "mention_momentum" -> Momentum(posts)
    [] strategy = "bullish_catalyst_aggregator" -> {Catalysts(posts)}
    [] strategy = "creator_consensus" -> {Consensus(posts, credible)}
    [] strategy = "test_always_aapl" -> {Buys({Favourite} \cap Tradeable(w, asOf))}

\* What may come of evaluate: it raises at the first comparison of a time that
\* has no zone with one that has, or returns decisions.
Evaluations(w, asOf) ==
  UNION {IF ~ w.zoned /\ Compared(w, asOf, K) # {}
         THEN {[raised |-> TRUE, made |-> {}]}
         ELSE {[raised |-> FALSE, made |-> D] : D \in Decisions(w, asOf, K)} :
           K \in Credible(w, asOf)}

Regimes == {"unknown", "up", "down", "flat"}

\* _infer_regime: whether the benchmark's known closes have risen or fallen.
Regime(asOf) ==
  LET last == KnowableThrough(asOf) IN
  IF last < Trend THEN "unknown"
  ELSE IF Benchmark[last] > Benchmark[last - Trend + 1] THEN "up"
  ELSE IF Benchmark[last] < Benchmark[last - Trend + 1] THEN "down"
  ELSE "flat"
-----------------------------------------------------------------------------
(* The simulator and the loop *)

\* The bar of S that has n bars before it.
Nth(S, n) == CHOOSE s \in S : Cardinality({r \in S : r < s}) = n

\* Mutant: the exit is a date, not a bar.
SimulatedByDate(d, asOf) ==
  LET after == ForwardBars(world.bars[d.ticker], asOf) IN
  IF after = {} THEN {}
  ELSE {[decision |-> d, asOf |-> asOf, regime |-> Regime(asOf),
         entry |-> Nth(after, 0), exit |-> Nth(after, 0) + Holding]}

\* _simulate_decision: the trade, if there are bars enough to close it.
Simulated(d, asOf) ==
  LET after == ForwardBars(world.bars[d.ticker], asOf) IN
  IF Cardinality(after) <= Holding THEN {}
  ELSE {[decision |-> d, asOf |-> asOf, regime |-> Regime(asOf),
         entry |-> Nth(after, 0), exit |-> Nth(after, Holding)]}

\* The end of the test, clamped to the cutoff.
TestEnd == Min({End, Cutoff})

\* The opens of the sessions, or of the first session of each week, in the test.
Rebalances(m) ==
  LET inside == {s \in Session : Start <= OpenAt(s) /\ OpenAt(s) <= TestEnd} IN
  {OpenAt(s) : s \in {r \in inside :
     m = "daily" \/ \A q \in inside : q < r => (q - 1) \div Week # (r - 1) \div Week}}

\* The posts, bars and cards that a bounded instance looks at, and whether its
\* database keeps the zone of a time.
CONSTANTS PostsOf, BarsOf, CardsOf, ZonedOf

ASSUME WorldAssumption ==
  /\ IsFiniteSet(Tickers)
  /\ PostsOf \subseteq SUBSET Post
  /\ BarsOf \subseteq [Tickers -> SUBSET Session]
  /\ CardsOf \subseteq SUBSET Card
  /\ ZonedOf \subseteq BOOLEAN

Init ==
  /\ world \in [posts : PostsOf, bars : BarsOf, cards : CardsOf, zoned : ZonedOf]
  /\ strategy \in Strategies
  /\ mode \in Modes
  /\ todo = Rebalances(mode)
  /\ decided = {}
  /\ trades = {}
  /\ results = {}

\* The earliest rebalance to come.  A strategy that raises is warned of and
\* skipped: nothing is decided, and the loop goes on.
Rebalance(asOf) ==
  /\ \A later \in todo : asOf <= later
  /\ todo' = todo \ {asOf}
  /\ \E e \in Evaluations(world, asOf) :
       /\ decided' = decided \cup {[asOf |-> asOf, raised |-> e.raised, made |-> e.made]}
       /\ trades' = trades \cup UNION {Simulated(d, asOf) : d \in e.made}
  /\ UNCHANGED <<world, strategy, mode, results>>

\* _run_sanity_checks, "entry_le_exit_in_window"
InWindow ==
  \A t \in trades : t.entry <= t.exit /\ Start <= Stamp(t.entry) /\ Stamp(t.entry) <= TestEnd

\* What regime_breakdown counts.
InRegime(r) == Cardinality({t \in trades : t.regime = r})

\* The result is computed, and stored in place of the one of the run before.
Finish ==
  /\ todo = {}
  /\ results' = {[trades |-> Cardinality(trades), underpowered |-> Cardinality(trades) < Powered,
                  regimes |-> [r \in Regimes |-> InRegime(r)], inWindow |-> InWindow,
                  warnings |-> {d.asOf : d \in {e \in decided : e.raised}}]}
  /\ UNCHANGED <<world, strategy, mode, todo, decided, trades>>

Next == (\E asOf \in todo : Rebalance(asOf)) \/ Finish

Spec == Init /\ [][Next]_vars
-----------------------------------------------------------------------------
(* Properties *)

TypeOK ==
  /\ world.posts \subseteq Post /\ world.cards \subseteq Card
  /\ world.bars \in [Tickers -> SUBSET Session] /\ world.zoned \in BOOLEAN
  /\ strategy \in Strategies /\ mode \in Modes
  /\ todo \subseteq Moments
  /\ decided \subseteq [asOf : Moments, raised : BOOLEAN, made : SUBSET DecisionSet]
  /\ trades \subseteq [decision : DecisionSet, asOf : Moments, entry : Session, exit : Session,
                       regime : Regimes]
  /\ results \subseteq [trades : Nat, underpowered : BOOLEAN, regimes : [Regimes -> Nat],
                        inWindow : BOOLEAN, warnings : SUBSET Moments]

\* What there was of a world at a moment: posts and cards that existed and bars
\* of sessions that had closed.
Known(w, asOf) == [
  posts |-> {p \in w.posts : p.at <= asOf},
  bars  |-> [t \in Tickers |-> {s \in w.bars[t] : CloseAt(s) <= asOf}],
  cards |-> {c \in w.cards : c.at <= asOf},
  zoned |-> w.zoned ]

\* "The strategy never sees data after as_of" (ADR 0007): whatever the future
\* holds, the strategy decides, or raises, as if the world ended at the
\* rebalance.
DecisionsAreBlind ==
  \A d \in decided :
    [raised |-> d.raised, made |-> d.made] \in Evaluations(Known(world, d.asOf), d.asOf)

\* A trade is filled after it was decided and after all that was seen of it: at
\* the first open it can get, and it is closed Holding bars later.
FillsFollowDecisions ==
  \A t \in trades :
    LET bars == world.bars[t.decision.ticker] IN
    /\ OpenAt(t.entry) >= t.asOf
    /\ \A s \in bars : OpenAt(s) >= t.asOf => s >= t.entry
    /\ Cardinality({s \in bars : t.entry <= s /\ s < t.exit}) = Holding
=============================================================================
