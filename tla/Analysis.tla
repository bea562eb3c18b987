------------------------------- MODULE Analysis -------------------------------
(***************************************************************************)
(* The research view of a ticker (app/analysis), from its bars to the      *)
(* action it implies: the indicator panel (indicators.py, levels.py), the  *)
(* cascade of setups (setup.py), the fit of the styles (style.py), the     *)
(* rubric of the status (status.py), the entry zone (entry.py) and the     *)
(* label (action.py).                                                      *)
(*                                                                         *)
(* Ratios are in hundredths of a percent.  The SMA of TradeLevels is the   *)
(* one of 50 days, its EMA the one of 21.                                  *)
(***************************************************************************)
EXTENDS TradeLevels

CONSTANTS
  LongBars,       \* bars of the long SMA, and of a sufficient history
  SlopeBars, LongSlopeBars,
  RsiBars, VolBars, TightBars,
  NearBars, FarBars     \* bars of the relative strengths

ASSUME AnalysisAssumption ==
  {LongBars, SlopeBars, LongSlopeBars, RsiBars, TightBars, NearBars, FarBars} \subseteq Nat \ {0}
    /\ VolBars \in Nat \ {0, 1}

Ratio(a, b) == (10000 * a) \div b
Above(opt, x) == \E y \in opt : y > x
Below(opt, x) == \E y \in opt : y < x
Within(opt, lo, hi) == \E y \in opt : lo <= y /\ y <= hi

\* A cascade: the first rule that holds.
Rule(holds, says) == [holds |-> holds, says |-> says]
First(rules) == rules[Min({i \in DOMAIN rules : rules[i].holds})].says
-----------------------------------------------------------------------------
(* indicators.py *)

LongSma(bars) == IF Len(bars) < LongBars THEN {} ELSE {Mean(Latest(Closes(bars), LongBars))}

\* ma_slope_pct
SlopeOf(bars, n, back) ==
  LET mean(m) == Mean(Latest(SubSeq(Closes(bars), 1, m), n))
      past == mean(Len(bars) - back)
  IN IF Len(bars) < n + back THEN {} ELSE {Ratio(mean(Len(bars)) - past, past)}

Alignment(price, sma, long) ==
  CASE sma = {} \/ long = {} -> "insufficient"
    [] Below(sma, price) /\ \E s \in sma : Below(long, s) -> "bullish_stack"
    [] Above(sma, price) /\ \E s \in sma : Above(long, s) -> "bearish_stack"
    [] OTHER -> "mixed"

Moves(bars, n) ==
  [k \in 1..n |-> bars[Len(bars) - n + k].close - bars[Len(bars) - n + k - 1].close]

Rsi(bars) ==
  LET moves == Moves(bars, RsiBars)
      up == Total([k \in DOMAIN moves |-> Max({moves[k], 0})])
      all == Total([k \in DOMAIN moves |-> Max({moves[k], - moves[k]})])
  IN IF Len(bars) < RsiBars + 1 THEN {} ELSE {IF all = 0 THEN 5000 ELSE Ratio(up, all)}

\* realized_vol_annualized, as the variance of the daily returns
Variance(bars) ==
  LET moves == Moves(bars, VolBars)
      returns == [k \in DOMAIN moves |-> Ratio(moves[k], bars[Len(bars) - VolBars + k - 1].close)]
      sum == Total(returns)
      squares == Total([k \in DOMAIN returns |-> returns[k] * returns[k]])
  IN IF Len(bars) < VolBars + 1 THEN {}
     ELSE {(VolBars * squares - sum * sum) \div (VolBars * (VolBars - 1))}

Trailing(closes, n) ==
  LET prior == closes[Len(closes) - n]
  IN IF Len(closes) < n + 1 THEN {} ELSE {Ratio(closes[Len(closes)] - prior, prior)}

\* The benchmark has a bar for every bar of the ticker.
RelativeStrength(bars, bench, n) ==
  {t - b : t \in Trailing(Closes(bars), n), b \in Trailing(Latest(bench, Len(bars)), n)}
-----------------------------------------------------------------------------
(* levels.py *)

\* pullback_pct_from_recent_high
PulledBack(bars) ==
  LET high == Max(Range(Latest(Closes(bars), HighBars)))
  IN IF Len(bars) < HighBars THEN {} ELSE {Ratio(high - bars[Len(bars)].close, high)}

\* breakout_distance_pct: the bar of today is not part of the high.
BrokenOut(bars) ==
  LET high == Max(Range(Latest(Front(Closes(bars)), HighBars)))
  IN IF Len(bars) < HighBars + 1 THEN {} ELSE {Ratio(bars[Len(bars)].close - high, high)}

\* consolidation_range_pct
Consolidation(bars) ==
  LET last == Range(Latest(bars, TightBars))
      high == Max({b.high : b \in last})
      low == Min({b.low : b \in last})
  IN IF Len(bars) < TightBars THEN {} ELSE {Ratio(2 * (high - low), high + low)}

\* The panels of a ticker with bars.
Panel(bars, bench, liquid) ==
  LET close == bars[Len(bars)].close
      off(means) == {Ratio(close - m, m) : m \in means}
      top == Max({b.high : b \in Range(Latest(bars, BaseBars))})
  IN [view      |-> View(bars),
      liquid    |-> liquid,
      alignment |-> Alignment(close, Sma(bars), LongSma(bars)),
      slope     |-> SlopeOf(bars, SmaBars, SlopeBars),
      longSlope |-> SlopeOf(bars, LongBars, LongSlopeBars),
      offSma    |-> off(Sma(bars)),
      offEma    |-> off(Ema(bars)),
      offLong   |-> off(LongSma(bars)),
      rsi       |-> Rsi(bars),
      atr       |-> {Ratio(a, close) : a \in Atr(bars)},
      variance  |-> Variance(bars),
      near      |-> RelativeStrength(bars, bench, NearBars),
      far       |-> RelativeStrength(bars, bench, FarBars),
      pullback  |-> PulledBack(bars),
      breakout  |-> BrokenOut(bars),
      range     |-> Consolidation(bars),
      depth     |-> Ratio(top - View(bars).base, top)]
-----------------------------------------------------------------------------
(* setup.py *)

Rising(p) == p.alignment = "bullish_stack"

\* A daily range of more than 8 %, or a volatility of more than 80 % in a year.
Wild(p) == Above(p.atr, 800) \/ Above(p.variance, (8000 * 8000) \div 252)

Falling(p) ==
  \/ p.alignment = "bearish_stack" /\ (p.slope = {} \/ Below(p.slope, -50))
  \/ Below(p.offLong, -300) /\ Below(p.longSlope, -50) /\ Below(p.far, -1000)

Extended(p) == Above(p.offSma, 1500) /\ Above(p.rsi, 7500)
Dipped(p) == Within(p.pullback, 400, 1800)

Breaking(p) ==
  \/ Within(p.range, 0, 800) /\ Within(p.breakout, -300, 300)
  \/ Within(p.breakout, 1, 300)

\* Mutant: the trend is looked at before the volatility.
SetupTrendFirst(p) ==
  First(<<Rule(p.offLong = {}, "insufficient_data"),
          Rule(~ p.liquid, "low_liquidity"),
          Rule(Falling(p), "downtrend"),
          Rule(Rising(p) /\ Extended(p), "extended_momentum"),
          Rule(Rising(p) /\ Dipped(p), "uptrend_pullback"),
          Rule(Rising(p) /\ Breaking(p), "breakout_candidate"),
          Rule(Rising(p) /\ Above(p.slope, 50), "strong_uptrend"),
          Rule(Wild(p), "high_volatility_unstable"),
          Rule(TRUE, "unclear")>>)

\* classify_setup
Setup(p) ==
  First(<<Rule(p.offLong = {}, "insufficient_data"),
          Rule(~ p.liquid, "low_liquidity"),
          Rule(Wild(p), "high_volatility_unstable"),
          Rule(Falling(p), "downtrend"),
          Rule(Rising(p) /\ Extended(p), "extended_momentum"),
          Rule(Rising(p) /\ Dipped(p), "uptrend_pullback"),
          Rule(Rising(p) /\ Breaking(p), "breakout_candidate"),
          Rule(Rising(p) /\ Above(p.slope, 50), "strong_uptrend"),
          Rule(p.alignment \in {"mixed", "insufficient"} /\ Within(p.range, 0, 1000),
               "range_bound"),
          Rule(TRUE, "unclear")>>)
-----------------------------------------------------------------------------
(* style.py: the fits of the styles, of 3 (high), 2 (medium) and 1 (low) *)

Graded(high, medium) == IF high THEN 3 ELSE IF medium THEN 2 ELSE 1

MomentumBreakout(p, setup) ==
  LET breakout == setup = "breakout_candidate"
      tight == Within(p.range, 0, 500)
      strong == Above(p.near, 0)
  IN Graded(breakout /\ tight /\ strong,
            (breakout \/ Within(p.breakout, -500, 200)) /\ (tight \/ strong))

TrendPullback(p, setup) ==
  LET atMean == Within(p.offEma, -600, 400) \/ Within(p.offSma, -800, 400)
  IN Graded(setup = "uptrend_pullback" /\ atMean,
            setup = "uptrend_pullback" \/ (Rising(p) /\ Dipped(p)))

MeanReversion(p, setup) ==
  LET low == Within(p.rsi, 0, 3000)
  IN Graded(setup = "range_bound" /\ low,
            \/ setup = "range_bound" /\ Within(p.rsi, 7000, 10000)
            \/ low /\ setup \in {"uptrend_pullback", "strong_uptrend"})

BaseBreakout(p, setup) ==
  LET long == p.depth < 2000
  IN Graded(/\ long /\ Within(p.breakout, -500, 200)
            /\ setup \in {"breakout_candidate", "strong_uptrend"},
            long)

StrengthLeader(p, setup) ==
  LET leads == Above(p.near, 500) /\ Above(p.far, 1000)
      trend == {"strong_uptrend", "uptrend_pullback"}
  IN Graded(leads /\ setup \in trend \cup {"breakout_candidate"},
            leads \/ (Above(p.near, 300) /\ setup \in trend))

Fits(p, setup) ==
  {MomentumBreakout(p, setup), TrendPullback(p, setup), MeanReversion(p, setup),
   BaseBreakout(p, setup), StrengthLeader(p, setup)}
-----------------------------------------------------------------------------
(* status.py *)

Constructive == {"strong_uptrend", "uptrend_pullback", "breakout_candidate"}

\* The setups to stay away from, whatever the rubric.
Refused == {"low_liquidity", "high_volatility_unstable", "downtrend"}

\* The rules of the rubric that pass; that there is a base to refer to always does.
HighPassed(p) == {rule \in {"alignment", "slope"} :
                    IF rule = "slope" THEN Above(p.slope, 0) ELSE Rising(p)}
MediumPassed(p, setup) ==
  {rule \in {"strength", "reference", "style"} :
     CASE rule = "strength"  -> Above(p.near, 0)
       [] rule = "reference" -> TRUE
       [] rule = "style"     -> Fits(p, setup) # {1}}

\* derive_status
StatusOf(p, setup) ==
  LET as(status, confidence) == [status |-> status, confidence |-> confidence]
      built == setup \in Constructive
      high == Cardinality(HighPassed(p))
      medium == Cardinality(MediumPassed(p, setup))
  IN First(<<Rule(setup = "insufficient_data", as("insufficient_data", "low")),
             Rule(setup \in Refused, as("skip_for_now", "medium")),
             Rule(setup = "extended_momentum", as("extended_risk", "medium")),
             Rule(built /\ high = 2 /\ medium >= 1 /\ 3 \in Fits(p, setup),
                  as("research_candidate", IF medium >= 2 THEN "high" ELSE "medium")),
             Rule(built /\ high >= 1, as("watch", "medium")),
             Rule(setup = "range_bound", as("wait_for_setup", "medium")),
             Rule(setup = "unclear", as("wait_for_setup", "low")),
             Rule(TRUE, as("watch", "low"))>>)
-----------------------------------------------------------------------------
(* entry.py and action.py *)

\* build_entry_zone: the zone of the setup, if it has one.
ZoneOf(p, setup) ==
  LET v == p.view
      range == {[low |-> v.base, high |-> v.base + a \div 2, stop |-> v.base - a \div 2] :
                  a \in v.atr}
  IN CASE v.atr = {} -> {}
       [] setup = "breakout_candidate" -> Breakout(v)
       [] setup = "uptrend_pullback" -> Pullback(v)
       [] setup = "strong_uptrend" /\ ~ Below(p.pullback, 400) /\ p.pullback # {} -> Pullback(v)
       [] setup = "range_bound" -> range
       [] OTHER -> {}

\* derive_action_signal
LabelOf(status, zone) ==
  LET is(s, c) == status.status = s /\ status.confidence \in c
  IN First(<<Rule(status.status = "insufficient_data", "N/A"),
             Rule(status.status = "skip_for_now", "AVOID"),
             Rule(status.status = "extended_risk", "REDUCE"),
             Rule(is("research_candidate", {"high"}) /\ zone # {}, "BUY"),
             Rule(is("research_candidate", {"high", "medium"}), "ACCUMULATE"),
             Rule(is("watch", {"medium", "low"}) \/ status.status = "wait_for_setup", "WAIT"),
             Rule(TRUE, "HOLD")>>)

\* build_ticker_research_view: what the view of a ticker concludes.
Concluded(bars, bench, liquid) ==
  IF bars = <<>> THEN [setup |-> "insufficient_data", status |-> "insufficient_data",
                       label |-> "N/A"]
  ELSE LET p == Panel(bars, bench, liquid)
           setup == Setup(p)
           status == StatusOf(p, setup)
       IN [setup |-> setup, status |-> status.status,
           label |-> LabelOf(status, ZoneOf(p, setup))]
=============================================================================
