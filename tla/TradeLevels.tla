----------------------------- MODULE TradeLevels -----------------------------
(***************************************************************************)
(* The price levels of a research plan: the indicators and levels of the   *)
(* analysis view that they are built from (analysis/indicators.py and      *)
(* analysis/levels.py), the two entry zones (analysis/entry.py), the       *)
(* candidate exits and stops (research/exits.py), the resolution of a      *)
(* model's picks among them (research/quick.py and agents/judge.py), and   *)
(* the distribution of risk/reward over the candidates                     *)
(* (research/rr_distribution.py).                                          *)
(*                                                                         *)
(* Prices are integers fine enough for the fractions of the code; an       *)
(* optional value is a set of at most one element.                         *)
(***************************************************************************)
EXTENDS Integers, Sequences, FiniteSets, SequencesExt, FiniteSetsExt

CONSTANTS
  Pivot,      \* bars on each side of a swing
  Visible,    \* bars a swing stays visible
  HighBars,   \* bars of the recent high
  BaseBars,   \* bars of the base
  EmaBars, SmaBars, AtrBars

ASSUME BarsAssumption ==
  {Pivot, Visible, HighBars, BaseBars, EmaBars, SmaBars, AtrBars} \subseteq Nat \ {0}

Kinds == {"breakout", "pullback"}

Latest(s, n) == SubSeq(s, Max({1, Len(s) - n + 1}), Len(s))
Total(s) == FoldLeft(LAMBDA sum, x : sum + x, 0, s)
Mean(s) == Total(s) \div Len(s)
Closes(bars) == [i \in DOMAIN bars |-> bars[i].close]
Only(opt) == CHOOSE x \in opt : TRUE
-----------------------------------------------------------------------------
(* indicators.py and levels.py *)

Sma(bars) == IF Len(bars) < SmaBars THEN {} ELSE {Mean(Latest(Closes(bars), SmaBars))}

Ema(bars) ==
  IF Len(bars) < EmaBars THEN {}
  ELSE {FoldLeft(LAMBDA e, c : e + (2 * (c - e)) \div (EmaBars + 1),
                 bars[1].close, Closes(bars))}

TrueRange(bars, i) ==
  Max({bars[i].high, bars[i-1].close}) - Min({bars[i].low, bars[i-1].close})

Atr(bars) ==
  IF Len(bars) < AtrBars + 1 THEN {}
  ELSE {Mean([k \in 1..AtrBars |-> TrueRange(bars, Len(bars) - AtrBars + k)])}

\* The swings whose bars are confirmed on both sides and still visible.
Swings(bars, beats(_, _)) ==
  {i \in Pivot + 1..Len(bars) - Pivot :
     /\ i > Len(bars) - Visible
     /\ \A j \in i - Pivot..i + Pivot : j # i => beats(bars[i], bars[j])}

SwingHighs(bars) == {bars[i].high : i \in Swings(bars, LAMBDA a, b : a.high > b.high)}
SwingLows(bars) == {bars[i].low : i \in Swings(bars, LAMBDA a, b : a.low < b.low)}

NearestAbove(p, ps) == {q \in ps : q > p /\ \A r \in ps : r > p => q <= r}
NearestBelow(p, ps) == {q \in ps : q < p /\ \A r \in ps : r < p => q >= r}

View(bars) ==
  LET close == bars[Len(bars)].close IN
  [close      |-> close,
   atr        |-> Atr(bars),
   sma        |-> Sma(bars),
   ema        |-> Ema(bars),
   resistance |-> NearestAbove(close, SwingHighs(bars)),
   support    |-> NearestBelow(close, SwingLows(bars)),
   high       |-> Max(Range(Latest(Closes(bars), HighBars))),
   base       |-> Min({b.low : b \in Range(Latest(bars, BaseBars))})]
-----------------------------------------------------------------------------
(* entry.py: the zones offered to a model, whatever the setup *)

Breakout(v) ==
  {[low  |-> v.high,
    high |-> v.high + atr \div 2,
    stop |-> Max({v.base, v.high - (3 * atr) \div 2})] : atr \in v.atr}

Pullback(v) ==
  LET anchors == v.ema \cup v.sma
      low == Min(anchors)
      high(atr) == IF Cardinality(anchors) = 1 THEN low + atr \div 2 ELSE Max(anchors)
      stops(atr) == {p \in v.support : p < low} \cup {s - atr : s \in v.sma}
                      \cup {low - (3 * atr) \div 2}
  IN IF anchors = {} THEN {}
     ELSE {[low |-> low, high |-> high(atr), stop |-> Max(stops(atr))] : atr \in v.atr}
-----------------------------------------------------------------------------
(* exits.py *)

Degenerate(zone, atr) ==
  LET width == zone.high - zone.low
  IN atr > 0 /\ (width <= 0 \/ 20 * width < atr \/ width > 5 * atr)

\* The entry zones, by kind.
Entries(v) ==
  LET zone == [breakout |-> Breakout(v), pullback |-> Pullback(v)]
      usable(kind) == \E z \in zone[kind], atr \in v.atr : ~ Degenerate(z, atr)
  IN [kind \in {k \in Kinds : usable(k)} |->
        [low |-> Only(zone[kind]).low, high |-> Only(zone[kind]).high]]

Cushion(v) == IF v.atr = {} THEN 0 ELSE Only(v.atr) \div 4
Band(v, p) == [low |-> p, high |-> p + Cushion(v)]
When(condition, s) == IF condition THEN s ELSE <<>>

\* _fib_extension, by a factor in thousandths, if that is beyond the close
Extension(v, factor) ==
  LET band == Band(v, v.base + ((v.high - v.base) * factor) \div 1000)
  IN When(v.high > v.base /\ band.high > v.close, <<band>>)

Primaries(v) ==
  LET first == When(v.resistance # {}, <<Band(v, Only(v.resistance))>>)
      close == first # <<>> /\ \E atr \in v.atr :
                 v.high - first[1].low < atr /\ first[1].low - v.high < atr
      second == When(v.high > v.close /\ ~ close, <<Band(v, v.high)>>)
  IN first \o second \o Extension(v, 1272)

\* out.sort(key=lambda z: z.low), which is stable
ByLow(zones) ==
  LET rank(i) == Cardinality({j \in DOMAIN zones :
                   zones[j].low < zones[i].low \/ (zones[j].low = zones[i].low /\ j <= i)})
  IN [k \in DOMAIN zones |-> zones[CHOOSE i \in DOMAIN zones : rank(i) = k]]

Runners(v) ==
  LET beyond(z) == Band(v, z.high + (3 * Only(v.atr)) \div 2)
      primaries == Primaries(v)
  IN IF v.atr = {} THEN <<>>
     ELSE ByLow([i \in DOMAIN primaries |-> beyond(primaries[i])] \o Extension(v, 1618))

\* Mutant: the stops are not compared with the entry zones.
StopsUnfiltered(v) ==
  SetToSeq({z.stop : z \in Breakout(v) \cup Pullback(v)} \cup v.support
             \cup {v.base - atr \div 2 : atr \in v.atr \ {0}})

\* _build_invalidations: anchor by anchor, what lies below every entry zone, each once.
Stops(v) ==
  LET entries == Entries(v)
      usable(p) == \A kind \in DOMAIN entries : p < entries[kind].low
      add(seen, anchor) ==
        LET new == {p \in anchor : usable(p)} \ Range(seen)
        IN IF new = {} THEN seen ELSE Append(seen, Only(new))
      breakout == add(<<>>, {z.stop : z \in Breakout(v)})
      pullback == add(breakout, {z.stop : z \in Pullback(v)})
      support  == add(pullback, v.support)
  IN add(support, {v.base - atr \div 2 : atr \in v.atr \ {0}})
-----------------------------------------------------------------------------
(* quick.py and judge.py: the picks of a model, a record of a kind and of       *)
(* indices that need not exist, resolved among the candidates *)

Resolvable(v) == DOMAIN Entries(v) # {} /\ Primaries(v) # <<>> /\ Stops(v) # <<>>

\* _clamp_index
Clamped(s, i) == s[1 + Max({0, Min({i, Len(s) - 1})})]

\* _resolve_invalidation: a stop that is not below the entry is replaced.
StopBelow(entry, v, picked) ==
  IF picked < entry.low THEN picked
  ELSE IF \E atr \in v.atr : atr > 0 THEN entry.low - (3 * Only(v.atr)) \div 4
  ELSE (entry.low * 95) \div 100

Resolve(picks, v) ==
  LET entries == Entries(v)
      kind == IF picks.kind \in DOMAIN entries THEN picks.kind ELSE Only(DOMAIN entries)
  IN [entry   |-> entries[kind],
      primary |-> Clamped(Primaries(v), picks.primary),
      runner  |-> {Clamped(Runners(v), i) : i \in IF Runners(v) = <<>> THEN {} ELSE picks.runner},
      stop    |-> StopBelow(entries[kind], v, Clamped(Stops(v), picks.stop))]
-----------------------------------------------------------------------------
(* rr_distribution.py *)

\* risk_reward, in hundredths and rounded to the nearest
RiskReward(entry, exit, stop) ==
  LET loss == entry.low - stop
      reward == exit.low - entry.high
  IN IF loss <= 0 \/ reward <= 0 THEN 0 ELSE (200 * reward + loss) \div (2 * loss)

\* compute_rr_distribution: the combinations that are trades, with their R/R.
Combos(v) ==
  LET entries == Entries(v)
      runners == {{}} \cup {{r} : r \in Range(Runners(v))}
      all == [entry : Range(entries), primary : Range(Primaries(v)), runner : runners,
              stop : Range(Stops(v))]
  IN {c \in all : c.entry.low > c.stop /\ RiskReward(c.entry, c.primary, c.stop) > 0}
=============================================================================
