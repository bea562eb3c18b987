----------------------------- MODULE Evaluation -----------------------------
(***************************************************************************)
(* The pure part of the backtest: when a call becomes a position           *)
(* (backtest/activation.py), what that position earned over a horizon      *)
(* (backtest/outcomes.py), and the trading calendar the two stand on       *)
(* (market/calendar.py).                                                   *)
(*                                                                         *)
(* Time is counted in thirds of a trading day.  Session s is stamped at    *)
(* its date's midnight (that is what the price provider calls its bar),    *)
(* opens one third later and closes two thirds later, so that a time t     *)
(* with t % 3 = 0 is before the open, 1 is during the session and 2 is     *)
(* after the close.  Weekends and holidays do not exist in session time.   *)
(*                                                                         *)
(* A price is a positive integer; NoPrice is Python's None.  A return is   *)
(* represented by the signed price move it is proportional to: the fill    *)
(* price it is divided by is positive and the same for every metric of a   *)
(* row.  The round-trip cost and the benchmark return are constant shifts  *)
(* of the same number and are left out; whether a benchmark return exists  *)
(* at all is kept, by the Backtest module.                                 *)
(***************************************************************************)
EXTENDS Integers, FiniteSets

CONSTANTS
  TriggerWindow     \* settings.backtest.trigger_window_days

ASSUME TriggerWindowAssumption == TriggerWindow \in Nat \ {0}

Stamp(s)   == 3 * s
OpenAt(s)  == 3 * s + 1
CloseAt(s) == 3 * s + 2

NoPrice   == 0
NoSession == 0

EntryTypes == {"market", "unspecified", "limit", "trigger_above", "trigger_below"}
Directions == {"long", "short", "unspecified"}

Price == Nat \ {0}

\* One row of the daily OHLC frame.
Bar == {b \in [open : Price, high : Price, low : Price, close : Price] :
          /\ b.low <= b.open  /\ b.open  <= b.high
          /\ b.low <= b.close /\ b.close <= b.high}

\* What _freeze_call keeps of an ExtractedCall.
Shape == [entry     : EntryTypes,
          direction : Directions,
          price     : Nat,
          target    : Nat,
          stop      : Nat]

Lower(x, y)  == IF x <= y THEN x ELSE y
Higher(x, y) == IF x <= y THEN y ELSE x

First(S) == CHOOSE s \in S : \A t \in S : s <= t
Last(S)  == CHOOSE s \in S : \A t \in S : t <= s
-----------------------------------------------------------------------------
(* Activation *)

AtMarket(call) == call.entry \in {"market", "unspecified"}

\* The bar's range reaches the call's entry price in the way its type asks.
Touches(call, bar) ==
  \/ call.entry = "limit" /\ call.direction = "long"  /\ bar.low  <= call.price
  \/ call.entry = "limit" /\ call.direction = "short" /\ bar.high >= call.price
  \/ call.entry = "trigger_above" /\ bar.high >= call.price
  \/ call.entry = "trigger_below" /\ bar.low  <= call.price

\* A gap through the price fills at the open.
Fill(call, bar) ==
  IF AtMarket(call) THEN bar.open
  ELSE IF call.entry = "trigger_below" \/ (call.entry = "limit" /\ call.direction = "long")
       THEN Lower(bar.open, call.price)
       ELSE Higher(bar.open, call.price)

\* Mutant: dates are compared instead of times.
BarsFromDate(daily, posted) == {s \in DOMAIN daily : s >= posted \div 3}

BarsAfter(daily, posted) == {s \in DOMAIN daily : Stamp(s) > posted}

\* daily_bars.iloc[:trigger_window_days] of the bars after the post.
Window(daily, posted) ==
  {s \in BarsAfter(daily, posted) :
     Cardinality({t \in BarsAfter(daily, posted) : t < s}) < TriggerWindow}

\* The sessions of the window whose bar would make the call a position.
Entries(call, daily, posted) ==
  {s \in Window(daily, posted) :
     \/ AtMarket(call)
     \/ call.price # NoPrice /\ Touches(call, daily[s])}

\* The session the call activates in, NoSession if it does not.
DetermineActivation(call, daily, posted) ==
  IF Entries(call, daily, posted) = {} THEN NoSession
  ELSE First(Entries(call, daily, posted))
-----------------------------------------------------------------------------
(* Horizons and outcomes *)

\* Close of the n-th session that opens after the activation time, which is
\* the activation bar's midnight stamp: the activation session is the first.
HorizonEnd(s, n) == CloseAt(s + n - 1)

\* Mutant: the bar of the horizon's last session is enough.
HorizonReached(daily, s, n) == \E t \in DOMAIN daily : Stamp(t) >= Stamp(s + n - 1)

\* Some bar is stamped at or after the end of the horizon.
HorizonCovered(daily, s, n) == \E t \in DOMAIN daily : Stamp(t) >= HorizonEnd(s, n)

SliceWindow(daily, s, n) ==
  {t \in DOMAIN daily : Stamp(t) >= Stamp(s) /\ Stamp(t) <= HorizonEnd(s, n)}

\* Only "long" is a long: an unspecified direction is scored as a short.
Signed(call, fill, value) ==
  IF call.direction = "long" THEN value - fill ELSE fill - value

Highest(daily, win) == CHOOSE p \in {daily[t].high : t \in win} : \A t \in win : daily[t].high <= p
Lowest(daily, win)  == CHOOSE p \in {daily[t].low  : t \in win} : \A t \in win : p <= daily[t].low

Mfe(call, fill, daily, win) ==
  Signed(call, fill, IF call.direction = "long" THEN Highest(daily, win) ELSE Lowest(daily, win))
Mae(call, fill, daily, win) ==
  Signed(call, fill, IF call.direction = "long" THEN Lowest(daily, win) ELSE Highest(daily, win))

\* hit_target and hit_stop are each decided alone, in no order.
HitTarget(call, daily, win) ==
  IF call.target = NoPrice THEN "none"
  ELSE IF \E t \in win : IF call.direction = "long" THEN daily[t].high >= call.target
                                                   ELSE daily[t].low  <= call.target
       THEN "hit" ELSE "miss"
HitStop(call, daily, win) ==
  IF call.stop = NoPrice THEN "none"
  ELSE IF \E t \in win : IF call.direction = "long" THEN daily[t].low  <= call.stop
                                                   ELSE daily[t].high >= call.stop
       THEN "hit" ELSE "miss"

ComputeOutcome(call, daily, s, n) ==
  LET win  == SliceWindow(daily, s, n)
      fill == Fill(call, daily[s])
  IN  [exit   |-> Last(win),
       gross  |-> Signed(call, fill, daily[Last(win)].close),
       mfe    |-> Mfe(call, fill, daily, win),
       mae    |-> Mae(call, fill, daily, win),
       target |-> HitTarget(call, daily, win),
       stop   |-> HitStop(call, daily, win)]
=============================================================================
