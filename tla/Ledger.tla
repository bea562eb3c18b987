------------------------------- MODULE Ledger -------------------------------
(***************************************************************************)
(* The validity of a trade ledger (portfolio/ledger.py): fold_trades goes  *)
(* through the trades of each ticker in the order of (traded_at, id) and   *)
(* raises LedgerError when a sell exceeds what is held at that point or    *)
(* when one ticker's trades have two currencies.                           *)
(*                                                                         *)
(* Prices, fees and euro amounts decide the cost basis and the realized    *)
(* profit, never whether the fold succeeds, and are left out; a quantity   *)
(* is a number of smallest units, so that EPS has nothing to absorb.       *)
(***************************************************************************)
EXTENDS Integers, FiniteSets, Functions

CONSTANTS
  Tickers,
  Currencies,
  Quantities,
  Times         \* the values traded_at can have

ASSUME QuantitiesAssumption == Quantities \subseteq Nat \ {0}
ASSUME TimesAssumption      == Times \subseteq Nat

Sides == {"buy", "sell"}

\* The columns of portfolio_trades that matter here.
Trade == [ticker : Tickers, side : Sides, quantity : Quantities,
          currency : Currencies, traded_at : Times]

\* A TradeRecord is a trade with an id; a candidate has none.
None == 0
Record(i, t) == [id |-> i, trade |-> t]

\* _sort_key: a candidate without an id is the first of its instant.
Before(x, y) ==
  \/ x.trade.traded_at < y.trade.traded_at
  \/ x.trade.traded_at = y.trade.traded_at /\ x.id < y.id

Signed(t) == IF t.side = "buy" THEN t.quantity ELSE - t.quantity

OfTicker(records, k) == {x \in records : x.trade.ticker = k}

\* The quantity held after record y of the ticker's records.
HeldAfter(own, y) ==
  SumFunction([x \in {z \in own : z = y \/ Before(z, y)} |-> Signed(x.trade)])

NeverOversold(own) == \A y \in own : y.trade.side = "sell" => HeldAfter(own, y) >= 0

OneCurrency(own) == \A x, y \in own : x.trade.currency = y.trade.currency

TickerFolds(records, k) ==
  OneCurrency(OfTicker(records, k)) /\ NeverOversold(OfTicker(records, k))

\* fold_trades(records) does not raise.
Folds(records) == \A k \in Tickers : TickerFolds(records, k)
=============================================================================
