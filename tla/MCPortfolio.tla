---------------------------- MODULE MCPortfolio ----------------------------
(***************************************************************************)
(* An instance of Portfolio for TLC: two tickers, two currencies, three    *)
(* days and at most three trades in the table.  Either two requests in UTC *)
(* overlap, or requests in any zone follow one another.                    *)
(***************************************************************************)
EXTENDS Portfolio, TLC

VARIABLE overlapping   \* which of the two

MCTrade(k, side, quantity, currency, day) ==
  [ticker |-> k, side |-> side, quantity |-> quantity, currency |-> currency, traded_at |-> day]

\* A buy, and a sell of half of it a day later.
MCPayloads == { MCTrade("A", "buy", 2, "USD", 2), MCTrade("A", "sell", 1, "USD", 3) }

\* Half the shares, on the day of the buy, in another currency, which only the one
\* trade of a ticker can take; or another ticker.
MCPatches == { [quantity |-> 1, traded_at |-> 2, currency |-> "EUR"],
               [ticker |-> "B", quantity |-> 1, traded_at |-> 2] }

\* The clocks of the zones are one day behind or ahead.  Only the order of instants
\* matters, and an hour can change it as well as a day.
MCZones == {-1, 0, 1}

\* Requests that overlap meet a clock that stands; the others see the future, too.
MCInit == Init /\ overlapping \in BOOLEAN /\ (overlapping => now = 3)

Busy == {c \in Clients : pc[c] # "idle"}

MCNext ==
  /\ Next
  /\ UNCHANGED overlapping
  /\ IF overlapping THEN \A c \in Busy' : req'[c].offset = 0
                    ELSE Cardinality(Busy') <= 1

MCSpec == MCInit /\ [][MCNext]_<<vars, overlapping>>

MCSymmetry == Permutations(Clients)
=============================================================================
