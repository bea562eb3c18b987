----------------------------- MODULE LensScoring -----------------------------
(***************************************************************************)
(* The realised outcomes of the lenses that Research records               *)
(* (scoring/lens_outcomes.py, scoring/lens_market_adapter.py): a stage of  *)
(* the daily job measures what the ticker did after each snapshot, once    *)
(* for every horizon, together with the regime of the market.              *)
(***************************************************************************)
EXTENDS Research

CONSTANTS
  Horizons,     \* HORIZONS, in sessions
  TrendDays,    \* sessions of the return that tells a regime
  Benchmark,    \* the closes of the benchmark, in cents: the sessions of the calendar
  MaxAge        \* --max-age-days of the daily job, in thirds of a day

ASSUME LensAssumption ==
  /\ Horizons \subseteq Nat \ {0} /\ TrendDays \in Nat \ {0} /\ MaxAge \in Nat
  /\ Benchmark \in Seq(Nat \ {0})

VARIABLE
  outcomes      \* lens_outcomes, by snapshot and horizon

vars == <<researchVars, outcomes>>

LensInit == Init /\ outcomes = <<>>
-----------------------------------------------------------------------------
(* CachedMarketAdapter *)

\* The exchange goes on when the ticker does not: the tape of a ticker that is
\* delisted or halted ends before the calendar does.
Calendar == DOMAIN Benchmark

\* Mutant: the horizon starts at the snapshot and not at the close before it.
AnchoredAtSnapshot(asOf) == Max({0} \cup {s \in Calendar : OpenAt(s) <= asOf})

\* last_completed_session_close: the close that was known at the snapshot.
Anchor(asOf) == Max({0} \cup {s \in Calendar : CloseAt(s) <= asOf})

\* The session a return of n days ends in, when it has one: the last up to its end of
\* those the provider shows, the first to the one numbered shown.
ExitOf(asOf, n, shown) ==
  LET start == Anchor(asOf)
      end == start + n
  IN IF start > 0 /\ end \in Calendar /\ CloseAt(end) <= now /\ shown > start
     THEN {Min({end, shown})}
     ELSE {}

\* What the provider can show of the ticker.
Listed(shown) == Min({shown, Len(tape.closes)})

\* regime_for: the sign of a move of more than two percent.
RegimeFor(asOf, shown) ==
  LET start == Benchmark[Anchor(asOf)]
      move(s) == 100 * (Benchmark[s] - start)
      exit == ExitOf(asOf, TrendDays, shown)
  IN IF exit = {} THEN "flat"
     ELSE CASE move(Only(exit)) > 2 * start -> "up"
            [] move(Only(exit)) < -2 * start -> "down"
            [] OTHER -> "flat"

\* direction_correct: a move of a dollar is beyond the neutral band.
Correct(direction, entry, exit) ==
  IF direction = "bullish" THEN tape.closes[exit] > tape.closes[entry]
  ELSE tape.closes[exit] < tape.closes[entry]
-----------------------------------------------------------------------------
(* compute_lens_outcomes *)

\* Mutant: a snapshot is dropped on the day it reaches the age.
DueInside(shown) ==
  {p \in ((DOMAIN snapshots) \X Horizons) \ DOMAIN outcomes :
     /\ p[1][1] > now - MaxAge
     /\ now - p[1][1] >= 3 * p[2]
     /\ ExitOf(p[1][1], p[2], Listed(shown)) # {}}

\* The snapshots young enough, the horizons as old as their days, and no row yet.  What
\* has no return is tried again by the next run, until it is too old.
Due(shown) ==
  {p \in ((DOMAIN snapshots) \X Horizons) \ DOMAIN outcomes :
     /\ p[1][1] >= now - MaxAge
     /\ now - p[1][1] >= 3 * p[2]
     /\ ExitOf(p[1][1], p[2], Listed(shown)) # {}}

Outcome(key, n, shown) ==
  LET entry == Anchor(key[1])
      exit == Only(ExitOf(key[1], n, Listed(shown)))
  IN [entry   |-> entry,
      exit    |-> exit,
      correct |-> Correct(snapshots[key], entry, exit),
      regime  |-> RegimeFor(key[1], shown)]

\* A run of the stage, one transaction; the provider shows all that has closed, or
\* has not caught up with the last session.
Score(shown) ==
  /\ Due(shown) # {}
  /\ outcomes' = [p \in DOMAIN outcomes \cup Due(shown) |->
                    IF p \in Due(shown) THEN Outcome(p[1], p[2], shown) ELSE outcomes[p]]
  /\ UNCHANGED researchVars

LensNext ==
  \/ ResearchNext /\ UNCHANGED outcomes
  \/ \E lag \in {0, 1} : Score(Anchor(now) - lag)

\* The daily job runs again and again, and the provider catches up.
Fairness == WF_vars(Score(Anchor(now)))

LensSpec == LensInit /\ [][LensNext]_vars /\ Fairness
-----------------------------------------------------------------------------
\* A return starts at a close that was known when the lens spoke, ends at a later one
\* that has happened, and covers its horizon, or less when the provider lagged: never a
\* session more (lens_market_adapter.py:95-100 says what anchoring on the snapshot did).
OutcomesSpanTheirHorizon ==
  \A p \in DOMAIN outcomes :
    LET o == outcomes[p] IN
    /\ CloseAt(o.entry) <= p[1][1] /\ p[1][1] < CloseAt(o.entry + 1)
    /\ o.entry < o.exit /\ o.exit <= o.entry + p[2] /\ CloseAt(o.exit) <= now

\* A horizon that is over does not stay unscored while its snapshot is in the window of
\* the daily job, which runs again and again (daily_run.sh:87-92: a narrow window
\* "silently discards data"); but for a ticker that has no close after the one the lens
\* spoke at, which has no return and is dropped in the end.
EveryLensIsScored ==
  <>[](\A p \in (DOMAIN snapshots) \X Horizons :
         LET asOf == p[1][1]
             end == Anchor(asOf) + p[2]
         IN (/\ 3 * p[2] <= now - asOf /\ now - asOf <= MaxAge
             /\ end \in Calendar /\ CloseAt(end) <= now
             /\ Anchor(asOf) > 0 /\ Anchor(asOf) < Len(tape.closes))
              => p \in DOMAIN outcomes)

\* lens_outcomes.py:8 says: "`regime`: SPY 21-day trend at `as_of`".  The outcomes of a
\* snapshot then share its regime.
RegimeIsThatOfTheSnapshot ==
  \A p, q \in DOMAIN outcomes : p[1] = q[1] => outcomes[p].regime = outcomes[q].regime
=============================================================================
