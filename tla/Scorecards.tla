------------------------------ MODULE Scorecards ------------------------------
(***************************************************************************)
(* The scorecards of creators (scoring/creator.py and scoring/metrics.py). *)
(* A scoring run computes a card for every creator, window and horizon     *)
(* from the outcomes the backtest has stored so far, and replaces the card *)
(* of that cell in a transaction of its own.  Runs are not locked out of   *)
(* each other: a person may start one while the daily job runs.            *)
(*                                                                         *)
(* Time is counted in ticks, Session ticks from one close to the next.     *)
(***************************************************************************)
EXTENDS Integers, Sequences, FiniteSets, FiniteSetsExt

CONSTANTS
  Creators,    \* the creators, a sequence in the order the database gives them
  Calls,       \* accepted trade calls
  Author,      \* who made each call and each claim
  Windows,     \* settings.scoring.windows, each with its ticks
  Horizons,    \* settings.backtest.horizons, each with its ticks
  MinN,        \* settings.scoring.min_n_for_scoring
  Runs,        \* the processes that may run `tsr score`
  MaxTime,     \* bound: the last tick
  MaxStarts    \* bound: the scoring runs ever started

Creator == {Creators[i] : i \in DOMAIN Creators}
Moments == 0..MaxTime

ASSUME SettingsAssumption ==
  /\ Windows \in Seq([label : STRING, ticks : Nat])
  /\ Horizons \in Seq([label : STRING, ticks : Nat])
  /\ MinN \in Nat /\ MaxTime \in Nat /\ MaxStarts \in Nat
\* There is something to score, and one of the windows is "all".
ASSUME PlanAssumption ==
  /\ Creators \in Seq(Range(Creators)) /\ Creators # <<>> /\ Horizons # <<>>
  /\ \E i \in DOMAIN Windows : Windows[i].label = "all"
ASSUME CallsAssumption == IsFiniteSet(Calls)
ASSUME AuthorAssumption == \A c \in Calls : Author[c] \in Creator

\* What becomes of a call: its ticker rises, falls, or never triggers the entry.
Fates == {"hit", "miss", "dormant"}

VARIABLES
  now,         \* the clock
  posted,      \* when each call was posted
  fate,        \* what becomes of each call
  outcomes,    \* the outcome_windows rows: <<call, horizon>>
  cards,       \* the creator_scorecards rows, by creator, window and horizon
  run,         \* the scoring runs
  stamp,       \* the cards computed so far: the clock of computed_at
  started,     \* the runs started so far
  refreshed    \* the stamp at the start of the last run that completed alone

scoreVars == <<cards, run, stamp, started, refreshed>>
cardVars == <<now, posted, fate, outcomes, cards, run, stamp, started, refreshed>>

NoCard == [stamp |-> 0]
Idle == [pc |-> "idle"]
-----------------------------------------------------------------------------
(* metrics.py and _compute_one *)

\* The lower end of Wilson's 95% interval, in whole percent: the largest t with
\* (h/n - t)^2 >= z^2 t (1 - t) / n below the rate itself, for z^2 = 3.84.
LowerCi(hits, n) ==
  Max({t \in 0..100 :
        /\ t * n <= 100 * hits
        /\ 100 * (100 * hits - t * n) * (100 * hits - t * n) >= 384 * n * t * (100 - t)})

Activated(calls) == {c \in calls : fate[c] # "dormant"}
Hits(calls) == {c \in calls : fate[c] = "hit"}

\* hit_rate_lower_ci: there is none without a call that was activated.
Unrated == -1
Rating(calls) ==
  IF Activated(calls) = {} THEN Unrated
  ELSE LowerCi(Cardinality(Hits(calls)), Cardinality(Activated(calls)))

\* Mutant: the window "all" is cut off like the others.
EvidenceCut(creator, window, horizon, asOf) ==
  {c \in Calls : /\ Author[c] = creator
                 /\ <<c, horizon.label>> \in outcomes
                 /\ posted[c] >= asOf - window.ticks}

\* The calls a card is computed from: _window_cutoff and the query of _compute_one.
Evidence(creator, window, horizon, asOf) ==
  {c \in Calls : /\ Author[c] = creator
                 /\ <<c, horizon.label>> \in outcomes
                 /\ window.label = "all" \/ posted[c] >= asOf - window.ticks}

\* The cells of a run, in the order of its loops.
Plan ==
  LET w == Len(Windows)  h == Len(Horizons) IN
  [i \in 1..Len(Creators) * w * h |->
     [creator |-> Creators[(i - 1) \div (w * h) + 1],
      window  |-> Windows[(((i - 1) \div h) % w) + 1],
      horizon |-> Horizons[((i - 1) % h) + 1]]]

Cell(job) == <<job.creator, job.window.label, job.horizon.label>>
Cells == {Cell(Plan[i]) : i \in DOMAIN Plan}
CardOf(calls, s) == [stamp |-> s, calls |-> calls, rating |-> Rating(calls)]
-----------------------------------------------------------------------------
(* The credibility the readers of the table take from it *)

Rated(creator) ==
  {cell \in Cells : cell[1] = creator /\ cards[cell] # NoCard /\ cards[cell].rating # Unrated}

\* The rated card that was computed last, whatever its window and horizon.
Latest(creator) ==
  CHOOSE cell \in Rated(creator) : \A other \in Rated(creator) : cards[cell].stamp >= cards[other].stamp

\* _load_creator_credibility: the rating of each creator who has one.
Credibility ==
  [creator \in {c \in Creator : Rated(c) # {}} |-> cards[Latest(creator)].rating]
-----------------------------------------------------------------------------
CardsInit ==
  /\ now = 0
  /\ posted \in [Calls -> Moments]
  /\ fate \in [Calls -> Fates]
  /\ outcomes = {}
  /\ cards = [cell \in Cells |-> NoCard]
  /\ run = [r \in Runs |-> Idle]
  /\ stamp = 0 /\ started = 0 /\ refreshed = 0

Tick ==
  /\ now < MaxTime
  /\ now' = now + 1
  /\ UNCHANGED <<posted, fate, outcomes, scoreVars>>

\* Mutant: an outcome is stored before its horizon has passed.
ResolveEarly(c, horizon) ==
  /\ posted[c] <= now
  /\ <<c, horizon.label>> \notin outcomes
  /\ outcomes' = outcomes \cup {<<c, horizon.label>>}
  /\ UNCHANGED <<now, posted, fate, scoreVars>>

\* The backtest stores the final outcome of a call at a horizon that has passed.
Resolve(c, horizon) ==
  /\ posted[c] + horizon.ticks <= now
  /\ <<c, horizon.label>> \notin outcomes
  /\ outcomes' = outcomes \cup {<<c, horizon.label>>}
  /\ UNCHANGED <<now, posted, fate, scoreVars>>

\* compute_scorecards up to its loops.  A run is alone until another joins it.
Start(r) ==
  /\ run[r].pc = "idle" /\ started < MaxStarts
  /\ started' = started + 1
  /\ LET others == {q \in Runs : run[q].pc # "idle"} IN
     run' = [q \in Runs |->
               IF q = r THEN [pc |-> "compute", at |-> 1, now |-> now, since |-> stamp,
                              alone |-> others = {}]
               ELSE IF q \in others THEN [run[q] EXCEPT !.alone = FALSE]
               ELSE run[q]]
  /\ UNCHANGED <<now, posted, fate, outcomes, cards, stamp, refreshed>>

\* The run goes to its next cell, or ends.
Advance(r) ==
  LET this == run[r] IN
  IF this.at < Len(Plan)
  THEN /\ run' = [run EXCEPT ![r] = [pc |-> "compute", at |-> this.at + 1, now |-> this.now,
                                     since |-> this.since, alone |-> this.alone]]
       /\ UNCHANGED refreshed
  ELSE /\ run' = [run EXCEPT ![r] = Idle]
       /\ refreshed' = IF this.alone THEN this.since ELSE refreshed

EvidenceAt(r) ==
  LET job == Plan[run[r].at] IN Evidence(job.creator, job.window, job.horizon, run[r].now)

\* _compute_one with too few calls: the card of the cell stays as it is.
Skip(r) ==
  /\ run[r].pc = "compute"
  /\ EvidenceAt(r) = {} \/ Cardinality(EvidenceAt(r)) < MinN
  /\ Advance(r)
  /\ UNCHANGED <<now, posted, fate, outcomes, cards, stamp, started>>

\* _compute_one, and the query of _persist for the row to replace.
Compute(r) ==
  /\ run[r].pc = "compute"
  /\ EvidenceAt(r) # {} /\ Cardinality(EvidenceAt(r)) >= MinN
  /\ stamp' = stamp + 1
  /\ run' = [run EXCEPT ![r] =
               [pc |-> "persist", at |-> @.at, now |-> @.now, since |-> @.since, alone |-> @.alone,
                card |-> CardOf(EvidenceAt(r), stamp + 1), seen |-> cards[Cell(Plan[@.at])]]]
  /\ UNCHANGED <<now, posted, fate, outcomes, cards, started, refreshed>>

\* _persist: delete the row that was found and add the new one.  The row may have
\* been replaced meanwhile; the database may have given its id to the new row.
Persist(r) ==
  LET cell == Cell(Plan[run[r].at]) IN
  /\ run[r].pc = "persist"
  /\ cards[cell] = run[r].seen \/ run[r].seen # NoCard
  /\ cards' = [cards EXCEPT ![cell] = run[r].card]
  /\ Advance(r)
  /\ UNCHANGED <<now, posted, fate, outcomes, stamp, started>>

\* _persist meets the unique constraint, or the process is killed: the run is over
\* and the cards it has replaced stay.
Crash(r) ==
  /\ run[r].pc # "idle"
  /\ run' = [run EXCEPT ![r] = Idle]
  /\ UNCHANGED <<now, posted, fate, outcomes, cards, stamp, started, refreshed>>

ScoreNext == \E r \in Runs : Start(r) \/ Skip(r) \/ Compute(r) \/ Persist(r) \/ Crash(r)

CardsNext ==
  \/ Tick
  \/ \E c \in Calls, i \in DOMAIN Horizons : Resolve(c, Horizons[i])
  \/ ScoreNext
-----------------------------------------------------------------------------
Card == {NoCard} \cup
        [stamp : Nat \ {0}, calls : SUBSET Calls, rating : {Unrated} \cup 0..100]

Computing == [pc : {"compute"}, at : DOMAIN Plan, now : Moments, since : 0..stamp, alone : BOOLEAN]
Persisting == [pc : {"persist"}, at : DOMAIN Plan, now : Moments, since : 0..stamp, alone : BOOLEAN,
               card : Card \ {NoCard}, seen : Card]

CardsTypeOK ==
  /\ now \in Moments
  /\ posted \in [Calls -> Moments] /\ fate \in [Calls -> Fates]
  /\ outcomes \subseteq Calls \X {Horizons[i].label : i \in DOMAIN Horizons}
  /\ cards \in [Cells -> Card]
  /\ run \in [Runs -> {Idle} \cup Computing \cup Persisting]
  /\ stamp \in Nat /\ started \in 0..MaxStarts /\ refreshed \in 0..stamp

\* A card nobody refreshes any more does not speak for its creator: after a run
\* that met no other, every creator with a rated card is rated by a card of that
\* run or a later one, although the run leaves the cards of the cells it skips.
StaleCardsNeverSpeak ==
  \A c \in Creator : Rated(c) # {} => cards[Latest(c)].stamp > refreshed

\* A rating is earned: the card behind it counts at least MinN calls of that
\* creator, each with a final outcome at the horizon of the card.
RatingsAreEarned ==
  \A c \in Creator : Rated(c) # {} =>
    LET cell == Latest(c) IN
    /\ Cardinality(cards[cell].calls) >= MinN
    /\ \A k \in cards[cell].calls :
         Author[k] = c /\ \E i \in DOMAIN Horizons :
           /\ Horizons[i].label = cell[3] /\ <<k, cell[3]>> \in outcomes
           /\ posted[k] + Horizons[i].ticks <= now
=============================================================================
