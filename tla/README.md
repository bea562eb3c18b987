# A verification project for trading-signal-research

TLA+ models of the program's core, the TLC runs that check them on small
instances, and theorems about them that TLAPS checks for every instance. Paths
are relative to the repository (`src/src/app/...` is the Python package).

## 1. The system

The program collects stock calls that creators make in videos, evaluates them
against later prices, scores the creators, and offers research plans, scans and
a portfolio ledger on top. It is a set of Python stages that share one SQLite
database and some files, run by a daily script (`scripts/daily_run.sh`), by the
command line (`cli.py`) and, for the parts a user touches, by a FastAPI server
(`apps/api`) whose synchronous routes run in worker threads. Nothing locks the
stages out against each other: a manual run may overlap the daily one, and the
API writes to the same tables.

| Component | State it keeps | Operations | Hard behaviour | Correct when |
|---|---|---|---|---|
| ingest (`ingest/run.py`, `sources/*`) | documents, segments, the adapter's `ip_blocked` flag | list, fetch (captions, API, Whisper), persist | check, slow fetch, insert; sticky flag; failures per video | a document is stored once and completely, and a failure loses only itself |
| extraction (`extract/*`) | calls and claims of a document | prefilter, model call, second pass, validation, persist; the same in batches | a failure between two windows, a batch that times out, overlapping runs | every window of a document is processed once per version |
| price data (`market/yfinance_client.py`) | one parquet file per ticker | read, fetch what is missing, merge, rewrite | unlocked rewrite, bars in progress, holes | the frame a stage reads is a true prefix of the market's bars |
| backtest (`backtest/run.py`, `activation.py`, `outcomes.py`, `market/calendar.py`) | `outcome_windows`: one row per call and horizon | load pending, fetch, evaluate, persist horizon by horizon | market moving during runs, late bars, two processes, crash between rows | rows are final, unique, without look-ahead, and no call or horizon is forgotten |
| walk-forward and strategies (`backtest/walkforward.py`, `backtest/market_reader.py`, `strategies/*`) | none but its output row | rebalance, enter, exit | look-ahead at the edges of a session, holes in the tape | a decision uses only what was known, a fill comes after it |
| creator scoring (`scoring/creator.py`) | scorecards | compute, replace cell by cell | stale cards, overlapping runs, a run that dies half-way | the card that speaks for a creator is fresh and earned |
| aggregation (`aggregation/ticker_signals.py`) | ticker signals | aggregate, upsert | reruns while extraction adds | a rerun loses nothing |
| lens scoring (`scoring/lens_*.py`, `research/lens_recording.py`) | snapshots, outcomes | record, score after a horizon | recorded once, from what is there | an outcome is scored once, over its horizon |
| research plans (`research/*`, `apps/api/app/routes/research.py`) | plans by ticker, mode and day | look up, gather, run agents, judge, store | check then act over seconds, partial failures of agents | only overlaps pay twice, levels are candidates, snapshots agree with plans |
| ticker analysis and scans (`analysis/*`) | `research_snapshots` | panel, setup, style, status, zone, label; scan and store | precedence of rules; one transaction over many slow steps | a stored scan is whole, a label is earned |
| time-to-live cache (`ttl_cache.py`) | an `OrderedDict` per function | call, clear, peek | threads without a lock | values are fresh, the size bounded, no call fails of itself |
| portfolio (`portfolio/*`, `apps/api/app/routes/portfolio.py`) | `portfolio_trades`, quote cache | create, edit, delete a trade; view | validate then write, backdated edits, one broken ticker blocks all | the stored ledger can be folded |
| screener (`screener/*`) | one JSON file per ticker | fetch, filter, rank | rewrite in place | a reader meets a whole file |
| text normalisation (`normalize/*`), web (`apps/web`) | none | pure functions, rendering | – | – |

`PROJECT.json` lists every component with its status, and every hazard of the
code at its line with the properties that watch it; a hazard without a property
says why none does.

The components meet in the database. Ingest feeds extraction with documents,
extraction feeds the backtest and aggregation with calls and claims, the
backtest feeds scoring with outcomes, and scoring feeds aggregation with the
credibility of creators. A module takes the rows of the component before it as
its input: `Backtest` has the calls extraction accepts, `Signals` has outcomes
that arrive when the backtest may store them, and claims when extraction accepts
them; `Scorecards` and `Signals`, `Research` and `LensScoring`, `TradeLevels`
and its two readers are composed by extension.

## 2. What is modelled

### Ingest and Archive

`Ingest.tla` is `ingest_all` for any number of runs over one database. A run
goes through the creators in their order with one adapter: look up their rows
(`Enter`) and insert them (`Register`), list the recent videos (`List`, which
yields nothing when yt-dlp fails and ends the run when the Data API cannot be
reached), and for each video in turn `Skip` it or fetch it. An attempt to fetch
asks the captions endpoint unless the address was blocked before, then Whisper
(`Fetch`, `FetchBadly`, `MetadataRaises`, `WhisperRaises`); `Transcript` is the
order in which the code decides what that amounts to, `ipBlocked` the flag of the
adapter that the whole run shares, `Attempt` the retries. `Persist` is one
transaction for a document and its segments, which the unique constraint refuses
if another run was faster. `Post`, `Crash` and a bounded number of faults may
come between any two steps.

`Archive.tla` is what ingestion promises of the documents: one for a posted
video, whole, and never changed. `ImplementsArchive` is the refinement; the
mapping is the identity on `posted` and `documents` and hides the runs.

### Extraction

`Extraction.tla` has the rows that each run of `tsr extract` wrote (`calls`, with
the pass each comes from, and `claims`) and the local state of the runs. A run
reads the pending documents once (`Start`); what it does then depends on the
transport. Synchronously (`run_extraction`) it takes a document (`NextDocument`),
asks about a window (`Extract`), asks again if there is a call (`Confirm`), and
persists (`PersistCall`, `PersistClaims`: two transactions, shared with the
other transport) before the next window; an exception ends the document
(`FailDocument`). Batched (`run_extraction_batched`) it builds all windows
(`Build`), submits them in chunks (`Submit`), polls until they have ended or time
is up (`Poll`, `TimeOut`, `Collect`), does the same for the calls it found
(`SecondRound`), and only then persists (`NextResult`); an exception ends the
run (`FailRun`). `Crash` kills a run anywhere.

A document is its place in the order of `posted_at` and a number of windows; an
answer of the model is what the prefilter, the schema and the validators make of
it: no call, one that will be rejected, or one that will be stored, and claims
that are stored or none. The chunks of a batch are cut in the order of documents
and windows (the code sorts the ids as strings; no property depends on it). One
version of the extractor stands for all, since rows of another version are never
looked at.

### Evaluation and Backtest

`Evaluation.tla` holds the pure operators: when a call activates and at what
price (`determine_activation`), where a horizon ends
(`n_trading_days_after_close`), and what it earned (`compute_outcome`). Time is
in thirds of a trading day: session `s` is stamped `3s` (midnight, the index of
its bar), opens at `3s+1`, closes at `3s+2`. That is the grain at which the
code's comparisons differ: `index > posted_at` compares with midnights,
`market_open > activation_at` with opens, `index >= horizon_end` with closes.
Prices are positive integers. A return is the signed move it is proportional
to; cost and benchmark shift it by a constant and are left out (that a benchmark
was there is kept in the row).

`Backtest.tla` is `run_backtest` under concurrency. `rows` is the table
`outcome_windows`, `accepted` the calls whose status lets them in, and a process
(`Runners`) goes through `Start` (`_load_pending_calls`), `NextCall`, `Fetch` or
`FaultyFetch`, and per row `Skip`, or `Miss` and then `Commit` or `Conflict`
(`_persist_outcome` looks for the row in the same transaction that inserts it,
but SQLite lets another process in between, so these are two steps). `CallError`
is the `except` of the loop, `Crash` the end of the process at any point. `Tick`
moves the market while runs are under way. A fetch returns the bars of all
opened sessions, the last of which may still be in progress (`FormingViews`); a
faulty one lacks the last bar, or has none, or leaves the benchmark empty.

One ticker and one tape stand for all: calls meet only in the table. The range
of 60 days that is asked for is longer than window and horizon together and is
left out. The on-disk cache of prices stays out: the frames are prefixes of the
market's bars, which is what that cache should guarantee.

### WalkForward

`WalkForward.tla` is the harness with its market reader, the three strategies
and the one of its tests (`test_always_aapl`, which reads bars only). It replays
the past, so the world – the posts of the creators, the sessions for which each
ticker has a bar, the scorecards – is chosen once, at the start. `Rebalance` is
one turn of the loop: the strategy reads the part of the world that the context
and the reader let through (`Recent`, `Scoped`, `DailyBars`, `LastCards`),
decides (`Momentum`, `Catalysts`, `Consensus`; a set of possible decisions,
because the order of two posts or cards of one moment is the database's), and
every decision is simulated on the bars the reader calls forward (`Simulated`).
A creator is credible by the card computed last, whatever older ones say.
`Finish` computes the row and its sanity check. What the module is about is the
boundary: `knowable_through` is the last session that had closed, `as_of` an
open, and decisions and fills must fall on its two sides.

A strategy may also raise: the loop warns, and nothing is decided at that
rebalance (`Evaluations`, the `warnings` of the row). It always does on SQLite as
soon as there is a post to compare (`Compared`), since a naive `posted_at` meets
an aware `as_of`. `world.zoned` is whether the database gives times back with
their zone, as another engine behind the same models does; with SQLite it is
false, and only the strategy of the tests ever trades.

### Scorecards and Signals

`Scorecards.tla` is `compute_scorecards` for any number of processes. A run goes
through its cells (creator, window, horizon) in the order of the loops; each is
`Skip`ped for want of outcomes, or computed (`Compute`, which also finds the row
to replace) and replaced in a transaction of its own (`Persist`). Two runs that
meet on a cell without a row end in the unique constraint, which is `Crash`, as is
a process that is killed. Of a card the calls it counts and the lower bound of
Wilson's interval are kept, in whole percent. `Latest` is the reader's choice:
the rated card computed last, whatever its window. `stamp` numbers the
computations, `refreshed` notes what the last undisturbed run started from.

`Signals.tla` adds aggregation over one ticker: the windows end at the last
close, mentions are weighted by class and creator, a row replaces the one of its
key (`Upsert`), and a type that nothing feeds gets no row.

### TradeLevels, Research and LensScoring

`TradeLevels.tla` is the arithmetic of candidate levels: indicators, swings, the
two entry zones, stops and exits, what a model's indices resolve to, and the
combinations whose risk and reward the distribution shows. `Research.tla` has the
requests. A request looks for the plan of its mode and day (`AskCached`, `Ask`),
gathers its packet (`Gather`, which dates it), lets one model answer (`Quick`) or
the analysts debate (`Debate`: those who answer, their revisions, and the record
of the lenses in a transaction of its own), and `Conclude`s: the picks are
resolved and the plan is stored under the day of its packet. `Fail` ends a request
at any step, `Crash` all of them. A revision that is out of schema leaves a value
that is no string (`Unsound`), because `run_revision` takes an answer over
unchecked. `LensScoring.tla` adds the stage that measures what became of each
recorded lens: anchored at the close known when the lens spoke, over a number of
sessions, from a provider that may lag (`Score`). The sessions are those of the
exchange (`Calendar`); the tape of a ticker that is halted or delisted ends
before (`Listed`), and a lens that spoke at its last close has no return. It is
tried again by every run, like one whose provider lags, until its snapshot is
older than the window of the job (`MaxAge`, `--max-age-days`), which then drops
it for good.

### Analysis and Scan

`Analysis.tla` takes the bars of a ticker to its label: the panel of indicators,
the cascade of setups, the fits of the styles, the rubric of the status, the
entry zone, the label. Ratios are in hundredths of a percent; the volatility is
the variance of simple returns where the code takes logarithms. A download that
fails, of the bars or of the benchmark, becomes an empty frame, and the view is
concluded from what is left (`Views` of `Scan`).
`Scan.tla` has the scans of the command and of the web request. A view is
flushed into one transaction of the scan (`Look`), which from then on holds
SQLite's write lock: another scan that flushes waits, gives up, and goes on with a
session that is unusable and whose every later view raises (`PersistFails`,
`Raise`). `Finish` commits a command's scan; a request's session is only closed.

### TtlCache

Each operation on the `OrderedDict` is a step (`store.get`, `store[key] =`,
`move_to_end`, `len`, `popitem`), which is where CPython can switch threads. The
order of the keys is the relation `older`. A value is named by the time its
upstream was read. `Call` reads the clock, `Fetch` may take any time, and an
exception of the upstream, of `move_to_end` or of `popitem` ends the call.

### Ledger and Portfolio

`Ledger.tla` says when `fold_trades` raises: a sell of more than is held at its
place in the order of `(traded_at, id)`, or two currencies for one ticker. Money
amounts never decide that and are left out; quantities are whole units.
`Portfolio.tla` has the table and the requests on it. A request reads (`Begin…`),
validates (`Validate`), and commits or is refused; Python's SQLite driver opens
a transaction at the first write, so nothing holds the table between these
steps. `NextId` is SQLite's choice of a row id; a candidate's id is `None` = 0
(`_sort_key`). An UPDATE writes the columns that differ from the row as it was
loaded (`Changed`), so two overlapping edits of a row can merge (`Updated`).

An instant is a number of UTC. A request names its own with an `offset`, what
the clock of its zone adds to UTC: it is validated as that instant, but SQLite
keeps the wall clock without the offset and `_aware` takes what it reads back for
UTC (`WallClock`), so another instant is stored. An update that does not name
`traded_at` keeps the stored one, with offset 0.

`overtaken` and `suspect` are bookkeeping: requests that another commit has
overtaken since they read, and the tickers whose ledger no validation speaks for
– a row of them was written by an overtaken request, or in another zone, and no
edit has passed since that was not overtaken (which has folded the whole table
as it is).

## 3. The runs

| Run | Instance | What it shows |
|---|---|---|
| `ingest` | 2 creators, 2 videos, limit 1, 2 runs, 2 faults, 2 attempts, Whisper over OpenAI; the first video is captioned, the second too large for the endpoint | a run that is blocked stores nothing for want of anyone to ask (`BlockedIsNeverEmpty`); the documents form an archive (`ImplementsArchive`); every video is stored unless it drops out of the recent ones (`EveryVideoIsSettled`) |
| `extraction` | the daily run (limit 1) and one by hand (no limit, either transport), 2 documents of 2 and 1 windows, chunks of 2, 1 poll, 1 crash | `EachRunWritesOnce`; a run without errors has missed nothing (`CleanRunIsComplete`); `DailyCallsAreConfirmed`; nothing tops up a processed document (`ProcessedIsFinal`); `EveryRunEnds`; `OnlyTheFruitlessStarve` |
| `backtest` | 1 call, 2 processes, 5 sessions, window of 2, horizons 1 and 2, 1 fault, 3 calls x 2 post times x 3 tapes | rows are final (`EvaluatedRowsAreFinal`), without look-ahead (`NoLookAhead`), unique (`OneRowPerHorizon`), a prefix of the horizons (`HorizonsFormAPrefix`); `not_triggered` is earned (`NotTriggeredIsEarned`); every accepted call gets a verdict (`EveryCallIsRecorded`) |
| `backtest_horizons` | the same, 1 process, no fault | violated (`EveryHorizonIsRecorded`): a horizon that closes after an earlier one was recorded is never recorded |
| `walkforward` | 6 sessions in weeks of 3, 15,050 worlds, each in a database with zones and in one without, 2 creators, 2 tickers, holding 1, each of four strategies, daily and weekly | a strategy decides, or raises, as if the world ended at the rebalance (`DecisionsAreBlind`); trades enter after their decision and leave after the holding period (`FillsFollowDecisions`) |
| `signals` | 1 creator, 2 calls, 2 claims, 2 scoring runs (symmetric), clock to 3, 2 starts, two worlds of outcomes | the card that rates a creator is of the last undisturbed run or later (`StaleCardsNeverSpeak`), and earned by outcomes that are final (`RatingsAreEarned`); aggregating again loses no mention (`RerunsOnlyAdd`) |
| `research` | 2 clients, 2 lenses, 22 thirds of days, 2 requests, a window of 2 days, three kinds of initial state | a day pays twice only for overlaps (`OnlyOverlapsPayTwice`); recorded lenses are those of the plan (`SnapshotsMatchPlans`); levels are candidates (`LevelsAreCandidates`); `OutcomesSpanTheirHorizon`; a lens whose horizon is over does not stay unscored within the window, unless the ticker has no close after it (`EveryLensIsScored`) |
| `lens_regime` | the same | violated (`RegimeIsThatOfTheSnapshot`): two outcomes of a snapshot carry different regimes |
| `scan` | a command and a web request, 2 tickers, 3 scans, downloads that fail; tapes of 8 bars of the moves -8, -3, 1 and 8 %, with the benchmark and without | `StoredScansAreWhole`; a label that tells to buy has trend, calm and liquidity behind it (`LabelsAreEarned`) |
| `scan_unsaved` | the same | violated (`ScansBuildTheHistory`): a scan of the web request stores nothing |
| `ttl_cache` | 2 threads, 2 keys, capacity 1, time to live 1, clock to 2, 1 clear | `ReturnedIsFresh`, `SizeIsBounded`, `EveryCallEnds` |
| `portfolio` | 2 tickers, 3 days, 3 trades; 2 clients (symmetric) whose requests in UTC overlap, or follow one another in zones a day behind and ahead | `LedgerFolds`: only overtaken requests and those in another zone break a ticker's ledger; `EditsMend`: an edit that is neither leaves all of it foldable |

Every passing run but `scan` also checks its module's type invariant.

Why the bounds are enough.

- *Ingest*: two runs are every race for a document; two creators show that the
  flag of the adapter goes from one to the next; a limit of one with two videos
  lets a video drop out; two attempts with two faults let one attempt fail after
  the other, or both.
- *Extraction*: the older document has two windows with claims, so that a failure
  or a crash can fall between them and a chunk of two is full; the newer has one
  window whose call is rejected or accepted, so that it may yield nothing for
  ever and push the older one out of a limit of 1; the batched run may have
  three windows, two chunks and two passes. Rows are counted per run, which
  keeps what a run does apart from what its neighbour does.
- *Backtest*: one session lies before the post, two form the window, and two let
  both horizons close and be covered by a later bar; the tapes have a gap
  through the entry price and a reversal; two processes and one fault are the
  smallest instance with a lost insert, a crash between rows and a late bar.
  The theorems drop these bounds.
- *WalkForward*: six sessions hold two weekly rebalances with a session before
  and a trade after them; posts fall on each side of every boundary; each of the
  tickers may lack bars at the entry, in between, or at the exit; two creators
  are what a consensus needs; a creator may have an older card that clears the
  threshold and a newer one that does not, or two of one moment.
- *Signals*: one creator suffices because cells do not meet; two calls let a card
  change, two runs let an old run replace the cards of a new one, two claims let
  extraction add a mention between two aggregations.
- *Research*: two clients are every race of two; 22 thirds are seven days, past
  midnight and past both horizons of a lens; the initial states are two requests
  around a midnight on a finished tape, a request whose lenses are scored over two
  later sessions, for a ticker that trades on, is halted a session later, or at
  once, and one that has just gathered its packet, on each of the 486 short tapes
  (which is all that `LevelsAreCandidates` needs). The window of the job stands
  for 400 days and is 6 thirds, the age at which the longer horizon is over: a
  snapshot that reaches its session is due for one moment only, and the clock
  then takes it out of the window.
- *Scan*: two scans are all that can wait for one lock, the third comes after a
  failure; without scans one ticker trades with every sequence of the four
  moves, which reach every setup and every label the code can give, with the
  windows of the indicators scaled down to eight bars.
- *TtlCache*: capacity 1 with two keys makes every insertion evict; a clock of 2
  with a time to live of 1 has fresh and expired entries.
- *Portfolio*: two clients make every race of two; three trades hold a buy and
  two sells of it on a later day; the patches shrink the buy, backdate it,
  change its currency and move a trade to another ticker. Requests in other
  zones come one at a time; the third day lets a sell be stored on either side of
  its buy. Requests that overlap meet a clock that stands, since what the clock
  refuses the others meet. That a zone is a day off where real ones are hours
  changes nothing: only the order of instants is looked at. Races and zones
  together are left to the theorems, which have both. Symmetry of clients
  here, and of scoring runs in *Signals*, is sound: they are interchangeable and
  these runs have no liveness property.

Deadlock is checked except in `research`, `lens_regime`, `scan` and
`scan_unsaved` (`CHECK_DEADLOCK FALSE`): there
the clock, the requests and the scans are used up in the end and the instance
stops, as a server nobody asks does.

Fairness. *Backtest*: the clock runs, a document once accepted by the extractor
is accepted some time, and a process takes its next step: the job is started
every day and nothing blocks it (a lock of the database is an error of the call,
`CallError`). Faults are not fair and bounded by `MaxFaults`. *Ingest*: the
daily job is started (`WF(Start(Cron))`) and a run that lives goes on
(`WF(Step(r))`); faults are bounded, as an address is not blocked for ever.
*Extraction*: launchd starts the daily job every morning (`WF(StartDaily)`) and
a process that lives goes on (`WF(Step(r))`, which an error satisfies as well as
an answer does); that a batch ends, that a request succeeds or that anyone
starts a run by hand is not assumed. *LensScoring*: the daily job runs again on a
day when the provider has the last close (`WF(Score(Anchor(now)))`). The clock
may still take a snapshot out of the window before that; what
`EveryLensIsScored` excludes is a lens that stays within the window, its horizon
over, and that no run of the job would ever score.
*TtlCache*: a thread inside the wrapper goes on; no call need ever be made. The
other modules have safety properties only.

Each property of a passing run has a mutant in the module of the code it breaks
(`\* Mutant:` in the modules): a plausible slip, defined before the operator it
replaces, under which the property fails.

## 4. Disagreements between code and text

With a run:

- *Horizons* (`backtest_horizons`). `_process_call` skips an open horizon with
  the comment "Skip persistence; retry next run" (`backtest/run.py:209-210`), but
  `_load_pending_calls` never loads a call that has any row. With horizons of 1,
  3, 5 and 21 days and a daily job, all but the first are lost.
- *Regime* (`lens_regime`). "`regime`: SPY 21-day trend at `as_of`"
  (`scoring/lens_outcomes.py:8`) is the return of the 21 days *after* the
  snapshot, flat while those have not passed (`scoring/lens_market_adapter.py:74`).
- *Scans of the web* (`scan_unsaved`). "Write a ResearchSnapshot per ticker
  (default on for time-series)" (`apps/api/app/routes/research.py:49`): the rows
  are flushed into a session that is closed without a commit (`deps.py:12-18`);
  the research endpoint of `routes/tickers.py` does the same.

Met while reading, without a run of their own:

- *Expired window.* "the call definitively did NOT trigger"
  (`backtest/run.py:170-172`) is decided while the last session of the window
  may be in progress.
- *Cache.* "the worst case under a race is a duplicate upstream fetch"
  (`ttl_cache.py:17-18`); a reader whose key is evicted between look-up and
  `move_to_end` gets a KeyError.
- *Overlapping writes.* "Every write re-folds the ticker's whole ledger with the
  candidate change applied" (`portfolio/service.py:3-5`) holds of what was read,
  not of what is there at the commit. (It also folds the ledgers of all tickers,
  so one that is broken blocks creates in the others.)
- *Zones of trades.* The same sentence: a trade whose time has another offset than
  UTC is folded at its instant and stored at its wall clock (`service.py:44-46`,
  `models.py:1016`), so one request that nothing overlaps may store a sell before
  its buy. In `portfolio` both happen; without the exemption of `suspect`,
  `LedgerFolds` fails for each.
- *Naive times.* "long tickers with ≥2 distinct-creator `catalyst` claims"
  (`docs/decisions/0007-strategies-and-walkforward.md:53`): on SQLite the
  comparison of `posted_at` with `as_of` raises
  (`strategies/bullish_catalyst.py:72`, and likewise in the other two), the loop
  takes that for an error of the strategy and skips the rebalance
  (`backtest/walkforward.py:434-444`). In the worlds without zones of
  `walkforward` only the strategy of the tests trades.
- *Same instant.* The design orders trades by `traded_at`, then `id`
  (`docs/superpowers/specs/2026-08-04-portfolio-manager-design.md:54`); a
  candidate sorts as id 0, so the sell of two trades of the same midnight is
  refused after the buy has been entered.
- *Transports.* "Both transports produce the *same rows*, including the two-pass
  contract" (`tests/test_extract_batch.py:8`): when the second request of a
  window fails, the synchronous run drops the window, the batched one stores the
  call of the first pass (`extract/run.py:251`).
- *End of a walk-forward test.* Trades may leave beyond the end of the range
  (`backtest/walkforward.py:283`); the comment on the sanity check says "Every
  trade has entry <= exit, both inside the test window" (line 496), and the check
  itself bounds the entry only.
- *Panels.* "every panel degrades gracefully" (`analysis/research.py:19`), but the
  transcript panel converts a polarity that may be null
  (`analysis/transcript.py:165`).
- *Revisions.* `run_revision` stores an answer unchecked
  (`research/agents/base.py:524-532`); a plan with a value that is out of schema
  cannot be read from the cache again (`research/cache.py`).
- *Headline.* "The headline `plan_r_r_blended` is one entry within
  `r_r_distribution.combos`" (`research/schema.py:252-254`), except when the
  primary ratio is 0.
- *Cost.* A plan from the cache is to "return cost_usd=0 for cache hit"
  (`apps/api/app/routes/research.py:156`); it carries the cost of the request
  that paid for it.
- *Pullback zone.* Its invalidation can lie at or above its lower edge when the
  21-day average is more than an ATR below the 50-day one (`analysis/entry.py:144-207`).
- *Dead branches.* The default stop of `research/quick.py:694-699`, the label
  HOLD and its reason in `analysis/action.py`, and the placeholder status cannot
  be reached.
- *Ranks of errors.* "(errors) -> rank 99" (`analysis/scan.py:17`); error rows
  have the status of rows with insufficient data (line 216) and share their rank.
- *Snapshots without a plan.* Lenses are recorded before the judge is asked, in a
  transaction of their own (`research/deep.py:165`); when the request then fails,
  its snapshots stay and are scored, and a second request records another set.
  No text promises otherwise.
- *Lock.* A scan holds SQLite's write lock from its first flush to its end, over
  all its downloads.

## 5. The proofs

| Module | Theorems |
|---|---|
| `BacktestTheorems` | `FillIsWithinTheBar`, `MetricsBracketTheReturn`, `HindsightAgrees`, and what the CHOOSEs of `Evaluation` return; `TypeCorrect`, `RowsAreFinal`, `NothingFromTheFuture`, `WriteOffsAreEarned`, `RowsAreUnique`, `HorizonsAreRecordedInOrder` |
| `TtlCacheTheorems` | `CacheTypeCorrect`, `NothingStaleIsReturned`, `StoreIsBounded` |
| `PortfolioTheorems` | `LedgerTypeCorrect`, `EditsMendTheLedger`, `LedgersFold`, and the laws of sums over finite sets |
| `ExtractionTheorems` | `ExtractionTypeCorrect`, `RowsAreWrittenOnce`, `ProcessedStaysFinal`, `DailyCallsGoTwice`, `CleanRunsAreComplete` |
| `WalkForwardTheorems` | `WalkForwardTypeCorrect`, `StrategiesAreBlind`, `TradesFollowDecisions` |
| `IngestTheorems` | `IngestTypeCorrect`, `BlockedRunsStoreNothing`, `IngestImplementsArchive` |
| `SignalsTheorems` | `SignalsTypeCorrect`, `StaleCards`, `EarnedRatings`, `RerunsAdd` |
| `TickerTheorems` | `ResearchTypeCorrect`, `OverlapsOnly`, `SnapshotsMatch`, `LevelsAreReal`, `OutcomesSpan`, `ScansAreWhole`, `BuysAreEarned` |

Assumptions are the named ASSUMEs of the modules: naturals and finite sets where
the code has them, that tapes are bars (`ChoiceAssumption`), that a merged patch
is a trade (`PatchesAssumption`, the request model's field types), that posts,
bars and scorecards of a world are of creators, tickers and sessions
(`WorldAssumption`), that what a model can answer is an answer of the schema
(`AnswersAssumption`), that one of the scoring windows is "all", as
`configs/settings.yaml:41` has it (`PlanAssumption`: without it a stale card can
speak), and that window sizes differ by their labels (`SignalAssumption`). TLC evaluates each of them in a passing run.

*Backtest.* The properties of `rows` are not inductive: rows are computed at the
fetch and committed later. `RowsSound` states them of the work in hand too, and
`SoundnessIsStable` says that time passing does not spoil them. The core is
`HindsightAgrees`: the check that a bar is stamped after the end of the horizon
means all sessions up to that end have closed, and then the fetched frame and
the finished tape have the same bars wherever activation and outcome look. A
write-off looks at the last bar of the window even while it is forming;
`ExpiryIsEarned` counts the window in both frames and shows that this bar is the
only one on which they can differ.
`HorizonsAreRecordedInOrder` has an invariant of its own (`PInv`): every row in
hand has its shorter horizons recorded or in hand.

*TtlCache.* `FreshInv` dates the entries (`at <= value`, `at <= now`) and the
values in hand. For the size, the plain bound is lost when a thread dies of a
KeyError before trimming; `SizeInv` counts the *keys* being inserted that are
still cached, so that what pays for a dead thread's insertion is its eviction.

*Portfolio.* `Validated` and `UpToDate` say that what a request found holds
until another one commits. From them, the columns an UPDATE in UTC writes and
those it leaves make the row that was validated (`UpdateWritesTheCandidate`); of
one in another zone nothing is claimed, which is what `suspect` keeps.

`LedgersFold` needs more. A create is validated as the first trade of its instant
(its id is `None`, which sorts as 0) and stored as the last one, with the
greatest id. The two agree because of `NothingOwed`: if no sell of a ledger
exceeds what is held at its point, nothing is owed after any initial part of it,
whether that part ends in a sell or not; so moving the new trade behind the
others of its instant leaves every sell covered, and its own too
(`CreateIsLast`). `HeldAfter` is a sum over a set of records, which the community
module folds. Its laws are not by induction, which the provers cannot do, but by
a least counterexample on the cardinality (`SumsExist`, `SumRecursion`,
`SumOfSet`, `SumAgrees`). The invariant `Creating` says that the table a create
has read is still the table, and that its candidate folds in it.

*Extraction.* That a run writes a window once is not inductive: it is true
because the pending documents were read before the first row. `OnceInv` carries
that through the run: the windows still to come have no row of this run
(`ToComeOnce`, in a batched run the answered windows too), the one in hand is not
among them (`InHandOnce`), and all belong to loaded documents (`FromLoaded`,
from which `ProcessedStaysFinal` follows). It needs no assumption about answers,
limits or the other runs. `DailyInv`, for `DailyCallsGoTwice`, says that the
daily run never gets into a state of the batched transport and that, where it
persists a call, the answer in hand is of pass 2 or holds no accepted call.
`CleanRunsAreComplete` has an invariant for a run that has counted no error: the
windows of its loaded documents are answered, to come, or of documents still
queued (`Covers`), answers that no longer wait have exactly their rows
(`Settles`), and their calls come from the pass they should by now (`Passes`).

*WalkForward.* A decision is a function of what `Recent`, `Scoped`, `DailyBars`,
`LastCards` and `Credible` return, and these read nothing outside the part of the world that
was known at the rebalance (`ReadsAreKnown`, with `KnowableIsClosed`: what is
knowable has closed before the open at which the strategy runs). So the decision
in the world cut off there is the same set, and so is what raises: whether the
database keeps zones, and the posts compared with `as_of`, are known there too.
Rebalances at which the strategy raises add no trade. For the fills, the exit is the n-th
bar after the entry, whatever sessions have none; that there is exactly one is
`NthIsThere`, by the least counterexample, since the bars are a set with holes.

*Ingest.* `Good` describes the local state of a run at each of its control
points, and each action has a lemma that it keeps it. `Effect` says what an
action does to the rest: it moves one run, and leaves the documents as they are
or adds the one in hand, if none of its video is there. From it the refinement
follows in full, initial states and steps (`Archive` states no fairness).

*Signals.* Ratings are earned because every card, stored or on its way, is sound
(`SoundInv`): it counts some of the calls with an outcome at its horizon, at least
`MinN` of them. `StaleCards` is the one result here that hangs on the order of
several steps. A run that met no other leaves, for every creator and horizon with
a stale card, a newer card of the window "all" that counts every call the stale
ones count (`RefreshedOK`); that card is rated if one of them is, so it speaks
instead. The run cannot have skipped it: with enough calls for a stale card there
are enough for this one (`SkippedForWant`), and every creator and horizon has
such a cell in the plan (`PlanOfLoops`, which is arithmetic of three nested
loops). While a run is alone this is known of the cells behind it (`AloneDone`);
runs that are not alone may store cards in any order, but a card of all calls
that waits to be stored covers the stale ones, because outcomes only grow
(`PendingCovers`). For `RerunsAdd`, no row counts more than its window holds,
and windows only fill (`RowsOK`).

*Research, LensScoring, Scan.* `OverlapsOnly` rests on `OverlapInv`: among the
plans that were stored when a request under way and not forced looked, none is of
its mode and day; so a second plan of that key was stored after that look.
`SnapshotsMatch` rests on `SnapshotInv`: no snapshot carries the stamp of a request
still gathering or asking its lenses, and once it concludes the snapshots of its
stamp are answers its panel gave; stamps never repeat (`StampsAreUnique`). The
levels of a plan are candidates because the indices a model picks are clamped to
the lists of candidates or fall back to one of them, whatever the tape
(`LevelsAreReal`, with a lemma per list). `OutcomesSpan` counts sessions in the
calendar of the exchange from the close known at the snapshot, on a tape that
may end before it (`OutcomeInv`).
`ScansAreWhole` says of a scan under way that what is written is all rows so far
that are no errors, or, when it does not save or its session is broken, nothing
(`ScanInv`).

*A finding of the proofs.* `SUBSET S \ {{}}` binds as `SUBSET (S \ {{}})`: the type
invariant of `Signals` admitted rows without a mention, and `Scan` scans without
a ticker. The proof of the first failed, and both have been corrected.

Only model-checked: liveness (`EveryCallIsRecorded`, `EveryCallEnds`,
`EveryRunEnds`, `OnlyTheFruitlessStarve`, `EveryVideoIsSettled`,
`EveryLensIsScored`). Liveness under fairness and ENABLED are out of the provers'
reach. Every safety property of a passing run is a theorem.

## 6. The plan

1. Proofs: an abstract specification for the table of outcomes and for the plan
   cache, as `Archive` is one for documents, with the refinements proved.
2. `PriceCache` – the parquet cache with two processes, refresh window, holes
   and bars in progress; composed with `Backtest`, whose frames it should
   implement.
3. `Pipeline` – the stages of the daily job over common documents, calls and
   outcomes, where a stage may fail and the next still runs.
4. `Pricing`, the screener's cache, `peek_fetched_at` with its callers.

## 7. Not modelled, and why

- *Price cache on disk.* The merging of frames is the library's; what a fetch
  can return is a choice of `Backtest` (see the plan).
- *Portfolio pricing and policy, watchlist.* Quotes are shown and never stored;
  the policy check is a pure function of a file and the view; the watchlist is a
  table a form edits.
- *Screener.* Filters over fetched rows and one cache file; a file that cannot
  be parsed is a miss.
- *Transcript panel, valuation, fundamentals and peers.* Read-only functions of
  rows or of a provider behind the time-to-live cache.
- *Lens scorecards; return, curve and ratios of a walk-forward test.* Averages
  over rows that are modelled.
- *Prompts, prose, reranking of scans.* What a model answers is a choice from a
  set; reranking stores nothing.
- *Text and ticker normalisation, gold-set evaluation, web client.* No state, and
  deterministic; migrations are run by hand.
- *Floating point.* Quantities and prices are integers, so `EPS` of the ledger has
  nothing to absorb.
