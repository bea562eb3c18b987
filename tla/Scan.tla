--------------------------------- MODULE Scan ---------------------------------
(***************************************************************************)
(* Scans of a list of tickers (app/analysis/scan.py): each ticker's view   *)
(* is built from its bars and stored as a snapshot (snapshot.py), and the  *)
(* rows are returned ranked.  A scan is run by the command `tsr scan`, in  *)
(* a session that commits at its end, or by a web request                  *)
(* (routes/research.py), in one that is only closed (apps/api/app/deps.py).*)
(*                                                                         *)
(* The snapshots of a scan are flushed one by one into one transaction of  *)
(* its session: from the first to the end of the scan it holds the write   *)
(* lock of the database.  A flush that fails is logged and forgotten, but  *)
(* it has rolled the transaction back and leaves the session unusable.     *)
(*                                                                         *)
(* The order of the rows is presentation and left out.                     *)
(***************************************************************************)
EXTENDS Analysis

CONSTANTS
  Tickers,
  Commands, Requests,   \* what runs scans
  Rates,                \* the daily moves of a close, in percent
  Bench,                \* the closes of the benchmark
  MaxBars, MaxScans     \* bounds

ASSUME ScanAssumption ==
  /\ Commands \cap Requests = {} /\ Rates \subseteq Int
  /\ MaxBars \in Nat /\ MaxScans \in Nat /\ Len(Bench) >= MaxBars

Scanners == Commands \cup Requests

VARIABLES
  tapes,       \* ticker -> its closes
  liquid,      \* the tickers that trade enough
  scans,       \* client -> its scan
  started,     \* the number of scans started
  history,     \* the rows of research_snapshots
  results      \* the scans returned

scanVars == <<tapes, liquid, scans, started, history, results>>

\* The closes of a ticker; one that is delisted or unknown has none.
PriceHistories == UNION {[1..n -> Nat \ {0}] : n \in 0..MaxBars}

NoScan == [pc |-> "idle", id |-> 0, persist |-> FALSE, todo |-> {}, rows |-> {},
         written |-> {}, broken |-> FALSE]

\* A bar opens at the close before it and trades in one direction.
Bars(closes) ==
  [i \in DOMAIN closes |->
     LET open == closes[Max({1, i - 1})]
     IN [high |-> Max({open, closes[i]}), low |-> Min({open, closes[i]}), close |-> closes[i]]]

\* The views of a ticker: a download that fails, of its bars or of the benchmark's,
\* gives an empty frame.
Views(t) ==
  LET fetched(frame) == {frame, <<>>}
  IN {Concluded(bars, bench, t \in liquid) :
        bars \in fetched(Bars(tapes[t])), bench \in fetched(SubSeq(Bench, 1, Len(tapes[t])))}

Row(t, view) == [ticker |-> t, setup |-> view.setup, status |-> view.status, error |-> FALSE]
ErrorRow(t) == [ticker |-> t, setup |-> "insufficient_data", status |-> "insufficient_data",
                error |-> TRUE]

\* Another session has written and not ended: a flush waits for it, and gives up.
Locked(c) == \E d \in Scanners \ {c} : scans[d].written # {}

ScanInit ==
  /\ tapes \in [Tickers -> PriceHistories]
  /\ liquid \in SUBSET Tickers
  /\ scans = [c \in Scanners |-> NoScan]
  /\ started = 0 /\ history = {} /\ results = {}

Trade(t, rate) ==
  LET last == tapes[t][Len(tapes[t])]
      close == (last * (100 + rate)) \div 100
  IN /\ tapes[t] # <<>> /\ Len(tapes[t]) < MaxBars
     /\ close > 0
     /\ tapes' = [tapes EXCEPT ![t] = Append(@, close)]
     /\ UNCHANGED <<liquid, scans, started, history, results>>

Start(c, tickers, persist) ==
  /\ scans[c].pc = "idle" /\ started < MaxScans
  /\ scans' = [scans EXCEPT ![c] =
       [NoScan EXCEPT !.pc = "scan", !.id = started + 1, !.persist = persist, !.todo = tickers]]
  /\ started' = started + 1
  /\ UNCHANGED <<tapes, liquid, history, results>>

\* The scan of client c goes on to the ticker t.
At(c, t) == scans[c].pc = "scan" /\ t \in scans[c].todo

Look(c, t) ==
  /\ At(c, t) /\ ~ scans[c].broken
  /\ scans[c].persist => ~ Locked(c)
  /\ \E row \in {Row(t, view) : view \in Views(t)} :
       scans' = [scans EXCEPT ![c].todo = @ \ {t}, ![c].rows = @ \cup {row},
                              ![c].written = IF scans[c].persist THEN @ \cup {row} ELSE @]
  /\ UNCHANGED <<tapes, liquid, started, history, results>>

\* Mutant: the session is rolled back, and used again.
PersistRollsBack(c, t) ==
  /\ At(c, t) /\ ~ scans[c].broken
  /\ scans[c].persist /\ Locked(c)
  /\ \E row \in {Row(t, view) : view \in Views(t)} :
       scans' = [scans EXCEPT ![c].todo = @ \ {t}, ![c].rows = @ \cup {row}, ![c].written = {}]
  /\ UNCHANGED <<tapes, liquid, started, history, results>>

PersistFails(c, t) ==
  /\ At(c, t) /\ ~ scans[c].broken
  /\ scans[c].persist /\ Locked(c)
  /\ \E row \in {Row(t, view) : view \in Views(t)} :
       scans' = [scans EXCEPT ![c].todo = @ \ {t}, ![c].rows = @ \cup {row},
                              ![c].written = {}, ![c].broken = TRUE]
  /\ UNCHANGED <<tapes, liquid, started, history, results>>

\* A view cannot be built, and never from an unusable session.
Raise(c, t) ==
  /\ At(c, t)
  /\ scans' = [scans EXCEPT ![c].todo = @ \ {t}, ![c].rows = @ \cup {ErrorRow(t)}]
  /\ UNCHANGED <<tapes, liquid, started, history, results>>

Stored(s) == {[scan |-> s.id, row |-> row] : row \in s.written}

\* A command commits, and raises if its session is unusable; a request only returns.
Finish(c) ==
  LET s == scans[c]
      raises == c \in Commands /\ s.broken
  IN /\ s.pc = "scan" /\ s.todo = {}
     /\ scans' = [scans EXCEPT ![c] = NoScan]
     /\ history' = history \cup IF c \in Commands THEN Stored(s) ELSE {}
     /\ results' = results \cup
          IF raises THEN {} ELSE {[id |-> s.id, persist |-> s.persist, rows |-> s.rows]}
     /\ UNCHANGED <<tapes, liquid, started>>

Die(c) ==
  /\ scans[c].pc = "scan"
  /\ scans' = [scans EXCEPT ![c] = NoScan]
  /\ UNCHANGED <<tapes, liquid, started, history, results>>

ScanNext ==
  \/ \E t \in Tickers, rate \in Rates : Trade(t, rate)
  \/ \E c \in Scanners, tickers \in (SUBSET Tickers) \ {{}}, persist \in BOOLEAN :
       Start(c, tickers, persist)
  \/ \E c \in Scanners, t \in Tickers : Look(c, t) \/ PersistFails(c, t) \/ Raise(c, t)
  \/ \E c \in Scanners : Finish(c) \/ Die(c)

ScanSpec == ScanInit /\ [][ScanNext]_scanVars
-----------------------------------------------------------------------------
OkRows(result) == {row \in result.rows : ~ row.error}
StoredBy(id) == {s.row : s \in {x \in history : x.scan = id}}

\* The snapshots of a scan are the rows it returned, all that are no errors, or
\* there are none: a scan that crashed, or could not store a row, leaves no part
\* of itself (scan.py, snapshot.py, db.py's session_scope).
StoredScansAreWhole ==
  \A id \in {s.scan : s \in history} :
    \E r \in results : r.id = id /\ StoredBy(id) = OkRows(r)

\* A label that tells to buy is given to a liquid ticker only, whose close is above
\* its SMA and that above its long SMA, whose SMA rises, that is neither wild, by its
\* daily range or its volatility, nor stretched; and every ticker gets a label that its
\* rubric means: HOLD, for a status the rubric does not know, is never given
\* (setup.py, status.py, action.py).
LabelsAreEarned ==
  \A t \in {u \in Tickers : tapes[u] # <<>>} :
    \A view \in Views(t) :
      /\ view.label # "HOLD"
      /\ view.label \in {"BUY", "ACCUMULATE"} =>
           \A bars \in {Bars(tapes[t])} :
             LET close == bars[Len(bars)].close
             IN /\ t \in liquid
                /\ \E sma \in Sma(bars), long \in LongSma(bars) : close > sma /\ sma > long
                /\ \E slope \in SlopeOf(bars, SmaBars, SlopeBars) : slope > 0
                /\ \A atr \in Atr(bars) : 100 * atr < 9 * close
                /\ \A variance \in Variance(bars) : 252 * variance <= 8000 * 8000
                /\ ~ \E sma \in Sma(bars), rsi \in Rsi(bars) :
                       100 * close > 116 * sma /\ rsi > 7500

\* What scan.py says of its default: "Default on so daily scans build the
\* time-series history" -- a scan that persists has its rows stored.
ScansBuildTheHistory ==
  \A r \in results : r.persist => OkRows(r) \subseteq StoredBy(r.id)
=============================================================================
