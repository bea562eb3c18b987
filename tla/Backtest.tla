------------------------------ MODULE Backtest ------------------------------
(***************************************************************************)
(* The backtest stage (backtest/run.py): processes that evaluate accepted  *)
(* calls against daily bars and persist one row per (call, horizon), while *)
(* the market moves on, price fetches fail or lag, and a process may die   *)
(* between any two of its transactions.                                    *)
(*                                                                         *)
(* One ticker and one tape stand for all calls: calls interact only        *)
(* through the table of rows.  The bars a fetch returns come from the      *)
(* provider in the order of sessions, none missing in the middle; the      *)
(* on-disk cache, which can break that, is not part of this module.        *)
(* Session 1 is over when a behaviour starts: the frame _process_call asks *)
(* for begins five days before the post and so holds a bar to start with.  *)
(***************************************************************************)
EXTENDS Evaluation

CONSTANTS
  Calls,         \* extracted calls, named by their ids
  Runners,       \* processes that may execute run_backtest at the same time
  LastSession,   \* bound: the number of sessions the market goes through
  Horizons,      \* settings.backtest.horizons in trading days; the list ascends
  MaxFaults,     \* bound: crashes, failed, empty and late fetches together
  Shapes,        \* the calls Init chooses from
  PostTimes,     \* the publication times Init chooses from
  Tapes          \* the final bars of all sessions, as Init chooses them

Sessions == 1..LastSession

ASSUME CallsAssumption    == Calls \subseteq Nat \ {0} /\ IsFiniteSet(Calls)
ASSUME SessionAssumption  == LastSession \in Nat \ {0}
ASSUME FaultAssumption    == MaxFaults \in Nat
ASSUME HorizonsAssumption == Horizons \subseteq Nat \ {0} /\ IsFiniteSet(Horizons)
ASSUME ChoiceAssumption   ==
  /\ Shapes \subseteq Shape
  /\ PostTimes \subseteq Nat
  /\ Tapes \subseteq [Sessions -> Bar]

VARIABLES
  tape,      \* the bar each session ends up with; never changes
  call,      \* the frozen attributes of each call; never change
  posted,    \* documents.posted_at of each call; never changes
  now,       \* the clock
  accepted,  \* calls whose status the extractor has set to accepted
  rows,      \* the table outcome_windows
  pc,        \* where each process stands in run_backtest
  pending,   \* the calls its run has still to process
  current,   \* the call it is processing
  work,      \* the rows it has still to persist for that call
  faults     \* faults so far, bounded by MaxFaults

vars == <<tape, call, posted, now, accepted, rows, pc, pending, current, work, faults>>
market  == <<tape, call, posted>>
runners == <<pc, pending, current, work>>

NoCall == 0
-----------------------------------------------------------------------------
(* What a fetch can return *)

\* A bar of a session in progress shows the open and some of the range so far.
FormingViews(bar) ==
  {bar, [open |-> bar.open, high |-> bar.open, low |-> bar.open, close |-> bar.open]}

\* The sessions that have opened by now, and how the provider shows them.
Opened == {s \in Sessions : OpenAt(s) <= now}
Closed == {s \in Sessions : CloseAt(s) <= now}

\* Every frame of bars of the sessions S: final once a session has closed; only
\* the last session to open can still be in progress.
Frames(S) ==
  {[s \in S |-> IF s \in Closed THEN tape[s] ELSE view] :
     view \in FormingViews(tape[Last(Opened)])}

OnTime  == Frames(Opened)
\* The last bar not published yet, or no bar at all.
Faulty  == Frames(Opened \ {Last(Opened)}) \cup Frames({})
-----------------------------------------------------------------------------
(* The rows _process_call writes for a call, from the bars it fetched *)

Row(c, h, status, s, outcome, bench) ==
  [call |-> c, horizon |-> h, status |-> status, activation |-> s,
   outcome |-> outcome, bench |-> bench]

NoOutcome == [exit |-> NoSession, gross |-> 0, mfe |-> 0, mae |-> 0,
              target |-> "none", stop |-> "none"]

\* Mutant: a call without prices is recorded as failed.
VerdictFailed(c, status) ==
  {Row(c, h, IF status = "data_missing" THEN "failed" ELSE status, NoSession, NoOutcome, FALSE) :
     h \in Horizons}

\* The same verdict for every horizon.
Verdict(c, status) == {Row(c, h, status, NoSession, NoOutcome, FALSE) : h \in Horizons}

\* A row for every horizon that has closed; the others are skipped.
EvaluatedRows(c, daily, s, bench) ==
  {Row(c, h, "evaluated", s, ComputeOutcome(call[c], daily, s, h), bench) :
     h \in {n \in Horizons : HorizonCovered(daily, s, n)}}

\* Mutant: the window counts as expired one session early.
EvaluateExpiringEarly(c, daily, bench) ==
  LET s == DetermineActivation(call[c], daily, posted[c])
  IN  IF DOMAIN daily = {} THEN Verdict(c, "data_missing")
      ELSE IF s # NoSession THEN EvaluatedRows(c, daily, s, bench)
      ELSE IF Cardinality(BarsAfter(daily, posted[c])) >= TriggerWindow - 1
           THEN Verdict(c, "not_triggered") ELSE {}

\* Mutant: nothing is persisted when the window expires.
EvaluateNeverExpiring(c, daily, bench) ==
  LET s == DetermineActivation(call[c], daily, posted[c])
  IN  IF DOMAIN daily = {} THEN Verdict(c, "data_missing")
      ELSE IF s # NoSession THEN EvaluatedRows(c, daily, s, bench) ELSE {}

\* No rows yet while there are no bars after the post or the window is open.
Evaluate(c, daily, bench) ==
  LET s == DetermineActivation(call[c], daily, posted[c])
  IN  IF DOMAIN daily = {} THEN Verdict(c, "data_missing")
      ELSE IF s # NoSession THEN EvaluatedRows(c, daily, s, bench)
      ELSE IF Cardinality(BarsAfter(daily, posted[c])) >= TriggerWindow
           THEN Verdict(c, "not_triggered") ELSE {}
-----------------------------------------------------------------------------
Init ==
  /\ tape \in Tapes
  /\ call \in [Calls -> Shapes]
  /\ posted \in [Calls -> PostTimes]
  /\ now = CloseAt(1)
  /\ accepted = {}
  /\ rows = {}
  /\ pc = [r \in Runners |-> "idle"]
  /\ pending = [r \in Runners |-> {}]
  /\ current = [r \in Runners |-> NoCall]
  /\ work = [r \in Runners |-> {}]
  /\ faults = 0

\* The market moves on: to the open, to the close, or past the next midnight.
Tick ==
  /\ now < CloseAt(LastSession)
  /\ now' = now + 1
  /\ UNCHANGED <<market, accepted, rows, runners, faults>>

\* The extract stage accepts a call, some time after its document was posted.
Accept(c) ==
  /\ c \notin accepted
  /\ now >= posted[c]
  /\ accepted' = accepted \cup {c}
  /\ UNCHANGED <<market, now, rows, runners, faults>>

\* run_backtest loads the accepted calls that have no row at all.
Start(r) ==
  /\ pc[r] = "idle"
  /\ pc' = [pc EXCEPT ![r] = "next"]
  /\ pending' = [pending EXCEPT ![r] = {c \in accepted : \A row \in rows : row.call # c}]
  /\ UNCHANGED <<market, now, accepted, rows, current, work, faults>>

\* The loop over the pending calls, in the order of their ids.
NextCall(r) ==
  /\ pc[r] = "next"
  /\ pending[r] # {}
  /\ current' = [current EXCEPT ![r] = First(pending[r])]
  /\ pending' = [pending EXCEPT ![r] = @ \ {First(pending[r])}]
  /\ pc' = [pc EXCEPT ![r] = "fetch"]
  /\ UNCHANGED <<market, now, accepted, rows, work, faults>>

Finish(r) ==
  /\ pc[r] = "next"
  /\ pending[r] = {}
  /\ pc' = [pc EXCEPT ![r] = "idle"]
  /\ UNCHANGED <<market, now, accepted, rows, pending, current, work, faults>>

\* Fetch the bars of the ticker and of the benchmark, and evaluate on them.
FetchAs(r, daily, bench) ==
  /\ pc[r] = "fetch"
  /\ work' = [work EXCEPT ![r] = Evaluate(current[r], daily, bench)]
  /\ pc' = [pc EXCEPT ![r] = "persist"]
  /\ UNCHANGED <<market, now, accepted, rows, pending, current>>

Fetch(r) ==
  /\ \E daily \in OnTime : FetchAs(r, daily, TRUE)
  /\ UNCHANGED faults

FaultyFetch(r) ==
  /\ faults < MaxFaults
  /\ faults' = faults + 1
  /\ \/ \E daily \in Faulty : FetchAs(r, daily, TRUE)
     \/ \E daily \in OnTime : FetchAs(r, daily, FALSE)

\* The horizons are persisted in the order of the settings.
NextRow(r) == CHOOSE row \in work[r] : \A x \in work[r] : row.horizon <= x.horizon

\* A row that is there already is left alone.
Recorded(row) == \E old \in rows : old.call = row.call /\ old.horizon = row.horizon

Skip(r) ==
  /\ pc[r] = "persist"
  /\ work[r] # {}
  /\ Recorded(NextRow(r))
  /\ work' = [work EXCEPT ![r] = @ \ {NextRow(r)}]
  /\ UNCHANGED <<market, now, accepted, rows, pc, pending, current, faults>>

\* _persist_outcome has looked for the row and not found it.
Miss(r) ==
  /\ pc[r] = "persist"
  /\ work[r] # {}
  /\ ~ Recorded(NextRow(r))
  /\ pc' = [pc EXCEPT ![r] = "commit"]
  /\ UNCHANGED <<market, now, accepted, rows, pending, current, work, faults>>

\* Mutant: the table has no unique constraint.
CommitUnconstrained(r) ==
  /\ pc[r] = "commit"
  /\ rows' = rows \cup {NextRow(r)}
  /\ work' = [work EXCEPT ![r] = @ \ {NextRow(r)}]
  /\ pc' = [pc EXCEPT ![r] = "persist"]
  /\ UNCHANGED <<market, now, accepted, pending, current, faults>>

\* The insert commits, each row in a transaction of its own.
Commit(r) ==
  /\ pc[r] = "commit"
  /\ ~ Recorded(NextRow(r))
  /\ rows' = rows \cup {NextRow(r)}
  /\ work' = [work EXCEPT ![r] = @ \ {NextRow(r)}]
  /\ pc' = [pc EXCEPT ![r] = "persist"]
  /\ UNCHANGED <<market, now, accepted, pending, current, faults>>

\* The rest of the call is given up and the loop goes on.
Abandon(r) ==
  /\ work' = [work EXCEPT ![r] = {}]
  /\ current' = [current EXCEPT ![r] = NoCall]
  /\ pc' = [pc EXCEPT ![r] = "next"]
  /\ UNCHANGED <<market, now, accepted, rows, pending>>

\* Another process inserted the row first: the unique constraint refuses it.
Conflict(r) ==
  /\ pc[r] = "commit"
  /\ Recorded(NextRow(r))
  /\ Abandon(r)
  /\ UNCHANGED faults

CallDone(r) ==
  /\ pc[r] = "persist"
  /\ work[r] = {}
  /\ Abandon(r)
  /\ UNCHANGED faults

\* Mutant: the exception is caught per horizon instead of per call.
CallErrorPerHorizon(r) ==
  /\ faults < MaxFaults
  /\ faults' = faults + 1
  /\ pc[r] \in {"persist", "commit"} /\ work[r] # {}
  /\ work' = [work EXCEPT ![r] = @ \ {NextRow(r)}]
  /\ pc' = [pc EXCEPT ![r] = "persist"]
  /\ UNCHANGED <<market, now, accepted, rows, pending, current>>

\* Any other exception while a call is processed: a fetch that failed three
\* times, a locked database.
CallError(r) ==
  /\ faults < MaxFaults
  /\ faults' = faults + 1
  /\ pc[r] \in {"fetch", "persist", "commit"}
  /\ Abandon(r)

\* The process dies; what it has committed stays.
Crash(r) ==
  /\ faults < MaxFaults
  /\ faults' = faults + 1
  /\ pc[r] # "idle"
  /\ pc' = [pc EXCEPT ![r] = "idle"]
  /\ pending' = [pending EXCEPT ![r] = {}]
  /\ current' = [current EXCEPT ![r] = NoCall]
  /\ work' = [work EXCEPT ![r] = {}]
  /\ UNCHANGED <<market, now, accepted, rows>>

Run(r) ==
  \/ Start(r) \/ NextCall(r) \/ Finish(r)
  \/ Fetch(r) \/ Skip(r) \/ Miss(r) \/ Commit(r) \/ Conflict(r) \/ CallDone(r)

Next ==
  \/ Tick
  \/ \E c \in Calls : Accept(c)
  \/ \E r \in Runners : Run(r)
  \/ \E r \in Runners : FaultyFetch(r) \/ CallError(r) \/ Crash(r)

\* The market's clock does not stop, calls get extracted, and the daily job
\* starts over and over and gets on with its work.
Fairness ==
  /\ WF_vars(Tick)
  /\ \A c \in Calls : WF_vars(Accept(c))
  /\ \A r \in Runners : WF_vars(Run(r))

Spec == Init /\ [][Next]_vars /\ Fairness
-----------------------------------------------------------------------------
(* Properties *)

Outcome == [exit   : Sessions \cup {NoSession},
            gross  : Int, mfe : Int, mae : Int,
            target : {"none", "hit", "miss"},
            stop   : {"none", "hit", "miss"}]

RowType == [call       : Calls,
            horizon    : Horizons,
            status     : {"evaluated", "not_triggered", "data_missing"},
            activation : Sessions \cup {NoSession},
            outcome    : Outcome,
            bench      : BOOLEAN]

\* Every variable has the type of the column, frame or local it stands for.
TypeOK ==
  /\ tape \in [Sessions -> Bar]
  /\ call \in [Calls -> Shape]
  /\ posted \in [Calls -> Nat]
  /\ now \in Nat
  /\ accepted \subseteq Calls
  /\ rows \subseteq RowType
  /\ pc \in [Runners -> {"idle", "next", "fetch", "persist", "commit"}]
  /\ pending \in [Runners -> SUBSET Calls]
  /\ current \in [Runners -> Calls \cup {NoCall}]
  /\ work \in [Runners -> SUBSET RowType]
  /\ faults \in Nat

Evaluated(row) == row.status = "evaluated"

\* A row that was evaluated while the market was still moving is the row one
\* would get with hindsight from the finished bars: no half-formed bar, late
\* bar or race between processes shifts the session a call activates in, its
\* fill or its metrics (_process_call's check that a bar is stamped after the
\* end of the horizon is what this rests on).
EvaluatedRowsAreFinal ==
  \A row \in rows : Evaluated(row) =>
    /\ row.activation = DetermineActivation(call[row.call], tape, posted[row.call])
    /\ row.outcome = ComputeOutcome(call[row.call], tape, row.activation, row.horizon)

\* No row uses the future or the time before the post: the bars a row was
\* evaluated on are of sessions that open after posted_at and that had closed
\* when the row was written (ADR 0003, sanity checks).
NoLookAhead ==
  \A row \in rows : Evaluated(row) =>
    /\ OpenAt(row.activation) > posted[row.call]
    /\ row.activation <= row.outcome.exit
    /\ CloseAt(row.outcome.exit) <= now

\* The constraint uq_outcome_call_horizon_evaluator, which the check in
\* _persist_outcome alone could not keep between two processes.
OneRowPerHorizon ==
  \A x, y \in rows : x.call = y.call /\ x.horizon = y.horizon => x = y

\* Whatever processes race and wherever they die, the horizons a call has rows
\* for are the shortest ones: no horizon is recorded before a shorter one.
HorizonsFormAPrefix ==
  \A row \in rows : \A h \in Horizons :
    h < row.horizon => \E x \in rows : x.call = row.call /\ x.horizon = h

\* A call is written off as not triggered only after its window has begun its
\* last session, and then no earlier session of the window reached its price.
NotTriggeredIsEarned ==
  \A row \in rows : row.status = "not_triggered" =>
    LET window == Window(tape, posted[row.call])
    IN  /\ Cardinality(window) = TriggerWindow
        /\ window \subseteq Opened
        /\ window \cap Entries(call[row.call], tape, posted[row.call])
             \subseteq {Last(window)}

\* An accepted call is not left pending for ever: once its window has run out
\* or its first horizon has closed, some run records a verdict about it, in
\* spite of crashes, errors and fetches that failed a bounded number of times.
EveryCallIsRecorded ==
  \A c \in Calls : c \in accepted ~> \E row \in rows : row.call = c

\* What the comment on the open horizon in _process_call says, "Skip
\* persistence; retry next run": a horizon that closes is recorded in the end.
EveryHorizonIsRecorded ==
  \A c \in Calls : \A h \in Horizons :
    LET s == DetermineActivation(call[c], tape, posted[c])
    IN  c \in accepted /\ s # NoSession /\ HorizonCovered(tape, s, h)
          ~> \E row \in rows : row.call = c /\ row.horizon = h
=============================================================================
