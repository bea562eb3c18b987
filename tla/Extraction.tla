----------------------------- MODULE Extraction -----------------------------
(***************************************************************************)
(* The extraction of calls and claims from documents (extract/*.py):       *)
(* several runs of it, one of them the daily job, over one database.  A    *)
(* run goes synchronously, a document and a window at a time, or in        *)
(* batches, all windows of a pass at once.  Each transaction and each      *)
(* answer of the model is one step; between two of them another run may    *)
(* go on, and a run may fail or die.                                       *)
(***************************************************************************)
EXTENDS Integers, Sequences, FiniteSets

CONSTANTS
  Runs,
  Cron,         \* the run of scripts/daily_run.sh
  Documents,    \* numbered by posted_at: the greatest is the most recent
  Candidates,   \* how many windows of a document pass the prefilter
  Answers,      \* what the model may answer about a window of a document
  Limit,        \* documents per daily run, 0 for all of them
  HandLimits,   \* the limits of the other runs
  UseTwoPass,
  Chunk,        \* requests per batch
  Timeout,      \* polls of a batch before the run gives up
  MaxCrashes    \* bound on the runs that are killed

CallVerdicts  == {"none", "rejected", "accepted"}
ClaimVerdicts == {"none", "accepted"}

ASSUME CronAssumption == Cron \in Runs
ASSUME DocumentsAssumption == IsFiniteSet(Documents) /\ Documents \subseteq Nat
ASSUME CandidatesAssumption == Candidates \in [Documents -> Nat]
ASSUME AnswersAssumption ==
  Answers \in [Documents -> SUBSET [call : CallVerdicts, claims : ClaimVerdicts]]
ASSUME NumbersAssumption ==
  /\ Limit \in Nat /\ HandLimits \subseteq Nat /\ UseTwoPass \in BOOLEAN /\ Chunk \in Nat \ {0}
  /\ Timeout \in Nat /\ MaxCrashes \in Nat

VARIABLES
  calls,     \* the ExtractedCall rows that each run wrote for each window
  claims,    \* how often each run wrote the Claim rows of each window
  run,       \* the local state of each run
  crashes

vars == <<calls, claims, run, crashes>>
-----------------------------------------------------------------------------
WindowsOf(d) == {d} \X (1..Candidates[d])
Windows == UNION {WindowsOf(d) : d \in Documents}

\* Mutant: claims do not mark a document as processed.
ProcessedByCalls(d) == \E r \in Runs : \E w \in WindowsOf(d) : calls[r][w] # << >>

\* A document is processed as soon as it has one row of either kind.
Processed(d) ==
  \E r \in Runs : \E w \in WindowsOf(d) : calls[r][w] # << >> \/ claims[r][w] > 0

\* Mutant: the oldest documents come first.
Oldest(D, n) == IF n = 0 THEN D ELSE {d \in D : Cardinality({e \in D : e < d}) < n}

\* ORDER BY posted_at DESC LIMIT n.
Newest(D, n) == IF n = 0 THEN D ELSE {d \in D : Cardinality({e \in D : e > d}) < n}

\* Mutant: the documents that are processed are not left out.
PendingAll(n) == Newest(Documents, n)

Pending(n) == Newest({d \in Documents : ~ Processed(d)}, n)

Latest(D) == {d \in D : \A e \in D : e <= d}

\* One answer to each of a set of requests.
AnswersTo(W) ==
  {f \in [W -> UNION {Answers[d] : d \in Documents}] : \A w \in W : f[w] \in Answers[w[1]]}

\* Windows in the order of their documents and, within one, of their places.
Precedes(v, w) == v[1] < w[1] \/ (v[1] = w[1] /\ v[2] < w[2])
FirstOf(W, n) == {w \in W : Cardinality({v \in W : Precedes(v, w)}) < n}
-----------------------------------------------------------------------------
(* The local state of a run *)

NoWindow == <<0, 0>>

\* What the model has said about a window, and the pass its call comes from.
Results  == [call : CallVerdicts, claims : ClaimVerdicts, pass : {1, 2}]
NoResult == [call |-> "none", claims |-> "none", pass |-> 0]

Idle == [
  pc        |-> "idle",
  via       |-> "sync",
  loaded    |-> {},              \* docs
  queue     |-> {},              \* the documents the loop has not come to
  todo      |-> {},              \* windows still to ask about, or to persist
  win       |-> NoWindow,        \* the window in hand
  batch     |-> {},              \* the windows of the submitted batch
  round     |-> 1,
  waited    |-> 0,
  results   |-> [w \in Windows |-> NoResult],
  erred     |-> FALSE ]          \* summary["errors"] > 0

Becomes(r, state) == run' = [run EXCEPT ![r] = state]
Goto(r, pc) == Becomes(r, [run[r] EXCEPT !.pc = pc])
At(r, pc) == run[r].pc = pc
Result(r) == run[r].results[run[r].win]
Synchronous(r) == run[r].via = "sync"

\* The result of a window after pass 1, and after pass 2, which replaces the
\* call and leaves the claims.
First(answer) == [call |-> answer.call, claims |-> answer.claims, pass |-> 1]
Second(result, answer) == [result EXCEPT !.call = answer.call, !.pass = 2]

Answered(r) == {w \in Windows : run[r].results[w] # NoResult}
Found(r)    == {w \in Answered(r) : run[r].results[w].call # "none"}
-----------------------------------------------------------------------------
Init ==
  /\ calls = [r \in Runs |-> [w \in Windows |-> << >>]]
  /\ claims = [r \in Runs |-> [w \in Windows |-> 0]]
  /\ run = [r \in Runs |-> Idle]
  /\ crashes = 0

\* `tsr extract`: the pending documents are read once, before anything else.
Start(r, via, n) ==
  /\ At(r, "idle")
  /\ Becomes(r, [Idle EXCEPT !.pc = IF via = "sync" THEN "documents" ELSE "build",
                             !.via = via, !.loaded = Pending(n), !.queue = Pending(n)])
  /\ UNCHANGED <<calls, claims, crashes>>

\* The daily job runs synchronously and with a limit.
StartDaily == Start(Cron, "sync", Limit)

\* The summary is logged and the process ends.
Return(r) ==
  /\ \/ At(r, "documents") /\ run[r].queue = {}
     \/ At(r, "persist") /\ run[r].todo = {}
  /\ Becomes(r, Idle)
  /\ UNCHANGED <<calls, claims, crashes>>
-----------------------------------------------------------------------------
(* The synchronous transport: run_extraction, _process_document *)

\* The next document, most recent first, and its windows.
NextDocument(r) ==
  /\ At(r, "documents")
  /\ \E d \in Latest(run[r].queue) :
       Becomes(r, [run[r] EXCEPT !.pc = "windows", !.queue = @ \ {d}, !.todo = WindowsOf(d)])
  /\ UNCHANGED <<calls, claims, crashes>>

\* Reading its segments failed: the document is skipped and counted as an error.
SkipDocument(r) ==
  /\ At(r, "documents")
  /\ \E d \in Latest(run[r].queue) :
       Becomes(r, [run[r] EXCEPT !.queue = @ \ {d}, !.erred = TRUE])
  /\ UNCHANGED <<calls, claims, crashes>>

\* Pass 1 of the next window of the document; only a call is asked about twice.
Extract(r) ==
  /\ At(r, "windows")
  /\ \E w \in FirstOf(run[r].todo, 1) : \E answer \in Answers[w[1]] :
       Becomes(r, [run[r] EXCEPT
         !.pc = IF UseTwoPass /\ answer.call # "none" THEN "confirm" ELSE "call",
         !.todo = @ \ {w}, !.win = w, !.results[w] = First(answer)])
  /\ UNCHANGED <<calls, claims, crashes>>

\* Mutant: a request of pass 2 that fails leaves the call of pass 1.
ConfirmIfPossible(r) ==
  /\ At(r, "confirm")
  /\ Goto(r, "call")
  /\ UNCHANGED <<calls, claims, crashes>>

\* Pass 2 of the same window.
Confirm(r) ==
  /\ At(r, "confirm")
  /\ \E answer \in Answers[run[r].win[1]] :
       Becomes(r, [run[r] EXCEPT !.pc = "call", !.results[run[r].win] = Second(@, answer)])
  /\ UNCHANGED <<calls, claims, crashes>>

EndDocument(r) ==
  /\ At(r, "windows")
  /\ run[r].todo = {}
  /\ Goto(r, "documents")
  /\ UNCHANGED <<calls, claims, crashes>>

\* Where a request or a transaction may raise.
MayRaise(r) ==
  \/ At(r, "windows") /\ run[r].todo # {}
  \/ At(r, "confirm")
  \/ At(r, "call") /\ Result(r).call = "accepted"
  \/ At(r, "claims") /\ Result(r).claims = "accepted"

\* The exception ends the document: its other windows are dropped.
FailDocument(r) ==
  /\ Synchronous(r) /\ MayRaise(r)
  /\ Becomes(r, [run[r] EXCEPT !.pc = "documents", !.todo = {}, !.win = NoWindow, !.erred = TRUE])
  /\ UNCHANGED <<calls, claims, crashes>>
-----------------------------------------------------------------------------
(* The batched transport: run_extraction_batched, run_batch *)

\* All windows of all documents but those whose segments could not be read.
Build(r, unread) ==
  /\ At(r, "build")
  /\ unread \subseteq run[r].queue
  /\ LET todo == UNION {WindowsOf(d) : d \in run[r].queue \ unread} IN
       Becomes(r, [run[r] EXCEPT !.pc = IF todo = {} THEN "persist" ELSE "submit",
                                 !.queue = {}, !.todo = todo, !.erred = (unread # {})])
  /\ UNCHANGED <<calls, claims, crashes>>

Submit(r) ==
  /\ At(r, "submit")
  /\ run[r].todo # {}
  /\ Becomes(r, [run[r] EXCEPT !.pc = "wait", !.waited = 0, !.batch = FirstOf(run[r].todo, Chunk)])
  /\ UNCHANGED <<calls, claims, crashes>>

\* Mutant: one more poll after the timeout.
PollLate(r) ==
  /\ At(r, "wait")
  /\ run[r].waited <= Timeout
  /\ Becomes(r, [run[r] EXCEPT !.waited = @ + 1])
  /\ UNCHANGED <<calls, claims, crashes>>

\* Mutant: the time waited starts over and over.
PollForEver(r) ==
  /\ At(r, "wait")
  /\ Becomes(r, [run[r] EXCEPT !.waited = (@ + 1) % (Timeout + 1)])
  /\ UNCHANGED <<calls, claims, crashes>>

\* The batch has not ended: sleep and poll again.
Poll(r) ==
  /\ At(r, "wait")
  /\ run[r].waited < Timeout
  /\ Becomes(r, [run[r] EXCEPT !.waited = @ + 1])
  /\ UNCHANGED <<calls, claims, crashes>>

\* TimeoutError leaves run_extraction_batched, with all results so far.
TimeOut(r) ==
  /\ At(r, "wait")
  /\ run[r].waited >= Timeout
  /\ Becomes(r, Idle)
  /\ UNCHANGED <<calls, claims, crashes>>

\* The results with the answers about the windows W.
Collected(r, W, answer) ==
  [w \in Windows |->
     IF w \notin W THEN run[r].results[w]
     ELSE IF run[r].round = 1 THEN First(answer[w])
     ELSE Second(run[r].results[w], answer[w])]

\* Mutant: requests that failed are not counted as errors.
CollectSilently(r, failed, answer) ==
  /\ At(r, "wait")
  /\ failed \subseteq run[r].batch
  /\ Becomes(r, [run[r] EXCEPT !.pc = "submit", !.todo = @ \ run[r].batch, !.batch = {},
                               !.results = Collected(r, run[r].batch \ failed, answer)])
  /\ UNCHANGED <<calls, claims, crashes>>

\* The batch has ended: each of its requests has an answer or has failed.
Collect(r, failed, answer) ==
  /\ At(r, "wait")
  /\ failed \subseteq run[r].batch
  /\ Becomes(r, [run[r] EXCEPT !.pc = "submit", !.todo = @ \ run[r].batch, !.batch = {},
                               !.results = Collected(r, run[r].batch \ failed, answer),
                               !.erred = @ \/ failed # {}])
  /\ UNCHANGED <<calls, claims, crashes>>

\* Pass 1 is in: the calls it found make up pass 2.
SecondRound(r) ==
  /\ At(r, "submit") /\ run[r].todo = {}
  /\ run[r].round = 1 /\ UseTwoPass /\ Found(r) # {}
  /\ Becomes(r, [run[r] EXCEPT !.round = 2, !.todo = Found(r)])
  /\ UNCHANGED <<calls, claims, crashes>>

\* All answers are in; they are persisted in the order they came.
EndRounds(r) ==
  /\ At(r, "submit") /\ run[r].todo = {}
  /\ run[r].round = 2 \/ ~ UseTwoPass \/ Found(r) = {}
  /\ Becomes(r, [run[r] EXCEPT !.pc = "persist", !.todo = Answered(r)])
  /\ UNCHANGED <<calls, claims, crashes>>

NextResult(r, w) ==
  /\ At(r, "persist")
  /\ Becomes(r, [run[r] EXCEPT !.pc = "call", !.todo = @ \ {w}, !.win = w])
  /\ UNCHANGED <<calls, claims, crashes>>

\* Nothing catches an exception here: the run ends and what it has is lost.
FailRun(r) ==
  /\ ~ Synchronous(r)
  /\ (At(r, "submit") /\ run[r].todo # {}) \/ At(r, "wait") \/ MayRaise(r)
  /\ Becomes(r, Idle)
  /\ UNCHANGED <<calls, claims, crashes>>
-----------------------------------------------------------------------------
(* Persistence, shared by the transports: two transactions per window *)

\* An accepted call is one row, in a transaction of its own.
PersistCall(r) ==
  /\ At(r, "call")
  /\ calls' = IF Result(r).call # "accepted" THEN calls
              ELSE [calls EXCEPT ![r][run[r].win] = Append(@, Result(r).pass)]
  /\ Goto(r, "claims")
  /\ UNCHANGED <<claims, crashes>>

PersistClaims(r) ==
  /\ At(r, "claims")
  /\ claims' = IF Result(r).claims = "none" THEN claims
               ELSE [claims EXCEPT ![r][run[r].win] = @ + 1]
  /\ Becomes(r, [run[r] EXCEPT !.pc = IF Synchronous(r) THEN "windows" ELSE "persist",
                               !.win = NoWindow])
  /\ UNCHANGED <<calls, crashes>>
-----------------------------------------------------------------------------
Crash(r) ==
  /\ ~ At(r, "idle")
  /\ crashes < MaxCrashes
  /\ crashes' = crashes + 1
  /\ Becomes(r, Idle)
  /\ UNCHANGED <<calls, claims>>

\* By hand with either transport, and a limit or none.
StartByHand(r) == \E via \in {"sync", "batch"}, n \in HandLimits : Start(r, via, n)

SyncStep(r) ==
  \/ NextDocument(r) \/ SkipDocument(r) \/ EndDocument(r) \/ FailDocument(r)
  \/ Extract(r) \/ Confirm(r)

BatchStep(r) ==
  \/ \E unread \in SUBSET run[r].queue : Build(r, unread)
  \/ Submit(r) \/ Poll(r) \/ TimeOut(r) \/ SecondRound(r) \/ EndRounds(r) \/ FailRun(r)
  \/ \E failed \in SUBSET run[r].batch :
       \E answer \in AnswersTo(run[r].batch \ failed) : Collect(r, failed, answer)
  \/ \E w \in run[r].todo : NextResult(r, w)

Step(r) == SyncStep(r) \/ BatchStep(r) \/ PersistCall(r) \/ PersistClaims(r) \/ Return(r)

Next ==
  \/ StartDaily
  \/ \E r \in Runs \ {Cron} : StartByHand(r)
  \/ \E r \in Runs : Step(r) \/ Crash(r)

\* launchd starts the daily job again and again, and a process that lives goes
\* on; nothing forces a batch to end or a request to succeed.
Fairness == WF_vars(StartDaily) /\ \A r \in Runs : WF_vars(Step(r))

Spec == Init /\ [][Next]_vars /\ Fairness
-----------------------------------------------------------------------------
(* Properties *)

PcValues == {"idle", "documents", "windows", "confirm", "build", "submit", "wait", "persist",
             "call", "claims"}

Local == [
  pc : PcValues, via : {"sync", "batch"}, loaded : SUBSET Documents, queue : SUBSET Documents,
  todo : SUBSET Windows, win : Windows \cup {NoWindow}, batch : SUBSET Windows, round : {1, 2},
  waited : 0..Timeout, results : [Windows -> Results \cup {NoResult}], erred : BOOLEAN ]

\* What the rows and the local state of each run are made of, and which window
\* a run that extracts or persists one has in hand.
TypeOK ==
  /\ calls \in [Runs -> [Windows -> Seq({1, 2})]]
  /\ claims \in [Runs -> [Windows -> Nat]]
  /\ run \in [Runs -> Local]
  /\ crashes \in 0..MaxCrashes
  /\ \A r \in Runs : run[r].pc \in {"confirm", "call", "claims"} => run[r].win \in Windows

\* "Idempotent: skips Documents that already have ExtractedCall OR Claim rows"
\* (run.py:10), as far as it goes: started as often as you like, and killed
\* anywhere, no run writes the rows of a window a second time.  Two runs that
\* overlap may both write them.
EachRunWritesOnce ==
  \A r \in Runs : \A w \in Windows : Len(calls[r][w]) <= 1 /\ claims[r][w] <= 1

Returning(r) ==
  \/ At(r, "documents") /\ run[r].queue = {}
  \/ At(r, "persist") /\ run[r].todo = {}

\* A run that returns without an error has missed nothing: it has an answer
\* for every window of every document it loaded, each accepted answer has its
\* rows, and each call went through both passes.
CleanRunIsComplete ==
  \A r \in Runs : Returning(r) /\ ~ run[r].erred =>
    LET results == run[r].results IN
    /\ Answered(r) = UNION {WindowsOf(d) : d \in run[r].loaded}
    /\ \A w \in Answered(r) :
         /\ calls[r][w] = IF results[w].call = "accepted"
                            THEN <<IF UseTwoPass THEN 2 ELSE 1>>
                            ELSE << >>
         /\ claims[r][w] = IF results[w].claims = "accepted" THEN 1 ELSE 0

Unconfirmed(r) == UseTwoPass /\ \E w \in Windows : \E i \in DOMAIN calls[r][w] : calls[r][w][i] = 1

\* The daily job, which runs synchronously, persists no call that pass 2 has
\* not seen, also when a request fails between the passes.
DailyCallsAreConfirmed == ~ Unconfirmed(Cron)

\* A run may still write about a document that it loaded.
InHand(r, d) == ~ At(r, "idle") /\ d \in run[r].loaded

\* The document counts as processed, and no run is left that loaded it before.
Settled(d) == Processed(d) /\ \A r \in Runs : ~ InHand(r, d)

\* A settled document keeps the rows it has and stays settled: no later run
\* loads it and tops it up, whatever windows a failure or a crash has lost.
ProcessedIsFinal ==
  [][\A d \in Documents : Settled(d) =>
       /\ Settled(d)'
       /\ \A r \in Runs : \A w \in WindowsOf(d) :
            calls'[r][w] = calls[r][w] /\ claims'[r][w] = claims[r][w]]_vars

\* A run ends even if the batch it waits for never does.
EveryRunEnds == \A r \in Runs : ~ At(r, "idle") ~> At(r, "idle")

\* The loop of the daily job has come to the document.
Reached(d) == d \in run[Cron].loaded \ run[Cron].queue

\* The daily job comes to every document sooner or later, unless others process
\* it, or so many more recent ones yield nothing, run after run, that they fill
\* the limit for ever.
OnlyTheFruitlessStarve ==
  \A d \in Documents :
    \/ <>(Processed(d) \/ Reached(d))
    \/ <>[](Limit > 0 /\ Cardinality({e \in Documents : e > d /\ ~ Processed(e)}) >= Limit)
=============================================================================
