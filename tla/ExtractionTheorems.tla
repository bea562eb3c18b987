------------------------- MODULE ExtractionTheorems -------------------------
(***************************************************************************)
(* No run of the extraction writes a row twice, no later run touches what  *)
(* is processed, the daily job confirms its calls, and a run without       *)
(* errors has missed nothing, for any number of runs, documents, windows.  *)
(*                                                                         *)
(* What makes the first inductive: the windows a run may still write about,*)
(* which it has read long ago, have no row of its own, and are disjoint    *)
(* from the window in hand.  In a batched run these include the answered   *)
(* windows, which wait for the other answers until all are persisted.      *)
(***************************************************************************)
EXTENDS Extraction, TLAPS

Fresh(r, w) == calls[r][w] = << >> /\ claims[r][w] = 0

\* The window in hand is none of those still to come, and lacks the rows that
\* are next.
InHandOnce(r) ==
  /\ run[r].pc \in {"confirm", "call"} => Fresh(r, run[r].win)
  /\ run[r].pc = "claims" => claims[r][run[r].win] = 0
  /\ run[r].pc \in {"confirm", "call", "claims"} =>
       run[r].win \notin run[r].todo /\ run[r].win[1] \notin run[r].queue

\* Nor do the windows still to come have any.
ToComeOnce(r) ==
  /\ \A d \in run[r].queue : \A w \in WindowsOf(d) : Fresh(r, w)
  /\ \A w \in run[r].todo : Fresh(r, w) /\ w[1] \notin run[r].queue
  /\ run[r].pc \in {"build", "submit", "wait"} => \A w \in Answered(r) : Fresh(r, w)
  /\ run[r].pc = "wait" => run[r].batch \subseteq run[r].todo

\* Each transport has steps of its own, and a batched run leaves no document
\* for later.
Transport(r) ==
  /\ run[r].pc \in {"documents", "windows", "confirm"} => run[r].via = "sync"
  /\ run[r].pc \in {"build", "submit", "wait", "persist"} => run[r].via = "batch"
  /\ run[r].via = "batch" /\ run[r].pc # "build" => run[r].queue = {}

\* All of it belongs to documents that the run loaded.
FromLoaded(r) ==
  /\ run[r].queue \subseteq run[r].loaded
  /\ \A w \in run[r].todo : w[1] \in run[r].loaded
  /\ run[r].pc \in {"build", "submit", "wait"} => \A w \in Answered(r) : w[1] \in run[r].loaded
  /\ run[r].pc \in {"confirm", "call", "claims"} => run[r].win[1] \in run[r].loaded

Written(r) == \A w \in Windows : Len(calls[r][w]) <= 1 /\ claims[r][w] <= 1

OnceInv(r) == Written(r) /\ InHandOnce(r) /\ ToComeOnce(r) /\ Transport(r) /\ FromLoaded(r)
Inv == TypeOK /\ \A r \in Runs : OnceInv(r)
-----------------------------------------------------------------------------
(* Windows, pending documents and the idle state *)

LEMMA WindowFacts ==
  ASSUME NEW d \in Documents
  PROVE  WindowsOf(d) \subseteq Windows /\ \A w \in WindowsOf(d) : w[1] = d
BY DEF WindowsOf, Windows

LEMMA FirstOfIsSubset == ASSUME NEW W, NEW n PROVE FirstOf(W, n) \subseteq W
BY DEF FirstOf

\* A pending document has no row of any run.
LEMMA PendingIsFresh ==
  ASSUME TypeOK, NEW n
  PROVE  /\ Pending(n) \subseteq Documents
         /\ \A d \in Pending(n) : \A r \in Runs : \A w \in WindowsOf(d) : Fresh(r, w)
<1>1. Pending(n) \subseteq {d \in Documents : ~ Processed(d)}
  BY DEF Pending, Newest
<1>2. ASSUME NEW d \in Pending(n), NEW r \in Runs, NEW w \in WindowsOf(d)
      PROVE  Fresh(r, w)
  <2>1. d \in Documents /\ w \in Windows
    BY <1>1, <1>2, WindowFacts
  <2>2. calls[r][w] = << >> /\ ~ (claims[r][w] > 0)
    BY <1>1, <1>2 DEF Processed
  <2>3. claims[r][w] \in Nat
    BY <2>1 DEF TypeOK
  <2> QED
    BY <2>2, <2>3 DEF Fresh
<1> QED
  BY <1>1, <1>2

LEMMA AnswerTypes ==
  ASSUME NEW w \in Windows, NEW answer \in Answers[w[1]]
  PROVE  /\ First(answer) \in Results
         /\ \A result \in Results \cup {NoResult} : Second(result, answer) \in Results
<1>1. PICK d \in Documents : w \in WindowsOf(d)
  BY DEF Windows
<1>2. answer \in [call : CallVerdicts, claims : ClaimVerdicts]
  BY <1>1, WindowFacts, AnswersAssumption
<1>3. First(answer) \in Results
  BY <1>2 DEF First, Results
<1>4. NoResult.claims \in ClaimVerdicts
  BY DEF NoResult, ClaimVerdicts
<1>5. ASSUME NEW result \in Results \cup {NoResult}
      PROVE  Second(result, answer) \in Results
  BY <1>2, <1>4, <1>5 DEF Second, Results, NoResult
<1> QED
  BY <1>3, <1>5

LEMMA IdleFacts ==
  /\ Idle \in Local /\ Idle.pc = "idle" /\ Idle.via = "sync"
  /\ Idle.queue = {} /\ Idle.todo = {} /\ Idle.results = [w \in Windows |-> NoResult]
BY NumbersAssumption DEF Idle, Local, PcValues

\* Only the rows and the state of run r change.
LEMMA OtherRuns ==
  ASSUME Inv, TypeOK', NEW r \in Runs, OnceInv(r)',
         \A s \in Runs \ {r} : run'[s] = run[s] /\ calls'[s] = calls[s] /\ claims'[s] = claims[s]
  PROVE  Inv'
<1>1. ASSUME NEW s \in Runs \ {r} PROVE OnceInv(s)'
  <2>1. OnceInv(s)
    BY DEF Inv
  <2> QED
    BY <2>1 DEF OnceInv, Written, InHandOnce, ToComeOnce, Transport, FromLoaded, Fresh, Answered
<1> QED
  BY <1>1 DEF Inv

\* A step of run r that writes nothing, to a state that satisfies its parts of
\* the invariant.
LEMMA LocalStep ==
  ASSUME Inv, NEW r \in Runs, NEW l \in Local, Becomes(r, l),
         UNCHANGED <<calls, claims>>, crashes' \in 0..MaxCrashes,
         l.pc \in {"confirm", "call", "claims"} => l.win \in Windows
  PROVE  /\ run'[r] = l
         /\ InHandOnce(r)' /\ ToComeOnce(r)' /\ Transport(r)' /\ FromLoaded(r)' => Inv'
<1>1. run'[r] = l /\ \A s \in Runs \ {r} : run'[s] = run[s]
  BY DEF Inv, TypeOK, Becomes
<1>2. run' \in [Runs -> Local]
  BY DEF Inv, TypeOK, Becomes
<1>3. TypeOK'
  BY <1>1, <1>2 DEF Inv, TypeOK
<1>4. Written(r)'
  BY DEF Inv, OnceInv, Written
<1> QED
  BY <1>1, <1>3, <1>4, OtherRuns DEF OnceInv

\* A run that stops has nothing in hand and nothing to come.
LEMMA Stops ==
  ASSUME Inv, NEW r \in Runs, Becomes(r, Idle), UNCHANGED <<calls, claims>>,
         crashes' \in 0..MaxCrashes
  PROVE  Inv'
<1>1. run'[r] = Idle
  BY IdleFacts, LocalStep
<1>2. InHandOnce(r)' /\ ToComeOnce(r)' /\ Transport(r)' /\ FromLoaded(r)'
  BY <1>1, IdleFacts DEF InHandOnce, ToComeOnce, Transport, FromLoaded
<1> QED
  BY <1>2, IdleFacts, LocalStep
-----------------------------------------------------------------------------
(* The steps *)

LEMMA InitInv == Init => Inv
<1> SUFFICES ASSUME Init PROVE Inv
  OBVIOUS
<1>1. TypeOK
  BY IdleFacts, NumbersAssumption DEF Init, TypeOK
<1>2. ASSUME NEW r \in Runs PROVE OnceInv(r)
  <2>1. Written(r)
    BY DEF Init, Written
  <2> QED
    BY <2>1, IdleFacts DEF Init, OnceInv, InHandOnce, ToComeOnce, Transport, FromLoaded
<1> QED
  BY <1>1, <1>2 DEF Inv

LEMMA StartInv ==
  ASSUME Inv, NEW r \in Runs, NEW via \in {"sync", "batch"}, NEW n, Start(r, via, n)
  PROVE  Inv'
<1> DEFINE l == [Idle EXCEPT !.pc = IF via = "sync" THEN "documents" ELSE "build",
                             !.via = via, !.loaded = Pending(n), !.queue = Pending(n)]
<1>1. Pending(n) \subseteq Documents
  BY PendingIsFresh DEF Inv
<1>2. /\ l \in Local /\ l.pc = (IF via = "sync" THEN "documents" ELSE "build")
      /\ l.via = via /\ l.queue = Pending(n) /\ l.loaded = Pending(n) /\ l.todo = {}
      /\ l.results = [w \in Windows |-> NoResult]
  BY <1>1, IdleFacts, NumbersAssumption DEF Idle, Local, PcValues
<1>3. Becomes(r, l) /\ UNCHANGED <<calls, claims, crashes>>
  BY DEF Start
<1>4. \A d \in Pending(n) : \A w \in WindowsOf(d) : Fresh(r, w)'
  BY <1>3, PendingIsFresh DEF Inv, Fresh
<1> HIDE DEF l
<1>5. crashes' \in 0..MaxCrashes /\ l.pc \notin {"confirm", "call", "claims"}
  BY <1>2, <1>3 DEF Inv, TypeOK
<1>6. run'[r] = l
  BY <1>2, <1>3, <1>5, LocalStep
<1>7. InHandOnce(r)' /\ ToComeOnce(r)' /\ Transport(r)' /\ FromLoaded(r)'
  BY <1>2, <1>4, <1>6 DEF InHandOnce, ToComeOnce, Transport, FromLoaded, Answered
<1> QED
  BY <1>2, <1>3, <1>5, <1>7, LocalStep
LEMMA SyncStepInv ==
  ASSUME Inv, NEW r \in Runs, SyncStep(r)
  PROVE  Inv'
<1>a. OnceInv(r) /\ run[r] \in Local
  BY DEF Inv, TypeOK
<1>b. UNCHANGED <<calls, claims, crashes>> /\ crashes' \in 0..MaxCrashes
  BY DEF Inv, TypeOK, SyncStep, NextDocument, SkipDocument, EndDocument, FailDocument, Extract, Confirm
<1>1. CASE NextDocument(r)
  <2>a. PICK d \in Latest(run[r].queue) :
          Becomes(r, [run[r] EXCEPT !.pc = "windows", !.queue = @ \ {d}, !.todo = WindowsOf(d)])
    BY <1>1 DEF NextDocument
  <2>b. d \in run[r].queue /\ d \in Documents
    BY <1>a DEF Latest, Local
  <2> DEFINE l == [run[r] EXCEPT !.pc = "windows", !.queue = @ \ {d}, !.todo = WindowsOf(d)]
  <2>1. /\ l \in Local /\ l.loaded = run[r].loaded
        /\ l.pc = "windows" /\ l.via = run[r].via /\ l.queue = run[r].queue \ {d}
        /\ l.todo = WindowsOf(d)
    BY <1>a, NumbersAssumption, <2>b, WindowFacts DEF Local, PcValues
  <2>2. Becomes(r, l)
    BY <2>a, Zenon DEF NextDocument, Goto
  <2> HIDE DEF l
  <2>3. l.pc \in {"confirm", "call", "claims"} => l.win \in Windows
    BY <1>1, <2>1, <2>b, WindowFacts DEF NextDocument, At
  <2>4. run'[r] = l
    BY <1>b, <2>1, <2>2, <2>3, LocalStep
  <2>5. InHandOnce(r)' /\ ToComeOnce(r)' /\ Transport(r)' /\ FromLoaded(r)'
    BY <1>1, <1>a, <1>b, <2>1, <2>4, <2>b, WindowFacts
    DEF OnceInv, InHandOnce, ToComeOnce, Transport, FromLoaded, Fresh, NextDocument, At
  <2> QED
    BY <1>b, <2>1, <2>2, <2>3, <2>5, LocalStep
<1>2. CASE SkipDocument(r)
  <2>a. PICK d \in Latest(run[r].queue) : Becomes(r, [run[r] EXCEPT !.queue = @ \ {d}, !.erred = TRUE])
    BY <1>2 DEF SkipDocument
  <2>b. run[r].pc = "documents"
    BY <1>2 DEF SkipDocument, At
  <2> DEFINE l == [run[r] EXCEPT !.queue = @ \ {d}, !.erred = TRUE]
  <2>1. /\ l \in Local /\ l.loaded = run[r].loaded
        /\ l.queue = run[r].queue \ {d} /\ l.pc = "documents" /\ l.via = run[r].via
        /\ l.todo = run[r].todo
    BY <1>a, NumbersAssumption, <2>b DEF Local, PcValues
  <2>2. Becomes(r, l)
    BY <2>a, Zenon DEF SkipDocument, Goto
  <2> HIDE DEF l
  <2>3. l.pc \in {"confirm", "call", "claims"} => l.win \in Windows
    BY <1>2, <2>1, <2>b DEF SkipDocument, At
  <2>4. run'[r] = l
    BY <1>b, <2>1, <2>2, <2>3, LocalStep
  <2>5. InHandOnce(r)' /\ ToComeOnce(r)' /\ Transport(r)' /\ FromLoaded(r)'
    BY <1>2, <1>a, <1>b, <2>1, <2>4, <2>b
    DEF OnceInv, InHandOnce, ToComeOnce, Transport, FromLoaded, Fresh, SkipDocument, At
  <2> QED
    BY <1>b, <2>1, <2>2, <2>3, <2>5, LocalStep
<1>3. CASE EndDocument(r)
  <2> DEFINE l == [run[r] EXCEPT !.pc = "documents"]
  <2>1. /\ l \in Local /\ l.loaded = run[r].loaded
        /\ l.pc = "documents" /\ l.via = run[r].via /\ l.queue = run[r].queue
        /\ l.todo = run[r].todo
    BY <1>a, NumbersAssumption DEF Local, PcValues
  <2>2. Becomes(r, l)
    BY <1>3, Zenon DEF EndDocument, Goto
  <2> HIDE DEF l
  <2>3. l.pc \in {"confirm", "call", "claims"} => l.win \in Windows
    BY <1>3, <2>1 DEF EndDocument, At
  <2>4. run'[r] = l
    BY <1>b, <2>1, <2>2, <2>3, LocalStep
  <2>5. InHandOnce(r)' /\ ToComeOnce(r)' /\ Transport(r)' /\ FromLoaded(r)'
    BY <1>3, <1>a, <1>b, <2>1, <2>4
    DEF OnceInv, InHandOnce, ToComeOnce, Transport, FromLoaded, Fresh, EndDocument, At
  <2> QED
    BY <1>b, <2>1, <2>2, <2>3, <2>5, LocalStep
<1>4. CASE FailDocument(r)
  <2> DEFINE l == [run[r] EXCEPT !.pc = "documents", !.todo = {}, !.win = NoWindow, !.erred = TRUE]
  <2>1. /\ l \in Local /\ l.loaded = run[r].loaded
        /\ l.pc = "documents" /\ l.todo = {} /\ l.via = run[r].via /\ l.queue = run[r].queue
    BY <1>a, NumbersAssumption DEF Local, PcValues
  <2>2. Becomes(r, l)
    BY <1>4, Zenon DEF FailDocument, Goto
  <2> HIDE DEF l
  <2>3. l.pc \in {"confirm", "call", "claims"} => l.win \in Windows
    BY <1>4, <2>1 DEF FailDocument, At
  <2>4. run'[r] = l
    BY <1>b, <2>1, <2>2, <2>3, LocalStep
  <2>5. InHandOnce(r)' /\ ToComeOnce(r)' /\ Transport(r)' /\ FromLoaded(r)'
    BY <1>4, <1>a, <1>b, <2>1, <2>4
    DEF OnceInv, InHandOnce, ToComeOnce, Transport, FromLoaded, Fresh, FailDocument, At, Synchronous
  <2> QED
    BY <1>b, <2>1, <2>2, <2>3, <2>5, LocalStep
<1>5. CASE Extract(r)
  <2>a. PICK w \in FirstOf(run[r].todo, 1) : \E answer \in Answers[w[1]], p \in {"confirm", "call"} :
          Becomes(r, [run[r] EXCEPT !.pc = p, !.todo = @ \ {w}, !.win = w,
                                    !.results[w] = First(answer)])
    BY <1>5 DEF Extract
  <2>b. PICK answer \in Answers[w[1]], p \in {"confirm", "call"} :
          Becomes(r, [run[r] EXCEPT !.pc = p, !.todo = @ \ {w}, !.win = w,
                                    !.results[w] = First(answer)])
    BY <2>a
  <2>c. w \in run[r].todo /\ w \in Windows
    BY <1>a, FirstOfIsSubset DEF Local
  <2>d. First(answer) \in Results
    BY <2>c, AnswerTypes
  <2> DEFINE l == [run[r] EXCEPT !.pc = p, !.todo = @ \ {w}, !.win = w, !.results[w] = First(answer)]
  <2>1. /\ l \in Local /\ l.loaded = run[r].loaded
        /\ l.pc = p /\ l.todo = run[r].todo \ {w} /\ l.win = w /\ l.via = run[r].via
        /\ l.queue = run[r].queue
    BY <1>a, NumbersAssumption, <2>c, <2>d DEF Local, PcValues
  <2>2. Becomes(r, l)
    BY <2>b, Zenon DEF Extract, Goto
  <2> HIDE DEF l
  <2>3. l.pc \in {"confirm", "call", "claims"} => l.win \in Windows
    BY <1>5, <2>1, <2>c, <2>d DEF Extract, At
  <2>4. run'[r] = l
    BY <1>b, <2>1, <2>2, <2>3, LocalStep
  <2>5. InHandOnce(r)' /\ ToComeOnce(r)' /\ Transport(r)' /\ FromLoaded(r)'
    BY <1>5, <1>a, <1>b, <2>1, <2>4, <2>c, <2>d
    DEF OnceInv, InHandOnce, ToComeOnce, Transport, FromLoaded, Fresh, Extract, At
  <2> QED
    BY <1>b, <2>1, <2>2, <2>3, <2>5, LocalStep
<1>6. CASE Confirm(r)
  <2>a. PICK answer \in Answers[run[r].win[1]] :
          Becomes(r, [run[r] EXCEPT !.pc = "call", !.results[run[r].win] = Second(@, answer)])
    BY <1>6 DEF Confirm
  <2>b. run[r].win \in Windows
    BY <1>6 DEF Inv, TypeOK, Confirm, At
  <2>c. Second(run[r].results[run[r].win], answer) \in Results
    BY <1>a, <2>b, AnswerTypes DEF Local
  <2> DEFINE l == [run[r] EXCEPT !.pc = "call", !.results[run[r].win] = Second(@, answer)]
  <2>1. /\ l \in Local /\ l.loaded = run[r].loaded
        /\ l.pc = "call" /\ l.via = run[r].via /\ l.queue = run[r].queue
        /\ l.todo = run[r].todo /\ l.win = run[r].win
    BY <1>a, NumbersAssumption, <2>b, <2>c DEF Local, PcValues
  <2>2. Becomes(r, l)
    BY <2>a, Zenon DEF Confirm, Goto
  <2> HIDE DEF l
  <2>3. l.pc \in {"confirm", "call", "claims"} => l.win \in Windows
    BY <1>6, <2>1, <2>b, <2>c DEF Confirm, At
  <2>4. run'[r] = l
    BY <1>b, <2>1, <2>2, <2>3, LocalStep
  <2>5. InHandOnce(r)' /\ ToComeOnce(r)' /\ Transport(r)' /\ FromLoaded(r)'
    BY <1>6, <1>a, <1>b, <2>1, <2>4, <2>b, <2>c
    DEF OnceInv, InHandOnce, ToComeOnce, Transport, FromLoaded, Fresh, Confirm, At
  <2> QED
    BY <1>b, <2>1, <2>2, <2>3, <2>5, LocalStep
<1> QED
  BY <1>1, <1>2, <1>3, <1>4, <1>5, <1>6 DEF SyncStep

LEMMA BatchStepInv ==
  ASSUME Inv, NEW r \in Runs, BatchStep(r)
  PROVE  Inv'
<1>a. OnceInv(r) /\ run[r] \in Local
  BY DEF Inv, TypeOK
<1>b. UNCHANGED <<calls, claims, crashes>> /\ crashes' \in 0..MaxCrashes
  BY DEF Inv, TypeOK, BatchStep, Build, Submit, Poll, TimeOut, SecondRound, EndRounds, FailRun,
         Collect, NextResult, Goto
<1>1. CASE \E unread \in SUBSET run[r].queue : Build(r, unread)
  <2>a. PICK unread \in SUBSET run[r].queue : Build(r, unread)
    BY <1>1
  <2> DEFINE todo == UNION {WindowsOf(d) : d \in run[r].queue \ unread}
  <2>b. todo \subseteq Windows /\ \A w \in todo : w[1] \in run[r].queue /\ w \in WindowsOf(w[1])
    BY <1>a, WindowFacts DEF Local
  <2>c. Becomes(r, [run[r] EXCEPT !.pc = IF todo = {} THEN "persist" ELSE "submit", !.queue = {},
                                  !.todo = todo, !.erred = (unread # {})])
    BY <2>a, Zenon DEF Build
  <2> HIDE DEF todo
  <2> DEFINE l == [run[r] EXCEPT !.pc = IF todo = {} THEN "persist" ELSE "submit", !.queue = {},
                            !.todo = todo, !.erred = (unread # {})]
  <2>1. /\ l \in Local /\ l.loaded = run[r].loaded
        /\ l.pc \in {"persist", "submit"} /\ l.queue = {} /\ l.todo = todo
        /\ l.via = run[r].via /\ l.results = run[r].results
    BY <1>a, NumbersAssumption, <2>a, <2>b DEF Local, PcValues
  <2>2. Becomes(r, l)
    BY <2>c, Zenon DEF Build, Goto
  <2> HIDE DEF l
  <2>3. l.pc \in {"confirm", "call", "claims"} => l.win \in Windows
    BY <1>1, <2>1, <2>a, <2>b DEF Build, At
  <2>4. run'[r] = l
    BY <1>b, <2>1, <2>2, <2>3, LocalStep
  <2>5. InHandOnce(r)' /\ ToComeOnce(r)' /\ Transport(r)' /\ FromLoaded(r)'
    BY <1>1, <1>a, <1>b, <2>1, <2>4, <2>a, <2>b
    DEF OnceInv, InHandOnce, ToComeOnce, Transport, FromLoaded, Fresh, Build, At, Answered
  <2> QED
    BY <1>b, <2>1, <2>2, <2>3, <2>5, LocalStep
<1>2. CASE Submit(r)
  <2> DEFINE batch == FirstOf(run[r].todo, Chunk)
  <2>a. batch \subseteq run[r].todo
    BY FirstOfIsSubset
  <2>b. Becomes(r, [run[r] EXCEPT !.pc = "wait", !.waited = 0, !.batch = batch])
    BY <1>2, Zenon DEF Submit
  <2> HIDE DEF batch
  <2> DEFINE l == [run[r] EXCEPT !.pc = "wait", !.waited = 0, !.batch = batch]
  <2>1. /\ l \in Local /\ l.loaded = run[r].loaded
        /\ l.pc = "wait" /\ l.batch \subseteq run[r].todo /\ l.via = run[r].via
        /\ l.queue = run[r].queue /\ l.todo = run[r].todo /\ l.results = run[r].results
    <3>1. batch \in SUBSET Windows /\ 0 \in 0..Timeout
      BY <1>a, NumbersAssumption, <2>a DEF Local
    <3> QED
      BY <1>a, <2>a, <3>1 DEF Local, PcValues
  <2>2. Becomes(r, l)
    BY <2>b, Zenon DEF Submit, Goto
  <2> HIDE DEF l
  <2>3. l.pc \in {"confirm", "call", "claims"} => l.win \in Windows
    BY <2>1
  <2>4. run'[r] = l
    BY <1>b, <2>1, <2>2, <2>3, LocalStep
  <2>5. InHandOnce(r)' /\ ToComeOnce(r)' /\ Transport(r)' /\ FromLoaded(r)'
    BY <1>2, <1>a, <1>b, <2>1, <2>4, <2>a
    DEF OnceInv, InHandOnce, ToComeOnce, Transport, FromLoaded, Fresh, Submit, At, Answered
  <2> QED
    BY <1>b, <2>1, <2>2, <2>3, <2>5, LocalStep
<1>3. CASE Poll(r)
  <2>a. run[r].pc = "wait" /\ run[r].waited + 1 \in 0..Timeout
    BY <1>3, <1>a, NumbersAssumption DEF Local, Poll, At
  <2> DEFINE l == [run[r] EXCEPT !.waited = @ + 1]
  <2>1. /\ l \in Local /\ l.loaded = run[r].loaded
        /\ l.pc = "wait" /\ l.via = run[r].via /\ l.queue = run[r].queue
        /\ l.todo = run[r].todo /\ l.results = run[r].results /\ l.batch = run[r].batch
    BY <1>a, NumbersAssumption, <2>a DEF Local, PcValues
  <2>2. Becomes(r, l)
    BY <1>3, Zenon DEF Poll, Goto
  <2> HIDE DEF l
  <2>3. l.pc \in {"confirm", "call", "claims"} => l.win \in Windows
    BY <1>3, <2>1, <2>a DEF Poll, At
  <2>4. run'[r] = l
    BY <1>b, <2>1, <2>2, <2>3, LocalStep
  <2>5. InHandOnce(r)' /\ ToComeOnce(r)' /\ Transport(r)' /\ FromLoaded(r)'
    BY <1>3, <1>a, <1>b, <2>1, <2>4, <2>a
    DEF OnceInv, InHandOnce, ToComeOnce, Transport, FromLoaded, Fresh, Poll, At, Answered
  <2> QED
    BY <1>b, <2>1, <2>2, <2>3, <2>5, LocalStep
<1>4. CASE TimeOut(r)
  BY <1>4, <1>b, Stops DEF TimeOut
<1>5. CASE SecondRound(r)
  <2>a. run[r].pc = "submit" /\ Found(r) \subseteq Answered(r) /\ Found(r) \subseteq Windows
    BY <1>5 DEF SecondRound, At, Found, Answered
  <2> DEFINE l == [run[r] EXCEPT !.round = 2, !.todo = Found(r)]
  <2>1. /\ l \in Local /\ l.loaded = run[r].loaded
        /\ l.pc = "submit" /\ l.todo = Found(r) /\ l.via = run[r].via
        /\ l.queue = run[r].queue /\ l.results = run[r].results
    BY <1>a, NumbersAssumption, <2>a DEF Local, PcValues
  <2>2. Becomes(r, l)
    BY <1>5, Zenon DEF SecondRound, Goto
  <2> HIDE DEF l
  <2>3. l.pc \in {"confirm", "call", "claims"} => l.win \in Windows
    BY <1>5, <2>1, <2>a DEF SecondRound, At
  <2>4. run'[r] = l
    BY <1>b, <2>1, <2>2, <2>3, LocalStep
  <2>5. InHandOnce(r)' /\ ToComeOnce(r)' /\ Transport(r)' /\ FromLoaded(r)'
    BY <1>5, <1>a, <1>b, <2>1, <2>4, <2>a
    DEF OnceInv, InHandOnce, ToComeOnce, Transport, FromLoaded, Fresh, SecondRound, At, Answered
  <2> QED
    BY <1>b, <2>1, <2>2, <2>3, <2>5, LocalStep
<1>6. CASE EndRounds(r)
  <2>a. run[r].pc = "submit" /\ Answered(r) \subseteq Windows
    BY <1>6 DEF EndRounds, At, Answered
  <2> DEFINE l == [run[r] EXCEPT !.pc = "persist", !.todo = Answered(r)]
  <2>1. /\ l \in Local /\ l.loaded = run[r].loaded
        /\ l.pc = "persist" /\ l.todo = Answered(r) /\ l.via = run[r].via
        /\ l.queue = run[r].queue
    BY <1>a, NumbersAssumption, <2>a DEF Local, PcValues
  <2>2. Becomes(r, l)
    BY <1>6, Zenon DEF EndRounds, Goto
  <2> HIDE DEF l
  <2>3. l.pc \in {"confirm", "call", "claims"} => l.win \in Windows
    BY <1>6, <2>1, <2>a DEF EndRounds, At
  <2>4. run'[r] = l
    BY <1>b, <2>1, <2>2, <2>3, LocalStep
  <2>5. InHandOnce(r)' /\ ToComeOnce(r)' /\ Transport(r)' /\ FromLoaded(r)'
    BY <1>6, <1>a, <1>b, <2>1, <2>4, <2>a
    DEF OnceInv, InHandOnce, ToComeOnce, Transport, FromLoaded, Fresh, EndRounds, At
  <2> QED
    BY <1>b, <2>1, <2>2, <2>3, <2>5, LocalStep
<1>7. CASE FailRun(r)
  BY <1>7, <1>b, Stops DEF FailRun
<1>8. CASE \E failed \in SUBSET run[r].batch :
           \E answer \in AnswersTo(run[r].batch \ failed) : Collect(r, failed, answer)
  <2>f. PICK failed \in SUBSET run[r].batch :
          \E answer \in AnswersTo(run[r].batch \ failed) : Collect(r, failed, answer)
    BY <1>8
  <2>a. PICK answer \in AnswersTo(run[r].batch \ failed) : Collect(r, failed, answer)
    BY <2>f
  <2> DEFINE results == Collected(r, run[r].batch \ failed, answer)
  <2>b. results \in [Windows -> Results \cup {NoResult}]
    <3>1. ASSUME NEW w \in run[r].batch \ failed PROVE w \in Windows /\ answer[w] \in Answers[w[1]]
      BY <1>a, <2>a DEF Local, AnswersTo
    <3>2. \A w \in run[r].batch \ failed :
            First(answer[w]) \in Results /\ Second(run[r].results[w], answer[w]) \in Results
      BY <1>a, <3>1, AnswerTypes DEF Local
    <3> QED
      BY <1>a, <3>2 DEF Local, Collected
  <2>c. /\ run[r].pc = "wait"
        /\ \A w \in Windows : results[w] # NoResult => w \in Answered(r) \cup run[r].batch
    BY <2>a DEF Collect, At, Collected, Answered
  <2>d. Becomes(r, [run[r] EXCEPT !.pc = "submit", !.todo = @ \ run[r].batch, !.batch = {},
                                  !.results = results, !.erred = @ \/ failed # {}])
    BY <2>a, Zenon DEF Collect
  <2> HIDE DEF results
  <2> DEFINE l == [run[r] EXCEPT !.pc = "submit", !.todo = @ \ run[r].batch, !.batch = {},
                            !.results = results, !.erred = @ \/ failed # {}]
  <2>1. /\ l \in Local /\ l.loaded = run[r].loaded
        /\ l.pc = "submit" /\ l.todo = run[r].todo \ run[r].batch /\ l.results = results
        /\ l.via = run[r].via /\ l.queue = run[r].queue
    BY <1>a, NumbersAssumption, <2>b, <2>c DEF Local, PcValues
  <2>2. Becomes(r, l)
    BY <2>d, Zenon DEF Goto
  <2> HIDE DEF l
  <2>3. l.pc \in {"confirm", "call", "claims"} => l.win \in Windows
    BY <1>8, <2>1, <2>b, <2>c DEF At
  <2>4. run'[r] = l
    BY <1>b, <2>1, <2>2, <2>3, LocalStep
  <2>5. InHandOnce(r)' /\ ToComeOnce(r)' /\ Transport(r)' /\ FromLoaded(r)'
    BY <1>8, <1>a, <1>b, <2>1, <2>4, <2>b, <2>c
    DEF OnceInv, InHandOnce, ToComeOnce, Transport, FromLoaded, Fresh, At, Answered
  <2> QED
    BY <1>b, <2>1, <2>2, <2>3, <2>5, LocalStep
<1>9. CASE \E w \in run[r].todo : NextResult(r, w)
  <2>a. PICK w \in run[r].todo : NextResult(r, w)
    BY <1>9
  <2>b. w \in Windows /\ run[r].pc = "persist"
    BY <1>a, <2>a DEF Local, NextResult, At
  <2> DEFINE l == [run[r] EXCEPT !.pc = "call", !.todo = @ \ {w}, !.win = w]
  <2>1. /\ l \in Local /\ l.loaded = run[r].loaded
        /\ l.pc = "call" /\ l.todo = run[r].todo \ {w} /\ l.win = w /\ l.via = run[r].via
        /\ l.queue = run[r].queue
    BY <1>a, NumbersAssumption, <2>b DEF Local, PcValues
  <2>2. Becomes(r, l)
    BY <2>a, Zenon DEF NextResult, Goto
  <2> HIDE DEF l
  <2>3. l.pc \in {"confirm", "call", "claims"} => l.win \in Windows
    BY <1>9, <2>1, <2>b DEF NextResult, At
  <2>4. run'[r] = l
    BY <1>b, <2>1, <2>2, <2>3, LocalStep
  <2>5. InHandOnce(r)' /\ ToComeOnce(r)' /\ Transport(r)' /\ FromLoaded(r)'
    BY <1>9, <1>a, <1>b, <2>1, <2>4, <2>b
    DEF OnceInv, InHandOnce, ToComeOnce, Transport, FromLoaded, Fresh, NextResult, At
  <2> QED
    BY <1>b, <2>1, <2>2, <2>3, <2>5, LocalStep
<1> QED
  BY <1>1, <1>2, <1>3, <1>4, <1>5, <1>6, <1>7, <1>8, <1>9 DEF BatchStep

LEMMA PersistCallInv ==
  ASSUME Inv, NEW r \in Runs, PersistCall(r)
  PROVE  Inv'
<1> DEFINE w == run[r].win
<1>1. OnceInv(r) /\ run[r] \in Local /\ run[r].pc = "call" /\ w \in Windows
  BY DEF Inv, TypeOK, PersistCall, At
<1>2. run' = [run EXCEPT ![r] = [run[r] EXCEPT !.pc = "claims"]] /\ UNCHANGED <<claims, crashes>>
  BY Zenon DEF PersistCall, Goto, Becomes
<1>3. /\ run' \in [Runs -> Local]
      /\ \A s \in Runs \ {r} : run'[s] = run[s]
      /\ run'[r].pc = "claims" /\ run'[r].win = w
      /\ run'[r].todo = run[r].todo /\ run'[r].queue = run[r].queue
      /\ run'[r].loaded = run[r].loaded /\ run'[r].via = run[r].via
  BY <1>1, <1>2 DEF Inv, TypeOK, Local, PcValues
<1>4. PICK c \in Seq({1, 2}) : Len(c) <= 1 /\ calls' = [calls EXCEPT ![r][w] = c]
  <2>1. CASE Result(r).call # "accepted"
    <3>1. calls[r] \in [Windows -> Seq({1, 2})] /\ Len(calls[r][w]) <= 1
      BY <1>1 DEF Inv, TypeOK, OnceInv, Written
    <3>2. calls' = [calls EXCEPT ![r][w] = calls[r][w]]
      BY <2>1, <3>1, Zenon DEF PersistCall, Inv, TypeOK
    <3> QED
      BY <1>1, <3>1, <3>2
  <2>2. CASE Result(r).call = "accepted"
    <3>1. calls' = [calls EXCEPT ![r][w] = Append(@, Result(r).pass)]
      BY <2>2 DEF PersistCall
    <3>2. calls[r][w] = << >>
      BY <1>1 DEF OnceInv, InHandOnce, Fresh
    <3>3. Result(r).pass \in {1, 2}
      BY <1>1, <2>2 DEF Local, Result, Results, NoResult
    <3>4. /\ Append(<< >>, Result(r).pass) \in Seq({1, 2})
          /\ Len(Append(<< >>, Result(r).pass)) = 1
      BY <3>3
    <3>5. calls' = [calls EXCEPT ![r][w] = Append(<< >>, Result(r).pass)]
      BY <3>1, <3>2, Zenon
    <3> DEFINE c == Append(<< >>, Result(r).pass)
    <3>6. c \in Seq({1, 2}) /\ Len(c) <= 1 /\ calls' = [calls EXCEPT ![r][w] = c]
      BY <3>4, <3>5
    <3> HIDE DEF c, w
    <3> QED
      BY <3>6
  <2> QED
    BY <2>1, <2>2
<1> HIDE DEF w
<1>5. /\ calls' \in [Runs -> [Windows -> Seq({1, 2})]]
      /\ \A s \in Runs \ {r} : calls'[s] = calls[s]
      /\ calls'[r][w] = c
      /\ \A v \in Windows \ {w} : calls'[r][v] = calls[r][v]
  BY <1>1, <1>4 DEF Inv, TypeOK
<1>6. TypeOK'
  BY <1>1, <1>2, <1>3, <1>5 DEF Inv, TypeOK
<1>7. Written(r)'
  BY <1>1, <1>2, <1>4, <1>5 DEF OnceInv, Written
<1>8. \A v \in Windows : v # w /\ Fresh(r, v) => Fresh(r, v)'
  BY <1>2, <1>5 DEF Fresh
<1>9. InHandOnce(r)' /\ Transport(r)' /\ FromLoaded(r)'
  BY <1>1, <1>2, <1>3 DEF w, OnceInv, InHandOnce, Transport, FromLoaded, Fresh
<1>10. ToComeOnce(r)'
  <2>1. \A d \in run[r].queue : d \in Documents /\ \A v \in WindowsOf(d) : Fresh(r, v)'
    BY <1>1, <1>8, WindowFacts DEF w, OnceInv, InHandOnce, ToComeOnce, Local
  <2>2. \A v \in run[r].todo : Fresh(r, v)' /\ v[1] \notin run[r].queue
    BY <1>1, <1>8 DEF w, OnceInv, InHandOnce, ToComeOnce, Local
  <2> QED
    BY <1>3, <2>1, <2>2 DEF ToComeOnce
<1> QED
  BY <1>2, <1>3, <1>5, <1>6, <1>7, <1>9, <1>10, OtherRuns DEF OnceInv

LEMMA PersistClaimsInv ==
  ASSUME Inv, NEW r \in Runs, PersistClaims(r)
  PROVE  Inv'
<1> DEFINE w == run[r].win
<1>1. OnceInv(r) /\ run[r] \in Local /\ run[r].pc = "claims" /\ w \in Windows
  BY DEF Inv, TypeOK, PersistClaims, At
<1>2. /\ run' = [run EXCEPT ![r] = [run[r] EXCEPT
                   !.pc = IF Synchronous(r) THEN "windows" ELSE "persist", !.win = NoWindow]]
      /\ UNCHANGED <<calls, crashes>>
  BY Zenon DEF PersistClaims, Becomes
<1>3. /\ run' \in [Runs -> Local]
      /\ \A s \in Runs \ {r} : run'[s] = run[s]
      /\ run'[r].pc = (IF Synchronous(r) THEN "windows" ELSE "persist")
      /\ run'[r].todo = run[r].todo /\ run'[r].queue = run[r].queue
      /\ run'[r].loaded = run[r].loaded /\ run'[r].via = run[r].via
  BY <1>1, <1>2 DEF Inv, TypeOK, Local, PcValues
<1>4. PICK m \in {0, 1} : claims' = [claims EXCEPT ![r][w] = m]
  <2>1. claims[r] \in [Windows -> Nat] /\ claims[r][w] = 0
    BY <1>1 DEF Inv, TypeOK, OnceInv, InHandOnce
  <2>2. CASE Result(r).claims = "none"
    <3>1. claims' = [claims EXCEPT ![r][w] = claims[r][w]]
      BY <2>1, <2>2, Zenon DEF PersistClaims, Inv, TypeOK
    <3> QED
      BY <2>1, <3>1
  <2>3. CASE Result(r).claims # "none"
    <3>1. claims' = [claims EXCEPT ![r][w] = claims[r][w] + 1]
      BY <2>3 DEF PersistClaims
    <3> QED
      BY <2>1, <3>1
  <2> QED
    BY <2>2, <2>3
<1> HIDE DEF w
<1>5. /\ claims' \in [Runs -> [Windows -> Nat]]
      /\ \A s \in Runs \ {r} : claims'[s] = claims[s]
      /\ claims'[r][w] = m
      /\ \A v \in Windows \ {w} : claims'[r][v] = claims[r][v]
  BY <1>1, <1>4 DEF Inv, TypeOK
<1>6. TypeOK'
  BY <1>1, <1>2, <1>3, <1>5 DEF Inv, TypeOK
<1>7. Written(r)'
  BY <1>1, <1>2, <1>4, <1>5 DEF OnceInv, Written
<1>8. \A v \in Windows : v # w /\ Fresh(r, v) => Fresh(r, v)'
  BY <1>2, <1>5 DEF Fresh
<1>9. InHandOnce(r)' /\ Transport(r)' /\ FromLoaded(r)'
  BY <1>1, <1>3 DEF OnceInv, InHandOnce, Transport, FromLoaded, Synchronous, Local
<1>10. ToComeOnce(r)'
  <2>1. \A d \in run[r].queue : d \in Documents /\ \A v \in WindowsOf(d) : Fresh(r, v)'
    BY <1>1, <1>8, WindowFacts DEF w, OnceInv, InHandOnce, ToComeOnce, Local
  <2>2. \A v \in run[r].todo : Fresh(r, v)' /\ v[1] \notin run[r].queue
    BY <1>1, <1>8 DEF w, OnceInv, InHandOnce, ToComeOnce, Local
  <2> QED
    BY <1>3, <2>1, <2>2 DEF ToComeOnce
<1> QED
  BY <1>2, <1>3, <1>5, <1>6, <1>7, <1>9, <1>10, OtherRuns DEF OnceInv

LEMMA NextInv == Inv /\ [Next]_vars => Inv'
<1> SUFFICES ASSUME Inv, [Next]_vars PROVE Inv'
  OBVIOUS
<1>1. CASE StartDaily
  BY <1>1, StartInv, CronAssumption DEF StartDaily
<1>2. ASSUME NEW r \in Runs \ {Cron}, StartByHand(r) PROVE Inv'
  BY <1>2, StartInv DEF StartByHand
<1>3. ASSUME NEW r \in Runs, Step(r) PROVE Inv'
  <2>1. CASE Return(r)
    BY <2>1, Stops DEF Return, Inv, TypeOK
  <2> QED
    BY <1>3, <2>1, SyncStepInv, BatchStepInv, PersistCallInv, PersistClaimsInv DEF Step
<1>4. ASSUME NEW r \in Runs, Crash(r) PROVE Inv'
  <2>1. crashes' \in 0..MaxCrashes
    BY <1>4, NumbersAssumption DEF Crash, Inv, TypeOK
  <2> QED
    BY <1>4, <2>1, Stops DEF Crash
<1>5. CASE UNCHANGED vars
  <2>1. TypeOK'
    BY <1>5 DEF vars, Inv, TypeOK
  <2>2. \A r \in Runs : OnceInv(r)'
    BY <1>5 DEF vars, Inv, OnceInv, Written, InHandOnce, ToComeOnce, Transport, FromLoaded, Fresh,
                Answered
  <2> QED
    BY <2>1, <2>2 DEF Inv
<1> QED
  BY <1>1, <1>2, <1>3, <1>4, <1>5 DEF Next
-----------------------------------------------------------------------------
\* Types: what the database and the local state of a run are made of, whatever
\* fails, dies and overlaps.
THEOREM ExtractionTypeCorrect == Spec => []TypeOK
<1>1. Inv => TypeOK
  BY DEF Inv
<1> QED
  BY <1>1, InitInv, NextInv, PTL DEF Spec

\* However many runs there are, and however often they are killed, fail and are
\* started again, each of them writes the rows of a window at most once.
THEOREM RowsAreWrittenOnce == Spec => []EachRunWritesOnce
<1>1. Inv => EachRunWritesOnce
  BY DEF Inv, OnceInv, Written, EachRunWritesOnce
<1> QED
  BY <1>1, InitInv, NextInv, PTL DEF Spec
-----------------------------------------------------------------------------
SameRows(d) ==
  \A r \in Runs : \A w \in WindowsOf(d) :
    calls'[r][w] = calls[r][w] /\ claims'[r][w] = claims[r][w]

\* What a run writes is about a document that it loaded.
LEMMA PersistsTheLoaded ==
  ASSUME Inv, NEW q \in Runs, PersistCall(q) \/ PersistClaims(q),
         NEW d \in Documents, ~ InHand(q, d)
  PROVE  SameRows(d)
<1> DEFINE win == run[q].win
<1>1. win[1] \in run[q].loaded /\ ~ At(q, "idle")
  BY DEF Inv, OnceInv, FromLoaded, PersistCall, PersistClaims, At
<1>2. \A w \in WindowsOf(d) : w # win
  BY <1>1, WindowFacts DEF InHand
<1>3. \/ calls' = calls
      \/ calls' = [calls EXCEPT ![q][win] = Append(calls[q][win], Result(q).pass)]
  BY Zenon DEF PersistCall, PersistClaims
<1>4. \/ claims' = claims
      \/ claims' = [claims EXCEPT ![q][win] = claims[q][win] + 1]
  BY Zenon DEF PersistCall, PersistClaims
<1> DEFINE row == Append(calls[q][win], Result(q).pass)
<1> DEFINE count == claims[q][win] + 1
<1> HIDE DEF win, row, count
<1>5. SUFFICES ASSUME NEW r \in Runs, NEW w \in WindowsOf(d)
      PROVE  calls'[r][w] = calls[r][w] /\ claims'[r][w] = claims[r][w]
  BY DEF SameRows
<1>6. w \in Windows /\ w # win
  BY <1>2, WindowFacts
<1>7. calls \in [Runs -> [Windows -> Seq({1, 2})]] /\ claims \in [Runs -> [Windows -> Nat]]
  BY DEF Inv, TypeOK
<1>8. calls'[r][w] = calls[r][w]
  <2>1. CASE calls' = [calls EXCEPT ![q][win] = row]
    BY <1>6, <1>7, <2>1
  <2> QED
    BY <1>3, <2>1 DEF row
<1>9. claims'[r][w] = claims[r][w]
  <2>1. CASE claims' = [claims EXCEPT ![q][win] = count]
    BY <1>6, <1>7, <2>1
  <2> QED
    BY <1>4, <2>1 DEF count
<1> QED
  BY <1>8, <1>9

\* Every other step writes nothing.
LEMMA OnlyPersistingWrites ==
  ASSUME [Next]_vars, \A r \in Runs : ~ PersistCall(r) /\ ~ PersistClaims(r)
  PROVE  UNCHANGED <<calls, claims>>
<1>1. ASSUME NEW r \in Runs, SyncStep(r) PROVE UNCHANGED <<calls, claims>>
  BY <1>1 DEF SyncStep, NextDocument, SkipDocument, EndDocument, FailDocument, Extract, Confirm
<1>2. ASSUME NEW r \in Runs, BatchStep(r) PROVE UNCHANGED <<calls, claims>>
  BY <1>2 DEF BatchStep, Build, Submit, Poll, TimeOut, SecondRound, EndRounds, FailRun, Collect,
              NextResult
<1>3. ASSUME NEW r \in Runs, Step(r) PROVE UNCHANGED <<calls, claims>>
  BY <1>1, <1>2, <1>3 DEF Step, Return
<1>4. ASSUME StartDaily \/ \E r \in Runs : StartByHand(r) \/ Crash(r)
      PROVE  UNCHANGED <<calls, claims>>
  BY <1>4 DEF StartDaily, StartByHand, Start, Crash
<1> QED
  BY <1>3, <1>4 DEF Next, vars

\* A run that goes on, ends or dies loads nothing.
LEMMA OnlyStartLoads ==
  ASSUME Inv, NEW q \in Runs, Step(q) \/ Crash(q)
  PROVE  /\ run[q].pc # "idle" /\ run'[q].loaded \in {run[q].loaded, {}}
         /\ \A r \in Runs \ {q} : run'[r] = run[r]
<1> DEFINE Keeps == /\ run'[q].loaded \in {run[q].loaded, {}}
                    /\ \A r \in Runs \ {q} : run'[r] = run[r]
<1>a. run \in [Runs -> Local] /\ run[q] \in Local
  BY DEF Inv, TypeOK
<1>b. Idle.loaded = {}
  BY DEF Idle
<1> HIDE DEF Idle
<1>1. run[q].pc # "idle"
  <2>1. MayRaise(q) => run[q].pc # "idle"
    BY DEF MayRaise, At
  <2>2. CASE SyncStep(q)
    BY <2>1, <2>2 DEF SyncStep, NextDocument, SkipDocument, EndDocument, FailDocument, Extract,
                      Confirm, At
  <2>3. CASE BatchStep(q)
    BY <2>1, <2>3 DEF BatchStep, Build, Submit, Poll, TimeOut, SecondRound, EndRounds, FailRun,
                      Collect, NextResult, At
  <2> QED
    BY <2>2, <2>3 DEF Step, PersistCall, PersistClaims, Return, Crash, At
<1>2. ASSUME SyncStep(q) PROVE Keeps
  <2>1. CASE NextDocument(q)
    BY <1>a, <2>1 DEF NextDocument, Becomes, Local
  <2>2. CASE SkipDocument(q)
    BY <1>a, <2>2 DEF SkipDocument, Becomes, Local
  <2>3. CASE EndDocument(q)
    BY <1>a, <2>3 DEF EndDocument, Goto, Becomes, Local
  <2>4. CASE FailDocument(q)
    BY <1>a, <2>4 DEF FailDocument, Becomes, Local
  <2>5. CASE Extract(q)
    BY <1>a, <2>5 DEF Extract, Becomes, Local
  <2>6. CASE Confirm(q)
    BY <1>a, <2>6 DEF Confirm, Becomes, Local
  <2> QED
    BY <1>2, <2>1, <2>2, <2>3, <2>4, <2>5, <2>6 DEF SyncStep
<1>3. ASSUME BatchStep(q) PROVE Keeps
  <2>1. ASSUME NEW unread, Build(q, unread) PROVE Keeps
    BY <1>a, <2>1 DEF Build, Becomes, Local
  <2>2. CASE Submit(q)
    BY <1>a, <2>2 DEF Submit, Becomes, Local
  <2>3. CASE Poll(q)
    BY <1>a, <2>3 DEF Poll, Becomes, Local
  <2>4. CASE SecondRound(q)
    BY <1>a, <2>4 DEF SecondRound, Becomes, Local
  <2>5. CASE EndRounds(q)
    BY <1>a, <2>5 DEF EndRounds, Becomes, Local
  <2>6. CASE TimeOut(q) \/ FailRun(q)
    BY <1>a, <1>b, <2>6 DEF TimeOut, FailRun, Becomes
  <2>7. ASSUME NEW failed, NEW answer, Collect(q, failed, answer) PROVE Keeps
    BY <1>a, <2>7 DEF Collect, Becomes, Local
  <2>8. ASSUME NEW w, NextResult(q, w) PROVE Keeps
    BY <1>a, <2>8 DEF NextResult, Becomes, Local
  <2> QED
    BY <1>3, <2>1, <2>2, <2>3, <2>4, <2>5, <2>6, <2>7, <2>8 DEF BatchStep
<1>4. ASSUME PersistCall(q) \/ PersistClaims(q) \/ Return(q) \/ Crash(q) PROVE Keeps
  <2>1. CASE PersistCall(q)
    BY <1>a, <2>1 DEF PersistCall, Goto, Becomes, Local
  <2>2. CASE PersistClaims(q)
    BY <1>a, <2>2 DEF PersistClaims, Becomes, Local
  <2>3. CASE Return(q) \/ Crash(q)
    BY <1>a, <1>b, <2>3 DEF Return, Crash, Becomes
  <2> QED
    BY <1>4, <2>1, <2>2, <2>3
<1> QED
  BY <1>1, <1>2, <1>3, <1>4 DEF Step

\* And a run that starts leaves out what is processed.
LEMMA NoneLoadsTheSettled ==
  ASSUME Inv, [Next]_vars, NEW d \in Documents, Settled(d), NEW r \in Runs
  PROVE  ~ InHand(r, d)'
<1>1. ASSUME NEW q \in Runs, NEW via, NEW n, Start(q, via, n) PROVE ~ InHand(r, d)'
  <2>1. run \in [Runs -> Local] /\ d \notin Pending(n)
    BY DEF Inv, TypeOK, Pending, Newest, Settled
  <2> DEFINE l == [Idle EXCEPT !.pc = IF via = "sync" THEN "documents" ELSE "build", !.via = via,
                               !.loaded = Pending(n), !.queue = Pending(n)]
  <2>2. run' = [run EXCEPT ![q] = l]
    BY <1>1, Zenon DEF Start, Becomes
  <2>3. l.loaded = Pending(n)
    BY DEF Idle
  <2> HIDE DEF l
  <2> QED
    BY <2>1, <2>2, <2>3 DEF Settled, InHand, At
<1>2. ASSUME NEW q \in Runs, Step(q) \/ Crash(q) PROVE ~ InHand(r, d)'
  BY <1>2, OnlyStartLoads DEF Settled, InHand, At
<1>3. CASE UNCHANGED vars
  BY <1>3 DEF vars, Settled, InHand, At
<1> QED
  BY <1>1, <1>2, <1>3, CronAssumption DEF Next, StartDaily, StartByHand

\* A processed document that no run has loaded is never loaded again and keeps
\* the rows it has, for any number of documents, runs, failures and crashes:
\* what was lost is lost.
THEOREM ProcessedStaysFinal == Spec => ProcessedIsFinal
<1>1. ASSUME Inv, [Next]_vars, NEW d \in Documents, Settled(d)
      PROVE  Settled(d)' /\ SameRows(d)
  <2>1. SameRows(d)
    <3>1. CASE \E q \in Runs : PersistCall(q) \/ PersistClaims(q)
      BY <1>1, <3>1, PersistsTheLoaded DEF Settled
    <3>2. CASE \A q \in Runs : ~ PersistCall(q) /\ ~ PersistClaims(q)
      BY <1>1, <3>2, OnlyPersistingWrites DEF SameRows
    <3> QED
      BY <3>1, <3>2
  <2>2. Processed(d)'
    BY <1>1, <2>1 DEF Settled, Processed, SameRows
  <2> QED
    BY <1>1, <2>1, <2>2, NoneLoadsTheSettled DEF Settled
<1> DEFINE Keeps == \A d \in Documents : Settled(d) =>
                     /\ Settled(d)'
                     /\ \A r \in Runs : \A w \in WindowsOf(d) :
                          calls'[r][w] = calls[r][w] /\ claims'[r][w] = claims[r][w]
<1>2. Inv /\ [Next]_vars => [Keeps]_vars
  BY <1>1 DEF SameRows
<1> QED
  BY <1>2, InitInv, NextInv, PTL DEF Spec, ProcessedIsFinal
-----------------------------------------------------------------------------
(* The daily job never persists an answer of pass 1 that needs pass 2 *)

Ready(r) == UseTwoPass /\ run[r].pc = "call" /\ Result(r).call = "accepted" => Result(r).pass = 2

DailyInv == run[Cron].via = "sync" /\ Ready(Cron) /\ DailyCallsAreConfirmed

\* The daily job takes no step of the batched transport.
LEMMA DailyIsSynchronous ==
  ASSUME Inv, DailyInv
  PROVE  ~ BatchStep(Cron)
<1>1. run[Cron].pc \notin {"build", "submit", "wait", "persist"} /\ Synchronous(Cron)
  BY CronAssumption DEF Inv, OnceInv, Transport, DailyInv, Synchronous
<1> QED
  BY <1>1 DEF BatchStep, Build, Submit, Poll, TimeOut, SecondRound, EndRounds, FailRun, Collect,
              NextResult, At

\* Only its own persistence changes what the daily job wrote.
LEMMA OthersLeaveTheDailyRows ==
  ASSUME Inv, [Next]_vars, ~ PersistCall(Cron)
  PROVE  calls'[Cron] = calls[Cron]
<1>1. calls \in [Runs -> [Windows -> Seq({1, 2})]] /\ Cron \in Runs
  BY CronAssumption DEF Inv, TypeOK
<1>2. ASSUME NEW q \in Runs \ {Cron}, PersistCall(q) PROVE calls'[Cron] = calls[Cron]
  BY <1>1, <1>2 DEF PersistCall
<1>3. ASSUME NEW q \in Runs, PersistClaims(q) PROVE calls'[Cron] = calls[Cron]
  BY <1>3 DEF PersistClaims
<1> QED
  BY <1>2, <1>3, OnlyPersistingWrites

\* The steps of the synchronous transport leave at "call" an answer of pass 2,
\* or one that is no call.
LEMMA SyncStepsAreReady ==
  ASSUME Inv, DailyInv, SyncStep(Cron)
  PROVE  run'[Cron].via = "sync" /\ Ready(Cron)'
<1>a. run \in [Runs -> Local] /\ run[Cron] \in Local /\ Cron \in Runs /\ run[Cron].via = "sync"
  BY CronAssumption DEF Inv, TypeOK, DailyInv
<1>1. CASE NextDocument(Cron)
  BY <1>a, <1>1 DEF NextDocument, Becomes, Local, Ready
<1>2. CASE SkipDocument(Cron)
  <2>1. run'[Cron].pc = "documents" /\ run'[Cron].via = "sync"
    BY <1>a, <1>2 DEF SkipDocument, Becomes, Local, At
  <2> QED
    BY <2>1 DEF Ready
<1>3. CASE EndDocument(Cron)
  BY <1>a, <1>3 DEF EndDocument, Goto, Becomes, Local, Ready
<1>4. CASE FailDocument(Cron)
  BY <1>a, <1>4 DEF FailDocument, Becomes, Local, Ready
<1>5. CASE Extract(Cron)
  <2>1. PICK w \in FirstOf(run[Cron].todo, 1) : \E answer \in Answers[w[1]] :
          Becomes(Cron, [run[Cron] EXCEPT
            !.pc = IF UseTwoPass /\ answer.call # "none" THEN "confirm" ELSE "call",
            !.todo = @ \ {w}, !.win = w, !.results[w] = First(answer)])
    BY <1>5, Zenon DEF Extract
  <2>2. PICK answer \in Answers[w[1]] :
          Becomes(Cron, [run[Cron] EXCEPT
            !.pc = IF UseTwoPass /\ answer.call # "none" THEN "confirm" ELSE "call",
            !.todo = @ \ {w}, !.win = w, !.results[w] = First(answer)])
    BY <2>1, Zenon
  <2>3. w \in Windows
    BY <1>a, FirstOfIsSubset DEF Local
  <2> DEFINE pc == IF UseTwoPass /\ answer.call # "none" THEN "confirm" ELSE "call"
             first == First(answer)
             l == [run[Cron] EXCEPT !.pc = pc, !.todo = @ \ {w}, !.win = w, !.results[w] = first]
  <2>4. run' = [run EXCEPT ![Cron] = l]
    BY <2>2, Zenon DEF Becomes
  <2>5. first.call = answer.call
    BY DEF First
  <2>6. UseTwoPass /\ pc = "call" => first.call = "none"
    BY <2>5
  <2> HIDE DEF pc, first
  <2>7. l.via = "sync" /\ l.pc = pc /\ l.results[l.win] = first
    BY <1>a, <2>3 DEF Local
  <2> HIDE DEF l
  <2>8. run'[Cron] = l
    BY <1>a, <2>4
  <2> QED
    BY <2>6, <2>7, <2>8 DEF Ready, Result
<1>6. CASE Confirm(Cron)
  <2>1. PICK answer \in Answers[run[Cron].win[1]] :
          Becomes(Cron, [run[Cron] EXCEPT !.pc = "call",
                                          !.results[run[Cron].win] = Second(@, answer)])
    BY <1>6, Zenon DEF Confirm
  <2>2. run[Cron].win \in Windows
    BY <1>6, CronAssumption DEF Inv, TypeOK, Confirm, At
  <2> DEFINE win == run[Cron].win
             second == Second(run[Cron].results[win], answer)
             l == [run[Cron] EXCEPT !.pc = "call", !.results[win] = second]
  <2>3. run' = [run EXCEPT ![Cron] = l]
    BY <2>1, Zenon DEF Becomes
  <2>4. second.pass = 2
    <3>1. run[Cron].results[win] \in Results \cup {NoResult}
      BY <1>a, <2>2 DEF Local
    <3> QED
      BY <3>1 DEF Second, Results, NoResult
  <2> HIDE DEF second
  <2>5. l.via = "sync" /\ l.results[l.win] = second
    BY <1>a, <2>2 DEF Local
  <2> HIDE DEF l
  <2>6. run'[Cron] = l
    BY <1>a, <2>3
  <2> QED
    BY <2>4, <2>5, <2>6 DEF Ready, Result
<1> QED
  BY <1>1, <1>2, <1>3, <1>4, <1>5, <1>6 DEF SyncStep

\* A row that the daily job adds is one of pass 2.
LEMMA DailyPersistsPassTwo ==
  ASSUME Inv, DailyInv, PersistCall(Cron)
  PROVE  DailyInv'
<1> DEFINE w == run[Cron].win
           pass == Result(Cron).pass
<1>1. /\ run \in [Runs -> Local] /\ run[Cron] \in Local /\ Cron \in Runs
      /\ run[Cron].pc = "call" /\ w \in Windows
      /\ calls \in [Runs -> [Windows -> Seq({1, 2})]]
  BY CronAssumption DEF Inv, TypeOK, PersistCall, At
<1>2. run'[Cron].pc = "claims" /\ run'[Cron].via = "sync"
  BY <1>1 DEF PersistCall, Goto, Becomes, Local, DailyInv
<1>3. ASSUME UseTwoPass, NEW v \in Windows, NEW i \in DOMAIN calls'[Cron][v]
      PROVE  calls'[Cron][v][i] # 1
  <2>1. calls[Cron][v] \in Seq({1, 2}) /\ \A j \in DOMAIN calls[Cron][v] : calls[Cron][v][j] # 1
    BY <1>1, <1>3 DEF DailyInv, DailyCallsAreConfirmed, Unconfirmed
  <2>2. CASE Result(Cron).call # "accepted"
    BY <1>3, <2>1, <2>2 DEF PersistCall
  <2>3. CASE Result(Cron).call = "accepted"
    <3>1. pass = 2
      BY <1>1, <1>3, <2>3 DEF DailyInv, Ready
    <3>2. calls' = [calls EXCEPT ![Cron][w] = Append(calls[Cron][w], pass)]
      BY <2>3 DEF PersistCall
    <3> HIDE DEF w, pass
    <3>3. CASE v # w
      <4>1. calls'[Cron][v] = calls[Cron][v]
        BY <1>1, <3>2, <3>3
      <4> QED
        BY <1>3, <2>1, <4>1
    <3>4. CASE v = w
      <4>1. calls'[Cron][v] = Append(calls[Cron][v], 2)
        BY <1>1, <3>1, <3>2, <3>4
      <4> QED
        BY <1>3, <2>1, <4>1
    <3> QED
      BY <3>3, <3>4
  <2> QED
    BY <2>2, <2>3
<1> QED
  BY <1>2, <1>3 DEF DailyInv, Ready, DailyCallsAreConfirmed, Unconfirmed

LEMMA DailyNext == Inv /\ DailyInv /\ [Next]_vars => DailyInv'
<1> SUFFICES ASSUME Inv, DailyInv, [Next]_vars PROVE DailyInv'
  OBVIOUS
<1>a. run \in [Runs -> Local] /\ run[Cron] \in Local /\ Cron \in Runs
  BY CronAssumption DEF Inv, TypeOK
<1>1. CASE PersistCall(Cron)
  BY <1>1, DailyPersistsPassTwo
<1>2. CASE ~ PersistCall(Cron)
  <2>1. DailyCallsAreConfirmed'
    BY <1>2, OthersLeaveTheDailyRows DEF DailyInv, DailyCallsAreConfirmed, Unconfirmed
  <2>2. ASSUME run'[Cron] = run[Cron] PROVE run'[Cron].via = "sync" /\ Ready(Cron)'
    BY <2>2 DEF DailyInv, Ready, Result
  <2>3. ASSUME run'[Cron].via = "sync", run'[Cron].pc # "call"
        PROVE  run'[Cron].via = "sync" /\ Ready(Cron)'
    BY <2>3 DEF Ready
  <2>4. ASSUME run'[Cron] = Idle PROVE run'[Cron].via = "sync" /\ Ready(Cron)'
    BY <2>3, <2>4, IdleFacts
  <2>5. CASE StartDaily
    <3> DEFINE l == [Idle EXCEPT !.pc = "documents", !.via = "sync",
                                 !.loaded = Pending(Limit), !.queue = Pending(Limit)]
    <3>1. run' = [run EXCEPT ![Cron] = l]
      BY <2>5 DEF StartDaily, Start, Becomes
    <3>2. l.via = "sync" /\ l.pc = "documents"
      BY DEF Idle
    <3> HIDE DEF l
    <3> QED
      BY <1>a, <2>1, <2>3, <3>1, <3>2 DEF DailyInv
  <2>6. ASSUME NEW q \in Runs \ {Cron}, StartByHand(q) \/ Step(q) \/ Crash(q)
        PROVE  run'[Cron] = run[Cron]
    <3>1. CASE StartByHand(q)
      BY <1>a, <3>1 DEF StartByHand, Start, Becomes
    <3>2. CASE Step(q) \/ Crash(q)
      BY <3>2, <1>a, OnlyStartLoads
    <3> QED
      BY <2>6, <3>1, <3>2
  <2>7. CASE Step(Cron)
    <3>1. CASE PersistClaims(Cron)
      <4>1. run'[Cron].via = "sync" /\ run'[Cron].pc # "call"
        BY <1>a, <3>1 DEF PersistClaims, Becomes, Local, DailyInv
      <4> QED
        BY <2>1, <2>3, <4>1 DEF DailyInv
    <3>2. CASE Return(Cron)
      <4>1. run'[Cron] = Idle
        BY <1>a, <3>2 DEF Return, Becomes
      <4> QED
        BY <2>1, <2>4, <4>1 DEF DailyInv
    <3> QED
      BY <1>2, <2>1, <2>7, <3>1, <3>2, DailyIsSynchronous, SyncStepsAreReady DEF Step, DailyInv
  <2>8. CASE Crash(Cron)
    <3>1. run'[Cron] = Idle
      BY <1>a, <2>8 DEF Crash, Becomes
    <3> QED
      BY <2>1, <2>4, <3>1 DEF DailyInv
  <2>9. CASE UNCHANGED vars
    BY <2>1, <2>2, <2>9 DEF vars, DailyInv
  <2> QED
    BY <2>1, <2>2, <2>5, <2>6, <2>7, <2>8, <2>9 DEF Next, DailyInv
<1> QED
  BY <1>1, <1>2

\* The daily job persists no call that pass 2 has not seen, whatever fails
\* between the passes, for any number of other runs, of either transport.
THEOREM DailyCallsGoTwice == Spec => []DailyCallsAreConfirmed
<1>1. Init => DailyInv
  BY IdleFacts, CronAssumption DEF Init, DailyInv, Ready, DailyCallsAreConfirmed, Unconfirmed
<1>2. DailyInv => DailyCallsAreConfirmed
  BY DEF DailyInv
<1> QED
  BY <1>1, <1>2, InitInv, NextInv, DailyNext, PTL DEF Spec
-----------------------------------------------------------------------------
(* A run without errors has missed nothing *)

\* What is established of a run that has met no error: s is its local state, c
\* and k are the rows it wrote.
LastPass == IF UseTwoPass THEN 2 ELSE 1
Has(s, w) == s.results[w] # NoResult
Holds(s, w) == s.pc \in {"confirm", "call", "claims"} /\ w = s.win

CallRows(s, w) == IF s.results[w].call = "accepted" THEN <<LastPass>> ELSE << >>
ClaimRows(s, w) == IF s.results[w].claims = "accepted" THEN 1 ELSE 0

\* Every window of the loaded documents is answered or still to come.
Covers(s) ==
  \A w \in Windows : w[1] \in s.loaded <=> Has(s, w) \/ w \in s.todo \/ w[1] \in s.queue

\* The answers that do not wait have their rows, and the one in hand has them
\* as far as it has come.
Settles(s, c, k) ==
  /\ s.pc \notin {"submit", "wait"} =>
       \A w \in Windows : Has(s, w) /\ w \notin s.todo /\ ~ Holds(s, w) =>
         c[w] = CallRows(s, w) /\ k[w] = ClaimRows(s, w)
  /\ s.pc = "claims" => c[s.win] = CallRows(s, s.win)

\* The calls come from the pass they should come from by now.
Passes(s) ==
  /\ s.via = "sync" /\ s.pc = "call" /\ s.results[s.win].call # "none" =>
       s.results[s.win].pass = LastPass
  /\ s.pc \in {"submit", "wait"} => \A w \in Windows : Has(s, w) =>
       /\ s.round = 1 => s.results[w].pass = 1
       /\ s.round = 2 /\ w \notin s.todo /\ s.results[w].call # "none" => s.results[w].pass = 2
  /\ s.via = "batch" /\ s.pc \in {"persist", "call", "claims"} => \A w \in Windows :
       Has(s, w) /\ s.results[w].call # "none" => s.results[w].pass = LastPass

\* The shape of a local state, also after an error.
Shape(s) ==
  /\ s.pc \in {"documents", "build"} => s.todo = {}
  /\ s.pc = "build" => ~ s.erred /\ s.round = 1 /\ \A w \in Windows : ~ Has(s, w)
  /\ s.pc = "confirm" \/ s.round = 2 => UseTwoPass
  /\ s.via = "batch" /\ s.pc \in {"persist", "call", "claims"} => \A w \in s.todo : Has(s, w)
  /\ s.pc \in {"confirm", "call", "claims"} => Has(s, s.win)

Thorough(s, c, k) ==
  Shape(s) /\ (s.pc # "idle" /\ ~ s.erred => Covers(s) /\ Settles(s, c, k) /\ Passes(s))

\* Where a run goes on with the windows of the loaded documents.
LEMMA WindowsOfSome ==
  ASSUME NEW D \in SUBSET Documents, NEW w \in Windows
  PROVE  w \in UNION {WindowsOf(d) : d \in D} <=> w[1] \in D
<1>1. PICK d \in Documents : w \in WindowsOf(d)
  BY DEF Windows
<1>2. w[1] = d
  BY <1>1, WindowFacts
<1>3. ASSUME NEW e \in D, w \in WindowsOf(e) PROVE w[1] = e
  BY <1>3, WindowFacts
<1> QED
  BY <1>1, <1>2, <1>3

LEMMA NextDocumentIsThorough ==
  ASSUME NEW s \in Local, NEW c, NEW k, Thorough(s, c, k), s.pc = "documents",
         NEW d \in s.queue
  PROVE  Thorough([s EXCEPT !.pc = "windows", !.queue = @ \ {d}, !.todo = WindowsOf(d)], c, k)
<1> DEFINE l == [s EXCEPT !.pc = "windows", !.queue = @ \ {d}, !.todo = WindowsOf(d)]
<1>1. /\ l.pc = "windows" /\ l.queue = s.queue \ {d} /\ l.todo = WindowsOf(d)
      /\ l.via = s.via /\ l.loaded = s.loaded /\ l.round = s.round /\ l.results = s.results
      /\ l.erred = s.erred /\ l.win = s.win
  BY DEF Local
<1>2. d \in Documents /\ s.todo = {}
  BY DEF Local, Thorough, Shape
<1>3. \A w \in Windows : w \in WindowsOf(d) <=> w[1] = d
  <2>1. ASSUME NEW w \in Windows, w[1] = d PROVE w \in WindowsOf(d)
    <3>1. PICK e \in Documents : w \in WindowsOf(e)
      BY DEF Windows
    <3> QED
      BY <2>1, <3>1, WindowFacts
  <2> QED
    BY <1>2, <2>1, WindowFacts
<1> HIDE DEF l
<1>4. Shape(l)
  BY <1>1 DEF Thorough, Shape
<1>5. ASSUME ~ s.erred PROVE Covers(l) /\ Settles(l, c, k) /\ Passes(l)
  <2>1. Covers(s) /\ Settles(s, c, k)
    BY <1>5 DEF Thorough
  <2>2. Covers(l)
    BY <1>1, <1>2, <1>3, <2>1 DEF Covers, Has
  <2>3. Settles(l, c, k)
    BY <1>1, <1>2, <2>1 DEF Settles, Has, Holds, CallRows, ClaimRows
  <2> QED
    BY <1>1, <2>2, <2>3 DEF Passes
<1>6. Thorough(l, c, k)
  BY <1>1, <1>4, <1>5 DEF Thorough
<1> QED
  BY <1>6 DEF l

LEMMA ErredIsThorough ==
  ASSUME NEW s, NEW c, NEW k, s.erred, Shape(s)
  PROVE  Thorough(s, c, k)
BY DEF Thorough

LEMMA EndDocumentIsThorough ==
  ASSUME NEW s \in Local, NEW c, NEW k, Thorough(s, c, k), s.pc = "windows", s.todo = {}
  PROVE  Thorough([s EXCEPT !.pc = "documents"], c, k)
<1> DEFINE l == [s EXCEPT !.pc = "documents"]
<1>1. /\ l.pc = "documents" /\ l.queue = s.queue /\ l.todo = s.todo
      /\ l.via = s.via /\ l.loaded = s.loaded /\ l.round = s.round /\ l.results = s.results
      /\ l.erred = s.erred /\ l.win = s.win
  BY DEF Local
<1> HIDE DEF l
<1> QED
  BY <1>1 DEF Thorough, Shape, Covers, Settles, Passes, Has, Holds, CallRows, ClaimRows

LEMMA ExtractIsThorough ==
  ASSUME NEW s \in Local, NEW c, NEW k, Thorough(s, c, k), s.pc = "windows", s.via = "sync",
         NEW w \in s.todo, NEW answer \in Answers[w[1]]
  PROVE  Thorough([s EXCEPT !.pc = IF UseTwoPass /\ answer.call # "none" THEN "confirm" ELSE "call",
                            !.todo = @ \ {w}, !.win = w, !.results[w] = First(answer)], c, k)
<1> DEFINE first == First(answer)
           pc == IF UseTwoPass /\ answer.call # "none" THEN "confirm" ELSE "call"
           l == [s EXCEPT !.pc = pc, !.todo = @ \ {w}, !.win = w, !.results[w] = first]
<1>1. w \in Windows
  BY DEF Local
<1>2. first \in Results /\ first.pass = 1 /\ first.call = answer.call /\ first # NoResult
  BY <1>1, AnswerTypes DEF First, Results, NoResult
<1>3. pc \in {"confirm", "call"} /\ (pc = "confirm" => UseTwoPass)
      /\ (pc = "call" /\ first.call # "none" => LastPass = 1)
  BY <1>2 DEF LastPass
<1> HIDE DEF first, pc
<1>4. /\ l.pc = pc /\ l.queue = s.queue /\ l.todo = s.todo \ {w}
      /\ l.via = s.via /\ l.loaded = s.loaded /\ l.round = s.round
      /\ l.erred = s.erred /\ l.win = w /\ l.results[w] = first
      /\ \A v \in Windows \ {w} : l.results[v] = s.results[v]
  BY <1>1 DEF Local
<1> HIDE DEF l
<1>5. Shape(l)
  BY <1>2, <1>3, <1>4 DEF Thorough, Shape, Has
<1>6. ASSUME ~ s.erred PROVE Covers(l) /\ Settles(l, c, k) /\ Passes(l)
  <2>1. Covers(s) /\ Settles(s, c, k)
    BY <1>6 DEF Thorough
  <2>2. Covers(l)
    BY <1>1, <1>2, <1>4, <2>1 DEF Covers, Has
  <2>3. Settles(l, c, k)
    BY <1>3, <1>4, <2>1 DEF Settles, Has, Holds, CallRows, ClaimRows
  <2>4. Passes(l)
    BY <1>2, <1>3, <1>4 DEF Passes
  <2> QED
    BY <2>2, <2>3, <2>4
<1>7. Thorough(l, c, k)
  BY <1>4, <1>5, <1>6 DEF Thorough
<1> QED
  BY <1>7 DEF l, pc, first

LEMMA ConfirmIsThorough ==
  ASSUME NEW s \in Local, NEW c, NEW k, Thorough(s, c, k), s.pc = "confirm", s.via = "sync",
         s.win \in Windows, NEW answer \in Answers[s.win[1]]
  PROVE  Thorough([s EXCEPT !.pc = "call", !.results[s.win] = Second(@, answer)], c, k)
<1> DEFINE w == s.win
           second == Second(s.results[w], answer)
           l == [s EXCEPT !.pc = "call", !.results[w] = second]
<1>1. second \in Results /\ second.pass = 2 /\ second # NoResult
  <2>1. s.results[w] \in Results \cup {NoResult}
    BY DEF Local
  <2>2. second \in Results
    BY <2>1, AnswerTypes
  <2>3. second.pass = 2
    BY <2>1 DEF Second, Results, NoResult
  <2> QED
    BY <2>2, <2>3 DEF NoResult
<1>2. UseTwoPass /\ LastPass = 2 /\ Has(s, w)
  BY DEF Thorough, Shape, LastPass
<1> HIDE DEF second
<1>3. /\ l.pc = "call" /\ l.queue = s.queue /\ l.todo = s.todo
      /\ l.via = s.via /\ l.loaded = s.loaded /\ l.round = s.round
      /\ l.erred = s.erred /\ l.win = w /\ l.results[w] = second
      /\ \A v \in Windows \ {w} : l.results[v] = s.results[v]
  BY DEF Local
<1> HIDE DEF l
<1>4. Shape(l)
  BY <1>1, <1>2, <1>3 DEF Thorough, Shape, Has
<1>5. ASSUME ~ s.erred PROVE Covers(l) /\ Settles(l, c, k) /\ Passes(l)
  <2>1. Covers(s) /\ Settles(s, c, k)
    BY <1>5 DEF Thorough
  <2>2. Covers(l)
    BY <1>1, <1>2, <1>3, <2>1 DEF Covers, Has
  <2>3. Settles(l, c, k)
    BY <1>3, <2>1 DEF Settles, Has, Holds, CallRows, ClaimRows
  <2>4. Passes(l)
    BY <1>1, <1>2, <1>3 DEF Passes
  <2> QED
    BY <2>2, <2>3, <2>4
<1>6. Thorough(l, c, k)
  BY <1>3, <1>4, <1>5 DEF Thorough
<1> QED
  BY <1>6 DEF l, second

LEMMA BuildIsThorough ==
  ASSUME NEW s \in Local, NEW c, NEW k, Thorough(s, c, k), s.pc = "build",
         NEW unread \in SUBSET s.queue, NEW todo, todo = UNION {WindowsOf(d) : d \in s.queue \ unread},
         NEW pc, pc = IF todo = {} THEN "persist" ELSE "submit"
  PROVE  Thorough([s EXCEPT !.pc = pc, !.queue = {}, !.todo = todo, !.erred = (unread # {})], c, k)
<1> DEFINE l == [s EXCEPT !.pc = pc, !.queue = {}, !.todo = todo, !.erred = (unread # {})]
<1>1. pc \in {"persist", "submit"} /\ (pc = "persist" => todo = {})
  OBVIOUS
<1>2. /\ l.pc = pc /\ l.queue = {} /\ l.todo = todo
      /\ l.via = s.via /\ l.loaded = s.loaded /\ l.round = s.round /\ l.results = s.results
      /\ l.erred = (unread # {}) /\ l.win = s.win
  BY DEF Local
<1>3. ~ s.erred /\ s.round = 1 /\ s.todo = {} /\ \A w \in Windows : ~ Has(s, w)
  BY DEF Thorough, Shape
<1> HIDE DEF l
<1>4. Shape(l)
  BY <1>1, <1>2, <1>3 DEF Shape, Has
<1>5. ASSUME unread = {} PROVE Covers(l) /\ Settles(l, c, k) /\ Passes(l)
  <2>1. Covers(s)
    BY <1>3 DEF Thorough
  <2>2. \A w \in Windows : w \in todo <=> w[1] \in s.queue
    <3>1. s.queue \in SUBSET Documents /\ todo = UNION {WindowsOf(d) : d \in s.queue}
      BY <1>5 DEF Local
    <3> QED
      BY <3>1, WindowsOfSome
  <2>3. Covers(l)
    BY <1>2, <1>3, <2>1, <2>2 DEF Covers, Has
  <2>4. Settles(l, c, k)
    BY <1>1, <1>2, <1>3 DEF Settles, Has
  <2>5. Passes(l)
    BY <1>1, <1>2, <1>3 DEF Passes, Has
  <2> QED
    BY <2>3, <2>4, <2>5
<1>6. Thorough(l, c, k)
  BY <1>2, <1>4, <1>5 DEF Thorough
<1> QED
  BY <1>6 DEF l

LEMMA WaitingIsThorough ==
  ASSUME NEW s \in Local, NEW c, NEW k, Thorough(s, c, k), s.pc \in {"submit", "wait"},
         NEW l, l.pc = "wait", l.queue = s.queue, l.todo = s.todo, l.via = s.via,
         l.loaded = s.loaded, l.round = s.round, l.results = s.results, l.erred = s.erred,
         l.win = s.win
  PROVE  Thorough(l, c, k)
<1>1. Shape(l)
  BY DEF Thorough, Shape
<1>2. ASSUME ~ s.erred PROVE Covers(l) /\ Settles(l, c, k) /\ Passes(l)
  BY <1>2 DEF Thorough, Covers, Settles, Passes, Has
<1> QED
  BY <1>1, <1>2 DEF Thorough

LEMMA CollectIsThorough ==
  ASSUME NEW s \in Local, NEW c, NEW k, Thorough(s, c, k), s.pc = "wait",
         s.batch \subseteq s.todo, NEW failed \in SUBSET s.batch,
         NEW answer \in AnswersTo(s.batch \ failed),
         NEW results, results = [w \in Windows |->
           IF w \notin s.batch \ failed THEN s.results[w]
           ELSE IF s.round = 1 THEN First(answer[w])
           ELSE Second(s.results[w], answer[w])],
         NEW erred, erred = (s.erred \/ failed # {})
  PROVE  Thorough([s EXCEPT !.pc = "submit", !.todo = @ \ s.batch, !.batch = {},
                            !.results = results, !.erred = erred], c, k)
<1> DEFINE l == [s EXCEPT !.pc = "submit", !.todo = @ \ s.batch, !.batch = {},
                          !.results = results, !.erred = erred]
<1>1. /\ l.pc = "submit" /\ l.queue = s.queue /\ l.todo = s.todo \ s.batch
      /\ l.via = s.via /\ l.loaded = s.loaded /\ l.round = s.round /\ l.results = results
      /\ l.erred = erred /\ l.win = s.win
  BY DEF Local
<1>2. ASSUME NEW w \in s.batch \ failed
      PROVE  /\ First(answer[w]) \in Results /\ First(answer[w]).pass = 1
             /\ Second(s.results[w], answer[w]) \in Results
             /\ Second(s.results[w], answer[w]).pass = 2
  <2>1. w \in Windows /\ answer[w] \in Answers[w[1]] /\ s.results[w] \in Results \cup {NoResult}
    BY <1>2 DEF Local, AnswersTo
  <2> QED
    BY <2>1, AnswerTypes DEF First, Second, Results, NoResult
<1>3. \A v \in Results : v # NoResult
  BY DEF Results, NoResult
<1>4. ASSUME NEW w \in Windows
      PROVE  /\ w \in s.batch \ failed =>
                  Has(l, w) /\ l.results[w].pass = s.round
             /\ w \notin s.batch \ failed => l.results[w] = s.results[w]
  <2>1. s.round \in {1, 2}
    BY DEF Local
  <2>2. CASE w \notin s.batch \ failed
    BY <1>1, <2>2
  <2>3. CASE w \in s.batch \ failed /\ s.round = 1
    <3>1. results[w] = First(answer[w])
      BY <2>3
    <3> QED
      BY <1>1, <1>2, <1>3, <2>3, <3>1 DEF Has
  <2>4. CASE w \in s.batch \ failed /\ s.round = 2
    <3>1. results[w] = Second(s.results[w], answer[w])
      BY <2>4
    <3> QED
      BY <1>1, <1>2, <1>3, <2>4, <3>1 DEF Has
  <2> QED
    BY <2>1, <2>2, <2>3, <2>4
<1> HIDE DEF l
<1>5. Shape(l)
  BY <1>1 DEF Thorough, Shape
<1>6. ASSUME ~ erred PROVE Covers(l) /\ Settles(l, c, k) /\ Passes(l)
  <2>1. Covers(s) /\ Passes(s) /\ failed = {}
    BY <1>6 DEF Thorough
  <2>2. Covers(l)
    <3>1. \A w \in Windows : Has(l, w) <=> Has(s, w) \/ w \in s.batch
      BY <1>4, <2>1 DEF Has
    <3> QED
      BY <1>1, <2>1, <3>1 DEF Covers
  <2>3. Settles(l, c, k)
    BY <1>1 DEF Settles
  <2>4. Passes(l)
    BY <1>1, <1>4, <2>1 DEF Passes, Has
  <2> QED
    BY <2>2, <2>3, <2>4
<1>7. Thorough(l, c, k)
  BY <1>1, <1>5, <1>6 DEF Thorough
<1> QED
  BY <1>7 DEF l

LEMMA SecondRoundIsThorough ==
  ASSUME NEW s \in Local, NEW c, NEW k, Thorough(s, c, k), s.pc = "submit", s.todo = {},
         UseTwoPass,
         NEW found, found = {w \in {v \in Windows : Has(s, v)} : s.results[w].call # "none"}
  PROVE  Thorough([s EXCEPT !.round = 2, !.todo = found], c, k)
<1> DEFINE l == [s EXCEPT !.round = 2, !.todo = found]
<1>1. /\ l.pc = "submit" /\ l.queue = s.queue /\ l.todo = found
      /\ l.via = s.via /\ l.loaded = s.loaded /\ l.round = 2 /\ l.results = s.results
      /\ l.erred = s.erred /\ l.win = s.win
  BY DEF Local
<1> HIDE DEF l
<1>2. Shape(l)
  BY <1>1 DEF Shape
<1>3. ASSUME ~ s.erred PROVE Covers(l) /\ Settles(l, c, k) /\ Passes(l)
  <2>1. Covers(s)
    BY <1>3 DEF Thorough
  <2>2. Covers(l)
    BY <1>1, <2>1 DEF Covers, Has
  <2> QED
    BY <1>1, <2>2 DEF Settles, Passes, Has
<1>4. Thorough(l, c, k)
  BY <1>1, <1>2, <1>3 DEF Thorough
<1> QED
  BY <1>4 DEF l

LEMMA EndRoundsIsThorough ==
  ASSUME NEW s \in Local, NEW c, NEW k, Thorough(s, c, k), s.pc = "submit", s.todo = {},
         s.via = "batch",
         NEW answered, answered = {w \in Windows : Has(s, w)},
         \/ s.round = 2 \/ ~ UseTwoPass
         \/ \A w \in answered : s.results[w].call = "none"
  PROVE  Thorough([s EXCEPT !.pc = "persist", !.todo = answered], c, k)
<1> DEFINE l == [s EXCEPT !.pc = "persist", !.todo = answered]
<1>1. /\ l.pc = "persist" /\ l.queue = s.queue /\ l.todo = answered
      /\ l.via = s.via /\ l.loaded = s.loaded /\ l.round = s.round /\ l.results = s.results
      /\ l.erred = s.erred /\ l.win = s.win
  BY DEF Local
<1> HIDE DEF l
<1>2. Shape(l)
  BY <1>1 DEF Thorough, Shape, Has
<1>3. ASSUME ~ s.erred PROVE Covers(l) /\ Settles(l, c, k) /\ Passes(l)
  <2>1. Covers(s) /\ Passes(s)
    BY <1>3 DEF Thorough
  <2>2. Covers(l)
    BY <1>1, <2>1 DEF Covers, Has
  <2>3. Settles(l, c, k)
    BY <1>1 DEF Settles, Has
  <2>4. s.round \in {1, 2} /\ (s.round = 2 => LastPass = 2) /\ (~ UseTwoPass => s.round = 1 /\ LastPass = 1)
    BY DEF Thorough, Shape, Local, LastPass
  <2>5. Passes(l)
    BY <1>1, <2>1, <2>4 DEF Passes, Has
  <2> QED
    BY <2>2, <2>3, <2>5
<1>4. Thorough(l, c, k)
  BY <1>1, <1>2, <1>3 DEF Thorough
<1> QED
  BY <1>4 DEF l

LEMMA NextResultIsThorough ==
  ASSUME NEW s \in Local, NEW c, NEW k, Thorough(s, c, k), s.pc = "persist", s.via = "batch",
         NEW w \in s.todo
  PROVE  Thorough([s EXCEPT !.pc = "call", !.todo = @ \ {w}, !.win = w], c, k)
<1> DEFINE l == [s EXCEPT !.pc = "call", !.todo = @ \ {w}, !.win = w]
<1>1. /\ l.pc = "call" /\ l.queue = s.queue /\ l.todo = s.todo \ {w}
      /\ l.via = s.via /\ l.loaded = s.loaded /\ l.round = s.round /\ l.results = s.results
      /\ l.erred = s.erred /\ l.win = w
  BY DEF Local
<1>2. w \in Windows /\ Has(s, w)
  BY DEF Local, Thorough, Shape
<1> HIDE DEF l
<1>3. Shape(l)
  BY <1>1, <1>2 DEF Thorough, Shape, Has
<1>4. ASSUME ~ s.erred PROVE Covers(l) /\ Settles(l, c, k) /\ Passes(l)
  <2>1. Covers(s) /\ Settles(s, c, k) /\ Passes(s)
    BY <1>4 DEF Thorough
  <2>2. Covers(l)
    BY <1>1, <1>2, <2>1 DEF Covers, Has
  <2>3. Settles(l, c, k)
    BY <1>1, <2>1 DEF Settles, Has, Holds, CallRows, ClaimRows
  <2>4. Passes(l)
    BY <1>1, <1>2, <2>1 DEF Passes, Has
  <2> QED
    BY <2>2, <2>3, <2>4
<1>5. Thorough(l, c, k)
  BY <1>1, <1>3, <1>4 DEF Thorough
<1> QED
  BY <1>5 DEF l

LEMMA PersistCallIsThorough ==
  ASSUME NEW s \in Local, NEW c, NEW k, Thorough(s, c, k), s.pc = "call", s.win \in Windows,
         NEW b, \A v \in Windows \ {s.win} : b[v] = c[v],
         b[s.win] = IF s.results[s.win].call = "accepted" THEN <<s.results[s.win].pass>> ELSE << >>
  PROVE  Thorough([s EXCEPT !.pc = "claims"], b, k)
<1> DEFINE w == s.win
           l == [s EXCEPT !.pc = "claims"]
<1>1. /\ l.pc = "claims" /\ l.queue = s.queue /\ l.todo = s.todo
      /\ l.via = s.via /\ l.loaded = s.loaded /\ l.round = s.round /\ l.results = s.results
      /\ l.erred = s.erred /\ l.win = s.win
  BY DEF Local
<1> HIDE DEF l
<1>2. Shape(l)
  BY <1>1 DEF Thorough, Shape, Has
<1>3. ASSUME ~ s.erred PROVE Covers(l) /\ Settles(l, b, k) /\ Passes(l)
  <2>1. Covers(s) /\ Settles(s, c, k) /\ Passes(s)
    BY <1>3 DEF Thorough
  <2>2. Covers(l)
    BY <1>1, <2>1 DEF Covers, Has
  <2>3. Has(s, w) /\ s.via \in {"sync", "batch"}
    BY DEF Thorough, Shape, Local
  <2>4. b[w] = CallRows(l, w)
    BY <1>1, <2>1, <2>3 DEF Passes, CallRows
  <2>5. Settles(l, b, k)
    BY <1>1, <2>1, <2>4 DEF Settles, Has, Holds, CallRows, ClaimRows
  <2>6. Passes(l)
    BY <1>1, <2>1 DEF Passes, Has
  <2> QED
    BY <2>2, <2>5, <2>6
<1>4. Thorough(l, b, k)
  BY <1>1, <1>2, <1>3 DEF Thorough
<1> QED
  BY <1>4 DEF l

LEMMA PersistClaimsIsThorough ==
  ASSUME NEW s \in Local, NEW c, NEW k, Thorough(s, c, k), s.pc = "claims", s.win \in Windows,
         NEW b, \A v \in Windows \ {s.win} : b[v] = k[v],
         b[s.win] = IF s.results[s.win].claims = "none" THEN 0 ELSE 1,
         NEW pc, pc = IF s.via = "sync" THEN "windows" ELSE "persist"
  PROVE  Thorough([s EXCEPT !.pc = pc, !.win = NoWindow], c, b)
<1> DEFINE w == s.win
           l == [s EXCEPT !.pc = pc, !.win = NoWindow]
<1>1. (s.via = "sync" /\ pc = "windows") \/ (s.via = "batch" /\ pc = "persist")
  BY DEF Local
<1>2. /\ l.pc = pc /\ l.queue = s.queue /\ l.todo = s.todo
      /\ l.via = s.via /\ l.loaded = s.loaded /\ l.round = s.round /\ l.results = s.results
      /\ l.erred = s.erred /\ l.win = NoWindow
  BY DEF Local
<1> HIDE DEF l
<1>3. Shape(l)
  BY <1>1, <1>2 DEF Thorough, Shape, Has
<1>4. ASSUME ~ s.erred PROVE Covers(l) /\ Settles(l, c, b) /\ Passes(l)
  <2>1. Covers(s) /\ Settles(s, c, k) /\ Passes(s)
    BY <1>4 DEF Thorough
  <2>2. Covers(l)
    BY <1>2, <2>1 DEF Covers, Has
  <2>3. b[w] = ClaimRows(l, w) /\ c[w] = CallRows(l, w)
    <3>1. s.results[w].claims \in {"none", "accepted"}
      BY DEF Local, Results, NoResult, ClaimVerdicts
    <3> QED
      BY <1>2, <2>1, <3>1 DEF Settles, CallRows, ClaimRows
  <2>4. Settles(l, c, b)
    BY <1>1, <1>2, <2>1, <2>3 DEF Settles, Has, Holds, CallRows, ClaimRows
  <2>5. Passes(l)
    BY <1>1, <1>2, <2>1 DEF Passes, Has
  <2> QED
    BY <2>2, <2>4, <2>5
<1>5. Thorough(l, c, b)
  BY <1>2, <1>3, <1>4 DEF Thorough
<1> QED
  BY <1>5 DEF l

LEMMA IdleIsThorough == ASSUME NEW c, NEW k PROVE Thorough(Idle, c, k)
BY IdleFacts DEF Thorough, Shape, Idle

LEMMA StartIsThorough ==
  ASSUME NEW c, NEW k, NEW via \in {"sync", "batch"}, NEW D \in SUBSET Documents
  PROVE  Thorough([Idle EXCEPT !.pc = IF via = "sync" THEN "documents" ELSE "build",
                               !.via = via, !.loaded = D, !.queue = D], c, k)
<1> DEFINE pc == IF via = "sync" THEN "documents" ELSE "build"
           l == [Idle EXCEPT !.pc = pc, !.via = via, !.loaded = D, !.queue = D]
<1>1. pc \in {"documents", "build"}
  OBVIOUS
<1> HIDE DEF pc
<1>2. /\ l.pc = pc /\ l.queue = D /\ l.todo = {} /\ l.via = via /\ l.loaded = D
      /\ l.round = 1 /\ l.results = [w \in Windows |-> NoResult] /\ ~ l.erred
  BY DEF Idle
<1> HIDE DEF l
<1>3. \A w \in Windows : ~ Has(l, w)
  BY <1>2 DEF Has
<1>4. Shape(l)
  BY <1>1, <1>2, <1>3 DEF Shape
<1>5. Covers(l) /\ Settles(l, c, k) /\ Passes(l)
  BY <1>1, <1>2, <1>3 DEF Covers, Settles, Passes
<1>6. Thorough(l, c, k)
  BY <1>4, <1>5 DEF Thorough
<1> QED
  BY <1>6 DEF l, pc

ThoroughRun(r) == Thorough(run[r], calls[r], claims[r])

LEMMA SyncStepIsThorough ==
  ASSUME Inv, NEW r \in Runs, ThoroughRun(r), SyncStep(r)
  PROVE  Thorough(run'[r], calls[r], claims[r])
<1> DEFINE s == run[r]
           c == calls[r]
           k == claims[r]
<1>a. /\ run \in [Runs -> Local] /\ s \in Local /\ Thorough(s, c, k)
      /\ s.pc \in {"documents", "windows", "confirm"} => s.via = "sync"
      /\ s.pc = "confirm" => s.win \in Windows
  BY DEF Inv, TypeOK, OnceInv, Transport, ThoroughRun
<1>b. ASSUME NEW l, Becomes(r, l), Thorough(l, c, k) PROVE Thorough(run'[r], calls[r], claims[r])
  BY <1>a, <1>b DEF Becomes
<1>1. CASE NextDocument(r)
  <2>1. PICK d \in Latest(s.queue) :
          Becomes(r, [s EXCEPT !.pc = "windows", !.queue = @ \ {d}, !.todo = WindowsOf(d)])
    BY <1>1 DEF NextDocument
  <2>2. s.pc = "documents" /\ d \in s.queue
    BY <1>1 DEF NextDocument, At, Latest
  <2> HIDE DEF s, c, k
  <2> QED
    BY <1>a, <1>b, <2>1, <2>2, NextDocumentIsThorough
<1>2. CASE SkipDocument(r)
  <2>1. PICK d \in Latest(s.queue) : Becomes(r, [s EXCEPT !.queue = @ \ {d}, !.erred = TRUE])
    BY <1>2 DEF SkipDocument
  <2> DEFINE l == [s EXCEPT !.queue = @ \ {d}, !.erred = TRUE]
  <2>2. /\ s.pc = "documents" /\ l.pc = s.pc /\ l.todo = s.todo /\ l.round = s.round
        /\ l.erred
    BY <1>2, <1>a DEF Local, SkipDocument, At
  <2> HIDE DEF s, c, k, l
  <2>3. Thorough(l, c, k)
    BY <1>a, <2>2, ErredIsThorough DEF Thorough, Shape
  <2> QED
    BY <1>b, <2>1, <2>3 DEF l
<1>3. CASE EndDocument(r)
  <2>1. s.pc = "windows" /\ s.todo = {} /\ Becomes(r, [s EXCEPT !.pc = "documents"])
    BY <1>3 DEF EndDocument, Goto, At
  <2> HIDE DEF s, c, k
  <2> QED
    BY <1>a, <1>b, <2>1, EndDocumentIsThorough
<1>4. CASE FailDocument(r)
  <2> DEFINE l == [s EXCEPT !.pc = "documents", !.todo = {}, !.win = NoWindow, !.erred = TRUE]
  <2>1. Becomes(r, l)
    BY <1>4 DEF FailDocument
  <2>2. l.pc = "documents" /\ l.todo = {} /\ l.round = s.round /\ l.erred
    BY <1>a DEF Local
  <2> HIDE DEF s, c, k, l
  <2>3. Thorough(l, c, k)
    BY <1>a, <2>2, ErredIsThorough DEF Thorough, Shape
  <2> QED
    BY <1>b, <2>1, <2>3
<1>5. CASE Extract(r)
  <2>1. PICK w \in FirstOf(s.todo, 1) : \E answer \in Answers[w[1]] :
          Becomes(r, [s EXCEPT
            !.pc = IF UseTwoPass /\ answer.call # "none" THEN "confirm" ELSE "call",
            !.todo = @ \ {w}, !.win = w, !.results[w] = First(answer)])
    BY <1>5, Zenon DEF Extract
  <2>2. PICK answer \in Answers[w[1]] :
          Becomes(r, [s EXCEPT
            !.pc = IF UseTwoPass /\ answer.call # "none" THEN "confirm" ELSE "call",
            !.todo = @ \ {w}, !.win = w, !.results[w] = First(answer)])
    BY <2>1, Zenon
  <2>3. w \in s.todo /\ s.pc = "windows"
    BY <1>5, FirstOfIsSubset DEF Extract, At
  <2> HIDE DEF s, c, k
  <2> QED
    BY <1>a, <1>b, <2>2, <2>3, ExtractIsThorough
<1>6. CASE Confirm(r)
  <2>1. PICK answer \in Answers[s.win[1]] :
          Becomes(r, [s EXCEPT !.pc = "call", !.results[s.win] = Second(@, answer)])
    BY <1>6, Zenon DEF Confirm
  <2>2. s.pc = "confirm"
    BY <1>6 DEF Confirm, At
  <2> HIDE DEF s, c, k
  <2> QED
    BY <1>a, <1>b, <2>1, <2>2, ConfirmIsThorough
<1> QED
  BY <1>1, <1>2, <1>3, <1>4, <1>5, <1>6 DEF SyncStep

LEMMA BatchStepIsThorough ==
  ASSUME Inv, NEW r \in Runs, ThoroughRun(r), BatchStep(r)
  PROVE  Thorough(run'[r], calls[r], claims[r])
<1> DEFINE s == run[r]
           c == calls[r]
           k == claims[r]
<1>a. /\ run \in [Runs -> Local] /\ s \in Local /\ Thorough(s, c, k)
      /\ s.pc \in {"build", "submit", "wait", "persist"} => s.via = "batch"
      /\ s.pc = "wait" => s.batch \subseteq s.todo
  BY DEF Inv, TypeOK, OnceInv, Transport, ToComeOnce, ThoroughRun
<1>b. ASSUME NEW l, Becomes(r, l), Thorough(l, c, k) PROVE Thorough(run'[r], calls[r], claims[r])
  BY <1>a, <1>b DEF Becomes
<1>1. ASSUME NEW unread \in SUBSET s.queue, Build(r, unread)
      PROVE  Thorough(run'[r], calls[r], claims[r])
  <2> DEFINE todo == UNION {WindowsOf(d) : d \in s.queue \ unread}
             pc == IF todo = {} THEN "persist" ELSE "submit"
             l == [s EXCEPT !.pc = pc, !.queue = {}, !.todo = todo, !.erred = (unread # {})]
  <2>1. s.pc = "build" /\ Becomes(r, l)
    BY <1>1, Zenon DEF Build, At
  <2> HIDE DEF s, c, k
  <2>3. Thorough(l, c, k)
    <3>1. todo = UNION {WindowsOf(d) : d \in s.queue \ unread}
      OBVIOUS
    <3> HIDE DEF todo
    <3>2. pc = IF todo = {} THEN "persist" ELSE "submit"
      OBVIOUS
    <3> HIDE DEF pc
    <3> QED
      BY <1>a, <2>1, <3>1, <3>2, BuildIsThorough
  <2> HIDE DEF l
  <2> QED
    BY <1>b, <2>1, <2>3
<1>2. CASE Submit(r)
  <2> DEFINE l == [s EXCEPT !.pc = "wait", !.waited = 0, !.batch = FirstOf(s.todo, Chunk)]
  <2>1. s.pc = "submit" /\ Becomes(r, l)
    BY <1>2 DEF Submit, At
  <2>2. /\ l.pc = "wait" /\ l.queue = s.queue /\ l.todo = s.todo /\ l.via = s.via
        /\ l.loaded = s.loaded /\ l.round = s.round /\ l.results = s.results
        /\ l.erred = s.erred /\ l.win = s.win
    BY <1>a DEF Local
  <2> HIDE DEF s, c, k, l
  <2> QED
    BY <1>a, <1>b, <2>1, <2>2, WaitingIsThorough
<1>3. CASE Poll(r)
  <2> DEFINE l == [s EXCEPT !.waited = @ + 1]
  <2>1. s.pc = "wait" /\ Becomes(r, l)
    BY <1>3 DEF Poll, At
  <2>2. /\ l.pc = "wait" /\ l.queue = s.queue /\ l.todo = s.todo /\ l.via = s.via
        /\ l.loaded = s.loaded /\ l.round = s.round /\ l.results = s.results
        /\ l.erred = s.erred /\ l.win = s.win
    BY <1>a, <2>1 DEF Local
  <2> HIDE DEF s, c, k, l
  <2> QED
    BY <1>a, <1>b, <2>1, <2>2, WaitingIsThorough
<1>4. CASE TimeOut(r) \/ FailRun(r)
  BY <1>4, <1>b, IdleIsThorough DEF TimeOut, FailRun
<1>5. CASE SecondRound(r)
  <2> DEFINE found == {w \in {v \in Windows : Has(s, v)} : s.results[w].call # "none"}
  <2>1. Found(r) = found
    BY DEF Found, Answered, Has
  <2>2. /\ s.pc = "submit" /\ s.todo = {} /\ UseTwoPass
        /\ Becomes(r, [s EXCEPT !.round = 2, !.todo = Found(r)])
    BY <1>5 DEF SecondRound, At
  <2> HIDE DEF s, c, k
  <2>3. Thorough([s EXCEPT !.round = 2, !.todo = Found(r)], c, k)
    BY <1>a, <2>1, <2>2, SecondRoundIsThorough
  <2> QED
    BY <1>b, <2>2, <2>3
<1>6. CASE EndRounds(r)
  <2>1. Answered(r) = {w \in Windows : Has(s, w)}
    BY DEF Answered, Has
  <2>2. /\ s.pc = "submit" /\ s.todo = {} /\ s.via = "batch"
        /\ \/ s.round = 2 \/ ~ UseTwoPass
           \/ \A w \in Answered(r) : s.results[w].call = "none"
        /\ Becomes(r, [s EXCEPT !.pc = "persist", !.todo = Answered(r)])
    BY <1>6, <1>a DEF EndRounds, At, Found
  <2> HIDE DEF s, c, k
  <2>3. Thorough([s EXCEPT !.pc = "persist", !.todo = Answered(r)], c, k)
    BY <1>a, <2>1, <2>2, EndRoundsIsThorough
  <2> QED
    BY <1>b, <2>2, <2>3
<1>7. ASSUME NEW failed \in SUBSET s.batch, NEW answer \in AnswersTo(s.batch \ failed),
             Collect(r, failed, answer)
      PROVE  Thorough(run'[r], calls[r], claims[r])
  <2> DEFINE results == Collected(r, s.batch \ failed, answer)
             erred == s.erred \/ failed # {}
             l == [s EXCEPT !.pc = "submit", !.todo = @ \ s.batch, !.batch = {},
                            !.results = results, !.erred = erred]
  <2>1. s.pc = "wait" /\ s.batch \subseteq s.todo /\ Becomes(r, l)
    BY <1>7, <1>a DEF Collect, At
  <2>2. results = [w \in Windows |->
           IF w \notin s.batch \ failed THEN s.results[w]
           ELSE IF s.round = 1 THEN First(answer[w])
           ELSE Second(s.results[w], answer[w])]
    BY DEF Collected
  <2> HIDE DEF s, c, k, results
  <2>3. Thorough(l, c, k)
    <3>1. erred = (s.erred \/ failed # {})
      OBVIOUS
    <3> HIDE DEF erred
    <3> QED
      BY <1>a, <2>1, <2>2, <3>1, CollectIsThorough, ZenonT(60)
  <2> HIDE DEF l
  <2> QED
    BY <1>b, <2>1, <2>3
<1>8. ASSUME NEW w \in s.todo, NextResult(r, w)
      PROVE  Thorough(run'[r], calls[r], claims[r])
  <2>1. s.pc = "persist" /\ Becomes(r, [s EXCEPT !.pc = "call", !.todo = @ \ {w}, !.win = w])
    BY <1>8 DEF NextResult, At
  <2> HIDE DEF s, c, k
  <2> QED
    BY <1>a, <1>b, <2>1, NextResultIsThorough
<1> QED
  BY <1>1, <1>2, <1>3, <1>4, <1>5, <1>6, <1>7, <1>8 DEF BatchStep

LEMMA PersistIsThorough ==
  ASSUME Inv, NEW r \in Runs, ThoroughRun(r), PersistCall(r) \/ PersistClaims(r)
  PROVE  ThoroughRun(r)'
<1> DEFINE s == run[r]
           c == calls[r]
           k == claims[r]
           w == s.win
<1>a. /\ run \in [Runs -> Local] /\ s \in Local /\ Thorough(s, c, k) /\ w \in Windows
      /\ calls \in [Runs -> [Windows -> Seq({1, 2})]] /\ claims \in [Runs -> [Windows -> Nat]]
  BY DEF Inv, TypeOK, ThoroughRun, PersistCall, PersistClaims, At
<1>1. CASE PersistCall(r)
  <2>1. s.pc = "call" /\ run'[r] = [s EXCEPT !.pc = "claims"] /\ claims' = claims
    BY <1>1, <1>a DEF PersistCall, At, Goto, Becomes
  <2>2. c[w] = << >>
    BY <2>1 DEF Inv, OnceInv, InHandOnce, Fresh
  <2>3. /\ \A v \in Windows \ {w} : calls'[r][v] = c[v]
        /\ calls'[r][w] = IF s.results[w].call = "accepted" THEN <<s.results[w].pass>> ELSE << >>
    <3>1. CASE s.results[w].call # "accepted"
      BY <1>1, <2>2, <3>1 DEF PersistCall, Result
    <3>2. CASE s.results[w].call = "accepted"
      <4> DEFINE row == Append(c[w], s.results[w].pass)
      <4>1. calls' = [calls EXCEPT ![r][w] = row]
        BY <1>1, <3>2 DEF PersistCall, Result
      <4>2. row = <<s.results[w].pass>>
        BY <2>2
      <4> HIDE DEF row
      <4> QED
        BY <1>a, <3>2, <4>1, <4>2
    <3> QED
      BY <3>1, <3>2
  <2> HIDE DEF s, c, k
  <2>4. Thorough([s EXCEPT !.pc = "claims"], calls'[r], k)
    BY <1>a, <2>1, <2>3, PersistCallIsThorough DEF w
  <2> QED
    BY <2>1, <2>4 DEF ThoroughRun, k
<1>2. CASE PersistClaims(r)
  <2> DEFINE pc == IF s.via = "sync" THEN "windows" ELSE "persist"
  <2>1. /\ s.pc = "claims" /\ calls' = calls
        /\ run'[r] = [s EXCEPT !.pc = pc, !.win = NoWindow]
    BY <1>2, <1>a DEF PersistClaims, At, Becomes, Synchronous
  <2>2. k[w] = 0
    BY <2>1 DEF Inv, OnceInv, InHandOnce
  <2>3. /\ \A v \in Windows \ {w} : claims'[r][v] = k[v]
        /\ claims'[r][w] = IF s.results[w].claims = "none" THEN 0 ELSE 1
    <3>1. CASE s.results[w].claims = "none"
      BY <1>2, <2>2, <3>1 DEF PersistClaims, Result
    <3>2. CASE s.results[w].claims # "none"
      <4>1. claims' = [claims EXCEPT ![r][w] = k[w] + 1]
        BY <1>2, <3>2 DEF PersistClaims, Result
      <4> QED
        BY <1>a, <2>2, <3>2, <4>1
    <3> QED
      BY <3>1, <3>2
  <2> HIDE DEF s, c, k
  <2>4. Thorough([s EXCEPT !.pc = pc, !.win = NoWindow], c, claims'[r])
    <3>1. pc = IF s.via = "sync" THEN "windows" ELSE "persist"
      OBVIOUS
    <3> HIDE DEF pc
    <3> DEFINE b == claims'[r]
    <3>2. /\ \A v \in Windows \ {s.win} : b[v] = k[v]
          /\ b[s.win] = IF s.results[s.win].claims = "none" THEN 0 ELSE 1
      BY <2>3 DEF w
    <3>3. s \in Local /\ Thorough(s, c, k) /\ s.pc = "claims" /\ s.win \in Windows
      BY <1>a, <2>1 DEF w
    <3> HIDE DEF b
    <3>4. Thorough([s EXCEPT !.pc = pc, !.win = NoWindow], c, b)
      BY <3>1, <3>2, <3>3, PersistClaimsIsThorough, ZenonT(60)
    <3> QED
      BY <3>4 DEF b
  <2> QED
    BY <2>1, <2>4 DEF ThoroughRun, c
<1> QED
  BY <1>1, <1>2

\* Only a run itself changes what it wrote.
LEMMA OthersLeaveTheRows ==
  ASSUME Inv, [Next]_vars, NEW r \in Runs, ~ PersistCall(r), ~ PersistClaims(r)
  PROVE  calls'[r] = calls[r] /\ claims'[r] = claims[r]
<1>1. calls \in [Runs -> [Windows -> Seq({1, 2})]] /\ claims \in [Runs -> [Windows -> Nat]]
  BY DEF Inv, TypeOK
<1>2. ASSUME NEW q \in Runs \ {r}, PersistCall(q) PROVE calls'[r] = calls[r] /\ claims'[r] = claims[r]
  BY <1>1, <1>2 DEF PersistCall
<1>3. ASSUME NEW q \in Runs \ {r}, PersistClaims(q)
      PROVE  calls'[r] = calls[r] /\ claims'[r] = claims[r]
  BY <1>1, <1>3 DEF PersistClaims
<1> QED
  BY <1>2, <1>3, OnlyPersistingWrites

LEMMA ThoroughNext ==
  ASSUME Inv, [Next]_vars, NEW r \in Runs, ThoroughRun(r)
  PROVE  ThoroughRun(r)'
<1>a. run \in [Runs -> Local]
  BY DEF Inv, TypeOK
<1>1. CASE PersistCall(r) \/ PersistClaims(r)
  BY <1>1, PersistIsThorough
<1>2. CASE ~ PersistCall(r) /\ ~ PersistClaims(r)
  <2>a. calls'[r] = calls[r] /\ claims'[r] = claims[r]
    BY <1>2, OthersLeaveTheRows
  <2>b. ASSUME run'[r] = run[r] PROVE ThoroughRun(r)'
    BY <2>a, <2>b DEF ThoroughRun
  <2>c. ASSUME run'[r] = Idle PROVE ThoroughRun(r)'
    BY <2>c, IdleIsThorough DEF ThoroughRun
  <2>1. ASSUME NEW q \in Runs, NEW via \in {"sync", "batch"}, NEW n, Start(q, via, n)
        PROVE  ThoroughRun(r)'
    <3> DEFINE l == [Idle EXCEPT !.pc = IF via = "sync" THEN "documents" ELSE "build",
                                 !.via = via, !.loaded = Pending(n), !.queue = Pending(n)]
    <3>1. run' = [run EXCEPT ![q] = l]
      BY <2>1, Zenon DEF Start, Becomes
    <3>2. Thorough(l, calls'[r], claims'[r])
      BY PendingIsFresh, StartIsThorough DEF Inv
    <3> HIDE DEF l
    <3> QED
      BY <1>a, <2>b, <3>1, <3>2 DEF ThoroughRun
  <2>2. ASSUME NEW q \in Runs \ {r}, Step(q) \/ Crash(q) PROVE ThoroughRun(r)'
    BY <2>2, <2>b, OnlyStartLoads
  <2>3. CASE Return(r) \/ Crash(r)
    BY <1>a, <2>3, <2>c DEF Return, Crash, Becomes
  <2>4. CASE SyncStep(r) \/ BatchStep(r)
    BY <2>4, <2>a, SyncStepIsThorough, BatchStepIsThorough DEF ThoroughRun
  <2>5. CASE UNCHANGED vars
    BY <2>5, <2>b DEF vars
  <2> QED
    BY <1>2, <2>1, <2>2, <2>3, <2>4, <2>5, CronAssumption DEF Next, StartDaily, StartByHand, Step
<1> QED
  BY <1>1, <1>2

\* A run that returns without an error has an answer for every window it
\* loaded, and for each exactly the rows the answer calls for, of the last pass.
THEOREM CleanRunsAreComplete == Spec => []CleanRunIsComplete
<1> DEFINE AllThorough == \A r \in Runs : ThoroughRun(r)
<1>1. Init => AllThorough
  BY IdleIsThorough DEF Init, ThoroughRun
<1>2. Inv /\ AllThorough /\ [Next]_vars => AllThorough'
  BY ThoroughNext
<1>3. Inv /\ AllThorough => CleanRunIsComplete
  <2> SUFFICES ASSUME Inv, AllThorough, NEW r \in Runs, Returning(r), ~ run[r].erred
               PROVE  /\ Answered(r) = UNION {WindowsOf(d) : d \in run[r].loaded}
                      /\ \A w \in Answered(r) :
                           calls[r][w] = CallRows(run[r], w) /\ claims[r][w] = ClaimRows(run[r], w)
    BY DEF CleanRunIsComplete, CallRows, ClaimRows, LastPass
  <2>1. /\ run[r] \in Local /\ run[r].pc \in {"documents", "persist"}
        /\ Covers(run[r]) /\ Settles(run[r], calls[r], claims[r]) /\ Shape(run[r])
    BY DEF Inv, TypeOK, Returning, At, ThoroughRun, Thorough
  <2>2. run[r].todo = {} /\ run[r].queue = {}
    BY <2>1 DEF Returning, At, Shape, Inv, OnceInv, Transport
  <2>3. \A w \in Windows : w \in Answered(r) <=> w[1] \in run[r].loaded
    BY <2>1, <2>2 DEF Covers, Has, Answered
  <2>4. Answered(r) = UNION {WindowsOf(d) : d \in run[r].loaded}
    <3>1. run[r].loaded \in SUBSET Documents
      BY <2>1 DEF Local
    <3>2. UNION {WindowsOf(d) : d \in run[r].loaded} \subseteq Windows
      BY <3>1, WindowFacts
    <3>3. Answered(r) \subseteq Windows
      BY DEF Answered
    <3> QED
      BY <2>3, <3>1, <3>2, <3>3, WindowsOfSome
  <2>5. \A w \in Answered(r) :
           calls[r][w] = CallRows(run[r], w) /\ claims[r][w] = ClaimRows(run[r], w)
    BY <2>1, <2>2 DEF Settles, Has, Holds, Answered
  <2> QED
    BY <2>4, <2>5
<1> QED
  BY <1>1, <1>2, <1>3, InitInv, NextInv, PTL DEF Spec
=============================================================================
