------------------------------- MODULE Research -------------------------------
(***************************************************************************)
(* Research plans (app/research and apps/api routes/research.py): a        *)
(* request is answered from the plan cache of its day or gathers a packet, *)
(* asks one model for a plan (quick) or lets four analysts debate before a *)
(* judge decides (deep), records what each lens said, and stores the plan. *)
(* Requests interleave, the process may die, and the models may fail or    *)
(* answer out of schema.  One ticker is modelled.                          *)
(*                                                                         *)
(* Time is counted in thirds of a day, every day being a session: session  *)
(* s is stamped 3s, opens at 3s + 1 and closes at 3s + 2.                  *)
(***************************************************************************)
EXTENDS TradeLevels

CONSTANTS
  Clients,
  Names,       \* LENS_NAMES
  Directions,  \* the directions a model gives a lens
  Answers,     \* picks a model may submit
  Unit,        \* price units in a dollar
  MaxAsks,     \* bound: requests in a behaviour
  MaxTime      \* bound: the clock

Modes == {"quick", "deep"}

\* What a revision out of schema may leave in a lens: a value that is no string.
Unsound == "null"

\* A pick names a kind and the indices of its levels; it may do without a runner.
ASSUME AnswersAssumption ==
  \A picks \in Answers : /\ picks.primary \in Int /\ picks.stop \in Int
                         /\ \A i, j \in picks.runner : i \in Int /\ i = j
ASSUME ResearchAssumption ==
  Directions \subseteq {"bullish", "bearish"} /\ Unit \in Nat /\ MaxAsks \in Nat /\ MaxTime \in Nat

VARIABLES
  now,
  tape,        \* the closes of the ticker in dollars and the spread of its bars
  asked,
  request,     \* the request of each client
  plans,       \* research_plans, by id
  snapshots    \* lens_snapshots: the direction by time, mode and name

researchVars == <<now, tape, asked, request, plans, snapshots>>

\* The ticker trades at positive prices, from its first session on.
Tape == [closes : Seq(Nat \ {0}), spread : Nat]

Day(t) == t \div 3
OpenAt(s) == 3 * s + 1
CloseAt(s) == 3 * s + 2
Session == DOMAIN tape.closes
LastClosed(t) == Max({0} \cup {s \in Session : CloseAt(s) <= t})

\* The bars a provider shows at t; the bar in progress stands at the last close.
Bar(s, t) ==
  LET prior == tape.closes[Max({1, s - 1})]
      close == IF CloseAt(s) <= t THEN tape.closes[s] ELSE prior
  IN [high  |-> Unit * (Max({prior, close}) + tape.spread),
      low   |-> Unit * (Min({prior, close}) - tape.spread),
      close |-> Unit * close]
BarsAt(t) == [s \in {i \in Session : OpenAt(i) <= t} |-> Bar(s, t)]

Idle == [pc |-> "idle", mode |-> "quick", forced |-> FALSE, seen |-> 0, asOf |-> 0,
         lenses |-> <<>>]

Init ==
  /\ now \in 0..MaxTime
  /\ tape \in Tape
  /\ asked = 0
  /\ request = [c \in Clients |-> Idle]
  /\ plans = <<>>
  /\ snapshots = <<>>
-----------------------------------------------------------------------------
(* cache.py *)

\* get_cached: the ids of the plans of a mode and a day; the latest is served.
CachedIds(mode, day) == {i \in DOMAIN plans : plans[i].mode = mode /\ plans[i].day = day}
Cached(mode, day) ==
  IF CachedIds(mode, day) = {} THEN {} ELSE {plans[Max(CachedIds(mode, day))]}

\* store: the key is the day of the packet.
KeyOf(r) == Day(r.asOf)

\* The row of a request: the plan, and when it was asked for.
PlanOf(r, levels) ==
  [mode |-> r.mode, day |-> KeyOf(r), asOf |-> r.asOf, seen |-> r.seen, forced |-> r.forced,
   lenses |-> r.lenses, levels |-> levels]
-----------------------------------------------------------------------------
(* The route *)

\* A request that is not forced is answered from the cache: with the latest plan of
\* the day, or with an error when a lens of that is unsound and cannot be read back.
AskCached(c, mode) ==
  /\ request[c].pc = "idle" /\ asked < MaxAsks
  /\ Cached(mode, Day(now)) # {}
  /\ asked' = asked + 1
  /\ UNCHANGED <<now, tape, request, plans, snapshots>>

\* Mutant: the lookup forgets the mode.
AskOneModeOnly(c, mode, forced) ==
  /\ request[c].pc = "idle" /\ asked < MaxAsks
  /\ ~ forced
  /\ \A i \in DOMAIN plans : plans[i].day # Day(now) \/ plans[i].mode = "deep"
  /\ asked' = asked + 1
  /\ request' = [request EXCEPT ![c] =
       [Idle EXCEPT !.pc = "gather", !.mode = mode, !.forced = forced, !.seen = Len(plans)]]
  /\ UNCHANGED <<now, tape, plans, snapshots>>

\* A request that is forced, or finds no plan of the day; to force one that would have
\* found none changes nothing and is not told apart.
Ask(c, mode, forced) ==
  /\ request[c].pc = "idle" /\ asked < MaxAsks
  /\ forced <=> Cached(mode, Day(now)) # {}
  /\ asked' = asked + 1
  /\ request' = [request EXCEPT ![c] =
       [Idle EXCEPT !.pc = "gather", !.mode = mode, !.forced = forced, !.seen = Len(plans)]]
  /\ UNCHANGED <<now, tape, plans, snapshots>>

\* context.gather stamps the packet; no two packets have the same stamp.
Gather(c) ==
  /\ request[c].pc = "gather" /\ now < MaxTime
  /\ request' = [request EXCEPT ![c].pc = request[c].mode, ![c].asOf = now]
  /\ now' = now + 1
  /\ UNCHANGED <<tape, asked, plans, snapshots>>

\* The packet, the call, the resolution of its picks, the judge or the commit fails.
Fail(c) ==
  /\ request[c].pc \notin {"idle"}
  /\ request' = [request EXCEPT ![c] = Idle]
  /\ UNCHANGED <<now, tape, asked, plans, snapshots>>

\* What is left to do once the lenses are recorded: the judge of a debate decides, the
\* picks are resolved, and a plan with lenses is stored; one without is only returned.
Conclude(c, picks) ==
  LET r == request[c] IN
  /\ r.pc = "conclude"
  /\ \E v \in {View(BarsAt(r.asOf))} :
     /\ Resolvable(v)
     /\ plans' = IF r.lenses = <<>> THEN plans ELSE Append(plans, PlanOf(r, Resolve(picks, v)))
     /\ request' = [request EXCEPT ![c] = Idle]
     /\ UNCHANGED <<now, tape, asked, snapshots>>
-----------------------------------------------------------------------------
(* lens_recording.py *)

\* record_lens_snapshots in a transaction of its own: the rows of a run, unless they
\* are there; a value that is no string fails the insert and all of them are lost.
Recorded(r, lenses) ==
  LET keys == {<<r.asOf, r.mode, name>> : name \in DOMAIN lenses}
  IN [key \in keys \cup DOMAIN snapshots |->
        IF key \in DOMAIN snapshots THEN snapshots[key] ELSE lenses[key[3]]]

\* Mutant: a direction that is no string is recorded.
RecordUnchecked(r, lenses) == snapshots' \in {snapshots, Recorded(r, lenses)}

\* A failure to record is logged and the request goes on.
Record(r, lenses) ==
  \/ snapshots' = snapshots
  \/ /\ Unsound \notin Range(lenses)
     /\ snapshots' = Recorded(r, lenses)
-----------------------------------------------------------------------------
(* quick.py *)

\* The lenses of an answer: those the model did not leave out.
Panels == UNION {[spoke -> Directions] : spoke \in SUBSET Names}

\* quick.run: the lenses are recorded once the picks are known to resolve.
Quick(c, lenses) ==
  LET r == request[c] IN
  /\ r.pc = "quick"
  /\ Resolvable(View(BarsAt(r.asOf)))
  /\ request' = [request EXCEPT ![c].pc = "conclude", ![c].lenses = lenses]
  /\ Record(r, lenses)
  /\ UNCHANGED <<now, tape, asked, plans>>
-----------------------------------------------------------------------------
(* deep.py *)

\* run_agents_parallel: the lenses of the analysts who answer; a debate that nobody
\* answers fails.
FirstRounds == Panels \ {<<>>}

\* run_revision: what a lens may become once its analyst has seen the others; an
\* analyst that fails keeps it, and an answer is taken over unchecked.
Revisions(lenses) ==
  IF Cardinality(DOMAIN lenses) < 2 THEN {lenses}
  ELSE [DOMAIN lenses -> Directions \cup {Unsound}]

\* Mutant: what is recorded is the first round.
DebateRecordedEarly(c, first, final) ==
  LET r == request[c] IN
  /\ r.pc = "deep"
  /\ final \in Revisions(first)
  /\ request' = [request EXCEPT ![c].pc = "conclude", ![c].lenses = final]
  /\ Record(r, first)
  /\ UNCHANGED <<now, tape, asked, plans>>

\* The analysts who answer, their second round, and the record of it, before the
\* judge is called.
Debate(c, first, final) ==
  LET r == request[c] IN
  /\ r.pc = "deep"
  /\ final \in Revisions(first)
  /\ request' = [request EXCEPT ![c].pc = "conclude", ![c].lenses = final]
  /\ Record(r, final)
  /\ UNCHANGED <<now, tape, asked, plans>>
-----------------------------------------------------------------------------
Tick ==
  /\ now < MaxTime
  /\ now' = now + 1
  /\ UNCHANGED <<tape, asked, request, plans, snapshots>>

\* The process dies with the requests in it.
Crash ==
  /\ request # [c \in Clients |-> Idle]
  /\ request' = [c \in Clients |-> Idle]
  /\ UNCHANGED <<now, tape, asked, plans, snapshots>>

ResearchNext ==
  \/ \E c \in Clients, mode \in Modes :
       AskCached(c, mode) \/ \E forced \in BOOLEAN : Ask(c, mode, forced)
  \/ \E c \in Clients : Gather(c) \/ Fail(c)
  \/ \E c \in Clients, lenses \in Panels : Quick(c, lenses)
  \/ \E c \in Clients, first \in FirstRounds : \E final \in Revisions(first) : Debate(c, first, final)
  \/ \E c \in Clients, picks \in Answers : Conclude(c, picks)
  \/ Tick
  \/ Crash
-----------------------------------------------------------------------------
Lenses == UNION {[spoke -> Directions \cup {Unsound}] : spoke \in SUBSET Names}

\* The type of the state: requests at a known step, plans in the order of their ids,
\* and at most one snapshot for a run and a lens (models.py ResearchPlan, LensSnapshot).
TypeOK ==
  /\ now \in 0..MaxTime /\ tape \in Tape /\ asked \in 0..MaxAsks
  /\ request \in [Clients -> [pc : {"idle", "gather", "quick", "deep", "conclude"},
                             mode : Modes, forced : BOOLEAN, seen : 0..Len(plans),
                             asOf : 0..MaxTime, lenses : Lenses]]
  /\ \A i \in DOMAIN plans :
       plans[i].mode \in Modes /\ plans[i].asOf < now /\ plans[i].lenses \in Lenses \ {<<>>}
  /\ \A key \in DOMAIN snapshots :
       key \in (0..MaxTime) \X Modes \X Names /\ snapshots[key] \in Directions

\* A plan that nobody forced was asked for before any other of its mode and day was
\* stored: the same day pays twice only for requests that overlap
\* (routes/research.py:160 looks, pays for half a minute, and stores).
OnlyOverlapsPayTwice ==
  \A i, j \in DOMAIN plans :
    (i < j /\ plans[i].mode = plans[j].mode /\ plans[i].day = plans[j].day /\ ~ plans[j].forced)
      => plans[j].seen < i

\* What was recorded of a run is what its stored plan shows, lens by lens: outcomes are
\* attributed to the call the reader saw, the one after the debate (deep.py:156-179).
SnapshotsMatchPlans ==
  \A i \in DOMAIN plans, name \in Names :
    LET key == <<plans[i].asOf, plans[i].mode, name>>
    IN key \in DOMAIN snapshots =>
         name \in DOMAIN plans[i].lenses /\ snapshots[key] = plans[i].lenses[name]

\* Whatever a model picks, the levels of a stored plan are candidates of its packet,
\* verbatim, with the stop below the entry zone; and if they are a trade at all, they
\* are one of the combinations the distribution shows (schema.py CandidateLevels).
LevelsAreCandidates ==
  \A i \in DOMAIN plans : \A v \in {View(BarsAt(plans[i].asOf))} :
    LET levels == plans[i].levels
    IN /\ levels.entry \in Range(Entries(v))
       /\ levels.stop \in Range(Stops(v)) /\ levels.stop < levels.entry.low
       /\ RiskReward(levels.entry, levels.primary, levels.stop) > 0
            => levels \in Combos(v)
=============================================================================
