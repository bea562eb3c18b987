------------------------------- MODULE Signals -------------------------------
(***************************************************************************)
(* The signals of a ticker (aggregation/ticker_signals.py), beside the     *)
(* scoring runs of Scorecards.  Aggregation counts the accepted calls and  *)
(* claims of windows that end at the last close and weighs them by their   *)
(* creators' cards.  One ticker is modelled: no step relates two.          *)
(***************************************************************************)
EXTENDS Scorecards

CONSTANTS
  Claims,        \* the claims about the ticker
  Class,         \* claim_class of each claim
  Side,          \* "up", "down" or "flat": direction of a call, polarity of a claim
  Session,       \* ticks from a close to the next
  Sizes,         \* the window sizes, each with its ticks
  Threshold      \* CONSENSUS_HIT_RATE_LOWER_CI_THRESHOLD, in percent

Mentions == Calls \cup Claims
Classes == {"factual", "opinion", "speculation", "hype"}
Sides == {"up", "down", "flat"}
Types == {"trade_calls", "claims_all", "claims_factual", "creator_consensus"}

ASSUME MentionAssumption ==
  /\ Calls \cap Claims = {}
  /\ \A m \in Mentions : Author[m] \in Creator /\ Side[m] \in Sides
  /\ \A m \in Claims : Class[m] \in Classes
ASSUME SignalAssumption ==
  /\ Session \in Nat \ {0} /\ Threshold \in Nat
  /\ \A s \in Sizes : s.ticks \in Nat
  /\ \A s, t \in Sizes : s.label = t.label => s = t
ASSUME ClaimsAssumption == IsFiniteSet(Claims)

VARIABLES
  made,       \* when each claim is made
  accepted,   \* the calls and claims extraction has accepted
  signals     \* the ticker_signals rows, by window end, size and type

vars == <<cardVars, made, accepted, signals>>

Neutral == 100
MadeAt(m) == IF m \in Calls THEN posted[m] ELSE made[m]
-----------------------------------------------------------------------------
(* Aggregation *)

\* most_recent_close_at_or_before: a close is at every multiple of Session.
LastClose(t) == t - (t % Session)

\* Mutant: the windows start where they should if they ended now.
WindowFromNow(end, ticks) == {m \in accepted : MadeAt(m) >= now - ticks /\ MadeAt(m) <= end}

\* _load_calls and _load_claims
Window(end, ticks) == {m \in accepted : MadeAt(m) >= end - ticks /\ MadeAt(m) <= end}

Value(m) == CASE Side[m] = "up" -> 1 [] Side[m] = "down" -> -1 [] OTHER -> 0

\* The weight of a claim by its class, in quarters; a call weighs one.
ClassWeight(m) ==
  IF m \in Calls THEN 4
  ELSE CASE Class[m] = "factual" -> 4 [] Class[m] = "opinion" -> 2
         [] Class[m] = "speculation" -> 1 [] Class[m] = "hype" -> 0

CreatorWeight(cred, m) == IF Author[m] \in DOMAIN cred THEN cred[Author[m]] ELSE Neutral

\* _aggregate_calls, _aggregate_claims: the mentions of a signal, its net polarity as
\* <<sum, count>>, and the weighted one, which is null when all weights are zero.
Null == <<0, 0>>
Signal(ms, cred) ==
  LET value    == [m \in ms |-> Value(m)]
      weight   == [m \in ms |-> ClassWeight(m) * CreatorWeight(cred, m)]
      weighted == [m \in ms |-> weight[m] * value[m]]
  IN [of       |-> ms,
      net      |-> <<SumFunction(value), Cardinality(ms)>>,
      weighted |-> IF SumFunction(weight) = 0 THEN Null
                   ELSE <<SumFunction(weighted), SumFunction(weight)>>]

\* The mentions that count for a signal of a type.
Feeding(type, ms, cred) ==
  CASE type = "trade_calls" -> ms \cap Calls
    [] type = "claims_all" -> ms \cap Claims
    [] type = "claims_factual" -> {m \in ms \cap Claims : Class[m] = "factual"}
    [] type = "creator_consensus" ->
         {m \in ms \cap Claims : Author[m] \in DOMAIN cred /\ cred[Author[m]] > Threshold}

\* Mutant: a row for every window and type, fed or not.
ComputedForAll(end, cred) ==
  [key \in {<<end, s.label, type>> : s \in Sizes, type \in Types} |->
     LET size == CHOOSE s \in Sizes : s.label = key[2]
     IN Signal(Feeding(key[3], Window(end, size.ticks), cred), cred)]

\* The rows of a run at a window end: none for a type that nothing feeds.
Computed(end, cred) ==
  LET feeding(size, type) == Feeding(type, Window(end, size.ticks), cred)
      fed == {p \in Sizes \X Types : feeding(p[1], p[2]) # {}}
  IN [key \in {<<end, p[1].label, p[2]>> : p \in fed} |->
        LET size == CHOOSE s \in Sizes : s.label = key[2]
        IN Signal(feeding(size, key[3]), cred)]

\* _upsert_signals: a row computed now replaces the one of its key.
Upsert(rows, new) ==
  [key \in DOMAIN rows \cup DOMAIN new |-> IF key \in DOMAIN new THEN new[key] ELSE rows[key]]
-----------------------------------------------------------------------------
NoRows == [key \in {} |-> 0]

\* Extraction has read some of the first posts; nothing is scored or aggregated.
Init ==
  /\ CardsInit
  /\ made \in [Claims -> Moments]
  /\ accepted \in SUBSET {m \in Mentions : MadeAt(m) = 0}
  /\ signals = NoRows

\* Extraction accepts a call or a claim of a post it has read.
Accept(m) ==
  /\ m \notin accepted /\ MadeAt(m) <= now
  /\ accepted' = accepted \cup {m}
  /\ UNCHANGED <<cardVars, made, signals>>

\* run_aggregation: it reads the cards and the mentions, and writes the signals of
\* all windows in one transaction.
Aggregate ==
  /\ signals' = Upsert(signals, Computed(LastClose(now), Credibility))
  /\ UNCHANGED <<cardVars, made, accepted>>

OutcomeNext ==
  \E c \in Calls \cap accepted, i \in DOMAIN Horizons : Resolve(c, Horizons[i])

Next ==
  \/ (Tick \/ OutcomeNext \/ ScoreNext) /\ UNCHANGED <<made, accepted, signals>>
  \/ \E m \in Mentions : Accept(m)
  \/ Aggregate

Spec == Init /\ [][Next]_vars
-----------------------------------------------------------------------------
Fraction == Int \X Nat
TypeOK ==
  /\ CardsTypeOK
  /\ made \in [Claims -> Moments] /\ accepted \subseteq Mentions
  /\ \A key \in DOMAIN signals :
       /\ key \in Moments \X {s.label : s \in Sizes} \X Types
       /\ signals[key].of \in (SUBSET Mentions) \ {{}}
       /\ signals[key].net \in Fraction /\ signals[key].weighted \in Fraction

\* A signal never loses a mention when aggregation runs again at the same close:
\* what the window of a signal held it still holds, and extraction only adds.  Only
\* a consensus may, when a creator's card no longer clears the threshold.
RerunsOnlyAdd ==
  [][\A key \in DOMAIN signals : key[3] # "creator_consensus" =>
       key \in DOMAIN signals' /\ signals[key].of \subseteq signals'[key].of]_vars
=============================================================================
