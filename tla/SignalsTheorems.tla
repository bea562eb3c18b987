-------------------------- MODULE SignalsTheorems --------------------------
(***************************************************************************)
(* The scorecards and the signals for any creators, calls, windows,        *)
(* horizons, scoring runs and aggregations.                                *)
(*                                                                         *)
(* Ratings are earned because every card, stored or waiting to be, is      *)
(* sound: it counts some of the calls with an outcome at its horizon, at   *)
(* least MinN of them, and outcomes are never taken back (SoundInv).       *)
(*                                                                         *)
(* That a stale card never speaks rests on the window "all".  A run that   *)
(* met no other leaves, for every creator and horizon with a stale card,   *)
(* a newer card of all calls that counts every call the stale ones count   *)
(* (RefreshedOK); it is rated when one of them is.  The run cannot have    *)
(* skipped that card, since its creator has enough calls for the stale     *)
(* ones.  While a run is alone this is known of the cells it has dealt     *)
(* with (AloneDone), and a run that is not alone only stores cards that    *)
(* keep it (PendingCovers).                                                *)
(*                                                                         *)
(* A signal keeps its mentions because no row counts more than its window  *)
(* holds, and windows only fill (RowsOK).                                  *)
(***************************************************************************)
EXTENDS Signals, FiniteSetTheorems, SequenceTheorems, WellFoundedInduction, TLAPS

(***************************************************************************)
(* A set of naturals has a least element.                                  *)
(***************************************************************************)
LEMMA LeastNatural ==
  ASSUME NEW S \in SUBSET Nat, S # {}
  PROVE  \E m \in S : \A t \in S : m <= t
<1> DEFINE R == {p \in Nat \X Nat : p[1] < p[2]}
<1>1. IsWellFoundedOn(R, Nat)
  BY NatLessThanWellFounded DEF OpToRel
<1>2. PICK m \in S : \A t \in S : ~ (<<t, m>> \in R)
  BY <1>1, WFMin
<1>3. ASSUME NEW t \in S PROVE m <= t
  <2>1. <<t, m>> \in Nat \X Nat /\ ~ t < m
    BY <1>2
  <2> QED
    BY <2>1
<1> QED
  BY <1>3

(***************************************************************************)
(* A bounded one has a greatest element.                                   *)
(***************************************************************************)
LEMMA GreatestNatural ==
  ASSUME NEW S \in SUBSET Nat, S # {}, NEW b \in Nat, \A t \in S : t <= b
  PROVE  \E m \in S : \A t \in S : t <= m
<1>0. \A t \in S : t \in Nat /\ b - t \in Nat
  OBVIOUS
<1>1. PICK k \in {b - t : t \in S} : \A l \in {b - t : t \in S} : k <= l
  <2>1. {b - t : t \in S} \in SUBSET Nat /\ {b - t : t \in S} # {}
    BY <1>0
  <2> QED
    BY <2>1, LeastNatural
<1>2. PICK m \in S : k = b - m
  BY <1>1
<1>3. \A t \in S : t <= m
  BY <1>0, <1>1, <1>2
<1> QED
  BY <1>3

(***************************************************************************)
(* The quotient and the remainder of a sum of that form.                   *)
(***************************************************************************)
LEMMA Division ==
  ASSUME NEW q \in Nat, NEW m \in Nat \ {0}, NEW r \in 0..(m - 1)
  PROVE  (q * m + r) \div m = q /\ (q * m + r) % m = r
<1> DEFINE x == q * m + r
<1>1. x \in Nat /\ x = q * m + r /\ q * m \in Nat
  OBVIOUS
<1> HIDE DEF x
<1>2. x \div m \in Int /\ x % m \in 0..(m - 1) /\ x = m * (x \div m) + (x % m)
  BY <1>1
<1> DEFINE p == x \div m
<1>3. p \in Int /\ m * (q - p) = (x % m) - r
  BY <1>1, <1>2
<1>4. q - p = 0
  <2> DEFINE e == q - p
  <2>1. e \in Int /\ - m < m * e /\ m * e < m
    BY <1>2, <1>3
  <2> HIDE DEF e
  <2>2. ~ e >= 1 /\ ~ e <= -1
    <3>1. e >= 1 => m * e >= m
      BY <2>1
    <3>2. e <= -1 => m * e <= - m
      BY <2>1
    <3> QED
      BY <2>1, <3>1, <3>2
  <2> QED
    BY <2>1, <2>2 DEF e
<1>5. p = q
  BY <1>3, <1>4
<1> QED
  BY <1>1, <1>2, <1>5 DEF x

(***************************************************************************)
(* Division with a remainder.                                              *)
(***************************************************************************)
LEMMA Remainder ==
  ASSUME NEW x \in Nat, NEW m \in Nat \ {0}
  PROVE  x \div m \in Nat /\ x % m \in 0..(m - 1) /\ x = (x \div m) * m + (x % m)
OBVIOUS

\* The loop in the middle takes any value, the others keeping theirs.
Turns(n, w, h, x) ==
  \A b \in 0..(w - 1) : \E y \in 0..(n * w * h - 1) :
    y \div (w * h) = x \div (w * h) /\ (y \div h) % w = b /\ y % h = x % h

(***************************************************************************)
(* The three loops of a run: every index falls into each of them, and the  *)
(* one in the middle, over the windows, takes any value while the others   *)
(* keep theirs.                                                            *)
(***************************************************************************)
LEMMA Places ==
  ASSUME NEW n \in Nat \ {0}, NEW w \in Nat \ {0}, NEW h \in Nat \ {0}, NEW x \in 0..(n * w * h - 1)
  PROVE  /\ w * h \in Nat \ {0} /\ n * w * h \in Nat \ {0} /\ x \in Nat
         /\ x \div (w * h) \in 0..(n - 1) /\ (x \div h) % w \in 0..(w - 1) /\ x % h \in 0..(h - 1)
         /\ Turns(n, w, h, x)
<1>1. w * h \in Nat \ {0}
  OBVIOUS
<1> DEFINE m == w * h
           a == x \div m
           d == x % h
<1>2. n * w * h = n * m
  OBVIOUS
<1>3. m \in Nat \ {0} /\ n * m \in Nat \ {0} /\ x \in Nat /\ x < n * m
  <2>1. m \in Nat \ {0}
    BY <1>1
  <2> HIDE DEF m
  <2>2. n * m \in Nat \ {0}
    BY <2>1
  <2> QED
    BY <1>2, <2>1, <2>2
<1>4. a \in 0..(n - 1)
  <2> HIDE DEF m
  <2>1. a \in Nat /\ x % m \in 0..(m - 1) /\ x = a * m + (x % m)
    BY <1>3, Remainder
  <2> HIDE DEF a
  <2>2. a >= n => a * m >= n * m
    BY <1>3, <2>1
  <2>3. a * m \in Nat
    BY <1>3, <2>1
  <2> QED
    BY <1>3, <2>1, <2>2, <2>3
<1>5. d \in 0..(h - 1) /\ (x \div h) % w \in 0..(w - 1)
  BY <1>3, Remainder
<1>6. ASSUME NEW b \in 0..(w - 1)
      PROVE  \E y \in 0..(n * m - 1) : y \div m = a /\ (y \div h) % w = b /\ y % h = d
  <2> HIDE DEF a, d
  <2> DEFINE c == b * h + d
             y == a * m + c
  <2>1. a \in Nat /\ b \in Nat /\ d \in Nat /\ b * h \in Nat
    BY <1>4, <1>5
  <2>2. c \in 0..(m - 1)
    <3>1. (b + 1) * h <= w * h
      BY <2>1
    <3>2. (b + 1) * h = b * h + h
      BY <2>1
    <3> QED
      BY <1>5, <2>1, <3>1, <3>2
  <2>3. y = (a * w + b) * h + d
    BY <2>1
  <2> HIDE DEF c, m
  <2>4. y \div m = a
    BY <1>3, <2>1, <2>2, Division
  <2>5. y \in 0..(n * m - 1)
    <3>1. (a + 1) * m <= n * m
      BY <1>3, <1>4
    <3>2. (a + 1) * m = a * m + m /\ a * m \in Nat
      BY <1>3, <2>1
    <3> QED
      BY <1>3, <2>2, <3>1, <3>2
  <2> HIDE DEF y
  <2> DEFINE q == a * w + b
  <2>6. q \in Nat /\ q % w = b
    <3>1. q \in Nat
      BY <2>1
    <3>2. (a * w + b) % w = b
      BY <2>1, Division
    <3> QED
      BY <3>1, <3>2
  <2> HIDE DEF q
  <2>7. y = q * h + d
    BY <2>3 DEF q
  <2>8. y \div h = q /\ y % h = d
    BY <1>5, <2>6, <2>7, Division
  <2> QED
    BY <2>4, <2>5, <2>6, <2>8
<1> QED
  BY <1>2, <1>3, <1>4, <1>5, <1>6 DEF Turns
-----------------------------------------------------------------------------
\* The rows of the settings: a label and its ticks.
WindowRows == [label : STRING, ticks : Nat]

(***************************************************************************)
(* What the plan of a run says of its cells: their creator, window and     *)
(* horizon come from the settings, and every creator and horizon has a     *)
(* cell of all calls.                                                      *)
(***************************************************************************)
LEMMA PlanOfLoops ==
  /\ Plan \in Seq(Range(Plan)) /\ DOMAIN Plan = 1..Len(Plan) /\ Len(Plan) \in Nat \ {0}
  /\ \A i \in DOMAIN Plan :
       /\ Plan[i].creator \in Creator
       /\ Plan[i].window \in WindowRows
       /\ \E k \in DOMAIN Horizons : Plan[i].horizon = Horizons[k]
       /\ \E j \in DOMAIN Plan : /\ Plan[j].creator = Plan[i].creator
                                 /\ Plan[j].horizon = Plan[i].horizon
                                 /\ Plan[j].window.label = "all"
<1> DEFINE n == Len(Creators)
           w == Len(Windows)
           h == Len(Horizons)
           N == n * w * h
           at(x) == [creator |-> Creators[x \div (w * h) + 1],
                     window  |-> Windows[((x \div h) % w) + 1],
                     horizon |-> Horizons[(x % h) + 1]]
<1>1. /\ n \in Nat \ {0} /\ w \in Nat \ {0} /\ h \in Nat \ {0}
      /\ DOMAIN Creators = 1..n /\ DOMAIN Windows = 1..w /\ DOMAIN Horizons = 1..h
      /\ \A i \in 1..w : Windows[i] \in WindowRows
      /\ \A i \in 1..n : Creators[i] \in Creator
  <2>1. /\ Creators \in Seq(Range(Creators)) /\ Windows \in Seq(WindowRows) /\ Horizons \in Seq(WindowRows)
        /\ Creators # <<>> /\ Windows # <<>> /\ Horizons # <<>>
    BY SettingsAssumption, PlanAssumption DEF WindowRows
  <2>2. \A S, s : s \in Seq(S) /\ s # <<>> =>
          Len(s) \in Nat \ {0} /\ DOMAIN s = 1..Len(s) /\ \A i \in 1..Len(s) : s[i] \in S
    <3> SUFFICES ASSUME NEW S, NEW s \in Seq(S), s # <<>>
                 PROVE  Len(s) \in Nat \ {0} /\ DOMAIN s = 1..Len(s) /\ \A i \in 1..Len(s) : s[i] \in S
      OBVIOUS
    <3>1. Len(s) # 0
      BY EmptySeq
    <3> QED
      BY <3>1
  <2>3. \A i \in DOMAIN Creators : Creators[i] \in Creator
    BY DEF Creator
  <2> QED
    BY <2>1, <2>2, <2>3
<1>2. PICK all \in 1..w : Windows[all].label = "all"
  BY <1>1, PlanAssumption
<1>3. Plan = [i \in 1..N |-> at(i - 1)]
  BY DEF Plan
<1> HIDE DEF n, w, h
<1>4. N \in Nat \ {0}
  BY <1>1
<1> HIDE DEF N, at
<1>5. DOMAIN Plan = 1..N /\ Plan \in Seq(Range(Plan)) /\ Len(Plan) = N
  <2>1. DOMAIN Plan = 1..N /\ Plan = [i \in 1..N |-> Plan[i]]
    BY <1>3
  <2>2. \A i \in 1..N : Plan[i] \in Range(Plan)
    BY <2>1 DEF Range
  <2> HIDE DEF Plan
  <2>3. Plan \in [1..N -> Range(Plan)]
    BY <2>1, <2>2
  <2> QED
    BY <1>4, <2>1, <2>3
<1>6. ASSUME NEW i \in 1..N
      PROVE  /\ Plan[i].creator \in Creator
             /\ Plan[i].window \in WindowRows
             /\ \E k \in DOMAIN Horizons : Plan[i].horizon = Horizons[k]
             /\ \E j \in 1..N : /\ Plan[j].creator = Plan[i].creator
                                /\ Plan[j].horizon = Plan[i].horizon
                                /\ Plan[j].window.label = "all"
  <2> DEFINE x == i - 1
             a == x \div (w * h)
             b == (x \div h) % w
             d == x % h
  <2>1. x \in 0..(N - 1) /\ Plan[i] = at(x)
    BY <1>3, <1>4
  <2>2. all - 1 \in 0..(w - 1)
    BY <1>1
  <2> HIDE DEF x
  <2>3. x \in 0..(n * w * h - 1)
    BY <2>1 DEF N
  <2>4. a \in 0..(n - 1) /\ b \in 0..(w - 1) /\ d \in 0..(h - 1)
    BY <1>1, <2>3, Places
  <2>5. PICK y \in 0..(n * w * h - 1) : y \div (w * h) = a /\ (y \div h) % w = all - 1 /\ y % h = d
    <3>1. \A c \in 0..(w - 1) : \E y \in 0..(n * w * h - 1) :
             y \div (w * h) = a /\ (y \div h) % w = c /\ y % h = d
      <4>1. Turns(n, w, h, x)
        BY <1>1, <2>3, Places
      <4> QED
        BY <4>1 DEF Turns
    <3> QED
      BY <2>2, <3>1
  <2>6. /\ Plan[i].creator = Creators[a + 1] /\ Plan[i].window = Windows[b + 1]
        /\ Plan[i].horizon = Horizons[d + 1]
    BY <2>1 DEF at
  <2>7. y + 1 \in 1..N /\ Plan[y + 1] = at(y)
    <3>1. y \in 0..(N - 1)
      BY <2>5 DEF N
    <3>2. y + 1 \in 1..N /\ (y + 1) - 1 = y
      BY <1>4, <3>1
    <3> QED
      BY <1>3, <3>2
  <2>8. at(y) = [creator |-> Creators[a + 1], window |-> Windows[(all - 1) + 1], horizon |-> Horizons[d + 1]]
    BY <2>5 DEF at
  <2>9. (all - 1) + 1 = all
    BY <1>1
  <2> HIDE DEF a, b, d
  <2>10. a + 1 \in 1..n /\ b + 1 \in 1..w /\ d + 1 \in 1..h
    BY <1>1, <2>4
  <2> QED
    BY <1>1, <1>2, <2>6, <2>7, <2>8, <2>9, <2>10
<1>7. Plan \in Seq(Range(Plan)) /\ DOMAIN Plan = 1..Len(Plan) /\ Len(Plan) \in Nat \ {0}
  BY <1>4, <1>5
<1>8. DOMAIN Plan = 1..N
  BY <1>5
<1> QED
  BY ONLY <1>6, <1>7, <1>8
-----------------------------------------------------------------------------
\* What a run does to another one that starts: nothing, or it is no longer alone.
Alike(x, y) ==
  /\ y.pc = x.pc
  /\ x.pc # "idle" => y.at = x.at /\ y.now = x.now /\ y.since = x.since
  /\ x.pc = "persist" => y.card = x.card /\ y.seen = x.seen

(***************************************************************************)
(* The fields of a run, by what it is doing.                               *)
(***************************************************************************)
LEMMA RunsAreTyped ==
  ASSUME CardsTypeOK, NEW r \in Runs
  PROVE  /\ run[r].pc = "idle" <=> run[r] = Idle
         /\ run[r].pc = "compute" <=> run[r] \in Computing
         /\ run[r].pc = "persist" <=> run[r] \in Persisting
         /\ run[r].pc # "idle" => /\ run[r].at \in DOMAIN Plan /\ run[r].now \in Moments
                                  /\ run[r].since \in 0..stamp /\ run[r].alone \in BOOLEAN
         /\ run[r].pc = "persist" => run[r].card \in Card \ {NoCard} /\ run[r].seen \in Card
<1>1. run[r] \in {Idle} \cup Computing \cup Persisting
  BY DEF CardsTypeOK
<1>2. Idle.pc = "idle"
  BY DEF Idle
<1>3. \A x \in Computing : /\ x.pc = "compute" /\ x.at \in DOMAIN Plan /\ x.now \in Moments
                           /\ x.since \in 0..stamp /\ x.alone \in BOOLEAN
  BY DEF Computing
<1>4. \A x \in Persisting : /\ x.pc = "persist" /\ x.at \in DOMAIN Plan /\ x.now \in Moments
                            /\ x.since \in 0..stamp /\ x.alone \in BOOLEAN
                            /\ x.card \in Card \ {NoCard} /\ x.seen \in Card
  BY DEF Persisting
<1> QED
  BY <1>1, <1>2, <1>3, <1>4

(***************************************************************************)
(* What a run that starts does to itself and to the others.                *)
(***************************************************************************)
LEMMA StartOf ==
  ASSUME CardsTypeOK, NEW r \in Runs, Start(r)
  PROVE  /\ run[r] = Idle /\ DOMAIN run' = Runs
         /\ run'[r] \in Computing /\ run'[r].at = 1 /\ run'[r].since = stamp
         /\ run'[r].alone = (\A q \in Runs : run[q].pc = "idle")
         /\ \A q \in Runs \ {r} : /\ Alike(run[q], run'[q])
                                  /\ run'[q] \in {Idle} \cup Computing \cup Persisting
                                  /\ run'[q].pc # "idle" => ~ run'[q].alone
<1> DEFINE others == {q \in Runs : run[q].pc # "idle"}
           alone == others = {}
           mine == [pc |-> "compute", at |-> 1, now |-> now, since |-> stamp, alone |-> alone]
<1>1. run' = [q \in Runs |-> IF q = r THEN mine
                             ELSE IF q \in others THEN [run[q] EXCEPT !.alone = FALSE]
                             ELSE run[q]]
  BY DEF Start
<1>2. run[r] = Idle
  BY RunsAreTyped DEF Start
<1>3. mine \in Computing
  <2>1. 1 \in DOMAIN Plan /\ now \in Moments /\ stamp \in 0..stamp
    BY PlanOfLoops DEF CardsTypeOK
  <2>2. alone \in BOOLEAN
    OBVIOUS
  <2> HIDE DEF alone
  <2> QED
    BY <2>1, <2>2 DEF Computing
<1>4. ASSUME NEW q \in Runs \ {r}
      PROVE  /\ Alike(run[q], run'[q])
             /\ run'[q] \in {Idle} \cup Computing \cup Persisting
             /\ run'[q].pc # "idle" => ~ run'[q].alone
  <2>1. CASE run[q].pc = "idle"
    <3>1. run'[q] = run[q] /\ run[q] = Idle
      BY <1>1, <2>1, RunsAreTyped
    <3> QED
      BY <2>1, <3>1 DEF Alike
  <2>2. CASE run[q].pc = "compute"
    <3>1. run'[q] = [run[q] EXCEPT !.alone = FALSE] /\ run[q] \in Computing
      BY <1>1, <2>2, RunsAreTyped
    <3> QED
      BY <3>1 DEF Alike, Computing
  <2>3. CASE run[q].pc = "persist"
    <3>1. run'[q] = [run[q] EXCEPT !.alone = FALSE] /\ run[q] \in Persisting
      BY <1>1, <2>3, RunsAreTyped
    <3> QED
      BY <3>1 DEF Alike, Persisting
  <2>4. run[q].pc \in {"idle", "compute", "persist"}
    BY DEF CardsTypeOK, Idle, Computing, Persisting
  <2> QED
    BY <2>1, <2>2, <2>3, <2>4
<1>5. run'[r] = mine /\ DOMAIN run' = Runs
  BY <1>1
<1>6. mine.alone = (\A q \in Runs : run[q].pc = "idle")
  OBVIOUS
<1> HIDE DEF others, alone
<1> QED
  BY <1>2, <1>3, <1>4, <1>5, <1>6

\* A run has dealt with a cell.
Went(r) ==
  /\ DOMAIN run' = Runs /\ \A q \in Runs \ {r} : run'[q] = run[q]
  /\ \/ /\ run[r].at < Len(Plan) /\ refreshed' = refreshed
        /\ run'[r] \in Computing /\ run'[r].at = run[r].at + 1
        /\ run'[r].now = run[r].now /\ run'[r].since = run[r].since /\ run'[r].alone = run[r].alone
     \/ /\ run[r].at = Len(Plan) /\ run'[r] = Idle
        /\ refreshed' = IF run[r].alone THEN run[r].since ELSE refreshed

(***************************************************************************)
(* A run that advances is at its next cell, or over.                       *)
(***************************************************************************)
LEMMA AdvanceOf ==
  ASSUME CardsTypeOK, NEW r \in Runs, run[r].pc # "idle", Advance(r)
  PROVE  Went(r)
<1>1. /\ run[r].at \in DOMAIN Plan /\ run[r].now \in Moments /\ run[r].since \in 0..stamp
      /\ run[r].alone \in BOOLEAN /\ DOMAIN Plan = 1..Len(Plan) /\ Len(Plan) \in Nat
      /\ run = [q \in Runs |-> run[q]]
  BY RunsAreTyped, PlanOfLoops DEF CardsTypeOK
<1>2. CASE run[r].at < Len(Plan)
  <2> DEFINE next == [pc |-> "compute", at |-> run[r].at + 1, now |-> run[r].now,
                      since |-> run[r].since, alone |-> run[r].alone]
  <2>1. run' = [run EXCEPT ![r] = next] /\ refreshed' = refreshed
    BY <1>2 DEF Advance
  <2>2. run[r].at + 1 \in DOMAIN Plan
    BY <1>1, <1>2
  <2>3. next \in Computing
    BY <1>1, <2>2 DEF Computing
  <2>4. run'[r] = next /\ DOMAIN run' = Runs /\ \A q \in Runs \ {r} : run'[q] = run[q]
    BY <1>1, <2>1
  <2> QED
    BY <1>2, <2>1, <2>3, <2>4 DEF Went
<1>3. CASE ~ run[r].at < Len(Plan)
  <2>1. run[r].at = Len(Plan)
    BY <1>1, <1>3
  <2>2. run' = [run EXCEPT ![r] = Idle] /\ refreshed' = IF run[r].alone THEN run[r].since ELSE refreshed
    BY <1>3 DEF Advance
  <2> QED
    BY <1>1, <2>1, <2>2 DEF Went
<1> QED
  BY <1>2, <1>3

(***************************************************************************)
(* What a run holds once it has computed a card.                           *)
(***************************************************************************)
LEMMA ComputeOf ==
  ASSUME CardsTypeOK, NEW r \in Runs, Compute(r)
  PROVE  LET card == CardOf(EvidenceAt(r), stamp + 1) IN
         /\ run[r].pc = "compute" /\ run[r].at \in DOMAIN Plan
         /\ DOMAIN run' = Runs /\ (\A q \in Runs \ {r} : run'[q] = run[q])
         /\ run'[r] = [pc |-> "persist", at |-> run[r].at, now |-> run[r].now, since |-> run[r].since,
                       alone |-> run[r].alone, card |-> card, seen |-> cards[Cell(Plan[run[r].at])]]
         /\ run'[r].pc = "persist" /\ run'[r].at = run[r].at /\ run'[r].since = run[r].since
         /\ run'[r].alone = run[r].alone /\ run'[r].card = card
<1>1. run = [q \in Runs |-> run[q]] /\ run[r].pc = "compute" /\ run[r].at \in DOMAIN Plan
  BY RunsAreTyped DEF CardsTypeOK, Compute
<1> DEFINE card == CardOf(EvidenceAt(r), stamp + 1)
           seen == cards[Cell(Plan[run[r].at])]
           next == [pc |-> "persist", at |-> run[r].at, now |-> run[r].now, since |-> run[r].since,
                    alone |-> run[r].alone, card |-> card, seen |-> seen]
<1>2. run' = [run EXCEPT ![r] = next]
  BY DEF Compute
<1> HIDE DEF card, seen
<1>3. /\ next.pc = "persist" /\ next.at = run[r].at /\ next.since = run[r].since
      /\ next.alone = run[r].alone /\ next.card = card
  OBVIOUS
<1> HIDE DEF next
<1>4. run'[r] = next /\ DOMAIN run' = Runs /\ \A q \in Runs \ {r} : run'[q] = run[q]
  BY <1>1, <1>2
<1>5. /\ run'[r].pc = "persist" /\ run'[r].at = run[r].at /\ run'[r].since = run[r].since
      /\ run'[r].alone = run[r].alone /\ run'[r].card = card
  BY <1>3, <1>4
<1> QED
  BY <1>1, <1>4, <1>5 DEF next, card, seen
-----------------------------------------------------------------------------
(***************************************************************************)
(* The lower end of the interval exists: nothing is always a candidate.    *)
(***************************************************************************)
LEMMA LowerCiIsARate ==
  ASSUME NEW hits \in Nat, NEW n \in Nat
  PROVE  LowerCi(hits, n) \in 0..100
<1> DEFINE S == {t \in 0..100 :
                   /\ t * n <= 100 * hits
                   /\ 100 * (100 * hits - t * n) * (100 * hits - t * n) >= 384 * n * t * (100 - t)}
<1>1. 0 \in S
  <2>1. 0 * n = 0 /\ 100 * hits \in Nat /\ 100 * hits - 0 = 100 * hits /\ 384 * n * 0 * (100 - 0) = 0
    OBVIOUS
  <2> DEFINE k == 100 * hits
  <2>2. k \in Nat
    OBVIOUS
  <2> HIDE DEF k
  <2>3. 100 * k * k >= 0
    BY <2>2
  <2>4. 100 * (100 * hits - 0 * n) * (100 * hits - 0 * n) >= 384 * n * 0 * (100 - 0)
    BY <2>1, <2>3 DEF k
  <2> QED
    BY <2>1, <2>4
<1>a. S \in SUBSET (0..100)
  OBVIOUS
<1> HIDE DEF S
<1>2. S \in SUBSET Nat /\ S # {} /\ S \in SUBSET (0..100) /\ \A t \in S : t <= 100
  BY <1>1, <1>a
<1>3. PICK m \in S : \A t \in S : t <= m
  BY <1>2, GreatestNatural
<1>4. Max(S) \in S
  BY <1>2, <1>3 DEF Max
<1> QED
  BY <1>2, <1>4 DEF LowerCi, S

(***************************************************************************)
(* A set of calls is rated as soon as one of them was activated.           *)
(***************************************************************************)
LEMMA RatingOf ==
  ASSUME NEW calls \in SUBSET Calls
  PROVE  /\ Rating(calls) \in {Unrated} \cup 0..100
         /\ Activated(calls) # {} => Rating(calls) # Unrated
<1>1. /\ Cardinality(Hits(calls)) \in Nat /\ Cardinality(Activated(calls)) \in Nat
  <2>1. Hits(calls) \in SUBSET Calls /\ Activated(calls) \in SUBSET Calls
    BY DEF Hits, Activated
  <2> QED
    BY <2>1, CallsAssumption, FS_Subset, FS_CardinalityType
<1>2. LowerCi(Cardinality(Hits(calls)), Cardinality(Activated(calls))) \in 0..100
  BY <1>1, LowerCiIsARate
<1> QED
  BY <1>2 DEF Rating, Unrated

(***************************************************************************)
(* Cards are computed from calls.                                          *)
(***************************************************************************)
LEMMA EvidenceIsOfCalls == \A r : EvidenceAt(r) \in SUBSET Calls
BY DEF EvidenceAt, Evidence

(***************************************************************************)
(* So a card that is computed is one.                                      *)
(***************************************************************************)
LEMMA CardIsTyped ==
  ASSUME NEW calls \in SUBSET Calls, NEW s \in Nat \ {0}
  PROVE  CardOf(calls, s) \in Card \ {NoCard}
BY RatingOf DEF CardOf, Card, NoCard

(***************************************************************************)
(* Every cell of the plan is a row of the table.                           *)
(***************************************************************************)
LEMMA CellsOfPlan == \A i \in DOMAIN Plan : Cell(Plan[i]) \in Cells
BY DEF Cells

(***************************************************************************)
(* What is a run stays one while stamps grow.                              *)
(***************************************************************************)
LEMMA MoreStamps ==
  ASSUME stamp \in Nat, stamp' \in Nat, stamp <= stamp'
  PROVE  {Idle} \cup Computing \cup Persisting \subseteq ({Idle} \cup Computing \cup Persisting)'
<1>1. 0..stamp \subseteq 0..stamp'
  OBVIOUS
<1> QED
  BY <1>1 DEF Computing, Persisting

(***************************************************************************)
(* The runs, after one of them has advanced.                               *)
(***************************************************************************)
LEMMA RunsAfterAdvance ==
  ASSUME CardsTypeOK, NEW r \in Runs, run[r].pc # "idle", Advance(r)
  PROVE  run' \in [Runs -> {Idle} \cup Computing \cup Persisting] /\ refreshed' \in 0..stamp
<1>1. Went(r) /\ run[r].since \in 0..stamp /\ refreshed \in 0..stamp
  BY AdvanceOf, RunsAreTyped DEF CardsTypeOK
<1>2. \A q \in Runs : run'[q] \in {Idle} \cup Computing \cup Persisting
  BY <1>1 DEF Went, CardsTypeOK
<1>3. run' = [q \in Runs |-> run'[q]]
  <2>1. run' = [run EXCEPT ![r] = run'[r]]
    BY DEF Advance, CardsTypeOK
  <2> QED
    BY <2>1 DEF CardsTypeOK
<1> QED
  BY <1>1, <1>2, <1>3 DEF Went
-----------------------------------------------------------------------------
\* What the steps of Signals amount to for the cards.
Elapse ==
  /\ UNCHANGED <<posted, fate, cards, run, stamp, started, refreshed>>
  /\ now' \in Moments /\ now <= now'
  /\ \/ outcomes' = outcomes
     \/ \E c \in Calls, i \in DOMAIN Horizons :
          posted[c] + Horizons[i].ticks <= now /\ outcomes' = outcomes \cup {<<c, Horizons[i].label>>}

(***************************************************************************)
(* A step of the whole is a step of a scoring run, or the cards stay as    *)
(* they are while time passes, outcomes come in and aggregation runs.      *)
(***************************************************************************)
LEMMA CardSteps ==
  ASSUME CardsTypeOK, [Next]_vars
  PROVE  Elapse \/ ScoreNext
<1>0. now \in Moments /\ MaxTime \in Nat
  BY SettingsAssumption DEF CardsTypeOK
<1>1. CASE UNCHANGED cardVars
  BY <1>0, <1>1 DEF cardVars, Elapse, Moments
<1>2. CASE Tick
  BY <1>0, <1>2 DEF Tick, scoreVars, Elapse, Moments
<1>3. CASE OutcomeNext
  <2>1. PICK c \in Calls, i \in DOMAIN Horizons : Resolve(c, Horizons[i])
    BY <1>3 DEF OutcomeNext
  <2> QED
    BY <1>0, <2>1 DEF Resolve, scoreVars, Elapse, Moments
<1> QED
  BY <1>1, <1>2, <1>3 DEF Next, Accept, Aggregate, vars

(***************************************************************************)
(* Every step keeps the types of the cards and the runs.                   *)
(***************************************************************************)
LEMMA CardsTypedStep ==
  ASSUME CardsTypeOK, [Next]_vars
  PROVE  CardsTypeOK'
<1> USE DEF CardsTypeOK
<1>1. CASE Elapse
  <2>1. outcomes' \subseteq Calls \X {Horizons[i].label : i \in DOMAIN Horizons}
    BY <1>1 DEF Elapse
  <2> QED
    BY <1>1, <2>1 DEF Elapse, Computing, Persisting
<1>2. ASSUME NEW r \in Runs, Start(r) PROVE CardsTypeOK'
  <2>1. /\ UNCHANGED <<now, posted, fate, outcomes, cards, stamp, refreshed>>
        /\ started' \in 0..MaxStarts
    BY <1>2, SettingsAssumption DEF Start
  <2>2. \A q \in Runs : run'[q] \in {Idle} \cup Computing \cup Persisting
    BY <1>2, StartOf
  <2>3. run' = [q \in Runs |-> run'[q]]
    BY <1>2 DEF Start
  <2> QED
    BY <2>1, <2>2, <2>3 DEF Computing, Persisting
<1>3. ASSUME NEW r \in Runs, Skip(r) PROVE CardsTypeOK'
  <2>1. UNCHANGED <<now, posted, fate, outcomes, cards, stamp, started>>
    BY <1>3 DEF Skip
  <2>2. run' \in [Runs -> {Idle} \cup Computing \cup Persisting] /\ refreshed' \in 0..stamp
    BY <1>3, RunsAfterAdvance DEF Skip
  <2> QED
    BY <2>1, <2>2 DEF Computing, Persisting
<1>4. ASSUME NEW r \in Runs, Compute(r) PROVE CardsTypeOK'
  <2>1. /\ UNCHANGED <<now, posted, fate, outcomes, cards, started, refreshed>> /\ stamp' = stamp + 1
    BY <1>4 DEF Compute
  <2>2. stamp' \in Nat \ {0} /\ refreshed' \in 0..stamp' /\ run[r].since \in 0..stamp'
    <3>1. run[r].since \in 0..stamp
      BY <1>4, RunsAreTyped DEF Compute
    <3> QED
      BY <2>1, <3>1
  <2>3. run'[r] \in Persisting'
    <3> DEFINE card == CardOf(EvidenceAt(r), stamp + 1)  seen == cards[Cell(Plan[run[r].at])]
    <3>1. card \in Card \ {NoCard}
      BY <2>1, <2>2, CardIsTyped, EvidenceIsOfCalls
    <3>2. run[r].at \in DOMAIN Plan /\ run[r].now \in Moments /\ run[r].alone \in BOOLEAN
      BY <1>4, RunsAreTyped DEF Compute
    <3>3. seen \in Card
      BY <3>2, CellsOfPlan
    <3>4. run'[r] = [pc |-> "persist", at |-> run[r].at, now |-> run[r].now, since |-> run[r].since,
                     alone |-> run[r].alone, card |-> card, seen |-> seen]
      BY <1>4, ComputeOf
    <3> HIDE DEF card, seen, CardsTypeOK
    <3> QED
      BY <2>2, <3>1, <3>2, <3>3, <3>4 DEF Persisting
  <2>4. \A q \in Runs \ {r} : run'[q] = run[q]
    BY <1>4, ComputeOf
  <2>5. {Idle} \cup Computing \cup Persisting \subseteq ({Idle} \cup Computing \cup Persisting)'
    BY <2>1, MoreStamps
  <2>6. \A q \in Runs : run'[q] \in ({Idle} \cup Computing \cup Persisting)'
    BY <2>3, <2>4, <2>5
  <2>7. run' = [q \in Runs |-> run'[q]]
    BY <1>4 DEF Compute
  <2> QED
    BY <2>1, <2>2, <2>6, <2>7
<1>5. ASSUME NEW r \in Runs, Persist(r) PROVE CardsTypeOK'
  <2> DEFINE cell == Cell(Plan[run[r].at])
  <2>1. UNCHANGED <<now, posted, fate, outcomes, stamp, started>> /\ cards' = [cards EXCEPT ![cell] = run[r].card]
    BY <1>5 DEF Persist
  <2>2. run' \in [Runs -> {Idle} \cup Computing \cup Persisting] /\ refreshed' \in 0..stamp
    BY <1>5, RunsAfterAdvance DEF Persist
  <2>3. cell \in Cells /\ run[r].card \in Card
    BY <1>5, RunsAreTyped, CellsOfPlan DEF Persist
  <2> HIDE DEF cell
  <2>4. cards' \in [Cells -> Card]
    BY <2>1, <2>3
  <2> QED
    BY <2>1, <2>2, <2>4 DEF Computing, Persisting
<1>6. ASSUME NEW r \in Runs, Crash(r) PROVE CardsTypeOK'
  BY <1>6 DEF Crash, Computing, Persisting
<1> HIDE DEF CardsTypeOK
<1> QED
  BY <1>1, <1>2, <1>3, <1>4, <1>5, <1>6, CardSteps DEF ScoreNext
-----------------------------------------------------------------------------
\* The calls with an outcome at a horizon: no card counts any other.
AllOf(c, label) == {k \in Calls : Author[k] = c /\ <<k, label>> \in outcomes}

\* A card counts enough of them, and is rated by what it counts.
Sound(card, cell) ==
  /\ card.calls \in SUBSET AllOf(cell[1], cell[3]) /\ card.calls # {}
  /\ Cardinality(card.calls) >= MinN /\ card.rating = Rating(card.calls)

\* Every outcome was stored after its horizon.
OutcomesOK ==
  \A o \in outcomes : \E i \in DOMAIN Horizons :
    Horizons[i].label = o[2] /\ posted[o[1]] + Horizons[i].ticks <= now

\* Stored cards are sound.
CardsOK ==
  \A cell \in Cells : cards[cell] # NoCard => Sound(cards[cell], cell) /\ cards[cell].stamp <= stamp

\* A card that waits is sound, and newer than the start of its run and than the mark.
Pending(card, i, since) ==
  Sound(card, Cell(Plan[i])) /\ card.stamp \in 0..stamp /\ card.stamp > since /\ card.stamp > refreshed

PendingOK == \A r \in Runs : run[r].pc = "persist" => Pending(run[r].card, run[r].at, run[r].since)

\* A run that is alone is the only one.
AloneOK ==
  \A r \in Runs : run[r].pc # "idle" /\ run[r].alone => \A q \in Runs \ {r} : run[q].pc = "idle"

\* The cards are sound.
SoundInv == OutcomesOK /\ CardsOK /\ PendingOK /\ AloneOK

(***************************************************************************)
(* A horizon has a number of ticks.                                        *)
(***************************************************************************)
LEMMA HorizonTicks == \A i \in DOMAIN Horizons : Horizons[i].ticks \in Nat
<1>1. Horizons \in Seq(WindowRows)
  BY SettingsAssumption DEF WindowRows
<1>2. \A i \in DOMAIN Horizons : Horizons[i] \in WindowRows
  BY <1>1
<1> QED
  BY <1>2 DEF WindowRows

(***************************************************************************)
(* A sound card stays sound: outcomes are never taken back, and no call    *)
(* changes its fate.                                                       *)
(***************************************************************************)
LEMMA SoundStays ==
  ASSUME outcomes \subseteq outcomes', fate' = fate
  PROVE  \A card, cell : Sound(card, cell) => Sound(card, cell)'
BY DEF Sound, AllOf, Rating, Activated, Hits

(***************************************************************************)
(* Outcomes and time only grow, and an outcome is stored when its horizon  *)
(* has passed.                                                             *)
(***************************************************************************)
LEMMA OutcomesStep ==
  ASSUME CardsTypeOK, OutcomesOK, [Next]_vars
  PROVE  /\ outcomes \subseteq outcomes' /\ fate' = fate /\ posted' = posted /\ OutcomesOK'
         /\ now <= now'
<1>0. now \in Int
  BY DEF CardsTypeOK, Moments
<1>1. CASE Elapse
  <2>1. /\ outcomes \subseteq outcomes' /\ fate' = fate /\ posted' = posted /\ now \in Int /\ now' \in Int
        /\ now <= now'
    BY <1>0, <1>1 DEF Elapse, Moments
  <2>2. ASSUME NEW o \in outcomes
        PROVE  \E i \in DOMAIN Horizons : Horizons[i].label = o[2] /\ posted[o[1]] + Horizons[i].ticks <= now'
    <3>1. PICK i \in DOMAIN Horizons : Horizons[i].label = o[2] /\ posted[o[1]] + Horizons[i].ticks <= now
      BY DEF OutcomesOK
    <3>2. posted[o[1]] \in Int /\ Horizons[i].ticks \in Int
      BY HorizonTicks DEF CardsTypeOK, Moments
    <3> QED
      BY <2>1, <3>1, <3>2
  <2>3. CASE outcomes' = outcomes
    BY <2>1, <2>2, <2>3 DEF OutcomesOK
  <2>4. ASSUME NEW c \in Calls, NEW i \in DOMAIN Horizons,
               posted[c] + Horizons[i].ticks <= now, outcomes' = outcomes \cup {<<c, Horizons[i].label>>}
        PROVE  OutcomesOK'
    <3>1. posted[c] \in Int /\ Horizons[i].ticks \in Int
      BY HorizonTicks DEF CardsTypeOK, Moments
    <3>2. posted[c] + Horizons[i].ticks <= now'
      BY <2>1, <2>4, <3>1
    <3> QED
      BY <2>1, <2>2, <2>4, <3>2 DEF OutcomesOK
  <2> QED
    BY <1>1, <2>1, <2>3, <2>4 DEF Elapse
<1>2. CASE ScoreNext
  <2>1. UNCHANGED <<now, posted, fate, outcomes>>
    BY <1>2 DEF ScoreNext, Start, Skip, Compute, Persist, Crash
  <2> QED
    BY <1>0, <2>1 DEF OutcomesOK
<1> QED
  BY <1>1, <1>2, CardSteps

(***************************************************************************)
(* A card that is computed is sound, and counts every call with an outcome *)
(* if its window is "all".                                                 *)
(***************************************************************************)
LEMMA ComputedIsSound ==
  ASSUME CardsTypeOK, NEW r \in Runs, Compute(r)
  PROVE  /\ Sound(CardOf(EvidenceAt(r), stamp + 1), Cell(Plan[run[r].at]))
         /\ Plan[run[r].at].window.label = "all" =>
              EvidenceAt(r) = AllOf(Plan[run[r].at].creator, Plan[run[r].at].horizon.label)
<1> DEFINE job == Plan[run[r].at]
           calls == EvidenceAt(r)
<1>1. calls # {} /\ Cardinality(calls) >= MinN
  BY DEF Compute
<1>2. /\ calls \in SUBSET AllOf(job.creator, job.horizon.label)
      /\ job.window.label = "all" => calls = AllOf(job.creator, job.horizon.label)
  BY DEF EvidenceAt, Evidence, AllOf
<1>3. Cell(job)[1] = job.creator /\ Cell(job)[3] = job.horizon.label
  BY DEF Cell
<1>4. CardOf(calls, stamp + 1).calls = calls /\ CardOf(calls, stamp + 1).rating = Rating(calls)
  BY DEF CardOf
<1> HIDE DEF calls, job
<1>5. Sound(CardOf(calls, stamp + 1), Cell(job))
  BY <1>1, <1>2, <1>3, <1>4 DEF Sound
<1> QED
  BY <1>2, <1>5 DEF calls, job

(***************************************************************************)
(* A run that is alone stays so until another one joins it.                *)
(***************************************************************************)
LEMMA AloneStep ==
  ASSUME CardsTypeOK, AloneOK, [Next]_vars
  PROVE  AloneOK'
<1>1. CASE Elapse
  BY <1>1 DEF AloneOK, Elapse
<1>2. ASSUME NEW r \in Runs, Start(r) PROVE AloneOK'
  <2>1. /\ run'[r].alone = (\A q \in Runs : run[q].pc = "idle")
        /\ \A q \in Runs \ {r} : run'[q].pc = run[q].pc /\ (run'[q].pc # "idle" => ~ run'[q].alone)
    BY <1>2, StartOf DEF Alike
  <2> QED
    BY <2>1 DEF AloneOK
<1>3. ASSUME NEW r \in Runs, Skip(r) \/ Persist(r) PROVE AloneOK'
  <2>1. Went(r) /\ run[r].pc # "idle"
    BY <1>3, AdvanceOf DEF Skip, Persist
  <2>2. /\ \A q \in Runs \ {r} : run'[q] = run[q]
        /\ run'[r].pc = "idle" \/ run'[r].alone = run[r].alone
    BY <2>1 DEF Went, Idle
  <2> QED
    BY <2>1, <2>2 DEF AloneOK
<1>4. ASSUME NEW r \in Runs, Compute(r) PROVE AloneOK'
  <2>1. run[r].pc = "compute" /\ run'[r].alone = run[r].alone /\ \A q \in Runs \ {r} : run'[q] = run[q]
    BY <1>4, ComputeOf
  <2> QED
    BY <2>1 DEF AloneOK
<1>5. ASSUME NEW r \in Runs, Crash(r) PROVE AloneOK'
  <2>1. run'[r].pc = "idle" /\ \A q \in Runs \ {r} : run'[q] = run[q]
    BY <1>5 DEF Crash, CardsTypeOK, Idle
  <2> QED
    BY <2>1 DEF AloneOK
<1> QED
  BY <1>1, <1>2, <1>3, <1>4, <1>5, CardSteps DEF ScoreNext

(***************************************************************************)
(* A card that waits to be stored waited before the step, or was computed  *)
(* by it.                                                                  *)
(***************************************************************************)
LEMMA PendingBefore ==
  ASSUME CardsTypeOK, [Next]_vars, NEW q \in Runs, run'[q].pc = "persist"
  PROVE  \/ run[q].pc = "persist" /\ Alike(run[q], run'[q])
         \/ Compute(q)
<1>1. CASE Elapse
  BY <1>1 DEF Elapse, Alike
<1>2. ASSUME NEW r \in Runs, Start(r) PROVE run[q].pc = "persist" /\ Alike(run[q], run'[q])
  <2>1. run'[r].pc = "compute" /\ \A p \in Runs \ {r} : Alike(run[p], run'[p])
    BY <1>2, StartOf DEF Computing
  <2> QED
    BY <2>1 DEF Alike
<1>3. ASSUME NEW r \in Runs, Skip(r) \/ Persist(r) PROVE run[q].pc = "persist" /\ Alike(run[q], run'[q])
  <2>1. Went(r) /\ run[r].pc # "idle"
    BY <1>3, AdvanceOf DEF Skip, Persist
  <2> QED
    BY <2>1 DEF Went, Computing, Idle, Alike
<1>4. ASSUME NEW r \in Runs, Compute(r), r # q PROVE run[q].pc = "persist" /\ Alike(run[q], run'[q])
  BY <1>4, ComputeOf DEF Alike
<1>5. ASSUME NEW r \in Runs, Crash(r) PROVE run[q].pc = "persist" /\ Alike(run[q], run'[q])
  <2>1. run'[r].pc = "idle" /\ \A p \in Runs \ {r} : run'[p] = run[p]
    BY <1>5 DEF Crash, CardsTypeOK, Idle
  <2> QED
    BY <2>1 DEF Alike
<1> QED
  BY <1>1, <1>2, <1>3, <1>4, <1>5, CardSteps DEF ScoreNext

(***************************************************************************)
(* Only a run that met no other moves the mark, and leaves no run behind.  *)
(***************************************************************************)
LEMMA MarkMoves ==
  ASSUME CardsTypeOK, AloneOK, [Next]_vars, refreshed' # refreshed
  PROVE  \E r \in Runs : /\ Skip(r) \/ Persist(r)
                         /\ run[r].alone /\ run[r].at = Len(Plan) /\ refreshed' = run[r].since
                         /\ run' = [run EXCEPT ![r] = Idle]
                         /\ \A q \in Runs \ {r} : run[q].pc = "idle"
                         /\ \A q \in Runs : run'[q] = Idle
<1>1. PICK r \in Runs : Skip(r) \/ Persist(r)
  BY CardSteps DEF Elapse, ScoreNext, Start, Compute, Crash
<1>2. Went(r) /\ run[r].pc # "idle" /\ Advance(r)
  BY <1>1, AdvanceOf DEF Skip, Persist
<1>3. run[r].alone /\ run[r].at = Len(Plan) /\ refreshed' = run[r].since /\ run'[r] = Idle
  BY <1>2 DEF Went
<1>4. \A q \in Runs \ {r} : run[q].pc = "idle" /\ run[q] = Idle /\ run'[q] = Idle
  BY <1>2, <1>3, RunsAreTyped DEF AloneOK, Went
<1>5. run' = [run EXCEPT ![r] = Idle]
  <2>1. ~ Len(Plan) < Len(Plan)
    BY PlanOfLoops
  <2> QED
    BY <1>2, <1>3, <2>1 DEF Advance
<1> QED
  BY <1>1, <1>3, <1>4, <1>5

(***************************************************************************)
(* Stamps only grow.                                                       *)
(***************************************************************************)
LEMMA StampGrows ==
  ASSUME CardsTypeOK, [Next]_vars
  PROVE  stamp \in Nat /\ stamp' \in Nat /\ stamp <= stamp'
<1>1. CardsTypeOK'
  BY CardsTypedStep
<1>2. stamp' = stamp \/ stamp' = stamp + 1
  BY CardSteps DEF Elapse, ScoreNext, Start, Skip, Compute, Persist, Crash
<1> QED
  BY <1>1, <1>2 DEF CardsTypeOK

(***************************************************************************)
(* Every step keeps the cards sound, the stored ones and the waiting ones. *)
(***************************************************************************)
LEMMA SoundStep ==
  ASSUME CardsTypeOK, SoundInv, [Next]_vars
  PROVE  SoundInv'
<1>1. /\ OutcomesOK' /\ AloneOK' /\ stamp \in Nat /\ stamp' \in Nat /\ stamp <= stamp'
      /\ \A card, cell : Sound(card, cell) => Sound(card, cell)'
  BY OutcomesStep, SoundStays, AloneStep, StampGrows DEF SoundInv
<1>2. CardsOK'
  <2>1. ASSUME NEW cell \in Cells, NEW card \in Card, Sound(card, cell), card.stamp <= stamp
        PROVE  Sound(card, cell)' /\ card.stamp <= stamp'
    BY <1>1, <2>1 DEF Card, NoCard
  <2>2. \A cell \in Cells : cards[cell] \in Card
    BY DEF CardsTypeOK
  <2>3. CASE cards' = cards
    BY <2>1, <2>2, <2>3 DEF SoundInv, CardsOK
  <2>4. ASSUME NEW r \in Runs, Persist(r) PROVE CardsOK'
    <3>1. PICK id \in Cells : id = Cell(Plan[run[r].at])
      BY <2>4, RunsAreTyped, CellsOfPlan DEF Persist
    <3>2. PICK card \in Card : card = run[r].card /\ Sound(card, id) /\ card.stamp <= stamp
      BY <2>4, <3>1, <1>1, RunsAreTyped DEF Persist, SoundInv, PendingOK, Pending
    <3>3. \A c \in Cells : cards'[c] = IF c = id THEN card ELSE cards[c]
      <4>1. cards' = [cards EXCEPT ![id] = card]
        BY <2>4, <3>1, <3>2 DEF Persist
      <4> QED
        BY <4>1 DEF CardsTypeOK
    <3> QED
      BY <2>1, <2>2, <3>2, <3>3 DEF SoundInv, CardsOK
  <2> QED
    BY <2>3, <2>4, CardSteps DEF Elapse, ScoreNext, Start, Skip, Compute, Crash
<1>3. PendingOK'
  <2>1. ASSUME NEW q \in Runs, run'[q].pc = "persist"
        PROVE  Pending(run[q].card, run[q].at, run[q].since)'
    <3>1. CASE run[q].pc = "persist" /\ Alike(run[q], run'[q])
      <4>1. PICK card \in Card, i \in DOMAIN Plan, since \in Nat :
              /\ card = run[q].card /\ i = run[q].at /\ since = run[q].since
              /\ card = run'[q].card /\ i = run'[q].at /\ since = run'[q].since
        BY <1>1, <3>1, RunsAreTyped DEF Alike
      <4>2. /\ Sound(card, Cell(Plan[i])) /\ card.stamp \in 0..stamp
            /\ card.stamp > since /\ card.stamp > refreshed
        BY <3>1, <4>1 DEF SoundInv, PendingOK, Pending
      <4>3. refreshed' = refreshed
        BY <3>1, MarkMoves DEF SoundInv, Idle, Alike
      <4>4. Sound(card, Cell(Plan[i]))' /\ card.stamp \in 0..stamp'
        BY <1>1, <4>2
      <4> QED
        BY <4>1, <4>2, <4>3, <4>4 DEF Pending
    <3>2. CASE Compute(q)
      <4>1. PICK card \in Card, i \in DOMAIN Plan, since \in Nat :
              /\ card = CardOf(EvidenceAt(q), stamp + 1) /\ i = run[q].at /\ since = run[q].since
              /\ card = run'[q].card /\ i = run'[q].at /\ since = run'[q].since
              /\ since <= stamp
        <5>1. run[q].pc = "compute"
          BY <3>2 DEF Compute
        <5>2. run[q].at \in DOMAIN Plan /\ run[q].since \in 0..stamp
          BY <5>1, RunsAreTyped
        <5>3. CardOf(EvidenceAt(q), stamp + 1) \in Card
          BY <1>1, CardIsTyped, EvidenceIsOfCalls
        <5>4. /\ run'[q].at = run[q].at /\ run'[q].since = run[q].since
              /\ run'[q].card = CardOf(EvidenceAt(q), stamp + 1)
          BY <3>2, ComputeOf
        <5> QED
          BY <1>1, <5>2, <5>3, <5>4
      <4>2. Sound(card, Cell(Plan[i])) /\ card.stamp = stamp + 1
        <5>1. Sound(CardOf(EvidenceAt(q), stamp + 1), Cell(Plan[run[q].at]))
          BY <3>2, ComputedIsSound
        <5> QED
          BY <4>1, <5>1 DEF CardOf
      <4>3. stamp' = stamp + 1 /\ refreshed' = refreshed /\ refreshed \in 0..stamp
        BY <3>2 DEF Compute, CardsTypeOK
      <4>4. Sound(card, Cell(Plan[i]))'
        BY <1>1, <4>2
      <4> QED
        BY <1>1, <4>1, <4>2, <4>3, <4>4 DEF Pending
    <3> QED
      BY <2>1, <3>1, <3>2, PendingBefore
  <2> QED
    BY <2>1 DEF PendingOK
<1> QED
  BY <1>1, <1>2, <1>3 DEF SoundInv

(***************************************************************************)
(* At the beginning there is no card and no run.                           *)
(***************************************************************************)
LEMMA CardsInitOK == Init => CardsTypeOK /\ SoundInv
<1> SUFFICES ASSUME Init PROVE CardsTypeOK /\ SoundInv
  OBVIOUS
<1>1. CardsTypeOK
  BY SettingsAssumption DEF Init, CardsInit, CardsTypeOK, Moments, Card
<1>2. SoundInv
  BY DEF Init, CardsInit, SoundInv, OutcomesOK, CardsOK, PendingOK, AloneOK, Idle, NoCard
<1> QED
  BY <1>1, <1>2
-----------------------------------------------------------------------------
(***************************************************************************)
(* Among the rated cards of a creator one was computed last: the stamps    *)
(* are bounded.                                                            *)
(***************************************************************************)
LEMMA LatestOf ==
  ASSUME CardsTypeOK, SoundInv, NEW c, Rated(c) # {}
  PROVE  /\ Latest(c) \in Rated(c)
         /\ \A other \in Rated(c) : cards[Latest(c)].stamp >= cards[other].stamp
<1> DEFINE S == {cards[cell].stamp : cell \in Rated(c)}
<1>1. S \in SUBSET Nat /\ S # {} /\ stamp \in Nat /\ \A s \in S : s <= stamp
  <2>1. \A cell \in Rated(c) : cell \in Cells /\ cards[cell] \in Card \ {NoCard} /\ cards[cell].stamp <= stamp
    BY DEF Rated, SoundInv, CardsOK, CardsTypeOK
  <2>2. \A cell \in Rated(c) : cards[cell].stamp \in Nat
    BY <2>1 DEF Card
  <2> QED
    BY <2>1, <2>2 DEF CardsTypeOK
<1>2. PICK s \in S : \A t \in S : t <= s
  BY <1>1, GreatestNatural
<1>3. PICK cell \in Rated(c) : s = cards[cell].stamp
  BY <1>2
<1>4. \A other \in Rated(c) : cards[other].stamp \in Nat /\ cards[cell].stamp >= cards[other].stamp
  BY <1>1, <1>2, <1>3
<1> QED
  BY <1>4 DEF Latest

(***************************************************************************)
(* Where the cards are sound, ratings are earned.                          *)
(***************************************************************************)
LEMMA EarnedOf ==
  ASSUME CardsTypeOK, SoundInv
  PROVE  RatingsAreEarned
<1> SUFFICES ASSUME NEW c \in Creator, Rated(c) # {}
             PROVE  LET cell == Latest(c) IN
                    /\ Cardinality(cards[cell].calls) >= MinN
                    /\ \A k \in cards[cell].calls :
                         Author[k] = c /\ \E i \in DOMAIN Horizons :
                           /\ Horizons[i].label = cell[3] /\ <<k, cell[3]>> \in outcomes
                           /\ posted[k] + Horizons[i].ticks <= now
  BY DEF RatingsAreEarned
<1> DEFINE cell == Latest(c)
<1>1. cell \in Rated(c)
  BY LatestOf
<1>2. cell \in Cells /\ cell[1] = c /\ cards[cell] # NoCard
  BY <1>1 DEF Rated
<1> HIDE DEF cell
<1>3. Sound(cards[cell], cell)
  BY <1>2 DEF SoundInv, CardsOK
<1>4. ASSUME NEW k \in cards[cell].calls
      PROVE  Author[k] = c /\ \E i \in DOMAIN Horizons :
               /\ Horizons[i].label = cell[3] /\ <<k, cell[3]>> \in outcomes
               /\ posted[k] + Horizons[i].ticks <= now
  <2>1. Author[k] = c /\ <<k, cell[3]>> \in outcomes
    BY <1>2, <1>3 DEF Sound, AllOf
  <2>2. PICK i \in DOMAIN Horizons :
          Horizons[i].label = <<k, cell[3]>>[2] /\ posted[<<k, cell[3]>>[1]] + Horizons[i].ticks <= now
    BY <2>1 DEF SoundInv, OutcomesOK
  <2> QED
    BY <2>1, <2>2
<1> QED
  BY <1>3, <1>4 DEF Sound, cell
-----------------------------------------------------------------------------
\* A cell whose card is no newer than a mark.
Stale(cell, mark) == cards[cell] # NoCard /\ cards[cell].stamp <= mark

\* A set of calls that holds those of every stale card of a creator and horizon.
Covers(calls, c, label, mark) ==
  \A cell \in Cells : cell[1] = c /\ cell[3] = label /\ Stale(cell, mark) => cards[cell].calls \subseteq calls

\* If any card of a creator and horizon is stale, the one of all calls is not, and
\* counts every call the stale ones count.
Superseded(c, label, mark) ==
  (\E cell \in Cells : cell[1] = c /\ cell[3] = label /\ Stale(cell, mark)) =>
    /\ <<c, "all", label>> \in Cells /\ ~ Stale(<<c, "all", label>>, mark)
    /\ cards[<<c, "all", label>>] # NoCard
    /\ Covers(cards[<<c, "all", label>>].calls, c, label, mark)

\* The same for the cells of a plan, and for a card on its way to one.
IsAll(i) == Plan[i].window.label = "all"
SupersededAt(i, mark) == Superseded(Plan[i].creator, Plan[i].horizon.label, mark)
CoversAt(card, i, mark) == IsAll(i) => Covers(card.calls, Plan[i].creator, Plan[i].horizon.label, mark)

\* The last run that met no other has superseded every stale card.
RefreshedOK == \A i \in DOMAIN Plan : SupersededAt(i, refreshed)

\* No card on its way undoes that.
PendingCovers == \A r \in Runs : run[r].pc = "persist" => CoversAt(run[r].card, run[r].at, refreshed)

\* An alone run has superseded the cards of the cells behind it, and is about to do so at its own.
AloneDone ==
  \A r \in Runs : run[r].pc # "idle" /\ run[r].alone =>
    /\ \A i \in DOMAIN Plan : i < run[r].at /\ IsAll(i) => SupersededAt(i, run[r].since)
    /\ run[r].pc = "persist" => CoversAt(run[r].card, run[r].at, run[r].since)

\* Stale cards are superseded.
FreshInv == RefreshedOK /\ PendingCovers /\ AloneDone

(***************************************************************************)
(* Where stale cards are superseded they do not speak: the card of all     *)
(* calls counts their calls, so it is rated when one of them is, and it is *)
(* newer.                                                                  *)
(***************************************************************************)
LEMMA StaleOf ==
  ASSUME CardsTypeOK, SoundInv, RefreshedOK
  PROVE  StaleCardsNeverSpeak
<1> SUFFICES ASSUME NEW c \in Creator, Rated(c) # {}, ~ cards[Latest(c)].stamp > refreshed
             PROVE  FALSE
  BY DEF StaleCardsNeverSpeak
<1>1. PICK cell \in Cells : cell = Latest(c)
  BY LatestOf DEF Rated
<1>2. cell \in Rated(c) /\ \A other \in Rated(c) : cards[cell].stamp >= cards[other].stamp
  BY <1>1, LatestOf
<1>3. cell[1] = c /\ cards[cell] # NoCard /\ cards[cell].rating # Unrated /\ cards[cell] \in Card
  BY <1>2 DEF Rated, CardsTypeOK
<1>4. cards[cell].stamp \in Nat /\ refreshed \in Nat /\ cards[cell].stamp <= refreshed
  BY <1>1, <1>3 DEF Card, CardsTypeOK
<1>5. PICK i \in DOMAIN Plan : cell = Cell(Plan[i])
  BY DEF Cells
<1>6. Plan[i].creator = c /\ Plan[i].horizon.label = cell[3]
  BY <1>3, <1>5 DEF Cell
<1> DEFINE all == <<c, "all", cell[3]>>
<1>7. /\ all \in Cells /\ ~ Stale(all, refreshed) /\ cards[all] # NoCard
      /\ Covers(cards[all].calls, c, cell[3], refreshed)
  <2>1. Superseded(c, cell[3], refreshed)
    BY <1>6 DEF RefreshedOK, SupersededAt
  <2>2. Stale(cell, refreshed)
    BY <1>3, <1>4 DEF Stale
  <2> QED
    BY <1>3, <2>1, <2>2 DEF Superseded
<1>8. all[1] = c
  OBVIOUS
<1> HIDE DEF all
<1>9. cards[cell].calls \subseteq cards[all].calls
  BY <1>3, <1>4, <1>7 DEF Covers, Stale
<1>10. /\ cards[cell].rating = Rating(cards[cell].calls) /\ cards[all].rating = Rating(cards[all].calls)
       /\ cards[all].calls \in SUBSET Calls
  BY <1>3, <1>7 DEF SoundInv, CardsOK, Sound, AllOf
<1>11. cards[all].rating # Unrated
  <2>1. Activated(cards[cell].calls) # {}
    BY <1>3, <1>10 DEF Rating
  <2>2. Activated(cards[all].calls) # {}
    BY <1>9, <2>1 DEF Activated
  <2> QED
    BY <1>10, <2>2, RatingOf
<1>12. all \in Rated(c)
  BY <1>7, <1>8, <1>11 DEF Rated
<1>13. cards[all].stamp \in Nat /\ cards[all].stamp > refreshed
  <2>1. cards[all] \in Card \ {NoCard}
    BY <1>7 DEF CardsTypeOK
  <2>2. cards[all].stamp \in Nat
    BY <2>1 DEF Card
  <2> QED
    BY <1>4, <1>7, <2>2 DEF Stale
<1> QED
  BY <1>2, <1>4, <1>12, <1>13
-----------------------------------------------------------------------------
\* What storing a card does to the cells that are stale.
Stores(id, card) == cards' = [cards EXCEPT ![id] = card]

(***************************************************************************)
(* Storing a card that is newer than a mark makes no card stale, and takes *)
(* one out.                                                                *)
(***************************************************************************)
LEMMA StillStale ==
  ASSUME CardsTypeOK, NEW id \in Cells, NEW card \in Card \ {NoCard}, Stores(id, card),
         NEW mark \in Nat, card.stamp > mark
  PROVE  /\ \A cell \in Cells : Stale(cell, mark)' => Stale(cell, mark) /\ cards'[cell] = cards[cell]
         /\ ~ Stale(id, mark)' /\ cards'[id] = card
         /\ \A cell \in Cells \ {id} : cards'[cell] = cards[cell]
<1>1. \A cell \in Cells : cards'[cell] = IF cell = id THEN card ELSE cards[cell]
  BY DEF CardsTypeOK, Stores
<1>2. card.stamp \in Nat
  BY DEF Card
<1> QED
  BY <1>1, <1>2 DEF Stale

(***************************************************************************)
(* So a set of calls that covers the stale cards still covers them.        *)
(***************************************************************************)
LEMMA CoversStays ==
  ASSUME CardsTypeOK, NEW id \in Cells, NEW card \in Card \ {NoCard}, Stores(id, card),
         NEW mark \in Nat, card.stamp > mark
  PROVE  \A calls, c, label : Covers(calls, c, label, mark) => Covers(calls, c, label, mark)'
BY StillStale DEF Covers

(***************************************************************************)
(* Stale cards stay superseded when such a card is stored, and become so   *)
(* when it is the one of all calls and covers them.                        *)
(***************************************************************************)
LEMMA SupersededStays ==
  ASSUME CardsTypeOK, NEW id \in Cells, NEW card \in Card \ {NoCard}, Stores(id, card),
         NEW mark \in Nat, card.stamp > mark,
         NEW c, NEW label, Superseded(c, label, mark) \/ id = <<c, "all", label>>,
         id = <<c, "all", label>> => Covers(card.calls, c, label, mark)
  PROVE  Superseded(c, label, mark)'
<1> SUFFICES ASSUME \E cell \in Cells : cell[1] = c /\ cell[3] = label /\ Stale(cell, mark)'
             PROVE  /\ <<c, "all", label>> \in Cells /\ ~ Stale(<<c, "all", label>>, mark)'
                    /\ cards'[<<c, "all", label>>] # NoCard
                    /\ Covers(cards[<<c, "all", label>>].calls, c, label, mark)'
  BY DEF Superseded
<1>1. \E cell \in Cells : cell[1] = c /\ cell[3] = label /\ Stale(cell, mark)
  BY StillStale
<1>2. CASE id = <<c, "all", label>>
  <2>1. cards'[id] = card /\ ~ Stale(id, mark)'
    BY StillStale
  <2>2. Covers(card.calls, c, label, mark)'
    BY <1>2, CoversStays
  <2> QED
    BY <1>2, <2>1, <2>2 DEF Covers
<1>3. CASE id # <<c, "all", label>>
  <2> DEFINE all == <<c, "all", label>>
  <2>1. all \in Cells /\ ~ Stale(all, mark) /\ cards[all] # NoCard /\ Covers(cards[all].calls, c, label, mark)
    BY <1>1, <1>3 DEF Superseded
  <2>2. cards'[all] = cards[all] /\ ~ Stale(all, mark)'
    BY <1>3, <2>1, StillStale
  <2>3. PICK calls : calls = cards[all].calls
    OBVIOUS
  <2>4. Covers(calls, c, label, mark)'
    BY <2>1, <2>3, CoversStays
  <2> QED
    BY <2>1, <2>2, <2>3, <2>4 DEF Covers
<1> QED
  BY <1>2, <1>3
-----------------------------------------------------------------------------
(***************************************************************************)
(* What a run stores, and where.                                           *)
(***************************************************************************)
LEMMA PersistOf ==
  ASSUME CardsTypeOK, SoundInv, NEW r \in Runs, Persist(r)
  PROVE  \E id \in Cells, card \in Card \ {NoCard}, i \in DOMAIN Plan, since \in Nat :
           /\ id = Cell(Plan[i]) /\ i = run[r].at /\ card = run[r].card /\ since = run[r].since
           /\ Stores(id, card) /\ card.stamp > since /\ card.stamp > refreshed
<1>1. run[r].pc = "persist" /\ run[r].at \in DOMAIN Plan /\ run[r].since \in 0..stamp
      /\ run[r].card \in Card \ {NoCard} /\ stamp \in Nat
  BY RunsAreTyped DEF Persist, CardsTypeOK
<1>2. run[r].card.stamp > run[r].since /\ run[r].card.stamp > refreshed
  BY <1>1 DEF SoundInv, PendingOK, Pending
<1>3. Stores(Cell(Plan[run[r].at]), run[r].card)
  BY DEF Persist, Stores
<1> QED
  BY <1>1, <1>2, <1>3, CellsOfPlan

(***************************************************************************)
(* A cell of all calls that is skipped answers for its horizon too: with   *)
(* so few calls its creator never had a card there.                        *)
(***************************************************************************)
LEMMA SkippedForWant ==
  ASSUME CardsTypeOK, SoundInv, NEW r \in Runs, Skip(r), IsAll(run[r].at), NEW mark
  PROVE  SupersededAt(run[r].at, mark)
<1> DEFINE job == Plan[run[r].at]
           all == AllOf(job.creator, job.horizon.label)
<1>1. EvidenceAt(r) = all
  BY DEF IsAll, EvidenceAt, Evidence, AllOf
<1>2. all = {} \/ Cardinality(all) < MinN
  BY <1>1 DEF Skip
<1>3. IsFiniteSet(all) /\ Cardinality(all) \in Nat
  <2>1. all \in SUBSET Calls
    BY DEF AllOf
  <2> QED
    BY <2>1, CallsAssumption, FS_Subset, FS_CardinalityType
<1>4. ASSUME NEW cell \in Cells, cell[1] = job.creator, cell[3] = job.horizon.label, cards[cell] # NoCard
      PROVE  FALSE
  <2>1. cards[cell].calls \in SUBSET all /\ cards[cell].calls # {} /\ Cardinality(cards[cell].calls) >= MinN
    BY <1>4 DEF SoundInv, CardsOK, Sound
  <2>2. Cardinality(cards[cell].calls) \in Nat /\ Cardinality(cards[cell].calls) <= Cardinality(all)
    BY <1>3, <2>1, FS_Subset, FS_CardinalityType
  <2>3. MinN \in Nat
    BY SettingsAssumption
  <2> HIDE DEF all
  <2> QED
    BY <1>2, <1>3, <2>1, <2>2, <2>3
<1> QED
  BY <1>4 DEF SupersededAt, Superseded, Stale

(***************************************************************************)
(* A run that deals with a cell of all calls leaves no stale card          *)
(* unanswered there, and none anywhere that was answered before.           *)
(***************************************************************************)
LEMMA CellDone ==
  ASSUME CardsTypeOK, SoundInv, NEW r \in Runs, Skip(r) \/ Persist(r), NEW mark \in Nat,
         run[r].pc = "persist" => run[r].card.stamp > mark /\ CoversAt(run[r].card, run[r].at, mark),
         NEW i \in DOMAIN Plan, SupersededAt(i, mark) \/ (i = run[r].at /\ IsAll(i))
  PROVE  SupersededAt(i, mark)'
<1>1. CASE Skip(r)
  <2>1. SupersededAt(i, mark) /\ cards' = cards
    BY <1>1, SkippedForWant DEF Skip
  <2> QED
    BY <2>1 DEF SupersededAt, Superseded, Covers, Stale
<1>2. CASE Persist(r)
  <2>1. PICK id \in Cells, card \in Card \ {NoCard}, k \in DOMAIN Plan :
          id = Cell(Plan[k]) /\ k = run[r].at /\ card = run[r].card /\ Stores(id, card)
    BY <1>2, PersistOf
  <2>2. card.stamp > mark /\ CoversAt(card, k, mark)
    BY <1>2, <2>1 DEF Persist
  <2>3. PICK c, label : c = Plan[i].creator /\ label = Plan[i].horizon.label
    OBVIOUS
  <2>4. id = <<c, "all", label>> => Covers(card.calls, c, label, mark)
    BY <2>1, <2>2 DEF Cell, CoversAt, IsAll
  <2>5. Superseded(c, label, mark) \/ id = <<c, "all", label>>
    BY <2>1, <2>3 DEF SupersededAt, Cell, IsAll
  <2>6. Superseded(c, label, mark)'
    BY <2>1, <2>2, <2>4, <2>5, SupersededStays
  <2> QED
    BY <2>3, <2>6 DEF SupersededAt
<1> QED
  BY <1>1, <1>2

(***************************************************************************)
(* A card that waits keeps covering what it covers.                        *)
(***************************************************************************)
LEMMA CoverKept ==
  ASSUME CardsTypeOK, SoundInv, [Next]_vars, NEW mark \in Nat,
         \A r \in Runs : Persist(r) => run[r].card.stamp > mark
  PROVE  \A card, i : CoversAt(card, i, mark) => CoversAt(card, i, mark)'
<1>1. CASE cards' = cards
  BY <1>1 DEF CoversAt, Covers, Stale
<1>2. ASSUME NEW r \in Runs, Persist(r)
      PROVE  \A card, i : CoversAt(card, i, mark) => CoversAt(card, i, mark)'
  <2>1. PICK id \in Cells, new \in Card \ {NoCard} : Stores(id, new) /\ new.stamp > mark
    BY <1>2, PersistOf
  <2>2. \A calls, c, label : Covers(calls, c, label, mark) => Covers(calls, c, label, mark)'
    BY <2>1, CoversStays
  <2> QED
    BY <2>2 DEF CoversAt
<1> QED
  BY <1>1, <1>2, CardSteps DEF Elapse, ScoreNext, Start, Skip, Compute, Crash

(***************************************************************************)
(* A card computed from all calls covers whatever there is to cover.       *)
(***************************************************************************)
LEMMA ComputedCovers ==
  ASSUME CardsTypeOK, SoundInv, NEW r \in Runs, Compute(r), NEW mark
  PROVE  CoversAt(CardOf(EvidenceAt(r), stamp + 1), run[r].at, mark)
<1> SUFFICES ASSUME IsAll(run[r].at)
             PROVE  Covers(EvidenceAt(r), Plan[run[r].at].creator, Plan[run[r].at].horizon.label, mark)
  BY DEF CoversAt, CardOf
<1>1. EvidenceAt(r) = AllOf(Plan[run[r].at].creator, Plan[run[r].at].horizon.label)
  BY ComputedIsSound DEF IsAll
<1> QED
  BY <1>1 DEF Covers, Stale, SoundInv, CardsOK, Sound

(***************************************************************************)
(* Every step keeps the waiting cards of all calls covering what is stale  *)
(* by the mark.                                                            *)
(***************************************************************************)
LEMMA PendingCoversStep ==
  ASSUME CardsTypeOK, SoundInv, FreshInv, [Next]_vars
  PROVE  PendingCovers'
<1> SUFFICES ASSUME NEW q \in Runs, run'[q].pc = "persist"
             PROVE  CoversAt(run[q].card, run[q].at, refreshed)'
  BY DEF PendingCovers
<1>1. PICK mark \in Nat : mark = refreshed
  BY DEF CardsTypeOK
<1>2. refreshed' = mark
  BY <1>1, MarkMoves DEF SoundInv, Idle
<1>3. \A card, i : CoversAt(card, i, mark) => CoversAt(card, i, mark)'
  <2>1. \A r \in Runs : Persist(r) => run[r].card.stamp > mark
    BY <1>1 DEF Persist, SoundInv, PendingOK, Pending
  <2> QED
    BY <2>1, CoverKept
<1>4. CASE run[q].pc = "persist" /\ Alike(run[q], run'[q])
  <2>1. PICK card, i : card = run[q].card /\ i = run[q].at /\ card = run'[q].card /\ i = run'[q].at
    BY <1>4 DEF Alike
  <2>2. CoversAt(card, i, mark)'
    BY <1>1, <1>3, <1>4, <2>1 DEF FreshInv, PendingCovers
  <2> QED
    BY <1>2, <2>1, <2>2 DEF CoversAt
<1>5. CASE Compute(q)
  <2>1. PICK card, i : card = CardOf(EvidenceAt(q), stamp + 1) /\ i = run[q].at
                       /\ card = run'[q].card /\ i = run'[q].at
    BY <1>5, ComputeOf
  <2>2. CoversAt(card, i, mark)'
    BY <1>3, <1>5, <2>1, ComputedCovers
  <2> QED
    BY <1>2, <2>1, <2>2 DEF CoversAt
<1> QED
  BY <1>4, <1>5, PendingBefore

(***************************************************************************)
(* The cells of all calls that an alone run has dealt with, the one it     *)
(* deals with now included, are answered for.                              *)
(***************************************************************************)
LEMMA CellsDone ==
  ASSUME CardsTypeOK, SoundInv, FreshInv, NEW r \in Runs, Skip(r) \/ Persist(r), run[r].alone,
         NEW since \in Nat, since = run[r].since
  PROVE  \A i \in DOMAIN Plan : i <= run[r].at /\ IsAll(i) => SupersededAt(i, since)'
<1> SUFFICES ASSUME NEW i \in DOMAIN Plan, i <= run[r].at, IsAll(i) PROVE SupersededAt(i, since)'
  OBVIOUS
<1>1. run[r].pc # "idle" /\ run[r].at \in DOMAIN Plan /\ DOMAIN Plan = 1..Len(Plan) /\ Len(Plan) \in Nat
  BY RunsAreTyped, PlanOfLoops DEF Skip, Persist
<1>2. SupersededAt(i, since) \/ i = run[r].at
  <2>1. i < run[r].at => SupersededAt(i, since)
    BY <1>1 DEF FreshInv, AloneDone
  <2> QED
    BY <1>1, <2>1
<1>3. run[r].pc = "persist" => run[r].card.stamp > since /\ CoversAt(run[r].card, run[r].at, since)
  BY <1>1 DEF FreshInv, AloneDone, SoundInv, PendingOK, Pending
<1> QED
  BY <1>2, <1>3, CellDone

(***************************************************************************)
(* Every step keeps the cells behind an alone run answered for, by the     *)
(* stamp it started with.                                                  *)
(***************************************************************************)
LEMMA AloneDoneStep ==
  ASSUME CardsTypeOK, SoundInv, FreshInv, [Next]_vars
  PROVE  AloneDone'
<1> SUFFICES ASSUME NEW r \in Runs, run'[r].pc # "idle", run'[r].alone
             PROVE  /\ \A i \in DOMAIN Plan : i < run'[r].at /\ IsAll(i) => SupersededAt(i, run[r].since)'
                    /\ run'[r].pc = "persist" => CoversAt(run[r].card, run[r].at, run[r].since)'
  BY DEF AloneDone
<1>a. ASSUME cards' = cards
      PROVE  /\ \A i, mark : SupersededAt(i, mark) => SupersededAt(i, mark)'
             /\ \A card, i, mark : CoversAt(card, i, mark) => CoversAt(card, i, mark)'
  BY <1>a DEF SupersededAt, Superseded, CoversAt, Covers, Stale
<1>b. ASSUME run'[r] = run[r], NEW s \in Runs \ {r}, run[s].pc # "idle" PROVE FALSE
  BY <1>b DEF SoundInv, AloneOK
<1>1. CASE Elapse
  <2>1. run' = run /\ cards' = cards
    BY <1>1 DEF Elapse
  <2>2. PICK card, at, since : card = run[r].card /\ at = run[r].at /\ since = run[r].since
    OBVIOUS
  <2> QED
    BY <1>a, <2>1, <2>2 DEF FreshInv, AloneDone
<1>2. ASSUME NEW s \in Runs, Start(s)
      PROVE  /\ \A i \in DOMAIN Plan : i < run'[r].at /\ IsAll(i) => SupersededAt(i, run[r].since)'
             /\ run'[r].pc = "persist" => CoversAt(run[r].card, run[r].at, run[r].since)'
  <2>1. r = s
    BY <1>2, StartOf
  <2>2. run'[r].at = 1 /\ run'[r].pc = "compute"
    BY <1>2, <2>1, StartOf DEF Computing
  <2>3. \A i \in DOMAIN Plan : ~ i < 1
    BY PlanOfLoops
  <2> QED
    BY <2>2, <2>3
<1>3. ASSUME NEW s \in Runs, Skip(s) \/ Persist(s)
      PROVE  /\ \A i \in DOMAIN Plan : i < run'[r].at /\ IsAll(i) => SupersededAt(i, run[r].since)'
             /\ run'[r].pc = "persist" => CoversAt(run[r].card, run[r].at, run[r].since)'
  <2>1. Went(s) /\ run[s].pc # "idle"
    BY <1>3, AdvanceOf DEF Skip, Persist
  <2>2. r = s
    BY <1>b, <2>1 DEF Went
  <2>3. /\ run'[r].pc = "compute" /\ run'[r].at = run[r].at + 1 /\ run'[r].since = run[r].since
        /\ run[r].alone
    BY <2>1, <2>2 DEF Went, Computing, Idle
  <2>4. PICK since \in Nat : since = run[r].since
    BY <2>1, <2>2, RunsAreTyped DEF CardsTypeOK
  <2>5. \A i \in DOMAIN Plan : i <= run[r].at /\ IsAll(i) => SupersededAt(i, since)'
    BY <1>3, <2>2, <2>3, <2>4, CellsDone
  <2>6. ASSUME NEW i \in DOMAIN Plan, i < run'[r].at PROVE i <= run[r].at
    <3>1. run[r].at \in DOMAIN Plan /\ DOMAIN Plan = 1..Len(Plan) /\ Len(Plan) \in Nat
      BY <2>1, <2>2, RunsAreTyped, PlanOfLoops
    <3> QED
      BY <2>3, <2>6, <3>1
  <2>7. since = run'[r].since
    BY <2>3, <2>4
  <2> QED
    BY <2>3, <2>5, <2>6, <2>7
<1>4. ASSUME NEW s \in Runs, Compute(s)
      PROVE  /\ \A i \in DOMAIN Plan : i < run'[r].at /\ IsAll(i) => SupersededAt(i, run[r].since)'
             /\ run'[r].pc = "persist" => CoversAt(run[r].card, run[r].at, run[r].since)'
  <2>1. run[s].pc = "compute" /\ \A q \in Runs \ {s} : run'[q] = run[q]
    BY <1>4, ComputeOf
  <2>2. r = s
    BY <1>b, <2>1
  <2>3. /\ run'[r].at = run[r].at /\ run'[r].since = run[r].since /\ run[r].alone
        /\ run'[r].card = CardOf(EvidenceAt(r), stamp + 1)
    BY <1>4, <2>2, ComputeOf
  <2>4. PICK card, at, since : card = CardOf(EvidenceAt(r), stamp + 1) /\ at = run[r].at /\ since = run[r].since
    OBVIOUS
  <2>5. cards' = cards
    BY <1>4 DEF Compute
  <2>6. CoversAt(card, at, since)'
    BY <1>4, <2>2, <2>4, <2>5, <1>a, ComputedCovers
  <2>7. \A i \in DOMAIN Plan : i < at /\ IsAll(i) => SupersededAt(i, since)'
    BY <1>a, <2>1, <2>2, <2>3, <2>4, <2>5 DEF FreshInv, AloneDone
  <2> QED
    BY <2>3, <2>4, <2>6, <2>7
<1>5. ASSUME NEW s \in Runs, Crash(s) PROVE FALSE
  <2>1. run[s].pc # "idle" /\ run'[s].pc = "idle" /\ \A q \in Runs \ {s} : run'[q] = run[q]
    BY <1>5 DEF Crash, CardsTypeOK, Idle
  <2> QED
    BY <1>b, <2>1
<1> QED
  BY <1>1, <1>2, <1>3, <1>4, <1>5, CardSteps DEF ScoreNext

(***************************************************************************)
(* When an alone run ends it has dealt with every cell, and the stamp it   *)
(* started with becomes the mark.                                          *)
(***************************************************************************)
LEMMA RefreshedStep ==
  ASSUME CardsTypeOK, SoundInv, FreshInv, [Next]_vars
  PROVE  RefreshedOK'
<1>1. CASE refreshed' # refreshed
  <2>1. PICK r \in Runs : /\ Skip(r) \/ Persist(r)
                          /\ run[r].alone /\ run[r].at = Len(Plan) /\ refreshed' = run[r].since
    BY <1>1, MarkMoves DEF SoundInv
  <2>2. PICK since \in Nat : since = run[r].since
    BY <2>1, RunsAreTyped DEF CardsTypeOK, Skip, Persist
  <2>3. \A j \in DOMAIN Plan : IsAll(j) => SupersededAt(j, since)'
    <3>1. \A j \in DOMAIN Plan : j <= run[r].at
      BY <2>1, PlanOfLoops
    <3> QED
      BY <2>1, <2>2, <3>1, CellsDone
  <2>4. ASSUME NEW i \in DOMAIN Plan PROVE SupersededAt(i, since)'
    <3>1. PICK j \in DOMAIN Plan : /\ Plan[j].creator = Plan[i].creator
                                   /\ Plan[j].horizon = Plan[i].horizon
                                   /\ Plan[j].window.label = "all"
      BY PlanOfLoops
    <3>2. SupersededAt(j, since)'
      BY <2>3, <3>1 DEF IsAll
    <3> QED
      BY <3>1, <3>2 DEF SupersededAt
  <2>5. refreshed' = since
    BY <2>1, <2>2
  <2> QED
    BY <2>4, <2>5 DEF RefreshedOK
<1>2. CASE refreshed' = refreshed
  <2>1. PICK mark \in Nat : mark = refreshed
    BY DEF CardsTypeOK
  <2>2. ASSUME NEW i \in DOMAIN Plan PROVE SupersededAt(i, mark)'
    <3>1. SupersededAt(i, mark)
      BY <2>1 DEF FreshInv, RefreshedOK
    <3>2. CASE cards' = cards
      BY <3>1, <3>2 DEF SupersededAt, Superseded, Covers, Stale
    <3>3. ASSUME NEW r \in Runs, Persist(r) PROVE SupersededAt(i, mark)'
      <4>1. run[r].card.stamp > mark /\ CoversAt(run[r].card, run[r].at, mark)
        BY <2>1, <3>3 DEF Persist, SoundInv, PendingOK, Pending, FreshInv, PendingCovers
      <4> QED
        BY <3>1, <3>3, <4>1, CellDone
    <3> QED
      BY <3>2, <3>3, CardSteps DEF Elapse, ScoreNext, Start, Skip, Compute, Crash
  <2> QED
    BY <1>2, <2>1, <2>2 DEF RefreshedOK
<1> QED
  BY <1>1, <1>2

\* The invariant of the cards.
CardsInv == CardsTypeOK /\ SoundInv /\ FreshInv

(***************************************************************************)
(* The invariant of the cards holds at the beginning, when nothing is      *)
(* stale.                                                                  *)
(***************************************************************************)
LEMMA CardsInvInit == Init => CardsInv
<1> SUFFICES ASSUME Init PROVE FreshInv
  BY CardsInitOK DEF CardsInv
<1>1. run = [r \in Runs |-> Idle] /\ \A cell \in Cells : cards[cell] = NoCard
  BY DEF Init, CardsInit
<1>2. \A i : SupersededAt(i, refreshed)
  BY <1>1 DEF SupersededAt, Superseded, Stale
<1> QED
  BY <1>1, <1>2 DEF FreshInv, RefreshedOK, PendingCovers, AloneDone, Idle

(***************************************************************************)
(* Every step keeps it.                                                    *)
(***************************************************************************)
LEMMA CardsInvStep == CardsInv /\ [Next]_vars => CardsInv'
BY CardsTypedStep, SoundStep, PendingCoversStep, AloneDoneStep, RefreshedStep DEF CardsInv, FreshInv

(***************************************************************************)
(* So it holds throughout, beside any steps of aggregation.                *)
(***************************************************************************)
LEMMA CardsInvariant == Spec => []CardsInv
BY CardsInvInit, CardsInvStep, PTL DEF Spec

(***************************************************************************)
(* A card nobody refreshes any more never speaks for its creator (_persist *)
(* of creator.py leaves the cards of skipped cells,                        *)
(* _load_creator_credibility takes the last one computed), for any         *)
(* creators, windows, horizons and runs.                                   *)
(***************************************************************************)
THEOREM StaleCards == Spec => []StaleCardsNeverSpeak
<1>1. CardsInv => StaleCardsNeverSpeak
  BY StaleOf DEF CardsInv, FreshInv
<1> QED
  BY <1>1, CardsInvariant, PTL

(***************************************************************************)
(* A rating stands on enough calls of its creator, each with its final     *)
(* outcome (the query of _compute_one).                                    *)
(***************************************************************************)
THEOREM EarnedRatings == Spec => []RatingsAreEarned
<1>1. CardsInv => RatingsAreEarned
  BY EarnedOf DEF CardsInv
<1> QED
  BY <1>1, CardsInvariant, PTL
-----------------------------------------------------------------------------
(* The signals *)

\* The size of a label.
SizeOf(label) == CHOOSE s \in Sizes : s.label = label

\* What a row of a type other than the consensus may count.
Countable(key) == Feeding(key[3], Window(key[1], SizeOf(key[2]).ticks), NoRows)

\* Every row counts some of those.
RowsOK ==
  \A key \in DOMAIN signals :
    key[3] \in Types /\ (key[3] # "creator_consensus" => signals[key].of \subseteq Countable(key))

(***************************************************************************)
(* More mentions feed a type with more, whatever the ratings, unless it is *)
(* the consensus.                                                          *)
(***************************************************************************)
LEMMA FeedingGrows ==
  ASSUME NEW type \in Types \ {"creator_consensus"}, NEW ms, NEW more, ms \subseteq more
  PROVE  \A cred, other : Feeding(type, ms, cred) \subseteq Feeding(type, more, other)
BY DEF Feeding, Types

(***************************************************************************)
(* A size is found by its label.                                           *)
(***************************************************************************)
LEMMA SizeOfLabel ==
  ASSUME NEW s \in Sizes
  PROVE  SizeOf(s.label) = s
BY SignalAssumption DEF SizeOf

(***************************************************************************)
(* The rows of a run at a close.                                           *)
(***************************************************************************)
LEMMA ComputedRows ==
  ASSUME NEW end, NEW cred
  PROVE  \A key \in DOMAIN Computed(end, cred) :
           \E s \in Sizes, type \in Types :
             /\ key = <<end, s.label, type>>
             /\ Feeding(type, Window(end, s.ticks), cred) # {}
             /\ Computed(end, cred)[key] = Signal(Feeding(type, Window(end, s.ticks), cred), cred)
<1> DEFINE feeding(size, type) == Feeding(type, Window(end, size.ticks), cred)
           fed == {p \in Sizes \X Types : feeding(p[1], p[2]) # {}}
           keys == {<<end, p[1].label, p[2]>> : p \in fed}
<1>1. Computed(end, cred) = [key \in keys |-> Signal(feeding(SizeOf(key[2]), key[3]), cred)]
  BY DEF Computed, SizeOf
<1> SUFFICES ASSUME NEW key \in keys
             PROVE  \E s \in Sizes, type \in Types :
                      /\ key = <<end, s.label, type>> /\ feeding(s, type) # {}
                      /\ Computed(end, cred)[key] = Signal(feeding(s, type), cred)
  BY <1>1
<1>2. PICK p \in fed : key = <<end, p[1].label, p[2]>>
  OBVIOUS
<1>3. p[1] \in Sizes /\ p[2] \in Types /\ feeding(p[1], p[2]) # {}
  BY <1>2
<1>4. SizeOf(key[2]) = p[1] /\ key[3] = p[2]
  BY <1>2, <1>3, SizeOfLabel
<1>5. Computed(end, cred)[key] = Signal(feeding(p[1], p[2]), cred)
  <2> HIDE DEF feeding, fed
  <2> QED
    BY <1>1, <1>4
<1> QED
  BY <1>2, <1>3, <1>5

(***************************************************************************)
(* What may be counted for a row is never taken back: mentions keep their  *)
(* time, and extraction only adds.                                         *)
(***************************************************************************)
LEMMA CountableStays ==
  ASSUME CardsTypeOK, [Next]_vars
  PROVE  /\ accepted \subseteq accepted'
         /\ \A key : key[3] \in Types \ {"creator_consensus"} => Countable(key) \subseteq Countable(key)'
<1>1. accepted \subseteq accepted' /\ posted' = posted /\ made' = made
  <2>1. posted' = posted
    BY CardSteps DEF Elapse, ScoreNext, Start, Skip, Compute, Persist, Crash
  <2> QED
    BY <2>1 DEF Next, Accept, Aggregate, vars
<1>2. \A end, ticks : Window(end, ticks) \subseteq Window(end, ticks)'
  BY <1>1 DEF Window, MadeAt
<1>3. ASSUME NEW key, key[3] \in Types \ {"creator_consensus"}
      PROVE  Countable(key) \subseteq Countable(key)'
  <2> DEFINE ms == Window(key[1], SizeOf(key[2]).ticks)
  <2>1. PICK more : more = ms'
    OBVIOUS
  <2>2. ms \subseteq more
    BY <1>2, <2>1
  <2>3. Countable(key)' = Feeding(key[3], more, NoRows)
    BY <2>1 DEF Countable, Feeding, NoRows
  <2> HIDE DEF ms
  <2>4. Feeding(key[3], ms, NoRows) \subseteq Feeding(key[3], more, NoRows)
    BY <1>3, <2>2, FeedingGrows
  <2> QED
    BY <2>3, <2>4 DEF Countable, ms
<1> QED
  BY <1>1, <1>3

(***************************************************************************)
(* What aggregation leaves under a key.                                    *)
(***************************************************************************)
LEMMA RowsAfter ==
  ASSUME Aggregate
  PROVE  /\ DOMAIN signals \subseteq DOMAIN signals'
         /\ \A key \in DOMAIN signals' :
              \/ key \in DOMAIN signals /\ signals'[key] = signals[key]
              \/ \E s \in Sizes, type \in Types :
                   /\ key = <<LastClose(now), s.label, type>>
                   /\ Feeding(type, Window(LastClose(now), s.ticks), Credibility) # {}
                   /\ signals'[key] = Signal(Feeding(type, Window(LastClose(now), s.ticks), Credibility), Credibility)
<1> DEFINE new == Computed(LastClose(now), Credibility)
<1>1. signals' = [key \in DOMAIN signals \cup DOMAIN new |->
                    IF key \in DOMAIN new THEN new[key] ELSE signals[key]]
  BY DEF Aggregate, Upsert
<1>2. \A key \in DOMAIN new :
        \E s \in Sizes, type \in Types :
          /\ key = <<LastClose(now), s.label, type>>
          /\ Feeding(type, Window(LastClose(now), s.ticks), Credibility) # {}
          /\ new[key] = Signal(Feeding(type, Window(LastClose(now), s.ticks), Credibility), Credibility)
  BY ComputedRows
<1> HIDE DEF new
<1> QED
  BY <1>1, <1>2

(***************************************************************************)
(* A row computed now counts all that may be counted.                      *)
(***************************************************************************)
LEMMA RowsAreFull ==
  ASSUME NEW cred, NEW end, NEW s \in Sizes, NEW type \in Types \ {"creator_consensus"}
  PROVE  LET ms == Feeding(type, Window(end, s.ticks), cred) IN
         ms = Countable(<<end, s.label, type>>) /\ Signal(ms, cred).of = ms
<1> DEFINE w == Window(end, s.ticks)
<1>1. Countable(<<end, s.label, type>>) = Feeding(type, w, NoRows)
  BY SizeOfLabel DEF Countable
<1> HIDE DEF w
<1>2. Feeding(type, w, cred) = Feeding(type, w, NoRows)
  <2>1. \A c, d : Feeding(type, w, c) \subseteq Feeding(type, w, d)
    BY FeedingGrows
  <2> QED
    BY <2>1
<1>3. \A ms : Signal(ms, cred).of = ms
  BY DEF Signal
<1> QED
  BY <1>1, <1>2, <1>3 DEF w

(***************************************************************************)
(* So no row counts more than that, and a rerun at the same close adds to  *)
(* it.                                                                     *)
(***************************************************************************)
LEMMA RowsStep ==
  ASSUME CardsTypeOK, RowsOK, [Next]_vars
  PROVE  /\ RowsOK'
         /\ \A key \in DOMAIN signals : key[3] # "creator_consensus" =>
              key \in DOMAIN signals' /\ signals[key].of \subseteq signals'[key].of
<1>1. CASE signals' = signals
  BY <1>1, CountableStays DEF RowsOK
<1>2. CASE Aggregate
  <2>0. \A key : Countable(key)' = Countable(key)
    BY <1>2 DEF Aggregate, cardVars, Countable, Window, MadeAt, Feeding, NoRows
  <2>1. ASSUME NEW key \in DOMAIN signals'
        PROVE  /\ key[3] \in Types
               /\ key[3] # "creator_consensus" =>
                    /\ signals'[key].of \subseteq Countable(key)
                    /\ key \in DOMAIN signals => signals[key].of \subseteq signals'[key].of
    <3>1. CASE key \in DOMAIN signals /\ signals'[key] = signals[key]
      BY <3>1 DEF RowsOK
    <3>2. ASSUME NEW s \in Sizes, NEW type \in Types, key = <<LastClose(now), s.label, type>>,
                 signals'[key] = Signal(Feeding(type, Window(LastClose(now), s.ticks), Credibility), Credibility)
          PROVE  /\ key[3] \in Types
                 /\ key[3] # "creator_consensus" =>
                      /\ signals'[key].of \subseteq Countable(key)
                      /\ key \in DOMAIN signals => signals[key].of \subseteq signals'[key].of
      <4>1. key[3] = type
        BY <3>2
      <4>2. type # "creator_consensus" => signals'[key].of = Countable(key)
        BY <3>2, RowsAreFull
      <4> QED
        BY <4>1, <4>2 DEF RowsOK
    <3> QED
      BY <1>2, <2>1, <3>1, <3>2, RowsAfter
  <2> QED
    BY <1>2, <2>0, <2>1, RowsAfter DEF RowsOK
<1> QED
  BY <1>1, <1>2 DEF Next, Accept, vars

(***************************************************************************)
(* This holds throughout.                                                  *)
(***************************************************************************)
LEMMA RowsInvariant == Spec => [](CardsTypeOK /\ RowsOK)
<1>1. Init => CardsTypeOK /\ RowsOK
  BY CardsInitOK DEF Init, NoRows, RowsOK
<1>2. CardsTypeOK /\ RowsOK /\ [Next]_vars => (CardsTypeOK /\ RowsOK)'
  BY CardsTypedStep, RowsStep
<1> QED
  BY <1>1, <1>2, PTL DEF Spec

(***************************************************************************)
(* Aggregation never takes a mention out of a signal, the consensus apart  *)
(* (_upsert_signals overwrites the row of the key).                        *)
(***************************************************************************)
THEOREM RerunsAdd == Spec => RerunsOnlyAdd
<1>1. CardsTypeOK /\ RowsOK /\ [Next]_vars =>
        [\A key \in DOMAIN signals : key[3] # "creator_consensus" =>
           key \in DOMAIN signals' /\ signals[key].of \subseteq signals'[key].of]_vars
  BY RowsStep
<1> QED
  BY <1>1, RowsInvariant, PTL DEF Spec, RerunsOnlyAdd
-----------------------------------------------------------------------------
\* The element a sum takes first.
Pick(t) == CHOOSE x \in t : TRUE

\* f sums fun over each of the subsets in P.
Sums(fun, f, P) ==
  f = [t \in P |-> IF t = {} THEN 0 ELSE fun[Pick(t)] + f[t \ {Pick(t)}]]

(***************************************************************************)
(* A sum over a set is the value that a function with the recursion of a   *)
(* fold has for it.                                                        *)
(***************************************************************************)
LEMMA SumIsFolded ==
  ASSUME NEW fun, NEW S
  PROVE  SumFunctionOnSet(fun, S) = (CHOOSE f : Sums(fun, f, SUBSET S))[S]
BY DEF SumFunctionOnSet, FoldFunctionOnSet, MapThenFoldSet, Sums, Pick

(***************************************************************************)
(* What the fold takes first is an element of the set, and leaves a        *)
(* smaller one.                                                            *)
(***************************************************************************)
LEMMA PickOf ==
  ASSUME NEW S, IsFiniteSet(S)
  PROVE  \A t \in SUBSET S :
           /\ IsFiniteSet(t) /\ Cardinality(t) \in Nat /\ Cardinality(t) <= Cardinality(S)
           /\ t # {} => /\ Pick(t) \in t /\ t \ {Pick(t)} \in SUBSET S
                        /\ Cardinality(t \ {Pick(t)}) = Cardinality(t) - 1
<1> SUFFICES ASSUME NEW t \in SUBSET S
             PROVE  /\ IsFiniteSet(t) /\ Cardinality(t) \in Nat /\ Cardinality(t) <= Cardinality(S)
                    /\ t # {} => /\ Pick(t) \in t /\ t \ {Pick(t)} \in SUBSET S
                                 /\ Cardinality(t \ {Pick(t)}) = Cardinality(t) - 1
  OBVIOUS
<1>1. IsFiniteSet(t) /\ Cardinality(t) \in Nat /\ Cardinality(t) <= Cardinality(S)
  BY FS_Subset, FS_CardinalityType
<1>2. t # {} => Pick(t) \in t
  BY DEF Pick
<1> QED
  BY <1>1, <1>2, FS_RemoveElement

(***************************************************************************)
(* A function with this recursion exists, by adding one element after the  *)
(* other.                                                                  *)
(***************************************************************************)
LEMMA SumsExist ==
  ASSUME NEW fun, NEW S, IsFiniteSet(S)
  PROVE  \E f : Sums(fun, f, SUBSET S)
<1> DEFINE Upto(n) == {t \in SUBSET S : Cardinality(t) <= n}
           Bad == {n \in Nat : ~ \E f : Sums(fun, f, Upto(n))}
<1>0. \A t \in SUBSET S :
        /\ IsFiniteSet(t) /\ Cardinality(t) \in Nat /\ Cardinality(t) <= Cardinality(S)
        /\ t # {} => /\ t \ {Pick(t)} \in SUBSET S
                     /\ Cardinality(t \ {Pick(t)}) = Cardinality(t) - 1
  BY PickOf
<1>a. \A t \in SUBSET S : IsFiniteSet(t) /\ Cardinality(t) \in Nat
  BY PickOf
<1>1. ASSUME NEW n \in Nat, \E f : Sums(fun, f, Upto(n)) PROVE \E f : Sums(fun, f, Upto(n + 1))
  <2>1. PICK f : Sums(fun, f, Upto(n))
    BY <1>1
  <2> DEFINE g == [t \in Upto(n + 1) |-> IF t = {} THEN 0 ELSE fun[Pick(t)] + f[t \ {Pick(t)}]]
  <2>2. \A t \in Upto(n) : t \in Upto(n + 1)
    BY <1>a
  <2>3. \A t \in Upto(n) : g[t] = f[t]
    BY <2>1, <2>2 DEF Sums
  <2>4. \A t \in Upto(n + 1) : t # {} => t \ {Pick(t)} \in Upto(n)
    BY <1>0
  <2>5. Sums(fun, g, Upto(n + 1))
    BY <2>3, <2>4 DEF Sums
  <2> QED
    BY <2>5
<1>2. \E f : Sums(fun, f, Upto(0))
  <2> DEFINE g == [t \in Upto(0) |-> 0]
  <2>1. \A t \in Upto(0) : t = {}
    <3> SUFFICES ASSUME NEW t \in SUBSET S, Cardinality(t) <= 0 PROVE t = {}
      OBVIOUS
    <3>1. IsFiniteSet(t) /\ Cardinality(t) = 0
      BY <1>a
    <3> QED
      BY <3>1, FS_EmptySet
  <2>2. Sums(fun, g, Upto(0))
    BY <2>1 DEF Sums
  <2> QED
    BY <2>2
<1>3. ASSUME NEW n \in Nat PROVE \E f : Sums(fun, f, Upto(n))
  <2> HIDE DEF Upto
  <2>1. SUFFICES ASSUME Bad # {} PROVE FALSE
    OBVIOUS
  <2>2. PICK k \in Bad : \A l \in Bad : k <= l
    BY <2>1, LeastNatural
  <2>3. k # 0
    BY <1>2, <2>2
  <2>4. k - 1 \in Nat /\ ~ k <= k - 1 /\ (k - 1) + 1 = k
    BY <2>2, <2>3
  <2>5. \E f : Sums(fun, f, Upto(k - 1))
    BY <2>2, <2>4
  <2>6. \E f : Sums(fun, f, Upto((k - 1) + 1))
    BY <1>1, <2>4, <2>5
  <2> QED
    BY <2>2, <2>4, <2>6
<1>4. Cardinality(S) \in Nat /\ Upto(Cardinality(S)) = SUBSET S
  <2>1. Cardinality(S) \in Nat
    BY <1>0
  <2> QED
    BY <2>1, <1>0
<1> HIDE DEF Upto
<1>5. \E f : Sums(fun, f, Upto(Cardinality(S)))
  BY <1>3, <1>4
<1> QED
  BY <1>4, <1>5

(***************************************************************************)
(* A sum of integers over a finite set is an integer, one of naturals is a *)
(* natural.                                                                *)
(***************************************************************************)
LEMMA SumIsIn ==
  ASSUME NEW S, IsFiniteSet(S), NEW R \in {Int, Nat}, NEW fun \in [S -> R]
  PROVE  SumFunction(fun) \in R
<1>1. PICK f : Sums(fun, f, SUBSET S) /\ SumFunctionOnSet(fun, S) = f[S]
  <2> DEFINE f == CHOOSE f : Sums(fun, f, SUBSET S)
  <2>1. Sums(fun, f, SUBSET S)
    BY SumsExist
  <2>2. SumFunctionOnSet(fun, S) = f[S]
    BY SumIsFolded
  <2> HIDE DEF f
  <2> QED
    BY <2>1, <2>2
<1> DEFINE Bad == {Cardinality(t) : t \in {u \in SUBSET S : f[u] \notin R}}
<1>2. \A t \in SUBSET S : IsFiniteSet(t) /\ Cardinality(t) \in Nat
  BY PickOf
<1>3. Bad = {}
  <2>1. SUFFICES ASSUME Bad # {} PROVE FALSE
    OBVIOUS
  <2>2. Bad \in SUBSET Nat
    BY <1>2
  <2>3. PICK k \in Bad : \A l \in Bad : k <= l
    BY <2>1, <2>2, LeastNatural
  <2>4. PICK t \in SUBSET S : f[t] \notin R /\ k = Cardinality(t)
    BY <2>3
  <2>5. \A u \in SUBSET S : f[u] \notin R => Cardinality(t) <= Cardinality(u)
    BY <2>3, <2>4
  <2>6. t # {} /\ f[t] = fun[Pick(t)] + f[t \ {Pick(t)}]
    <3>1. f[{}] \in R
      BY <1>1 DEF Sums
    <3> QED
      BY <1>1, <2>4, <3>1 DEF Sums
  <2>7. /\ Pick(t) \in S /\ t \ {Pick(t)} \in SUBSET S
        /\ Cardinality(t \ {Pick(t)}) = Cardinality(t) - 1 /\ Cardinality(t) \in Nat
    BY <2>6, PickOf
  <2>8. ~ Cardinality(t) <= Cardinality(t \ {Pick(t)})
    BY <2>7
  <2>9. fun[Pick(t)] \in R /\ f[t \ {Pick(t)}] \in R
    BY <2>5, <2>7, <2>8
  <2>10. \A x, y \in R : x + y \in R
    OBVIOUS
  <2> QED
    BY <2>4, <2>6, <2>9, <2>10
<1>4. f[S] \in R
  BY <1>3
<1>5. DOMAIN fun = S
  OBVIOUS
<1> QED
  BY <1>1, <1>4, <1>5 DEF SumFunction
-----------------------------------------------------------------------------
(***************************************************************************)
(* The credibility of a creator is a rate.                                 *)
(***************************************************************************)
LEMMA CredibilityIsARate ==
  ASSUME CardsTypeOK, SoundInv
  PROVE  \A c \in DOMAIN Credibility : Credibility[c] \in 0..100
<1> SUFFICES ASSUME NEW c \in Creator, Rated(c) # {} PROVE cards[Latest(c)].rating \in 0..100
  BY DEF Credibility
<1>1. Latest(c) \in Rated(c)
  BY LatestOf
<1>2. /\ Latest(c) \in Cells /\ cards[Latest(c)] \in Card /\ cards[Latest(c)] # NoCard
      /\ cards[Latest(c)].rating # Unrated
  BY <1>1 DEF Rated, CardsTypeOK
<1> QED
  BY <1>2 DEF Card

\* A row of signals.
Row == [of : (SUBSET Mentions) \ {{}}, net : Fraction, weighted : Fraction]

(***************************************************************************)
(* A signal is a row: its weights are naturals, so are their sums.         *)
(***************************************************************************)
LEMMA SignalIsTyped ==
  ASSUME NEW cred, \A c \in DOMAIN cred : cred[c] \in 0..100,
         NEW ms \in SUBSET Mentions, ms # {}
  PROVE  Signal(ms, cred) \in Row
<1> DEFINE value    == [m \in ms |-> Value(m)]
           weight   == [m \in ms |-> ClassWeight(m) * CreatorWeight(cred, m)]
           weighted == [m \in ms |-> weight[m] * value[m]]
<1>1. IsFiniteSet(ms) /\ Cardinality(ms) \in Nat
  <2>1. IsFiniteSet(Mentions)
    BY CallsAssumption, ClaimsAssumption, FS_Union DEF Mentions
  <2> QED
    BY <2>1, FS_Subset, FS_CardinalityType
<1>2. ASSUME NEW m \in ms
      PROVE  Value(m) \in Int /\ ClassWeight(m) * CreatorWeight(cred, m) \in Nat
  <2>1. Value(m) \in Int
    BY DEF Value
  <2>2. ClassWeight(m) \in Nat
    BY MentionAssumption DEF ClassWeight, Classes, Mentions
  <2>3. CreatorWeight(cred, m) \in Nat
    BY DEF CreatorWeight, Neutral
  <2> QED
    BY <2>1, <2>2, <2>3
<1>3. value \in [ms -> Int] /\ weight \in [ms -> Nat]
  BY <1>2
<1>4. weighted \in [ms -> Int]
  <2>1. ASSUME NEW m \in ms PROVE weight[m] * value[m] \in Int
    <3>1. weight[m] \in Int /\ value[m] \in Int
      BY <1>3
    <3> HIDE DEF weight, value
    <3> QED
      BY <3>1
  <2> HIDE DEF weight, value
  <2> QED
    BY <2>1
<1>5. Signal(ms, cred) = [of |-> ms, net |-> <<SumFunction(value), Cardinality(ms)>>,
                          weighted |-> IF SumFunction(weight) = 0 THEN Null
                                       ELSE <<SumFunction(weighted), SumFunction(weight)>>]
  BY DEF Signal
<1> HIDE DEF value, weight, weighted
<1>6. SumFunction(value) \in Int /\ SumFunction(weight) \in Nat /\ SumFunction(weighted) \in Int
  BY <1>1, <1>3, <1>4, SumIsIn
<1>7. Null \in Fraction /\ <<SumFunction(value), Cardinality(ms)>> \in Fraction
      /\ <<SumFunction(weighted), SumFunction(weight)>> \in Fraction
  BY <1>1, <1>6 DEF Fraction, Null
<1> QED
  BY <1>5, <1>7 DEF Row

\* The keys of rows.
Keys == Moments \X {s.label : s \in Sizes} \X Types

\* The types of all variables, with what the ratings need.
SignalsInv ==
  /\ CardsInv
  /\ made \in [Claims -> Moments] /\ accepted \subseteq Mentions
  /\ \A key \in DOMAIN signals : key \in Keys /\ signals[key] \in Row

(***************************************************************************)
(* Every step keeps the types of all variables.                            *)
(***************************************************************************)
LEMMA SignalsInvStep ==
  ASSUME SignalsInv, [Next]_vars
  PROVE  SignalsInv'
<1>1. CardsInv'
  BY CardsInvStep DEF SignalsInv
<1>2. made' \in [Claims -> Moments] /\ accepted' \subseteq Mentions
  BY DEF SignalsInv, Next, Accept, Aggregate, vars
<1>3. ASSUME Aggregate, NEW key \in DOMAIN signals' PROVE key \in Keys /\ signals'[key] \in Row
  <2>1. CASE key \in DOMAIN signals /\ signals'[key] = signals[key]
    BY <2>1 DEF SignalsInv
  <2>2. ASSUME NEW s \in Sizes, NEW type \in Types, key = <<LastClose(now), s.label, type>>,
               Feeding(type, Window(LastClose(now), s.ticks), Credibility) # {},
               signals'[key] = Signal(Feeding(type, Window(LastClose(now), s.ticks), Credibility), Credibility)
        PROVE  key \in Keys /\ signals'[key] \in Row
    <3> DEFINE ms == Feeding(type, Window(LastClose(now), s.ticks), Credibility)
    <3>1. LastClose(now) \in Moments
      <4>1. now \in Nat /\ now <= MaxTime /\ MaxTime \in Nat /\ Session \in Nat \ {0}
        BY SettingsAssumption, SignalAssumption DEF SignalsInv, CardsInv, CardsTypeOK, Moments
      <4>2. now - (now % Session) \in Nat /\ now - (now % Session) <= now
        <5>1. now \div Session \in Nat /\ now % Session \in Nat /\ (now \div Session) * Session \in Nat
              /\ now = (now \div Session) * Session + (now % Session)
          BY <4>1, Remainder
        <5> QED
          BY <4>1, <5>1
      <4> QED
        BY <4>1, <4>2 DEF LastClose, Moments
    <3>2. ms \in SUBSET Mentions
      <4>1. Window(LastClose(now), s.ticks) \subseteq Mentions
        BY DEF SignalsInv, Window
      <4> QED
        BY <4>1 DEF Feeding, Types
    <3>3. \A c \in DOMAIN Credibility : Credibility[c] \in 0..100
      BY CredibilityIsARate DEF SignalsInv, CardsInv
    <3>4. ms # {} /\ signals'[key] = Signal(ms, Credibility)
      BY <2>2
    <3> HIDE DEF ms
    <3>5. signals'[key] \in Row
      BY <3>2, <3>3, <3>4, SignalIsTyped
    <3> QED
      BY <2>2, <3>1, <3>5 DEF Keys
  <2> QED
    BY <1>3, <2>1, <2>2, RowsAfter
<1>4. \A key \in DOMAIN signals' : key \in Keys /\ signals'[key] \in Row
  BY <1>3 DEF Next, Accept, vars, SignalsInv
<1> QED
  BY <1>1, <1>2, <1>4 DEF SignalsInv, Keys, Row, Fraction

(***************************************************************************)
(* So they hold throughout.                                                *)
(***************************************************************************)
LEMMA SignalsInvariant == Spec => []SignalsInv
<1>1. Init => SignalsInv
  BY CardsInvInit DEF Init, NoRows, SignalsInv
<1> QED
  BY <1>1, SignalsInvStep, PTL DEF Spec

(***************************************************************************)
(* The variables of the signals and the scorecards keep their types: in    *)
(* particular every row counts a mention, and every rating is a rate.      *)
(***************************************************************************)
THEOREM SignalsTypeCorrect == Spec => []TypeOK
<1>1. SignalsInv => TypeOK
  BY DEF SignalsInv, CardsInv, TypeOK, Keys, Row
<1> QED
  BY <1>1, SignalsInvariant, PTL
=============================================================================
