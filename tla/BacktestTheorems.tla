-------------------------- MODULE BacktestTheorems --------------------------
(***************************************************************************)
(* The operators of Evaluation, for every bar, call and frame, and the     *)
(* safety of the backtest stage, for every tape, every set of calls, any   *)
(* number of processes and every bound.                                    *)
(*                                                                         *)
(* The invariants about rows are not inductive by themselves, because the  *)
(* rows a process still has to persist were computed at an earlier time:   *)
(* the strengthening states them of the work in hand too.                  *)
(***************************************************************************)
EXTENDS Backtest, FiniteSetTheorems, WellFoundedInduction, TLAPS

(***************************************************************************)
(* A set of naturals has a least element.                                  *)
(***************************************************************************)
LEMMA LeastNatural ==
  ASSUME NEW S \in SUBSET Nat, S # {}
  PROVE  \E m \in S : \A t \in S : m <= t
<1> DEFINE R == {p \in Nat \X Nat : p[1] < p[2]}
<1>1. IsWellFoundedOn(R, Nat)
  BY NatLessThanWellFounded DEF OpToRel
<1>2. PICK m \in S : \A t \in S : ~ (<<t, m>> \in R)
  BY <1>1, WFMin
<1>3. ASSUME NEW t \in S PROVE m <= t
  <2>1. <<t, m>> \in Nat \X Nat /\ ~ t < m
    BY <1>2
  <2> QED
    BY <2>1
<1> QED
  BY <1>3

(***************************************************************************)
(* A bounded one has a greatest element.                                   *)
(***************************************************************************)
LEMMA GreatestNatural ==
  ASSUME NEW S \in SUBSET Nat, S # {}, NEW b \in Nat, \A t \in S : t <= b
  PROVE  \E m \in S : \A t \in S : t <= m
<1>0. \A t \in S : t \in Nat /\ b - t \in Nat
  OBVIOUS
<1>1. PICK k \in {b - t : t \in S} : \A l \in {b - t : t \in S} : k <= l
  <2>1. {b - t : t \in S} \in SUBSET Nat /\ {b - t : t \in S} # {}
    BY <1>0
  <2> QED
    BY <2>1, LeastNatural
<1>2. PICK m \in S : k = b - m
  BY <1>1
<1>3. \A t \in S : t <= m
  BY <1>0, <1>1, <1>2
<1> QED
  BY <1>3
-----------------------------------------------------------------------------
(* Evaluation *)

(***************************************************************************)
(* What First returns: the least element.                                  *)
(***************************************************************************)
LEMMA FirstIsLeast ==
  ASSUME NEW S \in SUBSET Nat, S # {}
  PROVE  First(S) \in S /\ \A t \in S : First(S) <= t
BY LeastNatural DEF First

(***************************************************************************)
(* What Last returns on a bounded set: the greatest element.               *)
(***************************************************************************)
LEMMA LastIsGreatest ==
  ASSUME NEW S \in SUBSET Nat, S # {}, NEW b \in Nat, \A t \in S : t <= b
  PROVE  Last(S) \in S /\ \A t \in S : t <= Last(S)
BY GreatestNatural DEF Last

(***************************************************************************)
(* A call that a bar activates fills at a price the bar has traded at: the *)
(* sanity check of ADR 0003 on entry_fill_price, for every kind of call    *)
(* and every bar, gaps included.                                           *)
(***************************************************************************)
THEOREM FillIsWithinTheBar ==
  ASSUME NEW c \in Shape, NEW bar \in Bar, AtMarket(c) \/ Touches(c, bar)
  PROVE  bar.low <= Fill(c, bar) /\ Fill(c, bar) <= bar.high
<1>1. /\ bar.open \in Nat /\ bar.high \in Nat /\ bar.low \in Nat
      /\ bar.low <= bar.open /\ bar.open <= bar.high
  BY DEF Bar, Price
<1>2. c.price \in Nat /\ c.entry \in EntryTypes /\ c.direction \in Directions
  BY DEF Shape
<1>3. CASE AtMarket(c)
  BY <1>1, <1>3 DEF Fill
<1>4. CASE ~ AtMarket(c)
  BY <1>1, <1>2, <1>4 DEF AtMarket, Touches, Fill, Lower, Higher, EntryTypes
<1> QED
  BY <1>3, <1>4

(***************************************************************************)
(* The extremes _process_call's metrics are built on exist and bound every *)
(* bar of a window with finitely many sessions.                            *)
(***************************************************************************)
LEMMA LowestIsLeast ==
  ASSUME NEW D, NEW daily \in [D -> Bar], NEW win \in SUBSET D, win # {}
  PROVE  /\ Lowest(daily, win) \in {daily[t].low : t \in win}
         /\ \A t \in win : Lowest(daily, win) <= daily[t].low
         /\ Lowest(daily, win) \in Nat
<1>1. \A t \in win : daily[t].low \in Nat
  BY DEF Bar, Price
<1> DEFINE S == {daily[t].low : t \in win}
<1>2. S \in SUBSET Nat /\ S # {}
  BY <1>1
<1>3. PICK m \in S : \A p \in S : m <= p
  BY <1>2, LeastNatural
<1>4. \E p \in S : \A t \in win : p <= daily[t].low
  BY <1>3
<1>5. /\ Lowest(daily, win) \in S
      /\ \A t \in win : Lowest(daily, win) <= daily[t].low
  BY <1>4 DEF Lowest
<1> QED
  BY <1>2, <1>5

LEMMA HighestIsGreatest ==
  ASSUME NEW b \in Nat, NEW D \in SUBSET (1..b), NEW daily \in [D -> Bar],
         NEW win \in SUBSET D, win # {}
  PROVE  /\ Highest(daily, win) \in {daily[t].high : t \in win}
         /\ \A t \in win : daily[t].high <= Highest(daily, win)
         /\ Highest(daily, win) \in Nat
<1>1. \A t \in win : daily[t].high \in Nat
  BY DEF Bar, Price
<1> DEFINE S == {daily[t].high : t \in win}
           Upto(k) == win \cap (1..k)
           HasTop(k) == \E m \in Upto(k) : \A t \in Upto(k) : daily[t].high <= daily[m].high
           Failing == {k \in Nat : Upto(k) # {} /\ ~ HasTop(k)}
<1>2. Failing = {}
  <2>1. SUFFICES ASSUME Failing # {} PROVE FALSE
    OBVIOUS
  <2>2. PICK k \in Failing : \A j \in Failing : k <= j
    BY <2>1, LeastNatural
  <2>3. k \in Nat /\ k # 0
    BY <2>2
  <2>4. k - 1 \in Nat /\ k - 1 \notin Failing
    BY <2>2, <2>3
  <2>5. Upto(k) = Upto(k - 1) \cup (win \cap {k})
    BY <2>3
  <2>6. CASE Upto(k - 1) = {}
    <3>1. Upto(k) = {k}
      BY <2>2, <2>5, <2>6
    <3>2. daily[k].high <= daily[k].high
      BY <3>1, <1>1
    <3>3. HasTop(k)
      BY <3>1, <3>2
    <3> QED
      BY <2>2, <3>3
  <2>7. CASE Upto(k - 1) # {}
    <3>1. HasTop(k - 1)
      BY <2>4, <2>7
    <3>2. PICK m \in Upto(k - 1) : \A t \in Upto(k - 1) : daily[t].high <= daily[m].high
      BY <3>1
    <3>3. CASE k \notin win
      BY <2>2, <2>5, <3>2, <3>3
    <3>4. CASE k \in win /\ daily[k].high <= daily[m].high
      BY <2>2, <2>5, <3>2, <3>4
    <3>5. CASE k \in win /\ ~ (daily[k].high <= daily[m].high)
      <4>1. \A t \in Upto(k - 1) : daily[t].high <= daily[k].high
        BY <3>2, <3>5, <1>1
      <4>2. daily[k].high <= daily[k].high
        BY <3>5, <1>1
      <4>3. \A t \in Upto(k) : daily[t].high <= daily[k].high
        BY <2>5, <4>1, <4>2
      <4> QED
        BY <2>2, <2>5, <3>5, <4>3
    <3> QED
      BY <3>3, <3>4, <3>5
  <2> QED
    BY <2>6, <2>7
<1>3. Upto(b) = win
  OBVIOUS
<1>4. HasTop(b)
  BY <1>2, <1>3
<1>5. \E p \in S : \A t \in win : daily[t].high <= p
  BY <1>3, <1>4
<1>6. /\ Highest(daily, win) \in S
      /\ \A t \in win : daily[t].high <= Highest(daily, win)
  BY <1>5 DEF Highest
<1> QED
  BY <1>1, <1>6

(***************************************************************************)
(* The window compute_outcome slices holds the activation session and ends *)
(* at a session that is not before it.                                     *)
(***************************************************************************)
LEMMA SliceHoldsTheActivation ==
  ASSUME NEW b \in Nat, NEW daily, DOMAIN daily \in SUBSET (1..b),
         NEW s \in DOMAIN daily, NEW n \in Nat \ {0}
  PROVE  /\ s \in SliceWindow(daily, s, n)
         /\ SliceWindow(daily, s, n) \in SUBSET (1..b)
         /\ Last(SliceWindow(daily, s, n)) \in SliceWindow(daily, s, n)
         /\ s <= Last(SliceWindow(daily, s, n))
         /\ Last(SliceWindow(daily, s, n)) <= s + n - 1
<1> DEFINE win == SliceWindow(daily, s, n)
<1>1. s \in win /\ win \in SUBSET (1..b)
  BY DEF SliceWindow, Stamp, HorizonEnd, CloseAt
<1>2. Last(win) \in win /\ s <= Last(win)
  <2>1. win \in SUBSET Nat /\ win # {} /\ \A t \in win : t <= b
    BY <1>1
  <2> HIDE DEF win
  <2> QED
    BY <1>1, <2>1, LastIsGreatest
<1>3. \A t \in win : t <= s + n - 1
  BY <1>1 DEF SliceWindow, Stamp, HorizonEnd, CloseAt
<1> QED
  BY <1>1, <1>2, <1>3

(***************************************************************************)
(* The metrics of a row bracket each other, for every call, bars and       *)
(* horizon: the adverse excursion is a loss, the favourable one a gain,    *)
(* and the return at the exit lies between them.                           *)
(***************************************************************************)
THEOREM MetricsBracketTheReturn ==
  ASSUME NEW b \in Nat, NEW D \in SUBSET (1..b), NEW daily \in [D -> Bar],
         NEW c \in Shape, NEW s \in D, NEW n \in Nat \ {0},
         AtMarket(c) \/ Touches(c, daily[s])
  PROVE  LET o == ComputeOutcome(c, daily, s, n)
         IN  /\ o.mae <= o.gross /\ o.gross <= o.mfe
             /\ o.mae <= 0 /\ 0 <= o.mfe
<1> DEFINE win  == SliceWindow(daily, s, n)
           exit == Last(win)
           fill == Fill(c, daily[s])
           hi   == Highest(daily, win)
           lo   == Lowest(daily, win)
<1>1. s \in win /\ exit \in win /\ win \in SUBSET D /\ win # {}
  <2>1. s \in win /\ exit \in win
    BY SliceHoldsTheActivation
  <2> QED
    BY <2>1 DEF SliceWindow
<1>2. \A t \in win : lo <= daily[t].low /\ daily[t].high <= hi
  BY <1>1, LowestIsLeast, HighestIsGreatest
<1>3. lo \in Nat /\ hi \in Nat
  BY <1>1, LowestIsLeast, HighestIsGreatest
<1>4. daily[s].low <= fill /\ fill <= daily[s].high
  BY FillIsWithinTheBar
<1>5. \A t \in win : /\ daily[t].low \in Nat /\ daily[t].high \in Nat /\ daily[t].close \in Nat
                     /\ daily[t].low <= daily[t].close /\ daily[t].close <= daily[t].high
  BY <1>1 DEF Bar, Price
<1>6. fill \in Nat
  <2>1. daily[s].open \in Nat
    BY DEF Bar, Price
  <2>2. c.price \in Nat
    BY DEF Shape
  <2> QED
    BY <2>1, <2>2 DEF Fill, Lower, Higher
<1> DEFINE close == daily[exit].close
<1>7. /\ lo <= fill /\ fill <= hi
      /\ lo <= close /\ close <= hi
      /\ close \in Nat
  <2> HIDE DEF lo, hi, fill, win, exit
  <2> QED
    BY <1>1, <1>2, <1>3, <1>4, <1>5, <1>6
<1>8. LET o == ComputeOutcome(c, daily, s, n)
      IN  /\ o.gross = Signed(c, fill, close)
          /\ o.mfe = Mfe(c, fill, daily, win)
          /\ o.mae = Mae(c, fill, daily, win)
  BY DEF ComputeOutcome
<1> HIDE DEF lo, hi, fill, win, exit, close
<1>9. CASE c.direction = "long"
  <2>1. /\ Signed(c, fill, close) = close - fill
        /\ Mfe(c, fill, daily, win) = hi - fill
        /\ Mae(c, fill, daily, win) = lo - fill
    BY <1>9 DEF Signed, Mfe, Mae, hi, lo
  <2> QED
    BY <2>1, <1>3, <1>6, <1>7, <1>8
<1>10. CASE c.direction # "long"
  <2>1. /\ Signed(c, fill, close) = fill - close
        /\ Mfe(c, fill, daily, win) = fill - lo
        /\ Mae(c, fill, daily, win) = fill - hi
    BY <1>10 DEF Signed, Mfe, Mae, hi, lo
  <2> QED
    BY <2>1, <1>3, <1>6, <1>7, <1>8
<1> QED
  BY <1>9, <1>10

(***************************************************************************)
(* What DetermineActivation returns: the first session that enters.        *)
(***************************************************************************)
LEMMA ActivationIsTheFirstEntry ==
  ASSUME NEW daily, DOMAIN daily \in SUBSET (Nat \ {0}), NEW c, NEW post,
         DetermineActivation(c, daily, post) # NoSession
  PROVE  /\ DetermineActivation(c, daily, post) \in Entries(c, daily, post)
         /\ \A t \in Entries(c, daily, post) : DetermineActivation(c, daily, post) <= t
<1>1. Entries(c, daily, post) \in SUBSET Nat
  BY DEF Entries, Window, BarsAfter
<1>2. Entries(c, daily, post) # {}
  BY DEF DetermineActivation
<1> QED
  BY <1>1, <1>2, FirstIsLeast DEF DetermineActivation

LEMMA ActivationOfAnEntry ==
  ASSUME NEW daily, DOMAIN daily \in SUBSET (Nat \ {0}), NEW c, NEW post,
         NEW s \in Entries(c, daily, post),
         \A t \in Entries(c, daily, post) : s <= t
  PROVE  DetermineActivation(c, daily, post) = s
<1>1. Entries(c, daily, post) \in SUBSET Nat /\ Entries(c, daily, post) # {}
  BY DEF Entries, Window, BarsAfter
<1>2. /\ First(Entries(c, daily, post)) \in Entries(c, daily, post)
      /\ \A t \in Entries(c, daily, post) : First(Entries(c, daily, post)) <= t
  BY <1>1, FirstIsLeast
<1>3. First(Entries(c, daily, post)) = s
  <2>1. s \in Nat /\ First(Entries(c, daily, post)) \in Nat
    BY <1>1, <1>2
  <2> QED
    BY <2>1, <1>2
<1> QED
  BY <1>1, <1>3 DEF DetermineActivation

(***************************************************************************)
(* Two frames that start with the same bars have the same entries there.   *)
(***************************************************************************)
LEMMA SameBarsSameEntries ==
  ASSUME NEW k \in Nat, NEW N \in Nat, k <= N,
         NEW daily, DOMAIN daily = 1..k, NEW finished, DOMAIN finished = 1..N,
         NEW c, NEW post \in Nat,
         NEW t \in 1..k, daily[t] = finished[t]
  PROVE  t \in Entries(c, daily, post) <=> t \in Entries(c, finished, post)
<1>1. {u \in BarsAfter(daily, post) : u < t} = {u \in BarsAfter(finished, post) : u < t}
  BY DEF BarsAfter
<1>2. t \in BarsAfter(daily, post) <=> t \in BarsAfter(finished, post)
  BY DEF BarsAfter
<1>3. t \in Window(daily, post) <=> t \in Window(finished, post)
  BY <1>1, <1>2, Zenon DEF Window
<1> QED
  BY <1>3 DEF Entries

(***************************************************************************)
(* Hindsight agrees.  Let a frame hold the finished bars of the sessions   *)
(* before k, and the bar of k in whatever state.  If it activates a call   *)
(* and covers a horizon, the finished bars of all sessions activate the    *)
(* call in the same session and give the same outcome.                     *)
(***************************************************************************)
THEOREM HindsightAgrees ==
  ASSUME NEW k \in Nat, NEW N \in Nat, k <= N,
         NEW daily, DOMAIN daily = 1..k, NEW finished, DOMAIN finished = 1..N,
         NEW c, NEW post \in Nat, NEW n \in Nat \ {0},
         \A t \in 1..(k - 1) : daily[t] = finished[t],
         NEW s, s = DetermineActivation(c, daily, post), s # NoSession,
         HorizonCovered(daily, s, n)
  PROVE  /\ DetermineActivation(c, finished, post) = s
         /\ ComputeOutcome(c, finished, s, n) = ComputeOutcome(c, daily, s, n)
<1>1. /\ s \in Entries(c, daily, post)
      /\ \A t \in Entries(c, daily, post) : s <= t
  BY ActivationIsTheFirstEntry
<1>2. s \in 1..k
  BY <1>1 DEF Entries, Window, BarsAfter
<1>3. s + n <= k
  BY <1>2 DEF HorizonCovered, Stamp, HorizonEnd, CloseAt
<1>4. s \in 1..(k - 1)
  BY <1>2, <1>3
<1>5. s \in Entries(c, finished, post)
  BY <1>1, <1>2, <1>4, SameBarsSameEntries
<1>6. ASSUME NEW t \in Entries(c, finished, post) PROVE s <= t
  <2>1. t \in 1..N
    BY DEF Entries, Window, BarsAfter
  <2>2. CASE t < s
    <3>1. t \in 1..k /\ t \in 1..(k - 1)
      BY <2>1, <2>2, <1>2, <1>4
    <3>2. t \in Entries(c, daily, post)
      BY <3>1, SameBarsSameEntries
    <3> QED
      BY <3>2, <1>1
  <2> QED
    BY <2>1, <2>2, <1>2
<1>7. DetermineActivation(c, finished, post) = s
  BY <1>5, <1>6, ActivationOfAnEntry
<1> DEFINE win == SliceWindow(daily, s, n)
<1>8. win = SliceWindow(finished, s, n) /\ win \in SUBSET (1..(k - 1))
  BY <1>2, <1>3 DEF SliceWindow, Stamp, HorizonEnd, CloseAt
<1>9. \A t \in win : daily[t] = finished[t]
  BY <1>8
<1>10. s \in win /\ Last(win) \in win
  BY <1>2, SliceHoldsTheActivation
<1>11. daily[s] = finished[s] /\ daily[Last(win)] = finished[Last(win)]
  BY <1>9, <1>10
<1> HIDE DEF win
<1>12. /\ Highest(daily, win) = Highest(finished, win)
       /\ Lowest(daily, win) = Lowest(finished, win)
  <2>1. {daily[t].high : t \in win} = {finished[t].high : t \in win}
    BY <1>9
  <2>2. {daily[t].low : t \in win} = {finished[t].low : t \in win}
    BY <1>9
  <2>3. \A p : (\A t \in win : daily[t].high <= p) <=> (\A t \in win : finished[t].high <= p)
    BY <1>9
  <2>4. \A p : (\A t \in win : p <= daily[t].low) <=> (\A t \in win : p <= finished[t].low)
    BY <1>9
  <2>5. Highest(daily, win) = Highest(finished, win)
    BY <2>1, <2>3, Zenon DEF Highest
  <2>6. Lowest(daily, win) = Lowest(finished, win)
    BY <2>2, <2>4, Zenon DEF Lowest
  <2> QED
    BY <2>5, <2>6
<1>13. /\ HitTarget(c, daily, win) = HitTarget(c, finished, win)
       /\ HitStop(c, daily, win) = HitStop(c, finished, win)
  BY <1>9 DEF HitTarget, HitStop
<1>14. ComputeOutcome(c, finished, s, n) = ComputeOutcome(c, daily, s, n)
  BY <1>8, <1>11, <1>12, <1>13 DEF ComputeOutcome, Mfe, Mae, win
<1> QED
  BY <1>7, <1>14
(***************************************************************************)
(* The trigger window in the sessions 1..N, after a post on day m: the     *)
(* first TriggerWindow sessions that follow.                               *)
(***************************************************************************)
LEMMA WindowIsAnInterval ==
  ASSUME NEW N \in Nat, NEW daily, DOMAIN daily = 1..N, NEW post \in Nat,
         NEW m \in Nat, Stamp(m) <= post, post < Stamp(m + 1)
  PROVE  /\ BarsAfter(daily, post) = (m + 1)..N
         /\ Window(daily, post) = {s \in (m + 1)..N : s <= m + TriggerWindow}
<1>1. BarsAfter(daily, post) = (m + 1)..N
  BY DEF BarsAfter, Stamp
<1>2. ASSUME NEW s \in (m + 1)..N
      PROVE  Cardinality({t \in BarsAfter(daily, post) : t < s}) = s - 1 - m
  <2>1. {t \in BarsAfter(daily, post) : t < s} = (m + 1)..(s - 1)
    BY <1>1
  <2>2. Cardinality((m + 1)..(s - 1)) = s - 1 - m
    BY FS_Interval
  <2> QED
    BY <2>1, <2>2
<1>3. \A s \in (m + 1)..N : s - 1 - m < TriggerWindow <=> s <= m + TriggerWindow
  BY TriggerWindowAssumption
<1> QED
  BY <1>1, <1>2, <1>3 DEF Window

(***************************************************************************)
(* What an expired window means.  Let a frame hold the finished bars of    *)
(* the sessions before k, and the bar of k in whatever state.  If it has   *)
(* the bars of a whole window and activates nothing, the window is full,   *)
(* lies within the sessions of the frame, and no session of it but the     *)
(* last enters on the finished bars.                                       *)
(***************************************************************************)
LEMMA ExpiryIsEarned ==
  ASSUME NEW k \in Nat, NEW N \in Nat, k <= N,
         NEW daily, DOMAIN daily = 1..k, NEW finished, DOMAIN finished = 1..N,
         NEW c, NEW post \in Nat,
         \A t \in 1..(k - 1) : daily[t] = finished[t],
         DetermineActivation(c, daily, post) = NoSession,
         Cardinality(BarsAfter(daily, post)) >= TriggerWindow
  PROVE  /\ Cardinality(Window(finished, post)) = TriggerWindow
         /\ Window(finished, post) \subseteq 1..k
         /\ Window(finished, post) \cap Entries(c, finished, post)
              \subseteq {Last(Window(finished, post))}
<1> DEFINE window == Window(finished, post)
<1>1. Entries(c, daily, post) = {}
  <2>1. SUFFICES ASSUME Entries(c, daily, post) # {} PROVE FALSE
    OBVIOUS
  <2>2. Entries(c, daily, post) \in SUBSET (1..k)
    BY DEF Entries, Window, BarsAfter
  <2>3. First(Entries(c, daily, post)) \in 1..k
    BY <2>1, <2>2, FirstIsLeast
  <2> QED
    BY <2>1, <2>3 DEF DetermineActivation, NoSession
<1>2. PICK m \in Nat : Stamp(m) <= post /\ post < Stamp(m + 1)
  <2>1. post \div 3 \in Nat
    OBVIOUS
  <2> QED
    BY <2>1 DEF Stamp
<1>3. TriggerWindow \in Nat \ {0}
  BY TriggerWindowAssumption
<1>4. m + TriggerWindow <= k
  <2>1. BarsAfter(daily, post) = (m + 1)..k
    BY <1>2, WindowIsAnInterval
  <2>2. Cardinality((m + 1)..k) = IF m + 1 > k THEN 0 ELSE k - m
    BY FS_Interval
  <2> QED
    BY <1>3, <2>1, <2>2
<1>5. window = (m + 1)..(m + TriggerWindow)
  <2>1. window = {s \in (m + 1)..N : s <= m + TriggerWindow}
    BY <1>2, WindowIsAnInterval
  <2> QED
    BY <1>3, <1>4, <2>1
<1>6. Cardinality(window) = TriggerWindow
  <2>1. m + 1 \in Int /\ m + TriggerWindow \in Int
    BY <1>3
  <2>2. Cardinality(window) = IF m + 1 > m + TriggerWindow THEN 0
                              ELSE (m + TriggerWindow) - (m + 1) + 1
    BY <1>5, <2>1, FS_Interval
  <2> QED
    BY <1>3, <2>2
<1>7. Last(window) = m + TriggerWindow
  <2>1. window \in SUBSET Nat /\ m + TriggerWindow \in window
    BY <1>3, <1>5
  <2>2. \A t \in window : t <= m + TriggerWindow
    BY <1>5
  <2> HIDE DEF window
  <2>3. Last(window) \in window /\ m + TriggerWindow <= Last(window)
    BY <1>3, <2>1, <2>2, LastIsGreatest
  <2>4. Last(window) <= m + TriggerWindow /\ Last(window) \in Nat
    BY <2>1, <2>2, <2>3
  <2> QED
    BY <1>3, <2>3, <2>4
<1>8. ASSUME NEW t \in window, t \in Entries(c, finished, post)
      PROVE  t = m + TriggerWindow
  <2>1. t \in 1..k /\ t <= m + TriggerWindow
    BY <1>3, <1>4, <1>5
  <2>2. CASE t < k
    <3>1. daily[t] = finished[t]
      BY <2>1, <2>2
    <3>2. t \in Entries(c, daily, post)
      BY <1>8, <2>1, <3>1, SameBarsSameEntries
    <3> QED
      BY <1>1, <3>2
  <2> QED
    BY <1>3, <1>4, <2>1, <2>2
<1> QED
  BY <1>3, <1>4, <1>5, <1>6, <1>7, <1>8
-----------------------------------------------------------------------------
(* Backtest *)

\* What NotTriggeredIsEarned says of one row.
Earned(row) ==
  row.status = "not_triggered" =>
    LET window == Window(tape, posted[row.call])
    IN  /\ Cardinality(window) = TriggerWindow
        /\ window \subseteq Opened
        /\ window \cap Entries(call[row.call], tape, posted[row.call])
             \subseteq {Last(window)}

\* What the other properties say of an evaluated row.
Final(row) ==
  Evaluated(row) =>
    /\ row.activation = DetermineActivation(call[row.call], tape, posted[row.call])
    /\ row.outcome = ComputeOutcome(call[row.call], tape, row.activation, row.horizon)
    /\ OpenAt(row.activation) > posted[row.call]
    /\ row.activation <= row.outcome.exit
    /\ CloseAt(row.outcome.exit) <= now

\* What holds of a row when it is computed, and for ever after.
RowSound(row) == Final(row) /\ Earned(row)

\* Where a process stands and what it holds.
ControlOK ==
  /\ now >= CloseAt(1)
  /\ \A r \in Runners : /\ pc[r] = "fetch" => current[r] \in Calls
                        /\ pc[r] = "commit" => work[r] # {}

RowsSound ==
  /\ \A row \in rows : RowSound(row)
  /\ \A r \in Runners : \A row \in work[r] : RowSound(row)

IInv == TypeOK /\ ControlOK /\ OneRowPerHorizon /\ RowsSound
-----------------------------------------------------------------------------
(***************************************************************************)
(* Every frame a fetch can return holds the sessions 1..k for some k, all  *)
(* of them have opened, and all but the last are finished.                 *)
(***************************************************************************)
LEMMA ShapeOfFrames ==
  ASSUME TypeOK, ControlOK, NEW daily \in OnTime \cup Faulty
  PROVE  \E k \in 0..LastSession :
           /\ daily \in [1..k -> Bar]
           /\ \A t \in 1..(k - 1) : daily[t] = tape[t]
           /\ \A t \in 1..k : OpenAt(t) <= now
<1> DEFINE k == Last(Opened)
<1>1. LastSession \in Nat /\ 1 \in Opened /\ Opened \in SUBSET Nat /\ \A t \in Opened : t <= LastSession
  BY SessionAssumption DEF TypeOK, ControlOK, Opened, Sessions, OpenAt, CloseAt
<1>2. k \in Opened /\ \A t \in Opened : t <= k
  BY <1>1, LastIsGreatest
<1>3. k \in 1..LastSession /\ OpenAt(k) <= now /\ now \in Nat
  BY <1>2 DEF Opened, Sessions, TypeOK
<1> HIDE DEF k
<1>4. Opened = 1..k
  <2>1. \A t \in 1..k : t \in Opened
    BY <1>1, <1>3 DEF Opened, Sessions, OpenAt
  <2> QED
    BY <1>1, <1>2, <1>3, <2>1 DEF Opened, Sessions
<1>5. \A t \in 1..(k - 1) : t \in Closed
  BY <1>1, <1>3 DEF Closed, Sessions, OpenAt, CloseAt
<1>6. \A t \in 1..k : tape[t] \in Bar /\ OpenAt(t) <= now
  BY <1>3, <1>4 DEF TypeOK, Sessions, Opened
<1>7. \A view \in FormingViews(tape[k]) : view \in Bar
  <2>1. tape[k] \in Bar
    BY <1>3, <1>6
  <2> QED
    BY <2>1 DEF FormingViews, Bar, Price
<1>8. ASSUME NEW j \in 0..k, NEW frame \in Frames(1..j)
      PROVE  /\ frame \in [1..j -> Bar]
             /\ \A t \in 1..(j - 1) : frame[t] = tape[t]
             /\ \A t \in 1..j : OpenAt(t) <= now
  <2>1. PICK view \in FormingViews(tape[k]) :
           frame = [t \in 1..j |-> IF t \in Closed THEN tape[t] ELSE view]
    BY DEF Frames, k
  <2>2. view \in Bar
    BY <1>7
  <2>3. \A t \in 1..j : t \in 1..k /\ tape[t] \in Bar
    BY <1>3, <1>6
  <2>4. \A t \in 1..(j - 1) : t \in 1..(k - 1) /\ t \in 1..j
    BY <1>3
  <2> QED
    BY <2>1, <2>2, <2>3, <2>4, <1>5, <1>6
<1>9. CASE daily \in Frames(1..k)
  BY <1>3, <1>8, <1>9
<1>10. CASE daily \in Frames(1..(k - 1))
  <2>1. k - 1 \in 0..k /\ k - 1 \in 0..LastSession
    BY <1>3, <1>1
  <2> QED
    BY <2>1, <1>8, <1>10
<1>11. CASE daily \in Frames({})
  <2>1. 0 \in 0..k /\ 0 \in 0..LastSession /\ 1..0 = {}
    BY <1>3, <1>1
  <2> QED
    BY <2>1, <1>8, <1>11
<1>12. Opened \ {Last(Opened)} = 1..(k - 1)
  BY <1>3, <1>4 DEF k
<1> QED
  BY <1>4, <1>9, <1>10, <1>11, <1>12 DEF OnTime, Faulty

(***************************************************************************)
(* The metrics of an outcome have the types of their columns.              *)
(***************************************************************************)
LEMMA OutcomeType ==
  ASSUME NEW k \in 0..LastSession, NEW daily \in [1..k -> Bar],
         NEW c \in Shape, NEW s \in 1..k, NEW n \in Nat \ {0}
  PROVE  ComputeOutcome(c, daily, s, n) \in Outcome
<1> DEFINE win == SliceWindow(daily, s, n)
<1>1. k \in Nat /\ 1..k \in SUBSET Sessions
  BY SessionAssumption DEF Sessions
<1>2. s \in win /\ Last(win) \in win /\ win \in SUBSET (1..k)
  BY <1>1, SliceHoldsTheActivation
<1>3. Lowest(daily, win) \in Nat /\ Highest(daily, win) \in Nat
  BY <1>1, <1>2, LowestIsLeast, HighestIsGreatest
<1>4. daily[s].open \in Nat /\ daily[Last(win)].close \in Nat
  BY <1>2 DEF Bar, Price
<1>5. Fill(c, daily[s]) \in Nat
  BY <1>4 DEF Fill, Lower, Higher, Shape
<1> HIDE DEF win
<1>6. Last(win) \in Sessions
  BY <1>1, <1>2
<1>7. /\ Signed(c, Fill(c, daily[s]), daily[Last(win)].close) \in Int
      /\ Mfe(c, Fill(c, daily[s]), daily, win) \in Int
      /\ Mae(c, Fill(c, daily[s]), daily, win) \in Int
  <2>1. \A x \in Nat : Signed(c, Fill(c, daily[s]), x) \in Int
    BY <1>5 DEF Signed
  <2>2. \A x, y \in Nat : (IF c.direction = "long" THEN x ELSE y) \in Nat
    OBVIOUS
  <2> QED
    BY <1>3, <1>4, <2>1, <2>2 DEF Mfe, Mae
<1>8. /\ HitTarget(c, daily, win) \in {"none", "hit", "miss"}
      /\ HitStop(c, daily, win) \in {"none", "hit", "miss"}
  BY DEF HitTarget, HitStop
<1> QED
  BY <1>6, <1>7, <1>8 DEF ComputeOutcome, Outcome, win

(***************************************************************************)
(* The rows _process_call computes have the type of the table and are      *)
(* sound at the moment it fetched the bars.                                *)
(***************************************************************************)
LEMMA EvaluateIsSound ==
  ASSUME TypeOK, ControlOK, NEW daily \in OnTime \cup Faulty,
         NEW c \in Calls, NEW bench \in BOOLEAN
  PROVE  \A row \in Evaluate(c, daily, bench) : row \in RowType /\ RowSound(row)
<1>1. PICK k \in 0..LastSession :
        /\ daily \in [1..k -> Bar]
        /\ \A t \in 1..(k - 1) : daily[t] = tape[t]
        /\ \A t \in 1..k : OpenAt(t) <= now
  BY ShapeOfFrames
<1>2. k \in Nat /\ LastSession \in Nat /\ k <= LastSession
  BY SessionAssumption
<1>3. /\ call[c] \in Shape /\ posted[c] \in Nat /\ now \in Nat
      /\ DOMAIN daily = 1..k /\ DOMAIN tape = 1..LastSession
  BY <1>1 DEF TypeOK, Sessions
<1>4. NoOutcome \in Outcome
  BY DEF NoOutcome, Outcome, NoSession
<1> DEFINE s == DetermineActivation(call[c], daily, posted[c])
<1>5. ASSUME NEW status \in {"data_missing", "not_triggered"},
             NEW row \in Verdict(c, status),
             status = "not_triggered" =>
               s = NoSession /\ Cardinality(BarsAfter(daily, posted[c])) >= TriggerWindow
      PROVE  row \in RowType /\ RowSound(row)
  <2>2. PICK h \in Horizons : row = Row(c, h, status, NoSession, NoOutcome, FALSE)
    BY DEF Verdict
  <2>3. row \in RowType
    BY <1>4, <2>2 DEF Row, RowType
  <2>4. ~ Evaluated(row) /\ row.call = c /\ row.status = status
    BY <2>2 DEF Row, Evaluated
  <2>5. CASE status = "not_triggered"
    <3> DEFINE shape == call[c]
               post  == posted[c]
    <3>1. /\ DetermineActivation(shape, daily, post) = NoSession
          /\ Cardinality(BarsAfter(daily, post)) >= TriggerWindow
          /\ post \in Nat
      BY <1>3, <1>5, <2>5
    <3>2. \A t \in 1..(k - 1) : daily[t] = tape[t]
      BY <1>1
    <3> HIDE DEF shape, post
    <3>3. /\ Cardinality(Window(tape, post)) = TriggerWindow
          /\ Window(tape, post) \subseteq 1..k
          /\ Window(tape, post) \cap Entries(shape, tape, post) \subseteq {Last(Window(tape, post))}
      BY <1>2, <1>3, <3>1, <3>2, ExpiryIsEarned
    <3>4. 1..k \subseteq Opened
      BY <1>1, <1>2 DEF Opened, Sessions
    <3>5. Earned(row)
      BY <2>4, <3>3, <3>4 DEF Earned, shape, post
    <3> QED
      BY <2>3, <2>4, <3>5 DEF RowSound, Final
  <2>6. CASE status # "not_triggered"
    BY <2>3, <2>4, <2>6 DEF RowSound, Final, Earned
  <2> QED
    BY <2>5, <2>6
<1>6. ASSUME s # NoSession, NEW row \in EvaluatedRows(c, daily, s, bench)
      PROVE  row \in RowType /\ RowSound(row)
  <2>1. PICK n \in Horizons :
           /\ HorizonCovered(daily, s, n)
           /\ row = Row(c, n, "evaluated", s, ComputeOutcome(call[c], daily, s, n), bench)
    BY <1>6 DEF EvaluatedRows
  <2>2. n \in Nat \ {0}
    BY HorizonsAssumption
  <2>3. s \in Entries(call[c], daily, posted[c])
    <3>1. DOMAIN daily \in SUBSET (Nat \ {0})
      BY <1>3
    <3> QED
      BY <1>6, <3>1, ActivationIsTheFirstEntry
  <2>4. s \in 1..k /\ Stamp(s) > posted[c]
    BY <1>3, <2>3 DEF Entries, Window, BarsAfter
  <2> DEFINE o == ComputeOutcome(call[c], daily, s, n)
             exit == Last(SliceWindow(daily, s, n))
  <2>5. o \in Outcome
    BY <1>1, <1>3, <2>2, <2>4, OutcomeType
  <2>6. s \in Sessions
    BY <1>2, <2>4 DEF Sessions
  <2>7. /\ DetermineActivation(call[c], tape, posted[c]) = s
        /\ ComputeOutcome(call[c], tape, s, n) = o
    <3> HIDE DEF s
    <3>1. s = DetermineActivation(call[c], daily, posted[c])
      BY DEF s
    <3>2. \A t \in 1..(k - 1) : daily[t] = tape[t]
      BY <1>1
    <3>3. HorizonCovered(daily, s, n) /\ s # NoSession
      BY <1>6, <2>1
    <3> DEFINE shape == call[c]
               post  == posted[c]
    <3>4. s = DetermineActivation(shape, daily, post) /\ post \in Nat
      BY <1>3, <3>1
    <3> HIDE DEF shape, post
    <3>5. /\ DetermineActivation(shape, tape, post) = s
          /\ ComputeOutcome(shape, tape, s, n) = ComputeOutcome(shape, daily, s, n)
      BY <1>2, <1>3, <2>2, <3>2, <3>3, <3>4, HindsightAgrees
    <3> QED
      BY <3>5 DEF shape, post, o
  <2>8. o.exit = exit
    BY DEF ComputeOutcome
  <2>9. s <= exit /\ exit <= s + n - 1 /\ exit \in Nat
    <3> HIDE DEF s
    <3>1. k \in Nat /\ DOMAIN daily \in SUBSET (1..k) /\ s \in DOMAIN daily
      BY <1>2, <1>3, <2>4
    <3>2. /\ exit \in SliceWindow(daily, s, n)
          /\ SliceWindow(daily, s, n) \in SUBSET (1..k)
          /\ s <= exit /\ exit <= s + n - 1
      BY <2>2, <3>1, SliceHoldsTheActivation
    <3> QED
      BY <3>2
  <2> HIDE DEF s, o, exit
  <2>10. CloseAt(exit) <= now
    <3>1. PICK t \in 1..k : Stamp(t) >= HorizonEnd(s, n)
      BY <1>3, <2>1 DEF HorizonCovered
    <3>2. s + n <= t
      BY <3>1, <2>2, <2>4 DEF Stamp, HorizonEnd, CloseAt
    <3>3. OpenAt(t) <= now
      BY <1>1
    <3> QED
      BY <3>2, <3>3, <2>2, <2>4, <2>9, <1>3 DEF OpenAt, CloseAt
  <2>11. OpenAt(s) > posted[c]
    BY <1>3, <2>4 DEF Stamp, OpenAt
  <2>12. row = [call |-> c, horizon |-> n, status |-> "evaluated",
                activation |-> s, outcome |-> o, bench |-> bench]
    BY <2>1 DEF Row, o
  <2>13. row \in RowType
    BY <2>5, <2>6, <2>12 DEF RowType
  <2>14. Earned(row)
    BY <2>12 DEF Earned
  <2> QED
    BY <2>7, <2>8, <2>9, <2>10, <2>11, <2>12, <2>13, <2>14 DEF RowSound, Final
<1> QED
  BY <1>5, <1>6 DEF Evaluate

(***************************************************************************)
(* A sound row stays sound: the market's past does not change and time     *)
(* does not go back.                                                       *)
(***************************************************************************)
LEMMA SoundnessIsStable ==
  ASSUME TypeOK, NEW row \in RowType, RowSound(row),
         UNCHANGED market, now' \in Nat, now' >= now
  PROVE  RowSound(row)'
<1>1. tape' = tape /\ call' = call /\ posted' = posted
  BY DEF market
<1>2. row.outcome.exit \in Nat
  BY SessionAssumption DEF RowType, Outcome, Sessions, NoSession
<1>3. CloseAt(row.outcome.exit) <= now => CloseAt(row.outcome.exit) <= now'
  BY <1>2 DEF TypeOK, CloseAt
<1>4. Opened \subseteq Opened'
  BY DEF TypeOK, Opened, Sessions, OpenAt
<1>5. Final(row)'
  BY <1>1, <1>3 DEF RowSound, Final, Evaluated
<1>6. Earned(row)'
  BY <1>1, <1>4 DEF RowSound, Earned
<1> QED
  BY <1>5, <1>6 DEF RowSound

(***************************************************************************)
(* The row a process persists next is one of the rows it has in hand.      *)
(***************************************************************************)
LEMMA NextRowIsInHand ==
  ASSUME TypeOK, NEW r \in Runners, work[r] # {}
  PROVE  /\ NextRow(r) \in work[r]
         /\ NextRow(r) \in RowType
         /\ \A x \in work[r] : NextRow(r).horizon <= x.horizon
<1> DEFINE H == {x.horizon : x \in work[r]}
<1>1. work[r] \subseteq RowType
  BY DEF TypeOK
<1>2. \A x \in work[r] : x.horizon \in Nat
  BY <1>1, HorizonsAssumption DEF RowType
<1>3. H \in SUBSET Nat /\ H # {}
  BY <1>2
<1>4. PICK h \in H : \A g \in H : h <= g
  BY <1>3, LeastNatural
<1>5. \E x \in work[r] : \A y \in work[r] : x.horizon <= y.horizon
  BY <1>4
<1>6. NextRow(r) \in work[r] /\ \A x \in work[r] : NextRow(r).horizon <= x.horizon
  BY <1>5 DEF NextRow
<1> QED
  BY <1>1, <1>6

LEMMA InitEstablishes == Init => IInv
<1> SUFFICES ASSUME Init PROVE IInv
  OBVIOUS
<1>1. TypeOK
  <2>1. call \in [Calls -> Shape] /\ posted \in [Calls -> Nat] /\ tape \in [Sessions -> Bar]
    BY ChoiceAssumption DEF Init
  <2> QED
    BY <2>1 DEF Init, TypeOK, CloseAt, NoCall
<1>2. ControlOK
  BY DEF Init, ControlOK, CloseAt
<1>3. OneRowPerHorizon
  BY DEF Init, OneRowPerHorizon
<1>4. RowsSound
  BY DEF Init, RowsSound
<1> QED
  BY <1>1, <1>2, <1>3, <1>4 DEF IInv

(***************************************************************************)
(* Steps that touch neither the table nor the clock, and give a process no *)
(* row it did not have.                                                    *)
(***************************************************************************)
LEMMA QuietSteps ==
  ASSUME IInv, TypeOK', UNCHANGED <<market, now, rows>>,
         \A r \in Runners : work'[r] \subseteq work[r]
  PROVE  OneRowPerHorizon' /\ RowsSound'
<1>1. OneRowPerHorizon'
  BY DEF IInv, OneRowPerHorizon
<1>2. \A row \in RowType : RowSound(row) => RowSound(row)'
  BY SoundnessIsStable DEF IInv, TypeOK
<1>3. /\ rows \subseteq RowType
      /\ \A r \in Runners : work[r] \subseteq RowType
  BY DEF IInv, TypeOK
<1> QED
  BY <1>1, <1>2, <1>3 DEF IInv, RowsSound

LEMMA StepPreserves == IInv /\ [Next]_vars => IInv'
<1> SUFFICES ASSUME IInv, [Next]_vars PROVE IInv'
  OBVIOUS
<1> USE DEF IInv
<1>1. CASE Tick
  <2>1. TypeOK'
    BY <1>1 DEF Tick, TypeOK, market, runners
  <2>2. ControlOK'
    BY <1>1 DEF Tick, TypeOK, ControlOK, runners, CloseAt
  <2>3. OneRowPerHorizon'
    BY <1>1 DEF Tick, OneRowPerHorizon
  <2>4. \A row \in RowType : RowSound(row) => RowSound(row)'
    BY <1>1, SoundnessIsStable DEF Tick, TypeOK
  <2>5. RowsSound'
    BY <1>1, <2>4 DEF Tick, RowsSound, TypeOK, runners
  <2> QED
    BY <2>1, <2>2, <2>3, <2>5
<1>2. ASSUME NEW c \in Calls, Accept(c) PROVE IInv'
  <2>1. TypeOK' /\ ControlOK'
    BY <1>2 DEF Accept, TypeOK, ControlOK, market, runners
  <2> QED
    BY <1>2, <2>1, QuietSteps DEF Accept, runners
<1>3. ASSUME NEW r \in Runners, Start(r) PROVE IInv'
  <2>1. TypeOK'
    BY <1>3 DEF Start, TypeOK, market
  <2>2. ControlOK'
    BY <1>3 DEF Start, TypeOK, ControlOK
  <2> QED
    BY <1>3, <2>1, <2>2, QuietSteps DEF Start
<1>4. ASSUME NEW r \in Runners, NextCall(r) PROVE IInv'
  <2>1. pending[r] \in SUBSET Nat /\ pending[r] # {} /\ pending[r] \subseteq Calls
    BY <1>4, CallsAssumption DEF NextCall, TypeOK
  <2>2. First(pending[r]) \in Calls
    BY <2>1, FirstIsLeast
  <2>3. TypeOK'
    BY <1>4, <2>1, <2>2 DEF NextCall, TypeOK, market
  <2>4. ControlOK'
    BY <1>4, <2>2 DEF NextCall, TypeOK, ControlOK
  <2> QED
    BY <1>4, <2>3, <2>4, QuietSteps DEF NextCall
<1>5. ASSUME NEW r \in Runners, Finish(r) PROVE IInv'
  <2>1. TypeOK' /\ ControlOK'
    BY <1>5 DEF Finish, TypeOK, ControlOK, market
  <2> QED
    BY <1>5, <2>1, QuietSteps DEF Finish
<1>6. ASSUME NEW r \in Runners, NEW daily \in OnTime \cup Faulty, NEW bench \in BOOLEAN,
             FetchAs(r, daily, bench), faults' \in Nat
      PROVE  IInv'
  <2>1. current[r] \in Calls
    BY <1>6 DEF FetchAs, ControlOK
  <2> DEFINE found == Evaluate(current[r], daily, bench)
  <2>2. \A row \in found : row \in RowType /\ RowSound(row)
    BY <2>1, EvaluateIsSound
  <2> HIDE DEF found
  <2>3. /\ work' = [work EXCEPT ![r] = found]
        /\ pc' = [pc EXCEPT ![r] = "persist"]
        /\ UNCHANGED <<market, now, accepted, rows, pending, current>>
    BY <1>6 DEF FetchAs, found
  <2>4. TypeOK'
    BY <1>6, <2>2, <2>3 DEF TypeOK, market
  <2>5. ControlOK'
    BY <2>3 DEF TypeOK, ControlOK
  <2>6. OneRowPerHorizon'
    BY <2>3 DEF OneRowPerHorizon
  <2>7. \A row \in RowType : RowSound(row) => RowSound(row)'
    BY <2>3, SoundnessIsStable DEF TypeOK
  <2>8. \A row \in rows : row \in RowType /\ RowSound(row)'
    BY <2>7 DEF TypeOK, RowsSound
  <2>9. \A q \in Runners : \A row \in work'[q] : RowSound(row)'
    <3>1. SUFFICES ASSUME NEW q \in Runners, NEW row \in work'[q] PROVE RowSound(row)'
      OBVIOUS
    <3>2. CASE q = r
      BY <2>2, <2>3, <2>7, <3>2 DEF TypeOK
    <3>3. CASE q # r
      BY <2>3, <2>7, <3>3 DEF TypeOK, RowsSound
    <3> QED
      BY <3>2, <3>3
  <2>10. RowsSound'
    BY <2>3, <2>8, <2>9 DEF RowsSound
  <2> QED
    BY <2>4, <2>5, <2>6, <2>10
<1>7. ASSUME NEW r \in Runners, Fetch(r) PROVE IInv'
  <2>1. PICK daily \in OnTime : FetchAs(r, daily, TRUE)
    BY <1>7 DEF Fetch
  <2>2. faults' \in Nat
    BY <1>7 DEF Fetch, TypeOK
  <2> QED
    BY <1>6, <2>1, <2>2
<1>8. ASSUME NEW r \in Runners, FaultyFetch(r) PROVE IInv'
  <2>1. PICK daily \in OnTime \cup Faulty, bench \in BOOLEAN : FetchAs(r, daily, bench)
    BY <1>8 DEF FaultyFetch
  <2>2. faults' \in Nat
    BY <1>8 DEF FaultyFetch, TypeOK
  <2> QED
    BY <1>6, <2>1, <2>2
<1>9. ASSUME NEW r \in Runners, Skip(r) PROVE IInv'
  <2>1. TypeOK' /\ ControlOK'
    BY <1>9 DEF Skip, TypeOK, ControlOK, market
  <2> QED
    BY <1>9, <2>1, QuietSteps DEF Skip, TypeOK
<1>10. ASSUME NEW r \in Runners, Miss(r) PROVE IInv'
  <2>1. TypeOK' /\ ControlOK'
    BY <1>10 DEF Miss, TypeOK, ControlOK, market
  <2> QED
    BY <1>10, <2>1, QuietSteps DEF Miss
<1>11. ASSUME NEW r \in Runners, Commit(r) PROVE IInv'
  <2>1. NextRow(r) \in work[r] /\ NextRow(r) \in RowType
    BY <1>11, NextRowIsInHand DEF Commit, ControlOK
  <2> DEFINE new == NextRow(r)
  <2>2. /\ rows' = rows \cup {new}
        /\ work' = [work EXCEPT ![r] = @ \ {new}]
        /\ pc' = [pc EXCEPT ![r] = "persist"]
        /\ UNCHANGED <<market, now, accepted, pending, current, faults>>
        /\ \A old \in rows : ~ (old.call = new.call /\ old.horizon = new.horizon)
    BY <1>11 DEF Commit, Recorded
  <2>3. new \in work[r] /\ new \in RowType
    BY <2>1
  <2> HIDE DEF new
  <2>4. TypeOK'
    BY <2>2, <2>3 DEF TypeOK, market
  <2>5. ControlOK'
    BY <2>2 DEF TypeOK, ControlOK
  <2>6. OneRowPerHorizon'
    BY <2>2 DEF OneRowPerHorizon
  <2>7. \A row \in RowType : RowSound(row) => RowSound(row)'
    BY <2>2, SoundnessIsStable DEF TypeOK
  <2>8. \A row \in rows \cup {new} : RowSound(row)'
    BY <2>3, <2>7 DEF TypeOK, RowsSound
  <2>9. \A q \in Runners : \A row \in work'[q] : RowSound(row)'
    BY <2>2, <2>7 DEF TypeOK, RowsSound
  <2>10. RowsSound'
    BY <2>2, <2>8, <2>9 DEF RowsSound
  <2> QED
    BY <2>4, <2>5, <2>6, <2>10
<1>12. ASSUME NEW r \in Runners, Abandon(r), faults' \in Nat PROVE IInv'
  <2>1. TypeOK' /\ ControlOK'
    BY <1>12 DEF Abandon, TypeOK, ControlOK, market, NoCall
  <2> QED
    BY <1>12, <2>1, QuietSteps DEF Abandon, TypeOK
<1>13. ASSUME NEW r \in Runners, Conflict(r) \/ CallDone(r) \/ CallError(r) PROVE IInv'
  <2>1. Abandon(r) /\ faults' \in Nat
    BY <1>13 DEF Conflict, CallDone, CallError, TypeOK
  <2> QED
    BY <1>12, <2>1
<1>14. ASSUME NEW r \in Runners, Crash(r) PROVE IInv'
  <2>1. TypeOK' /\ ControlOK'
    BY <1>14 DEF Crash, TypeOK, ControlOK, market, NoCall
  <2> QED
    BY <1>14, <2>1, QuietSteps DEF Crash, TypeOK
<1>15. CASE UNCHANGED vars
  <2>1. TypeOK' /\ ControlOK'
    BY <1>15 DEF vars, TypeOK, ControlOK
  <2> QED
    BY <1>15, <2>1, QuietSteps DEF vars, market
<1> QED
  BY <1>1, <1>2, <1>3, <1>4, <1>5, <1>7, <1>8, <1>9, <1>10, <1>11, <1>13, <1>14, <1>15
     DEF Next, Run
-----------------------------------------------------------------------------
LEMMA Invariance == Spec => []IInv
<1>1. Init => IInv
  BY InitEstablishes
<1>2. IInv /\ [Next]_vars => IInv'
  BY StepPreserves
<1> QED
  BY <1>1, <1>2, PTL DEF Spec

(***************************************************************************)
(* Every variable keeps its type, for all values of the constants.         *)
(***************************************************************************)
THEOREM TypeCorrect == Spec => []TypeOK
<1>1. IInv => TypeOK
  BY DEF IInv
<1> QED
  BY <1>1, Invariance, PTL

(***************************************************************************)
(* An evaluated row is the row hindsight would give, whatever bars were    *)
(* half formed, late or missing when it was computed.                      *)
(***************************************************************************)
THEOREM RowsAreFinal == Spec => []EvaluatedRowsAreFinal
<1>1. IInv => EvaluatedRowsAreFinal
  BY DEF IInv, RowsSound, RowSound, Final, EvaluatedRowsAreFinal
<1> QED
  BY <1>1, Invariance, PTL

(***************************************************************************)
(* No evaluated row uses a bar of a session that opened before the post or *)
(* had not closed when the row was written.                                *)
(***************************************************************************)
THEOREM NothingFromTheFuture == Spec => []NoLookAhead
<1>1. IInv => NoLookAhead
  BY DEF IInv, RowsSound, RowSound, Final, NoLookAhead
<1> QED
  BY <1>1, Invariance, PTL

(***************************************************************************)
(* A call is written off as not triggered only when its window has opened  *)
(* to its last session, and no earlier session of it enters.               *)
(***************************************************************************)
THEOREM WriteOffsAreEarned == Spec => []NotTriggeredIsEarned
<1>1. IInv => NotTriggeredIsEarned
  BY DEF IInv, RowsSound, RowSound, Earned, NotTriggeredIsEarned
<1> QED
  BY <1>1, Invariance, PTL

(***************************************************************************)
(* One row per call and horizon, for any number of concurrent processes.   *)
(***************************************************************************)
THEOREM RowsAreUnique == Spec => []OneRowPerHorizon
<1>1. IInv => OneRowPerHorizon
  BY DEF IInv
<1> QED
  BY <1>1, Invariance, PTL
-----------------------------------------------------------------------------
(***************************************************************************)
(* The horizons of a call are recorded in their order.  The table alone    *)
(* does not say so: a process writes a horizon because it has written, or  *)
(* still holds, every shorter one.                                         *)
(***************************************************************************)
HasRow(S, c, h) == \E x \in S : x.call = c /\ x.horizon = h

WorkFormsAPrefix ==
  \A r \in Runners : \A row \in work[r] : \A h \in Horizons :
    h < row.horizon => HasRow(rows, row.call, h) \/ HasRow(work[r], row.call, h)

PInv == IInv /\ HorizonsFormAPrefix /\ WorkFormsAPrefix

\* The rows of one evaluation leave no horizon out before the longest.
LEMMA EvaluateFormsAPrefix ==
  ASSUME TypeOK, ControlOK, NEW daily \in OnTime \cup Faulty,
         NEW c \in Calls, NEW bench \in BOOLEAN,
         NEW row \in Evaluate(c, daily, bench), NEW h \in Horizons, h < row.horizon
  PROVE  HasRow(Evaluate(c, daily, bench), row.call, h)
<1> DEFINE s == DetermineActivation(call[c], daily, posted[c])
<1>1. PICK k \in 0..LastSession : daily \in [1..k -> Bar]
  BY ShapeOfFrames
<1>2. h \in Nat \ {0}
  BY HorizonsAssumption
<1>3. ASSUME NEW status, row \in Verdict(c, status)
      PROVE  HasRow(Verdict(c, status), row.call, h)
  <2> DEFINE new == Row(c, h, status, NoSession, NoOutcome, FALSE)
  <2>1. new \in Verdict(c, status) /\ new.call = c /\ new.horizon = h
    BY DEF Verdict, Row
  <2>2. row.call = c
    BY <1>3 DEF Verdict, Row
  <2> QED
    BY <2>1, <2>2 DEF HasRow
<1>4. ASSUME s # NoSession, row \in EvaluatedRows(c, daily, s, bench)
      PROVE  HasRow(EvaluatedRows(c, daily, s, bench), row.call, h)
  <2>1. DOMAIN daily \in SUBSET (Nat \ {0})
    BY <1>1
  <2>2. s \in Entries(call[c], daily, posted[c])
    BY <1>4, <2>1, ActivationIsTheFirstEntry
  <2>3. s \in Nat
    BY <2>1, <2>2 DEF Entries, Window, BarsAfter
  <2> HIDE DEF s
  <2>4. PICK n \in Horizons :
           /\ HorizonCovered(daily, s, n)
           /\ row = Row(c, n, "evaluated", s, ComputeOutcome(call[c], daily, s, n), bench)
    BY <1>4 DEF EvaluatedRows
  <2>5. row.horizon = n /\ row.call = c /\ n \in Nat /\ h < n
    BY <2>4, HorizonsAssumption DEF Row
  <2>6. HorizonCovered(daily, s, h)
    BY <1>2, <2>1, <2>3, <2>4, <2>5 DEF HorizonCovered, HorizonEnd, CloseAt, Stamp
  <2> DEFINE new == Row(c, h, "evaluated", s, ComputeOutcome(call[c], daily, s, h), bench)
  <2>7. new \in EvaluatedRows(c, daily, s, bench)
    BY <2>6 DEF EvaluatedRows
  <2>8. new.call = c /\ new.horizon = h
    BY DEF Row
  <2> QED
    BY <2>5, <2>7, <2>8 DEF HasRow
<1> QED
  BY <1>3, <1>4 DEF Evaluate

LEMMA PrefixStep == PInv /\ [Next]_vars => PInv'
<1> SUFFICES ASSUME PInv, [Next]_vars PROVE PInv'
  OBVIOUS
<1> USE DEF PInv
<1>1. IInv'
  BY StepPreserves
<1>2. ASSUME UNCHANGED rows, \A r \in Runners : work'[r] = work[r] \/ work'[r] = {}
      PROVE  PInv'
  <2>1. HorizonsFormAPrefix'
    BY <1>2 DEF HorizonsFormAPrefix
  <2>2. WorkFormsAPrefix'
    BY <1>2 DEF WorkFormsAPrefix
  <2> QED
    BY <1>1, <2>1, <2>2
<1>3. ASSUME NEW r \in Runners, NEW daily \in OnTime \cup Faulty, NEW bench \in BOOLEAN,
             FetchAs(r, daily, bench)
      PROVE  PInv'
  <2>1. current[r] \in Calls
    BY <1>3 DEF FetchAs, ControlOK, IInv
  <2> DEFINE found == Evaluate(current[r], daily, bench)
  <2>2. \A row \in found : \A h \in Horizons : h < row.horizon => HasRow(found, row.call, h)
    BY <2>1, EvaluateFormsAPrefix DEF IInv
  <2> HIDE DEF found
  <2>3. work' = [work EXCEPT ![r] = found] /\ rows' = rows
    BY <1>3 DEF FetchAs, found
  <2>4. HorizonsFormAPrefix'
    BY <2>3 DEF HorizonsFormAPrefix
  <2>5. WorkFormsAPrefix'
    BY <2>2, <2>3 DEF WorkFormsAPrefix, IInv, TypeOK
  <2> QED
    BY <1>1, <2>4, <2>5
<1>4. ASSUME NEW r \in Runners, Skip(r) PROVE PInv'
  <2> DEFINE done == NextRow(r)
  <2>1. /\ work' = [work EXCEPT ![r] = @ \ {done}] /\ rows' = rows
        /\ HasRow(rows, done.call, done.horizon)
    BY <1>4 DEF Skip, Recorded, HasRow
  <2> HIDE DEF done
  <2>2. HorizonsFormAPrefix'
    BY <2>1 DEF HorizonsFormAPrefix
  <2>3. WorkFormsAPrefix'
    BY <2>1 DEF WorkFormsAPrefix, HasRow, IInv, TypeOK
  <2> QED
    BY <1>1, <2>2, <2>3
<1>5. ASSUME NEW r \in Runners, Commit(r) PROVE PInv'
  <2> DEFINE new == NextRow(r)
  <2>1. /\ new \in work[r] /\ new \in RowType
        /\ \A x \in work[r] : new.horizon <= x.horizon
    BY <1>5, NextRowIsInHand DEF Commit, ControlOK, IInv
  <2>2. work' = [work EXCEPT ![r] = @ \ {new}] /\ rows' = rows \cup {new}
    BY <1>5 DEF Commit
  <2> HIDE DEF new
  <2>3. ASSUME NEW h \in Horizons, h < new.horizon PROVE HasRow(rows, new.call, h)
    <3>1. HasRow(rows, new.call, h) \/ HasRow(work[r], new.call, h)
      BY <2>1, <2>3 DEF WorkFormsAPrefix
    <3>2. h \in Nat /\ new.horizon \in Nat
      BY <2>1, HorizonsAssumption DEF RowType
    <3>3. ~ HasRow(work[r], new.call, h)
      BY <2>1, <2>3, <3>2 DEF HasRow
    <3> QED
      BY <3>1, <3>3
  <2>4. HorizonsFormAPrefix'
    BY <2>2, <2>3 DEF HorizonsFormAPrefix, HasRow
  <2>5. WorkFormsAPrefix'
    BY <2>2 DEF WorkFormsAPrefix, HasRow, IInv, TypeOK
  <2> QED
    BY <1>1, <2>4, <2>5
<1>6. CASE Tick
  BY <1>2, <1>6 DEF Tick, runners
<1>7. ASSUME NEW c \in Calls, Accept(c) PROVE PInv'
  BY <1>2, <1>7 DEF Accept, runners
<1>8. ASSUME NEW r \in Runners, Start(r) \/ NextCall(r) \/ Finish(r) \/ Miss(r) PROVE PInv'
  BY <1>2, <1>8 DEF Start, NextCall, Finish, Miss
<1>9. ASSUME NEW r \in Runners, Fetch(r) \/ FaultyFetch(r) PROVE PInv'
  <2>1. PICK daily \in OnTime \cup Faulty, bench \in BOOLEAN : FetchAs(r, daily, bench)
    BY <1>9 DEF Fetch, FaultyFetch
  <2> QED
    BY <1>3, <2>1
<1>10. ASSUME NEW r \in Runners, Conflict(r) \/ CallDone(r) \/ CallError(r) \/ Crash(r)
       PROVE  PInv'
  <2>1. rows' = rows /\ work' = [work EXCEPT ![r] = {}]
    BY <1>10 DEF Conflict, CallDone, CallError, Crash, Abandon
  <2> QED
    BY <1>2, <2>1 DEF IInv, TypeOK
<1>11. CASE UNCHANGED vars
  BY <1>2, <1>11 DEF vars
<1> QED
  BY <1>4, <1>5, <1>6, <1>7, <1>8, <1>9, <1>10, <1>11 DEF Next, Run

(***************************************************************************)
(* No horizon of a call is recorded before a shorter one, wherever         *)
(* processes die and whichever of them wins a race for a row.              *)
(***************************************************************************)
THEOREM HorizonsAreRecordedInOrder == Spec => []HorizonsFormAPrefix
<1>1. Init => PInv
  BY InitEstablishes DEF Init, PInv, HorizonsFormAPrefix, WorkFormsAPrefix
<1>2. PInv /\ [Next]_vars => PInv'
  BY PrefixStep
<1>3. PInv => HorizonsFormAPrefix
  BY DEF PInv
<1> QED
  BY <1>1, <1>2, <1>3, PTL DEF Spec
=============================================================================
