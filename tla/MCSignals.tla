------------------------------ MODULE MCSignals ------------------------------
(***************************************************************************)
(* An instance of Signals for TLC: a creator who makes two calls and two   *)
(* claims, windows without and with a cutoff, and a close every second     *)
(* tick.                                                                   *)
(***************************************************************************)
EXTENDS Signals, TLC

CONSTANTS ann, first, second, rumour, report, cron, manual

MCCreators == <<ann>>
MCAuthor == [m \in {first, second, rumour, report} |-> ann]
MCSide == first :> "up" @@ second :> "down" @@ rumour :> "up" @@ report :> "down"
MCClass == rumour :> "hype" @@ report :> "factual"

MCWindows == <<[label |-> "all", ticks |-> 0], [label |-> "90d", ticks |-> 1]>>
MCHorizons == <<[label |-> "1d", ticks |-> 1]>>
MCSizes == {[label |-> "30d", ticks |-> 2]}

\* Two worlds: a call that hits, one that misses and a late report; or a call that
\* never triggers and a late one that hits.
MCInit ==
  /\ \/ /\ posted = (first :> 0 @@ second :> 0) /\ made = (rumour :> 1 @@ report :> 2)
        /\ fate = (first :> "hit" @@ second :> "miss")
     \/ /\ posted = (first :> 0 @@ second :> 2) /\ made = (rumour :> 1 @@ report :> 0)
        /\ fate = (first :> "dormant" @@ second :> "hit")
  /\ accepted = {first}
  /\ Init

MCSymmetry == Permutations(Runs)

MCSpec == MCInit /\ [][Next]_vars
=============================================================================
