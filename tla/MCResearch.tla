------------------------------ MODULE MCResearch ------------------------------
(***************************************************************************)
(* An instance of Research and LensScoring for TLC: two requests around a  *)
(* midnight, on a tape that ends before them; one request whose lenses are *)
(* scored over two later sessions, of a ticker that trades on or loses its *)
(* listing before either; and one request that has gathered its packet, on *)
(* each of the short tapes.                                                *)
(***************************************************************************)
EXTENDS LensScoring

CONSTANTS tab, phone, quant, risk

\* Picks with the first and with the last candidates, some of them out of range.
MCAnswers == {[kind |-> "breakout", primary |-> 0, runner |-> {}, stop |-> -1],
              [kind |-> "pullback", primary |-> 9, runner |-> {9}, stop |-> 9]}

MCBenchmark == <<1000, 1000, 1000, 1000, 1050, 1060>>

History == 4

Start(t, n) ==
  /\ now = t /\ asked = n
  /\ request = [c \in Clients |-> Idle]
  /\ plans = <<>> /\ snapshots = <<>> /\ outcomes = <<>>

OnTape(closes) == [closes |-> closes, spread |-> 0]

MCInit ==
  \/ tape = OnTape(<<2, 3, 1>>) /\ Start(MaxTime - 3, 0)
  \/ /\ tape \in {OnTape(<<2, 3, 1, 2, 3, 2>>), OnTape(<<2, 3, 1, 2, 3>>), OnTape(<<2, 3, 1, 2>>)}
     /\ Start(3 * History + 3, MaxAsks - 1)
  \/ /\ tape \in [closes : [1..History + 1 -> 1..3], spread : {0, 1}]
     /\ now = MaxTime /\ asked = MaxAsks
     /\ request = [c \in Clients |->
          IF c = tab THEN [Idle EXCEPT !.pc = "quick", !.asOf = now - 1] ELSE Idle]
     /\ plans = <<>> /\ snapshots = <<>> /\ outcomes = <<>>

MCSpec == MCInit /\ [][LensNext]_vars /\ Fairness
=============================================================================
