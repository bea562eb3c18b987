---------------------------- MODULE MCWalkForward ----------------------------
(***************************************************************************)
(* An instance of WalkForward for TLC: two creators, two tickers and six   *)
(* sessions in weeks of three.  In every world at most two posts are made, *)
(* before and during sessions; one ticker has a bar for each session and   *)
(* the other not.                                                          *)
(***************************************************************************)
EXTENDS WalkForward, TLC

CONSTANTS full, thin, late

MCBenchmark == <<2, 3, 3, 1, 1, 2>>

MCPosts ==
  LET posts == [creator : Creators, ticker : Tickers, side : {"up", "down"}, at : {6, 7, 10}]
  IN UNION {kSubset(n, posts) : n \in 0..2}

\* No creator has a card, or both from early on; one has another card later,
\* which is worse, or for want of the early one the first, or one of two of the
\* same moment, of which only one is good.
MCCards ==
  LET both == {[creator |-> c, credible |-> TRUE, at |-> 5] : c \in Creators}
      worse == [creator |-> late, credible |-> FALSE, at |-> 10]
      better == [creator |-> late, credible |-> TRUE, at |-> 10]
  IN {{}, both, both \cup {worse}, {k \in both : k.creator # late} \cup {better},
      both \cup {worse, better}}

\* Listed late, halted for a while, delisted, and without holes.
MCBars ==
  {full :> Session @@ thin :> bars : bars \in {Session, 3..6, {1, 2, 3, 6}, 1..3, {1, 4, 5}}}
=============================================================================
