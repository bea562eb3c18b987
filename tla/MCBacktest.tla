----------------------------- MODULE MCBacktest -----------------------------
(***************************************************************************)
(* Instances of Backtest for TLC, and mutants of its definitions.          *)
(*                                                                         *)
(* Five sessions: one before the post, up to two of the trigger window,    *)
(* and two more for the horizons of one and two days to close and to be    *)
(* covered by a later bar.                                                 *)
(***************************************************************************)
EXTENDS Backtest

Quiet == [open |-> 5, high |-> 5, low |-> 5, close |-> 5]
\* Goes through 6 during the session and gives half of it back.
Climb == [open |-> 5, high |-> 7, low |-> 5, close |-> 6]
\* Opens beyond 6 and falls below the day's open.
Gap   == [open |-> 7, high |-> 8, low |-> 4, close |-> 4]

Tape(second, third) == <<Quiet, second, third, Climb, Climb>>

MCTapes == {Tape(Quiet, Quiet), Tape(Quiet, Gap), Tape(Gap, Quiet)}

MCShapes ==
  { [entry |-> "market",        direction |-> "long",  price |-> NoPrice, target |-> 7, stop |-> 4],
    [entry |-> "limit",         direction |-> "short", price |-> 6,       target |-> 4, stop |-> NoPrice],
    [entry |-> "trigger_above", direction |-> "long",  price |-> 6,       target |-> 8, stop |-> 5] }

\* After the close of session 1, and before the open of session 2.
MCPostTimes == {CloseAt(1), Stamp(2)}
=============================================================================
