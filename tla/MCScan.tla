-------------------------------- MODULE MCScan --------------------------------
(***************************************************************************)
(* An instance of Scan for TLC: the tape of one ticker that trades with    *)
(* every sequence of moves, without scans; and two tickers, one of them    *)
(* without bars, that a command and a web request scan.                    *)
(***************************************************************************)
EXTENDS Scan

CONSTANTS tsr, web, stock, other

MCBench == [i \in 1..MaxBars |-> 1000]
MCRates == {-8, -3, 1, 8}

Begin(closes, n) ==
  /\ tapes = [t \in Tickers |-> IF t = stock THEN closes ELSE <<>>]
  /\ started = n
  /\ scans = [c \in Scanners |-> NoScan]
  /\ history = {} /\ results = {}

MCInit ==
  \/ liquid \in SUBSET {stock} /\ Begin(<<1000>>, MaxScans)
  \/ liquid = {stock} /\ Begin([i \in 1..5 |-> 1000 + 20 * i], 0)

\* Bound: nobody trades while there are scans.
MCNext ==
  /\ ScanNext
  /\ tapes' # tapes => started = MaxScans /\ results = {} /\ \A c \in Scanners : scans[c] = NoScan

MCSpec == MCInit /\ [][MCNext]_scanVars
=============================================================================
