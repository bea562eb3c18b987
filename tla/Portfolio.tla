----------------------------- MODULE Portfolio -----------------------------
(***************************************************************************)
(* The portfolio ledger (portfolio/service.py): requests of the API and of *)
(* the command line create, edit and delete trades of one SQLite table.    *)
(* Each request reads, folds the ledger with its change applied, and       *)
(* writes.  SQLite begins a transaction at the write, so a request holds   *)
(* nothing between its reads and its commit and other requests may come in *)
(* between.  An instant asked for in another zone than UTC is validated as *)
(* that instant and stored as its wall clock, which is read back as UTC.   *)
(***************************************************************************)
EXTENDS Ledger

CONSTANTS
  Clients,      \* requests that can be under way at the same time
  Payloads,     \* the trades a create can ask for
  Patches,      \* what an update can set: functions from columns to values
  Offsets,      \* what the clocks of the requests' zones add to UTC
  MaxId         \* bound on the ids the table hands out

ASSUME ClientsAssumption  == IsFiniteSet(Clients)
ASSUME MaxIdAssumption    == MaxId \in Nat \ {0}
ASSUME PayloadsAssumption == Payloads \subseteq Trade
ASSUME OffsetsAssumption  == Offsets \subseteq Int /\ 0 \in Offsets

\* A patch sets the columns it names.
Merge(row, patch) == [f \in DOMAIN row |-> IF f \in DOMAIN patch THEN patch[f] ELSE row[f]]

ASSUME PatchesAssumption == \A t \in Trade, p \in Patches : Merge(t, p) \in Trade

VARIABLES
  trades,     \* the table portfolio_trades, by id
  now,        \* the clock, which traded_at must not be ahead of
  pc,         \* where each request stands
  req,        \* what it asks for
  overtaken,  \* requests since whose first read another one has committed
  suspect     \* tickers of the rows written unlike they were validated, or by
              \* overtaken requests, since the last edit that was not overtaken

vars == <<trades, now, pc, req, overtaken, suspect>>

Ids == 1..MaxId
Stored == DOMAIN trades
Records(ids) == {Record(i, trades[i]) : i \in ids}

\* Mutant: the first id of an empty table is that of a candidate.
NextIdFromNone == IF Stored = {} THEN None
                  ELSE 1 + CHOOSE i \in Stored : \A j \in Stored : j <= i

\* SQLite hands out one more than the largest id in use.
NextId == IF Stored = {} THEN 1
          ELSE 1 + CHOOSE i \in Stored : \A j \in Stored : j <= i

Columns == {"ticker", "side", "quantity", "currency", "traded_at"}

Request == [op : {"create", "update", "delete"}, target : Ids \cup {None},
            candidate : Trade, columns : SUBSET Columns, offset : Offsets]
NoRequest == [op |-> "none"]
-----------------------------------------------------------------------------
Init ==
  /\ trades = [i \in {} |-> NoRequest]
  /\ now \in Times
  /\ pc = [c \in Clients |-> "idle"]
  /\ req = [c \in Clients |-> NoRequest]
  /\ overtaken = {}
  /\ suspect = {}

Tick ==
  /\ now + 1 \in Times
  /\ now' = now + 1
  /\ UNCHANGED <<trades, pc, req, overtaken, suspect>>

\* The row as the table will hold it: SQLite keeps the wall clock of traded_at
\* and drops its offset, and _aware takes what it reads back for UTC.
WallClock(r) == [r.candidate EXCEPT !.traded_at = @ + r.offset]

\* Bound: the wall clock is one of the instants of the instance, too.
Begin(c, r) ==
  /\ pc[c] = "idle"
  /\ WallClock(r).traded_at \in Times
  /\ pc' = [pc EXCEPT ![c] = "validate"]
  /\ req' = [req EXCEPT ![c] = r]
  /\ UNCHANGED <<trades, now, overtaken, suspect>>

BeginCreate(c) ==
  \E t \in Payloads, z \in Offsets :
    Begin(c, [op |-> "create", target |-> None, candidate |-> t, columns |-> Columns,
              offset |-> z])

\* The columns an UPDATE sets: those in which the row differs from what was
\* loaded, and traded_at always, which SQLite loads naive and the patch makes
\* aware.
Changed(row, new) == {f \in Columns : f = "traded_at" \/ new[f] # row[f]}

\* session.get(PortfolioTrade, id), then the patch on a copy of the row, whose
\* own traded_at counts as UTC.
BeginUpdate(c) ==
  \E i \in Stored, p \in Patches :
    \E z \in IF "traded_at" \in DOMAIN p THEN Offsets ELSE {0} :
      LET new == Merge(trades[i], p)
      IN  Begin(c, [op |-> "update", target |-> i, candidate |-> new,
                    columns |-> Changed(trades[i], new), offset |-> z])

BeginDelete(c) ==
  \E i \in Stored :
    Begin(c, [op |-> "delete", target |-> i, candidate |-> trades[i], columns |-> {},
              offset |-> 0])

\* _check_basics: no trade lies in the future.  (The sides are fine already.)
BasicsHold(t) == t.traded_at <= now

\* Mutant: a delete is not validated.
AcceptableEdit(r) ==
  \/ r.op = "delete"
  \/ BasicsHold(r.candidate)
     /\ Folds(Records(Stored \ {r.target}) \cup {Record(r.target, r.candidate)})

\* Mutant: an update is folded beside the row it replaces.
AcceptableBeside(r) ==
  \/ r.op = "delete" /\ Folds(Records(Stored \ {r.target}))
  \/ /\ r.op # "delete"
     /\ BasicsHold(r.candidate)
     /\ Folds(Records(Stored) \cup {Record(r.target, r.candidate)})

\* The whole table, with the change of request r applied, can be folded.
Acceptable(r) ==
  \/ r.op = "delete" /\ Folds(Records(Stored \ {r.target}))
  \/ /\ r.op # "delete"
     /\ BasicsHold(r.candidate)
     /\ Folds(Records(Stored \ {r.target}) \cup {Record(r.target, r.candidate)})

Validate(c) ==
  /\ pc[c] = "validate"
  /\ pc' = [pc EXCEPT ![c] = IF Acceptable(req[c]) THEN "commit" ELSE "refused"]
  /\ UNCHANGED <<trades, now, req, overtaken, suspect>>

End(c) ==
  /\ pc' = [pc EXCEPT ![c] = "idle"]
  /\ req' = [req EXCEPT ![c] = NoRequest]
  /\ UNCHANGED now

\* The tickers of the ledger that the validation says nothing of any more when
\* request r, not overtaken, has committed.
LeftSuspect(r) ==
  (IF r.op = "create" THEN suspect ELSE {})
    \cup (IF r.offset = 0 THEN {} ELSE {r.candidate.ticker})

\* A commit overtakes every other request that has begun to read.
Commit(c, tickers) ==
  /\ overtaken' = {d \in Clients \ {c} : pc[d] # "idle"}
  /\ suspect' = IF c \in overtaken THEN suspect \cup tickers ELSE LeftSuspect(req[c])
  /\ End(c)

CommitCreate(c) ==
  /\ pc[c] = "commit"
  /\ req[c].op = "create"
  /\ NextId <= MaxId
  /\ trades' = [i \in Stored \cup {NextId} |-> IF i = NextId THEN WallClock(req[c]) ELSE trades[i]]
  /\ Commit(c, {req[c].candidate.ticker})

\* The row an UPDATE of request r leaves.
Updated(r) ==
  [f \in Columns |-> IF f \in r.columns THEN WallClock(r)[f] ELSE trades[r.target][f]]

CommitUpdate(c) ==
  /\ pc[c] = "commit"
  /\ req[c].op = "update"
  /\ req[c].target \in Stored
  /\ trades' = [trades EXCEPT ![req[c].target] = Updated(req[c])]
  /\ Commit(c, {trades[req[c].target].ticker, Updated(req[c]).ticker})

CommitDelete(c) ==
  /\ pc[c] = "commit"
  /\ req[c].op = "delete"
  /\ req[c].target \in Stored
  /\ trades' = [i \in Stored \ {req[c].target} |-> trades[i]]
  /\ Commit(c, {trades[req[c].target].ticker})

\* The request is over without a write: the answer 422 is sent; the row is
\* gone, and an UPDATE of no row raises while a DELETE of no row only warns;
\* or the process dies or finds the database locked.
GiveUp(c) ==
  /\ overtaken' = overtaken \ {c}
  /\ UNCHANGED <<trades, suspect>>
  /\ End(c)

Refused(c)  == pc[c] = "refused" /\ GiveUp(c)
RowGone(c)  == pc[c] = "commit" /\ req[c].target \notin Stored \cup {None} /\ GiveUp(c)
Fail(c)     == pc[c] \in {"validate", "commit"} /\ GiveUp(c)

Next ==
  \/ Tick
  \/ \E c \in Clients :
       \/ BeginCreate(c) \/ BeginUpdate(c) \/ BeginDelete(c) \/ Validate(c)
       \/ CommitCreate(c) \/ CommitUpdate(c) \/ CommitDelete(c)
       \/ Refused(c) \/ RowGone(c) \/ Fail(c)

Spec == Init /\ [][Next]_vars
-----------------------------------------------------------------------------
(* Properties *)

\* The table holds trades under ids, and requests hold rows.
TypeOK ==
  /\ Stored \subseteq Ids
  /\ trades \in [Stored -> Trade]
  /\ now \in Times
  /\ pc \in [Clients -> {"idle", "validate", "commit", "refused"}]
  /\ req \in [Clients -> Request \cup {NoRequest}]
  /\ \A c \in Clients : pc[c] # "idle" => req[c] \in Request /\ WallClock(req[c]) \in Trade
  /\ overtaken \subseteq Clients
  /\ suspect \subseteq Tickers

\* The ledger of a ticker can be folded unless a request that wrote one of
\* its rows was overtaken by another or named its instant in another zone than
\* UTC: what a request validates alone is what it commits, although a create is
\* validated as the first trade of its instant and stored as the last, and an
\* update validates a whole row and writes some of its columns (_validate_with,
\* create_trade, update_trade).  And an edit that was not overtaken mends what
\* such requests have broken, but for the ledger it shifts itself ("Fix it from
\* the trade ledger", routes/portfolio.py); a create need not.
LedgerFolds == \A k \in Tickers \ suspect : TickerFolds(Records(Stored), k)

\* An edit that no other commit has overtaken, and that names no instant in
\* another zone, leaves a ledger that folds as a whole, whatever state it found
\* it in: the columns an UPDATE writes, merged with the ones it leaves alone,
\* are the row that was validated.
EditsMend ==
  [][ \A c \in Clients \ overtaken :
        (CommitUpdate(c) \/ CommitDelete(c)) /\ req[c].offset = 0 => Folds(Records(Stored))' ]_vars
=============================================================================
