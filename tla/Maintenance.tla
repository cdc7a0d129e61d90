----------------------------- MODULE Maintenance -----------------------------
(*************************************************************************)
(* The database beneath the ledger: the start-up migrations              *)
(* (db/database.py), each in a savepoint of its own and run again on     *)
(* every start, and the clean-up, row deletion and guarded balance       *)
(* writes of the DB manager (web/routes/db_manager.py).                  *)
(*************************************************************************)
EXTENDS Integers, Sequences, FiniteSets, FiniteSetsExt

CONSTANTS Files,               \* what a start may find: [db, rows]
          Now, Retention,      \* rows closed before Now - Retention have expired
          MaxCrashes, MaxWork  \* bounds: crashes; what is done while the program is up

VARIABLES db,                  \* the schema
          trades,              \* rows of the ledger
          balance,             \* system_config.sim_balance: NoBalance, or the one value
          phase,               \* Down, Failed, Running, or the number of the next start-up step
          read,                \* what a guarded writer has read: NoBalance, or the one value
          reconciled,          \* rows of ledger_reconciliation
          books,               \* history: what balance - PnL should be by now
          crashes, work

maintVars == <<db, trades, balance, phase, read, reconciled, books, crashes, work>>

NoBalance == <<>>
Down == 0
Failed == -1
Running == 7
Start == 100
Version == 4
Added == {"action", "trade_group", "exit_reason"}     \* _TRADE_ADDED_COLUMNS
Indexed == {"action", "trade_group"}                   \* of these, those with an index
Tables == {"trades", "positions"}
Fresh == [columns |-> Added, canonical |-> TRUE, positions |-> "canonical", indexes |-> Tables,
          dead |-> FALSE, reconciliation |-> "canonical", version |-> Version]

Pnl(rows) == MapThenSumSet(LAMBDA r : r.pnl, rows)
Ids(rows) == { r.id : r \in rows }

MaintInit ==
  /\ \E f \in Files : db = f.db /\ trades = f.rows
  /\ balance = NoBalance /\ phase = Down /\ read = NoBalance /\ reconciled = 0
  /\ books = Start - Pnl(trades) /\ crashes = 0 /\ work = 0

Kept == UNCHANGED <<balance, read, reconciled, books, work>>

(* --- start-up ------------------------------------------------------------------------ *)
(* The script creates what is missing; an index on a column that is not there fails.        *)
Script ==
  /\ phase = Down
  /\ IF db.canonical \/ Indexed \subseteq db.columns
     THEN /\ phase' = 1
          /\ db' = [db EXCEPT !.indexes = Tables,
                              !.positions = IF @ = "none" THEN "canonical" ELSE @]
     ELSE phase' = Failed /\ UNCHANGED db
  /\ UNCHANGED <<trades, crashes>> /\ Kept

(* A rebuild numbers the rows without an id from the highest one. *)
Top(rows) == Max({0} \cup Ids(rows))
Numbered(rows) ==
  LET bare == { r \in rows : r.id = 0 }
      rank(r) == Cardinality({ q \in bare : q.key <= r.key })
  IN { IF r.id = 0 THEN [r EXCEPT !.id = Top(rows) + rank(r)] ELSE r : r \in rows }
Converged(d) ==
  [d EXCEPT !.columns = Added, !.canonical = TRUE, !.positions = "canonical",
            !.indexes = (IF d.canonical THEN d.indexes ELSE Tables)
                        \ (IF d.positions = "legacy" THEN {"positions"} ELSE {})]

(* closed_at of exits: the last exit of the group; then the exits nobody named as such. *)
Exits(rows, g) == { r \in rows : r.group = g /\ r.action \in {"close", "reduce"} }
Redated(rows) ==
  { IF r.action \in {"close", "reduce"} /\ r.group # 0
    THEN [r EXCEPT !.closed = Max({ q.opened : q \in Exits(rows, r.group) })]
    ELSE r : r \in rows }
DatedOnce(rows) ==
  { IF r.action \in {"close", "reduce"} /\ r.closed = 0 /\ r.group # 0
    THEN [r EXCEPT !.closed = Max({ q.opened : q \in Exits(rows, r.group) })]
    ELSE r : r \in rows }
Dated(rows) == DatedOnce(rows)
IsExit(r) == r.action = "open" /\ r.status = "closed" /\ r.exit
Entered(rows, g) == \E o \in rows : o.group = g /\ o.action = "open" /\ ~o.exit
Backfilled(rows) ==
  LET dated == { IF IsExit(r) /\ r.closed = 0 THEN [r EXCEPT !.closed = r.opened] ELSE r
                 : r \in Dated(rows) }
  IN { IF IsExit(r) /\ r.group # 0 /\ ~Entered(dated, r.group)
       THEN [r EXCEPT !.action = "close"] ELSE r : r \in dated }

EveryIndex(d) == [d EXCEPT !.indexes = Tables]
TradesOnly(d) == [d EXCEPT !.indexes = @ \cup {"trades"}]
Indexing(d) == EveryIndex(d)

(* Each step commits as a whole. *)
Step ==
  /\ phase \in 1..6
  /\ CASE phase = 1 -> db' = Converged(db)
                       /\ trades' = IF db.canonical THEN trades ELSE Numbered(trades)
       [] phase = 2 -> db' = Indexing(db) /\ UNCHANGED trades
       [] phase = 3 -> trades' = Backfilled(trades) /\ UNCHANGED db
       [] phase = 4 -> db' = [db EXCEPT !.dead = FALSE] /\ UNCHANGED trades
       [] phase = 5 -> db' = [db EXCEPT !.reconciliation = "canonical"] /\ UNCHANGED trades
       [] OTHER -> db' = [db EXCEPT !.version = Version] /\ UNCHANGED trades
  /\ phase' = phase + 1
  /\ UNCHANGED crashes /\ Kept

(* The process dies or is stopped; what a step had not committed is gone. *)
Stop ==
  /\ phase \notin {Down, Failed} /\ crashes < MaxCrashes
  /\ phase' = Down /\ read' = NoBalance /\ crashes' = crashes + 1
  /\ UNCHANGED <<db, trades, balance, reconciled, books, work>>

(* --- the balance ------------------------------------------------------------------------ *)
Up == phase = Running /\ work < MaxWork /\ work' = work + 1 /\ UNCHANGED <<phase, crashes, db>>
Stored == IF balance = NoBalance THEN Start ELSE balance[1]

(* atomic_adjust_balance *)
Adjust ==
  /\ Up /\ \E d \in {-1, 1} : balance' = <<Stored + d>> /\ books' = books + d
  /\ UNCHANGED <<trades, read, reconciled>>

(* Something works out a balance from one it has read, and writes it only if that still       *)
(* stands (save_sim_balance with expected).                                                  *)
Read ==
  /\ Up /\ read = NoBalance /\ read' = <<Stored>>
  /\ UNCHANGED <<trades, balance, reconciled, books>>
Stale(expected) == Stored # expected
NeverStale(expected) == FALSE
Lost(expected) == Stale(expected)
Write ==
  /\ phase = Running /\ read # NoBalance /\ read' = NoBalance
  /\ IF Lost(read[1]) THEN UNCHANGED <<balance, books>>
     ELSE balance' = <<read[1] + 1>> /\ books' = books + 1
  /\ UNCHANGED <<db, trades, phase, reconciled, crashes, work>>

(* --- the ledger --------------------------------------------------------------------------- *)
(* A close writes the exit row and dates the entry; its cash is another transaction.          *)
ExitRow(n, g, profit) ==
  [key |-> n, id |-> n, action |-> "close", status |-> "closed", pnl |-> profit, opened |-> Now,
   closed |-> Now, group |-> g, exit |-> TRUE]
Close ==
  /\ Up /\ \E o \in trades, profit \in {-1, 1} :
             /\ o.action = "open" /\ o.status = "open"
             /\ trades' = (trades \ {o}) \cup {[o EXCEPT !.status = "closed", !.closed = Now],
                                               ExitRow(Top(trades) + 1, o.group, profit)}
             /\ books' = books - profit
  /\ UNCHANGED <<balance, read, reconciled>>

(* RETENTION_PREDICATE: an exit whose time is known and long past. *)
Expired == { r \in trades : r.action \in {"close", "reduce"} /\ r.closed # 0
                            /\ r.closed < Now - Retention }
(* One transaction takes the expired exits and their profit off, or nothing. *)
TakenOff(gone) == Pnl(gone)
NothingOff(gone) == 0
Charge(gone) == TakenOff(gone)
Cleanup ==
  /\ Up /\ Expired # {} /\ balance # NoBalance
  /\ trades' = trades \ Expired /\ balance' = <<Stored - Charge(Expired)>>
  /\ reconciled' = reconciled + 1 /\ UNCHANGED <<read, books>>

(* Rows with ledger meaning are refused. *)
Neutral(r) == r.status # "open" /\ r.pnl = 0
DeleteRow ==
  /\ Up /\ \E r \in trades : Neutral(r) /\ trades' = trades \ {r}
  /\ UNCHANGED <<balance, read, reconciled, books>>

MaintNext == Script \/ Step \/ Stop \/ Adjust \/ Read \/ Write \/ Close \/ Cleanup \/ DeleteRow

(* --- properties ---------------------------------------------------------------------------- *)
(* However the starts were broken off, a program that is up has the schema of a fresh           *)
(* install, and every row an id of its own (database.py:512, 651).                             *)
UpMeansFresh == phase = Running => db = Fresh /\ Cardinality(Ids(trades) \ {0}) = Cardinality(trades)

(* A start takes no row and changes none of its ids, profits and dates that are there; the       *)
(* rows the program writes today are not touched by the next one (database.py:425, 538).  Only   *)
(* an exit that an older program wrote down as an entry may get its name at a later start, when  *)
(* the entry of its group has been deleted.                                                   *)
StartKeepsTheRows ==
  phase # Running =>
    \A r \in trades : \E q \in trades' :
       /\ q.key = r.key /\ q.pnl = r.pnl /\ q.status = r.status
       /\ r.id # 0 => q.id = r.id
       /\ r.closed # 0 => q.closed = r.closed
       /\ r.closed # 0 /\ ~IsExit(r) => q.action = r.action

(* Migrations, clean-ups, deletions and late writers leave what the balance and the rows          *)
(* say together as trading left it (db_manager.py:16, database.py:843).                          *)
IdentityKept == Stored - Pnl(trades) = books

(* What the columns of a row and the records of a schema are. *)
IsRow(r) ==
  r = [key |-> r.key, id |-> r.id, action |-> r.action, status |-> r.status, pnl |-> r.pnl,
       opened |-> r.opened, closed |-> r.closed, group |-> r.group, exit |-> r.exit]
IsDb(d) ==
  d = [columns |-> d.columns, canonical |-> d.canonical, positions |-> d.positions, indexes |-> d.indexes,
       dead |-> d.dead, reconciliation |-> d.reconciliation, version |-> d.version]

(* An id names one row; in an old schema a row may lack one, and is told by its place.          *)
(* (An old file in which two rows have one id is refused by the rebuild, database.py:480.)      *)
AreRows(d, rows) ==
  /\ IsFiniteSet(rows) /\ \A r \in rows : IsRow(r) /\ r.key \in Int /\ r.id \in Nat /\ r.pnl \in Int
  /\ d.canonical => \A r \in rows : r.id # 0
  /\ \A q, r \in rows : q # r /\ q.id = r.id => q.id = 0 /\ q.key # r.key
MaintenanceAssumption == \A f \in Files : IsDb(f.db) /\ AreRows(f.db, f.rows)

(* What the steps of a start have made of the schema so far. *)
Migrated ==
  /\ phase \in {Failed} \cup (Down .. Running) /\ IsDb(db)
  /\ phase > 1 => db.canonical /\ db.columns = Added /\ db.positions = "canonical"
  /\ phase > 2 => db.indexes = Tables
  /\ phase > 4 => db.dead = FALSE
  /\ phase > 5 => db.reconciliation = "canonical"
  /\ phase > 6 => db.version = Version
AreAmounts ==
  /\ books \in Int /\ \A cell \in {balance, read} : cell = NoBalance \/ (cell = <<cell[1]>> /\ cell[1] \in Int)
MaintInv == AreRows(db, trades) /\ Migrated /\ AreAmounts /\ IdentityKept

(* Whatever an older program left behind, the next start succeeds. *)
EveryFileStarts == phase # Failed
=============================================================================
