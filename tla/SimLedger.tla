------------------------------ MODULE SimLedger ------------------------------
(*************************************************************************)
(* The money path of the simulated account (core/executor/executor.py    *)
(* and its callers): opens, closes and reduces run as asyncio tasks,     *)
(* each await lets the other tasks run, and the three places that say    *)
(* what the account owns - the in-memory positions, the trades/positions *)
(* tables and the sim_balance row - are written in different steps.      *)
(*                                                                       *)
(* One action is the code between two awaits.  A symbol's mutations are  *)
(* serialised by its asyncio.Lock and counted by the trade gate; the     *)
(* cash of a close is booked by the caller of close_position, after both *)
(* have been released.  An admin reset, failing database calls and a     *)
(* crash with restart come in between.                                   *)
(*                                                                       *)
(* Amounts are cash: quantity * entry_price of a row is one integer,     *)
(* since the code defines entry_price as that quotient.                  *)
(*************************************************************************)
EXTENDS Sums

CONSTANTS
  Symbols,
  Tasks,           \* handler activations: bus handlers, routes, guard loops
  NoTask,
  NoSymbol,
  MaxRows,         \* bound: opens ever attempted
  Amounts,         \* cash an open may ask for
  Pnls,            \* profit a close may realise
  MinNotional,     \* a reduce leaving less than this closes fully ($10)
  InitialBalance,
  Faults,          \* which database calls may fail: subset of FaultKinds
  MaxResets,       \* bound: admin resets
  MaxCrashes       \* bound: crashes with restart

FaultKinds == {"row", "pay", "undo", "close", "credit"}

ASSUME SymbolsAssumption == NoSymbol \notin Symbols
ASSUME TasksAssumption == NoTask \notin Tasks /\ IsFiniteSet(Tasks)
ASSUME AmountsAssumption ==
  /\ Amounts \subseteq Nat \ {0}
  /\ Pnls \subseteq Int
  /\ MinNotional \in Nat
  /\ InitialBalance \in Int
ASSUME BoundsAssumption ==
  /\ MaxRows \in Nat
  /\ MaxResets \in Nat
  /\ MaxCrashes \in Nat
  /\ Faults \subseteq FaultKinds

Rows == 1 .. MaxRows
NoRow == 0

VARIABLES
  pos,         \* pos[s]: the executor's in-memory position (_positions)
  rev,         \* rev[s]: _position_rev, 0 for a symbol not in the dict
  lock,        \* lock[s]: the task holding the symbol's lock
  active,      \* _gate_active
  owner,       \* owner[r]: the symbol of trades row r
  basis,       \* basis[r]: quantity * entry_price while the row is open, else 0
  snap,        \* snap[s]: the positions table
  cash,        \* system_config.sim_balance
  realised,    \* sum of pnl over the close and reduce rows
  pc,          \* pc[t]: where the activation is
  job,         \* job[t]: its arguments and locals
  due,         \* due[t]: cash movement a committed row of t still owes
  nextRow,     \* the next trade_group to draw
  reset,       \* progress of reset-sim; the gate is closed while not "none"
  resets, crashes,
  orphaned     \* history: drift between cash and rows left by a lost movement

bookVars == <<owner, basis, snap, realised>>
gateVars == <<reset, resets>>
vars == <<pos, rev, lock, active, owner, basis, snap, cash, realised, pc,
          job, due, nextRow, reset, resets, crashes, orphaned>>

NoPosition == [row |-> NoRow, amt |-> 0]
Position == [row : Rows \cup {NoRow}, amt : Nat]
NoJob == [sym |-> NoSymbol, row |-> NoRow, amt |-> 0, back |-> 0, obs |-> 0]

\* The steps a task takes while it holds its symbol's lock and a gate slot.
SlotSteps == {"openFill", "openRow", "openPay", "openUndo", "closeMem", "closeRow"}
Steps == SlotSteps \cup {"idle", "open", "close", "credit"}

InSlot(t) == pc[t] \in SlotSteps
GateClosed == reset # "none"
OpenRows(s) == {r \in Rows : owner[r] = s /\ basis[r] > 0}

Init ==
  /\ pos = [s \in Symbols |-> NoPosition]
  /\ rev = [s \in Symbols |-> 0]
  /\ lock = [s \in Symbols |-> NoTask]
  /\ active = 0
  /\ owner = [r \in Rows |-> NoSymbol]
  /\ basis = [r \in Rows |-> 0]
  /\ snap = [s \in Symbols |-> NoPosition]
  /\ cash = InitialBalance
  /\ realised = 0
  /\ pc = [t \in Tasks |-> "idle"]
  /\ job = [t \in Tasks |-> NoJob]
  /\ due = [t \in Tasks |-> 0]
  /\ nextRow = 1
  /\ reset = "none"
  /\ resets = 0
  /\ crashes = 0
  /\ orphaned = 0

----------------------------------------------------------------------------
(* Helpers *)

Goto(t, step) == pc' = [pc EXCEPT ![t] = step] /\ UNCHANGED job

Finish(t) == pc' = [pc EXCEPT ![t] = "idle"] /\ job' = [job EXCEPT ![t] = NoJob]

\* Leaving the critical section: the slot first, then the symbol lock.
Release(t) ==
  /\ lock' = [lock EXCEPT ![job[t].sym] = NoTask]
  /\ active' = active - 1

Bump(s) == rev' = [rev EXCEPT ![s] = @ + 1]

\* Mutant of CanEnter: no lock per symbol.
CanEnterUnlocked(t) == ~GateClosed

\* Lock and gate slot are taken in one step.  A task that finds the gate closed
\* does not get in; that it may take the event loop with it, which only cuts a
\* behaviour short, is TradeGate's subject.
CanEnter(t) == lock[job[t].sym] = NoTask /\ ~GateClosed

Acquire(t) ==
  /\ lock' = [lock EXCEPT ![job[t].sym] = t]
  /\ active' = active + 1

----------------------------------------------------------------------------
(* Open: OrderExecutor._execute_sim *)

\* The trade_group is drawn with the request, so that the bound is its guard.
OpenRequest(t, s, a) ==
  /\ pc[t] = "idle"
  /\ nextRow <= MaxRows
  /\ nextRow' = nextRow + 1
  /\ pc' = [pc EXCEPT ![t] = "open"]
  /\ job' = [job EXCEPT ![t] =
               [sym |-> s, row |-> nextRow, amt |-> a, back |-> 0, obs |-> 0]]
  /\ UNCHANGED <<pos, rev, lock, active, bookVars, cash, due, gateVars, crashes,
                 orphaned>>

\* A symbol that already has a position refuses the open and books nothing.
RefuseOpen(t) ==
  /\ pc[t] = "open"
  /\ CanEnter(t)
  /\ pos[job[t].sym].row # NoRow
  /\ Finish(t)
  /\ UNCHANGED <<pos, rev, lock, active, bookVars, cash, due, nextRow, gateVars,
                 crashes, orphaned>>

\* Mutant of EnterOpen: no look at the position the symbol already has.
EnterOpenAnyway(t) ==
  /\ pc[t] = "open"
  /\ CanEnter(t)
  /\ Acquire(t)
  /\ Goto(t, "openFill")
  /\ UNCHANGED <<pos, rev, bookVars, cash, due, nextRow, gateVars, crashes, orphaned>>

EnterOpen(t) ==
  /\ pc[t] = "open"
  /\ CanEnter(t)
  /\ pos[job[t].sym].row = NoRow
  /\ Acquire(t)
  /\ Goto(t, "openFill")
  /\ UNCHANGED <<pos, rev, bookVars, cash, due, nextRow, gateVars, crashes, orphaned>>

\* After the cost settings: the position appears in memory and is published.
FillOpen(t) ==
  /\ pc[t] = "openFill"
  /\ pos' = [pos EXCEPT ![job[t].sym] = [row |-> job[t].row, amt |-> job[t].amt]]
  /\ Bump(job[t].sym)
  /\ Goto(t, "openRow")
  /\ UNCHANGED <<lock, active, bookVars, cash, due, nextRow, gateVars, crashes,
                 orphaned>>

\* The open row and its snapshot commit together; the cash is still to move.
CommitOpen(t) ==
  LET k == job[t] IN
  /\ pc[t] = "openRow"
  /\ owner' = [owner EXCEPT ![k.row] = k.sym]
  /\ basis' = [basis EXCEPT ![k.row] = k.amt]
  /\ snap' = [snap EXCEPT ![k.sym] = [row |-> k.row, amt |-> k.amt]]
  /\ due' = [due EXCEPT ![t] = 0 - k.amt]
  /\ Goto(t, "openPay")
  /\ UNCHANGED <<pos, rev, lock, active, cash, realised, nextRow, gateVars,
                 crashes, orphaned>>

\* The insert raises: nothing catches it, the position stays in memory.
FailOpen(t) ==
  /\ "row" \in Faults
  /\ pc[t] = "openRow"
  /\ Finish(t)
  /\ Release(t)
  /\ UNCHANGED <<pos, rev, bookVars, cash, due, nextRow, gateVars, crashes, orphaned>>

PayOpen(t) ==
  /\ pc[t] = "openPay"
  /\ cash' = cash + due[t]
  /\ due' = [due EXCEPT ![t] = 0]
  /\ Finish(t)
  /\ Release(t)
  /\ UNCHANGED <<pos, rev, bookVars, nextRow, gateVars, crashes, orphaned>>

FailPay(t) ==
  /\ "pay" \in Faults
  /\ pc[t] = "openPay"
  /\ Goto(t, "openUndo")
  /\ UNCHANGED <<pos, rev, lock, active, bookVars, cash, due, nextRow, gateVars,
                 crashes, orphaned>>

\* Mutant of UndoOpen: the open row is not cancelled.
UndoOpenKeepsRow(t) ==
  LET k == job[t] IN
  /\ pc[t] = "openUndo"
  /\ snap' = [snap EXCEPT ![k.sym] = NoPosition]
  /\ pos' = [pos EXCEPT ![k.sym] = NoPosition]
  /\ Bump(k.sym)
  /\ due' = [due EXCEPT ![t] = 0]
  /\ Finish(t)
  /\ Release(t)
  /\ UNCHANGED <<owner, basis, realised, cash, nextRow, gateVars, crashes, orphaned>>

\* Mutant of UndoOpen: the position stays in memory.
UndoOpenKeepsPosition(t) ==
  LET k == job[t] IN
  /\ pc[t] = "openUndo"
  /\ basis' = [basis EXCEPT ![k.row] = 0]
  /\ snap' = [snap EXCEPT ![k.sym] = NoPosition]
  /\ due' = [due EXCEPT ![t] = 0]
  /\ Finish(t)
  /\ Release(t)
  /\ UNCHANGED <<pos, rev, owner, realised, cash, nextRow, gateVars, crashes,
                 orphaned>>

\* The deduction failed: row cancelled, snapshot deleted, position dropped.
UndoOpen(t) ==
  LET k == job[t] IN
  /\ pc[t] = "openUndo"
  /\ basis' = [basis EXCEPT ![k.row] = 0]
  /\ snap' = [snap EXCEPT ![k.sym] = NoPosition]
  /\ pos' = [pos EXCEPT ![k.sym] = NoPosition]
  /\ Bump(k.sym)
  /\ due' = [due EXCEPT ![t] = 0]
  /\ Finish(t)
  /\ Release(t)
  /\ UNCHANGED <<owner, realised, cash, nextRow, gateVars, crashes, orphaned>>

\* The undo fails as well: a critical log, and the row never paid for stays.
FailUndo(t) ==
  /\ "undo" \in Faults
  /\ pc[t] = "openUndo"
  /\ orphaned' = orphaned - due[t]
  /\ due' = [due EXCEPT ![t] = 0]
  /\ Finish(t)
  /\ Release(t)
  /\ UNCHANGED <<pos, rev, bookVars, cash, nextRow, gateVars, crashes>>

----------------------------------------------------------------------------
(* Close and reduce: OrderExecutor.close_position and its callers *)

\* The caller sees the position and its revision before it waits for the lock.
CloseRequest(t, s, b) ==
  /\ pc[t] = "idle"
  /\ pos[s].row # NoRow
  /\ pc' = [pc EXCEPT ![t] = "close"]
  /\ job' = [job EXCEPT ![t] =
               [sym |-> s, row |-> pos[s].row, amt |-> 0, back |-> b, obs |-> rev[s]]]
  /\ UNCHANGED <<pos, rev, lock, active, bookVars, cash, due, nextRow, gateVars,
                 crashes, orphaned>>

\* Mutant of Stale: any position of the symbol will do.
StaleIfGone(t) == pos[job[t].sym].row = NoRow

Stale(t) == rev[job[t].sym] # job[t].obs \/ pos[job[t].sym].row = NoRow

\* Mutant of RefuseClose: the close is tried again with the same observation.
RefuseCloseRetries(t) ==
  /\ pc[t] = "close"
  /\ CanEnter(t)
  /\ Stale(t)
  /\ UNCHANGED vars

\* The basis it read is gone: refused with an alert.
RefuseClose(t) ==
  /\ pc[t] = "close"
  /\ CanEnter(t)
  /\ Stale(t)
  /\ Finish(t)
  /\ UNCHANGED <<pos, rev, lock, active, bookVars, cash, due, nextRow, gateVars,
                 crashes, orphaned>>

\* What a reduce of b really hands back when the position is worth a.
Returned(a, b) == IF a - b < MinNotional THEN a ELSE b

\* The originals are captured before the cost settings are awaited.
EnterClose(t) ==
  LET a == pos[job[t].sym].amt IN
  /\ pc[t] = "close"
  /\ CanEnter(t)
  /\ ~Stale(t)
  /\ Acquire(t)
  /\ pc' = [pc EXCEPT ![t] = "closeMem"]
  /\ job' = [job EXCEPT ![t] =
               [@ EXCEPT !.amt = a, !.back = Returned(a, job[t].back)]]
  /\ UNCHANGED <<pos, rev, bookVars, cash, due, nextRow, gateVars, crashes, orphaned>>

\* What is left of the position of task t after its close.
Left(t) ==
  LET k == job[t] IN
  IF k.back = k.amt THEN NoPosition
  ELSE [row |-> pos[k.sym].row, amt |-> k.amt - k.back]

\* The position is popped (or shrunk) before the statements are committed.
MemClose(t) ==
  /\ pc[t] = "closeMem"
  /\ pos' = [pos EXCEPT ![job[t].sym] = Left(t)]
  /\ Goto(t, "closeRow")
  /\ UNCHANGED <<rev, lock, active, bookVars, cash, due, nextRow, gateVars, crashes,
                 orphaned>>

\* The open rows the UPDATE matches: by trade_group, else every one of the symbol.
Matched(k) == IF basis[k.row] > 0 THEN {k.row} ELSE OpenRows(k.sym)

CommitClose(t, p) ==
  LET k == job[t] IN
  /\ pc[t] = "closeRow"
  /\ basis' = [r \in Rows |-> IF r \in Matched(k) THEN k.amt - k.back ELSE basis[r]]
  /\ snap' = [snap EXCEPT ![k.sym] =
                IF k.back = k.amt THEN NoPosition
                ELSE [row |-> k.row, amt |-> k.amt - k.back]]
  /\ realised' = realised + p
  /\ due' = [due EXCEPT ![t] = k.back + p]
  /\ Bump(k.sym)
  /\ Goto(t, "credit")
  /\ Release(t)
  /\ UNCHANGED <<pos, owner, cash, nextRow, gateVars, crashes, orphaned>>

\* A database error on the way: the rows roll back, the memory does not.
FailClose(t) ==
  /\ "close" \in Faults
  /\ pc[t] \in {"closeMem", "closeRow"}
  /\ Finish(t)
  /\ Release(t)
  /\ UNCHANGED <<pos, rev, bookVars, cash, due, nextRow, gateVars, crashes, orphaned>>

\* The caller books invested_returned + pnl, outside the lock and the slot.  It
\* reaches balance_lock() without an await, so it is in that lock's queue before
\* any other task runs.
Credit(t) ==
  /\ pc[t] = "credit"
  /\ cash' = cash + due[t]
  /\ due' = [due EXCEPT ![t] = 0]
  /\ Finish(t)
  /\ UNCHANGED <<pos, rev, lock, active, bookVars, nextRow, gateVars, crashes, orphaned>>

\* The write fails: no caller undoes the close or tries again.
FailCredit(t) ==
  /\ "credit" \in Faults
  /\ pc[t] = "credit"
  /\ orphaned' = orphaned - due[t]
  /\ due' = [due EXCEPT ![t] = 0]
  /\ Finish(t)
  /\ UNCHANGED <<pos, rev, lock, active, bookVars, cash, nextRow, gateVars, crashes>>

----------------------------------------------------------------------------
(* Reset: POST /api/settings/reset-sim inside reset_barrier *)

CloseGate ==
  /\ reset = "none"
  /\ resets < MaxResets
  /\ reset' = "drain"
  /\ resets' = resets + 1
  /\ UNCHANGED <<pos, rev, lock, active, bookVars, cash, pc, job, due, nextRow,
                 crashes, orphaned>>

\* Mutant of EraseRows: it does not wait for the running mutations.
EraseRowsAtOnce ==
  /\ reset = "drain"
  /\ basis' = [r \in Rows |-> 0]
  /\ snap' = [s \in Symbols |-> NoPosition]
  /\ realised' = 0
  /\ reset' = "erased"
  /\ UNCHANGED <<pos, rev, lock, active, owner, cash, pc, job, due, nextRow, resets,
                 crashes, orphaned>>

\* The slots have drained: one transaction deletes trades and positions.
EraseRows ==
  /\ reset = "drain"
  /\ active = 0
  /\ basis' = [r \in Rows |-> 0]
  /\ snap' = [s \in Symbols |-> NoPosition]
  /\ realised' = 0
  /\ reset' = "erased"
  /\ UNCHANGED <<pos, rev, lock, active, owner, cash, pc, job, due, nextRow, resets,
                 crashes, orphaned>>

\* Memory is cleared and every known revision moves on.
ClearMemory ==
  /\ reset = "erased"
  /\ pos' = [s \in Symbols |-> NoPosition]
  /\ rev' = [s \in Symbols |-> IF rev[s] > 0 THEN rev[s] + 1 ELSE 0]
  /\ reset' = "cleared"
  /\ UNCHANGED <<lock, active, bookVars, cash, pc, job, due, nextRow, resets, crashes,
                 orphaned>>

\* The balance is restored unconditionally and the gate opens.  The write queues
\* on balance_lock(), which is first come first served: the credits of closes that
\* committed before the gate drained are ahead of it and are overwritten.
RestoreBalance ==
  /\ reset = "cleared"
  /\ \A t \in Tasks : pc[t] # "credit"
  /\ cash' = InitialBalance
  /\ orphaned' = 0
  /\ reset' = "none"
  /\ UNCHANGED <<pos, rev, lock, active, bookVars, pc, job, due, nextRow, resets, crashes>>

----------------------------------------------------------------------------
(* Crash and restart: restore_positions, then the start-up balance repair *)

\* The row a snapshot is held against: its group's, else the symbol's last.
LedgerRow(s) ==
  IF snap[s].row \in OpenRows(s) THEN snap[s].row
  ELSE CHOOSE r \in OpenRows(s) : \A q \in OpenRows(s) : q <= r

\* The row the position is rebuilt from: the snapshot's when it agrees, else the
\* first open one.
RestoredRow(s) ==
  IF snap[s].row # NoRow /\ basis[LedgerRow(s)] = snap[s].amt
  THEN LedgerRow(s)
  ELSE CHOOSE r \in OpenRows(s) : \A q \in OpenRows(s) : r <= q

Restored(s) ==
  IF OpenRows(s) = {} THEN NoPosition
  ELSE [row |-> RestoredRow(s), amt |-> basis[RestoredRow(s)]]

\* A wallet still at the default with positions open was never persisted: main()
\* replaces it by what the rows imply.
NeedsRepair ==
  /\ cash = InitialBalance
  /\ Total(basis) > 0
  /\ Total(basis) < cash

CrashAndRestart ==
  /\ crashes < MaxCrashes
  /\ crashes' = crashes + 1
  /\ pos' = [s \in Symbols |-> Restored(s)]
  /\ rev' = [s \in Symbols |-> 0]
  /\ lock' = [s \in Symbols |-> NoTask]
  /\ active' = 0
  /\ pc' = [t \in Tasks |-> "idle"]
  /\ job' = [t \in Tasks |-> NoJob]
  /\ due' = [t \in Tasks |-> 0]
  /\ reset' = "none"
  /\ IF NeedsRepair
       THEN /\ cash' = InitialBalance - Total(basis) + realised
            /\ orphaned' = 0
       ELSE /\ cash' = cash
            /\ orphaned' = IF reset \in {"erased", "cleared"}
                             THEN cash - InitialBalance
                             ELSE orphaned - Total(due)
  /\ UNCHANGED <<bookVars, nextRow, resets>>

----------------------------------------------------------------------------

OpenStep(t) ==
  \/ RefuseOpen(t) \/ EnterOpen(t) \/ FillOpen(t) \/ CommitOpen(t) \/ FailOpen(t)
  \/ PayOpen(t) \/ FailPay(t) \/ UndoOpen(t) \/ FailUndo(t)

CloseStep(t) ==
  \/ RefuseClose(t) \/ EnterClose(t) \/ MemClose(t) \/ FailClose(t) \/ Credit(t)
  \/ FailCredit(t)
  \/ \E p \in Pnls : CommitClose(t, p)

Request(t) ==
  \/ \E s \in Symbols, a \in Amounts : OpenRequest(t, s, a)
  \/ \E s \in Symbols : \E b \in 1 .. pos[s].amt : CloseRequest(t, s, b)

ResetStep == CloseGate \/ EraseRows \/ ClearMemory \/ RestoreBalance

\* Nothing is under way: the application may stay like this for ever.
Quiet ==
  /\ reset = "none"
  /\ \A t \in Tasks : pc[t] = "idle"
  /\ UNCHANGED vars

Next ==
  \/ \E t \in Tasks : Request(t) \/ OpenStep(t) \/ CloseStep(t)
  \/ ResetStep
  \/ CrashAndRestart
  \/ Quiet

Spec == Init /\ [][Next]_vars

\* The event loop runs every task that can go on; the lock of a symbol is handed
\* to its waiters in the order they came, so a task is not overtaken for ever.
Fairness ==
  /\ \A t \in Tasks : SF_vars(OpenStep(t) \/ CloseStep(t))
  /\ WF_vars(EraseRows \/ ClearMemory \/ RestoreBalance)

FairSpec == Spec /\ Fairness

----------------------------------------------------------------------------
(* Properties *)

JobType ==
  [sym : Symbols \cup {NoSymbol}, row : Rows \cup {NoRow},
   amt : Nat, back : Nat, obs : Nat]

\* Every variable keeps its type.
TypeOK ==
  /\ pos \in [Symbols -> Position]
  /\ rev \in [Symbols -> Nat]
  /\ lock \in [Symbols -> Tasks \cup {NoTask}]
  /\ active \in Nat
  /\ owner \in [Rows -> Symbols \cup {NoSymbol}]
  /\ basis \in [Rows -> Nat]
  /\ snap \in [Symbols -> Position]
  /\ cash \in Int
  /\ realised \in Int
  /\ pc \in [Tasks -> Steps]
  /\ job \in [Tasks -> JobType]
  /\ due \in [Tasks -> Int]
  /\ nextRow \in Nat \ {0}
  /\ reset \in {"none", "drain", "erased", "cleared"}
  /\ resets \in Nat
  /\ crashes \in Nat
  /\ orphaned \in Int

Erasing == reset \in {"erased", "cleared"}

\* At every instant the balance, the movements the running handlers still owe
\* and the open rows add up to the initial balance plus what the close rows
\* say was earned, but for the movements a crash or a failed write has orphaned:
\* no interleaving of opens, closes, reduces, failed payments and resets creates
\* or destroys money.
InFlightIdentity ==
  ~Erasing =>
    cash + Total(due) + Total(basis) = InitialBalance + realised + orphaned

\* The invariant of tests/test_ledger_invariant.py: with no handler running and no reset in
\* progress, 10000 - sum(open basis) + sum(pnl) is the stored balance.
SettledIdentity ==
  (reset = "none" /\ \A t \in Tasks : pc[t] = "idle") =>
    InitialBalance - Total(basis) + realised = cash

\* While nobody holds a symbol's lock, the position in memory, its snapshot
\* and the open row tell the same story: one open row at most, the same basis,
\* so a restart and the running process would close for the same amount.
BooksAgree ==
  ~Erasing =>
    \A s \in Symbols : lock[s] = NoTask =>
      /\ snap[s] = pos[s]
      /\ OpenRows(s) = (IF pos[s].row = NoRow THEN {} ELSE {pos[s].row})
      /\ pos[s].row # NoRow => basis[pos[s].row] = pos[s].amt

\* A close or a reduce that goes ahead acts on the position its caller saw: not
\* on one opened under the same symbol while it waited for the lock.
CloseActsOnWhatItSaw ==
  \A t \in Tasks :
    pc[t] = "closeMem" =>
      pos[job[t].sym] = [row |-> job[t].row, amt |-> job[t].amt]

\* From the erase to the restored balance no open, close or reduce is under
\* way, and none has left a row: the new account starts from nothing.
ResetWindowIsQuiet ==
  Erasing =>
    /\ \A t \in Tasks : ~InSlot(t)
    /\ Total(basis) = 0 /\ realised = 0

\* The account as the rows imply it, for the refinement of Ledger.
Implied == IF Erasing THEN InitialBalance ELSE cash + Total(due) - orphaned

Account == INSTANCE Ledger WITH
  wallet <- Implied, book <- basis, realised <- realised

\* The tasks together implement the atomic account.
ImplementsLedger == Account!LedgerSpec

\* Every handler that was started comes to an end, whichever database calls fail:
\* none of them leaves the lock or the slot taken behind it.  (A reset under way
\* is another matter: TradeGate.)
HandlersFinish ==
  \A t \in Tasks : (pc[t] # "idle") ~> (pc[t] = "idle")

----------------------------------------------------------------------------
(*************************************************************************)
(* The inductive invariant behind InFlightIdentity, BooksAgree and       *)
(* CloseActsOnWhatItSaw, for databases whose row writes do not fail.     *)
(*************************************************************************)

RowsNeverFail == Faults \cap {"row", "close"} = {}

\* And for a process that neither crashes nor fails to book what it owes.
MoneyNeverLost == Faults \cap {"undo", "credit"} = {} /\ MaxCrashes = 0

Opening == {"open", "openFill", "openRow"}
Paying == {"openPay", "openUndo"}
Closing == {"closeMem", "closeRow"}

\* A symbol's lock is held by exactly the task that is inside its slot.
LockOK ==
  /\ \A t \in Tasks : InSlot(t) => lock[job[t].sym] = t
  /\ \A s \in Symbols : lock[s] # NoTask =>
       InSlot(lock[s]) /\ job[lock[s]].sym = s

\* The gate counts those tasks.
ActiveOK == active = Cardinality({t \in Tasks : InSlot(t)})

\* Snapshot and open row of a symbol commit together and never differ.
DbOK ==
  \A s \in Symbols :
    /\ snap[s].row = NoRow => snap[s].amt = 0
    /\ snap[s].row # NoRow => snap[s].amt > 0 /\ basis[snap[s].row] = snap[s].amt
    /\ \A r \in Rows : (owner[r] = s /\ basis[r] > 0) <=> r = snap[s].row

\* The memory follows the snapshot, but for a symbol under its lock and for the
\* instant between the erase and the clearing of the memory.
MemOK ==
  reset # "erased" =>
    \A s \in Symbols : lock[s] = NoTask => pos[s] = snap[s]

\* A drawn trade_group is used once, and not before its open commits.
FreshOK ==
  /\ \A r \in Rows : r >= nextRow => basis[r] = 0
  /\ \A t \in Tasks : pc[t] \in Opening =>
       /\ job[t].row \in Rows /\ job[t].row < nextRow
       /\ basis[job[t].row] = 0 /\ job[t].amt > 0
       /\ \A u \in Tasks \ {t} :
            pc[u] \in Opening => job[u].row # job[t].row

Own(t) == [row |-> job[t].row, amt |-> job[t].amt]

\* What a task inside its slot knows about its symbol.
TaskOK ==
  \A t \in Tasks :
    LET k == job[t] IN
    /\ pc[t] # "idle" /\ pc[t] # "credit" => k.sym \in Symbols
    /\ pc[t] \in {"openFill", "openRow"} => snap[k.sym] = NoPosition
    /\ pc[t] = "openFill" => pos[k.sym].row = NoRow
    /\ pc[t] = "openRow" => pos[k.sym] = Own(t)
    /\ pc[t] \in Paying =>
         k.row \in Rows /\ snap[k.sym] = Own(t) /\ pos[k.sym] = Own(t)
         /\ due[t] = 0 - k.amt
    /\ pc[t] \in Closing =>
         k.row \in Rows /\ snap[k.sym] = Own(t) /\ 0 < k.back /\ k.back <= k.amt
    /\ pc[t] = "closeMem" => pos[k.sym] = Own(t)
    /\ pc[t] = "closeRow" =>
         pos[k.sym] = (IF k.back = k.amt THEN NoPosition
                       ELSE [row |-> k.row, amt |-> k.amt - k.back])
    /\ pc[t] \notin Paying \cup {"credit"} => due[t] = 0

\* An equal revision means the position its caller saw, unless a close is
\* between its memory change and its commit.
CloseOK ==
  \A t \in Tasks :
    LET k == job[t] IN
    pc[t] = "close" =>
      /\ k.back > 0
      /\ k.obs <= rev[k.sym]
      /\ (/\ rev[k.sym] = k.obs
          /\ pos[k.sym].row # NoRow
          /\ \A u \in Tasks : ~(pc[u] = "closeRow" /\ job[u].sym = k.sym))
           => pos[k.sym].row = k.row /\ k.back <= pos[k.sym].amt

\* While a reset is past its drain nobody is inside and no row is left.
EraseOK ==
  /\ Erasing =>
       /\ \A t \in Tasks : ~InSlot(t)
       /\ \A r \in Rows : basis[r] = 0
       /\ realised = 0
  /\ reset = "cleared" => \A s \in Symbols : pos[s] = NoPosition

IInv ==
  /\ TypeOK
  /\ LockOK /\ ActiveOK
  /\ DbOK /\ MemOK /\ FreshOK
  /\ TaskOK /\ CloseOK /\ EraseOK
  /\ InFlightIdentity
=============================================================================
