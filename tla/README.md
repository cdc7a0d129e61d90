# A verification development for Binance-Trader

TLA+ models of Binance-Trader (a Python/asyncio program that trades, or simulates trading, on
Binance), the TLC configurations that check them on small instances, and TLAPS proofs of the
results that hold for every value of the constants. Paths are relative to `src/`; `executor` is
`core/executor/executor.py`.

- [1. The system](#1-the-system): parts, state, interactions, what is hard
- [2. The modules](#2-the-modules) and how they correspond to the code
- [3. What is model-checked](#3-what-is-model-checked)
- [4. What is proved](#4-what-is-proved)
- [5. Where code and documents part](#5-where-code-and-documents-part)
- [6. What is not modelled](#6-what-is-not-modelled)
- [7. Plan](#7-plan)

## 1. The system

One process: FastAPI routes, an in-memory event bus and a dozen background loops share **one
asyncio event loop**; SQLite (aiosqlite) and a few files hold what survives a restart. Everything
between two `await`s is atomic with respect to the other tasks, and nothing across an `await` is.
Backtests run in threads, the genetic optimiser in processes of its own.

| Component | Source | State | Correct when |
|---|---|---|---|
| Simulated ledger | `executor`, `db/database.py`, `web/deps.py`, `app/main.py`, `web/routes/settings.py` (reset) | positions, revisions, locks; tables `trades`, `positions`, the stored balance | cash + invested = initial + realised; memory, snapshot and row agree; a close acts on what its caller saw |
| Trade gate | `executor` (`_enter_mutation` .. `reset_barrier`) | three threading primitives | nothing inside during a reset; no lost wake-up |
| Circuit breaker, risk manager | `core/risk/circuit_breaker.py`, `core/risk/manager.py` | peaks, equity, streak, trip flag; reservations | the breaker judges the true equity, one alert per trip; one order per symbol on its way |
| Limit orders | `core/executor/pending_orders.py`, `web/routes/market.py` | the `pending_orders` table, the matcher's batch | requested once at most; a final status stays |
| Live orders | `executor` (`_execute_live`) | positions, the exchange's orders | one exchange order per request, none forgotten |
| Event bus | `app/event_bus.py` | bounded queue, subscribers | order per publisher, nothing lost |
| Position guard | `core/risk/position_guard.py`, `app/main.py` | stops in memory and in rows | the stored stop is the enforced one; a crossed stop closes |
| Strategy engine, lifecycle | `core/strategy/engine.py`, `core/ai/strategy_lifecycle.py` | strategies in files and in the engine | who opened manages; an edit is not undone |
| AI controller | `core/ai/deepseek_ctl.py`, `web/routes/ai.py` | suggestion rows, mode, watchlist | nothing changes unapproved but in full_auto |
| Orchestrator, composite, holdout | `core/ai/orchestrator.py`, `composite.py`, `holdout.py` | label, losses, samples; the registry of windows | stopped stays stopped; a window is looked at once |
| Genetic optimiser | `core/ga`, `scripts/ga_worker.py`, `web/routes/ga.py` | population, checkpoint, trial ledger, champions, jobs | every generation is deflated for; nothing scored elsewhere is published |
| Backtest engine | `core/backtest`, `web/routes/backtest.py` | books per genome, the registry of runs | the book adds up; both engines agree |
| Market data | `core/market_data` | candles in memory and on disk, caches, breadth | one row per bar; what unites with the file takes nothing out of it |
| Machine learning | `core/ml` | folds, gate, pickle and sidecar | allowed only on rows it has not seen |
| Regimes, pairs, volume bars | `core/strategy` | labels, positions, builders | no look-ahead; batch = stream |
| News, alerts | `core/news`, `alerts` | averages, rules | every judgement counts once |
| Pages | `web/templates/trade.html`, `web/routes/audit.py` | requests in flight, budgets | what is shown is of what is chosen |
| Database, settings | `db`, `web/routes/db_manager.py`, `app/config.py` | schema, YAML files | a restart changes nothing that was said |

**Interactions.** The engine and the routes publish `SIGNAL_GENERATED` or call `check_signal`;
the risk manager reserves the symbol and publishes `ORDER_REQUEST`; the executor opens the
position, has the wallet pay and publishes `POSITION_UPDATE`, from which the risk manager makes
breaker results. The guard, strategy exits, the breaker and the web all end in `close_position`;
the *caller* credits the wallet after it has returned. `update_balance` computes equity from
wallet plus memory. The optimiser shares only files with the server; the backtest thread shares
the configuration and one engine object with every other backtest.

**What is hard.** (1) A money operation is several steps; memory, row, snapshot and wallet are
written at different awaits; (2) resets, crashes and failing writes come between them; (3) a
caller decides on what it read some awaits ago; (4) the gate mixes threading primitives with
coroutines; (5) the bus awaits the handlers of an event before it takes the next; (6) calendar,
timers and operator reset the breaker while results are on the bus; (7) a request can time out
after it was accepted; (8) the files of the optimiser are overwritten in place by processes that
may be killed anywhere; (9) several paths compute the same thing (two backtest engines, batch and
stream, scored and published genome) and have to agree. `PROJECT.json` lists each hazard at its
line.

## 2. The modules

| Module | Models |
|---|---|
| `Ledger` | abstract account: invest, withdraw, settle, start over, each in one step |
| `SimLedger` | the money path, one action per stretch between awaits; implements `Ledger` |
| `Sums` | `Total(f)`, the sum of an integer function, defined by counting |
| `TradeGate` | the gate at the grain of its threading calls, on any number of event loops |
| `Breaker` | the circuit breaker, what feeds it and everyone who resets it |
| `OrderFlow` | approval, reservations, the executor on the bus, limit orders with matcher and cancel |
| `EventBus` | the queue, its loop, subscribers that publish, rebind, shutdown |
| `StopGuard` | stops in memory and in rows; guard, tighten_stops, opens and closes |
| `LiveOrder` | live orders of one symbol against an external exchange |
| `GaRun`, `GaDesk` | workers and the files they share; the desk that starts, stops and watches them, with a history of the trials really performed |
| `GenePool`, `Scorers` | breeding and publishing of genomes (`genome.py`, `evolver.py`); scoring in processes that die (`fitness.py`) |
| `Backtest`, `Sizer` | both engines and the evaluation of signals they share; sizes, stops, costs |
| `Desk` | the backtest page: runs, polls, records, result files (`web/routes/backtest.py`) |
| `Signals`, `Lifecycle` | the engine's walks over a changing table; passes that retire, tune and generate |
| `Advice`, `Orchestra`, `Composite` | suggestions and modes; the four stopping rules; the study and its hold-out window |
| `Credibility`, `Predictor` | folds, threshold search and verdict of the gate; training, installing, predicting |
| `Regime`, `Pairs`, `VolumeBars` | labels of a refitted model; the pair trader and its null; bars of a volume clock |
| `Candles`, `Memo`, `Screener`, `Breadth` | candle store; the cache before the host; token screen; breadth recorder |
| `Newsroom` | judgements, averages, alert rules |
| `TradePage`, `Throttle` | the page's requests and answers; the request budgets |
| `Maintenance`, `Settings` | migrations, start and clean-up; the configuration and its files |
| `Parts` | `Breaker` beside the seventeen of these there are theorems about; `MCParts` adds the other five for TLC |
| `MCWaiting` | `TradeGate`, `Memo` and `LiveOrder`, for TLC |
| `*Proofs` | the theorems of the module in their name; `TradeProofs` those of `TradeGate`, `LiveOrder` and `EventBus`; `DataProofs`, for `PartsProofs`, induction, sums and sequences, and the lemmas of the parts that store and count; `ResearchProofs` those of `GenePool`, `Scorers`, `Orchestra`, `Predictor`, `Regime` and `Credibility` |

A definition called a *mutant* in a comment is a plausible bug; no specification uses it. Each
part of a property that is grouped over several modules has its own mutant beside the definition
it would replace, so every part can be seen to bite.

**Composition.** By abstraction: `SimLedger` sees the gate as the atomic object `TradeGate`
examines in detail; `OrderFlow` uses the bus as the FIFO that `EventBus` shows it to be, and
`StopGuard` a lock per symbol as `SimLedger` uses it. By extension: `GaDesk` puts the web server's
actions beside those of `GaRun`'s workers. And side by side: parts that share no state are put
into one specification, in which a behaviour is one of one part, named by `turn`. In `Parts` all
of them keep their variables in the same cells `c1`..`c14` (the `INSTANCE` says which is which),
except the breaker, which `Parts` extends: its variables stand still in the others' behaviours. So
the reachable states are the union of the parts', not their product. The constants of a part come
as one record (`SigSetup`, `LifeSetup`, ...). `SpecBeside(otherChoice, otherMove)` leaves open
what else goes on beside the eighteen parts of `Parts`; `MCParts` fills in `OthersChoice` and
`OthersMove`, and `PartsSpec` is that instance.

**SimLedger.** `pc[t]` is the point at which task `t` (a bus handler, a route, a guard loop) is
parked: `open` and `close` wait for the symbol's lock and the gate, `openFill`, `openRow`,
`openPay`, `openUndo` are the awaits of `_execute_sim`, `closeMem`, `closeRow` those of
`close_position`, `credit` is the caller's `atomic_adjust_balance`. `due[t]` is the money a
committed row of `t` has not yet moved. `Fail*` are the exception paths (`Faults` says which
calls may fail). `CloseGate`, `EraseRows`, `ClearMemory`, `RestoreBalance` are the reset,
`CrashAndRestart` is `restore_positions` with the repair of the wallet. A reduce is a close of
part of the basis; one that would leave less than `MinNotional` closes everything. Amounts are
whole; `realised` stands for the close rows.

**TradeGate.** An activation holds its loop's thread from await to await; `Block` is
`_gate_closed_evt.wait` in a coroutine, which keeps the thread. The test of the gate and the
increment are one step (no call between them); the increment and `_gate_idle.clear()` are two.

**Breaker.** `OpenMemory/OpenPay/OpenUndo` and `CloseMemory/CloseCredit` are the halves of each
money operation, each ending where `update_balance` is called; `Report` handles one
`POSITION_UPDATE`; `Pass/TripNow/Refuse` are `check()` with the day and week roll; `Tomorrow` is
midnight and `Timer` the loop that fires some time after; `Override`, `AskAI/Recover/StayTripped`
are the operator and the recovery loop.

**OrderFlow.** `check_signal` gives way nowhere between its same-symbol test and the publication,
so `ApproveSignal` is one step; `ManualTrade` and a limit order pass it without a reservation.
`TakeOrder/Fill/EndOrder` is the executor on the bus; `Scan/Cross/RejectLimit/MarkFilled/
PublishLimit` the matcher, `CancelRead/CancelWrite` the route; `Age` lets a reservation time out.

**EventBus.** `Publish` puts or parks; `Unpark` is a parked publisher that gets room; `Take` hands
an event to all subscribers, `Gathered` ends `asyncio.gather`; `Rebind` is
`_bind_to_running_loop`.

**StopGuard.** Positions are objects: a task that holds one may write to it after the symbol has
another, while a row is written *by symbol*. `GuardWake .. GuardSleep` is one pass of the guard
with the awaits for forecast, write and close; `Tighten*` the breaker's action.

**LiveOrder.** `orders` and `wire` are the exchange and the network (external): a timed-out
request has been accepted, arrives later, or never does. -2010 answers a duplicate and a lack of
funds alike, so `AnswerDuplicate` is always possible and the lookup decides.

**GaRun.** A population is the window and arm it was scored on and whether a generation brought a
better head. Checkpoint, ledger, walk-forward state and champions are files that outlive the
process that wrote them and are offered to any later one. `GenerationsAreCounted` counts a
generation that was scored twice once; so `GaDesk` keeps a history beside them, `tried` (the
genomes scored since the population was seeded), which a kill or a resume, that takes the count
back to the one in the checkpoint, does not touch. It is kept up to `MaxTried`; run `ga`, which
does not look at it, has 0 there.

**Scorers.** What a genome trades depends on the positions it may hold, which are those of the
desk divided by the genomes of its chunk (`Slots`, `fitness.py:1713`); a genome whose
configuration is refused keeps its share. So a score is compared with that of the same genome in
the chunk the cutting of the whole population puts it in, by whichever path it came - the pool, a
retry, or the parent after the pool has broken - and not with the one it would get alone.

**Candles.** `Save` is the cache: it unites with what it reads from the file, or, when the read
fails, writes the frame alone. `Repair` is the download script: with `--merge` it unites, without
it, or when uniting raises, it replaces the file. `StartBackfill` reads the rows `EndBackfill`
writes, if their number and the last stamp are still the same. The histories `writer` and `shrunk` say who wrote
last and whether bars have gone.

The other modules say in their first comment what they keep of the data.

## 3. What is model-checked

| Run | Module | Properties | Instance |
|---|---|---|---|
| `ledger` | `SimLedger` | `CloseActsOnWhatItSaw`, `ResetWindowIsQuiet`, `HandlersFinish` | 1 symbol, two tasks, two opens, a reset, every write may fail |
| `ledger_crash` | `SimLedger` | `InFlightIdentity`, `BooksAgree`, `ImplementsLedger` | 2 symbols, payments, undos and credits fail, a reset, a crash |
| `waiting` | `MCWaiting` | `WindowIsExclusive`, `NoLostWakeup`, `MutationsWaitOutTheReset`, `ResetFinishes`, `CallersAnswered`, `OneOrderPerRequest`, `NoOrderForgotten`, `NoPhantomPosition` | two mutations and a reset on three loops; three callers of the cache; three live requests of three attempts, two closes, a crash |
| `gate_hang` | `MCWaiting` | `MutationsWaitOutTheReset`, violated | the same on the one loop of the deployment |
| `orders` | `OrderFlow` | `LimitOrderOnce`, `ReservationHolds`, `OrderSettlesOnce` | two signals, a manual trade, a limit order, a crash |
| `bus` | `EventBus` | `PublisherOrder`, `EventsHandled` | two publishers, a subscriber that publishes, four events, a queue of two, a rebind (404 052 states) |
| `stops` | `StopGuard` | `SnapshotFollows`, `StopFires` | two positions after one another, a reduce, a trip, a crash, failing writes |
| `live_failed` | `LiveOrder` | `FailedMeansNoOrder`, violated | one request |
| `ga` | `GaDesk` | `GenerationsAreCounted`, `ScoredWhereItTrades`, `SearchesInOrder`, `JobSettles` | two launches of any jobs, a fault, two windows, two coins (586 653 states) |
| `ga_rescored` | `GaDesk` | `EveryTrialCounts`, violated | two launches of one job of two generations, no fault but a stop |
| `parts` | `MCParts` | `SettledEquity`, `PeaksInOrder`, `OneAlertPerTrip`, `BacktestAddsUp`, `EnginesAgree`, `GenomeTradesAsScored`, `NothingFromTheFuture`, `StudiesCanBeBelieved`, `DataIsWhatWasSeen`, `LimitsHold`, `WhatIsShownIsTrue`, `StoreIsSound`, `ThePastStays`, `OnlyWhoMayActs`, `OthersStay` | the breaker over a midnight and a Monday, and twenty-two more parts, each beside its `INSTANCE` or in its `Small...` record (1 795 569 states) |
| `gate_cost` | `MCParts` | `AllowedPaysTheFills`, violated | the gate alone |

**Bounds.** Each is a constant that occurs in a guard (`Max...`, `Last...`), or a set of inputs,
and its comment says what it bounds. They are enough for the case each property is about: two
tasks and one symbol give every race on a lock; amounts 3 with `MinNotional` 2 have a reduce that
stays and one that closes all; days 6 and 7 contain a midnight and a Monday, and two closes reach
each limit of the breaker; a queue of two with four events is full with publishers parked; two
positions after one another show every confusion of old and new a guard can make, and prices on
both sides of the entry hit both stops. A worker and its successor are enough to meet each file
of the other with each kind of job; two windows and two coins tell the right checkpoint from the
wrong. Two slots, two symbols, two paths and three signals fill the book of a backtest. Two
crashes of a start meet old and new files; three callers with one lock overfill the screener's
map; three charges of a budget of two in a window of two refuse and expire. What does not depend
on the bound is proved where it matters most (section 4).

**Deadlock** is checked except in `bus` (a bus that was shut down, or waits for itself, has no
step), `gate_hang` (the blocked loop is the point), `ga` and `ga_rescored` (all launches used up) and the runs of
`MCParts` (a finished backtest or study stops). Elsewhere `Quiet` steps say when nothing is left
to do within the bounds.

**Fairness.** asyncio runs ready callbacks first in first out and wakes lock waiters in order, so
a task that can run again and again is not passed over: strong fairness of a task's steps in
`SimLedger` and `TradeGate` (a task waiting for a lock is enabled on and off), weak where a step
stays enabled until it is taken (`Memo`, the steps of a reset, of the bus loop, of the matcher, of a worker and
of its monitor, which are endless loops). The guard waits for locks others take and return: strong
fairness of its step, and weak of the commits it waits for. A parked publisher is in the deque of
the queue: strong fairness of `Unpark`. Two assumptions are about the world: in `orders` that a
pending order's price, which crosses its limit again and again, is met by a scan (`Cross`), and in
`EventBus` that subscribers return. Nothing is assumed of opens, closes, users, timers, crashes or
the exchange.

## 4. What is proved

| Theorem | States | Under |
|---|---|---|
| `SimLedgerProofs`: `Invariance`, `TypeCorrect`, `MoneyIsConserved`, `BooksAlwaysAgree`, `ClosesAreNeverStale`, `ResetIsExclusive` | `IInv`, `TypeOK`, `InFlightIdentity`, `BooksAgree`, `CloseActsOnWhatItSaw`, `ResetWindowIsQuiet` | `RowsNeverFail` |
| `SettledBooks` | `SettledIdentity` | `RowsNeverFail`, `MoneyNeverLost` |
| `Refinement` | `SimLedger` implements `Ledger` (`ImplementsLedger`) | `RowsNeverFail` |
| `TradeProofs`: `WindowExclusive` | `WindowIsExclusive` | `OneReset` |
| `CounterIsExact`, `WakeupNotLost` | `ActiveCounts`, `NoLostWakeup` | nothing |
| `LiveInvariance`, `NeverTwoOrders`, `NothingForgotten`, `NoPhantoms` (of `LiveOrder`) | `LiveInv`, `OneOrderPerRequest`, `NoOrderForgotten`, `NoPhantomPosition` | nothing |
| `HandledInOrder` (of `EventBus`) | `PublisherOrder` | nothing |
| `OrderFlowProofs`: `TypeCorrect`, `OneRequestPerOrder`, `FinalStatus`, `ReservationsHold` | `TypeOK`, `LimitOrderOnce`, `FinalStatusStays`, `ReservationHolds` | nothing |
| `StopGuardProofs`: `Inductive`, `TypeCorrect`, `RowsFollow`, `PositionsHaveOneOwner` | `IInv`, `TypeOK`, `SnapshotFollows`, `OneOwner` | nothing |
| `GaProofs`: `TypesKept`, `TrialsCounted`, `NeverElsewhere` | `RunTypeOK`, `GenerationsAreCounted`, `ScoredWhereItTrades` | nothing |
| `NothingSkipped` | `SearchesInOrder` | `OneWalk` |
| `PartsProofs`: `Invariance`, `TypeCorrect`, `EquitySettles`, `PeaksStayInOrder`, `EveryTripIsHeard`, `WeekPeakIsKept` (of `Breaker`) | `IInv`, `TypeOK`, `SettledEquity`, `PeaksInOrder`, `OneAlertPerTrip`, `WeekPeakHolds` | nothing |
| `WhatIsLimited`, `ActsWithinItsRights`, `NothingStoredIsLost` | `LimitsHold`, `OnlyWhoMayActs`, `OthersStay` | nothing, beside any other parts |
| `WhatIsShown`, `WhatIsStored`, `StudiesAreSound`, `GenomesAreSound` | `WhatIsShownIsTrue`, `StoreIsSound`, `StudiesCanBeBelieved`, `GenomeTradesAsScored` | nothing, beside any other parts |
| `NothingIsSeenAhead` | `NothingFromTheFuture` | of the gate `EmbargoCovers`, of the other parts nothing |
| `BreakerAmongTheParts` | the breaker's specification and invariants in `SpecBeside` | nothing, beside any other parts |

They hold for any number of symbols, tasks, rows, resets, crashes, loops, mutations, requests,
orders, publishers, windows, generations, users and strategies, and any amounts, prices, limits
and calendars. "Nothing" leaves the assumptions a module makes of its constants (its `ASSUME`),
which give them their types and, where the code has an order between two of them, that order. The
others are real conditions:

- `RowsNeverFail`: the transactions of opens and closes commit (deduction, undo and credit may
  still fail and the process may crash). Without it the properties are false, see section 5.
- `MoneyNeverLost`: undo and credit succeed and nothing crashes; a lost movement is by definition
  unsettled.
- `OneReset`: resets do not overlap. With two, the first opens the gate of the second.
- `OneWalk`: all walk-forward jobs have the same number of windows. The file with the state of a
  walk (`ga_wf_state.json`) does not say which walk it is of, so one that is resumed with another
  number of windows continues where the other stood (`core/ga/walkforward.py:206`).
- `EmbargoCovers` (`GateSetup.embargo >= GateSetup.span`): the embargo is no shorter than the label
  horizon. It is by default (`core/ml/predictor.py:482`); `ml.embargo_bars` may make it shorter
  (`app/config.py:853`), and then a row after a fold may share bars with the labels it trades. It
  is a condition on the behaviours of the gate alone; that the gate's trades pay fold by fold is
  proved without it (`GateEarns`).

**The arguments.** Hardly any property is inductive as it stands; each proof strengthens it by
what the program relies on at the places where it waits.

*SimLedger.* `IInv` adds what each task knows: `LockOK` (a lock is held by the task inside the
slot) and `ActiveOK` (the gate counts them); `DbOK` (snapshot and open row commit together);
`MemOK` (memory follows the snapshot of an unlocked symbol); `FreshOK` (a drawn row is nobody
else's); `TaskOK` (what a task works on at each of its steps, and that only a payer or creditor
owes); `CloseOK` (an equal revision means the position the caller saw, except between the memory
change and the commit of another close: what makes the `Stale` test sufficient); `EraseOK` (past
the drain nobody is inside and no row is left). A change of cash is a change of one `due` or one
row, so three facts about `Total` carry all sums: `TotalUpdate`, `TotalInteger`, `TotalZero`. They
need no induction, since `Total` counts units of money in a set: the library's theorems about
cardinalities are enough. `Refinement` maps the account's wallet to `Implied`, the cash plus what
is owed; a payment is then a stutter and each commit one step of `Ledger`.

*TradeGate.* `CounterInv` adds `SomebodyWakes` to the exact counter: the idle event is set, or a
mutation is inside, or somebody is about to set it. It speaks of all resets at once, so it needs
no `OneReset`. `WindowInv` adds that from closing to
reopening the gate is closed, which is where overlapping resets would break it.

*LiveOrder.* All that is on the exchange or on the wire carries the one id of a request made, so a
second order would be the same element of a set; before the first attempt nothing is out;
`NoOrderForgotten` is extended to what is still on the wire, which is what a late arrival needs.

*EventBus.* `InOrder` compares along the whole way of an event - handled, in the loop's hand,
queued, parked - every event with every later one of its publisher; each move appends at the end
of an ordered line.

*OrderFlow.* For a limit order, `MatchFollowsStatus`: whoever works on an order read it when it was
open, and an order that has asked for its position is final and in nobody's hands; "AND
status='open'" lets one of the two writers through. For a reservation, `ReservedWhileOut`: until
it is recorded as lost, a strategy order in the queue or in execution is the only one of its
symbol, and the symbol is reserved - so that an approval, which finds no reservation, finds no
order either.

*StopGuard.* A position has one owner (`OneOwner`: a number drawn for one symbol is never in
another's memory, row or local variable); what memory and row of a symbol say is known from who
holds its lock (`LocksHold`); a task about to store a stop stores the one the position has, unless
the other is storing too or a write was missed (`Stores`). Then `RowFollows`, which extends the
property to a position that is not paid yet, is kept by every step.

*GaRun.* `RunInv`: the files are sound whoever wrote them last; each process is in one of three
states of knowledge (`InEvolve`, `InArm`, `InWalk`) about what it read from them; published
champions are sound. The key is that a checkpoint carries its window, arm and count of trials, and
`_read_checkpoint` refuses one that does not match, so the proof never asks which process wrote it.

*Breaker.* `Sane`: fields typed, equity never above the daily peak, that never above the weekly
one, and the reason that was alerted is there exactly while tripped; results and calendar are
arbitrary.

*Parts.* `PartsInv` is the conjunction of the invariants of the parts, each guarded by its `turn`;
every theorem is about `SpecBeside` with an arbitrary state predicate and an arbitrary action for
the other parts, so it does not depend on what `MCParts` puts there. What each invariant adds:

- *Lifecycle*, `StampFollows`: a pass that has begun has taken the stamp of its job, and while the
  stamp is due no pass is under way. *Throttle*, `StillCharged`: a request served in the last
  window is still charged to both of its buckets, whoever's buckets were pruned since.
  *Orchestra*, `KilledByLosses`: only the rule of losses stops a strategy for longer than one
  decision. *Advice*, `ListsAreFull`: an answer about to be stored is not empty either.
- *TradePage*: a request that carries the present number asks for the chosen symbol and interval,
  and none carries a later one. *Newsroom*, `PublishedInOrder`: what the engine has heard of a
  coin, what is queued and what was judged are longer and longer beginnings of one sequence;
  `RestIsAhead`: of the rules an event met, those not yet asked stand further down the list,
  however the list was edited meanwhile.
- *Maintenance*, `AreRows` and `Migrated`: an id names one row and is never lost, and what each
  step of a start has made of the schema is there while the later ones run. *Settings*: the
  endpoint the file would start with was asked for as well, and no other file has one. *Desk*,
  `WritesItsOwn`: an id about to be written is drawn by one request alone, and the row of that id
  is of the same run; `AloneFindsItsOwn`: a run nobody overlaps finds in the shared attributes what
  it put there.
- *Pairs*, `LatchOutlastsTheStop`: since a stop either the latch is set and nothing held, or a calm
  bar has come; `ClosesFirst`: no bar goes from one side to the other. From these the trades are
  disjoint intervals, each charged at its start and its end and nowhere between, whatever the
  scores. *Composite*: a claim is the first or says it is not, and no artifact is without a claim
  of its own (`ClaimedFirst`); that a curve is recomputable is a fact about forward filling on
  every bar, with or without a point.
- *GenePool*: a genome of the pool is confined to the timeframes and conditions of its job; a
  confined genome is its own confinement, so publishing and seeding find nothing to change, and
  what its conditions need is among what is switched on with them. *Scorers*: the chunks lie one
  after the other within the population, for any number of genomes and workers (`ScoreChunks`,
  which is arithmetic of `\div` and `%`), so settling one touches no genome of another; each
  result of a settled chunk is `Explained` by the path that brought it; and as a refused genome
  keeps its place (`ScoreSlots`), every pass over a chunk gives each of its genomes the share of
  the positions that the size of the chunk says (`ScorePass`).
- *Credibility*, `GateInv`: the rows that were kept are in the order of their bars, so rows `k`
  apart lie `k` bars apart at least (`GateApart`) and a purge that counts rows purges enough bars;
  the blocks of the folds lie one after the other (`GateBounds`), so a row belongs to one fold and
  the verdict's total is the sum of what the folds earn (`GateEarns`, by `SumUnites`).
  *Predictor*, `Vouched`: what is live is the model of one training with the meta of the same,
  allowed under the contract in force, and a verdict that is not zero is the side of such a one.
  *Regime*: that the frame is a series of
  closes is all there is to keep; that every position is labelled once, from a forward pass that
  ends at it, under a fit that ended before it, is an induction along the walk from refit to
  refit (`RegCausal`). *Orchestra*, `OrcSamples`: the samples need not be sorted for the bisection
  to end at one that is not later than the present (`OrcCut`), only for it to be the latest.

*Induction.* The library's induction rules take an operator as a parameter, which the provers
cannot instantiate. But well-foundedness of the natural numbers in the form `WFMin` is a statement
about sets: from it follow the least number (`Least`), induction over numbers and over finite sets
(`NumberInduction`, `SetInduction`), the greatest element of a finite set, and with them the value
of the folds the community modules define - that a sum may be taken apart anywhere (`SumTakes`,
`SumSplits`), depends on the values alone (`SumAgrees`), and is bounded from below. A recursive
function is a `CHOOSE`, and says nothing until some function solves its equation: `RankRecursion`
builds one level by level wherever the values a body looks at are of lower rank, and
`RankInduction` says what holds of all of them. `DataProofs` begins with these.

**Only model-checked.** Liveness (`HandlersFinish`, `MutationsWaitOutTheReset`, `ResetFinishes`,
`CallersAnswered`, `OrderSettlesOnce`, `EventsHandled`, `StopFires`, `JobSettles`): TLAPS 1.4.5
handles neither `ENABLED` nor fairness. `BacktestAddsUp`, `EnginesAgree`, `DataIsWhatWasSeen` and
`ThePastStays`: parts of each rest on selecting and sorting sequences, which the provers do not
know (`SelectSeq` has no definition for them), or on two whole engines run side by side. Of `ThePastStays` the part about the weekly peak is
proved (`WeekPeakIsKept`).

## 5. Where code and documents part

Four runs of section 3 end in a violation, and `PROJECT.json` quotes the sentences they refute. A
mutation hangs on the loop that a reset needs (`gate_hang`); an order reported as failed is on the
exchange (`live_failed`); the gate takes the fee off twice (`gate_cost`); and a generation that was
scored when its worker was killed is scored again, and its trials are counted once
(`ga_rescored`, `evolver.py:581`).
The properties below are stated in their modules because a document, comment or test says them, and
fail in the code; no run checks them.

| Property (module) | What happens |
|---|---|
| `SettledIdentity` (`SimLedger`, with `Faults`) | a close commits and its credit raises, nobody repeats it (`app/main.py:99`); the INSERT of an open raises with the position already in memory (`executor:727`); a position is popped before a transaction that fails (`executor:1044`) |
| `WindowIsExclusive` (`TradeGate`, two resets) | the first of two overlapping resets opens the gate of the second (`executor:135`) |
| `NoFalseAlarm` (`Breaker`) | credits of closes are still to come when another payment updates the equity: a trip on a drawdown the account never had (`core/risk/manager.py:664`) |
| `DailyLossCounts`, `OverrideResumes`, `RecoversTheTripped` (`Breaker`) | losses booked after midnight are erased by the first check of the day; the operator's reset keeps the weekly peak and the next check trips again; the recovery loop resets on an answer about an earlier trip |
| `MaxTradesHolds`, `NoSameSymbolRace` (`OrderFlow`) | approvals on the way are not counted against `max_open_trades`; the update of an old close clears the reservation of a new signal |
| `CancelledNeverTrades`, `FilledIsExecuted` (`OrderFlow`) | cancelled after the batch was read, requested all the same; marked filled, then a crash before the request runs |
| `NoEventDropped` (`EventBus`) | a parked publisher is woken into the queue a rebind abandons (`event_bus.py:85`) |
| `StopSurvivesRestart`, `TightenTightens`, `FloorNeverTightens` (`StopGuard`) | a stop stored by symbol lands in the next position's row; `tighten_stops` also loosens; the floor of the width enters a maximum that tightens |
| `NeverReplaced`, `ExitsWork` (`LiveOrder`) | a second live open overwrites the position; `close_position` places no order in live mode |
| `OneWorker` (`GaDesk`), `ScoredOnItsBasket` (`GaRun`) | the monitor of the first worker clears the handle of the second (`web/routes/ga.py:548`); a checkpoint of another basket of symbols is resumed (`evolver.py:890`) |
| `TunedWasTested` (`Lifecycle`), `AppliedMeansRan` (`Advice`) | what goes live after tuning is not what the file holds, when the operator has edited it meanwhile (`strategy_lifecycle.py:452`); a row says "applied" although applying raised (`web/routes/ai.py:170`) |
| `NoSilentLook` (`Composite`) | runs show their out-of-sample numbers before they claim the window, so those that end in between have looked without an entry (`holdout.py:27`) |
| `NewIsNeverLow` (`Screener`) | a new listing whose age failed to load scores low (`screener.py:389`) |
| `CacheNeverTruncates`, `BackfillNeverTruncates` (`Candles`) | a file that cannot be read, because the download script is writing it, is taken for none and replaced by a short window (`ohlcv_cache.py:492`); a backfill takes a file for unmoved that a merge has changed inside, and undoes the merge (`download_history.py:650`). That a download without `--merge` replaces the file is its purpose, and no claim is made for it |
| `FresherRowWins` (`Candles`) | a bar still forming overwrites the repaired one on disk (`ohlcv_cache.py:397`) |
| `RecordedOnce` (`Desk`) | two pages that fetch one run record it twice |
| `LoadingEnds`, `TickIsSkipped`, `EstimateIsOfTheForm`, `PriceIsOfTheSymbol` (`TradePage`) | answers for a symbol or form the user has left (`trade.html:379`, `503`) |
| `ThresholdIsTheBand` (`Credibility`), `PreloadIsGated`, `VerdictIsOfAClosedBar` (`Predictor`) | the applied threshold may be off the searched band (`credibility.py:319`); a preload takes a refused model (`backtest/engine.py:648`); a closing tick may publish what was computed from the bar still forming (`predictor.py:190`) |
| `EveryFileStarts` (`Maintenance`), `EmptyFieldLeavesTheKey` (`Settings`) | a file that lacks the later columns fails at the indexes on them, which come before the columns (`database.py:345`); an empty field takes the key of the environment for the one in use (`routes/settings.py:57`) |

The properties of the passing runs are stated around these, with the exception in the formula:
`ReservationHolds` names the lost reservation, `EventsHandled` the jam and the rebind,
`SnapshotFollows` the writes that missed, `SettledEquity` the undone open. Further remarks from
reading the code while modelling it:

- Lifecycle: the gap filling of the loop never happens, because the stamp it looks at is set
  before; retiring never reaches the engine's copy; removing all coins of a strategy leaves the
  empty list, which means every coin.
- AI: `validate_and_deploy` has no caller; an approval may be given twice or to a stale row.
- Orchestrator: `missing_regime_action` cannot be reached; a late trade under an earlier label
  resets the latch; breadth samples are appended unsorted and searched by bisection.
- GA: the walk-forward state has no identity (`OneWalk`); checkpoint, state and ledger are written
  in place; there is no limit for a worker that hangs.
- Backtest: overlapping runs share one engine object, though a comment (`engine.py:356`) says
  otherwise; each POST overwrites the global taker fee.
- Pairs: the guard refuses a hedge ratio of zero only, its docstring a non-positive one; the last
  bar's charge is lost. Memo: "callers for the same key share one fetch" fails after a fetch that
  failed (`ttl_cache.py:55`).
- ML: the volatility and TFT models are installed without any gate; a refused retraining
  overwrites the files. Breadth: a line appended after a torn one is lost with it.
- The state table of `docs/core-algorithms/03-circuit-breaker.md` has `reset_daily()` lead from
  TRIPPED to NORMAL, which only `reset_trip` does.

## 6. What is not modelled

- In the modelled parts: float rounding of basis and profit, the size, price and confidence
  arithmetic of the risk pipeline (a choice) and the wait of `check_signal` between exposure and
  sizing under volatility targeting, the balance views of the pages, a reset whose erase fails, unsubscribing
  from the bus, live partial fills (the code ignores them), fitness values, genes, population
  resizing, the publication gate and seeds of the optimiser, metrics, Monte Carlo and the report
  of a backtest, `run_hybrid`'s fall-through on an exception.
- Numerical code (indicators, feature columns, volatility and direction models): its correctness
  is about real numbers, not about states and steps. Model answers, articles and market moves are
  choices.
- The list of tradable coins and their listing dates (`core/market_data/universe.py`), backup and
  restore of the database file, authentication (no operation waits between what it reads and
  writes), translation tables, templates other than `trade.html`, one-shot scripts and measurement
  tools.

## 7. Plan

Done: the modules of section 2 with their runs; proofs of every safety invariant and action
property of the runs of `SimLedger`, `TradeGate`, `OrderFlow`, `EventBus`, `StopGuard`,
`LiveOrder`, `GaRun` and `Breaker`, and of eight groups of `Parts`. Left, in this order:

1. Proofs of the groups that are only model-checked, part by part, each moving from `MCParts` to
   `Parts`: one row per bar (`Candles`), one crawl at a time (`Screener`), the books of a backtest.
2. `WindowIsExclusive` under a weaker condition than `OneReset`, as a guide for a gate that counts
   its resets.
3. A lock per key for `Memo` as an abstract specification, and `Memo` as its implementation.
4. `Universe`: list and listing dates, in memory and on disk.
