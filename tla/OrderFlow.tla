------------------------------ MODULE OrderFlow ------------------------------
(*************************************************************************)
(* From a wish to trade to a position.  Strategy signals, manual trades  *)
(* and crossed limit orders all pass RiskManager.check_signal and become *)
(* an ORDER_REQUEST on the event bus, which handles one event at a time; *)
(* the executor opens the position and says so with a POSITION_UPDATE.   *)
(* Limit orders live in the pending_orders table (LimitOrderMatcher),    *)
(* may be cancelled over the web, and outlive a restart; the bus does    *)
(* not.                                                                  *)
(*                                                                       *)
(* check_signal does not give way between its same-symbol test and the   *)
(* publication of the order.  What the first five steps of the pipeline  *)
(* decide is a free choice here; a reduce, which leaves the position     *)
(* where it is, is not modelled, nor is the money (SimLedger).           *)
(*************************************************************************)
EXTENDS Naturals, Sequences, SequencesExt, FiniteSets

CONSTANTS
  Symbols,
  Orders,          \* ids of limit orders
  SymbolOf,        \* the symbol of a limit order
  MaxTrades,       \* max_open_trades
  MaxSignals,      \* bound: strategy signals
  MaxManual,       \* bound: manual trades
  MaxCrashes,      \* bound: crashes with restart
  Slow,            \* whether a reservation may reach its timeout
  Strategy, Manual, NoSource

ASSUME OrderFlowAssumption ==
  /\ Orders \subseteq Nat /\ SymbolOf \in [Orders -> Symbols]
  /\ {Strategy, Manual, NoSource} \cap Orders = {} /\ Strategy \notin {Manual, NoSource}
  /\ {MaxTrades, MaxSignals, MaxManual, MaxCrashes} \subseteq Nat
  /\ Slow \in BOOLEAN

\* For an instance in which all limit orders are of one symbol.
SameSymbol == [o \in Orders |-> CHOOSE s \in Symbols : TRUE]

VARIABLES
  held,        \* symbols in the executor's _positions
  closing,     \* symbols popped by a close that has not published yet
  pending,     \* _pending_signals
  aged,        \* those of them past _pending_timeout_sec
  queue,       \* the event bus
  exec,        \* the order the bus is executing, and how far
  status,      \* status[o]: the pending_orders table; "new" is no row
  batch,       \* orders the matching pass has still to look at
  match,       \* the order the matcher is working on, and its step
  cancel,      \* cancel[o]: progress of POST /api/orders/{o}/cancel
  signals, manuals, crashes,
  requested,   \* history: requested[o]: ORDER_REQUESTs for o
  executed,    \* history: limit orders that opened a position
  cleared      \* history: symbols whose reservation went before its order

memory == <<held, closing>>
risk == <<pending, aged>>
limit == <<status, batch, match, cancel>>
bounds == <<signals, manuals, crashes>>
history == <<requested, executed, cleared>>
vars == <<memory, risk, queue, exec, limit, bounds, history>>

Sources == Orders \cup {Strategy, Manual}
Signal(s) == [kind |-> "signal", sym |-> s, src |-> Strategy]
OrderRequest(s, src) == [kind |-> "order", sym |-> s, src |-> src]
Update(s) == [kind |-> "update", sym |-> s, src |-> NoSource]
Idle == [step |-> "idle", sym |-> NoSource, src |-> NoSource]
NoMatch == [step |-> "idle", order |-> 0]

Init ==
  /\ held = {} /\ closing = {}
  /\ pending = {} /\ aged = {}
  /\ queue = <<>>
  /\ exec = Idle
  /\ status = [o \in Orders |-> "new"]
  /\ batch = {}
  /\ match = NoMatch
  /\ cancel = [o \in Orders |-> "none"]
  /\ signals = 0 /\ manuals = 0 /\ crashes = 0
  /\ requested = [o \in Orders |-> 0]
  /\ executed = {}
  /\ cleared = {}

----------------------------------------------------------------------------
(* RiskManager *)

\* The strategy orders for s on their way: queued, or being executed.
Queued(s) == {i \in DOMAIN queue : queue[i] = OrderRequest(s, Strategy)}

Executing(s) == exec.sym = s /\ exec.src = Strategy /\ exec.step = "cost"

Outstanding(s) == Cardinality(Queued(s)) + (IF Executing(s) THEN 1 ELSE 0)

\* A reservation that goes while its order is still on the way.
Forget(gone) ==
  /\ pending' = pending \ gone
  /\ aged' = aged \ gone
  /\ cleared' = cleared \cup {s \in gone \cap pending : Outstanding(s) > 0}

\* Steps 6 and 7, after the purge of aged reservations.
Free(s) == s \notin held /\ s \notin pending \ aged /\ Cardinality(held) < MaxTrades

\* Mutant of Reserve: the approved symbol is not remembered.
ReserveNot(s) == Forget(aged)

\* _on_signal reserves the symbol it approved; the other callers do not.
Reserve(s) ==
  /\ pending' = (pending \ aged) \cup {s}
  /\ aged' = {}
  /\ cleared' = cleared \cup {q \in aged : Outstanding(q) > 0}

Emit(s) ==
  /\ signals < MaxSignals
  /\ signals' = signals + 1
  /\ queue' = Append(queue, Signal(s))
  /\ UNCHANGED <<memory, risk, exec, limit, manuals, crashes, history>>

BusFree == exec = Idle /\ queue # <<>>

ApproveSignal ==
  LET s == Head(queue).sym IN
  /\ BusFree /\ Head(queue).kind = "signal"
  /\ Free(s)
  /\ Reserve(s)
  /\ queue' = Append(Tail(queue), OrderRequest(s, Strategy))
  /\ UNCHANGED <<memory, exec, limit, bounds, requested, executed>>

\* Breaker, exposure or size reject before the purge, steps 6 and 7 after it.
RejectSignal ==
  /\ BusFree /\ Head(queue).kind = "signal"
  /\ queue' = Tail(queue)
  /\ \/ UNCHANGED <<risk, cleared>>
     \/ ~Free(Head(queue).sym) /\ Forget(aged)
  /\ UNCHANGED <<memory, exec, limit, bounds, requested, executed>>

\* POST /api/trade and market orders of POST /api/order, once approved.
ManualTrade(s) ==
  /\ manuals < MaxManual
  /\ manuals' = manuals + 1
  /\ Free(s)
  /\ Forget(aged)
  /\ queue' = Append(queue, OrderRequest(s, Manual))
  /\ UNCHANGED <<memory, exec, limit, signals, crashes, requested, executed>>

\* _on_position_update: the symbol is open, or closed.
OnUpdate ==
  /\ BusFree /\ Head(queue).kind = "update"
  /\ queue' = Tail(queue)
  /\ Forget({Head(queue).sym})
  /\ UNCHANGED <<memory, exec, limit, bounds, requested, executed>>

\* Sixty seconds pass.
Age(s) ==
  /\ Slow
  /\ s \in pending \ aged
  /\ aged' = aged \cup {s}
  /\ UNCHANGED <<memory, pending, queue, exec, limit, bounds, history>>

----------------------------------------------------------------------------
(* OrderExecutor: opens run on the bus, closes anywhere; both under the lock *)

\* The symbol has a position: alert, no POSITION_UPDATE.
RefuseOrder ==
  LET e == Head(queue) IN
  /\ BusFree /\ e.kind = "order"
  /\ e.sym \in held
  /\ queue' = Tail(queue)
  /\ UNCHANGED <<memory, risk, exec, limit, bounds, history>>

TakeOrder ==
  LET e == Head(queue) IN
  /\ BusFree /\ e.kind = "order"
  /\ e.sym \notin held \cup closing
  /\ exec' = [step |-> "cost", sym |-> e.sym, src |-> e.src]
  /\ queue' = Tail(queue)
  /\ UNCHANGED <<memory, risk, limit, bounds, history>>

Fill ==
  /\ exec.step = "cost"
  /\ held' = held \cup {exec.sym}
  /\ queue' = Append(queue, Update(exec.sym))
  /\ exec' = [exec EXCEPT !.step = "row"]
  /\ executed' = executed \cup ({exec.src} \cap Orders)
  /\ UNCHANGED <<closing, risk, limit, bounds, requested, cleared>>

\* Row and payment are done, or the payment failed and the open is undone.
EndOrder ==
  /\ exec.step = "row"
  /\ exec' = Idle
  /\ held' \in {held, held \ {exec.sym}}
  /\ UNCHANGED <<closing, risk, queue, limit, bounds, history>>

CloseMemory(s) ==
  /\ s \in held /\ s # exec.sym
  /\ held' = held \ {s}
  /\ closing' = closing \cup {s}
  /\ UNCHANGED <<risk, queue, exec, limit, bounds, history>>

\* The rows are committed and the update published, or the database failed.
EndClose(s) ==
  /\ s \in closing
  /\ closing' = closing \ {s}
  /\ queue' \in {queue, Append(queue, Update(s))}
  /\ UNCHANGED <<held, risk, exec, limit, bounds, history>>

----------------------------------------------------------------------------
(* PendingOrderStore, LimitOrderMatcher and the cancel route *)

Place(o) ==
  /\ status[o] = "new"
  /\ status' = [status EXCEPT ![o] = "open"]
  /\ UNCHANGED <<memory, risk, queue, exec, batch, match, cancel, bounds, history>>

\* Mutant of Close: UPDATE without "AND status='open'".
CloseAnyway(o, final) == status' = [status EXCEPT ![o] = final]

\* mark_filled, mark_cancelled: only an open order changes.
Close(o, final) ==
  status' = [status EXCEPT ![o] = IF @ = "open" THEN final ELSE @]

\* evaluate_once reads the open orders ...
Scan ==
  /\ match = NoMatch /\ batch = {}
  /\ \E o \in Orders : status[o] = "open"
  /\ batch' = {o \in Orders : status[o] = "open"}
  /\ UNCHANGED <<memory, risk, queue, exec, status, match, cancel, bounds, history>>

\* ... and takes them last id first.
Upcoming(o) == match = NoMatch /\ o \in batch /\ \A q \in batch : q <= o

Skip(o) ==
  /\ Upcoming(o)
  /\ batch' = batch \ {o}
  /\ UNCHANGED <<memory, risk, queue, exec, status, match, cancel, bounds, history>>

\* The price, which may be awaited, has crossed: check_signal decides.
Cross(o, verdict) ==
  /\ Upcoming(o)
  /\ batch' = batch \ {o}
  /\ match' = [step |-> verdict, order |-> o]
  /\ \/ verdict = "approved" /\ Free(SymbolOf[o]) /\ Forget(aged)
     \/ verdict = "rejected" /\ ~Free(SymbolOf[o]) /\ Forget(aged)
     \/ verdict = "rejected" /\ UNCHANGED <<risk, cleared>>
  /\ UNCHANGED <<memory, queue, exec, status, cancel, bounds, requested, executed>>

\* Mutant of RejectLimit: the refused order stays open and is scanned again.
RejectLimitKept ==
  /\ match.step = "rejected"
  /\ match' = NoMatch
  /\ UNCHANGED <<memory, risk, queue, exec, status, batch, cancel, bounds, history>>

RejectLimit ==
  /\ match.step = "rejected"
  /\ Close(match.order, "cancelled")
  /\ match' = NoMatch
  /\ UNCHANGED <<memory, risk, queue, exec, batch, cancel, bounds, history>>

\* Mutant of MarkFilled: the row is not touched.
MarkFilledForgotten ==
  /\ match.step = "approved"
  /\ match' = [match EXCEPT !.step = "filled"]
  /\ UNCHANGED <<memory, risk, queue, exec, status, batch, cancel, bounds, history>>

\* mark_filled: what it returns is not looked at.
MarkFilled ==
  /\ match.step = "approved"
  /\ Close(match.order, "filled")
  /\ match' = [match EXCEPT !.step = "filled"]
  /\ UNCHANGED <<memory, risk, queue, exec, batch, cancel, bounds, history>>

PublishLimit ==
  LET o == match.order IN
  /\ match.step = "filled"
  /\ match' = NoMatch
  /\ queue' = Append(queue, OrderRequest(SymbolOf[o], o))
  /\ requested' = [requested EXCEPT ![o] = @ + 1]
  /\ UNCHANGED <<memory, risk, exec, status, batch, cancel, bounds, executed, cleared>>

\* The route reads the order, and answers 409 unless it is open ...
CancelRead(o) ==
  /\ status[o] = "open" /\ cancel[o] = "none"
  /\ cancel' = [cancel EXCEPT ![o] = "read"]
  /\ UNCHANGED <<memory, risk, queue, exec, status, batch, match, bounds, history>>

\* ... then it marks it, and answers ok.
CancelWrite(o) ==
  /\ cancel[o] = "read"
  /\ Close(o, "cancelled")
  /\ cancel' = [cancel EXCEPT ![o] = "ok"]
  /\ UNCHANGED <<memory, risk, queue, exec, batch, match, bounds, history>>

\* The bus, the reservations and the handlers are gone; an open or a close that
\* was half done may or may not have been committed.
CrashAndRestart ==
  LET doubtful == closing \cup (IF exec.step = "row" THEN {exec.sym} ELSE {}) IN
  /\ crashes < MaxCrashes
  /\ crashes' = crashes + 1
  /\ \E kept \in SUBSET doubtful : held' = (held \ doubtful) \cup kept
  /\ closing' = {} /\ pending' = {} /\ aged' = {}
  /\ queue' = <<>> /\ exec' = Idle
  /\ batch' = {} /\ match' = NoMatch
  /\ cancel' = [o \in Orders |-> IF cancel[o] = "read" THEN "none" ELSE cancel[o]]
  /\ UNCHANGED <<status, signals, manuals, history>>

----------------------------------------------------------------------------

RiskStep == ApproveSignal \/ RejectSignal \/ OnUpdate

ExecutorStep == RefuseOrder \/ TakeOrder \/ Fill \/ EndOrder

Crossing == \E o \in Orders : Cross(o, "approved") \/ Cross(o, "rejected")

MatcherStep == Scan \/ Crossing \/ RejectLimit \/ MarkFilled \/ PublishLimit

\* Nothing is under way: the application may stay like this for ever.
Quiet ==
  /\ queue = <<>> /\ exec = Idle /\ closing = {}
  /\ match = NoMatch /\ batch = {}
  /\ \A o \in Orders : cancel[o] # "read"
  /\ UNCHANGED vars

Next ==
  \/ \E s \in Symbols : Emit(s) \/ ManualTrade(s) \/ Age(s) \/ CloseMemory(s) \/ EndClose(s)
  \/ \E o \in Orders : Place(o) \/ Skip(o) \/ CancelRead(o) \/ CancelWrite(o)
  \/ RiskStep \/ ExecutorStep \/ MatcherStep
  \/ CrashAndRestart
  \/ Quiet

Spec == Init /\ [][Next]_vars

\* The bus and the matcher are loops that go on; prices that keep crossing are
\* an assumption about the market.
Fairness ==
  /\ WF_vars(RiskStep \/ ExecutorStep)
  /\ WF_vars(Scan \/ RejectLimit \/ MarkFilled \/ PublishLimit)
  /\ \A o \in Orders : SF_vars(Cross(o, "approved") \/ Cross(o, "rejected"))

FairSpec == Spec /\ Fairness

----------------------------------------------------------------------------
(* Properties *)

Event ==
  [kind : {"signal"}, sym : Symbols, src : {Strategy}]
    \cup [kind : {"order"}, sym : Symbols, src : Sources]
    \cup [kind : {"update"}, sym : Symbols, src : {NoSource}]

\* Every variable keeps its type.
TypeOK ==
  /\ held \subseteq Symbols /\ closing \subseteq Symbols
  /\ pending \subseteq Symbols /\ aged \subseteq pending
  /\ queue \in Seq(Event)
  /\ exec \in {Idle} \cup [step : {"cost", "row"}, sym : Symbols, src : Sources]
  /\ status \in [Orders -> {"new", "open", "filled", "cancelled"}]
  /\ batch \subseteq Orders
  /\ match \in {NoMatch} \cup [step : {"approved", "rejected", "filled"}, order : Orders]
  /\ cancel \in [Orders -> {"none", "read", "ok"}]
  /\ requested \in [Orders -> Nat]
  /\ executed \subseteq Orders /\ cleared \subseteq Symbols

\* A limit order asks the executor for one position at most, whatever the matcher,
\* the cancel route and a restart do in between.
LimitOrderOnce == \A o \in Orders : requested[o] <= 1

\* A filled or cancelled order stays what it is: the matcher and the cancel route,
\* which both read the order well before they write it, do not overwrite each other.
FinalStatusStays ==
  [][\A o \in Orders :
       status[o] \in {"filled", "cancelled"} => status'[o] = status[o]]_vars

\* A second strategy order for a symbol is let through only after the reservation
\* of the first was lost - timed out, or cleared by the update of an older close.
ReservationHolds ==
  \A s \in Symbols : Outstanding(s) > 1 => s \in cleared

\* A limit order whose price keeps crossing is filled or cancelled in the end.
OrderResolves ==
  \A o \in Orders : (status[o] = "open") ~> (status[o] \in {"filled", "cancelled"})

\* An order is settled, and once.
OrderSettlesOnce == FinalStatusStays /\ OrderResolves

\* Step 7 of the pipeline, docs/core-algorithms/02-risk-check-pipeline.md: the
\* account never has more positions than max_open_trades.
MaxTradesHolds == Cardinality(held) <= MaxTrades

\* RiskManager._on_signal reserves the symbol "to prevent same-symbol race": no two
\* strategy orders for one symbol are on their way together.
NoSameSymbolRace == \A s \in Symbols : Outstanding(s) <= 1

\* An order that is cancelled - the route answers ok with that status - has opened
\* no position.
CancelledNeverTrades ==
  \A o \in Orders : status[o] = "cancelled" => o \notin executed

\* The life of an order is not lost in a restart: one marked filled has its request
\* published, or about to be, or has opened its position.
FilledIsExecuted ==
  \A o \in Orders :
    status[o] = "filled" =>
      \/ match = [step |-> "filled", order |-> o]
      \/ OrderRequest(SymbolOf[o], o) \in Range(queue)
      \/ exec.src = o
      \/ o \in executed

----------------------------------------------------------------------------
(* The inductive invariants behind LimitOrderOnce and ReservationHolds. *)

\* Whoever works on an order read it when it was open, and before it asks for a
\* position the order is final: no later pass takes it up again.
MatchFollowsStatus ==
  /\ \A o \in Orders :
       /\ requested[o] <= 1
       /\ requested[o] = 1 =>
            /\ status[o] \in {"filled", "cancelled"} /\ o \notin batch
            /\ match = NoMatch \/ match.order # o
       /\ o \in batch => status[o] # "new"
  /\ match # NoMatch => match.order \notin batch /\ status[match.order] # "new"
  /\ match.step = "filled" => status[match.order] \in {"filled", "cancelled"}

\* Until its reservation is lost, a strategy order is the only one for its symbol and
\* the symbol stays reserved.
ReservedWhileOut ==
  \A s \in Symbols \ cleared :
    /\ \A i, j \in Queued(s) : i = j
    /\ Executing(s) => Queued(s) = {}
    /\ Executing(s) \/ Queued(s) # {} => s \in pending
=============================================================================
