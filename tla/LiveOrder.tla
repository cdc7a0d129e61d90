------------------------------ MODULE LiveOrder ------------------------------
(*************************************************************************)
(* A real order (OrderExecutor._execute_live): up to three attempts at   *)
(* create_order under one client order id, adoption of an order that had *)
(* been accepted already, and the position kept in memory afterwards.    *)
(* The requests come from the bus one after another, here all for one    *)
(* symbol; close_position, which the exits call in either mode, runs     *)
(* beside them.                                                          *)
(*                                                                       *)
(* The exchange is external: it accepts a client id once and answers     *)
(* -2010 to a second order under it - and to an order it refuses for     *)
(* lack of funds.  A request that times out may have been accepted, may  *)
(* never arrive, or may arrive later.                                    *)
(*************************************************************************)
EXTENDS Naturals, FiniteSets

CONSTANTS
  MaxRequests,   \* bound: ORDER_REQUESTs
  MaxCloses,     \* bound: calls of close_position
  MaxCrashes     \* bound: crashes with restart

ASSUME LiveOrderAssumption == {MaxRequests, MaxCloses, MaxCrashes} \subseteq Nat

Attempts == 3
Requests == 1 .. MaxRequests
None == 0

VARIABLES
  request,     \* the latest ORDER_REQUEST taken from the bus
  step,        \* how far its handler is
  attempt,     \* the attempt it makes, from 1
  orders,      \* external: client ids of the orders the exchange has accepted
  wire,        \* external: client ids of requests that may still arrive
  pos,         \* the request whose order the position in memory came from
  closes, crashes,
  tracked,     \* history: requests whose order has been recorded
  alerted,     \* history: alerts published, with their request
  lost,        \* history: requests whose handler or position a crash took
  exited       \* history: requests whose position was closed

bounds == <<closes, crashes>>
liveVars == <<request, step, attempt, orders, wire, pos, bounds, tracked, alerted, lost, exited>>

LiveInit ==
  /\ request = 0 /\ step = "idle" /\ attempt = 1
  /\ orders = {} /\ wire = {}
  /\ pos = None
  /\ closes = 0 /\ crashes = 0
  /\ tracked = {} /\ alerted = {} /\ lost = {} /\ exited = {}

\* Mutant of ClientId: an id of its own for every attempt.
ClientIdFresh(r, n) == <<r, n>>

\* One stable id for all attempts.
ClientId(r, n) == <<r, 0>>

Id == ClientId(request, attempt)

Alert(kind) == alerted' = alerted \cup {<<kind, request>>}

----------------------------------------------------------------------------

Begin ==
  /\ step = "idle" /\ request < MaxRequests
  /\ request' = request + 1
  /\ step' = "send" /\ attempt' = 1
  /\ UNCHANGED <<orders, wire, pos, bounds, tracked, alerted, lost, exited>>

\* The quantity rounds to nothing, or is worth less than the minimum.
RejectSize ==
  /\ step = "send" /\ attempt = 1
  /\ step' = "idle"
  /\ Alert("below minimum")
  /\ UNCHANGED <<request, attempt, orders, wire, pos, bounds, tracked, lost, exited>>

\* The attempt failed: the next one, or the end.
Retry ==
  IF attempt < Attempts THEN attempt' = attempt + 1 /\ step' = "send"
  ELSE step' = "failed" /\ UNCHANGED attempt

Accepted ==
  /\ step = "send"
  /\ Id \notin orders
  /\ orders' = orders \cup {Id}
  /\ step' = "track"
  /\ UNCHANGED <<request, attempt, wire, pos, bounds, tracked, alerted, lost, exited>>

\* -2010, for a duplicate or for another reason: the order is looked up.
AnswerDuplicate ==
  /\ step = "send"
  /\ step' = "lookup"
  /\ UNCHANGED <<request, attempt, orders, wire, pos, bounds, tracked, alerted, lost, exited>>

\* Another error, and nothing has been placed.
Refused ==
  /\ step = "send"
  /\ Retry
  /\ UNCHANGED <<request, orders, wire, pos, bounds, tracked, alerted, lost, exited>>

\* No answer: the order was accepted, or is still on its way.
TimedOut ==
  /\ step = "send"
  /\ Id \notin orders
  /\ \/ orders' = orders \cup {Id} /\ UNCHANGED wire
     \/ wire' = wire \cup {Id} /\ UNCHANGED orders
  /\ Retry
  /\ UNCHANGED <<request, pos, bounds, tracked, alerted, lost, exited>>

ArriveLate(i) ==
  /\ i \in wire
  /\ wire' = wire \ {i}
  /\ orders' = orders \cup {i}
  /\ UNCHANGED <<request, step, attempt, pos, bounds, tracked, alerted, lost, exited>>

\* Mutant of Found: a duplicate is believed without looking.
FoundUnseen ==
  /\ step = "lookup"
  /\ step' = "track"
  /\ UNCHANGED <<request, attempt, orders, wire, pos, bounds, tracked, alerted, lost, exited>>

\* The order is there: adopted.
Found ==
  /\ step = "lookup"
  /\ Id \in orders
  /\ step' = "track"
  /\ UNCHANGED <<request, attempt, orders, wire, pos, bounds, tracked, alerted, lost, exited>>

\* There is none, or the lookup itself fails.
NotFound ==
  /\ step = "lookup"
  /\ Retry
  /\ UNCHANGED <<request, orders, wire, pos, bounds, tracked, alerted, lost, exited>>

Failed ==
  /\ step = "failed"
  /\ step' = "idle"
  /\ Alert("order failed")
  /\ UNCHANGED <<request, attempt, orders, wire, pos, bounds, tracked, lost, exited>>

Track ==
  /\ step = "track"
  /\ step' = "idle"
  /\ pos' = request
  /\ tracked' = tracked \cup {request}
  /\ UNCHANGED <<request, attempt, orders, wire, bounds, alerted, lost, exited>>

\* Mutant of TrackFails: the failure is only logged.
TrackFailsSilently ==
  /\ step = "track"
  /\ step' = "idle"
  /\ UNCHANGED <<request, attempt, orders, wire, pos, bounds, tracked, alerted, lost, exited>>

\* The answer cannot be recorded: never sent again, but reported.
TrackFails ==
  /\ step = "track"
  /\ step' = "idle"
  /\ Alert("tracking failed")
  /\ UNCHANGED <<request, attempt, orders, wire, pos, bounds, tracked, lost, exited>>

\* close_position: rows and memory; the exchange is not asked for anything.
ClosePosition ==
  /\ pos # None
  /\ closes < MaxCloses
  /\ closes' = closes + 1
  /\ exited' = exited \cup {pos}
  /\ pos' = None
  /\ UNCHANGED <<request, step, attempt, orders, wire, crashes, tracked, alerted, lost>>

\* A live position has no row to be restored from.
CrashAndRestart ==
  /\ crashes < MaxCrashes
  /\ crashes' = crashes + 1
  /\ lost' = lost \cup ({pos} \ {None}) \cup (IF step = "idle" THEN {} ELSE {request})
  /\ pos' = None
  /\ step' = "idle"
  /\ UNCHANGED <<request, attempt, orders, wire, closes, tracked, alerted, exited>>

\* Nothing is under way: the application may stay like this for ever.
Quiet == step = "idle" /\ wire = {} /\ UNCHANGED liveVars

LiveNext ==
  \/ Begin \/ RejectSize
  \/ Accepted \/ AnswerDuplicate \/ Refused \/ TimedOut
  \/ (\E i \in wire : ArriveLate(i))
  \/ Found \/ NotFound \/ Failed \/ Track \/ TrackFails
  \/ ClosePosition \/ CrashAndRestart \/ Quiet

LiveSpec == LiveInit /\ [][LiveNext]_liveVars

----------------------------------------------------------------------------
(* Properties *)

\* Every variable keeps its type, and the attempts their number.
LiveTypeOK ==
  /\ request \in 0 .. MaxRequests
  /\ step \in {"idle", "send", "lookup", "track", "failed"}
  /\ attempt \in 1 .. Attempts
  /\ orders \cup wire \subseteq Requests \X (0 .. Attempts)
  /\ pos \in Requests \cup {None}
  /\ alerted \subseteq {"below minimum", "order failed", "tracking failed"} \X Requests
  /\ tracked \cup lost \cup exited \subseteq Requests

OrdersOf(r) == {i \in orders : i[1] = r}

\* One signal never becomes two real positions, whatever times out and is tried
\* again.
OneOrderPerRequest == \A r \in Requests : Cardinality(OrdersOf(r)) <= 1

Handled(r) == r < request \/ (r = request /\ step = "idle")

\* An order the exchange has accepted is recorded, or somebody is told: none is
\* forgotten, but for what a crash takes with it.
NoOrderForgotten ==
  \A r \in Requests :
    Handled(r) /\ OrdersOf(r) # {} =>
      \/ r \in tracked \cup lost
      \/ \E k \in {"order failed", "tracking failed"} : <<k, r>> \in alerted

\* A position in memory has an order behind it on the exchange.
NoPhantomPosition == pos # None => OrdersOf(pos) # {}

\* The alert says that the order failed: there is none, then or later.
FailedMeansNoOrder ==
  \A r \in Requests : <<"order failed", r>> \in alerted => OrdersOf(r) = {}

\* "An open must never silently replace a live position for the same symbol."
NeverReplaced == \A r \in tracked : r \in {pos} \cup exited \cup lost

\* "Track position in-memory so exit/reduce handlers work": what an exit handler
\* has closed is not held on the exchange any more.
ExitsWork == \A r \in exited : OrdersOf(r) = {}

----------------------------------------------------------------------------
(* The inductive invariant. *)

\* Every order and every request on the wire has the one id of a request made.
IdsOK == orders \cup wire \subseteq {<<r, 0>> : r \in 1 .. request}

\* What the running handler knows of its order.
StepOK ==
  /\ step # "idle" => request > 0
  /\ step = "send" /\ attempt = 1 => <<request, 0>> \notin orders \cup wire
  /\ step = "track" => <<request, 0>> \in orders

\* An order accepted, or still to arrive, of a request whose handler is gone has
\* been recorded, reported or lost in a crash.
KnownOK ==
  \A r \in Requests :
    Handled(r) /\ <<r, 0>> \in orders \cup wire =>
      \/ r \in tracked \cup lost
      \/ \E k \in {"order failed", "tracking failed"} : <<k, r>> \in alerted

LiveInv ==
  /\ LiveTypeOK /\ IdsOK /\ StepOK /\ KnownOK
  /\ pos # None => <<pos, 0>> \in orders
=============================================================================
