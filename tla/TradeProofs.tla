---------------------------- MODULE TradeProofs ----------------------------
(*************************************************************************)
(* Three steps on the way of a trade. TradeGate: for any number of event  *)
(* loops, mutations and resets the gate counts exactly what is inside    *)
(* and no wake-up is lost, and a reset that is the only one finds nobody *)
(* inside its window; two resets at a time break the exclusion.          *)
(* LiveOrder: what holds of the live orders for any number of requests,  *)
(* closes and crashes, and whatever the network does with the attempts   *)
(* of a request.  EventBus: the order of the events of one publisher,    *)
(* for any number of publishers, subscribers and events, any capacity,   *)
(* and with shutdown and rebinding.                                      *)
(*************************************************************************)
EXTENDS TradeGate, LiveOrder, EventBus, FiniteSetTheorems, TLAPS

----------------------------------------------------------------------------
(* Live orders *)

\* The handler's id is the same in every attempt.
LEMMA OneId == Id = <<request, 0>>
BY DEF Id, ClientId

\* Requests are numbered from 1, and the number of the latest is one of them.
LEMMA Numbers ==
  ASSUME LiveTypeOK
  PROVE  /\ MaxRequests \in Nat /\ request \in Nat /\ request <= MaxRequests
         /\ Requests \subseteq Nat \ {0}
         /\ request > 0 => request \in Requests
<1>1. MaxRequests \in Nat
  BY LiveOrderAssumption
<1>2. request \in 0 .. MaxRequests
  BY DEF LiveTypeOK
<1> QED BY <1>1, <1>2 DEF Requests

\* An alert about the request at hand, and its order, keep their types.
LEMMA AlertTyped ==
  ASSUME LiveTypeOK, request \in Requests,
         NEW k \in {"below minimum", "order failed", "tracking failed"},
         alerted' = alerted \cup {<<k, request>>}
  PROVE  alerted' \subseteq {"below minimum", "order failed", "tracking failed"} \X Requests
<1>1. <<k, request>> \in {"below minimum", "order failed", "tracking failed"} \X Requests
  OBVIOUS
<1>2. alerted \subseteq {"below minimum", "order failed", "tracking failed"} \X Requests
  BY DEF LiveTypeOK
<1> QED BY <1>1, <1>2

LEMMA OrderTyped ==
  ASSUME LiveTypeOK, request \in Requests,
         orders' \cup wire' \subseteq orders \cup wire \cup {<<request, 0>>}
  PROVE  orders' \cup wire' \subseteq Requests \X (0 .. Attempts)
<1>1. <<request, 0>> \in Requests \X (0 .. Attempts)
  BY DEF Attempts
<1>2. orders \cup wire \subseteq Requests \X (0 .. Attempts)
  BY DEF LiveTypeOK
<1> QED BY <1>1, <1>2

\* Nothing is under way when the process starts.
LEMMA LiveStarts == LiveInit => LiveInv
<1> SUFFICES ASSUME LiveInit PROVE LiveInv
  OBVIOUS
<1> USE DEF LiveInit, Attempts, None, Requests
<1>1. LiveTypeOK
  BY LiveOrderAssumption DEF LiveTypeOK
<1>2. IdsOK /\ StepOK
  BY DEF IdsOK, StepOK
<1>3. KnownOK
  BY DEF KnownOK
<1> QED BY <1>1, <1>2, <1>3 DEF LiveInv

\* A failed attempt goes on with the next, never with the first, or ends.
LEMMA RetryMoves ==
  ASSUME LiveTypeOK, Retry
  PROVE  /\ attempt' \in 1 .. Attempts
         /\ step' \in {"send", "failed"}
         /\ step' = "send" => attempt' # 1
<1>1. attempt \in 1 .. 3
  BY DEF LiveTypeOK, Attempts
<1>2. CASE attempt < 3
  BY <1>1, <1>2 DEF Retry, Attempts
<1>3. CASE attempt >= 3
  BY <1>1, <1>3 DEF Retry, Attempts
<1> QED BY <1>1, <1>2, <1>3

\* Taking a request, and refusing it for its size: its id is still unused.
LEMMA BeginPreserves ==
  ASSUME LiveInv, Begin \/ RejectSize
  PROVE  LiveInv'
<1> USE DEF LiveInv, Attempts, None
<1>1. CASE Begin
  <2> USE <1>1 DEF Begin, bounds
  <2>1. LiveTypeOK'
    <3>1. request \in 0 .. MaxRequests /\ MaxRequests \in Nat
      BY LiveOrderAssumption DEF LiveTypeOK
    <3>2. request' \in 0 .. MaxRequests /\ attempt' \in 1 .. 3
      BY <3>1
    <3> QED BY <3>2 DEF LiveTypeOK
  <2>2. request \in Nat /\ request' = request + 1 /\ step = "idle"
    BY Numbers
  <2>3. IdsOK'
    BY <2>2 DEF IdsOK
  <2>4. StepOK'
    BY <2>2 DEF StepOK, IdsOK
  <2>5. KnownOK'
    <3>1. \A r \in Requests : Handled(r)' => Handled(r)
      BY <2>2, Numbers DEF Handled
    <3> QED BY <3>1 DEF KnownOK, Handled
  <2> QED BY <2>1, <2>3, <2>4, <2>5
<1>2. CASE RejectSize
  <2> USE <1>2 DEF RejectSize, Alert, bounds
  <2>1. request \in Requests /\ alerted' = alerted \cup {<<"below minimum", request>>}
    BY Numbers DEF StepOK
  <2>2. LiveTypeOK'
    BY <2>1, AlertTyped DEF LiveTypeOK
  <2>3. IdsOK' /\ StepOK'
    BY DEF IdsOK, StepOK
  <2>4. KnownOK'
    BY <2>1 DEF KnownOK, Handled, StepOK
  <2> QED BY <2>2, <2>3, <2>4
<1> QED BY <1>1, <1>2

\* An attempt: accepted, answered as a duplicate, refused, or not answered.
LEMMA AttemptPreserves ==
  ASSUME LiveInv, Accepted \/ AnswerDuplicate \/ Refused \/ TimedOut
  PROVE  LiveInv'
<1> USE DEF LiveInv, Attempts, None
<1>1. step = "send" /\ request \in Requests /\ request' = request
  BY Numbers DEF Accepted, AnswerDuplicate, Refused, TimedOut, StepOK
<1>2. /\ orders' \cup wire' \subseteq orders \cup wire \cup {<<request, 0>>}
      /\ orders \subseteq orders'
  BY OneId DEF Accepted, AnswerDuplicate, Refused, TimedOut, bounds
<1>3. UNCHANGED <<pos, tracked, alerted, lost, exited>>
  BY DEF Accepted, AnswerDuplicate, Refused, TimedOut
<1>4. /\ attempt' \in 1 .. Attempts
      /\ step' \in {"send", "lookup", "track", "failed"}
      /\ step' = "send" => attempt' # 1
      /\ step' = "track" => <<request, 0>> \in orders'
  BY RetryMoves, OneId DEF Accepted, AnswerDuplicate, Refused, TimedOut, LiveTypeOK
<1>5. LiveTypeOK'
  BY <1>1, <1>2, <1>3, <1>4, OrderTyped DEF LiveTypeOK
<1>6. IdsOK'
  <2>1. request \in Nat /\ request > 0
    BY <1>1, Numbers
  <2> QED BY <1>1, <1>2, <2>1 DEF IdsOK
<1>7. StepOK'
  <2>1. request > 0
    BY <1>1, Numbers
  <2> QED BY <1>1, <1>2, <1>4, <2>1 DEF StepOK
<1>8. KnownOK'
  <2>1. \A r \in Requests : Handled(r)' => Handled(r) /\ r # request
    BY <1>1, <1>4, Numbers DEF Handled
  <2>2. \A r \in Requests :
          r # request /\ <<r, 0>> \in orders' \cup wire' => <<r, 0>> \in orders \cup wire
    BY <1>2
  <2> QED BY <1>3, <2>1, <2>2 DEF KnownOK
<1> QED BY <1>2, <1>3, <1>5, <1>6, <1>7, <1>8

\* A request arrives late: it was counted while it was on the wire.
LEMMA ArrivePreserves ==
  ASSUME LiveInv, NEW i \in wire, ArriveLate(i)
  PROVE  LiveInv'
<1> USE DEF LiveInv, ArriveLate, bounds
<1>1. orders' \cup wire' = orders \cup wire /\ orders \subseteq orders'
  OBVIOUS
<1>2. LiveTypeOK'
  BY <1>1 DEF LiveTypeOK
<1>3. IdsOK' /\ StepOK'
  BY <1>1 DEF IdsOK, StepOK
<1>4. KnownOK'
  BY <1>1 DEF KnownOK, Handled
<1> QED BY <1>1, <1>2, <1>3, <1>4

\* The lookup, and the end of an order that failed.
LEMMA LookupPreserves ==
  ASSUME LiveInv, Found \/ NotFound \/ Failed
  PROVE  LiveInv'
<1> USE DEF LiveInv, Attempts, None
<1>1. request \in Requests
  BY Numbers DEF Found, NotFound, Failed, StepOK
<1>2. UNCHANGED <<request, orders, wire, pos, tracked, lost, exited>>
  BY DEF Found, NotFound, Failed, bounds
<1>3. CASE Found \/ NotFound
  <2>1. /\ attempt' \in 1 .. Attempts
        /\ step' \in {"send", "track", "failed"}
        /\ step' = "send" => attempt' # 1
        /\ step' = "track" => <<request, 0>> \in orders
        /\ step # "idle" /\ UNCHANGED alerted
    BY <1>3, RetryMoves, OneId DEF Found, NotFound, LiveTypeOK
  <2>2. LiveTypeOK'
    BY <1>2, <2>1 DEF LiveTypeOK
  <2>3. IdsOK' /\ StepOK'
    BY <1>1, <1>2, <2>1 DEF IdsOK, StepOK
  <2>4. KnownOK'
    BY <1>2, <2>1 DEF KnownOK, Handled
  <2> QED BY <1>2, <2>2, <2>3, <2>4
<1>4. CASE Failed
  <2>1. /\ step' = "idle" /\ attempt' = attempt
        /\ alerted' = alerted \cup {<<"order failed", request>>}
    BY <1>4 DEF Failed, Alert
  <2>2. LiveTypeOK'
    BY <1>1, <1>2, <2>1, AlertTyped DEF LiveTypeOK
  <2>3. IdsOK' /\ StepOK'
    BY <1>2, <2>1 DEF IdsOK, StepOK
  <2>4. KnownOK'
    BY <1>1, <1>2, <2>1, <1>4 DEF KnownOK, Handled, Failed
  <2> QED BY <1>2, <2>2, <2>3, <2>4
<1> QED BY <1>3, <1>4

\* Recording the order, or saying that it could not be recorded.
LEMMA TrackPreserves ==
  ASSUME LiveInv, Track \/ TrackFails
  PROVE  LiveInv'
<1> USE DEF LiveInv, Attempts, None
<1>1. /\ request \in Requests /\ <<request, 0>> \in orders
      /\ step = "track" /\ step' = "idle"
      /\ UNCHANGED <<request, attempt, orders, wire, lost, exited>>
  BY Numbers DEF Track, TrackFails, StepOK
<1>2. \/ pos' = request /\ tracked' = tracked \cup {request} /\ alerted' = alerted
      \/ /\ pos' = pos /\ tracked' = tracked
         /\ alerted' = alerted \cup {<<"tracking failed", request>>}
  BY DEF Track, TrackFails, Alert
<1>3. LiveTypeOK'
  BY <1>1, <1>2, AlertTyped DEF LiveTypeOK
<1>4. IdsOK' /\ StepOK'
  BY <1>1 DEF IdsOK, StepOK
<1>5. KnownOK'
  BY <1>1, <1>2 DEF KnownOK, Handled
<1> QED BY <1>1, <1>2, <1>3, <1>4, <1>5

\* A close, and a crash: what leaves the memory is remembered as such.
LEMMA CloseAndCrashPreserve ==
  ASSUME LiveInv, ClosePosition \/ CrashAndRestart
  PROVE  LiveInv'
<1> USE DEF LiveInv, Attempts, None
<1>1. CASE ClosePosition
  <2> USE <1>1 DEF ClosePosition
  <2>1. LiveTypeOK'
    BY DEF LiveTypeOK
  <2>2. IdsOK' /\ StepOK' /\ KnownOK'
    BY DEF IdsOK, StepOK, KnownOK, Handled
  <2> QED BY <2>1, <2>2
<1>2. CASE CrashAndRestart
  <2> USE <1>2 DEF CrashAndRestart
  <2>1. LiveTypeOK'
    BY Numbers DEF LiveTypeOK, StepOK
  <2>2. IdsOK' /\ StepOK'
    BY DEF IdsOK, StepOK
  <2>3. KnownOK'
    BY DEF KnownOK, Handled
  <2> QED BY <2>1, <2>2, <2>3
<1> QED BY <1>1, <1>2

\* Every step keeps the invariant.
LEMMA LiveSteps == LiveInv /\ [LiveNext]_liveVars => LiveInv'
<1> SUFFICES ASSUME LiveInv, [LiveNext]_liveVars PROVE LiveInv'
  OBVIOUS
<1>1. CASE UNCHANGED liveVars
  BY <1>1 DEF LiveInv, liveVars, bounds, LiveTypeOK, IdsOK, StepOK, KnownOK, Handled
<1>2. CASE Begin \/ RejectSize
  BY <1>2, BeginPreserves
<1>3. CASE Accepted \/ AnswerDuplicate \/ Refused \/ TimedOut
  BY <1>3, AttemptPreserves
<1>4. CASE \E i \in wire : ArriveLate(i)
  BY <1>4, ArrivePreserves
<1>5. CASE Found \/ NotFound \/ Failed
  BY <1>5, LookupPreserves
<1>6. CASE Track \/ TrackFails
  BY <1>6, TrackPreserves
<1>7. CASE ClosePosition \/ CrashAndRestart
  BY <1>7, CloseAndCrashPreserve
<1> QED BY <1>1, <1>2, <1>3, <1>4, <1>5, <1>6, <1>7 DEF LiveNext, Quiet

\* The invariant holds in every reachable state.
THEOREM LiveInvariance == LiveSpec => []LiveInv
<1>1. LiveInit => LiveInv
  BY LiveStarts
<1>2. LiveInv /\ [LiveNext]_liveVars => LiveInv'
  BY LiveSteps
<1> QED BY <1>1, <1>2, PTL DEF LiveSpec

\* A signal never becomes two orders on the exchange (_execute_live sends all its
\* attempts under one client order id).
THEOREM NeverTwoOrders == LiveSpec => []OneOrderPerRequest
<1>1. LiveInv => OneOrderPerRequest
  <2> SUFFICES ASSUME LiveInv, NEW r \in Requests PROVE Cardinality(OrdersOf(r)) <= 1
    BY DEF OneOrderPerRequest
  <2>1. OrdersOf(r) = {} \/ OrdersOf(r) = {<<r, 0>>}
    BY DEF LiveInv, IdsOK, OrdersOf
  <2>2. Cardinality({}) = 0 /\ Cardinality({<<r, 0>>}) = 1
    BY FS_EmptySet, FS_Singleton
  <2> QED BY <2>1, <2>2
<1> QED BY <1>1, LiveInvariance, PTL

\* An order the exchange has accepted - at once, after a time-out, or long after
\* its handler gave up - is recorded or reported, or a crash took its handler.
THEOREM NothingForgotten == LiveSpec => []NoOrderForgotten
<1>1. LiveInv => NoOrderForgotten
  <2> SUFFICES ASSUME LiveInv, NEW r \in Requests, Handled(r), OrdersOf(r) # {}
               PROVE  \/ r \in tracked \cup lost
                      \/ \E k \in {"order failed", "tracking failed"} : <<k, r>> \in alerted
    BY DEF NoOrderForgotten
  <2>1. <<r, 0>> \in orders
    BY DEF LiveInv, IdsOK, OrdersOf
  <2> QED BY <2>1 DEF LiveInv, KnownOK
<1> QED BY <1>1, LiveInvariance, PTL

\* A position in memory stands for an order on the exchange (_lookup_order before
\* an answer of "duplicate" is believed).
THEOREM NoPhantoms == LiveSpec => []NoPhantomPosition
<1>1. LiveInv => NoPhantomPosition
  BY DEF LiveInv, NoPhantomPosition, OrdersOf
<1> QED BY <1>1, LiveInvariance, PTL

----------------------------------------------------------------------------
(* The trade gate *)

USE GateAssumption

\* What a step of the loops does to pc.
LEMMA GateLoopStep ==
  ASSUME TypeOK, NEW a \in Activations, NEW from, NEW to \in Steps,
         \/ Resume(a, from, to) \/ Continue(a, from, to) \/ Await(a, from, to)
  PROVE  /\ pc[a] = from /\ pc' = [pc EXCEPT ![a] = to]
         /\ pc' \in [Activations -> Steps]
         /\ thread' \in [Loops -> Activations \cup {Nobody}]
BY DEF TypeOK, Resume, Continue, Await

\* Steps that leave the set of insiders and the counter alone.
LEMMA SameInside ==
  ASSUME ActiveCounts, active' = active,
         \A m \in Mutators : pc'[m] \in {"clear", "inside"} <=> pc[m] \in {"clear", "inside"}
  PROVE  ActiveCounts' /\ Inside' = Inside
<1>1. Inside' = Inside
  BY DEF Inside
<1> QED BY <1>1 DEF ActiveCounts

LEMMA InsideFinite ==
  IsFiniteSet(Inside) /\ Cardinality(Inside) \in Nat
<1>1. Inside \subseteq Mutators
  BY DEF Inside
<1> QED BY <1>1, FS_Subset, FS_CardinalityType

\* The initial state.
LEMMA InitEstablishes == Init => CounterInv /\ WindowInv
<1> SUFFICES ASSUME Init PROVE CounterInv /\ WindowInv
  OBVIOUS
<1>1. TypeOK
  BY DEF Init, TypeOK, Steps
<1>2. Inside = {}
  BY DEF Init, Inside, Activations
<1>3. ActiveCounts /\ SomebodyWakes
  BY <1>2, FS_EmptySet DEF Init, ActiveCounts, SomebodyWakes
<1>4. GateHeld /\ WindowIsExclusive
  BY <1>2 DEF Init, GateHeld, WindowIsExclusive, Activations
<1> QED BY <1>1, <1>3, <1>4 DEF CounterInv, WindowInv

\* Somebody inside keeps the counter above zero.
LEMMA InsideCounts ==
  ASSUME ActiveCounts, NEW m \in Inside
  PROVE  active > 0
<1>1. Cardinality(Inside) # 0
  BY InsideFinite, FS_EmptySet
<1> QED BY <1>1, InsideFinite DEF ActiveCounts

\* A mutation enters only while the gate is open, so no reset is in its window.
LEMMA EnterPreserves ==
  ASSUME CounterInv, NEW m \in Mutators, Enter(m)
  PROVE  CounterInv' /\ (WindowInv => WindowInv')
<1> USE DEF CounterInv
<1>a. /\ ~closed /\ active' = active + 1 /\ closed' = closed /\ idle' = idle
      /\ pc[m] = "enter" /\ pc' = [pc EXCEPT ![m] = "clear"]
      /\ pc' \in [Activations -> Steps]
      /\ thread' \in [Loops -> Activations \cup {Nobody}]
  BY GateLoopStep DEF Enter, Steps, Activations
<1>1. TypeOK'
  BY <1>a DEF TypeOK
<1>2. Inside' = Inside \cup {m} /\ m \notin Inside
  BY <1>a DEF Inside, TypeOK, Activations
<1>3. ActiveCounts'
  <2>1. Cardinality(Inside \cup {m}) = Cardinality(Inside) + 1
    BY <1>2, InsideFinite, FS_AddElement
  <2> QED BY <1>a, <1>2, <2>1 DEF ActiveCounts
<1>4. SomebodyWakes'
  BY <1>a DEF SomebodyWakes, TypeOK
<1>5. \A r \in Resets : pc'[r] = pc[r]
  BY <1>a DEF TypeOK, Activations
<1>6. WindowInv => WindowInv'
  BY <1>a, <1>5 DEF WindowInv, GateHeld, WindowIsExclusive
<1> QED BY <1>1, <1>3, <1>4, <1>6

\* A mutation leaves; the clamp is never needed, and the last one sets the event.
LEMMA LeavePreserves ==
  ASSUME CounterInv, NEW m \in Mutators, Leave(m)
  PROVE  CounterInv' /\ (WindowInv => WindowInv')
<1> USE DEF CounterInv
<1> DEFINE to == IF active <= 1 THEN "signal" ELSE "left"
<1>a. /\ active' = (IF active <= 1 THEN 0 ELSE active - 1)
      /\ closed' = closed /\ idle' = idle
      /\ pc[m] = "inside" /\ pc' = [pc EXCEPT ![m] = to]
      /\ pc' \in [Activations -> Steps]
      /\ thread' \in [Loops -> Activations \cup {Nobody}]
  <2>1. to \in Steps /\ m \in Activations
    BY DEF Steps, Activations
  <2>2. Resume(m, "inside", to)
    BY DEF Leave
  <2> HIDE DEF to
  <2> QED BY <2>1, <2>2, GateLoopStep DEF Leave
<1>1. TypeOK'
  BY <1>a DEF TypeOK
<1>2. Inside' = Inside \ {m} /\ m \in Inside
  BY <1>a DEF Inside, TypeOK, Activations
<1>3. ActiveCounts'
  <2>1. Cardinality(Inside \ {m}) = Cardinality(Inside) - 1
    BY <1>2, InsideFinite, FS_RemoveElement
  <2>2. Cardinality(Inside \ {m}) \in Nat
    BY InsideFinite, FS_Subset, FS_CardinalityType
  <2>3. active' = active - 1
    BY <1>a, <2>1, <2>2, InsideFinite DEF ActiveCounts
  <2> QED BY <1>2, <2>1, <2>3 DEF ActiveCounts
<1>4. SomebodyWakes'
  <2>1. m \in Activations /\ active \in Nat
    BY DEF Activations, TypeOK
  <2>2. CASE active <= 1
    BY <1>a, <2>1, <2>2 DEF SomebodyWakes, TypeOK
  <2>3. CASE active > 1
    BY <1>a, <2>1, <2>3 DEF SomebodyWakes
  <2> QED BY <2>1, <2>2, <2>3
<1>5. \A r \in Resets : pc'[r] = pc[r]
  BY <1>a DEF TypeOK, Activations
<1>6. WindowInv => WindowInv'
  BY <1>a, <1>2, <1>5 DEF WindowInv, GateHeld, WindowIsExclusive
<1> QED BY <1>1, <1>3, <1>4, <1>6

\* The other steps of a mutation neither enter nor leave.
LEMMA OtherMutationPreserves ==
  ASSUME CounterInv, NEW m \in Mutators,
         Arrive(m) \/ ClearIdle(m) \/ Block(m) \/ Wake(m) \/ Signal(m) \/ Left(m)
  PROVE  CounterInv' /\ (WindowInv => WindowInv')
<1> USE DEF CounterInv
<1>a. /\ active' = active /\ closed' = closed /\ idle' \in BOOLEAN
      /\ pc' \in [Activations -> Steps]
      /\ thread' \in [Loops -> Activations \cup {Nobody}]
      /\ \E to \in Steps :
           /\ pc' = [pc EXCEPT ![m] = to]
           /\ to \in {"clear", "inside"} <=> pc[m] \in {"clear", "inside"}
           /\ to # "window" /\ to # "drain" /\ to # "yield"
      /\ \/ idle'
         \/ idle' = idle /\ pc[m] # "signal"
         \/ pc[m] = "clear"
  <2>m. m \in Activations /\ idle \in BOOLEAN
    BY DEF Activations, TypeOK
  <2>1. CASE Arrive(m)
    BY <2>m, <2>1, GateLoopStep DEF Arrive, gate, Steps
  <2>2. CASE ClearIdle(m)
    BY <2>m, <2>2, GateLoopStep DEF ClearIdle, Steps
  <2>3. CASE Block(m)
    BY <2>m, <2>3, GateLoopStep DEF Block, gate, Steps
  <2>4. CASE Wake(m)
    BY <2>m, <2>4, GateLoopStep DEF Wake, gate, Steps
  <2>5. CASE Signal(m)
    BY <2>m, <2>5, GateLoopStep DEF Signal, Steps
  <2>6. CASE Left(m)
    BY <2>m, <2>6, GateLoopStep DEF Left, gate, Steps
  <2> QED BY <2>1, <2>2, <2>3, <2>4, <2>5, <2>6
<1>1. TypeOK'
  BY <1>a DEF TypeOK
<1>2. ActiveCounts' /\ Inside' = Inside
  BY <1>a, SameInside DEF TypeOK, Activations
<1>3. SomebodyWakes'
  <2>1. CASE pc[m] = "clear"
    BY <1>a, <2>1, InsideCounts DEF SomebodyWakes, Inside
  <2>2. CASE idle'
    BY <2>2 DEF SomebodyWakes
  <2>3. CASE idle' = idle /\ pc[m] # "signal"
    BY <1>a, <2>3 DEF SomebodyWakes, TypeOK
  <2> QED BY <1>a, <2>1, <2>2, <2>3
<1>4. \A r \in Resets : pc'[r] = pc[r]
  BY <1>a DEF TypeOK, Activations
<1>5. WindowInv => WindowInv'
  BY <1>a, <1>2, <1>4 DEF WindowInv, GateHeld, WindowIsExclusive
<1> QED BY <1>1, <1>2, <1>3, <1>5

\* A reset's steps: the gate is closed before the window and opened after it.
LEMMA ResetPreserves ==
  ASSUME CounterInv, NEW r \in Resets, Close(r) \/ ResetStep(r)
  PROVE  CounterInv' /\ (OneReset /\ WindowInv => WindowInv')
<1> USE DEF CounterInv
<1>r. r \in Activations /\ r \notin Mutators /\ idle \in BOOLEAN /\ closed \in BOOLEAN
  BY DEF Activations, TypeOK
<1>a. /\ active' = active /\ closed' \in BOOLEAN /\ idle' \in BOOLEAN
      /\ pc' \in [Activations -> Steps]
      /\ thread' \in [Loops -> Activations \cup {Nobody}]
      /\ \E to \in Steps : pc' = [pc EXCEPT ![r] = to]
      /\ GateHeld => (pc'[r] \in {"drain", "yield", "window"} => closed')
      /\ pc'[r] = "window" => active = 0
      /\ idle' \/ (idle' = idle /\ pc[r] # "signal")
  <2>1. CASE Close(r)
    BY <1>r, <2>1, GateLoopStep DEF Close, Steps
  <2>2. CASE Poll(r)
    BY <1>r, <2>2, GateLoopStep DEF Poll, gate, Steps, GateHeld
  <2>3. CASE PollAgain(r)
    BY <1>r, <2>3, GateLoopStep DEF PollAgain, gate, Steps, GateHeld
  <2>4. CASE Drained(r)
    BY <1>r, <2>4, GateLoopStep DEF Drained, gate, Steps, GateHeld
  <2>5. CASE Reopen(r)
    <3>1. /\ pc' = [pc EXCEPT ![r] = "signal"] /\ "signal" \in Steps
          /\ pc[r] = "window"
          /\ pc' \in [Activations -> Steps]
          /\ thread' \in [Loops -> Activations \cup {Nobody}]
      BY <1>r, <2>5, GateLoopStep DEF Reopen, Steps
    <3>2. pc'[r] = "signal"
      BY <1>r, <3>1 DEF TypeOK
    <3> QED BY <1>r, <2>5, <3>1, <3>2 DEF Reopen
  <2>6. CASE Signal(r)
    BY <1>r, <2>6, GateLoopStep DEF Signal, Steps
  <2> QED BY <2>1, <2>2, <2>3, <2>4, <2>5, <2>6 DEF ResetStep
<1>1. TypeOK'
  BY <1>a DEF TypeOK
<1>2. ActiveCounts' /\ Inside' = Inside
  BY <1>a, <1>r, SameInside DEF TypeOK, Activations
<1>3. SomebodyWakes'
  BY <1>a DEF SomebodyWakes, TypeOK
<1>4. OneReset /\ WindowInv => WindowInv'
  <2>1. active = 0 => Inside = {}
    BY InsideFinite, FS_EmptySet DEF ActiveCounts
  <2>2. OneReset /\ WindowInv => GateHeld'
    BY <1>a DEF WindowInv, GateHeld, OneReset
  <2>3. OneReset => WindowIsExclusive'
    BY <1>a, <1>2, <2>1 DEF WindowIsExclusive, OneReset
  <2> QED BY <2>2, <2>3 DEF WindowInv
<1> QED BY <1>1, <1>2, <1>3, <1>4

\* Every step preserves both invariants, the second if resets do not overlap.
LEMMA StepPreserves ==
  CounterInv /\ [Next]_vars => CounterInv' /\ (OneReset /\ WindowInv => WindowInv')
<1> SUFFICES ASSUME CounterInv, [Next]_vars
             PROVE  CounterInv' /\ (OneReset /\ WindowInv => WindowInv')
  OBVIOUS
<1>1. CASE UNCHANGED vars
  BY <1>1 DEF vars, CounterInv, TypeOK, ActiveCounts, SomebodyWakes, Inside,
              WindowInv, GateHeld, WindowIsExclusive
<1>2. ASSUME NEW m \in Mutators, Arrive(m) \/ MutationStep(m)
      PROVE  CounterInv' /\ (WindowInv => WindowInv')
  BY <1>2, EnterPreserves, LeavePreserves, OtherMutationPreserves DEF MutationStep
<1>3. ASSUME NEW r \in Resets, Close(r) \/ ResetStep(r)
      PROVE  CounterInv' /\ (OneReset /\ WindowInv => WindowInv')
  BY <1>3, ResetPreserves
<1> QED BY <1>1, <1>2, <1>3 DEF Next

LEMMA CounterInvariant == Spec => []CounterInv
<1>1. CounterInv /\ [Next]_vars => CounterInv'
  BY StepPreserves
<1> QED BY <1>1, InitEstablishes, PTL DEF Spec

\* reset_barrier's promise, for every number of loops and mutations: while the
\* only reset erases and restores, no cash-moving mutation is inside.
THEOREM WindowExclusive == ASSUME OneReset PROVE Spec => []WindowIsExclusive
<1>1. WindowInv => WindowIsExclusive
  BY DEF WindowInv
<1>2. CounterInv /\ WindowInv /\ [Next]_vars => WindowInv'
  BY StepPreserves
<1> QED BY <1>1, <1>2, CounterInvariant, InitEstablishes, PTL DEF Spec

\* _gate_active is the number of mutations inside, whatever the threads and however
\* many resets do.
THEOREM CounterIsExact == Spec => []ActiveCounts
<1>1. CounterInv => ActiveCounts
  BY DEF CounterInv
<1> QED BY <1>1, CounterInvariant, PTL

\* No lost wake-up between _gate_idle's clear and set, which threads interleave in any
\* order and overlapping resets set as well: a mutation blocked at an open, empty gate
\* finds the event set, or somebody who will set it.
THEOREM WakeupNotLost == Spec => []NoLostWakeup
<1>1. CounterInv => NoLostWakeup
  BY DEF CounterInv, SomebodyWakes, NoLostWakeup, TypeOK
<1> QED BY <1>1, CounterInvariant, PTL

----------------------------------------------------------------------------
(* The event bus *)

\* Nothing has been published when the bus starts.
LEMMA BusStarts == BusInit => BusInv
<1> SUFFICES ASSUME BusInit PROVE BusInv
  OBVIOUS
<1>1. NoEvent \in Event /\ NoEvent.id = 0
  BY BusAssumption DEF NoEvent, Event
<1>2. EventsOK
  BY <1>1, BusAssumption DEF BusInit, EventsOK
<1>3. InOrder
  BY <1>1 DEF BusInit, InOrder, Sorted
<1> QED BY <1>2, <1>3 DEF BusInv

\* A step that moves no event keeps them all in order.
LEMMA SameEvents ==
  ASSUME BusInv, UNCHANGED <<queue, handled, current, parked, published>>,
         todo' \in [Subscribers -> Kinds \cup {Nothing}], busy' \subseteq Subscribers
  PROVE  BusInv'
BY DEF BusInv, EventsOK, InOrder, Sorted, Older

\* An event that is younger than all the others joins the queue.
LEMMA Queued ==
  ASSUME BusInv, NEW e \in Event, e.kind \in Kinds, queue' = Append(queue, e),
         \A i \in DOMAIN handled : Older(handled[i], e),
         current # NoEvent => Older(current, e),
         \A j \in DOMAIN queue : Older(queue[j], e),
         UNCHANGED <<handled, current>>,
         published' \in 0 .. MaxEvents, published <= published', e.id <= published',
         parked' \in [Publishers -> Event],
         \A p \in Publishers :
           parked'[p] # NoEvent => parked'[p] = parked[p] /\ Older(e, parked[p]),
         \A p \in Publishers : parked'[p].id <= published',
         todo' \in [Subscribers -> Kinds \cup {Nothing}], busy' \subseteq Subscribers
  PROVE  BusInv'
<1> DEFINE n == Len(queue)
<1>1. /\ queue \in Seq(Event) /\ queue' \in Seq(Event) /\ n \in Nat
      /\ Len(queue') = n + 1 /\ queue'[n + 1] = e
      /\ \A j \in 1 .. n : queue'[j] = queue[j]
      /\ DOMAIN queue = 1 .. n /\ DOMAIN queue' = 1 .. (n + 1)
  BY DEF BusInv, EventsOK
<1>2. \A j \in DOMAIN queue' : queue'[j] = e \/ (j \in DOMAIN queue /\ queue'[j] = queue[j])
  BY <1>1
<1>3. /\ \A i \in DOMAIN handled : handled[i] \in Event
      /\ \A j \in DOMAIN queue : queue[j] \in Event
      /\ current \in Event /\ published \in Nat /\ published' \in Nat
  BY BusAssumption DEF BusInv, EventsOK
<1>4. \A x \in Event : x.id \in Int
  BY DEF Event
<1>5. EventsOK'
  BY <1>1, <1>2 DEF BusInv, EventsOK
<1>6. Sorted(queue')
  <2> SUFFICES ASSUME NEW i \in DOMAIN queue', NEW j \in DOMAIN queue', i < j
               PROVE  Older(queue'[i], queue'[j])
    BY DEF Sorted
  <2>1. i \in DOMAIN queue /\ queue'[i] = queue[i]
    BY <1>1
  <2>2. CASE j = n + 1
    BY <1>1, <2>1, <2>2
  <2>3. CASE j # n + 1
    <3>1. j \in DOMAIN queue /\ queue'[j] = queue[j]
      BY <1>1, <2>3
    <3> QED BY <2>1, <3>1 DEF BusInv, InOrder, Sorted
  <2> QED BY <2>2, <2>3
<1>7. \A i \in DOMAIN handled :
        /\ \A j \in DOMAIN queue' : Older(handled[i], queue'[j])
        /\ \A p \in Publishers : parked'[p] # NoEvent => Older(handled[i], parked'[p])
  BY <1>2 DEF BusInv, InOrder
<1>8. current # NoEvent =>
        /\ \A j \in DOMAIN queue' : Older(current, queue'[j])
        /\ \A p \in Publishers : parked'[p] # NoEvent => Older(current, parked'[p])
  BY <1>2 DEF BusInv, InOrder
<1>9. \A j \in DOMAIN queue' :
        \A p \in Publishers : parked'[p] # NoEvent => Older(queue'[j], parked'[p])
  BY <1>2 DEF BusInv, InOrder
<1>10. /\ \A i \in DOMAIN handled : handled[i].id <= published'
       /\ current.id <= published'
       /\ \A j \in DOMAIN queue' : queue'[j].id <= published'
  <2>1. \A x \in Event : x.id <= published => x.id <= published'
    BY <1>3, <1>4
  <2> QED BY <1>2, <1>3, <2>1 DEF BusInv, InOrder
<1>11. InOrder'
  <2>1. Sorted(handled) /\ \A i \in DOMAIN handled : current # NoEvent => Older(handled[i], current)
    BY DEF BusInv, InOrder
  <2> QED BY <1>6, <1>7, <1>8, <1>9, <1>10, <2>1 DEF InOrder, Sorted, Older
<1> QED BY <1>5, <1>11 DEF BusInv

\* Of the events published so far, that of the present step is the youngest.
LEMMA YoungestOfAll ==
  ASSUME BusInv, NEW e \in Event, e.id = published + 1
  PROVE  /\ \A i \in DOMAIN handled : Older(handled[i], e)
         /\ Older(current, e)
         /\ \A j \in DOMAIN queue : Older(queue[j], e)
<1>1. published \in Int
  BY DEF BusInv, EventsOK
<1>2. \A x \in Event : x.id \in Int /\ (x.id <= published => x.id < e.id)
  BY <1>1 DEF Event
<1>3. /\ \A i \in DOMAIN handled : handled[i] \in Event /\ handled[i].id <= published
      /\ \A j \in DOMAIN queue : queue[j] \in Event /\ queue[j].id <= published
      /\ current \in Event /\ current.id <= published
  BY DEF BusInv, EventsOK, InOrder
<1> QED BY <1>2, <1>3 DEF Older

\* publish() from outside: the new event is queued, or its publisher parked with it.
LEMMA PublishPreserves ==
  ASSUME BusInv, NEW p \in Publishers, NEW k \in Kinds, Publish(p, k)
  PROVE  BusInv'
<1> DEFINE e == [kind |-> k, by |-> p, id |-> published + 1]
<1>1. /\ published \in 0 .. MaxEvents /\ published < MaxEvents /\ MaxEvents \in Nat
      /\ published' = published + 1 /\ parked[p] = NoEvent
      /\ UNCHANGED <<current, todo, busy, handled>>
  BY BusAssumption DEF Publish, BusInv, EventsOK
<1>2. e \in Event /\ e # NoEvent /\ e.by = p /\ e.id = published + 1 /\ e.kind \in Kinds
  BY <1>1, BusAssumption DEF Event, NoEvent
<1>3. /\ published' \in 0 .. MaxEvents /\ published <= published' /\ e.id <= published'
      /\ \A x \in Event : x.id <= published => x.id <= published'
  BY <1>1, <1>2 DEF Event
<1>4. /\ \A i \in DOMAIN handled : Older(handled[i], e)
      /\ Older(current, e)
      /\ \A j \in DOMAIN queue : Older(queue[j], e)
  BY <1>2, YoungestOfAll
<1>5. \A q \in Publishers : parked[q] \in Event /\ parked[q].id <= published'
  BY <1>3 DEF BusInv, EventsOK, InOrder
<1>6. CASE Room
  <2>1. queue' = Append(queue, e) /\ parked' = parked
    BY <1>6 DEF Publish
  <2>2. \A q \in Publishers : parked'[q] # NoEvent => parked'[q] = parked[q] /\ Older(e, parked[q])
    BY <1>1, <1>2, <2>1 DEF BusInv, EventsOK, Older
  <2>3. todo' \in [Subscribers -> Kinds \cup {Nothing}] /\ busy' \subseteq Subscribers
    BY <1>1 DEF BusInv, EventsOK
  <2>4. parked' \in [Publishers -> Event] /\ \A q \in Publishers : parked'[q].id <= published'
    BY <1>5, <2>1 DEF BusInv, EventsOK
  <2> HIDE DEF e
  <2> QED BY <1>1, <1>2, <1>3, <1>4, <2>1, <2>2, <2>3, <2>4, Queued
<1>7. CASE ~Room
  <2>1. queue' = queue /\ parked' = [parked EXCEPT ![p] = e]
    BY <1>7 DEF Publish
  <2>2. /\ parked' \in [Publishers -> Event]
        /\ \A q \in Publishers : parked'[q] = IF q = p THEN e ELSE parked[q]
    BY <1>2, <2>1 DEF BusInv, EventsOK
  <2> HIDE DEF e
  <2>3. EventsOK'
    BY <1>1, <1>2, <1>3, <2>1, <2>2 DEF BusInv, EventsOK
  <2>4. /\ \A i \in DOMAIN handled : handled[i] \in Event /\ handled[i].id <= published'
        /\ \A j \in DOMAIN queue : queue[j] \in Event /\ queue[j].id <= published'
        /\ current \in Event /\ current.id <= published'
    BY <1>3 DEF BusInv, EventsOK, InOrder
  <2>5. InOrder'
    BY <1>1, <1>3, <1>4, <1>5, <2>1, <2>2, <2>4 DEF BusInv, InOrder, Sorted, Older
  <2> QED BY <2>3, <2>5 DEF BusInv
<1> QED BY <1>6, <1>7

\* A parked publisher gets its room: its event is younger than all it follows.
LEMMA UnparkPreserves ==
  ASSUME BusInv, NEW p \in Publishers, Unpark(p)
  PROVE  BusInv'
<1> DEFINE e == parked[p]
<1>1. /\ e \in Event /\ e # NoEvent /\ e.by = p /\ e.kind \in Kinds
      /\ queue' = Append(queue, e)
      /\ UNCHANGED <<current, todo, busy, handled, published>>
  BY DEF Unpark, BusInv, EventsOK
<1>2. /\ parked' \in [Publishers -> Event]
      /\ \A q \in Publishers : parked'[q] = IF q = p THEN NoEvent ELSE parked[q]
  BY BusAssumption DEF Unpark, BusInv, EventsOK, Event, NoEvent
<1>3. /\ \A i \in DOMAIN handled : Older(handled[i], e)
      /\ current # NoEvent => Older(current, e)
      /\ \A j \in DOMAIN queue : Older(queue[j], e)
      /\ e.id <= published
  BY <1>1 DEF BusInv, InOrder
<1>4. \A q \in Publishers : parked'[q] # NoEvent => parked'[q] = parked[q] /\ Older(e, parked[q])
  BY <1>1, <1>2 DEF BusInv, EventsOK, Older
<1>5. /\ published' \in 0 .. MaxEvents /\ published <= published'
      /\ todo' \in [Subscribers -> Kinds \cup {Nothing}] /\ busy' \subseteq Subscribers
  BY <1>1, BusAssumption DEF BusInv, EventsOK
<1>6. \A q \in Publishers : parked'[q].id <= published'
  BY <1>1, <1>2, <1>5, BusAssumption DEF BusInv, EventsOK, InOrder, NoEvent
<1> HIDE DEF e
<1> QED BY <1>1, <1>2, <1>3, <1>4, <1>5, <1>6, Queued

\* A subscriber publishes: its events are no publisher's, and follow anything.
LEMMA SubscriberPublishPreserves ==
  ASSUME BusInv, NEW c \in Subscribers, SubscriberPublish(c)
  PROVE  BusInv'
<1> DEFINE e == [kind |-> todo[c], by |-> c, id |-> 0]
<1>1. /\ e \in Event /\ e.by = c /\ c \notin Publishers /\ e.id = 0 /\ e.kind \in Kinds
      /\ queue' = Append(queue, e)
      /\ UNCHANGED <<current, parked, handled, published>>
  BY BusAssumption DEF SubscriberPublish, BusInv, EventsOK, Event
<1>2. \A x : Older(x, e) /\ Older(e, x)
  BY <1>1 DEF Older
<1>3. /\ published' \in 0 .. MaxEvents /\ published <= published' /\ e.id <= published'
      /\ parked' \in [Publishers -> Event]
      /\ \A q \in Publishers : parked'[q].id <= published'
  BY <1>1, BusAssumption DEF BusInv, EventsOK, InOrder
<1>4. todo' \in [Subscribers -> Kinds \cup {Nothing}] /\ busy' \subseteq Subscribers
  BY DEF SubscriberPublish, BusInv, EventsOK
<1> HIDE DEF e
<1> QED BY <1>1, <1>2, <1>3, <1>4, Queued

\* The loop takes the oldest event: what was behind it in the queue still is.
LEMMA TakePreserves ==
  ASSUME BusInv, Take
  PROVE  BusInv'
<1>1. /\ current = NoEvent /\ queue \in Seq(Event) /\ queue # <<>>
      /\ current' = Head(queue) /\ queue' = Tail(queue)
      /\ UNCHANGED <<parked, handled, published>>
  BY DEF Take, BusInv, EventsOK
<1>2. /\ 1 \in DOMAIN queue /\ current' = queue[1] /\ current' \in Event
      /\ queue' \in Seq(Event)
      /\ \A j \in DOMAIN queue' : j + 1 \in DOMAIN queue /\ queue'[j] = queue[j + 1] /\ j \in Nat \ {0}
  BY <1>1
<1>3. EventsOK'
  <2>1. todo' \in [Subscribers -> Kinds \cup {Nothing}] /\ busy' \subseteq Subscribers
    <3>1. Head(queue).kind \in Kinds
      BY <1>1, <1>2 DEF BusInv, EventsOK
    <3> QED BY <3>1, BusAssumption DEF Take
  <2> QED BY <1>1, <1>2, <2>1 DEF BusInv, EventsOK
<1>4. Sorted(queue') /\ \A j \in DOMAIN queue' : Older(current', queue'[j])
  <2>1. \A i, j \in DOMAIN queue' : i < j => Older(queue'[i], queue'[j])
    BY <1>2 DEF BusInv, InOrder, Sorted
  <2>2. \A j \in DOMAIN queue' : Older(current', queue'[j])
    BY <1>2 DEF BusInv, InOrder, Sorted
  <2> QED BY <2>1, <2>2 DEF Sorted
<1>5. \A i \in DOMAIN handled :
        Older(handled[i], current') /\ \A j \in DOMAIN queue' : Older(handled[i], queue'[j])
  BY <1>2 DEF BusInv, InOrder
<1>6. \A p \in Publishers : parked[p] # NoEvent =>
        Older(current', parked[p]) /\ \A j \in DOMAIN queue' : Older(queue'[j], parked[p])
  BY <1>2 DEF BusInv, InOrder
<1>7. current'.id <= published /\ \A j \in DOMAIN queue' : queue'[j].id <= published
  BY <1>2 DEF BusInv, InOrder
<1>8. InOrder'
  BY <1>1, <1>4, <1>5, <1>6, <1>7 DEF BusInv, InOrder, Sorted, Older
<1> QED BY <1>3, <1>8 DEF BusInv

\* All subscribers are done: the event in hand is the next of those handled.
LEMMA GatheredPreserves ==
  ASSUME BusInv, Gathered
  PROVE  BusInv'
<1> DEFINE n == Len(handled)
<1>1. /\ current # NoEvent /\ current' = NoEvent
      /\ handled' = Append(handled, current)
      /\ UNCHANGED <<queue, parked, todo, busy, published>>
  BY DEF Gathered
<1>2. /\ n \in Nat /\ DOMAIN handled = 1 .. n /\ DOMAIN handled' = 1 .. (n + 1)
      /\ handled' \in Seq(Event) /\ handled'[n + 1] = current
      /\ \A i \in 1 .. n : handled'[i] = handled[i]
  BY <1>1 DEF BusInv, EventsOK
<1>3. \A i \in DOMAIN handled' :
        handled'[i] = current \/ (i \in DOMAIN handled /\ handled'[i] = handled[i])
  BY <1>2
<1>4. NoEvent \in Event /\ NoEvent.id = 0 /\ published \in Nat
  BY BusAssumption DEF NoEvent, Event, BusInv, EventsOK
<1>5. EventsOK'
  BY <1>1, <1>2, <1>4 DEF BusInv, EventsOK
<1>6. Sorted(handled')
  <2> SUFFICES ASSUME NEW i \in DOMAIN handled', NEW j \in DOMAIN handled', i < j
               PROVE  Older(handled'[i], handled'[j])
    BY DEF Sorted
  <2>1. i \in DOMAIN handled /\ handled'[i] = handled[i]
    BY <1>2
  <2>2. CASE j = n + 1
    BY <1>1, <1>2, <2>1, <2>2 DEF BusInv, InOrder
  <2>3. CASE j # n + 1
    <3>1. j \in DOMAIN handled /\ handled'[j] = handled[j]
      BY <1>2, <2>3
    <3> QED BY <2>1, <3>1 DEF BusInv, InOrder, Sorted
  <2> QED BY <2>2, <2>3
<1>7. \A i \in DOMAIN handled' :
        /\ \A j \in DOMAIN queue : Older(handled'[i], queue[j])
        /\ \A p \in Publishers : parked[p] # NoEvent => Older(handled'[i], parked[p])
        /\ handled'[i].id <= published
  BY <1>1, <1>3 DEF BusInv, InOrder
<1>8. InOrder'
  BY <1>1, <1>4, <1>6, <1>7 DEF BusInv, InOrder, Sorted, Older
<1> QED BY <1>5, <1>8 DEF BusInv

\* Rebinding moves the queue as it is; publishers parked on the old one are gone.
LEMMA RebindPreserves ==
  ASSUME BusInv, Rebind
  PROVE  BusInv'
<1>1. /\ parked' = [p \in Publishers |-> NoEvent]
      /\ UNCHANGED <<queue, handled, current, todo, busy, published>>
  BY DEF Rebind
<1>2. NoEvent \in Event /\ NoEvent.id = 0 /\ published \in Nat
  BY BusAssumption DEF NoEvent, Event, BusInv, EventsOK
<1>3. EventsOK'
  BY <1>1, <1>2 DEF BusInv, EventsOK
<1>4. InOrder'
  BY <1>1, <1>2 DEF BusInv, InOrder, Sorted, Older
<1> QED BY <1>3, <1>4 DEF BusInv

\* Every step keeps the order.
LEMMA BusSteps == BusInv /\ [BusNext]_busVars => BusInv'
<1> SUFFICES ASSUME BusInv, [BusNext]_busVars PROVE BusInv'
  OBVIOUS
<1>1. CASE Outside
  BY <1>1, PublishPreserves DEF Outside
<1>2. CASE \E p \in Publishers : Unpark(p)
  BY <1>2, UnparkPreserves
<1>3. CASE Take
  BY <1>3, TakePreserves
<1>4. CASE Gathered
  BY <1>4, GatheredPreserves
<1>5. CASE \E c \in Subscribers : SubscriberPublish(c)
  BY <1>5, SubscriberPublishPreserves
<1>6. CASE \E c \in Subscribers : SubscriberPark(c) \/ SubscriberReturn(c) \/ SubscriberRaise(c)
  <2>1. /\ todo' \in [Subscribers -> Kinds \cup {Nothing}] /\ busy' \subseteq Subscribers
        /\ UNCHANGED <<queue, handled, current, parked, published>>
    BY <1>6 DEF SubscriberPark, SubscriberReturn, SubscriberRaise, BusInv, EventsOK
  <2> QED BY <2>1, SameEvents
<1>7. CASE Rebind
  BY <1>7, RebindPreserves
<1>8. CASE Shutdown \/ UNCHANGED busVars
  <2>1. /\ todo' \in [Subscribers -> Kinds \cup {Nothing}] /\ busy' \subseteq Subscribers
        /\ UNCHANGED <<queue, handled, current, parked, published>>
    BY <1>8 DEF Shutdown, busVars, BusInv, EventsOK
  <2> QED BY <2>1, SameEvents
<1> QED BY <1>1, <1>2, <1>3, <1>4, <1>5, <1>6, <1>7, <1>8 DEF BusNext, LoopStep

\* The events of one publisher are handled in the order it published them
\* (EventBus.publish, _process and _bind_to_running_loop).
THEOREM HandledInOrder == BusSpec => []PublisherOrder
<1>1. BusInit => BusInv
  BY BusStarts
<1>2. BusInv /\ [BusNext]_busVars => BusInv'
  BY BusSteps
<1>3. BusInv => PublisherOrder
  BY DEF BusInv, InOrder, Sorted, Older, PublisherOrder
<1> QED BY <1>1, <1>2, <1>3, PTL DEF BusSpec
=============================================================================
