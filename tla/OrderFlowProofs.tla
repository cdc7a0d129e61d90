--------------------------- MODULE OrderFlowProofs ---------------------------
(*************************************************************************)
(* TLAPS proofs about OrderFlow, for any number of symbols, limit        *)
(* orders, signals, manual trades and crashes: a limit order asks for    *)
(* one position at most, what is final stays final, and a reservation    *)
(* keeps a second strategy order out until it is lost.                   *)
(*************************************************************************)
EXTENDS OrderFlow, FiniteSetTheorems, TLAPS

USE OrderFlowAssumption

----------------------------------------------------------------------------
(* Counting the strategy orders on their way *)

LEMMA QueuedFinite ==
  ASSUME TypeOK, NEW s
  PROVE  IsFiniteSet(Queued(s)) /\ Cardinality(Queued(s)) \in Nat
<1>1. DOMAIN queue = 1 .. Len(queue) /\ Len(queue) \in Nat
  BY DEF TypeOK
<1>2. IsFiniteSet(1 .. Len(queue))
  BY <1>1, FS_Interval
<1>3. Queued(s) \subseteq 1 .. Len(queue)
  BY <1>1 DEF Queued
<1> QED BY <1>2, <1>3, FS_Subset, FS_CardinalityType

\* Some order is outstanding: one is queued or one is being executed.
LEMMA OutstandingSome ==
  ASSUME TypeOK, NEW s
  PROVE  Outstanding(s) > 0 <=> Executing(s) \/ Queued(s) # {}
<1>1. Cardinality(Queued(s)) = 0 <=> Queued(s) = {}
  BY QueuedFinite, FS_EmptySet
<1> QED BY <1>1, QueuedFinite DEF Outstanding

\* Two are outstanding only if two are queued, or one is queued behind the other.
LEMMA OutstandingTwo ==
  ASSUME TypeOK, NEW s,
         \A i, j \in Queued(s) : i = j,
         Executing(s) => Queued(s) = {}
  PROVE  Outstanding(s) <= 1
<1>1. CASE Queued(s) = {}
  BY <1>1, FS_EmptySet DEF Outstanding
<1>2. CASE Queued(s) # {}
  <2>1. PICK i \in Queued(s) : TRUE
    BY <1>2
  <2>2. Queued(s) = {i}
    BY <2>1
  <2>3. Cardinality(Queued(s)) = 1
    BY <2>2, FS_Singleton
  <2> QED BY <1>2, <2>3 DEF Outstanding
<1> QED BY <1>1, <1>2

----------------------------------------------------------------------------
(* Types *)

LEMMA EventsTyped ==
  /\ \A s \in Symbols : Signal(s) \in Event /\ Update(s) \in Event
  /\ \A s \in Symbols, src \in Sources : OrderRequest(s, src) \in Event
BY DEF Signal, Update, OrderRequest, Event, Sources

LEMMA InitTyped == Init => TypeOK
BY DEF Init, TypeOK, Idle, NoMatch, Event, Sources

\* The head of the bus and what is left behind it.
LEMMA HeadTail ==
  ASSUME TypeOK, queue # <<>>
  PROVE  /\ Head(queue) \in Event /\ Tail(queue) \in Seq(Event)
         /\ Head(queue) = queue[1] /\ 1 \in DOMAIN queue
BY DEF TypeOK

\* What an event says: an order has a source.
LEMMA EventSymbol == \A e \in Event : e.sym \in Symbols
BY DEF Event

\* The executor and the matcher, when they are at work.
LEMMA AtWork ==
  ASSUME TypeOK
  PROVE  /\ exec.step # "idle" => exec.sym \in Symbols /\ exec.src \in Sources
         /\ match.step # "idle" => match.order \in Orders
         /\ exec = Idle <=> exec.step = "idle"
         /\ match = NoMatch <=> match.step = "idle"
BY DEF TypeOK, Idle, NoMatch

LEMMA TypeStep == TypeOK /\ [Next]_vars => TypeOK'
<1> SUFFICES ASSUME TypeOK, [Next]_vars PROVE TypeOK'
  OBVIOUS
<1> USE DEF TypeOK, memory, risk, limit, bounds, history
<1>s. \A s \in Symbols : (Strategy \in Sources) /\ (Manual \in Sources)
  BY DEF Sources
<1>1. CASE UNCHANGED vars
  BY <1>1 DEF vars
<1>2. ASSUME NEW s \in Symbols, Emit(s) PROVE TypeOK'
  BY <1>2, EventsTyped DEF Emit
<1>3. ASSUME NEW s \in Symbols, ManualTrade(s) PROVE TypeOK'
  BY <1>3, <1>s, EventsTyped DEF ManualTrade, Forget
<1>4. ASSUME NEW s \in Symbols, Age(s) PROVE TypeOK'
  BY <1>4 DEF Age
<1>5. ASSUME NEW s \in Symbols, CloseMemory(s) PROVE TypeOK'
  BY <1>5 DEF CloseMemory
<1>6. ASSUME NEW s \in Symbols, EndClose(s) PROVE TypeOK'
  <2>1. queue' \in Seq(Event)
    <3>1. Update(s) \in Event
      BY EventsTyped
    <3>2. Append(queue, Update(s)) \in Seq(Event)
      BY <3>1
    <3> QED BY <1>6, <3>2 DEF EndClose
  <2> QED BY <1>6, <2>1 DEF EndClose
<1>7. ASSUME NEW o \in Orders, Place(o) PROVE TypeOK'
  BY <1>7 DEF Place
<1>8. ASSUME NEW o \in Orders, Skip(o) PROVE TypeOK'
  BY <1>8 DEF Skip
<1>9. ASSUME NEW o \in Orders, CancelRead(o) PROVE TypeOK'
  BY <1>9 DEF CancelRead
<1>10. ASSUME NEW o \in Orders, CancelWrite(o) PROVE TypeOK'
  BY <1>10 DEF CancelWrite, Close
<1>11. CASE ApproveSignal
  <2>1. Head(queue) \in Event /\ Tail(queue) \in Seq(Event)
    BY <1>11, HeadTail DEF ApproveSignal, BusFree
  <2>2. Head(queue).sym \in Symbols
    BY <2>1, EventSymbol
  <2> QED BY <1>11, <1>s, <2>1, <2>2, EventsTyped DEF ApproveSignal, Reserve
<1>12. CASE RejectSignal
  BY <1>12, HeadTail DEF RejectSignal, Forget, BusFree
<1>13. CASE OnUpdate
  BY <1>13, HeadTail DEF OnUpdate, Forget, BusFree
<1>14. CASE RefuseOrder
  BY <1>14, HeadTail DEF RefuseOrder, BusFree
<1>15. CASE TakeOrder
  <2>1. Head(queue) \in Event /\ Tail(queue) \in Seq(Event)
    BY <1>15, HeadTail DEF TakeOrder, BusFree
  <2>2. Head(queue).sym \in Symbols /\ Head(queue).src \in Sources
    BY <1>15, <2>1 DEF TakeOrder, Event
  <2> QED BY <1>15, <2>1, <2>2 DEF TakeOrder
<1>16. CASE Fill
  <2>1. exec.sym \in Symbols /\ exec.src \in Sources
    BY <1>16, AtWork DEF Fill
  <2>2. exec' \in [step : {"cost", "row"}, sym : Symbols, src : Sources]
    BY <1>16, <2>1 DEF Fill, Idle
  <2> QED BY <1>16, <2>1, <2>2, EventsTyped DEF Fill
<1>17. CASE EndOrder
  BY <1>17 DEF EndOrder
<1>18. CASE Scan
  BY <1>18 DEF Scan
<1>19. ASSUME NEW o \in Orders, Cross(o, "approved") \/ Cross(o, "rejected") PROVE TypeOK'
  <2>1. /\ pending' \subseteq pending /\ aged' \subseteq pending'
        /\ cleared' \subseteq Symbols
    BY <1>19 DEF Cross, Forget
  <2>2. match' \in [step : {"approved", "rejected", "filled"}, order : Orders]
    BY <1>19 DEF Cross
  <2> QED BY <1>19, <2>1, <2>2 DEF Cross
<1>20. CASE RejectLimit
  BY <1>20 DEF RejectLimit, Close
<1>21. CASE MarkFilled
  <2>1. match' \in [step : {"approved", "rejected", "filled"}, order : Orders]
    <3>1. match \in [step : {"approved", "rejected", "filled"}, order : Orders]
      BY <1>21, AtWork DEF MarkFilled
    <3> QED BY <1>21, <3>1 DEF MarkFilled
  <2>2. status' \in [Orders -> {"new", "open", "filled", "cancelled"}]
    BY <1>21 DEF MarkFilled, Close
  <2> QED BY <1>21, <2>1, <2>2 DEF MarkFilled
<1>22. CASE PublishLimit
  <2>1. match.order \in Orders
    BY <1>22, AtWork DEF PublishLimit
  <2>2. OrderRequest(SymbolOf[match.order], match.order) \in Event
    BY <2>1, EventsTyped DEF Sources
  <2>3. queue' \in Seq(Event)
    BY <1>22, <2>2 DEF PublishLimit
  <2>4. requested' \in [Orders -> Nat]
    <3>1. requested[match.order] + 1 \in Nat
      BY <2>1
    <3>2. requested' = [requested EXCEPT ![match.order] = requested[match.order] + 1]
      BY <1>22 DEF PublishLimit
    <3> QED BY <3>1, <3>2
  <2> QED BY <1>22, <2>3, <2>4 DEF PublishLimit
<1>23. CASE CrashAndRestart
  <2>1. closing \cup (IF exec.step = "row" THEN {exec.sym} ELSE {}) \subseteq Symbols
    BY AtWork
  <2>2. held' \subseteq Symbols
    BY <1>23, <2>1 DEF CrashAndRestart
  <2>3. cancel' \in [Orders -> {"none", "read", "ok"}]
    BY <1>23 DEF CrashAndRestart
  <2> QED BY <1>23, <2>2, <2>3 DEF CrashAndRestart
<1>24. CASE Quiet
  BY <1>24 DEF Quiet, vars
<1> QED
  BY <1>1, <1>2, <1>3, <1>4, <1>5, <1>6, <1>7, <1>8, <1>9, <1>10, <1>11, <1>12, <1>13, <1>14,
     <1>15, <1>16, <1>17, <1>18, <1>19, <1>20, <1>21, <1>22, <1>23, <1>24
     DEF Next, RiskStep, ExecutorStep, MatcherStep, Crossing

\* Every variable keeps its type, whatever arrives, fails or crashes.
THEOREM TypeCorrect == Spec => []TypeOK
BY InitTyped, TypeStep, PTL DEF Spec

----------------------------------------------------------------------------
(* The life of a limit order *)

LEMMA InitMatch == Init => MatchFollowsStatus
BY DEF Init, MatchFollowsStatus, NoMatch

LEMMA MatchStep ==
  ASSUME TypeOK, MatchFollowsStatus, [Next]_vars
  PROVE  MatchFollowsStatus'
<1> USE DEF MatchFollowsStatus
<1>t. /\ status \in [Orders -> {"new", "open", "filled", "cancelled"}]
      /\ requested \in [Orders -> Nat] /\ batch \subseteq Orders
      /\ match \in {NoMatch} \cup [step : {"approved", "rejected", "filled"}, order : Orders]
  BY DEF TypeOK
<1>1. CASE UNCHANGED <<status, batch, match, requested>>
  BY <1>1
<1>2. ASSUME NEW o \in Orders, Place(o) PROVE MatchFollowsStatus'
  <2>1. /\ status[o] = "new" /\ status' = [status EXCEPT ![o] = "open"]
        /\ UNCHANGED <<batch, match, requested>>
    BY <1>2 DEF Place, history
  <2> QED BY <1>t, <2>1, AtWork
<1>3. ASSUME NEW o \in Orders, Skip(o) PROVE MatchFollowsStatus'
  BY <1>3, <1>t DEF Skip, Upcoming, history
<1>4. ASSUME NEW o \in Orders, CancelWrite(o) PROVE MatchFollowsStatus'
  <2>1. /\ status' = [status EXCEPT ![o] = IF @ = "open" THEN "cancelled" ELSE @]
        /\ UNCHANGED <<batch, match, requested>>
    BY <1>4 DEF CancelWrite, Close, history
  <2> QED BY <1>t, <2>1, AtWork
<1>5. CASE Scan
  BY <1>5, <1>t DEF Scan, history
<1>6. ASSUME NEW o \in Orders, Cross(o, "approved") \/ Cross(o, "rejected")
      PROVE  MatchFollowsStatus'
  <2>1. /\ match = NoMatch /\ o \in batch /\ batch' = batch \ {o}
        /\ match'.order = o /\ match'.step # "filled"
        /\ UNCHANGED <<status, requested>>
    BY <1>6 DEF Cross, Upcoming
  <2> QED BY <1>t, <2>1
<1>7. CASE RejectLimit
  <2>1. /\ match' = NoMatch /\ match.order \in Orders
        /\ status' = [status EXCEPT ![match.order] = IF @ = "open" THEN "cancelled" ELSE @]
        /\ UNCHANGED <<batch, requested>>
    BY <1>7, AtWork DEF RejectLimit, Close, history
  <2> QED BY <1>t, <2>1 DEF NoMatch
<1>8. CASE MarkFilled
  <2>1. /\ match \in [step : {"approved", "rejected", "filled"}, order : Orders]
        /\ match # NoMatch /\ match.step = "approved"
    BY <1>8, AtWork, <1>t DEF MarkFilled, NoMatch
  <2>2. /\ match'.order = match.order /\ match.order \in Orders
        /\ status' = [status EXCEPT ![match.order] = IF @ = "open" THEN "filled" ELSE @]
        /\ UNCHANGED <<batch, requested>>
    BY <1>8, <2>1 DEF MarkFilled, Close, history
  <2> QED BY <1>t, <2>1, <2>2
<1>9. CASE PublishLimit
  <2>1. /\ match.order \in Orders /\ match # NoMatch /\ match' = NoMatch
        /\ status[match.order] \in {"filled", "cancelled"} /\ match.order \notin batch
    BY <1>9, AtWork DEF PublishLimit
  <2>2. requested[match.order] = 0
    <3>1. requested[match.order] \in Nat /\ requested[match.order] <= 1
      BY <1>t, <2>1
    <3>2. requested[match.order] # 1
      BY <2>1
    <3> QED BY <3>1, <3>2
  <2>3. /\ requested' = [requested EXCEPT ![match.order] = @ + 1]
        /\ UNCHANGED <<batch, status>>
    BY <1>9 DEF PublishLimit
  <2> QED BY <1>t, <2>1, <2>2, <2>3 DEF NoMatch
<1>10. CASE CrashAndRestart
  BY <1>10, <1>t DEF CrashAndRestart, NoMatch, history
<1>11. CASE RiskStep
  BY <1>1, <1>11 DEF RiskStep, ApproveSignal, RejectSignal, OnUpdate, limit
<1>12. CASE ExecutorStep
  BY <1>1, <1>12 DEF ExecutorStep, RefuseOrder, TakeOrder, Fill, EndOrder, limit, history
<1>13. ASSUME NEW s \in Symbols,
              Emit(s) \/ ManualTrade(s) \/ Age(s) \/ CloseMemory(s) \/ EndClose(s)
       PROVE  MatchFollowsStatus'
  BY <1>1, <1>13 DEF Emit, ManualTrade, Age, CloseMemory, EndClose, limit, history
<1>14. ASSUME NEW o \in Orders, CancelRead(o) PROVE MatchFollowsStatus'
  BY <1>1, <1>14 DEF CancelRead, history
<1>15. CASE UNCHANGED vars
  BY <1>1, <1>15 DEF vars, limit, history
<1> QED
  BY <1>2, <1>3, <1>4, <1>5, <1>6, <1>7, <1>8, <1>9, <1>10, <1>11, <1>12, <1>13, <1>14, <1>15
     DEF Next, MatcherStep, Crossing, Quiet

\* A limit order asks for one position at most, for any number of orders, scans,
\* cancellations and restarts.
THEOREM OneRequestPerOrder == Spec => []LimitOrderOnce
<1>1. MatchFollowsStatus => LimitOrderOnce
  BY DEF MatchFollowsStatus, LimitOrderOnce
<1>2. TypeOK /\ MatchFollowsStatus /\ [Next]_vars => MatchFollowsStatus'
  BY MatchStep
<1> QED BY <1>1, <1>2, InitMatch, TypeCorrect, PTL DEF Spec

\* What an order has become: its row changes only while it is new or open.
FinalKept == \A o \in Orders : status[o] \in {"filled", "cancelled"} => status'[o] = status[o]

LEMMA CloseKeeps ==
  ASSUME TypeOK, NEW o \in Orders, NEW final, Close(o, final)
  PROVE  FinalKept
BY DEF TypeOK, Close, FinalKept

LEMMA FinalStep == TypeOK /\ [Next]_vars => FinalKept
<1> SUFFICES ASSUME TypeOK, [Next]_vars PROVE FinalKept
  OBVIOUS
<1>1. CASE UNCHANGED status
  BY <1>1 DEF FinalKept
<1>2. ASSUME NEW o \in Orders, Place(o) PROVE FinalKept
  BY <1>2 DEF Place, TypeOK, FinalKept
<1>3. ASSUME NEW o \in Orders, CancelWrite(o) PROVE FinalKept
  BY <1>3, CloseKeeps DEF CancelWrite
<1>4. CASE RejectLimit \/ MarkFilled
  BY <1>4, AtWork, CloseKeeps DEF RejectLimit, MarkFilled
<1>5. ASSUME NEW s \in Symbols,
             Emit(s) \/ ManualTrade(s) \/ Age(s) \/ CloseMemory(s) \/ EndClose(s)
      PROVE  FinalKept
  BY <1>1, <1>5 DEF Emit, ManualTrade, Age, CloseMemory, EndClose, limit
<1>6. ASSUME NEW o \in Orders,
             Skip(o) \/ CancelRead(o) \/ Cross(o, "approved") \/ Cross(o, "rejected")
      PROVE  FinalKept
  BY <1>1, <1>6 DEF Skip, CancelRead, Cross
<1>7. CASE RiskStep \/ ExecutorStep
  BY <1>1, <1>7 DEF RiskStep, ApproveSignal, RejectSignal, OnUpdate, limit, ExecutorStep,
                    RefuseOrder, TakeOrder, Fill, EndOrder
<1>8. CASE Scan \/ PublishLimit \/ CrashAndRestart
  BY <1>1, <1>8 DEF Scan, PublishLimit, CrashAndRestart
<1>9. CASE UNCHANGED vars
  BY <1>1, <1>9 DEF vars, limit
<1> QED
  BY <1>2, <1>3, <1>4, <1>5, <1>6, <1>7, <1>8, <1>9 DEF Next, MatcherStep, Crossing, Quiet

\* The matcher and the cancel route never overwrite what the other made of an order,
\* although both read it long before: "AND status='open'" is enough.
THEOREM FinalStatus == Spec => FinalStatusStays
<1>1. TypeOK /\ [Next]_vars => [FinalKept]_vars
  BY FinalStep
<1>2. Spec => [][FinalKept]_vars
  BY <1>1, TypeCorrect, PTL DEF Spec
<1> QED BY <1>2 DEF FinalStatusStays, FinalKept

----------------------------------------------------------------------------
(* Reservations *)

\* Queued for any queue.
Where(q, s) == {i \in DOMAIN q : q[i] = OrderRequest(s, Strategy)}

LEMMA AppendWhere ==
  ASSUME NEW q \in Seq(Event), NEW e, NEW s
  PROVE  Where(Append(q, e), s) =
           Where(q, s) \cup (IF e = OrderRequest(s, Strategy) THEN {Len(q) + 1} ELSE {})
<1>1. DOMAIN Append(q, e) = (DOMAIN q) \cup {Len(q) + 1} /\ Len(q) + 1 \notin DOMAIN q
  OBVIOUS
<1>2. \A i \in DOMAIN q : Append(q, e)[i] = q[i]
  OBVIOUS
<1>3. Append(q, e)[Len(q) + 1] = e
  OBVIOUS
<1> QED BY <1>1, <1>2, <1>3 DEF Where

LEMMA TailWhere ==
  ASSUME NEW q \in Seq(Event), q # <<>>, NEW s
  PROVE  \A i \in Where(Tail(q), s) : i \in Nat \ {0} /\ i + 1 \in Where(q, s)
<1>1. /\ DOMAIN Tail(q) = 1 .. (Len(q) - 1) /\ DOMAIN q = 1 .. Len(q) /\ Len(q) \in Nat
      /\ \A i \in DOMAIN Tail(q) : Tail(q)[i] = q[i + 1]
  OBVIOUS
<1> QED BY <1>1 DEF Where

\* Lone(q, s): q holds one strategy order for s at most.
Lone(q, s) == \A i, j \in Where(q, s) : i = j

\* A queue that loses its head keeps at most what it had; if the head was the order,
\* nothing of it is left.
LEMMA TailLone ==
  ASSUME NEW q \in Seq(Event), q # <<>>, NEW s, Lone(q, s)
  PROVE  /\ Lone(Tail(q), s)
         /\ Where(q, s) = {} => Where(Tail(q), s) = {}
         /\ Head(q) = OrderRequest(s, Strategy) => Where(Tail(q), s) = {}
<1>1. \A i \in Where(Tail(q), s) : i \in Nat \ {0} /\ i + 1 \in Where(q, s)
  BY TailWhere
<1>2. Lone(Tail(q), s)
  BY <1>1 DEF Lone
<1>3. ASSUME Head(q) = OrderRequest(s, Strategy) PROVE Where(Tail(q), s) = {}
  <2>1. 1 \in Where(q, s)
    BY <1>3 DEF Where
  <2> QED BY <1>1, <2>1 DEF Lone
<1> QED BY <1>1, <1>2, <1>3

\* An event that is not the order changes nothing.
LEMMA AppendLone ==
  ASSUME NEW q \in Seq(Event), NEW e, NEW s, e # OrderRequest(s, Strategy)
  PROVE  Where(Append(q, e), s) = Where(q, s)
<1>1. Where(Append(q, e), s) = Where(q, s) \cup {}
  BY AppendWhere
<1> QED BY <1>1

\* Whether the order of s that a step must keep apart is somewhere.
Out(q, s) == Executing(s) \/ Where(q, s) # {}

\* ReservedWhileOut, symbol by symbol.
Reserved(s) ==
  /\ Lone(queue, s)
  /\ Executing(s) => Where(queue, s) = {}
  /\ Out(queue, s) => s \in pending

LEMMA ReservedBySymbol ==
  /\ ReservedWhileOut <=> \A s \in Symbols \ cleared : Reserved(s)
  /\ ReservedWhileOut' <=> \A s \in (Symbols \ cleared)' : Reserved(s)'
BY DEF ReservedWhileOut, Reserved, Lone, Out, Where, Queued

\* A reservation is forgotten on the way only into `cleared`.
LEMMA ForgetRemembers ==
  ASSUME TypeOK, NEW gone, Forget(gone), NEW s \in Symbols \ cleared', Reserved(s)
  PROVE  s \notin cleared /\ (Out(queue, s) => s \in pending')
<1>1. Outstanding(s) > 0 <=> Out(queue, s)
  BY OutstandingSome DEF Out, Queued, Where
<1> QED BY <1>1 DEF Forget, Reserved

\* The executor's fields decide whether an order is being executed.
LEMMA ExecutingSame ==
  ASSUME exec' = exec, NEW s
  PROVE  Executing(s)' = Executing(s)
BY DEF Executing

\* Steps that leave the executor alone, and the queue but for a foreign event.
LEMMA QuietStep ==
  ASSUME TypeOK, NEW s \in Symbols, Reserved(s), exec' = exec,
         \/ queue' = queue
         \/ \E e : e # OrderRequest(s, Strategy) /\ queue' = Append(queue, e)
         \/ queue # <<>> /\ queue' = Tail(queue),
         Out(queue, s) => s \in pending'
  PROVE  Reserved(s)'
<1>1. queue \in Seq(Event)
  BY DEF TypeOK
<1>2. Executing(s)' = Executing(s)
  BY ExecutingSame
<1>3. Lone(queue', s) /\ (Where(queue, s) = {} => Where(queue', s) = {})
  <2>0. Lone(queue, s)
    BY DEF Reserved
  <2>1. CASE queue' = queue
    BY <2>0, <2>1
  <2>2. ASSUME NEW e, e # OrderRequest(s, Strategy), queue' = Append(queue, e)
        PROVE  Where(queue', s) = Where(queue, s)
    BY <1>1, <2>2, AppendLone
  <2>3. CASE queue # <<>> /\ queue' = Tail(queue)
    BY <1>1, <2>0, <2>3, TailLone
  <2> QED BY <2>0, <2>1, <2>2, <2>3 DEF Lone
<1> QED BY <1>2, <1>3 DEF Reserved, Out

LEMMA ForeignEvents ==
  ASSUME NEW s, NEW q
  PROVE  /\ Signal(q) # OrderRequest(s, Strategy) /\ Update(q) # OrderRequest(s, Strategy)
         /\ \A src \in Orders \cup {Manual} : OrderRequest(q, src) # OrderRequest(s, Strategy)
BY DEF Signal, Update, OrderRequest

\* Approval: the symbol was free, so what was out for it is out no longer or lost.
LEMMA ApprovePreserves ==
  ASSUME TypeOK, ReservedWhileOut, ApproveSignal
  PROVE  ReservedWhileOut'
<1> DEFINE h == Head(queue).sym
           rest == Tail(queue)
<1>1. /\ queue \in Seq(Event) /\ queue # <<>> /\ rest \in Seq(Event)
      /\ Head(queue).kind = "signal"
      /\ queue' = Append(rest, OrderRequest(h, Strategy)) /\ exec' = exec
      /\ Free(h) /\ pending' = (pending \ aged) \cup {h}
      /\ cleared' = cleared \cup {q \in aged : Outstanding(q) > 0}
  BY HeadTail DEF ApproveSignal, BusFree, Reserve, TypeOK
<1> SUFFICES ASSUME NEW s \in Symbols \ cleared' PROVE Reserved(s)'
  BY ReservedBySymbol
<1>2. s \in Symbols \ cleared /\ Reserved(s)
  BY <1>1, ReservedBySymbol
<1>3. Out(queue, s) => s \in pending \ aged
  <2>1. Outstanding(s) > 0 <=> Out(queue, s)
    BY OutstandingSome DEF Out, Queued, Where
  <2> QED BY <1>1, <1>2, <2>1 DEF Reserved
<1>4. Lone(rest, s) /\ (Where(queue, s) = {} => Where(rest, s) = {})
  BY <1>1, <1>2, TailLone DEF Reserved
<1>5. Where(queue', s) = Where(rest, s) \cup
        (IF OrderRequest(h, Strategy) = OrderRequest(s, Strategy) THEN {Len(rest) + 1} ELSE {})
  BY <1>1, AppendWhere
<1>6. Executing(s)' = Executing(s)
  BY <1>1, ExecutingSame
<1>7. CASE s = h
  <2>1. ~Out(queue, s)
    BY <1>1, <1>3, <1>7 DEF Free
  <2>2. Where(queue', s) = {Len(rest) + 1}
    BY <1>4, <1>5, <1>7, <2>1 DEF Out
  <2> QED BY <1>1, <1>6, <1>7, <2>1, <2>2 DEF Reserved, Lone, Out
<1>8. CASE s # h
  <2>1. Where(queue', s) = Where(rest, s)
    BY <1>5, <1>8 DEF OrderRequest
  <2>2. Lone(queue', s)
    BY <1>4, <2>1 DEF Lone
  <2>3. Out(queue, s) => s \in pending'
    BY <1>1, <1>3
  <2> QED BY <1>2, <1>4, <1>6, <2>1, <2>2, <2>3 DEF Reserved, Out
<1> QED BY <1>7, <1>8

\* The executor takes the order off the bus: one place to the other.
LEMMA TakePreserves ==
  ASSUME TypeOK, ReservedWhileOut, TakeOrder
  PROVE  ReservedWhileOut'
<1>1. /\ queue \in Seq(Event) /\ queue # <<>> /\ queue' = Tail(queue)
      /\ exec.step = "idle" /\ Head(queue) \in Event /\ Head(queue).kind = "order"
      /\ exec' = [step |-> "cost", sym |-> Head(queue).sym, src |-> Head(queue).src]
      /\ pending' = pending /\ cleared' = cleared
  BY HeadTail DEF TakeOrder, BusFree, TypeOK, risk, history, Idle
<1> SUFFICES ASSUME NEW s \in Symbols \ cleared PROVE Reserved(s)'
  BY <1>1, ReservedBySymbol
<1>2. Reserved(s)
  BY ReservedBySymbol
<1>3. /\ Lone(queue', s) /\ (Where(queue, s) = {} => Where(queue', s) = {})
      /\ Head(queue) = OrderRequest(s, Strategy) => Where(queue', s) = {}
  BY <1>1, <1>2, TailLone DEF Reserved
<1>4. Executing(s)' => Head(queue) = OrderRequest(s, Strategy)
  BY <1>1 DEF Executing, OrderRequest, Event
<1>5. Head(queue) = OrderRequest(s, Strategy) => Where(queue, s) # {}
  BY <1>1 DEF Where
<1> QED BY <1>1, <1>2, <1>3, <1>4, <1>5 DEF Reserved, Out

\* Every step keeps what is out and not lost reserved.
LEMMA ReserveStep ==
  ASSUME TypeOK, ReservedWhileOut, [Next]_vars
  PROVE  ReservedWhileOut'
<1>a. CASE ApproveSignal
  BY <1>a, ApprovePreserves
<1>b. CASE TakeOrder
  BY <1>b, TakePreserves
<1>c. CASE CrashAndRestart
  BY <1>c DEF CrashAndRestart, ReservedWhileOut, Queued, Executing, Idle
<1>d. CASE ~ApproveSignal /\ ~TakeOrder /\ ~CrashAndRestart
  <2> SUFFICES ASSUME NEW s \in Symbols \ cleared' PROVE Reserved(s)'
    BY ReservedBySymbol
  <2> USE DEF memory, risk, limit, bounds, history
  <2>k. ASSUME cleared' = cleared, pending' = pending
        PROVE  Reserved(s) /\ (Out(queue, s) => s \in pending')
    BY <2>k, ReservedBySymbol DEF Reserved
  <2>f. ASSUME NEW gone, Forget(gone)
        PROVE  Reserved(s) /\ (Out(queue, s) => s \in pending')
    <3>1. s \in Symbols \ cleared
      BY <2>f DEF Forget
    <3>2. Reserved(s)
      BY <3>1, ReservedBySymbol
    <3> QED BY <2>f, <3>2, ForgetRemembers
  <2>1. ASSUME NEW q \in Symbols, Emit(q) PROVE Reserved(s)'
    BY <2>1, <2>k, QuietStep, ForeignEvents DEF Emit
  <2>2. ASSUME NEW q \in Symbols, ManualTrade(q) PROVE Reserved(s)'
    BY <2>2, <2>f, QuietStep, ForeignEvents DEF ManualTrade
  <2>3. ASSUME NEW q \in Symbols, Age(q) PROVE Reserved(s)'
    BY <2>3, <2>k, QuietStep DEF Age
  <2>4. ASSUME NEW q \in Symbols, CloseMemory(q) PROVE Reserved(s)'
    BY <2>4, <2>k, QuietStep DEF CloseMemory
  <2>5. ASSUME NEW q \in Symbols, EndClose(q) PROVE Reserved(s)'
    <3>1. /\ queue' = queue \/ queue' = Append(queue, Update(q))
          /\ exec' = exec /\ pending' = pending /\ cleared' = cleared
      BY <2>5 DEF EndClose
    <3> QED BY <3>1, <2>k, QuietStep, ForeignEvents
  <2>6. CASE RejectSignal
    <3>1. queue # <<>> /\ queue' = Tail(queue) /\ exec' = exec
      BY <2>6 DEF RejectSignal, BusFree
    <3>2. Forget(aged) \/ (pending' = pending /\ cleared' = cleared)
      BY <2>6 DEF RejectSignal
    <3> QED BY <3>1, <3>2, <2>k, <2>f, QuietStep
  <2>7. CASE OnUpdate
    <3>1. queue # <<>> /\ queue' = Tail(queue) /\ exec' = exec /\ Forget({Head(queue).sym})
      BY <2>7 DEF OnUpdate, BusFree
    <3> QED BY <3>1, <2>f, QuietStep
  <2>8. CASE RefuseOrder
    BY <2>8, <2>k, QuietStep DEF RefuseOrder, BusFree
  <2>9. CASE Fill
    <3>1. /\ queue \in Seq(Event) /\ queue' = Append(queue, Update(exec.sym))
          /\ ~Executing(s)' /\ pending' = pending /\ cleared' = cleared
      BY <2>9 DEF Fill, TypeOK, Executing, Idle
    <3>2. Where(queue', s) = Where(queue, s)
      BY <3>1, AppendLone, ForeignEvents
    <3> QED BY <3>1, <3>2, <2>k DEF Reserved, Lone, Out
  <2>10. CASE EndOrder
    <3>1. queue' = queue /\ ~Executing(s)' /\ pending' = pending /\ cleared' = cleared
      BY <2>10 DEF EndOrder, Executing, Idle
    <3> QED BY <3>1, <2>k DEF Reserved, Lone, Out
  <2>11. ASSUME NEW o \in Orders, Place(o) \/ Skip(o) \/ CancelRead(o) \/ CancelWrite(o)
         PROVE  Reserved(s)'
    BY <2>11, <2>k, QuietStep DEF Place, Skip, CancelRead, CancelWrite
  <2>12. ASSUME NEW o \in Orders, Cross(o, "approved") \/ Cross(o, "rejected")
         PROVE  Reserved(s)'
    <3>1. queue' = queue /\ exec' = exec
      BY <2>12 DEF Cross
    <3>2. Forget(aged) \/ (pending' = pending /\ cleared' = cleared)
      BY <2>12 DEF Cross
    <3> QED BY <3>1, <3>2, <2>k, <2>f, QuietStep
  <2>13. CASE Scan \/ RejectLimit \/ MarkFilled
    BY <2>13, <2>k, QuietStep DEF Scan, RejectLimit, MarkFilled
  <2>14. CASE PublishLimit
    <3>1. match.order \in Orders
      BY <2>14, AtWork DEF PublishLimit
    <3>2. /\ queue' = Append(queue, OrderRequest(SymbolOf[match.order], match.order))
          /\ exec' = exec /\ pending' = pending /\ cleared' = cleared
      BY <2>14 DEF PublishLimit
    <3> QED BY <3>1, <3>2, <2>k, QuietStep, ForeignEvents
  <2>15. CASE UNCHANGED vars
    BY <2>15, <2>k, QuietStep DEF vars
  <2> QED
    BY <1>d, <2>1, <2>2, <2>3, <2>4, <2>5, <2>6, <2>7, <2>8, <2>9, <2>10, <2>11, <2>12, <2>13,
       <2>14, <2>15 DEF Next, RiskStep, ExecutorStep, MatcherStep, Crossing, Quiet
<1> QED BY <1>a, <1>b, <1>c, <1>d

\* _pending_signals keeps a second strategy order for a symbol out until the
\* reservation of the first is lost, for any interleaving of signals, manual trades,
\* limit orders, closes, timeouts and crashes.
THEOREM ReservationsHold == Spec => []ReservationHolds
<1>1. Init => ReservedWhileOut
  BY DEF Init, ReservedWhileOut, Queued, Executing, Idle
<1>2. TypeOK /\ ReservedWhileOut /\ [Next]_vars => ReservedWhileOut'
  BY ReserveStep
<1>3. TypeOK /\ ReservedWhileOut => ReservationHolds
  <2> SUFFICES ASSUME TypeOK, ReservedWhileOut, NEW s \in Symbols \ cleared
               PROVE  ~(Outstanding(s) > 1)
    BY DEF ReservationHolds
  <2>1. Outstanding(s) <= 1
    BY OutstandingTwo DEF ReservedWhileOut
  <2> QED BY <2>1, QueuedFinite DEF Outstanding
<1> QED BY <1>1, <1>2, <1>3, TypeCorrect, PTL DEF Spec
=============================================================================
