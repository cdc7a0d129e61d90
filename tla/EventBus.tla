------------------------------ MODULE EventBus ------------------------------
(*************************************************************************)
(* The event bus (app/event_bus.py): a bounded asyncio.Queue between the *)
(* publishers and one loop that takes an event, runs all its subscribers *)
(* together and waits for every one of them.  A subscriber may publish,  *)
(* and waits for room like anybody else - on the loop that is waiting    *)
(* for it. When the loop's get() fails, the bus moves what is queued to  *)
(* a new queue; a publisher parked on the old one goes on putting there. *)
(*************************************************************************)
EXTENDS Naturals, Sequences, SequencesExt, FiniteSets

CONSTANTS
  Publishers,      \* market data, strategy engine, web routes, guard
  Subscribers,
  Kinds,           \* event types
  Emits,           \* Emits[c][k]: what subscriber c publishes on a k, or Nothing
  Nothing,
  Capacity,        \* maxsize
  MaxEvents,       \* bound: events published from outside
  MaxRebinds       \* bound: failures of get()

ASSUME BusAssumption ==
  /\ Nothing \notin Kinds
  /\ Publishers \cap Subscribers = {} /\ Nothing \notin Publishers \cup Subscribers
  /\ Emits \in [Subscribers -> [Kinds -> Kinds \cup {Nothing}]]
  /\ Capacity \in Nat \ {0}
  /\ {MaxEvents, MaxRebinds} \subseteq Nat

VARIABLES
  queue,       \* _queue
  parked,      \* parked[p]: the event publisher p waits to put, or NoEvent
  current,     \* the event whose subscribers are running
  todo,        \* todo[c]: what subscriber c has still to publish
  busy,        \* subscribers that have not returned
  waiting,     \* those of them parked in publish()
  stopped,     \* shutdown() was called
  published,   \* count of events published from outside
  rebinds,
  handled,     \* history: events handled, in order
  dropped      \* history: events put where nobody gets them

busVars == <<queue, parked, current, todo, busy, waiting, stopped, published, rebinds,
          handled, dropped>>

\* An event, its publisher, and its number among all those from outside.
NoEvent == [kind |-> Nothing, by |-> Nothing, id |-> 0]

BusInit ==
  /\ queue = <<>>
  /\ parked = [p \in Publishers |-> NoEvent]
  /\ current = NoEvent
  /\ todo = [c \in Subscribers |-> Nothing]
  /\ busy = {}
  /\ waiting = {}
  /\ stopped = FALSE
  /\ published = 0
  /\ rebinds = 0
  /\ handled = <<>>
  /\ dropped = {}

Room == Len(queue) < Capacity

\* publish(): put, or wait for room.
Publish(p, k) ==
  LET e == [kind |-> k, by |-> p, id |-> published + 1] IN
  /\ published < MaxEvents
  /\ parked[p] = NoEvent
  /\ published' = published + 1
  /\ IF Room THEN queue' = Append(queue, e) /\ UNCHANGED parked
     ELSE parked' = [parked EXCEPT ![p] = e] /\ UNCHANGED queue
  /\ UNCHANGED <<current, todo, busy, waiting, stopped, rebinds, handled, dropped>>

\* Mutant of Unpark: a publisher that had to wait gives up its event.
UnparkLost(p) ==
  /\ parked[p] # NoEvent
  /\ Room
  /\ parked' = [parked EXCEPT ![p] = NoEvent]
  /\ UNCHANGED <<queue, current, todo, busy, waiting, stopped, published, rebinds,
                 handled, dropped>>

Unpark(p) ==
  /\ parked[p] # NoEvent
  /\ Room
  /\ queue' = Append(queue, parked[p])
  /\ parked' = [parked EXCEPT ![p] = NoEvent]
  /\ UNCHANGED <<current, todo, busy, waiting, stopped, published, rebinds, handled,
                 dropped>>

\* _process takes the oldest event and starts all its subscribers.
Take ==
  /\ ~stopped
  /\ current = NoEvent
  /\ queue # <<>>
  /\ current' = Head(queue)
  /\ queue' = Tail(queue)
  /\ todo' = [c \in Subscribers |-> Emits[c][Head(queue).kind]]
  /\ busy' = Subscribers
  /\ UNCHANGED <<parked, waiting, stopped, published, rebinds, handled, dropped>>

\* A subscriber publishes what it has to, and returns.
SubscriberPublish(c) ==
  /\ ~stopped
  /\ c \in busy /\ todo[c] # Nothing
  /\ Room
  /\ queue' = Append(queue, [kind |-> todo[c], by |-> c, id |-> 0])
  /\ todo' = [todo EXCEPT ![c] = Nothing]
  /\ busy' = busy \ {c}
  /\ waiting' = waiting \ {c}
  /\ UNCHANGED <<parked, current, stopped, published, rebinds, handled, dropped>>

\* The queue is full: the subscriber waits, and the loop with it.
SubscriberPark(c) ==
  /\ ~stopped
  /\ c \in busy \ waiting /\ todo[c] # Nothing
  /\ ~Room
  /\ waiting' = waiting \cup {c}
  /\ UNCHANGED <<queue, parked, current, todo, busy, stopped, published, rebinds, handled,
                 dropped>>

\* It returns, or raises before it has published: gather keeps the exception.
SubscriberReturn(c) ==
  /\ ~stopped
  /\ c \in busy /\ todo[c] = Nothing
  /\ busy' = busy \ {c}
  /\ UNCHANGED <<queue, parked, current, todo, waiting, stopped, published, rebinds,
                 handled, dropped>>

SubscriberRaise(c) ==
  /\ ~stopped
  /\ c \in busy \ waiting /\ todo[c] # Nothing
  /\ todo' = [todo EXCEPT ![c] = Nothing]
  /\ busy' = busy \ {c}
  /\ UNCHANGED <<queue, parked, current, waiting, stopped, published, rebinds, handled,
                 dropped>>

Gathered ==
  /\ ~stopped
  /\ current # NoEvent /\ busy = {}
  /\ handled' = Append(handled, current)
  /\ current' = NoEvent
  /\ UNCHANGED <<queue, parked, todo, busy, waiting, stopped, published, rebinds, dropped>>

\* Mutant of Rebind: what was pending goes behind what comes from now on.
RebindLifo ==
  /\ ~stopped /\ current = NoEvent
  /\ rebinds < MaxRebinds
  /\ rebinds' = rebinds + 1
  /\ queue' = Reverse(queue)
  /\ dropped' = dropped \cup {parked[p] : p \in {q \in Publishers : parked[q] # NoEvent}}
  /\ parked' = [p \in Publishers |-> NoEvent]
  /\ UNCHANGED <<current, todo, busy, waiting, stopped, published, handled>>

\* get() failed: the pending events go to a fresh queue, in order.  A publisher
\* parked on the old queue is woken by the draining and puts its event there.
Rebind ==
  /\ ~stopped /\ current = NoEvent
  /\ rebinds < MaxRebinds
  /\ rebinds' = rebinds + 1
  /\ dropped' = dropped \cup {parked[p] : p \in {q \in Publishers : parked[q] # NoEvent}}
  /\ parked' = [p \in Publishers |-> NoEvent]
  /\ UNCHANGED <<queue, current, todo, busy, waiting, stopped, published, handled>>

\* shutdown() cancels the loop in the middle of what it does.
Shutdown ==
  /\ ~stopped
  /\ stopped' = TRUE
  /\ UNCHANGED <<queue, parked, current, todo, busy, waiting, published, rebinds, handled,
                 dropped>>

Outside == \E p \in Publishers, k \in Kinds : Publish(p, k)

LoopStep ==
  \/ Take \/ Gathered
  \/ \E c \in Subscribers :
       SubscriberPublish(c) \/ SubscriberPark(c) \/ SubscriberReturn(c)
         \/ SubscriberRaise(c)

BusNext ==
  \/ Outside
  \/ \E p \in Publishers : Unpark(p)
  \/ LoopStep
  \/ Rebind
  \/ Shutdown

BusSpec == BusInit /\ [][BusNext]_busVars

\* The event loop runs whatever can go on; a parked publisher may be overtaken by
\* others, not for ever.
BusFairness ==
  /\ WF_busVars(LoopStep)
  /\ \A p \in Publishers : SF_busVars(Unpark(p))

BusFairSpec == BusSpec /\ BusFairness

----------------------------------------------------------------------------
(* Properties *)

Event == [kind : Kinds \cup {Nothing}, by : Publishers \cup Subscribers \cup {Nothing},
          id : 0 .. MaxEvents]

\* Every variable keeps its type, and the queue its bound.
BusTypeOK ==
  /\ Len(queue) <= Capacity
  /\ \A i \in DOMAIN queue : queue[i] \in Event
  /\ parked \in [Publishers -> Event]
  /\ current \in Event
  /\ todo \in [Subscribers -> Kinds \cup {Nothing}]
  /\ waiting \subseteq busy /\ busy \subseteq Subscribers
  /\ stopped \in BOOLEAN
  /\ published \in 0 .. MaxEvents /\ rebinds \in 0 .. MaxRebinds

\* The events of one publisher are handled in the order it published them - a
\* position's opening before its closing - full queue, failing subscribers and
\* rebinding included.
PublisherOrder ==
  \A i, j \in DOMAIN handled :
    i < j /\ handled[i].by = handled[j].by /\ handled[i].by \in Publishers
      => handled[i].id < handled[j].id

\* No two events are in subscribers' hands at once: a handler that leaves work for
\* the next event finds it done.
OneEventAtATime == current = NoEvent => busy = {}

\* _bind_to_running_loop: "the bus keeps its contract (no event silently dropped)".
NoEventDropped == dropped = {}

\* A subscriber waits for room that only the loop waiting for it could make: the
\* bus stands still from then on.
Jammed == Len(queue) = Capacity /\ waiting # {}

\* What is published is handled in the end - a publisher parked on the full queue
\* and an event behind a failing subscriber included - but for what a rebind
\* dropped, until the bus is shut down or jams.
EventsHandled ==
  \A n \in 1 .. MaxEvents :
    (published >= n) ~>
      \/ stopped \/ Jammed
      \/ \E e \in Range(handled) \cup dropped : e.id = n

----------------------------------------------------------------------------
(* The inductive invariant behind PublisherOrder. *)

\* Of two events of one publisher, e is the older one.
Older(e, f) == e.by = f.by /\ e.by \in Publishers => e.id < f.id

Sorted(q) == \A i, j \in DOMAIN q : i < j => Older(q[i], q[j])

\* Every event has its type; a publisher waits with an event of its own.
EventsOK ==
  /\ queue \in Seq(Event) /\ handled \in Seq(Event)
  /\ current \in Event /\ parked \in [Publishers -> Event]
  /\ todo \in [Subscribers -> Kinds \cup {Nothing}]
  /\ published \in 0 .. MaxEvents
  /\ busy \subseteq Subscribers
  /\ \A p \in Publishers :
       parked[p] # NoEvent => parked[p].by = p /\ parked[p].kind \in Kinds
  /\ \A j \in DOMAIN queue : queue[j].kind \in Kinds

\* What was handled, the event in hand, what is queued and what is parked follow
\* one another, publisher by publisher, up to the last event published.
InOrder ==
  /\ Sorted(handled) /\ Sorted(queue)
  /\ \A i \in DOMAIN handled :
       /\ current # NoEvent => Older(handled[i], current)
       /\ \A j \in DOMAIN queue : Older(handled[i], queue[j])
       /\ \A p \in Publishers : parked[p] # NoEvent => Older(handled[i], parked[p])
       /\ handled[i].id <= published
  /\ current # NoEvent =>
       /\ \A j \in DOMAIN queue : Older(current, queue[j])
       /\ \A p \in Publishers : parked[p] # NoEvent => Older(current, parked[p])
  /\ \A j \in DOMAIN queue :
       \A p \in Publishers : parked[p] # NoEvent => Older(queue[j], parked[p])
  /\ current.id <= published
  /\ \A j \in DOMAIN queue : queue[j].id <= published
  /\ \A p \in Publishers : parked[p].id <= published

BusInv == EventsOK /\ InOrder

\* The chain the run of the model looks at: from a signal over the risk manager to an
\* order, which the executor handles (core/risk/manager.py publishes ORDER_REQUEST).
Chain ==
  [c \in Subscribers |->
     [k \in Kinds |-> IF c = "risk" /\ k = "signal" THEN "order" ELSE Nothing]]
=============================================================================
