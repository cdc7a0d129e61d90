------------------------------ MODULE TradeGate ------------------------------
(*************************************************************************)
(* The executor's trade gate (OrderExecutor._enter_mutation,             *)
(* _leave_mutation, _mutation_slot, reset_barrier): every cash-moving    *)
(* mutation registers with the gate, and an admin reset closes it,       *)
(* drains what is inside and opens it again.                             *)
(*                                                                       *)
(* The gate is made of threading primitives and is used from coroutines: *)
(* a coroutine that blocks in Event.wait, or spins around it, keeps its  *)
(* event loop's thread, and no other coroutine of that loop can run.  So *)
(* the model has event loops, each run by one thread, and an activation  *)
(* holds its loop from one await to the next.  Threads switch between    *)
(* any two calls; the test of _gate_closed and the increment after it    *)
(* have no call in between and are one step, as the code's comment says. *)
(*************************************************************************)
EXTENDS Integers, FiniteSets

CONSTANTS
  Loops,
  Mutators,       \* activations of open / close / reduce
  Resets,         \* activations of POST /api/settings/reset-sim
  LoopOf,         \* the event loop an activation runs on
  Nobody

Activations == Mutators \cup Resets

ASSUME GateAssumption ==
  /\ IsFiniteSet(Mutators) /\ Mutators \cap Resets = {}
  /\ LoopOf \in [Activations -> Loops]
  /\ Nobody \notin Activations

VARIABLES
  closed,         \* _gate_closed
  active,         \* _gate_active
  idle,           \* _gate_idle.is_set()
  pc,             \* pc[a]: where the activation is
  thread          \* thread[l]: the activation loop l is running, between awaits

gate == <<closed, active, idle>>
vars == <<closed, active, idle, pc, thread>>

Init ==
  /\ closed = FALSE
  /\ active = 0
  /\ idle = TRUE
  /\ pc = [a \in Activations |-> "idle"]
  /\ thread = [l \in Loops |-> Nobody]

----------------------------------------------------------------------------
(* The event loops *)

Free(a) == thread[LoopOf[a]] = Nobody
Holds(a) == thread[LoopOf[a]] = a

\* The loop turns to activation a, which runs on from here.
Resume(a, from, to) ==
  /\ pc[a] = from
  /\ Free(a)
  /\ pc' = [pc EXCEPT ![a] = to]
  /\ thread' = [thread EXCEPT ![LoopOf[a]] = a]

\* a goes on without giving its loop back.
Continue(a, from, to) ==
  /\ pc[a] = from
  /\ Holds(a)
  /\ pc' = [pc EXCEPT ![a] = to]
  /\ UNCHANGED thread

\* a reaches an await.
Await(a, from, to) ==
  /\ pc[a] = from
  /\ Holds(a)
  /\ pc' = [pc EXCEPT ![a] = to]
  /\ thread' = [thread EXCEPT ![LoopOf[a]] = Nobody]

----------------------------------------------------------------------------
(* A mutation *)

Arrive(m) ==
  /\ Resume(m, "idle", "enter")
  /\ UNCHANGED gate

\* The gate is open: count the mutation.
Enter(m) ==
  /\ ~closed
  /\ active' = active + 1
  /\ Continue(m, "enter", "clear")
  /\ UNCHANGED <<closed, idle>>

\* ... and clear the event; the slot is held from here to its finally.
ClearIdle(m) ==
  /\ idle' = FALSE
  /\ Await(m, "clear", "inside")
  /\ UNCHANGED <<closed, active>>

\* The gate is closed: wait for the event, holding the thread.
Block(m) ==
  /\ closed
  /\ Continue(m, "enter", "wait")
  /\ UNCHANGED gate

\* The event is set: test the gate again.
Wake(m) ==
  /\ idle
  /\ Continue(m, "wait", "enter")
  /\ UNCHANGED gate

\* Mutant of Leave: the last one out does not set the event.
LeaveSilently(m) ==
  /\ Resume(m, "inside", "left")
  /\ active' = IF active <= 1 THEN 0 ELSE active - 1
  /\ UNCHANGED <<closed, idle>>

\* Mutant of Leave: the slot is not given back.
LeaveUncounted(m) ==
  /\ Resume(m, "inside", "left")
  /\ UNCHANGED gate

\* The slot's finally; the counter is clamped at zero.
Leave(m) ==
  /\ Resume(m, "inside", IF active <= 1 THEN "signal" ELSE "left")
  /\ active' = IF active <= 1 THEN 0 ELSE active - 1
  /\ UNCHANGED <<closed, idle>>

\* The last one out sets the event, after the counter.
Signal(a) ==
  /\ idle' = TRUE
  /\ Await(a, "signal", "idle")
  /\ UNCHANGED <<closed, active>>

Left(m) ==
  /\ Await(m, "left", "idle")
  /\ UNCHANGED gate

----------------------------------------------------------------------------
(* A reset *)

Close(r) ==
  /\ Resume(r, "idle", "drain")
  /\ closed' = TRUE
  /\ UNCHANGED <<active, idle>>

\* Somebody is inside: Event.wait(0.05) returns at the latest when it times out,
\* then the other tasks of this loop get a turn.
Poll(r) ==
  /\ active > 0
  /\ Await(r, "drain", "yield")
  /\ UNCHANGED gate

PollAgain(r) ==
  /\ Resume(r, "yield", "drain")
  /\ UNCHANGED gate

\* Mutant of Drained: the counter is not looked at.
DrainedAnyway(r) ==
  /\ Await(r, "drain", "window")
  /\ UNCHANGED gate

\* Nobody is inside: the reset works, over several awaits.
Drained(r) ==
  /\ active = 0
  /\ Await(r, "drain", "window")
  /\ UNCHANGED gate

\* Mutant of Reopen: the gate stays closed.
ReopenForgotten(r) ==
  /\ Resume(r, "window", "signal")
  /\ UNCHANGED gate

\* The finally of the barrier: the gate opens, and then the event is set.
Reopen(r) ==
  /\ Resume(r, "window", "signal")
  /\ closed' = FALSE
  /\ UNCHANGED <<active, idle>>

----------------------------------------------------------------------------

MutationStep(m) ==
  \/ Enter(m) \/ ClearIdle(m) \/ Block(m) \/ Wake(m)
  \/ Leave(m) \/ Signal(m) \/ Left(m)

ResetStep(r) == Poll(r) \/ PollAgain(r) \/ Drained(r) \/ Reopen(r) \/ Signal(r)

Next ==
  \/ \E m \in Mutators : Arrive(m) \/ MutationStep(m)
  \/ \E r \in Resets : Close(r) \/ ResetStep(r)

Spec == Init /\ [][Next]_vars

\* The threads run, and a loop serves its ready tasks first in first out, so no
\* task that can run again and again is passed over for ever.
Fairness ==
  /\ \A m \in Mutators : SF_vars(MutationStep(m))
  /\ \A r \in Resets : SF_vars(ResetStep(r))

FairSpec == Spec /\ Fairness

----------------------------------------------------------------------------
(* Properties *)

Steps ==
  {"idle", "enter", "clear", "inside", "wait", "signal", "left", "drain", "yield",
   "window"}

\* Every variable keeps its type.
TypeOK ==
  /\ closed \in BOOLEAN
  /\ active \in Nat
  /\ idle \in BOOLEAN
  /\ pc \in [Activations -> Steps]
  /\ thread \in [Loops -> Activations \cup {Nobody}]

Inside == {m \in Mutators : pc[m] \in {"clear", "inside"}}

\* "then holds it closed until the reset is done": while a reset erases and
\* restores, no mutation is inside, on whatever loop.
WindowIsExclusive ==
  \A r \in Resets : pc[r] = "window" => Inside = {}

\* The counter is the number of mutations inside: the clamp in _leave_mutation
\* never hides one, so a drained gate is an empty one.
ActiveCounts == active = Cardinality(Inside)

\* No lost wake-up: once the gate is open, nobody is inside and nobody is about
\* to set the event, it is set, so that a mutation blocked on it goes on.
NoLostWakeup ==
  (/\ ~closed /\ active = 0
   /\ \A a \in Activations : pc[a] # "signal")
    => idle

\* "New opens/closes wait for the reset instead of running through it": unless
\* resets keep coming, a mutation that meets a closed gate gets in in the end.
MutationsWaitOutTheReset ==
  (\A r \in Resets : <>[](pc[r] # "drain")) =>
    \A m \in Mutators : (pc[m] \in {"enter", "wait"}) ~> (pc[m] = "inside")

\* A reset that has closed the gate opens it again.
ResetFinishes ==
  \A r \in Resets : (pc[r] \in {"drain", "yield"}) ~> (pc[r] = "idle")

----------------------------------------------------------------------------
(* The inductive invariants. *)

\* The event is set, or somebody is there who will set it: a mutation that is inside
\* and leaves last, or whoever is about to.
SomebodyWakes == idle \/ active > 0 \/ \E a \in Activations : pc[a] = "signal"

\* Of the counter and the event, for any number of resets.
CounterInv == TypeOK /\ ActiveCounts /\ SomebodyWakes

OneReset == \A r, q \in Resets : r = q

\* The gate is closed from the start of a reset to its end.
GateHeld ==
  \A r \in Resets : pc[r] \in {"drain", "yield", "window"} => closed

\* Of the window, for resets that do not overlap.
WindowInv == GateHeld /\ WindowIsExclusive
=============================================================================
