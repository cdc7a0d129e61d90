------------------------------ MODULE StopGuard ------------------------------
(*************************************************************************)
(* Protective stops (core/risk/position_guard.py, the tighten_stops      *)
(* action of the circuit breaker, OrderExecutor.update_stop_loss).  A    *)
(* stop lives in the position the executor keeps in memory and in its    *)
(* row of the positions table, which a restart reads.  The guard's loop  *)
(* moves stops and closes what hits them; the breaker moves them as      *)
(* well; opens, closes and reduces of the same symbol go on meanwhile.   *)
(*                                                                       *)
(* A position in memory is an object: a task that holds one may still    *)
(* write to it when the symbol has another, while a stop is stored by    *)
(* symbol.  The prices a stop is made from are whole, stops are          *)
(* hundredths, so round(stop, 2) changes nothing.  Row writes of opens   *)
(* and closes do not fail here, nor is there any money: that is          *)
(* SimLedger.                                                            *)
(*************************************************************************)
EXTENDS Naturals, FiniteSetsExt

CONSTANTS
  Symbols, NoSymbol,
  Prices,          \* market prices
  Entry,           \* the cash basis of every position
  Widths,          \* percent between entry and the stop of an open; 0: no stop
  Distances,       \* trailing_stop_distance_pct, fixed or by forecast
  Emergency,       \* emergency_stop_threshold_pct, as a positive loss
  MaxOpens,        \* bound: positions ever opened
  MaxReduces,      \* bound: reduces
  MaxTrips,        \* bound: tighten_stops
  MaxCrashes,      \* bound: crashes with restart
  PersistFails     \* whether update_stop_loss may fail

ASSUME StopGuardAssumption ==
  /\ NoSymbol \notin Symbols
  /\ Prices \subseteq Nat \ {0} /\ Entry \in Nat \ {0}
  /\ Widths \subseteq 0 .. 99 /\ Distances \subseteq 0 .. 99 /\ Emergency \in Nat
  /\ {MaxOpens, MaxReduces, MaxTrips, MaxCrashes} \subseteq Nat
  /\ PersistFails \in BOOLEAN

Ids == 1 .. MaxOpens
None == 0          \* no position, no stop, no price

VARIABLES
  pos,         \* pos[s]: the position in memory
  side, stop,  \* the objects: side and stop_loss of position i
  snap,        \* snap[s]: id and stop of the row in the positions table
  price,       \* price[s]: get_current_price
  lock,        \* lock[s]: what holds the symbol's lock
  rev,         \* _position_rev
  guard,       \* the guard's loop and its locals
  breaker,     \* the running tighten_stops and its locals
  opens, reduces, trips, crashes,
  missed       \* history: symbols whose row missed a stop, and why it may have

objects == <<side, stop>>
bounds == <<opens, reduces, trips, crashes>>
vars == <<pos, objects, snap, price, lock, rev, guard, breaker, bounds, missed>>

NoRow == [id |-> None, stop |-> None]
Asleep == [step |-> "sleep", todo |-> {}, sym |-> NoSymbol, id |-> None,
           price |-> None, obs |-> 0, val |-> None]
Idle == [step |-> "idle", todo |-> {}, sym |-> NoSymbol, id |-> None, val |-> None]

Init ==
  /\ pos = [s \in Symbols |-> None]
  /\ side = [i \in Ids |-> "long"]
  /\ stop = [i \in Ids |-> None]
  /\ snap = [s \in Symbols |-> NoRow]
  /\ price = [s \in Symbols |-> None]
  /\ lock = [s \in Symbols |-> "free"]
  /\ rev = [s \in Symbols |-> 0]
  /\ guard = Asleep
  /\ breaker = Idle
  /\ opens = 0 /\ reduces = 0 /\ trips = 0 /\ crashes = 0
  /\ missed = {}

----------------------------------------------------------------------------
(* Prices and stops *)

\* A stop d percent behind price p.
Behind(p, d, sd) == IF sd = "long" THEN p * (100 - d) ELSE p * (100 + d)

Tighter(x, y, sd) == IF sd = "long" THEN x > y ELSE x < y

Tightest(X, sd) == IF sd = "long" THEN Max(X) ELSE Min(X)

\* The guard closes at stop x: long at or below it, short at or above it.
Hit(x, p, sd) == x # None /\ ~Tighter(p * 100, x, sd)

Loss(p, sd) == IF sd = "long" THEN Entry > p /\ (Entry - p) * 100 >= Emergency * Entry
               ELSE p > Entry /\ (p - Entry) * 100 >= Emergency * Entry

MustClose(i, p) == Hit(stop[i], p, side[i]) \/ Loss(p, side[i])

\* The trailing stop of position i: behind the price, never looser than the
\* present one, never further than d percent from the entry.
NewStop(i, p, d) ==
  Tightest({Behind(p, d, side[i]), Behind(Entry, d, side[i])}
             \cup ({stop[i]} \ {None}), side[i])

\* It moves by more than a hundredth or not at all.
Moves(i, x) ==
  \/ stop[i] = None
  \/ side[i] = "long" /\ x > stop[i] + 1
  \/ side[i] = "short" /\ x + 1 < stop[i]

----------------------------------------------------------------------------
(* The market, and the executor's opens, closes and reduces *)

Move(s, p) ==
  /\ price' = [price EXCEPT ![s] = p]
  /\ UNCHANGED <<pos, objects, snap, lock, rev, guard, breaker, bounds, missed>>

Bump(s) == rev' = [rev EXCEPT ![s] = @ + 1]

\* A moved stop is still on its way to the row of s.
Storing(s) ==
  \/ guard.step = "persist" /\ guard.sym = s
  \/ breaker.step = "persist" /\ breaker.sym = s

\* The row is written anew.
Heal(s) == missed' = IF Storing(s) THEN missed ELSE missed \ {s}

OpenMemory(s, sd, w) ==
  LET i == opens + 1 IN
  /\ opens < MaxOpens
  /\ lock[s] = "free" /\ pos[s] = None
  /\ opens' = i
  /\ lock' = [lock EXCEPT ![s] = "open"]
  /\ pos' = [pos EXCEPT ![s] = i]
  /\ side' = [side EXCEPT ![i] = sd]
  /\ stop' = [stop EXCEPT ![i] = IF w = 0 THEN None ELSE Behind(Entry, w, sd)]
  /\ Bump(s)
  /\ UNCHANGED <<snap, price, guard, breaker, reduces, trips, crashes, missed>>

\* _persist_position: the row takes the stop the position has by then.
Snapshot(s) == [id |-> pos[s], stop |-> stop[pos[s]]]

OpenCommit(s) ==
  /\ lock[s] = "open"
  /\ snap' = [snap EXCEPT ![s] = Snapshot(s)]
  /\ lock' = [lock EXCEPT ![s] = "pay"]
  /\ Heal(s)
  /\ UNCHANGED <<pos, objects, price, rev, guard, breaker, bounds>>

OpenPaid(s) ==
  /\ lock[s] = "pay"
  /\ lock' = [lock EXCEPT ![s] = "free"]
  /\ UNCHANGED <<pos, objects, snap, price, rev, guard, breaker, bounds, missed>>

OpenUndo(s) ==
  /\ lock[s] = "pay"
  /\ lock' = [lock EXCEPT ![s] = "free"]
  /\ pos' = [pos EXCEPT ![s] = None]
  /\ snap' = [snap EXCEPT ![s] = NoRow]
  /\ Heal(s)
  /\ Bump(s)
  /\ UNCHANGED <<objects, price, guard, breaker, bounds>>

\* A close that somebody else asked for.
CloseMemory(s) ==
  /\ lock[s] = "free" /\ pos[s] # None
  /\ lock' = [lock EXCEPT ![s] = "close"]
  /\ pos' = [pos EXCEPT ![s] = None]
  /\ UNCHANGED <<objects, snap, price, rev, guard, breaker, bounds, missed>>

\* The row is deleted.
Flat(s) ==
  /\ snap' = [snap EXCEPT ![s] = NoRow]
  /\ Heal(s)
  /\ lock' = [lock EXCEPT ![s] = "free"]
  /\ Bump(s)

CloseCommit(s) ==
  /\ lock[s] = "close"
  /\ Flat(s)
  /\ UNCHANGED <<pos, objects, price, guard, breaker, bounds>>

Reduce(s) ==
  /\ reduces < MaxReduces
  /\ lock[s] = "free" /\ pos[s] # None
  /\ reduces' = reduces + 1
  /\ lock' = [lock EXCEPT ![s] = "reduce"]
  /\ UNCHANGED <<pos, objects, snap, price, rev, guard, breaker, opens, trips, crashes,
                 missed>>

ReduceCommit(s) ==
  /\ lock[s] = "reduce"
  /\ snap' = [snap EXCEPT ![s] = Snapshot(s)]
  /\ lock' = [lock EXCEPT ![s] = "free"]
  /\ Heal(s)
  /\ Bump(s)
  /\ UNCHANGED <<pos, objects, price, guard, breaker, bounds>>

----------------------------------------------------------------------------
(* PositionGuard._check_all_positions *)

GuardWake ==
  /\ guard.step = "sleep"
  /\ \E s \in Symbols : pos[s] # None
  /\ guard' = [guard EXCEPT !.step = "scan", !.todo = {s \in Symbols : pos[s] # None}]
  /\ UNCHANGED <<pos, objects, snap, price, lock, rev, breaker, bounds, missed>>

\* The next symbol of the pass: its position is looked up again.
Upcoming(s) == guard.step = "scan" /\ s \in guard.todo

GuardSkip(s) ==
  /\ Upcoming(s)
  /\ pos[s] = None \/ price[s] = None
  /\ guard' = [guard EXCEPT !.todo = @ \ {s}]
  /\ UNCHANGED <<pos, objects, snap, price, lock, rev, breaker, bounds, missed>>

\* Stop-loss or emergency stop: close_position takes note of the revision.
GuardHit(s) ==
  /\ Upcoming(s)
  /\ pos[s] # None /\ price[s] # None
  /\ MustClose(pos[s], price[s])
  /\ guard' = [guard EXCEPT !.step = "close", !.todo = @ \ {s}, !.sym = s,
                            !.id = pos[s], !.obs = rev[s]]
  /\ UNCHANGED <<pos, objects, snap, price, lock, rev, breaker, bounds, missed>>

\* The volatility forecast may be awaited, with the position and the price in hand.
GuardForecast(s) ==
  /\ Upcoming(s)
  /\ pos[s] # None /\ price[s] # None
  /\ ~MustClose(pos[s], price[s])
  /\ guard' = [guard EXCEPT !.step = "vol", !.todo = @ \ {s}, !.sym = s,
                            !.id = pos[s], !.price = price[s]]
  /\ UNCHANGED <<pos, objects, snap, price, lock, rev, breaker, bounds, missed>>

Scanning == [guard EXCEPT !.step = "scan", !.sym = NoSymbol, !.id = None,
                          !.price = None, !.obs = 0, !.val = None]

GuardLeave(d) ==
  LET x == NewStop(guard.id, guard.price, d) IN
  /\ guard.step = "vol"
  /\ d = 0 \/ ~Moves(guard.id, x)
  /\ guard' = Scanning
  /\ UNCHANGED <<pos, objects, snap, price, lock, rev, breaker, bounds, missed>>

\* Mutant of GuardTrail: the move is not stored.
GuardTrailInMemory(d) ==
  LET x == NewStop(guard.id, guard.price, d) IN
  /\ guard.step = "vol"
  /\ d > 0 /\ Moves(guard.id, x)
  /\ stop' = [stop EXCEPT ![guard.id] = x]
  /\ guard' = Scanning
  /\ UNCHANGED <<pos, side, snap, price, lock, rev, breaker, bounds, missed>>

GuardTrail(d) ==
  LET x == NewStop(guard.id, guard.price, d) IN
  /\ guard.step = "vol"
  /\ d > 0 /\ Moves(guard.id, x)
  /\ stop' = [stop EXCEPT ![guard.id] = x]
  /\ guard' = [guard EXCEPT !.step = "persist", !.val = x]
  /\ UNCHANGED <<pos, side, snap, price, lock, rev, breaker, bounds, missed>>

\* update_stop_loss: the row of the symbol, if it has one; a failure is logged.
Store(t, other) ==
  LET s == t.sym IN
  \/ /\ snap' = [snap EXCEPT ![s].stop = IF snap[s].id = None THEN None ELSE t.val]
     /\ missed' = IF snap[s].id \notin {None, t.id} \/ (other.step = "persist" /\ other.sym = s)
                    THEN missed \cup {s} ELSE missed
  \/ /\ PersistFails
     /\ missed' = missed \cup {s}
     /\ UNCHANGED snap

GuardPersist ==
  /\ guard.step = "persist"
  /\ Store(guard, breaker)
  /\ guard' = Scanning
  /\ UNCHANGED <<pos, objects, price, lock, rev, breaker, bounds>>

GuardClose ==
  LET s == guard.sym IN
  /\ guard.step = "close"
  /\ lock[s] = "free" /\ rev[s] = guard.obs /\ pos[s] # None
  /\ lock' = [lock EXCEPT ![s] = "guard"]
  /\ pos' = [pos EXCEPT ![s] = None]
  /\ guard' = [guard EXCEPT !.step = "closing"]
  /\ UNCHANGED <<objects, snap, price, rev, breaker, bounds, missed>>

GuardCommit ==
  /\ guard.step = "closing"
  /\ Flat(guard.sym)
  /\ guard' = Scanning
  /\ UNCHANGED <<pos, objects, price, breaker, bounds>>

\* Mutant of GuardRefused: the close is tried again with the same revision.
GuardRefusedRetries ==
  LET s == guard.sym IN
  /\ guard.step = "close"
  /\ lock[s] = "free" /\ (rev[s] # guard.obs \/ pos[s] = None)
  /\ UNCHANGED vars

\* The position changed while it waited: left to the next pass.
GuardRefused ==
  LET s == guard.sym IN
  /\ guard.step = "close"
  /\ lock[s] = "free" /\ (rev[s] # guard.obs \/ pos[s] = None)
  /\ guard' = Scanning
  /\ UNCHANGED <<pos, objects, snap, price, lock, rev, breaker, bounds, missed>>

GuardSleep ==
  /\ guard.step = "scan" /\ guard.todo = {}
  /\ guard' = Asleep
  /\ UNCHANGED <<pos, objects, snap, price, lock, rev, breaker, bounds, missed>>

----------------------------------------------------------------------------
(* _execute_breaker_action, tighten_stops *)

TightenStart ==
  /\ breaker.step = "idle"
  /\ trips < MaxTrips
  /\ \E s \in Symbols : pos[s] # None
  /\ trips' = trips + 1
  /\ breaker' = [breaker EXCEPT !.step = "tighten",
                   !.todo = {<<s, pos[s]>> : s \in {q \in Symbols : pos[q] # None}}]
  /\ UNCHANGED <<pos, objects, snap, price, lock, rev, guard, opens, reduces, crashes,
                 missed>>

\* persist_tightened_stop: two percent behind the price, whatever the stop was.
Tighten(e) ==
  LET p == IF price[e[1]] = None THEN Entry ELSE price[e[1]]
      x == Behind(p, 2, side[e[2]])
  IN
  /\ breaker.step = "tighten" /\ e \in breaker.todo
  /\ stop' = [stop EXCEPT ![e[2]] = x]
  /\ breaker' = [breaker EXCEPT !.step = "persist", !.todo = @ \ {e}, !.sym = e[1],
                                !.id = e[2], !.val = x]
  /\ UNCHANGED <<pos, side, snap, price, lock, rev, guard, bounds, missed>>

TightenPersist ==
  /\ breaker.step = "persist"
  /\ Store(breaker, guard)
  /\ breaker' = [breaker EXCEPT !.step = "tighten", !.sym = NoSymbol, !.id = None,
                                !.val = None]
  /\ UNCHANGED <<pos, objects, price, lock, rev, guard, bounds>>

TightenDone ==
  /\ breaker.step = "tighten" /\ breaker.todo = {}
  /\ breaker' = Idle
  /\ UNCHANGED <<pos, objects, snap, price, lock, rev, guard, bounds, missed>>

----------------------------------------------------------------------------

\* restore_positions: each row gives a position with the stop it holds.
CrashAndRestart ==
  /\ crashes < MaxCrashes
  /\ crashes' = crashes + 1
  /\ pos' = [s \in Symbols |-> snap[s].id]
  /\ stop' = [i \in Ids |->
                IF \E s \in Symbols : snap[s].id = i
                  THEN snap[CHOOSE s \in Symbols : snap[s].id = i].stop ELSE None]
  /\ lock' = [s \in Symbols |-> "free"]
  /\ rev' = [s \in Symbols |-> 0]
  /\ price' = [s \in Symbols |-> None]
  /\ guard' = Asleep /\ breaker' = Idle
  /\ missed' = {}
  /\ UNCHANGED <<side, snap, opens, reduces, trips>>

GuardStep ==
  \/ GuardWake \/ GuardPersist \/ GuardClose \/ GuardCommit \/ GuardRefused \/ GuardSleep
  \/ \E s \in Symbols : GuardSkip(s) \/ GuardHit(s) \/ GuardForecast(s)
  \/ \E d \in Distances : GuardLeave(d) \/ GuardTrail(d)

BreakerStep ==
  TightenStart \/ TightenPersist \/ TightenDone \/ (\E e \in breaker.todo : Tighten(e))

Committing(s) == OpenCommit(s) \/ OpenPaid(s) \/ OpenUndo(s) \/ CloseCommit(s) \/ ReduceCommit(s)

Next ==
  \/ \E s \in Symbols :
       \/ \E p \in Prices : Move(s, p)
       \/ \E sd \in {"long", "short"}, w \in Widths : OpenMemory(s, sd, w)
       \/ CloseMemory(s) \/ Reduce(s) \/ Committing(s)
  \/ GuardStep \/ BreakerStep \/ CrashAndRestart

Spec == Init /\ [][Next]_vars

\* The guard's loop goes on for ever, and who holds a symbol's lock lets it go.
Fairness == SF_vars(GuardStep) /\ \A s \in Symbols : WF_vars(Committing(s))

FairSpec == Spec /\ Fairness

----------------------------------------------------------------------------
(* Properties *)

Row == {NoRow} \cup [id : Ids, stop : Nat]

Guard ==
  [step : {"sleep", "scan", "vol", "persist", "close", "closing"}, todo : SUBSET Symbols,
   sym : Symbols \cup {NoSymbol}, id : Ids \cup {None}, price : Prices \cup {None},
   obs : Nat, val : Nat]

Tightening ==
  [step : {"idle", "tighten", "persist"}, todo : SUBSET (Symbols \X Ids),
   sym : Symbols \cup {NoSymbol}, id : Ids \cup {None}, val : Nat]

\* Every variable keeps its type.
TypeOK ==
  /\ pos \in [Symbols -> Ids \cup {None}]
  /\ side \in [Ids -> {"long", "short"}]
  /\ stop \in [Ids -> Nat]
  /\ snap \in [Symbols -> Row]
  /\ price \in [Symbols -> Prices \cup {None}]
  /\ lock \in [Symbols -> {"free", "open", "pay", "close", "reduce", "guard"}]
  /\ rev \in [Symbols -> Nat]
  /\ guard \in Guard /\ breaker \in Tightening
  /\ opens \in 0 .. MaxOpens
  /\ missed \subseteq Symbols

Settled(s) == lock[s] = "free" /\ ~Storing(s)

InMemory(s) == IF pos[s] = None THEN NoRow ELSE Snapshot(s)

\* Once nobody is at work on a symbol, the row a restart would read holds the
\* position and the stop the guard is enforcing, unless a write failed, two of
\* them crossed, or one was meant for a position that is gone.
SnapshotFollows ==
  \A s \in Symbols : Settled(s) /\ s \notin missed => snap[s] = InMemory(s)

\* A position whose stop, or the emergency threshold, is crossed and stays crossed
\* is closed, also when reduces and stop moves get in the guard's way.
StopFires ==
  \A s \in Symbols, i \in Ids :
    (pos[s] = i /\ price[s] # None /\ MustClose(i, price[s]))
      ~> (pos[s] # i \/ price[s] = None \/ ~MustClose(i, price[s]))

\* _persist_position: "the basis, stop-loss and take-profits survive exactly as the
\* running process knows them" - a restart while nobody is at work changes no stop.
StopSurvivesRestart ==
  [][CrashAndRestart =>
       \A s \in Symbols : Settled(s) /\ pos[s] # None =>
         pos'[s] = pos[s] /\ stop'[pos[s]] = stop[pos[s]]]_vars

\* persist_tightened_stop: "Tighten pos's stop" - it does not loosen it.
TightenTightens ==
  [][\A i \in Ids :
       breaker'.step = "persist" /\ breaker'.id = i /\ stop[i] # None =>
         ~Tighter(stop[i], stop'[i], side[i])]_vars

\* _update_trailing_stop: "the floor never tightens a legitimately wide stop" - a
\* trailing stop stays on its side of the price it is made from.
FloorNeverTightens ==
  [][guard.step = "vol" /\ guard'.step = "persist" =>
       ~Hit(stop'[guard.id], guard.price, side[guard.id])]_vars

----------------------------------------------------------------------------
(* The inductive invariant behind SnapshotFollows. *)

\* Who is at work on a position knows which.
AtWork ==
  /\ guard.step \in {"vol", "persist", "close", "closing"} =>
       guard.sym \in Symbols /\ guard.id \in Ids
  /\ guard.step = "vol" => guard.price \in Prices
  /\ breaker.step = "persist" => breaker.sym \in Symbols /\ breaker.id \in Ids

\* s is or was the symbol of position i, as far as anybody remembers.
Remembered(s, i) ==
  \/ pos[s] = i \/ snap[s].id = i
  \/ guard.sym = s /\ guard.id = i
  \/ breaker.sym = s /\ breaker.id = i
  \/ <<s, i>> \in breaker.todo

\* No position is taken for one of another symbol, nor for one still to come.
OneOwner ==
  \A i \in Ids, s, q \in Symbols :
    /\ Remembered(s, i) => i <= opens
    /\ Remembered(s, i) /\ Remembered(q, i) => s = q

\* What the holder of a symbol's lock can rely on.
LocksHold ==
  /\ \A s \in Symbols :
       /\ lock[s] \in {"free", "pay", "reduce"} => snap[s].id = pos[s]
       /\ lock[s] \in {"close", "guard"} => pos[s] = None
       /\ lock[s] \in {"open", "pay", "reduce"} => pos[s] # None
  /\ guard.step = "closing" => lock[guard.sym] = "guard"

\* t is about to store the stop its position has, unless the other one is storing too.
StoresWhatHolds(t, other) ==
  t.step = "persist" /\ t.sym \notin missed /\ ~(other.step = "persist" /\ other.sym = t.sym)
    => stop[t.id] = t.val

Stores == StoresWhatHolds(guard, breaker) /\ StoresWhatHolds(breaker, guard)

\* SnapshotFollows, and the same for a position that is not paid yet.
RowFollows ==
  \A s \in Symbols :
    lock[s] \in {"free", "pay"} /\ ~Storing(s) /\ s \notin missed => snap[s] = InMemory(s)

IInv == TypeOK /\ AtWork /\ OneOwner /\ LocksHold /\ Stores /\ RowFollows
=============================================================================
