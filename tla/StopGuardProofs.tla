--------------------------- MODULE StopGuardProofs ---------------------------
(*************************************************************************)
(* TLAPS proofs about StopGuard, for any number of symbols, positions,   *)
(* reduces, tightenings and crashes, and any prices and distances: once  *)
(* nobody is at work on a symbol, the row a restart reads holds the      *)
(* position and the stop that are being enforced.                        *)
(*************************************************************************)
EXTENDS StopGuard, TLAPS

USE StopGuardAssumption

----------------------------------------------------------------------------
(* Stops are numbers *)

LEMMA BehindType ==
  ASSUME NEW p \in Nat, NEW d \in 0 .. 99, NEW sd
  PROVE  Behind(p, d, sd) \in Nat
<1>1. \A a, b \in Nat : a * b \in Nat
  OBVIOUS
<1>2. 100 - d \in Nat /\ 100 + d \in Nat
  OBVIOUS
<1> QED BY <1>1, <1>2 DEF Behind

\* The tightest of one number, of two and of three, is one of them.
LEMMA TightestOf ==
  ASSUME NEW a \in Nat, NEW b \in Nat, NEW c \in Nat, NEW X, NEW sd,
         X = {a, b} \/ X = {a, b, c}
  PROVE  Tightest(X, sd) \in Nat
<1>1. X \subseteq Nat
  OBVIOUS
<1>2. \E x \in X : \A y \in X : x >= y
  OBVIOUS
<1>3. \E x \in X : \A y \in X : x <= y
  OBVIOUS
<1>4. Max(X) \in X
  BY <1>2 DEF Max
<1>5. Min(X) \in X
  BY <1>3 DEF Min
<1> QED BY <1>1, <1>4, <1>5 DEF Tightest

LEMMA NewStopType ==
  ASSUME TypeOK, NEW i \in Ids, NEW p \in Prices, NEW d \in Distances
  PROVE  NewStop(i, p, d) \in Nat
<1> DEFINE a == Behind(p, d, side[i])
           b == Behind(Entry, d, side[i])
           X == {a, b} \cup ({stop[i]} \ {None})
<1>1. a \in Nat /\ b \in Nat
  BY BehindType
<1>2. stop[i] \in Nat
  BY DEF TypeOK
<1>3. X = {a, b} \/ X = {a, b, stop[i]}
  OBVIOUS
<1>4. Tightest(X, side[i]) \in Nat
  <2> HIDE DEF a, b, X
  <2> QED BY <1>1, <1>2, <1>3, TightestOf
<1> QED BY <1>4 DEF NewStop

----------------------------------------------------------------------------
(* Types *)

LEMMA InitTyped == Init => TypeOK /\ AtWork
BY DEF Init, TypeOK, AtWork, Guard, Tightening, Asleep, Idle, None, Row, NoRow, Ids

\* What is written to a row.
LEMMA SnapshotType ==
  ASSUME TypeOK, NEW s \in Symbols, pos[s] # None
  PROVE  Snapshot(s) \in Row /\ Snapshot(s).id = pos[s] /\ Snapshot(s).stop = stop[pos[s]]
BY DEF TypeOK, Snapshot, Row

LEMMA StoreType ==
  ASSUME TypeOK, NEW t, NEW other, t.sym \in Symbols, t.val \in Nat, Store(t, other)
  PROVE  /\ snap' \in [Symbols -> Row] /\ missed' \subseteq Symbols
         /\ \A s \in Symbols : snap'[s].id = snap[s].id
<1>1. \A s \in Symbols : snap[s] = NoRow \/ snap[s] \in [id : Ids, stop : Nat]
  BY DEF TypeOK, Row
<1>2. missed' \subseteq Symbols
  BY DEF Store, TypeOK
<1>3. CASE UNCHANGED snap
  BY <1>2, <1>3 DEF TypeOK
<1>4. CASE snap' = [snap EXCEPT ![t.sym].stop = IF snap[t.sym].id = None THEN None ELSE t.val]
  <2>1. \A s \in Symbols : s # t.sym => snap'[s] = snap[s]
    BY <1>4 DEF TypeOK
  <2>2. snap'[t.sym] = [snap[t.sym] EXCEPT !.stop = IF snap[t.sym].id = None THEN None ELSE t.val]
    BY <1>4 DEF TypeOK
  <2>3. CASE snap[t.sym] = NoRow
    <3>1. snap'[t.sym] = NoRow
      BY <2>2, <2>3 DEF NoRow, None
    <3> QED BY <1>2, <1>4, <2>1, <2>3, <3>1 DEF TypeOK, Row, NoRow
  <2>4. CASE snap[t.sym] \in [id : Ids, stop : Nat]
    <3>1. snap'[t.sym] \in [id : Ids, stop : Nat] /\ snap'[t.sym].id = snap[t.sym].id
      BY <2>2, <2>4 DEF None
    <3> QED BY <1>2, <1>4, <2>1, <3>1 DEF TypeOK, Row
  <2> QED BY <1>1, <2>3, <2>4
<1> QED BY <1>3, <1>4 DEF Store

\* The fields of the guard and of the breaker.
LEMMA Fields ==
  ASSUME TypeOK
  PROVE  /\ guard.todo \subseteq Symbols /\ guard.val \in Nat /\ guard.obs \in Nat
         /\ guard.id \in Ids \cup {None} /\ guard.price \in Prices \cup {None}
         /\ guard.sym \in Symbols \cup {NoSymbol}
         /\ breaker.todo \subseteq Symbols \X Ids /\ breaker.val \in Nat
         /\ breaker.id \in Ids \cup {None} /\ breaker.sym \in Symbols \cup {NoSymbol}
BY DEF TypeOK, Guard, Tightening

\* The guard goes on with its pass.
LEMMA ScanningType ==
  ASSUME TypeOK
  PROVE  /\ Scanning \in Guard /\ Scanning.step = "scan"
         /\ Scanning.sym = NoSymbol /\ Scanning.id = None
BY DEF TypeOK, Scanning, Guard, None

\* Steps of opens, closes and reduces.
LEMMA CommitTypes ==
  ASSUME TypeOK, AtWork, LocksHold, NEW s \in Symbols,
         \/ \E p \in Prices : Move(s, p)
         \/ \E sd \in {"long", "short"}, w \in Widths : OpenMemory(s, sd, w)
         \/ CloseMemory(s) \/ Reduce(s) \/ Committing(s)
  PROVE  TypeOK' /\ AtWork'
<1> USE DEF TypeOK, objects, bounds
<1>1. UNCHANGED <<guard, breaker>> => AtWork'
  BY DEF AtWork
<1>2. ASSUME NEW p \in Prices, Move(s, p) PROVE TypeOK' /\ AtWork'
  BY <1>1, <1>2 DEF Move
<1>3. ASSUME NEW sd \in {"long", "short"}, NEW w \in Widths, OpenMemory(s, sd, w)
      PROVE  TypeOK' /\ AtWork'
  <2>1. opens + 1 \in Ids /\ opens + 1 \in 0 .. MaxOpens
    BY <1>3 DEF OpenMemory, Ids
  <2>2. (IF w = 0 THEN None ELSE Behind(Entry, w, sd)) \in Nat
    BY BehindType DEF None
  <2>3. UNCHANGED <<snap, price, guard, breaker, missed>>
    BY <1>3 DEF OpenMemory
  <2>4. /\ pos' \in [Symbols -> Ids \cup {None}] /\ opens' \in 0 .. MaxOpens
        /\ side' \in [Ids -> {"long", "short"}] /\ stop' \in [Ids -> Nat]
    BY <1>3, <2>1, <2>2 DEF OpenMemory
  <2>5. /\ lock' \in [Symbols -> {"free", "open", "pay", "close", "reduce", "guard"}]
        /\ rev' \in [Symbols -> Nat]
    BY <1>3 DEF OpenMemory, Bump
  <2> QED BY <1>1, <2>3, <2>4, <2>5
<1>4. CASE OpenCommit(s)
  <2>1. Snapshot(s) \in Row
    BY <1>4, SnapshotType DEF OpenCommit, LocksHold
  <2> QED BY <1>1, <1>4, <2>1 DEF OpenCommit, Heal
<1>5. CASE OpenPaid(s)
  BY <1>1, <1>5 DEF OpenPaid
<1>6. CASE OpenUndo(s)
  BY <1>1, <1>6 DEF OpenUndo, Heal, Bump, Row
<1>7. CASE CloseMemory(s)
  BY <1>1, <1>7 DEF CloseMemory
<1>8. CASE CloseCommit(s)
  BY <1>1, <1>8 DEF CloseCommit, Flat, Heal, Bump, Row
<1>9. CASE Reduce(s)
  BY <1>1, <1>9 DEF Reduce
<1>10. CASE ReduceCommit(s)
  <2>1. Snapshot(s) \in Row
    BY <1>10, SnapshotType DEF ReduceCommit, LocksHold
  <2> QED BY <1>1, <1>10, <2>1 DEF ReduceCommit, Heal, Bump
<1> QED
  BY <1>2, <1>3, <1>4, <1>5, <1>6, <1>7, <1>8, <1>9, <1>10 DEF Committing

\* Steps of the guard.
LEMMA GuardTypes ==
  ASSUME TypeOK, AtWork, GuardStep
  PROVE  TypeOK' /\ AtWork'
<1> USE DEF objects, bounds
<1>0. \A g \in Guard : g.step \in {"sleep", "scan"} /\ guard' = g /\ UNCHANGED breaker => AtWork'
  BY DEF AtWork
<1>1. CASE GuardWake
  <2>1. guard' \in Guard /\ guard'.step = "scan"
    BY <1>1 DEF GuardWake, TypeOK, Guard
  <2> QED BY <1>0, <1>1, <2>1 DEF GuardWake, TypeOK
<1>2. ASSUME NEW s \in Symbols, GuardSkip(s) PROVE TypeOK' /\ AtWork'
  <2>1. guard' \in Guard /\ guard'.step = "scan"
    BY <1>2 DEF GuardSkip, Upcoming, TypeOK, Guard
  <2> QED BY <1>0, <1>2, <2>1 DEF GuardSkip, TypeOK
<1>3. ASSUME NEW s \in Symbols, GuardHit(s) PROVE TypeOK' /\ AtWork'
  <2>1. pos[s] \in Ids /\ rev[s] \in Nat
    BY <1>3 DEF GuardHit, TypeOK
  <2>2. guard' \in Guard /\ guard'.step = "close" /\ guard'.sym = s /\ guard'.id = pos[s]
    BY <1>3, <2>1 DEF GuardHit, TypeOK, Guard
  <2> QED BY <1>3, <2>1, <2>2 DEF GuardHit, TypeOK, AtWork
<1>4. ASSUME NEW s \in Symbols, GuardForecast(s) PROVE TypeOK' /\ AtWork'
  <2>1. pos[s] \in Ids /\ price[s] \in Prices
    BY <1>4 DEF GuardForecast, TypeOK
  <2>2. /\ guard' \in Guard /\ guard'.step = "vol" /\ guard'.sym = s /\ guard'.id = pos[s]
        /\ guard'.price = price[s]
    BY <1>4, <2>1 DEF GuardForecast, TypeOK, Guard
  <2> QED BY <1>4, <2>1, <2>2 DEF GuardForecast, TypeOK, AtWork
<1>5. ASSUME NEW d \in Distances, GuardLeave(d) PROVE TypeOK' /\ AtWork'
  BY <1>0, <1>5, ScanningType DEF GuardLeave, TypeOK
<1>6. ASSUME NEW d \in Distances, GuardTrail(d) PROVE TypeOK' /\ AtWork'
  <2>1. /\ guard.step = "vol" /\ stop' = [stop EXCEPT ![guard.id] = NewStop(guard.id, guard.price, d)]
        /\ guard' = [guard EXCEPT !.step = "persist", !.val = NewStop(guard.id, guard.price, d)]
        /\ UNCHANGED <<pos, side, snap, price, lock, rev, breaker, opens, missed>>
    BY <1>6 DEF GuardTrail
  <2>2. guard.id \in Ids /\ guard.sym \in Symbols /\ guard.price \in Prices
    BY <2>1 DEF AtWork
  <2>3. NewStop(guard.id, guard.price, d) \in Nat
    BY <2>2, NewStopType
  <2>4. /\ guard' \in Guard /\ guard'.step = "persist" /\ guard'.sym = guard.sym
        /\ guard'.id = guard.id
    BY <2>1, <2>3 DEF TypeOK, Guard
  <2>5. stop' \in [Ids -> Nat]
    BY <2>1, <2>3 DEF TypeOK
  <2> QED BY <2>1, <2>2, <2>4, <2>5 DEF TypeOK, AtWork
<1>7. CASE GuardPersist
  <2>1. guard.sym \in Symbols /\ guard.val \in Nat
    BY <1>7, Fields DEF GuardPersist, AtWork
  <2>2. snap' \in [Symbols -> Row] /\ missed' \subseteq Symbols
    BY <1>7, <2>1, StoreType DEF GuardPersist
  <2>3. guard' = Scanning /\ UNCHANGED <<pos, objects, price, lock, rev, breaker, bounds>>
    BY <1>7 DEF GuardPersist
  <2> QED BY <1>0, <2>2, <2>3, ScanningType DEF TypeOK
<1>8. CASE GuardClose
  <2>1. /\ guard' \in Guard /\ guard'.step = "closing" /\ guard'.sym = guard.sym
        /\ guard'.id = guard.id /\ guard.sym \in Symbols /\ guard.id \in Ids
    BY <1>8 DEF GuardClose, TypeOK, Guard, AtWork
  <2> QED BY <1>8, <2>1 DEF GuardClose, TypeOK, AtWork
<1>9. CASE GuardCommit
  <2>1. guard.sym \in Symbols
    BY <1>9 DEF GuardCommit, AtWork
  <2> QED BY <1>0, <1>9, <2>1, ScanningType DEF GuardCommit, Flat, Heal, Bump, TypeOK, Row
<1>10. CASE GuardRefused
  BY <1>0, <1>10, ScanningType DEF GuardRefused, TypeOK
<1>11. CASE GuardSleep
  <2>1. Asleep \in Guard /\ Asleep.step = "sleep"
    BY DEF Asleep, Guard, None
  <2> QED BY <1>0, <1>11, <2>1 DEF GuardSleep, TypeOK
<1> QED
  BY <1>1, <1>2, <1>3, <1>4, <1>5, <1>6, <1>7, <1>8, <1>9, <1>10, <1>11 DEF GuardStep

\* Steps of the breaker, and the restart.
LEMMA BreakerTypes ==
  ASSUME TypeOK, AtWork, BreakerStep \/ CrashAndRestart
  PROVE  TypeOK' /\ AtWork'
<1> USE DEF objects, bounds
<1>0. Idle \in Tightening /\ Idle.step = "idle"
  BY DEF Idle, Tightening, None
<1>1. CASE TightenStart
  <2> DEFINE all == {<<s, pos[s]>> : s \in {q \in Symbols : pos[q] # None}}
  <2>1. all \in SUBSET (Symbols \X Ids)
    BY DEF TypeOK
  <2>2. breaker' \in Tightening /\ breaker'.step = "tighten"
    <3>1. breaker' = [breaker EXCEPT !.step = "tighten", !.todo = all]
      BY <1>1 DEF TightenStart
    <3> HIDE DEF all
    <3> QED BY <2>1, <3>1 DEF TypeOK, Tightening
  <2> QED BY <1>1, <2>2 DEF TightenStart, TypeOK, AtWork
<1>2. ASSUME NEW e \in breaker.todo, Tighten(e) PROVE TypeOK' /\ AtWork'
  <2> DEFINE x == Behind(IF price[e[1]] = None THEN Entry ELSE price[e[1]], 2, side[e[2]])
  <2>1. e[1] \in Symbols /\ e[2] \in Ids
    BY Fields
  <2>2. x \in Nat
    <3>1. (IF price[e[1]] = None THEN Entry ELSE price[e[1]]) \in Nat
      BY <2>1 DEF TypeOK
    <3> QED BY <3>1, BehindType
  <2>3. /\ stop' = [stop EXCEPT ![e[2]] = x]
        /\ breaker' = [breaker EXCEPT !.step = "persist", !.todo = @ \ {e}, !.sym = e[1],
                                      !.id = e[2], !.val = x]
        /\ UNCHANGED <<pos, side, snap, price, lock, rev, guard, opens, missed>>
    BY <1>2 DEF Tighten
  <2> HIDE DEF x
  <2>4. /\ breaker' \in Tightening /\ breaker'.step = "persist" /\ breaker'.sym = e[1]
        /\ breaker'.id = e[2]
    BY <2>1, <2>2, <2>3 DEF TypeOK, Tightening
  <2>5. stop' \in [Ids -> Nat]
    BY <2>2, <2>3 DEF TypeOK
  <2> QED BY <2>1, <2>3, <2>4, <2>5 DEF TypeOK, AtWork
<1>3. CASE TightenPersist
  <2>1. breaker.sym \in Symbols /\ breaker.val \in Nat
    BY <1>3, Fields DEF TightenPersist, AtWork
  <2>2. snap' \in [Symbols -> Row] /\ missed' \subseteq Symbols
    BY <1>3, <2>1, StoreType DEF TightenPersist
  <2>3. breaker' \in Tightening /\ breaker'.step = "tighten"
    BY <1>3 DEF TightenPersist, TypeOK, Tightening, None
  <2> QED BY <1>3, <2>2, <2>3 DEF TightenPersist, TypeOK, AtWork
<1>4. CASE TightenDone
  BY <1>0, <1>4 DEF TightenDone, TypeOK, AtWork
<1>5. CASE CrashAndRestart
  <2>1. Asleep \in Guard /\ Asleep.step = "sleep"
    BY DEF Asleep, Guard, None
  <2>2. \A s \in Symbols : snap[s].id \in Ids \cup {None} /\ snap[s].stop \in Nat
    BY DEF TypeOK, Row, NoRow, None
  <2>3. pos' \in [Symbols -> Ids \cup {None}]
    BY <1>5, <2>2 DEF CrashAndRestart
  <2>4. \A i \in Ids : (\E s \in Symbols : snap[s].id = i) =>
                        (CHOOSE s \in Symbols : snap[s].id = i) \in Symbols
    OBVIOUS
  <2>5. stop' \in [Ids -> Nat]
    BY <1>5, <2>2, <2>4 DEF CrashAndRestart, None
  <2>6. /\ lock' \in [Symbols -> {"free", "open", "pay", "close", "reduce", "guard"}]
        /\ rev' \in [Symbols -> Nat] /\ price' \in [Symbols -> Prices \cup {None}]
        /\ guard' = Asleep /\ breaker' = Idle /\ missed' = {}
        /\ UNCHANGED <<side, snap, opens>>
    BY <1>5 DEF CrashAndRestart
  <2> QED BY <1>0, <2>1, <2>3, <2>5, <2>6 DEF TypeOK, AtWork
<1> QED BY <1>1, <1>2, <1>3, <1>4, <1>5 DEF BreakerStep

\* Every step keeps the types.
LEMMA TypeStep ==
  ASSUME TypeOK, AtWork, LocksHold, [Next]_vars
  PROVE  TypeOK' /\ AtWork'
<1>1. CASE UNCHANGED vars
  BY <1>1 DEF vars, objects, bounds, TypeOK, AtWork
<1> QED BY <1>1, CommitTypes, GuardTypes, BreakerTypes DEF Next

----------------------------------------------------------------------------
(* Whose position it is *)

\* Nothing is remembered that was not: no symbol gets a position of another.
LEMMA OwnersKept ==
  ASSUME OneOwner, opens' = opens,
         \A s \in Symbols, i \in Ids : Remembered(s, i)' => Remembered(s, i)
  PROVE  OneOwner'
BY DEF OneOwner

LEMMA StoreKeepsIds ==
  ASSUME TypeOK, NEW t, NEW other, t.sym \in Symbols, t.val \in Nat, Store(t, other),
         NEW s \in Symbols
  PROVE  snap'[s].id = snap[s].id
BY StoreType

LEMMA OwnerStep ==
  ASSUME TypeOK, AtWork, LocksHold, OneOwner, [Next]_vars
  PROVE  OneOwner'
<1> USE DEF objects, bounds
<1>n. /\ NoRow.id = None /\ None \notin Ids
      /\ Scanning.sym = NoSymbol /\ Asleep.sym = NoSymbol /\ Idle.sym = NoSymbol
      /\ NoSymbol \notin Symbols /\ Idle.todo = {}
  BY ScanningType DEF NoRow, None, Ids, Asleep, Idle
<1>1. ASSUME UNCHANGED <<pos, snap, guard, breaker, opens>> PROVE OneOwner'
  <2>1. \A s \in Symbols, i \in Ids : Remembered(s, i)' => Remembered(s, i)
    BY <1>1 DEF Remembered
  <2> QED BY <1>1, <2>1, OwnersKept
<1>2. ASSUME NEW s \in Symbols, NEW sd \in {"long", "short"}, NEW w \in Widths,
             OpenMemory(s, sd, w)
      PROVE  OneOwner'
  <2>1. /\ opens' = opens + 1 /\ pos' = [pos EXCEPT ![s] = opens + 1]
        /\ UNCHANGED <<snap, guard, breaker>>
    BY <1>2 DEF OpenMemory
  <2>2. \A q \in Symbols, i \in Ids :
          Remembered(q, i)' => Remembered(q, i) \/ (q = s /\ i = opens + 1)
    BY <2>1 DEF Remembered, TypeOK
  <2>3. opens \in Nat /\ Ids \subseteq Nat
    BY DEF TypeOK, Ids
  <2>4. ASSUME NEW i \in Ids, NEW q \in Symbols, NEW r \in Symbols
        PROVE  /\ Remembered(q, i)' => i <= opens'
               /\ Remembered(q, i)' /\ Remembered(r, i)' => q = r
    <3>1. Remembered(q, i) => i <= opens
      BY <2>4 DEF OneOwner
    <3>2. Remembered(r, i) => i <= opens
      BY <2>4 DEF OneOwner
    <3>3. Remembered(q, i) /\ Remembered(r, i) => q = r
      BY <2>4 DEF OneOwner
    <3>4. Remembered(q, i)' => Remembered(q, i) \/ (q = s /\ i = opens + 1)
      BY <2>2, <2>4
    <3>5. Remembered(r, i)' => Remembered(r, i) \/ (r = s /\ i = opens + 1)
      BY <2>2, <2>4
    <3>6. i <= opens => i # opens + 1 /\ i <= opens + 1
      BY <2>3, <2>4
    <3> QED BY <2>1, <2>3, <3>1, <3>2, <3>3, <3>4, <3>5, <3>6
  <2> QED
    <3>1. OneOwner' <=> \A i \in Ids, q, r \in Symbols :
             /\ Remembered(q, i)' => i <= opens'
             /\ Remembered(q, i)' /\ Remembered(r, i)' => q = r
      BY DEF OneOwner
    <3> QED BY <2>4, <3>1
<1>3. ASSUME NEW s \in Symbols,
             (\E p \in Prices : Move(s, p)) \/ CloseMemory(s) \/ Reduce(s) \/ Committing(s)
      PROVE  OneOwner'
  <2>1. \/ UNCHANGED <<pos, snap>>
        \/ /\ pos' = pos \/ pos' = [pos EXCEPT ![s] = None]
           /\ snap' = snap \/ snap' = [snap EXCEPT ![s] = NoRow]
        \/ pos' = pos /\ pos[s] # None /\ snap' = [snap EXCEPT ![s] = Snapshot(s)]
    BY <1>3 DEF Move, CloseMemory, Reduce, Committing, OpenCommit, OpenPaid, OpenUndo,
                CloseCommit, ReduceCommit, Flat, LocksHold
  <2>2. UNCHANGED <<guard, breaker, opens>>
    BY <1>3 DEF Move, CloseMemory, Reduce, Committing, OpenCommit, OpenPaid, OpenUndo,
                CloseCommit, ReduceCommit, Flat
  <2>3. pos[s] # None => Snapshot(s).id = pos[s]
    BY SnapshotType
  <2>4. \A q \in Symbols, i \in Ids : Remembered(q, i)' => Remembered(q, i)
    BY <1>n, <2>1, <2>2, <2>3 DEF Remembered, TypeOK
  <2> QED BY <2>2, <2>4, OwnersKept
<1>4. CASE GuardStep
  <2>1. opens' = opens /\ UNCHANGED breaker
    BY <1>4 DEF GuardStep, GuardWake, GuardSkip, GuardHit, GuardForecast, GuardLeave, GuardTrail,
                GuardPersist, GuardClose, GuardCommit, GuardRefused, GuardSleep, Flat
  <2> DEFINE Kept == guard'.sym = guard.sym /\ guard'.id = guard.id
             Known == \/ guard'.sym = NoSymbol \/ Kept
                      \/ guard'.sym \in Symbols /\ guard'.id = pos[guard'.sym]
  <2>2. Known
    <3>1. CASE GuardWake
      <4>1. Kept
        BY <3>1 DEF GuardWake, TypeOK, Guard
      <4> QED BY <4>1
    <3>2. ASSUME NEW s \in Symbols, GuardSkip(s) PROVE Known
      <4>1. Kept
        BY <3>2 DEF GuardSkip, TypeOK, Guard
      <4> QED BY <4>1
    <3>3. ASSUME NEW s \in Symbols, GuardHit(s) \/ GuardForecast(s) PROVE Known
      <4>1. guard'.sym = s /\ guard'.id = pos[s]
        BY <3>3 DEF GuardHit, GuardForecast, TypeOK, Guard
      <4> QED BY <3>3, <4>1
    <3>4. ASSUME NEW d \in Distances, GuardLeave(d) \/ GuardTrail(d) PROVE Known
      <4>1. GuardTrail(d) => Kept
        BY DEF GuardTrail, TypeOK, Guard
      <4>2. GuardLeave(d) => guard'.sym = NoSymbol
        BY <1>n DEF GuardLeave
      <4> QED BY <3>4, <4>1, <4>2
    <3>5. CASE GuardPersist \/ GuardCommit \/ GuardRefused \/ GuardSleep
      BY <1>n, <3>5 DEF GuardPersist, GuardCommit, GuardRefused, GuardSleep
    <3>6. CASE GuardClose
      <4>1. Kept
        BY <3>6 DEF GuardClose, TypeOK, Guard
      <4> QED BY <4>1
    <3> HIDE DEF Known
    <3> QED BY <1>4, <3>1, <3>2, <3>3, <3>4, <3>5, <3>6 DEF GuardStep
  <2>3. \A s \in Symbols : /\ pos'[s] \in {pos[s], None}
                           /\ snap'[s].id \in {snap[s].id, None}
    <3>1. CASE GuardPersist
      <4>1. guard.sym \in Symbols /\ guard.val \in Nat
        BY <3>1, Fields DEF GuardPersist, AtWork
      <4> QED BY <3>1, <4>1, StoreKeepsIds DEF GuardPersist
    <3>2. CASE GuardClose
      BY <3>2 DEF GuardClose, TypeOK
    <3>3. CASE GuardCommit
      BY <1>n, <3>3 DEF GuardCommit, Flat, TypeOK
    <3>4. CASE UNCHANGED <<pos, snap>>
      BY <3>4
    <3> QED
      BY <1>4, <3>1, <3>2, <3>3, <3>4
         DEF GuardStep, GuardWake, GuardSkip, GuardHit, GuardForecast, GuardLeave, GuardTrail,
             GuardRefused, GuardSleep
  <2>4. \A s \in Symbols, i \in Ids : Remembered(s, i)' => Remembered(s, i)
    BY <1>n, <2>1, <2>2, <2>3 DEF Remembered
  <2> QED BY <2>1, <2>4, OwnersKept
<1>5. CASE BreakerStep
  <2>1. opens' = opens /\ UNCHANGED <<pos, guard>>
    BY <1>5 DEF BreakerStep, TightenStart, Tighten, TightenPersist, TightenDone
  <2>2. \A s \in Symbols, i \in Ids :
          (\/ breaker'.sym = s /\ breaker'.id = i
           \/ <<s, i>> \in breaker'.todo)
            => Remembered(s, i)
    <3>1. CASE TightenStart
      <4>1. /\ breaker'.sym = breaker.sym /\ breaker'.id = breaker.id
            /\ breaker'.todo = {<<s, pos[s]>> : s \in {q \in Symbols : pos[q] # None}}
        BY <3>1 DEF TightenStart, TypeOK, Tightening
      <4> QED BY <4>1 DEF Remembered
    <3>2. ASSUME NEW e \in breaker.todo, Tighten(e),
                 NEW s \in Symbols, NEW i \in Ids,
                 (breaker'.sym = s /\ breaker'.id = i) \/ <<s, i>> \in breaker'.todo
          PROVE  Remembered(s, i)
      <4>1. /\ breaker'.sym = e[1] /\ breaker'.id = e[2] /\ breaker'.todo \subseteq breaker.todo
            /\ e = <<e[1], e[2]>>
        BY <3>2 DEF Tighten, TypeOK, Tightening
      <4> QED BY <3>2, <4>1 DEF Remembered
    <3>3. CASE TightenPersist
      <4>1. breaker'.sym = NoSymbol /\ breaker'.todo = breaker.todo
        BY <3>3 DEF TightenPersist, TypeOK, Tightening
      <4> QED BY <1>n, <4>1 DEF Remembered
    <3>4. CASE TightenDone
      BY <1>n, <3>4 DEF TightenDone
    <3> QED BY <1>5, <3>1, <3>2, <3>3, <3>4 DEF BreakerStep
  <2>3. \A s \in Symbols : snap'[s].id = snap[s].id
    <3>1. CASE TightenPersist
      <4>1. breaker.sym \in Symbols /\ breaker.val \in Nat
        BY <3>1, Fields DEF TightenPersist, AtWork
      <4> QED BY <3>1, <4>1, StoreKeepsIds DEF TightenPersist
    <3>2. CASE UNCHANGED snap
      BY <3>2
    <3> QED BY <1>5, <3>1, <3>2 DEF BreakerStep, TightenStart, Tighten, TightenDone
  <2>4. \A s \in Symbols, i \in Ids : Remembered(s, i)' => Remembered(s, i)
    BY <2>1, <2>2, <2>3 DEF Remembered
  <2> QED BY <2>1, <2>4, OwnersKept
<1>6. CASE CrashAndRestart
  <2>1. /\ \A s \in Symbols : pos'[s] = snap[s].id
        /\ guard' = Asleep /\ breaker' = Idle /\ snap' = snap /\ opens' = opens
    BY <1>6 DEF CrashAndRestart
  <2>2. \A s \in Symbols, i \in Ids : Remembered(s, i)' => Remembered(s, i)
    BY <1>n, <2>1 DEF Remembered
  <2> QED BY <2>1, <2>2, OwnersKept
<1>7. CASE UNCHANGED vars
  BY <1>1, <1>7 DEF vars
<1> QED BY <1>2, <1>3, <1>4, <1>5, <1>6, <1>7 DEF Next

----------------------------------------------------------------------------
(* What the locks protect *)

\* Whoever changes a symbol's lock, position or row keeps what its holder relies on.
LEMMA LockStep ==
  ASSUME TypeOK, AtWork, LocksHold, [Next]_vars
  PROVE  LocksHold'
<1> DEFINE L(s) ==
      /\ lock[s] \in {"free", "pay", "reduce"} => snap[s].id = pos[s]
      /\ lock[s] \in {"close", "guard"} => pos[s] = None
      /\ lock[s] \in {"open", "pay", "reduce"} => pos[s] # None
    C == guard.step = "closing" => lock[guard.sym] = "guard"
<1> USE DEF objects, bounds
<1>1. LocksHold <=> (\A s \in Symbols : L(s)) /\ C
  BY DEF LocksHold
<1>2. LocksHold' <=> (\A s \in Symbols : L(s)') /\ C'
  BY DEF LocksHold
<1>n. /\ NoRow.id = None /\ None \notin Ids
      /\ Scanning.step = "scan" /\ Asleep.step = "sleep"
  BY ScanningType DEF NoRow, None, Ids, Asleep
<1>3. ASSUME \A s \in Symbols : snap'[s].id = snap[s].id, UNCHANGED <<pos, lock>>,
             guard'.step # "closing" \/ UNCHANGED guard
      PROVE  LocksHold'
  BY <1>1, <1>2, <1>3
<1>4. ASSUME NEW s \in Symbols, UNCHANGED guard,
             \A q \in Symbols \ {s} : UNCHANGED <<pos[q], snap[q], lock[q]>>,
             lock[s] # "guard", L(s)'
      PROVE  LocksHold'
  <2>1. C => (guard.step = "closing" => guard.sym # s /\ guard.sym \in Symbols)
    BY <1>4 DEF AtWork
  <2> QED BY <1>1, <1>2, <1>4, <2>1
<1>5. ASSUME NEW s \in Symbols,
             \/ \E p \in Prices : Move(s, p)
             \/ \E sd \in {"long", "short"}, w \in Widths : OpenMemory(s, sd, w)
             \/ CloseMemory(s) \/ Reduce(s) \/ Committing(s)
      PROVE  LocksHold'
  <2>1. ASSUME NEW p \in Prices, Move(s, p) PROVE LocksHold'
    BY <1>3, <2>1 DEF Move
  <2>2. ASSUME NEW sd \in {"long", "short"}, NEW w \in Widths, OpenMemory(s, sd, w)
        PROVE  LocksHold'
    <3>1. opens + 1 # None
      BY <2>2 DEF TypeOK, None
    <3> QED BY <1>4, <2>2, <3>1 DEF OpenMemory, TypeOK
  <2>3. CASE OpenCommit(s)
    <3>1. pos[s] # None
      BY <2>3 DEF OpenCommit, LocksHold
    <3> QED BY <1>4, <2>3, <3>1, SnapshotType DEF OpenCommit, TypeOK
  <2>4. CASE OpenPaid(s)
    BY <1>1, <1>4, <2>4 DEF OpenPaid, TypeOK
  <2>5. CASE OpenUndo(s)
    BY <1>4, <1>n, <2>5 DEF OpenUndo, TypeOK
  <2>6. CASE CloseMemory(s)
    BY <1>4, <2>6 DEF CloseMemory, TypeOK
  <2>7. CASE CloseCommit(s)
    BY <1>1, <1>4, <1>n, <2>7 DEF CloseCommit, Flat, TypeOK
  <2>8. CASE Reduce(s)
    BY <1>1, <1>4, <2>8 DEF Reduce, TypeOK
  <2>9. CASE ReduceCommit(s)
    <3>1. pos[s] # None
      BY <2>9 DEF ReduceCommit, LocksHold
    <3> QED BY <1>4, <2>9, <3>1, SnapshotType DEF ReduceCommit, TypeOK
  <2> QED BY <1>5, <2>1, <2>2, <2>3, <2>4, <2>5, <2>6, <2>7, <2>8, <2>9 DEF Committing
<1>6. CASE GuardStep
  <2>1. CASE GuardPersist
    <3>1. guard.sym \in Symbols /\ guard.val \in Nat
      BY <2>1, Fields DEF GuardPersist, AtWork
    <3>2. \A s \in Symbols : snap'[s].id = snap[s].id
      BY <2>1, <3>1, StoreKeepsIds DEF GuardPersist
    <3> QED BY <1>3, <1>n, <2>1, <3>2 DEF GuardPersist
  <2>2. CASE GuardClose
    <3>1. guard.sym \in Symbols /\ guard'.sym = guard.sym
      BY <2>2 DEF GuardClose, AtWork, TypeOK, Guard
    <3>2. /\ \A q \in Symbols \ {guard.sym} : UNCHANGED <<pos[q], snap[q], lock[q]>>
          /\ pos'[guard.sym] = None /\ lock'[guard.sym] = "guard"
      BY <2>2, <3>1 DEF GuardClose, TypeOK
    <3> QED BY <1>1, <1>2, <3>1, <3>2
  <2>3. CASE GuardCommit
    <3>1. guard.sym \in Symbols
      BY <2>3 DEF GuardCommit, AtWork
    <3>2. pos[guard.sym] = None
      BY <2>3, <3>1 DEF GuardCommit, LocksHold
    <3>3. /\ \A q \in Symbols \ {guard.sym} : UNCHANGED <<pos[q], snap[q], lock[q]>>
          /\ pos'[guard.sym] = None /\ lock'[guard.sym] = "free"
          /\ snap'[guard.sym].id = None /\ guard'.step = "scan"
      BY <1>n, <2>3, <3>1, <3>2 DEF GuardCommit, Flat, TypeOK
    <3> QED BY <1>1, <1>2, <3>1, <3>3
  <2>4. ASSUME guard'.step # "closing", UNCHANGED <<pos, snap, lock>> PROVE LocksHold'
    BY <1>3, <2>4
  <2>5. CASE GuardWake
    <3>1. guard'.step = "scan"
      BY <2>5 DEF GuardWake, TypeOK, Guard
    <3> QED BY <2>4, <2>5, <3>1 DEF GuardWake
  <2>6. ASSUME NEW s \in Symbols, GuardSkip(s) PROVE LocksHold'
    <3>1. guard'.step = "scan"
      BY <2>6 DEF GuardSkip, Upcoming, TypeOK, Guard
    <3> QED BY <2>4, <2>6, <3>1 DEF GuardSkip
  <2>7. ASSUME NEW s \in Symbols, GuardHit(s) PROVE LocksHold'
    <3>1. guard'.step = "close"
      BY <2>7 DEF GuardHit, TypeOK, Guard
    <3> QED BY <2>4, <2>7, <3>1 DEF GuardHit
  <2>8. ASSUME NEW s \in Symbols, GuardForecast(s) PROVE LocksHold'
    <3>1. guard'.step = "vol"
      BY <2>8 DEF GuardForecast, TypeOK, Guard
    <3> QED BY <2>4, <2>8, <3>1 DEF GuardForecast
  <2>9. ASSUME NEW d \in Distances, GuardTrail(d) PROVE LocksHold'
    <3>1. guard'.step = "persist"
      BY <2>9 DEF GuardTrail, TypeOK, Guard
    <3> QED BY <2>4, <2>9, <3>1 DEF GuardTrail
  <2>10. ASSUME NEW d \in Distances, GuardLeave(d) PROVE LocksHold'
    BY <1>n, <2>4, <2>10 DEF GuardLeave
  <2>11. CASE GuardRefused \/ GuardSleep
    BY <1>n, <2>4, <2>11 DEF GuardRefused, GuardSleep
  <2> QED
    BY <1>6, <2>1, <2>2, <2>3, <2>5, <2>6, <2>7, <2>8, <2>9, <2>10, <2>11 DEF GuardStep
<1>7. CASE BreakerStep
  <2>1. CASE TightenPersist
    <3>1. breaker.sym \in Symbols /\ breaker.val \in Nat
      BY <2>1, Fields DEF TightenPersist, AtWork
    <3>2. \A s \in Symbols : snap'[s].id = snap[s].id
      BY <2>1, <3>1, StoreKeepsIds DEF TightenPersist
    <3> QED BY <1>3, <2>1, <3>2 DEF TightenPersist
  <2>2. CASE UNCHANGED <<pos, snap, lock, guard>>
    BY <1>3, <2>2
  <2> QED BY <1>7, <2>1, <2>2 DEF BreakerStep, TightenStart, Tighten, TightenDone
<1>8. CASE CrashAndRestart
  <2>1. \A s \in Symbols : pos'[s] = snap[s].id /\ lock'[s] = "free" /\ snap'[s] = snap[s]
    BY <1>8 DEF CrashAndRestart
  <2>2. guard'.step = "sleep"
    BY <1>n, <1>8 DEF CrashAndRestart
  <2> QED BY <1>2, <2>1, <2>2
<1>9. CASE UNCHANGED vars
  BY <1>3, <1>9 DEF vars
<1> QED BY <1>5, <1>6, <1>7, <1>8, <1>9 DEF Next

----------------------------------------------------------------------------
(* Stops on their way to the row *)

\* A symbol misses a stop for longer when a stop is on its way to its row.
LEMMA HealKeeps ==
  ASSUME NEW s \in Symbols, Heal(s), NEW q \in Symbols, q \notin missed', q \in missed
  PROVE  q = s /\ ~Storing(q)
BY DEF Heal

\* One task's position is not the other's, unless they share the symbol.
LEMMA TwoTasks ==
  ASSUME OneOwner, NEW s \in Symbols, NEW q \in Symbols, NEW i \in Ids, NEW j \in Ids,
         s # q, Remembered(s, i), Remembered(q, j)
  PROVE  i # j
BY DEF OneOwner

LEMMA StoresStep ==
  ASSUME TypeOK, AtWork, OneOwner, Stores, [Next]_vars
  PROVE  Stores'
<1> USE DEF objects, bounds
<1>n. Scanning.step = "scan" /\ Asleep.step = "sleep" /\ Idle.step = "idle"
  BY ScanningType DEF Asleep, Idle
<1>g. guard.step = "persist" =>
        guard.sym \in Symbols /\ guard.id \in Ids /\ Remembered(guard.sym, guard.id)
  BY DEF AtWork, Remembered
<1>b. breaker.step = "persist" =>
        breaker.sym \in Symbols /\ breaker.id \in Ids /\ Remembered(breaker.sym, breaker.id)
  BY DEF AtWork, Remembered
<1>1. ASSUME UNCHANGED <<guard, breaker>>,
             guard.step = "persist" => stop'[guard.id] = stop[guard.id],
             breaker.step = "persist" => stop'[breaker.id] = stop[breaker.id],
             missed' = missed \/ \E s \in Symbols : Heal(s)
      PROVE  Stores'
  <2>1. \A q \in Symbols : q \notin missed' /\ Storing(q) => q \notin missed
    BY <1>1, HealKeeps
  <2>2. guard.step = "persist" /\ guard.sym \notin missed' => guard.sym \notin missed
    BY <1>g, <2>1 DEF Storing
  <2>3. breaker.step = "persist" /\ breaker.sym \notin missed' => breaker.sym \notin missed
    BY <1>b, <2>1 DEF Storing
  <2> QED BY <1>1, <2>2, <2>3 DEF Stores, StoresWhatHolds
<1>2. ASSUME UNCHANGED <<breaker, stop>>, guard.step # "persist", guard'.step # "persist",
             missed' = missed \/ \E s \in Symbols : Heal(s)
      PROVE  Stores'
  <2>1. \A q \in Symbols : q \notin missed' /\ Storing(q) => q \notin missed
    BY <1>2, HealKeeps
  <2>2. breaker.step = "persist" /\ breaker.sym \notin missed' => breaker.sym \notin missed
    BY <1>b, <2>1 DEF Storing
  <2> QED BY <1>2, <2>2 DEF Stores, StoresWhatHolds
<1>3. ASSUME NEW s \in Symbols,
             \/ \E p \in Prices : Move(s, p)
             \/ CloseMemory(s) \/ Reduce(s) \/ Committing(s)
      PROVE  Stores'
  <2>1. UNCHANGED <<guard, breaker, stop>> /\ (missed' = missed \/ Heal(s))
    BY <1>3 DEF Move, CloseMemory, Reduce, Committing, OpenCommit, OpenPaid, OpenUndo,
                CloseCommit, ReduceCommit, Flat
  <2> QED BY <1>1, <2>1
<1>4. ASSUME NEW s \in Symbols, NEW sd \in {"long", "short"}, NEW w \in Widths,
             OpenMemory(s, sd, w)
      PROVE  Stores'
  <2>1. UNCHANGED <<guard, breaker, missed>>
    BY <1>4 DEF OpenMemory
  <2>2. \A i \in Ids : i # opens + 1 => stop'[i] = stop[i]
    BY <1>4 DEF OpenMemory, TypeOK
  <2>3. \A i \in Ids : i <= opens => i # opens + 1
    BY DEF TypeOK, Ids
  <2>4. /\ guard.step = "persist" => guard.id # opens + 1
        /\ breaker.step = "persist" => breaker.id # opens + 1
    BY <1>g, <1>b, <2>3 DEF OneOwner
  <2> QED BY <1>1, <1>g, <1>b, <2>1, <2>2, <2>4
<1>5. ASSUME NEW d \in Distances, GuardTrail(d) PROVE Stores'
  <2> DEFINE x == NewStop(guard.id, guard.price, d)
  <2>1. /\ guard.step = "vol" /\ stop' = [stop EXCEPT ![guard.id] = x]
        /\ guard' = [guard EXCEPT !.step = "persist", !.val = x]
        /\ UNCHANGED <<breaker, missed>>
    BY <1>5 DEF GuardTrail
  <2> HIDE DEF x
  <2>2. guard.id \in Ids /\ guard.sym \in Symbols /\ Remembered(guard.sym, guard.id)
    BY <2>1 DEF AtWork, Remembered
  <2>3. guard'.id = guard.id /\ guard'.sym = guard.sym /\ guard'.val = x /\ guard'.step = "persist"
    BY <2>1 DEF TypeOK, Guard
  <2>4. stop'[guard.id] = x
    BY <2>1, <2>2 DEF TypeOK
  <2>5. breaker.step = "persist" /\ breaker.sym # guard.sym => stop'[breaker.id] = stop[breaker.id]
    BY <1>b, <2>1, <2>2, TwoTasks DEF TypeOK
  <2> QED BY <2>1, <2>3, <2>4, <2>5 DEF Stores, StoresWhatHolds
<1>6. CASE GuardPersist
  <2>1. /\ UNCHANGED <<breaker, stop>> /\ guard' = Scanning /\ missed \subseteq missed'
        /\ breaker.step = "persist" /\ breaker.sym = guard.sym => guard.sym \in missed'
    BY <1>6 DEF GuardPersist, Store
  <2> QED BY <1>n, <2>1 DEF Stores, StoresWhatHolds
<1>7. ASSUME GuardStep, ~GuardPersist, \A d \in Distances : ~GuardTrail(d) PROVE Stores'
  <2>1. CASE GuardWake
    <3>1. guard'.step = "scan"
      BY <2>1 DEF GuardWake, TypeOK, Guard
    <3> QED BY <1>2, <2>1, <3>1 DEF GuardWake
  <2>2. ASSUME NEW s \in Symbols, GuardSkip(s) PROVE Stores'
    <3>1. guard'.step = "scan" /\ guard.step = "scan"
      BY <2>2 DEF GuardSkip, Upcoming, TypeOK, Guard
    <3> QED BY <1>2, <2>2, <3>1 DEF GuardSkip
  <2>3. ASSUME NEW s \in Symbols, GuardHit(s) PROVE Stores'
    <3>1. guard'.step = "close" /\ guard.step = "scan"
      BY <2>3 DEF GuardHit, Upcoming, TypeOK, Guard
    <3> QED BY <1>2, <2>3, <3>1 DEF GuardHit
  <2>4. ASSUME NEW s \in Symbols, GuardForecast(s) PROVE Stores'
    <3>1. guard'.step = "vol" /\ guard.step = "scan"
      BY <2>4 DEF GuardForecast, Upcoming, TypeOK, Guard
    <3> QED BY <1>2, <2>4, <3>1 DEF GuardForecast
  <2>5. CASE GuardClose
    <3>1. guard'.step = "closing" /\ guard.step = "close"
      BY <2>5 DEF GuardClose, TypeOK, Guard
    <3> QED BY <1>2, <2>5, <3>1 DEF GuardClose
  <2>6. CASE GuardCommit
    <3>1. guard.sym \in Symbols
      BY <2>6 DEF GuardCommit, AtWork
    <3> QED BY <1>2, <1>n, <2>6, <3>1 DEF GuardCommit, Flat
  <2>7. CASE GuardRefused
    BY <1>2, <1>n, <2>7 DEF GuardRefused
  <2>8. CASE GuardSleep
    BY <1>2, <1>n, <2>8 DEF GuardSleep
  <2>9. ASSUME NEW d \in Distances, GuardLeave(d) PROVE Stores'
    BY <1>2, <1>n, <2>9 DEF GuardLeave
  <2> QED BY <1>7, <2>1, <2>2, <2>3, <2>4, <2>5, <2>6, <2>7, <2>8, <2>9 DEF GuardStep
<1>8. ASSUME NEW e \in breaker.todo, Tighten(e) PROVE Stores'
  <2> DEFINE x == Behind(IF price[e[1]] = None THEN Entry ELSE price[e[1]], 2, side[e[2]])
  <2>1. /\ breaker.step = "tighten" /\ stop' = [stop EXCEPT ![e[2]] = x]
        /\ breaker' = [breaker EXCEPT !.step = "persist", !.todo = @ \ {e}, !.sym = e[1],
                                      !.id = e[2], !.val = x]
        /\ UNCHANGED <<guard, missed>>
    BY <1>8 DEF Tighten
  <2> HIDE DEF x
  <2>2. e[1] \in Symbols /\ e[2] \in Ids /\ e = <<e[1], e[2]>>
    BY Fields
  <2>3. Remembered(e[1], e[2])
    BY <2>2 DEF Remembered
  <2>4. /\ breaker'.id = e[2] /\ breaker'.sym = e[1] /\ breaker'.val = x
        /\ breaker'.step = "persist"
    BY <2>1 DEF TypeOK, Tightening
  <2>5. stop'[e[2]] = x
    BY <2>1, <2>2 DEF TypeOK
  <2>6. guard.step = "persist" /\ guard.sym # e[1] => stop'[guard.id] = stop[guard.id]
    BY <1>g, <2>1, <2>2, <2>3, TwoTasks DEF TypeOK
  <2> QED BY <2>1, <2>4, <2>5, <2>6 DEF Stores, StoresWhatHolds
<1>9. CASE TightenPersist
  <2>1. /\ UNCHANGED <<guard, stop>> /\ missed \subseteq missed'
        /\ guard.step = "persist" /\ guard.sym = breaker.sym => breaker.sym \in missed'
    BY <1>9 DEF TightenPersist, Store
  <2>2. breaker'.step = "tighten"
    BY <1>9 DEF TightenPersist, TypeOK, Tightening
  <2> QED BY <2>1, <2>2 DEF Stores, StoresWhatHolds
<1>10. CASE TightenStart \/ TightenDone
  <2>1. breaker.step # "persist" /\ breaker'.step # "persist"
    BY <1>n, <1>10 DEF TightenStart, TightenDone, TypeOK, Tightening
  <2>2. UNCHANGED <<guard, stop, missed>>
    BY <1>10 DEF TightenStart, TightenDone
  <2> QED BY <2>1, <2>2 DEF Stores, StoresWhatHolds
<1>11. CASE CrashAndRestart
  BY <1>n, <1>11 DEF CrashAndRestart, Stores, StoresWhatHolds
<1>12. CASE UNCHANGED vars
  BY <1>1, <1>12 DEF vars
<1> QED
  BY <1>3, <1>4, <1>5, <1>6, <1>7, <1>8, <1>9, <1>10, <1>11, <1>12 DEF Next, BreakerStep

----------------------------------------------------------------------------
(* Rows follow positions *)

FollowsAt(s) ==
  lock[s] \in {"free", "pay"} /\ ~Storing(s) /\ s \notin missed => snap[s] = InMemory(s)

\* A step that concerns neither s nor its position.
LEMMA FollowsKept ==
  ASSUME NEW s \in Symbols, FollowsAt(s), UNCHANGED <<pos[s], snap[s]>>,
         pos[s] # None => stop'[pos[s]] = stop[pos[s]],
         lock'[s] \in {"free", "pay"} => lock[s] \in {"free", "pay"},
         Storing(s) => Storing(s)',
         s \in missed => s \in missed' \/ Storing(s)'
  PROVE  FollowsAt(s)'
BY DEF FollowsAt, InMemory, Snapshot

\* Storing(s) is about the two tasks only.
LEMMA StoringKept ==
  ASSUME NEW s \in Symbols, UNCHANGED breaker,
         guard.step # "persist", guard'.step # "persist"
  PROVE  Storing(s)' <=> Storing(s)
BY DEF Storing

\* The row that a stop was stored in, with nobody else storing.
LEMMA Stored ==
  ASSUME TypeOK, LocksHold, NEW t, NEW other, NEW s \in Symbols, t.sym = s,
         Store(t, other), StoresWhatHolds(t, other), t.step = "persist",
         UNCHANGED <<pos, stop, lock>>, lock[s] \in {"free", "pay"},
         ~(other.step = "persist" /\ other.sym = s), s \notin missed'
  PROVE  snap'[s] = InMemory(s)'
<1>1. /\ snap' = [snap EXCEPT ![s].stop = IF snap[s].id = None THEN None ELSE t.val]
      /\ snap[s].id \in {None, t.id} /\ s \notin missed
  BY DEF Store
<1>2. snap[s].id = pos[s]
  BY DEF LocksHold
<1>3. stop[t.id] = t.val
  BY <1>1 DEF StoresWhatHolds
<1>4. snap'[s] = [snap[s] EXCEPT !.stop = IF snap[s].id = None THEN None ELSE t.val]
  BY <1>1 DEF TypeOK
<1>5. snap[s] = NoRow \/ snap[s] \in [id : Ids, stop : Nat]
  BY DEF TypeOK, Row
<1>6. CASE snap[s] = NoRow
  <2>1. pos[s] = None
    BY <1>2, <1>6 DEF NoRow
  <2>2. snap'[s] = NoRow
    BY <1>4, <1>6 DEF NoRow, None
  <2> QED BY <2>1, <2>2 DEF InMemory
<1>7. CASE snap[s] \in [id : Ids, stop : Nat]
  <2>1. snap[s].id # None /\ pos[s] # None /\ t.id = pos[s]
    BY <1>1, <1>2, <1>7 DEF Ids, None
  <2>2. snap'[s] = [id |-> snap[s].id, stop |-> t.val]
    BY <1>4, <1>7, <2>1
  <2> QED BY <1>2, <1>3, <2>1, <2>2 DEF InMemory, Snapshot
<1> QED BY <1>5, <1>6, <1>7

LEMMA FollowStep ==
  ASSUME TypeOK, AtWork, OneOwner, LocksHold, Stores, RowFollows, [Next]_vars,
         NEW q \in Symbols
  PROVE  FollowsAt(q)'
<1> USE DEF objects, bounds
<1>f. FollowsAt(q)
  BY DEF RowFollows, FollowsAt
<1>n. Scanning.step = "scan" /\ Asleep.step = "sleep" /\ Idle.step = "idle"
  BY ScanningType DEF Asleep, Idle
<1>p. pos[q] # None => pos[q] \in Ids /\ Remembered(q, pos[q])
  BY DEF TypeOK, Remembered
<1>0. ASSUME UNCHANGED <<pos[q], snap[q], stop, guard, breaker>>,
             lock'[q] \in {"free", "pay"} => lock[q] \in {"free", "pay"},
             missed' = missed \/ \E s \in Symbols \ {q} : Heal(s)
      PROVE  FollowsAt(q)'
  <2>1. q \in missed => q \in missed'
    BY <1>0 DEF Heal
  <2> QED BY <1>f, <1>0, <2>1, FollowsKept DEF Storing
<1>1. ASSUME NEW s \in Symbols,
             \/ \E p \in Prices : Move(s, p)
             \/ CloseMemory(s) \/ Reduce(s) \/ Committing(s)
      PROVE  FollowsAt(q)'
  <2>1. CASE s # q
    <3>1. /\ UNCHANGED <<pos[q], snap[q], stop, guard, breaker, lock[q]>>
          /\ missed' = missed \/ Heal(s)
      BY <1>1, <2>1
         DEF Move, CloseMemory, Reduce, Committing, OpenCommit, OpenPaid, OpenUndo,
             CloseCommit, ReduceCommit, Flat, TypeOK
    <3> QED BY <1>0, <2>1, <3>1
  <2>2. ASSUME s = q, NEW p \in Prices, Move(s, p) PROVE FollowsAt(q)'
    BY <1>0, <2>2 DEF Move
  <2>3. CASE s = q /\ (OpenCommit(s) \/ ReduceCommit(s))
    <3>1. pos[s] # None
      BY <2>3 DEF OpenCommit, ReduceCommit, LocksHold
    <3>2. snap'[s] = Snapshot(s) /\ UNCHANGED <<pos, stop>>
      BY <2>3 DEF OpenCommit, ReduceCommit, TypeOK
    <3> QED BY <2>3, <3>1, <3>2 DEF FollowsAt, InMemory, Snapshot
  <2>4. CASE s = q /\ OpenPaid(s)
    BY <1>0, <2>4 DEF OpenPaid
  <2>5. CASE s = q /\ OpenUndo(s)
    <3>1. snap'[s] = NoRow /\ pos'[s] = None
      BY <2>5 DEF OpenUndo, TypeOK
    <3> QED BY <2>5, <3>1 DEF FollowsAt, InMemory
  <2>6. CASE s = q /\ (CloseMemory(s) \/ Reduce(s))
    <3>1. lock'[s] \in {"close", "reduce"}
      BY <2>6 DEF CloseMemory, Reduce, TypeOK
    <3> QED BY <2>6, <3>1 DEF FollowsAt
  <2>7. CASE s = q /\ CloseCommit(s)
    <3>1. snap'[s] = NoRow /\ pos'[s] = None
      BY <2>7 DEF CloseCommit, Flat, TypeOK, LocksHold
    <3> QED BY <2>7, <3>1 DEF FollowsAt, InMemory
  <2> QED BY <1>1, <2>1, <2>2, <2>3, <2>4, <2>5, <2>6, <2>7 DEF Committing
<1>2. ASSUME NEW s \in Symbols, NEW sd \in {"long", "short"}, NEW w \in Widths,
             OpenMemory(s, sd, w)
      PROVE  FollowsAt(q)'
  <2>1. CASE s = q
    <3>1. lock'[q] = "open"
      BY <1>2, <2>1 DEF OpenMemory, TypeOK
    <3> QED BY <3>1 DEF FollowsAt
  <2>2. CASE s # q
    <3>1. /\ UNCHANGED <<pos[q], snap[q], guard, breaker, lock[q], missed>>
          /\ \A i \in Ids : i # opens + 1 => stop'[i] = stop[i]
      BY <1>2, <2>2 DEF OpenMemory, TypeOK
    <3>2. pos[q] # None => pos[q] <= opens
      BY <1>p DEF OneOwner
    <3>3. pos[q] # None => pos[q] # opens + 1
      BY <1>p, <3>2 DEF TypeOK, Ids
    <3> QED BY <1>f, <1>p, <3>1, <3>3, FollowsKept DEF Storing
  <2> QED BY <2>1, <2>2
<1>3. ASSUME UNCHANGED <<pos, snap, stop, lock, missed, breaker>>,
             guard.step # "persist", guard'.step # "persist"
      PROVE  FollowsAt(q)'
  BY <1>f, <1>3, FollowsKept, StoringKept
<1>4. CASE GuardWake
  <2>1. guard'.step = "scan"
    BY <1>4 DEF GuardWake, TypeOK, Guard
  <2> QED BY <1>3, <1>4, <2>1 DEF GuardWake
<1>5. ASSUME NEW s \in Symbols, GuardSkip(s) \/ GuardHit(s) \/ GuardForecast(s)
      PROVE  FollowsAt(q)'
  <2>1. guard'.step \in {"scan", "close", "vol"} /\ guard.step = "scan"
    BY <1>5 DEF GuardSkip, GuardHit, GuardForecast, Upcoming, TypeOK, Guard
  <2> QED BY <1>3, <1>5, <2>1 DEF GuardSkip, GuardHit, GuardForecast
<1>6. ASSUME NEW d \in Distances, GuardLeave(d) PROVE FollowsAt(q)'
  BY <1>3, <1>n, <1>6 DEF GuardLeave
<1>7. ASSUME NEW d \in Distances, GuardTrail(d) PROVE FollowsAt(q)'
  <2> DEFINE x == NewStop(guard.id, guard.price, d)
  <2>1. /\ guard.step = "vol" /\ stop' = [stop EXCEPT ![guard.id] = x]
        /\ guard' = [guard EXCEPT !.step = "persist", !.val = x]
        /\ UNCHANGED <<breaker, missed, pos, snap, lock>>
    BY <1>7 DEF GuardTrail
  <2> HIDE DEF x
  <2>2. guard.id \in Ids /\ guard.sym \in Symbols /\ Remembered(guard.sym, guard.id)
    BY <2>1 DEF AtWork, Remembered
  <2>3. guard'.sym = guard.sym /\ guard'.step = "persist"
    BY <2>1 DEF TypeOK, Guard
  <2>4. CASE q = guard.sym
    BY <2>3, <2>4 DEF FollowsAt, Storing
  <2>5. CASE q # guard.sym
    <3>1. pos[q] # None => stop'[pos[q]] = stop[pos[q]]
      BY <1>p, <2>1, <2>2, <2>5, TwoTasks DEF TypeOK
    <3>2. Storing(q) => Storing(q)'
      BY <2>1 DEF Storing
    <3> QED BY <1>f, <2>1, <3>1, <3>2, FollowsKept
  <2> QED BY <2>4, <2>5
<1>8. CASE GuardPersist
  <2>1. /\ guard.step = "persist" /\ Store(guard, breaker)
        /\ guard'.step = "scan" /\ UNCHANGED <<pos, stop, lock, breaker>>
    BY <1>8, <1>n DEF GuardPersist
  <2>2. CASE q = guard.sym
    BY <2>1, <2>2, Stored DEF FollowsAt, Storing, Stores
  <2>3. CASE q # guard.sym
    <3>1. snap'[q] = snap[q] /\ (q \in missed => q \in missed')
      BY <2>1, <2>3 DEF Store, TypeOK
    <3>2. Storing(q) => Storing(q)'
      BY <2>1, <2>3 DEF Storing
    <3> QED BY <1>f, <2>1, <3>1, <3>2, FollowsKept
  <2> QED BY <2>2, <2>3
<1>9. CASE GuardClose
  <2>1. guard.sym \in Symbols /\ guard.step = "close" /\ guard'.step = "closing"
    BY <1>9 DEF GuardClose, AtWork, TypeOK, Guard
  <2>2. CASE q = guard.sym
    <3>1. lock'[q] = "guard"
      BY <1>9, <2>1, <2>2 DEF GuardClose, TypeOK
    <3> QED BY <3>1 DEF FollowsAt
  <2>3. CASE q # guard.sym
    <3>1. UNCHANGED <<pos[q], lock[q], snap, stop, missed, breaker>>
      BY <1>9, <2>1, <2>3 DEF GuardClose, TypeOK
    <3> QED BY <1>f, <2>1, <3>1, FollowsKept, StoringKept
  <2> QED BY <2>2, <2>3
<1>10. CASE GuardCommit
  <2>1. guard.sym \in Symbols /\ guard.step = "closing" /\ guard'.step = "scan"
    BY <1>10, <1>n DEF GuardCommit, AtWork
  <2>2. UNCHANGED <<pos, stop, breaker>>
    BY <1>10 DEF GuardCommit
  <2>3. CASE q = guard.sym
    <3>1. snap'[q] = NoRow /\ pos'[q] = None
      BY <1>10, <2>1, <2>3 DEF GuardCommit, Flat, TypeOK, LocksHold
    <3> QED BY <3>1 DEF FollowsAt, InMemory
  <2>4. CASE q # guard.sym
    <3>1. UNCHANGED <<snap[q], lock[q]>> /\ (q \in missed => q \in missed')
      BY <1>10, <2>1, <2>4 DEF GuardCommit, Flat, Heal, TypeOK
    <3> QED BY <1>f, <2>1, <2>2, <3>1, FollowsKept, StoringKept
  <2> QED BY <2>3, <2>4
<1>11. CASE GuardRefused \/ GuardSleep
  BY <1>3, <1>n, <1>11 DEF GuardRefused, GuardSleep
<1>12. ASSUME NEW e \in breaker.todo, Tighten(e) PROVE FollowsAt(q)'
  <2> DEFINE x == Behind(IF price[e[1]] = None THEN Entry ELSE price[e[1]], 2, side[e[2]])
  <2>1. /\ breaker.step = "tighten" /\ stop' = [stop EXCEPT ![e[2]] = x]
        /\ breaker' = [breaker EXCEPT !.step = "persist", !.todo = @ \ {e}, !.sym = e[1],
                                      !.id = e[2], !.val = x]
        /\ UNCHANGED <<guard, missed, pos, snap, lock>>
    BY <1>12 DEF Tighten
  <2> HIDE DEF x
  <2>2. e[1] \in Symbols /\ e[2] \in Ids /\ e = <<e[1], e[2]>>
    BY Fields
  <2>3. Remembered(e[1], e[2])
    BY <2>2 DEF Remembered
  <2>4. breaker'.sym = e[1] /\ breaker'.step = "persist"
    BY <2>1 DEF TypeOK, Tightening
  <2>5. CASE q = e[1]
    BY <2>4, <2>5 DEF FollowsAt, Storing
  <2>6. CASE q # e[1]
    <3>1. pos[q] # None => stop'[pos[q]] = stop[pos[q]]
      BY <1>p, <2>1, <2>2, <2>3, <2>6, TwoTasks DEF TypeOK
    <3>2. Storing(q) => Storing(q)'
      BY <2>1 DEF Storing
    <3> QED BY <1>f, <2>1, <3>1, <3>2, FollowsKept
  <2> QED BY <2>5, <2>6
<1>13. CASE TightenPersist
  <2>1. /\ breaker.step = "persist" /\ Store(breaker, guard)
        /\ UNCHANGED <<pos, stop, lock, guard>>
    BY <1>13 DEF TightenPersist
  <2>2. breaker'.step = "tighten"
    BY <1>13 DEF TightenPersist, TypeOK, Tightening
  <2>3. CASE q = breaker.sym
    BY <2>1, <2>2, <2>3, Stored DEF FollowsAt, Storing, Stores
  <2>4. CASE q # breaker.sym
    <3>1. snap'[q] = snap[q] /\ (q \in missed => q \in missed')
      BY <2>1, <2>4 DEF Store, TypeOK
    <3>2. Storing(q) => Storing(q)'
      BY <2>1, <2>4 DEF Storing
    <3> QED BY <1>f, <2>1, <3>1, <3>2, FollowsKept
  <2> QED BY <2>3, <2>4
<1>14. CASE TightenStart \/ TightenDone
  <2>1. breaker.step # "persist" /\ breaker'.step # "persist"
    BY <1>n, <1>14 DEF TightenStart, TightenDone, TypeOK, Tightening
  <2>2. UNCHANGED <<guard, stop, missed, pos, snap, lock>>
    BY <1>14 DEF TightenStart, TightenDone
  <2>3. Storing(q) => Storing(q)'
    BY <2>1, <2>2 DEF Storing
  <2> QED BY <1>f, <2>2, <2>3, FollowsKept
<1>15. CASE CrashAndRestart
  <2> DEFINE i == snap[q].id
             c == CHOOSE s \in Symbols : snap[s].id = i
  <2>1. /\ pos'[q] = i /\ snap'[q] = snap[q]
        /\ i \in Ids => stop'[i] = snap[c].stop
    BY <1>15 DEF CrashAndRestart
  <2>2. c \in Symbols /\ snap[c].id = i
    OBVIOUS
  <2>3. i \in Ids => c = q
    <3> HIDE DEF c
    <3> QED BY <2>2 DEF OneOwner, Remembered
  <2>4. snap[q] = NoRow \/ snap[q] \in [id : Ids, stop : Nat]
    BY DEF TypeOK, Row
  <2>5. CASE snap[q] = NoRow
    BY <2>1, <2>5 DEF FollowsAt, InMemory, NoRow
  <2>6. CASE snap[q] \in [id : Ids, stop : Nat]
    <3>0. i \in Ids /\ i # None
      BY <2>6 DEF Ids, None
    <3>1. i \in Ids /\ i # None /\ stop'[i] = snap[q].stop
      <4> HIDE DEF i, c
      <4> QED BY <2>1, <2>3, <3>0
    <3>2. snap[q] = [id |-> i, stop |-> snap[q].stop]
      BY <2>6
    <3>3. InMemory(q)' = [id |-> i, stop |-> stop'[i]]
      BY <2>1, <3>1 DEF InMemory, Snapshot
    <3> QED BY <2>1, <3>1, <3>2, <3>3 DEF FollowsAt
  <2> QED BY <2>4, <2>5, <2>6
<1>16. CASE UNCHANGED vars
  BY <1>0, <1>16 DEF vars
<1> QED
  BY <1>1, <1>2, <1>4, <1>5, <1>6, <1>7, <1>8, <1>9, <1>10, <1>11, <1>12, <1>13, <1>14,
     <1>15, <1>16
     DEF Next, GuardStep, BreakerStep

----------------------------------------------------------------------------
(* The theorems *)

LEMMA InitInv == Init => IInv
<1>1. Init => OneOwner
  BY StopGuardAssumption DEF Init, OneOwner, Remembered, Ids, None, NoRow, Asleep, Idle
<1>2. Init => LocksHold
  BY DEF Init, LocksHold, NoRow, Asleep
<1>3. Init => Stores
  BY DEF Init, Stores, StoresWhatHolds, Asleep, Idle
<1>4. Init => RowFollows
  BY DEF Init, RowFollows, InMemory
<1> QED BY <1>1, <1>2, <1>3, <1>4, InitTyped DEF IInv

\* The invariant is inductive.
LEMMA IInvStep ==
  ASSUME IInv, [Next]_vars
  PROVE  IInv'
<1>1. TypeOK' /\ AtWork' /\ OneOwner' /\ LocksHold' /\ Stores'
  BY TypeStep, OwnerStep, LockStep, StoresStep DEF IInv
<1>2. \A s \in Symbols : FollowsAt(s)'
  BY FollowStep DEF IInv
<1> QED BY <1>1, <1>2 DEF IInv, RowFollows, FollowsAt

THEOREM Inductive == Spec => []IInv
<1>1. Init => IInv
  BY InitInv
<1>2. IInv /\ [Next]_vars => IInv'
  BY IInvStep
<1> QED BY <1>1, <1>2, PTL DEF Spec

\* Positions, stops, rows, locks and the locals of the guard's loop and of a
\* tighten_stops keep their types, whatever they interleave with and wherever
\* the process dies.
THEOREM TypeCorrect == Spec => []TypeOK
<1>1. IInv => TypeOK
  BY DEF IInv
<1> QED BY <1>1, Inductive, PTL

\* Stops in rows: update_stop_loss, _persist_position and restore_positions keep
\* the row of a symbol at rest equal to the position and the stop the guard
\* enforces, unless a write failed, two of them crossed, or one was for a position
\* that is gone.
THEOREM RowsFollow == Spec => []SnapshotFollows
<1>1. IInv => SnapshotFollows
  BY DEF IInv, RowFollows, SnapshotFollows, Settled
<1> QED BY <1>1, Inductive, PTL

\* No position in memory, row or local variable belongs to two symbols: a stop
\* that is stored by symbol never reaches another symbol's row.
THEOREM PositionsHaveOneOwner == Spec => []OneOwner
<1>1. IInv => OneOwner
  BY DEF IInv
<1> QED BY <1>1, Inductive, PTL
=============================================================================
