-------------------------- MODULE SimLedgerProofs --------------------------
(*************************************************************************)
(* TLAPS proofs about SimLedger: its inductive invariant, and with it    *)
(* that no money is created or lost on the way, that memory, snapshot    *)
(* and rows agree, that a close acts on the position its caller saw, and *)
(* that the tasks together implement the atomic account of module        *)
(* Ledger.                                                               *)
(*                                                                       *)
(* The hypothesis RowsNeverFail is needed: when the row of an open       *)
(* cannot be written, a position nobody paid for stays in memory.        *)
(*************************************************************************)
EXTENDS SimLedger, FiniteSetTheorems, TLAPS

(* --- sums (module Sums) --------------------------------------------------- *)
\* The units of a single entry: {x} \X 1..n is finite and has n elements
\* (none when n is not positive).  Used for every row and every debt.
LEMMA EntryUnits ==
  ASSUME NEW x, NEW n \in Int
  PROVE  /\ IsFiniteSet({x} \X (1 .. n))
         /\ Cardinality({x} \X (1 .. n)) = IF n > 0 THEN n ELSE 0
<1>1. /\ IsFiniteSet(1 .. n)
      /\ Cardinality(1 .. n) = IF 1 > n THEN 0 ELSE n - 1 + 1
  BY FS_Interval
<1>2. IsFiniteSet({x}) /\ Cardinality({x}) = 1
  BY FS_Singleton
<1>3. /\ IsFiniteSet({x} \X (1 .. n))
      /\ Cardinality({x} \X (1 .. n)) = 1 * Cardinality(1 .. n)
  BY <1>1, <1>2, FS_Product
<1>4. Cardinality(1 .. n) = IF n > 0 THEN n ELSE 0
  BY <1>1
<1> QED BY <1>3, <1>4

\* A function over a finite domain has finitely many units.
LEMMA UnitsFinite ==
  ASSUME NEW D, IsFiniteSet(D), NEW f \in [D -> Int]
  PROVE  IsFiniteSet(Units(f))
<1> DEFINE entry == [x \in D |-> {x} \X (1 .. f[x])]
           parts == {{x} \X (1 .. f[x]) : x \in D}
<1>1. entry \in Surjection(D, parts)
  BY DEF Surjection
<1>2. IsFiniteSet(parts)
  <2> HIDE DEF entry, parts
  <2> QED BY <1>1, FS_Surjection
<1>3. \A T \in parts : IsFiniteSet(T)
  <2>1. \A x \in D : f[x] \in Int
    OBVIOUS
  <2>2. \A x \in D : IsFiniteSet({x} \X (1 .. f[x]))
    BY <2>1, EntryUnits
  <2> QED BY <2>2
<1>4. IsFiniteSet(UNION parts)
  <2> HIDE DEF parts
  <2> QED BY <1>2, <1>3, FS_UNION
<1> QED BY <1>4 DEF Units

\* Splitting one entry off: the units of f are those of the other entries
\* and those of f[x], and the two sets are disjoint.
LEMMA UnitsSplit ==
  ASSUME NEW D, IsFiniteSet(D), NEW f \in [D -> Int], NEW x \in D
  PROVE  LET rest == UNION {{y} \X (1 .. f[y]) : y \in D \ {x}}
         IN  /\ IsFiniteSet(rest)
             /\ Cardinality(Units(f)) =
                  Cardinality(rest) + (IF f[x] > 0 THEN f[x] ELSE 0)
<1> DEFINE rest == UNION {{y} \X (1 .. f[y]) : y \in D \ {x}}
           own  == {x} \X (1 .. f[x])
<1>1. Units(f) = rest \cup own
  BY DEF Units
<1>2. rest \cap own = {}
  OBVIOUS
<1>3. IsFiniteSet(rest)
  <2>1. IsFiniteSet(Units(f))
    BY UnitsFinite
  <2> HIDE DEF rest, own
  <2> QED BY <1>1, <2>1, FS_Subset
<1>4. /\ IsFiniteSet(own)
      /\ Cardinality(own) = IF f[x] > 0 THEN f[x] ELSE 0
  BY EntryUnits
<1>5. Cardinality(rest) \in Nat /\ Cardinality({}) = 0
  BY <1>3, FS_CardinalityType, FS_EmptySet
<1>6. Cardinality(rest \cup own) =
        Cardinality(rest) + Cardinality(own) - Cardinality(rest \cap own)
  BY <1>3, <1>4, FS_Union
<1> HIDE DEF rest, own
<1>7. Cardinality(Units(f)) =
        Cardinality(rest) + (IF f[x] > 0 THEN f[x] ELSE 0)
  BY <1>1, <1>2, <1>4, <1>5, <1>6
<1> QED BY <1>3, <1>7 DEF rest

\* Updating one entry moves the number of units by the difference of the
\* positive parts.
LEMMA UnitsUpdate ==
  ASSUME NEW D, IsFiniteSet(D), NEW f \in [D -> Int], NEW x \in D, NEW v \in Int
  PROVE  /\ Cardinality(Units(f)) \in Nat
         /\ Cardinality(Units([f EXCEPT ![x] = v])) =
              Cardinality(Units(f)) - (IF f[x] > 0 THEN f[x] ELSE 0)
                                    + (IF v > 0 THEN v ELSE 0)
<1> DEFINE g == [f EXCEPT ![x] = v]
           restf == UNION {{y} \X (1 .. f[y]) : y \in D \ {x}}
           restg == UNION {{y} \X (1 .. g[y]) : y \in D \ {x}}
<1>1. g \in [D -> Int] /\ g[x] = v
  OBVIOUS
<1>2. restg = restf
  OBVIOUS
<1>3. /\ IsFiniteSet(restf)
      /\ Cardinality(Units(f)) =
           Cardinality(restf) + (IF f[x] > 0 THEN f[x] ELSE 0)
  BY UnitsSplit
<1> HIDE DEF g
<1>4. Cardinality(Units(g)) =
        Cardinality(restg) + (IF g[x] > 0 THEN g[x] ELSE 0)
  BY <1>1, UnitsSplit
<1>5. Cardinality(restf) \in Nat /\ Cardinality(Units(f)) \in Nat
  BY <1>3, UnitsFinite, FS_CardinalityType
<1> HIDE DEF restf, restg
<1>6. Cardinality(Units(g)) =
        Cardinality(Units(f)) - (IF f[x] > 0 THEN f[x] ELSE 0)
                              + (IF v > 0 THEN v ELSE 0)
  BY <1>1, <1>2, <1>3, <1>4, <1>5
<1> QED BY <1>5, <1>6 DEF g

\* Total is an integer, and updating one entry moves it by exactly the
\* difference: what every cash movement and every row change relies on.
THEOREM TotalUpdate ==
  ASSUME NEW D, IsFiniteSet(D), NEW f \in [D -> Int], NEW x \in D, NEW v \in Int
  PROVE  /\ Total(f) \in Int
         /\ Total([f EXCEPT ![x] = v]) = Total(f) - f[x] + v
<1> DEFINE g  == [f EXCEPT ![x] = v]
           nf == Neg(f)
           ng == [nf EXCEPT ![x] = 0 - v]
<1>1. nf \in [D -> Int] /\ nf[x] = 0 - f[x]
  BY DEF Neg
<1>2. 0 - v \in Int
  OBVIOUS
<1>3. Neg(g) = ng
  BY DEF Neg
<1>4. /\ Cardinality(Units(f)) \in Nat
      /\ Cardinality(Units(g)) =
           Cardinality(Units(f)) - (IF f[x] > 0 THEN f[x] ELSE 0)
                                 + (IF v > 0 THEN v ELSE 0)
  BY UnitsUpdate
<1> HIDE DEF nf
<1>5. /\ Cardinality(Units(nf)) \in Nat
      /\ Cardinality(Units(ng)) =
           Cardinality(Units(nf)) - (IF nf[x] > 0 THEN nf[x] ELSE 0)
                                  + (IF 0 - v > 0 THEN 0 - v ELSE 0)
  BY <1>1, <1>2, UnitsUpdate
<1> HIDE DEF g, ng
<1>6. Total(f) = Cardinality(Units(f)) - Cardinality(Units(nf))
  BY DEF Total, nf
<1>7. Total(g) = Cardinality(Units(g)) - Cardinality(Units(ng))
  BY <1>3 DEF Total
<1>8. f[x] \in Int
  OBVIOUS
<1>9. Total(f) \in Int /\ Total(g) = Total(f) - f[x] + v
  BY <1>1, <1>4, <1>5, <1>6, <1>7, <1>8
<1> QED BY <1>9 DEF g

THEOREM TotalInteger ==
  ASSUME NEW D, IsFiniteSet(D), NEW f \in [D -> Int]
  PROVE  Total(f) \in Int
<1>1. Neg(f) \in [D -> Int]
  BY DEF Neg
<1>2. Cardinality(Units(f)) \in Nat /\ Cardinality(Units(Neg(f))) \in Nat
  BY <1>1, UnitsFinite, FS_CardinalityType
<1> QED BY <1>2 DEF Total

\* A function that is zero everywhere has total zero: the empty ledger.
THEOREM TotalZero ==
  ASSUME NEW D, NEW f \in [D -> Int], \A x \in D : f[x] = 0
  PROVE  Total(f) = 0
<1>1. Units(f) = {}
  BY DEF Units
<1>2. Units(Neg(f)) = {}
  BY DEF Units, Neg
<1>3. Cardinality({}) = 0
  BY FS_EmptySet
<1> QED BY <1>1, <1>2, <1>3 DEF Total

(* --- the ledger ------------------------------------------------------------ *)
USE SymbolsAssumption, TasksAssumption, AmountsAssumption, BoundsAssumption

\* What the type invariant says of single entries.
LEMMA Types ==
  ASSUME TypeOK
  PROVE  /\ pc \in [Tasks -> Steps] /\ job \in [Tasks -> JobType]
         /\ lock \in [Symbols -> Tasks \cup {NoTask}]
         /\ rev \in [Symbols -> Nat] /\ due \in [Tasks -> Int]
         /\ pos \in [Symbols -> Position] /\ snap \in [Symbols -> Position]
         /\ owner \in [Rows -> Symbols \cup {NoSymbol}]
         /\ basis \in [Rows -> Nat]
         /\ cash \in Int /\ realised \in Int /\ orphaned \in Int
         /\ active \in Int /\ nextRow \in Nat \ {0}
         /\ \A t \in Tasks : /\ job[t].sym \in Symbols \cup {NoSymbol}
                             /\ job[t].row \in Rows \cup {NoRow}
                             /\ job[t].amt \in Nat /\ job[t].back \in Nat
                             /\ job[t].obs \in Nat
         /\ \A s \in Symbols : /\ pos[s].row \in Rows \cup {NoRow}
                               /\ pos[s].amt \in Nat
                               /\ snap[s].row \in Rows \cup {NoRow}
                               /\ snap[s].amt \in Nat
BY DEF TypeOK, JobType, Position

\* The empty records, and the rows, are what they look like.
LEMMA Plain ==
  /\ NoJob \in JobType /\ NoJob.sym = NoSymbol /\ NoJob.back = 0
  /\ NoPosition \in Position /\ NoPosition.row = NoRow /\ NoPosition.amt = 0
  /\ NoRow \notin Rows /\ Rows \subseteq Nat /\ IsFiniteSet(Rows)
<1>1. IsFiniteSet(Rows)
  BY FS_Interval DEF Rows
<1> QED BY <1>1 DEF NoJob, JobType, NoPosition, Position, NoRow, Rows

\* How one entry moves those sums.
LEMMA RowsMove ==
  ASSUME TypeOK, NEW r \in Rows, NEW v \in Int, basis' = [basis EXCEPT ![r] = v]
  PROVE  Total(basis) \in Int /\ Total(basis') = Total(basis) - basis[r] + v
<1>1. basis \in [Rows -> Int] /\ IsFiniteSet(Rows)
  BY Types, Plain
<1>2. Total([basis EXCEPT ![r] = v]) = Total(basis) - basis[r] + v
  BY ONLY <1>1, r \in Rows, v \in Int, TotalUpdate
<1>3. Total(basis) \in Int
  BY ONLY <1>1, TotalInteger
<1>4. basis' = [basis EXCEPT ![r] = v]
  OBVIOUS
<1> QED BY ONLY <1>2, <1>3, <1>4

LEMMA DueMoves ==
  ASSUME TypeOK, NEW t \in Tasks, NEW v \in Int, due' = [due EXCEPT ![t] = v]
  PROVE  Total(due) \in Int /\ Total(due') = Total(due) - due[t] + v
<1>1. due \in [Tasks -> Int] /\ IsFiniteSet(Tasks)
  BY Types
<1>2. Total([due EXCEPT ![t] = v]) = Total(due) - due[t] + v
  BY ONLY <1>1, t \in Tasks, v \in Int, TotalUpdate
<1>3. Total(due) \in Int
  BY ONLY <1>1, TotalInteger
<1>4. due' = [due EXCEPT ![t] = v]
  OBVIOUS
<1> QED BY ONLY <1>2, <1>3, <1>4

LEMMA SumsAreIntegers ==
  ASSUME TypeOK
  PROVE  Total(basis) \in Int /\ Total(due) \in Int
<1>1. /\ basis \in [Rows -> Int] /\ IsFiniteSet(Rows)
      /\ due \in [Tasks -> Int] /\ IsFiniteSet(Tasks)
  BY Types, Plain
<1> QED BY ONLY <1>1, TotalInteger

\* The gate's count when nobody, one more or one task less is inside.
LEMMA SlotSame ==
  ASSUME ActiveOK, active' = active, \A u \in Tasks : InSlot(u)' <=> InSlot(u)
  PROVE  ActiveOK'
<1>1. {u \in Tasks : InSlot(u)'} = {u \in Tasks : InSlot(u)}
  OBVIOUS
<1> QED BY <1>1 DEF ActiveOK

LEMMA SlotEnter ==
  ASSUME ActiveOK, NEW t \in Tasks, ~InSlot(t), InSlot(t)', active' = active + 1,
         \A u \in Tasks \ {t} : InSlot(u)' <=> InSlot(u)
  PROVE  ActiveOK'
<1> DEFINE S == {u \in Tasks : InSlot(u)}
<1>1. {u \in Tasks : InSlot(u)'} = S \cup {t} /\ t \notin S
  OBVIOUS
<1>2. IsFiniteSet(S)
  BY FS_Subset
<1>3. active = Cardinality(S)
  BY DEF ActiveOK
<1>4. Cardinality(S \cup {t}) = Cardinality(S) + 1
  <2> HIDE DEF S
  <2> QED BY <1>1, <1>2, FS_AddElement
<1> HIDE DEF S
<1> QED BY <1>1, <1>3, <1>4 DEF ActiveOK

LEMMA SlotLeave ==
  ASSUME ActiveOK, NEW t \in Tasks, InSlot(t), ~InSlot(t)', active' = active - 1,
         \A u \in Tasks \ {t} : InSlot(u)' <=> InSlot(u)
  PROVE  ActiveOK' /\ active' \in Nat
<1> DEFINE S == {u \in Tasks : InSlot(u)}
<1>1. {u \in Tasks : InSlot(u)'} = S \ {t} /\ t \in S
  OBVIOUS
<1>2. IsFiniteSet(S)
  BY FS_Subset
<1>3. active = Cardinality(S)
  BY DEF ActiveOK
<1>4. /\ Cardinality(S \ {t}) = Cardinality(S) - 1
      /\ Cardinality(S \ {t}) \in Nat
  <2> HIDE DEF S
  <2>1. IsFiniteSet(S \ {t}) /\ Cardinality(S \ {t}) = Cardinality(S) - 1
    BY <1>1, <1>2, FS_RemoveElement
  <2> QED BY <2>1, FS_CardinalityType
<1> HIDE DEF S
<1> QED BY <1>1, <1>3, <1>4 DEF ActiveOK

\* A request draws a new group.
LEMMA OpenRequestPreserves ==
  ASSUME IInv, RowsNeverFail, NEW t \in Tasks, NEW s \in Symbols,
         NEW a \in Amounts, OpenRequest(t, s, a)
  PROVE  IInv'
<1> DEFINE j == [sym |-> s, row |-> nextRow, amt |-> a, back |-> 0, obs |-> 0]
<1> USE DEF IInv
<1>t. TypeOK
  OBVIOUS
<1>a. /\ pc[t] = "idle" /\ nextRow <= MaxRows
      /\ nextRow' = nextRow + 1
      /\ pc' = [pc EXCEPT ![t] = "open"] /\ job' = [job EXCEPT ![t] = j]
      /\ UNCHANGED <<pos, rev, lock, active, owner, basis, snap, cash,
           realised, due, reset, resets, crashes, orphaned>>
  BY DEF OpenRequest, bookVars, gateVars
<1>j. /\ j \in JobType /\ nextRow \in Rows
      /\ j.sym = s /\ j.row = nextRow /\ j.amt = a /\ a > 0 /\ a \in Nat
  BY <1>t, <1>a, Types DEF JobType, Rows
<1> HIDE DEF j
<1>1. TypeOK'
  BY <1>t, <1>a, <1>j, Types DEF TypeOK, Steps
<1>2. LockOK'
  BY <1>t, <1>a, Types, Plain DEF LockOK, InSlot, SlotSteps
<1>3. ActiveOK'
  BY <1>t, <1>a, Types, SlotSame DEF InSlot, SlotSteps
<1>4. DbOK'
  BY <1>a DEF DbOK
<1>5. MemOK'
  BY <1>t, <1>a, Types DEF MemOK
<1>6. FreshOK'
  <2>1. \A r \in Rows : r >= nextRow' => basis'[r] = 0
    BY <1>t, <1>a, Types, Plain DEF FreshOK
  <2>2. \A u \in Tasks \ {t} : pc'[u] = pc[u] /\ job'[u] = job[u]
    BY <1>t, <1>a, Types
  <2>3. job'[t] = j /\ pc'[t] = "open" /\ basis[nextRow] = 0
    BY <1>t, <1>a, <1>j, Types, Plain DEF FreshOK
  <2>4. \A u \in Tasks \ {t} : pc[u] \in Opening => job[u].row < nextRow
    BY DEF FreshOK
  <2>5. ASSUME NEW u \in Tasks, pc'[u] \in Opening
        PROVE  /\ job'[u].row \in Rows /\ job'[u].row < nextRow'
               /\ basis'[job'[u].row] = 0 /\ job'[u].amt > 0
               /\ \A w \in Tasks \ {u} : pc'[w] \in Opening => job'[w].row # job'[u].row
    <3>1. CASE u = t
      <4>1. \A w \in Tasks \ {t} : pc[w] \in Opening => job[w].row # nextRow
        BY <1>t, <2>4, Types, Plain
      <4> QED BY <1>a, <1>j, <1>t, <2>2, <2>3, <3>1, <4>1, Types, Plain
    <3>2. CASE u # t
      <4>1. /\ job[u].row \in Rows /\ job[u].row < nextRow
            /\ basis[job[u].row] = 0 /\ job[u].amt > 0
            /\ \A w \in Tasks \ {u} : pc[w] \in Opening => job[w].row # job[u].row
        BY <2>2, <2>5, <3>2 DEF FreshOK
      <4>2. job'[u] = job[u] /\ basis' = basis /\ nextRow' = nextRow + 1
        BY <1>a, <2>2, <3>2
      <4>3. \A w \in Tasks \ {u} : pc'[w] \in Opening => job'[w].row # job[u].row
        <5>1. job'[t].row # job[u].row
          BY <1>j, <1>t, <2>3, <4>1, Types, Plain
        <5>2. \A w \in Tasks \ {u} : w # t /\ pc'[w] \in Opening => job'[w].row # job[u].row
          BY <2>2, <4>1
        <5> QED BY <5>1, <5>2
      <4>4. job[u].row < nextRow'
        <5>1. job[u].row \in Nat /\ nextRow \in Nat
          BY <1>t, <4>1, Types, Plain
        <5> QED BY ONLY <4>1, <4>2, <5>1
      <4> QED BY <4>1, <4>2, <4>3, <4>4
    <3> QED BY <3>1, <3>2
  <2> QED BY <2>1, <2>5 DEF FreshOK
<1>7. TaskOK'
  BY <1>t, <1>a, <1>j, Types DEF TaskOK, Paying, Closing, Own
<1>8. CloseOK'
  BY <1>t, <1>a, Types, Plain DEF CloseOK
<1>9. EraseOK'
  BY <1>t, <1>a, Types, Plain DEF EraseOK, Erasing, InSlot, SlotSteps
<1>10. InFlightIdentity'
  BY <1>a DEF InFlightIdentity, Erasing
<1> QED BY <1>1, <1>2, <1>3, <1>4, <1>5, <1>6, <1>7, <1>8, <1>9, <1>10

\* A refused open leaves nothing behind.
LEMMA RefuseOpenPreserves ==
  ASSUME IInv, RowsNeverFail, NEW t \in Tasks, RefuseOpen(t)
  PROVE  IInv'
<1> USE DEF IInv
<1>t. TypeOK
  OBVIOUS
<1>a. /\ pc[t] = "open"
      /\ pc' = [pc EXCEPT ![t] = "idle"] /\ job' = [job EXCEPT ![t] = NoJob]
      /\ UNCHANGED <<pos, rev, lock, active, owner, basis, snap, cash,
           realised, due, nextRow, reset, resets, crashes, orphaned>>
  BY DEF RefuseOpen, Finish, bookVars, gateVars
<1>1. TypeOK'
  BY <1>t, <1>a, Types, Plain DEF TypeOK, Steps, SlotSteps
<1>2. LockOK'
  BY <1>t, <1>a, Types, Plain DEF LockOK, InSlot, SlotSteps
<1>3. ActiveOK'
  BY <1>t, <1>a, Types, SlotSame DEF InSlot, SlotSteps
<1>4. DbOK'
  BY <1>a DEF DbOK
<1>5. MemOK'
  BY <1>t, <1>a, Types DEF MemOK
<1>6. FreshOK'
  BY <1>t, <1>a, Types, Plain DEF FreshOK, Opening
<1>7. TaskOK'
  BY <1>t, <1>a, Types, Plain DEF TaskOK, Paying, Closing, Own
<1>8. CloseOK'
  BY <1>t, <1>a, Types, Plain DEF CloseOK
<1>9. EraseOK'
  BY <1>t, <1>a, Types, Plain DEF EraseOK, Erasing, InSlot, SlotSteps
<1>10. InFlightIdentity'
  BY <1>a DEF InFlightIdentity, Erasing
<1> QED BY <1>1, <1>2, <1>3, <1>4, <1>5, <1>6, <1>7, <1>8, <1>9, <1>10

\* An open enters its critical section on a symbol without position.
LEMMA EnterOpenPreserves ==
  ASSUME IInv, RowsNeverFail, NEW t \in Tasks, EnterOpen(t)
  PROVE  IInv'
<1> USE DEF IInv
<1>t. TypeOK
  OBVIOUS
<1>a. /\ pc[t] = "open" /\ reset = "none"
      /\ pc' = [pc EXCEPT ![t] = "openFill"]
      /\ lock[job[t].sym] = NoTask /\ pos[job[t].sym].row = NoRow
      /\ lock' = [lock EXCEPT ![job[t].sym] = t] /\ active' = active + 1
      /\ UNCHANGED <<pos, rev, owner, basis, snap, cash, realised, job, due,
           nextRow, reset, resets, crashes, orphaned>>
  BY DEF EnterOpen, CanEnter, GateClosed, Acquire, Goto, bookVars, gateVars
<1>s. job[t].sym \in Symbols
  BY <1>a DEF TaskOK
<1>n. snap[job[t].sym] = NoPosition
  BY <1>t, <1>a, <1>s, Types, Plain DEF MemOK, DbOK, NoPosition, Position, TypeOK
<1>1. TypeOK'
  BY <1>t, <1>a, <1>s, Types DEF TypeOK, Steps, SlotSteps
<1>2. LockOK'
  BY <1>t, <1>a, <1>s, Types DEF LockOK, InSlot, SlotSteps
<1>3. ActiveOK'
  BY <1>t, <1>a, Types, SlotEnter DEF InSlot, SlotSteps
<1>4. DbOK'
  BY <1>a DEF DbOK
<1>5. MemOK'
  BY <1>t, <1>a, <1>s, Types DEF MemOK
<1>6. FreshOK'
  BY <1>t, <1>a, Types, Plain DEF FreshOK, Opening
<1>7. TaskOK'
  BY <1>t, <1>a, <1>s, <1>n, Types DEF TaskOK, Paying, Closing, Own
<1>8. CloseOK'
  BY <1>t, <1>a, Types, Plain DEF CloseOK
<1>9. EraseOK'
  BY <1>t, <1>a, Types, Plain DEF EraseOK, Erasing, InSlot, SlotSteps
<1>10. InFlightIdentity'
  BY <1>a DEF InFlightIdentity, Erasing
<1> QED BY <1>1, <1>2, <1>3, <1>4, <1>5, <1>6, <1>7, <1>8, <1>9, <1>10

\* The position appears in memory, under the lock.
LEMMA FillOpenPreserves ==
  ASSUME IInv, RowsNeverFail, NEW t \in Tasks, FillOpen(t)
  PROVE  IInv'
<1> USE DEF IInv
<1>t. TypeOK
  OBVIOUS
<1>a. /\ pc[t] = "openFill"
      /\ pc' = [pc EXCEPT ![t] = "openRow"]
      /\ pos' = [pos EXCEPT ![job[t].sym] = Own(t)]
      /\ rev' = [rev EXCEPT ![job[t].sym] = rev[job[t].sym] + 1]
      /\ UNCHANGED <<lock, active, owner, basis, snap, cash, realised, job,
           due, nextRow, reset, resets, crashes, orphaned>>
  BY DEF FillOpen, Bump, Goto, Own, bookVars, gateVars
<1>s. /\ job[t].sym \in Symbols /\ lock[job[t].sym] = t /\ t # NoTask
      /\ snap[job[t].sym] = NoPosition
  BY <1>t, <1>a, Types DEF TaskOK, LockOK, InSlot, SlotSteps
<1>o. Own(t) \in Position
  BY <1>t, Types DEF Own, Position
<1>u. \A u \in Tasks \ {t} : InSlot(u) => job[u].sym # job[t].sym
  BY <1>s DEF LockOK
<1>1. TypeOK'
  BY <1>t, <1>a, <1>s, <1>o, Types DEF TypeOK, Steps, SlotSteps
<1>2. LockOK'
  BY <1>t, <1>a, Types, Plain DEF LockOK, InSlot, SlotSteps
<1>3. ActiveOK'
  BY <1>t, <1>a, Types, SlotSame DEF InSlot, SlotSteps
<1>4. DbOK'
  BY <1>a DEF DbOK
<1>5. MemOK'
  BY <1>t, <1>a, <1>s, Types DEF MemOK
<1>6. FreshOK'
  BY <1>t, <1>a, Types, Plain DEF FreshOK, Opening
<1>7. TaskOK'
  BY <1>t, <1>a, <1>s, <1>u, Types DEF TaskOK, Paying, Closing, Own, InSlot, SlotSteps
<1>8. CloseOK'
  BY <1>t, <1>a, <1>s, Types DEF CloseOK, TaskOK
<1>9. EraseOK'
  BY <1>t, <1>a, <1>s, Types DEF EraseOK, Erasing, InSlot, SlotSteps
<1>10. InFlightIdentity'
  BY <1>a DEF InFlightIdentity, Erasing
<1> QED BY <1>1, <1>2, <1>3, <1>4, <1>5, <1>6, <1>7, <1>8, <1>9, <1>10

\* The open row and its snapshot commit; the payment becomes due.
LEMMA CommitOpenPreserves ==
  ASSUME IInv, RowsNeverFail, NEW t \in Tasks, CommitOpen(t)
  PROVE  IInv'
<1> USE DEF IInv
<1>t. TypeOK
  OBVIOUS
<1>a. /\ pc[t] = "openRow"
      /\ pc' = [pc EXCEPT ![t] = "openPay"]
      /\ owner' = [owner EXCEPT ![job[t].row] = job[t].sym]
      /\ basis' = [basis EXCEPT ![job[t].row] = job[t].amt]
      /\ snap' = [snap EXCEPT ![job[t].sym] = Own(t)]
      /\ due' = [due EXCEPT ![t] = 0 - job[t].amt]
      /\ UNCHANGED <<pos, rev, lock, active, cash, realised, job, nextRow,
           reset, resets, crashes, orphaned>>
  BY DEF CommitOpen, Goto, Own, bookVars, gateVars
<1>s. job[t].sym \in Symbols /\ lock[job[t].sym] = t /\ t # NoTask
  BY <1>t, <1>a, Types DEF TaskOK, LockOK, InSlot, SlotSteps
<1>u. \A u \in Tasks \ {t} : InSlot(u) => job[u].sym # job[t].sym
  BY <1>s DEF LockOK
<1>r. /\ job[t].row \in Rows /\ basis[job[t].row] = 0 /\ job[t].amt > 0
      /\ job[t].row < nextRow /\ due[t] = 0
      /\ snap[job[t].sym] = NoPosition /\ pos[job[t].sym] = Own(t)
  BY <1>a DEF FreshOK, Opening, TaskOK, Paying
<1>o. Own(t) \in Position /\ Own(t).row = job[t].row /\ Own(t).amt = job[t].amt
  BY <1>t, Types DEF Own, Position
<1>v. \A s \in Symbols : snap[s].row # job[t].row
  BY <1>t, <1>r, Types, Plain DEF DbOK
<1>1. TypeOK'
  BY <1>t, <1>a, <1>s, <1>o, <1>r, Types DEF TypeOK, Steps, SlotSteps
<1>2. LockOK'
  BY <1>t, <1>a, Types, Plain DEF LockOK, InSlot, SlotSteps
<1>3. ActiveOK'
  BY <1>t, <1>a, Types, SlotSame DEF InSlot, SlotSteps
<1>4. DbOK'
  BY <1>t, <1>a, <1>s, <1>r, <1>o, <1>v, Types, Plain DEF DbOK
<1>5. MemOK'
  BY <1>t, <1>a, <1>s, <1>u, Types, Plain DEF MemOK
<1>6. FreshOK'
  <2>1. \A r \in Rows : r >= nextRow' => basis'[r] = 0
    BY <1>t, <1>a, <1>r, Types, Plain DEF FreshOK
  <2>2. \A u \in Tasks : pc'[u] \in Opening => pc[u] \in Opening /\ u # t
    BY <1>t, <1>a, Types DEF Opening
  <2>3. \A u \in Tasks \ {t} : pc[u] \in Opening => job[u].row # job[t].row
    BY <1>a DEF FreshOK, Opening
  <2>4. \A u \in Tasks : pc'[u] \in Opening => basis'[job[u].row] = 0
    BY <1>t, <1>a, <1>r, <2>2, <2>3, Types DEF FreshOK
  <2> QED BY <1>a, <2>1, <2>2, <2>4 DEF FreshOK
<1>7. TaskOK'
  BY <1>t, <1>a, <1>s, <1>u, <1>r, <1>o, Types, Plain DEF TaskOK, Paying, Closing, Own, InSlot, SlotSteps
<1>8. CloseOK'
  BY <1>t, <1>a, <1>s, <1>u, Types, Plain DEF CloseOK
<1>9. EraseOK'
  BY <1>t, <1>a, Types, Plain DEF EraseOK, Erasing, InSlot, SlotSteps
<1>10. InFlightIdentity'
  <2>1. Total(basis') = Total(basis) + job[t].amt /\ Total(basis) \in Int
    <3>1. job[t].amt \in Int /\ basis' = [basis EXCEPT ![job[t].row] = job[t].amt]
      BY <1>t, <1>a, Types
    <3>2. /\ Total(basis) \in Int
          /\ Total(basis') = Total(basis) - basis[job[t].row] + job[t].amt
      BY <1>t, <1>r, <3>1, RowsMove, Zenon
    <3> QED BY <1>r, <3>1, <3>2
  <2>2. Total(due') = Total(due) - job[t].amt /\ Total(due) \in Int
    <3>1. /\ 0 - job[t].amt \in Int /\ job[t].amt \in Int
          /\ due' = [due EXCEPT ![t] = 0 - job[t].amt]
      BY <1>t, <1>a, Types
    <3>2. /\ Total(due) \in Int
          /\ Total(due') = Total(due) - due[t] + (0 - job[t].amt)
      BY <1>t, <3>1, DueMoves, Zenon
    <3> QED BY <1>r, <3>1, <3>2
  <2> QED BY <1>t, <1>a, <2>1, <2>2, Types DEF InFlightIdentity, Erasing
<1> QED BY <1>1, <1>2, <1>3, <1>4, <1>5, <1>6, <1>7, <1>8, <1>9, <1>10

\* The payment of an open moves the cash and leaves the slot.
LEMMA PayOpenPreserves ==
  ASSUME IInv, RowsNeverFail, NEW t \in Tasks, PayOpen(t)
  PROVE  IInv'
<1> USE DEF IInv
<1>t. TypeOK
  OBVIOUS
<1>a. /\ pc[t] = "openPay"
      /\ cash' = cash + due[t] /\ due' = [due EXCEPT ![t] = 0]
      /\ pc' = [pc EXCEPT ![t] = "idle"] /\ job' = [job EXCEPT ![t] = NoJob]
      /\ lock' = [lock EXCEPT ![job[t].sym] = NoTask] /\ active' = active - 1
      /\ UNCHANGED <<pos, rev, owner, basis, snap, realised, nextRow, reset,
           resets, crashes, orphaned>>
  BY DEF PayOpen, Finish, Release, bookVars, gateVars
<1>s. job[t].sym \in Symbols /\ lock[job[t].sym] = t /\ t # NoTask
  BY <1>t, <1>a, Types DEF TaskOK, LockOK, InSlot, SlotSteps
<1>u. \A u \in Tasks \ {t} : InSlot(u) => job[u].sym # job[t].sym
  BY <1>s DEF LockOK
<1>m. pos[job[t].sym] = snap[job[t].sym]
  BY <1>a DEF TaskOK, Paying
<1>c. active' \in Nat
  BY <1>t, <1>a, Types, SlotLeave DEF InSlot, SlotSteps
<1>1. TypeOK'
  BY <1>t, <1>a, <1>c, <1>s, <1>u, Types, Plain DEF TypeOK, Steps, SlotSteps
<1>2. LockOK'
  BY <1>t, <1>a, <1>s, <1>u, Types, Plain DEF LockOK, InSlot, SlotSteps
<1>3. ActiveOK'
  BY <1>t, <1>a, Types, SlotLeave DEF InSlot, SlotSteps
<1>4. DbOK'
  BY <1>a DEF DbOK
<1>5. MemOK'
  BY <1>t, <1>a, <1>s, <1>m, Types DEF MemOK
<1>6. FreshOK'
  BY <1>t, <1>a, Types, Plain DEF FreshOK, Opening
<1>7. TaskOK'
  BY <1>t, <1>a, <1>s, <1>u, Types, Plain DEF TaskOK, Paying, Closing, Own, InSlot, SlotSteps
<1>8. CloseOK'
  BY <1>t, <1>a, <1>s, <1>u, Types, Plain DEF CloseOK, TaskOK, Paying, Closing, InSlot, SlotSteps
<1>9. EraseOK'
  BY <1>t, <1>a, Types, Plain DEF EraseOK, Erasing, InSlot, SlotSteps
<1>10. InFlightIdentity'
  <2>1. Total(due') = Total(due) - due[t] /\ Total(due) \in Int /\ due[t] \in Int
    <3>1. 0 \in Int /\ due[t] \in Int /\ due' = [due EXCEPT ![t] = 0]
      BY <1>t, <1>a, Types
    <3>2. Total(due) \in Int /\ Total(due') = Total(due) - due[t] + 0
      BY <1>t, <3>1, DueMoves, Zenon
    <3> QED BY <3>1, <3>2
  <2>2. Total(basis) \in Int
    BY <1>t, SumsAreIntegers
  <2> QED BY <1>t, <1>a, <2>1, <2>2, Types DEF InFlightIdentity, Erasing
<1> QED BY <1>1, <1>2, <1>3, <1>4, <1>5, <1>6, <1>7, <1>8, <1>9, <1>10

\* A failed payment only moves on to the undo.
LEMMA FailPayPreserves ==
  ASSUME IInv, RowsNeverFail, NEW t \in Tasks, FailPay(t)
  PROVE  IInv'
<1> USE DEF IInv
<1>t. TypeOK
  OBVIOUS
<1>a. /\ pc[t] = "openPay"
      /\ pc' = [pc EXCEPT ![t] = "openUndo"]
      /\ UNCHANGED <<pos, rev, lock, active, owner, basis, snap, cash,
           realised, job, due, nextRow, reset, resets, crashes, orphaned>>
  BY DEF FailPay, Goto, bookVars, gateVars
<1>s. job[t].sym \in Symbols /\ lock[job[t].sym] = t /\ t # NoTask
  BY <1>t, <1>a, Types DEF TaskOK, LockOK, InSlot, SlotSteps
<1>u. \A u \in Tasks \ {t} : InSlot(u) => job[u].sym # job[t].sym
  BY <1>s DEF LockOK
<1>1. TypeOK'
  BY <1>t, <1>a, <1>s, <1>u, Types, Plain DEF TypeOK, Steps, SlotSteps
<1>2. LockOK'
  BY <1>t, <1>a, Types, Plain DEF LockOK, InSlot, SlotSteps
<1>3. ActiveOK'
  BY <1>t, <1>a, Types, SlotSame DEF InSlot, SlotSteps
<1>4. DbOK'
  BY <1>a DEF DbOK
<1>5. MemOK'
  BY <1>t, <1>a, <1>s, <1>u, Types, Plain DEF MemOK
<1>6. FreshOK'
  BY <1>t, <1>a, Types, Plain DEF FreshOK, Opening
<1>7. TaskOK'
  BY <1>t, <1>a, <1>s, <1>u, Types, Plain DEF TaskOK, Paying, Closing, Own, InSlot, SlotSteps
<1>8. CloseOK'
  BY <1>t, <1>a, Types, Plain DEF CloseOK
<1>9. EraseOK'
  BY <1>t, <1>a, Types, Plain DEF EraseOK, Erasing, InSlot, SlotSteps
<1>10. InFlightIdentity'
  BY <1>a DEF InFlightIdentity, Erasing
<1> QED BY <1>1, <1>2, <1>3, <1>4, <1>5, <1>6, <1>7, <1>8, <1>9, <1>10

\* The undo takes row, snapshot, position and debt away together.
LEMMA UndoOpenPreserves ==
  ASSUME IInv, RowsNeverFail, NEW t \in Tasks, UndoOpen(t)
  PROVE  IInv'
<1> USE DEF IInv
<1>t. TypeOK
  OBVIOUS
<1>a. /\ pc[t] = "openUndo"
      /\ basis' = [basis EXCEPT ![job[t].row] = 0]
      /\ snap' = [snap EXCEPT ![job[t].sym] = NoPosition]
      /\ pos' = [pos EXCEPT ![job[t].sym] = NoPosition]
      /\ rev' = [rev EXCEPT ![job[t].sym] = rev[job[t].sym] + 1]
      /\ due' = [due EXCEPT ![t] = 0]
      /\ pc' = [pc EXCEPT ![t] = "idle"] /\ job' = [job EXCEPT ![t] = NoJob]
      /\ lock' = [lock EXCEPT ![job[t].sym] = NoTask] /\ active' = active - 1
      /\ UNCHANGED <<owner, cash, realised, nextRow, reset, resets, crashes,
           orphaned>>
  BY DEF UndoOpen, Bump, Finish, Release, bookVars, gateVars
<1>s. job[t].sym \in Symbols /\ lock[job[t].sym] = t /\ t # NoTask
  BY <1>t, <1>a, Types DEF TaskOK, LockOK, InSlot, SlotSteps
<1>u. \A u \in Tasks \ {t} : InSlot(u) => job[u].sym # job[t].sym
  BY <1>s DEF LockOK
<1>r. /\ job[t].row \in Rows /\ snap[job[t].sym] = Own(t)
      /\ due[t] = 0 - job[t].amt
  BY <1>a DEF TaskOK, Paying
<1>b. /\ basis[job[t].row] = job[t].amt /\ job[t].amt > 0
      /\ owner[job[t].row] = job[t].sym
      /\ \A r \in Rows : owner[r] = job[t].sym /\ basis[r] > 0 => r = job[t].row
  BY <1>t, <1>s, <1>r, Types, Plain DEF DbOK, Own
<1>w. \A s \in Symbols \ {job[t].sym} : snap[s].row # job[t].row
  BY <1>t, <1>r, <1>b, Types, Plain DEF DbOK
<1>x. \A u \in Tasks \ {t} :
        InSlot(u) /\ snap[job[u].sym] = Own(u) => job[u].row # job[t].row
  <2>1. \A u \in Tasks : InSlot(u) => job[u].sym \in Symbols
    BY DEF TaskOK, InSlot, SlotSteps
  <2>2. \A u \in Tasks : Own(u).row = job[u].row
    BY DEF Own
  <2> QED BY <1>u, <1>w, <2>1, <2>2
<1>c. active' \in Nat
  BY <1>t, <1>a, Types, SlotLeave DEF InSlot, SlotSteps
<1>1. TypeOK'
  BY <1>t, <1>a, <1>c, <1>s, <1>r, Types, Plain DEF TypeOK, Steps, SlotSteps
<1>2. LockOK'
  BY <1>t, <1>a, <1>s, <1>u, Types, Plain DEF LockOK, InSlot, SlotSteps
<1>3. ActiveOK'
  BY <1>t, <1>a, Types, SlotLeave DEF InSlot, SlotSteps
<1>4. DbOK'
  BY <1>t, <1>a, <1>s, <1>r, <1>b, <1>w, Types, Plain DEF DbOK
<1>5. MemOK'
  BY <1>t, <1>a, <1>s, <1>u, Types, Plain DEF MemOK, TaskOK, Paying, Closing
<1>6. FreshOK'
  BY <1>t, <1>a, <1>r, <1>b, Types, Plain DEF FreshOK, Opening
<1>7. TaskOK'
  BY <1>t, <1>a, <1>s, <1>u, <1>r, <1>b, <1>x, Types, Plain DEF TaskOK, Paying, Closing, Own, InSlot, SlotSteps
<1>8. CloseOK'
  <2>1. \A u \in Tasks : pc'[u] = "close" =>
          u # t /\ pc[u] = "close" /\ job'[u] = job[u] /\ job[u].sym \in Symbols
    BY <1>t, <1>a, Types DEF TaskOK
  <2>2. \A u \in Tasks : pc[u] = "close" =>
          job[u].back > 0 /\ job[u].obs <= rev[job[u].sym]
    BY DEF CloseOK
  <2>3. pos'[job[t].sym].row = NoRow
    BY <1>t, <1>a, <1>s, Types, Plain
  <2> QED BY <1>t, <1>a, <1>s, <2>1, <2>2, <2>3, Types DEF CloseOK
<1>9. EraseOK'
  BY <1>t, <1>a, <1>s, <1>r, Types, Plain DEF EraseOK, Erasing, InSlot, SlotSteps
<1>10. InFlightIdentity'
  <2>1. Total(basis') = Total(basis) - job[t].amt /\ Total(basis) \in Int
    <3>1. 0 \in Int /\ basis' = [basis EXCEPT ![job[t].row] = 0]
      BY <1>a
    <3>2. job[t].amt \in Int
      BY <1>t, Types
    <3>3. /\ Total(basis) \in Int
          /\ Total(basis') = Total(basis) - basis[job[t].row] + 0
      BY <1>t, <1>r, <3>1, RowsMove, Zenon
    <3> QED BY <1>b, <3>2, <3>3
  <2>2. Total(due') = Total(due) + job[t].amt /\ Total(due) \in Int
    <3>1. 0 \in Int /\ due' = [due EXCEPT ![t] = 0]
      BY <1>a
    <3>2. job[t].amt \in Int
      BY <1>t, Types
    <3>3. Total(due) \in Int /\ Total(due') = Total(due) - due[t] + 0
      BY <1>t, <3>1, DueMoves, Zenon
    <3> QED BY <1>r, <3>2, <3>3
  <2> QED BY <1>t, <1>a, <2>1, <2>2, Types DEF InFlightIdentity, Erasing
<1> QED BY <1>1, <1>2, <1>3, <1>4, <1>5, <1>6, <1>7, <1>8, <1>9, <1>10

\* A failed undo orphans the debt.
LEMMA FailUndoPreserves ==
  ASSUME IInv, RowsNeverFail, NEW t \in Tasks, FailUndo(t)
  PROVE  IInv'
<1> USE DEF IInv
<1>t. TypeOK
  OBVIOUS
<1>a. /\ pc[t] = "openUndo"
      /\ orphaned' = orphaned - due[t] /\ due' = [due EXCEPT ![t] = 0]
      /\ pc' = [pc EXCEPT ![t] = "idle"] /\ job' = [job EXCEPT ![t] = NoJob]
      /\ lock' = [lock EXCEPT ![job[t].sym] = NoTask] /\ active' = active - 1
      /\ UNCHANGED <<pos, rev, owner, basis, snap, cash, realised, nextRow,
           reset, resets, crashes>>
  BY DEF FailUndo, Finish, Release, bookVars, gateVars
<1>s. job[t].sym \in Symbols /\ lock[job[t].sym] = t /\ t # NoTask
  BY <1>t, <1>a, Types DEF TaskOK, LockOK, InSlot, SlotSteps
<1>u. \A u \in Tasks \ {t} : InSlot(u) => job[u].sym # job[t].sym
  BY <1>s DEF LockOK
<1>m. pos[job[t].sym] = snap[job[t].sym]
  BY <1>a DEF TaskOK, Paying
<1>c. active' \in Nat
  BY <1>t, <1>a, Types, SlotLeave DEF InSlot, SlotSteps
<1>1. TypeOK'
  BY <1>t, <1>a, <1>c, <1>s, <1>u, Types, Plain DEF TypeOK, Steps, SlotSteps
<1>2. LockOK'
  BY <1>t, <1>a, <1>s, <1>u, Types, Plain DEF LockOK, InSlot, SlotSteps
<1>3. ActiveOK'
  BY <1>t, <1>a, Types, SlotLeave DEF InSlot, SlotSteps
<1>4. DbOK'
  BY <1>a DEF DbOK
<1>5. MemOK'
  BY <1>t, <1>a, <1>s, <1>m, Types DEF MemOK
<1>6. FreshOK'
  BY <1>t, <1>a, Types, Plain DEF FreshOK, Opening
<1>7. TaskOK'
  BY <1>t, <1>a, <1>s, <1>u, Types, Plain DEF TaskOK, Paying, Closing, Own, InSlot, SlotSteps
<1>8. CloseOK'
  BY <1>t, <1>a, <1>s, <1>u, Types, Plain DEF CloseOK, TaskOK, Paying, Closing, InSlot, SlotSteps
<1>9. EraseOK'
  BY <1>t, <1>a, Types, Plain DEF EraseOK, Erasing, InSlot, SlotSteps
<1>10. InFlightIdentity'
  <2>1. Total(due') = Total(due) - due[t] /\ Total(due) \in Int /\ due[t] \in Int
    <3>1. 0 \in Int /\ due[t] \in Int /\ due' = [due EXCEPT ![t] = 0]
      BY <1>t, <1>a, Types
    <3>2. Total(due) \in Int /\ Total(due') = Total(due) - due[t] + 0
      BY <1>t, <3>1, DueMoves, Zenon
    <3> QED BY <3>1, <3>2
  <2>2. Total(basis) \in Int
    BY <1>t, SumsAreIntegers
  <2> QED BY <1>t, <1>a, <2>1, <2>2, Types DEF InFlightIdentity, Erasing
<1> QED BY <1>1, <1>2, <1>3, <1>4, <1>5, <1>6, <1>7, <1>8, <1>9, <1>10

\* A record of Position is given by its two fields.
LEMMA SamePosition ==
  ASSUME NEW p \in Position, NEW q \in Position, p.row = q.row, p.amt = q.amt
  PROVE  p = q
BY DEF Position

\* A close request records the position and the revision it saw.
LEMMA CloseRequestPreserves ==
  ASSUME IInv, RowsNeverFail, NEW t \in Tasks, NEW s \in Symbols,
         NEW b \in 1 .. pos[s].amt, CloseRequest(t, s, b)
  PROVE  IInv'
<1> DEFINE j == [sym |-> s, row |-> pos[s].row, amt |-> 0, back |-> b,
                 obs |-> rev[s]]
<1> USE DEF IInv
<1>t. TypeOK
  OBVIOUS
<1>a. /\ pc[t] = "idle"
      /\ pc' = [pc EXCEPT ![t] = "close"] /\ job' = [job EXCEPT ![t] = j]
      /\ UNCHANGED <<pos, rev, lock, active, owner, basis, snap, cash,
           realised, due, nextRow, reset, resets, crashes, orphaned>>
  BY DEF CloseRequest, bookVars, gateVars
<1>b. pos[s].amt \in Nat /\ b \in Nat /\ b > 0 /\ b <= pos[s].amt
  BY <1>t, Types
<1>j. /\ j \in JobType
      /\ j.sym = s /\ j.row = pos[s].row /\ j.back = b /\ j.obs = rev[s]
  BY <1>t, <1>b, Types DEF JobType
<1> HIDE DEF j
<1>1. TypeOK'
  BY <1>t, <1>a, <1>j, Types DEF TypeOK, Steps
<1>2. LockOK'
  BY <1>t, <1>a, Types, Plain DEF LockOK, InSlot, SlotSteps
<1>3. ActiveOK'
  BY <1>t, <1>a, Types, SlotSame DEF InSlot, SlotSteps
<1>4. DbOK'
  BY <1>a DEF DbOK
<1>5. MemOK'
  BY <1>t, <1>a, Types DEF MemOK
<1>6. FreshOK'
  BY <1>t, <1>a, Types, Plain DEF FreshOK, Opening
<1>7. TaskOK'
  BY <1>t, <1>a, <1>j, Types DEF TaskOK, Paying, Closing, Own
<1>8. CloseOK'
  BY <1>t, <1>a, <1>b, <1>j, Types DEF CloseOK
<1>9. EraseOK'
  BY <1>t, <1>a, Types, Plain DEF EraseOK, Erasing, InSlot, SlotSteps
<1>10. InFlightIdentity'
  BY <1>a DEF InFlightIdentity, Erasing
<1> QED BY <1>1, <1>2, <1>3, <1>4, <1>5, <1>6, <1>7, <1>8, <1>9, <1>10

\* A refused close leaves nothing behind.
LEMMA RefuseClosePreserves ==
  ASSUME IInv, RowsNeverFail, NEW t \in Tasks, RefuseClose(t)
  PROVE  IInv'
<1> USE DEF IInv
<1>t. TypeOK
  OBVIOUS
<1>a. /\ pc[t] = "close"
      /\ pc' = [pc EXCEPT ![t] = "idle"] /\ job' = [job EXCEPT ![t] = NoJob]
      /\ UNCHANGED <<pos, rev, lock, active, owner, basis, snap, cash,
           realised, due, nextRow, reset, resets, crashes, orphaned>>
  BY DEF RefuseClose, Finish, bookVars, gateVars
<1>1. TypeOK'
  BY <1>t, <1>a, Types, Plain DEF TypeOK, Steps, SlotSteps
<1>2. LockOK'
  BY <1>t, <1>a, Types, Plain DEF LockOK, InSlot, SlotSteps
<1>3. ActiveOK'
  BY <1>t, <1>a, Types, SlotSame DEF InSlot, SlotSteps
<1>4. DbOK'
  BY <1>a DEF DbOK
<1>5. MemOK'
  BY <1>t, <1>a, Types DEF MemOK
<1>6. FreshOK'
  BY <1>t, <1>a, Types, Plain DEF FreshOK, Opening
<1>7. TaskOK'
  BY <1>t, <1>a, Types, Plain DEF TaskOK, Paying, Closing, Own
<1>8. CloseOK'
  BY <1>t, <1>a, Types, Plain DEF CloseOK
<1>9. EraseOK'
  BY <1>t, <1>a, Types, Plain DEF EraseOK, Erasing, InSlot, SlotSteps
<1>10. InFlightIdentity'
  BY <1>a DEF InFlightIdentity, Erasing
<1> QED BY <1>1, <1>2, <1>3, <1>4, <1>5, <1>6, <1>7, <1>8, <1>9, <1>10

\* A close that is not stale enters with the position its caller saw.
LEMMA EnterClosePreserves ==
  ASSUME IInv, RowsNeverFail, NEW t \in Tasks, EnterClose(t)
  PROVE  IInv'
<1> DEFINE a == pos[job[t].sym].amt
           j == [job[t] EXCEPT !.amt = a, !.back = Returned(a, job[t].back)]
<1> USE DEF IInv
<1>t. TypeOK
  OBVIOUS
<1>a. /\ pc[t] = "close" /\ reset = "none" /\ lock[job[t].sym] = NoTask
      /\ rev[job[t].sym] = job[t].obs /\ pos[job[t].sym].row # NoRow
      /\ lock' = [lock EXCEPT ![job[t].sym] = t] /\ active' = active + 1
      /\ pc' = [pc EXCEPT ![t] = "closeMem"] /\ job' = [job EXCEPT ![t] = j]
      /\ UNCHANGED <<pos, rev, owner, basis, snap, cash, realised, due, nextRow,
           reset, resets, crashes, orphaned>>
  BY DEF EnterClose, CanEnter, GateClosed, Stale, Acquire, bookVars, gateVars
<1>s. job[t].sym \in Symbols /\ t # NoTask /\ due[t] = 0
  BY <1>a DEF TaskOK, Paying
<1>n. \A u \in Tasks : InSlot(u) => job[u].sym # job[t].sym
  BY <1>a DEF LockOK
<1>p. /\ pos[job[t].sym] = snap[job[t].sym]
      /\ pos[job[t].sym].row = job[t].row /\ job[t].row \in Rows
      /\ 0 < job[t].back /\ job[t].back <= a /\ a \in Nat
  <2>1. pos[job[t].sym] = snap[job[t].sym]
    BY <1>a, <1>s DEF MemOK
  <2>2. \A u \in Tasks : ~(pc[u] = "closeRow" /\ job[u].sym = job[t].sym)
    BY <1>n DEF InSlot, SlotSteps
  <2>3. pos[job[t].sym].row = job[t].row /\ 0 < job[t].back /\ job[t].back <= a
    BY <1>a, <2>2 DEF CloseOK
  <2> QED BY <1>t, <1>a, <1>s, <2>1, <2>3, Types
<1>b. /\ Returned(a, job[t].back) \in Nat
      /\ 0 < Returned(a, job[t].back) /\ Returned(a, job[t].back) <= a
  BY <1>t, <1>p, Types DEF Returned
<1>j. /\ j \in JobType
      /\ j.sym = job[t].sym /\ j.row = job[t].row /\ j.amt = a
      /\ j.back = Returned(a, job[t].back)
  <2>1. job[t] \in JobType
    BY <1>t, Types
  <2> QED BY <1>p, <1>b, <2>1 DEF JobType
<1> HIDE DEF j
<1>o. pos[job[t].sym] = [row |-> j.row, amt |-> j.amt]
  BY <1>t, <1>s, <1>p, <1>j, Types DEF Position
<1>1. TypeOK'
  BY <1>t, <1>a, <1>s, <1>j, Types DEF TypeOK, Steps, SlotSteps
<1>2. LockOK'
  BY <1>t, <1>a, <1>s, <1>j, Types DEF LockOK, InSlot, SlotSteps
<1>3. ActiveOK'
  BY <1>t, <1>a, Types, SlotEnter DEF InSlot, SlotSteps
<1>4. DbOK'
  BY <1>a DEF DbOK
<1>5. MemOK'
  BY <1>t, <1>a, <1>s, Types DEF MemOK
<1>6. FreshOK'
  BY <1>t, <1>a, Types, Plain DEF FreshOK, Opening
<1> HIDE DEF a
<1>7. TaskOK'
  BY <1>t, <1>a, <1>s, <1>p, <1>b, <1>j, <1>o, Types
     DEF TaskOK, Paying, Closing, Own
<1>8. CloseOK'
  BY <1>t, <1>a, Types, Plain DEF CloseOK
<1>9. EraseOK'
  BY <1>t, <1>a, Types, Plain DEF EraseOK, Erasing, InSlot, SlotSteps
<1>10. InFlightIdentity'
  BY <1>a DEF InFlightIdentity, Erasing
<1> QED BY <1>1, <1>2, <1>3, <1>4, <1>5, <1>6, <1>7, <1>8, <1>9, <1>10

\* The memory changes under the lock, before the rows.
LEMMA MemClosePreserves ==
  ASSUME IInv, RowsNeverFail, NEW t \in Tasks, MemClose(t)
  PROVE  IInv'
<1> DEFINE rest == IF job[t].back = job[t].amt THEN NoPosition
                   ELSE [row |-> job[t].row, amt |-> job[t].amt - job[t].back]
<1> USE DEF IInv
<1>t. TypeOK
  OBVIOUS
<1>p. /\ pc[t] = "closeMem" /\ pos[job[t].sym] = Own(t)
      /\ snap[job[t].sym] = Own(t) /\ job[t].row \in Rows
      /\ 0 < job[t].back /\ job[t].back <= job[t].amt
  BY DEF MemClose, TaskOK, Closing
<1>a. /\ pc' = [pc EXCEPT ![t] = "closeRow"]
      /\ pos' = [pos EXCEPT ![job[t].sym] = rest]
      /\ UNCHANGED <<rev, lock, active, owner, basis, snap, cash, realised, job,
           due, nextRow, reset, resets, crashes, orphaned>>
  BY <1>p DEF MemClose, Left, Own, Goto, bookVars, gateVars
<1>s. job[t].sym \in Symbols /\ lock[job[t].sym] = t /\ t # NoTask
  BY <1>t, <1>p, Types DEF TaskOK, LockOK, InSlot, SlotSteps
<1>u. \A u \in Tasks \ {t} : InSlot(u) => job[u].sym # job[t].sym
  BY <1>s DEF LockOK
<1>r. rest \in Position
  BY <1>t, <1>p, Types, Plain DEF Position
<1> HIDE DEF rest
<1>1. TypeOK'
  BY <1>t, <1>a, <1>s, <1>r, Types DEF TypeOK, Steps, SlotSteps
<1>2. LockOK'
  BY <1>t, <1>p, <1>a, Types, Plain DEF LockOK, InSlot, SlotSteps
<1>3. ActiveOK'
  BY <1>t, <1>p, <1>a, Types, SlotSame DEF InSlot, SlotSteps
<1>4. DbOK'
  BY <1>a DEF DbOK
<1>5. MemOK'
  BY <1>t, <1>a, <1>s, Types DEF MemOK
<1>6. FreshOK'
  BY <1>t, <1>p, <1>a, Types, Plain DEF FreshOK, Opening
<1>7. TaskOK'
  BY <1>t, <1>p, <1>a, <1>s, <1>u, Types
     DEF TaskOK, Paying, Closing, Own, InSlot, SlotSteps, rest
<1>8. CloseOK'
  <2>1. \A u \in Tasks : pc'[u] = "close" => pc[u] = "close"
    BY <1>t, <1>a, Types
  <2>2. ASSUME NEW u \in Tasks, pc[u] = "close",
               \A w \in Tasks : ~(pc'[w] = "closeRow" /\ job'[w].sym = job[u].sym)
        PROVE  /\ job[u].sym # job[t].sym /\ pos'[job[u].sym] = pos[job[u].sym]
               /\ \A w \in Tasks : ~(pc[w] = "closeRow" /\ job[w].sym = job[u].sym)
    <3>1. pc'[t] = "closeRow" /\ job' = job
      BY <1>t, <1>a, Types
    <3>2. job[u].sym # job[t].sym /\ job[u].sym \in Symbols
      BY <2>2, <3>1 DEF TaskOK
    <3>3. \A w \in Tasks \ {t} : pc'[w] = pc[w]
      BY <1>t, <1>a, Types
    <3> QED BY <1>t, <1>p, <1>a, <2>2, <3>1, <3>2, <3>3, Types
  <2> QED BY <1>a, <2>1, <2>2 DEF CloseOK
<1>9. EraseOK'
  BY <1>t, <1>p, <1>a, Types DEF EraseOK, Erasing, InSlot, SlotSteps
<1>10. InFlightIdentity'
  BY <1>a DEF InFlightIdentity, Erasing
<1> QED BY <1>1, <1>2, <1>3, <1>4, <1>5, <1>6, <1>7, <1>8, <1>9, <1>10

\* The rows of a close commit: basis leaves the row and becomes due.
LEMMA CommitClosePreserves ==
  ASSUME IInv, RowsNeverFail, NEW t \in Tasks, NEW p \in Pnls, CommitClose(t, p)
  PROVE  IInv'
<1> DEFINE left == job[t].amt - job[t].back
           rest == IF job[t].back = job[t].amt THEN NoPosition
                   ELSE [row |-> job[t].row, amt |-> left]
<1> USE DEF IInv
<1>t. TypeOK
  OBVIOUS
<1>p. /\ pc[t] = "closeRow" /\ pos[job[t].sym] = rest
      /\ snap[job[t].sym] = Own(t) /\ job[t].row \in Rows
      /\ 0 < job[t].back /\ job[t].back <= job[t].amt /\ due[t] = 0
  BY DEF CommitClose, TaskOK, Closing, Paying
<1>s. job[t].sym \in Symbols /\ lock[job[t].sym] = t /\ t # NoTask
  BY <1>t, <1>p, Types DEF TaskOK, LockOK, InSlot, SlotSteps
<1>u. \A u \in Tasks \ {t} : InSlot(u) => job[u].sym # job[t].sym
  BY <1>s DEF LockOK
<1>b. /\ basis[job[t].row] = job[t].amt /\ job[t].amt > 0
      /\ owner[job[t].row] = job[t].sym
      /\ \A r \in Rows : owner[r] = job[t].sym /\ basis[r] > 0 => r = job[t].row
  <2>1. snap[job[t].sym] = Own(t) /\ job[t].row \in Rows
    BY <1>p
  <2>2. /\ snap[job[t].sym].row = job[t].row /\ snap[job[t].sym].amt = job[t].amt
        /\ job[t].row # NoRow
    BY <2>1, Plain DEF Own
  <2> QED BY <1>s, <2>1, <2>2 DEF DbOK
<1>w. \A s \in Symbols \ {job[t].sym} : snap[s].row # job[t].row
  BY <1>t, <1>p, <1>b, Types, Plain DEF DbOK
<1>n. left \in Nat /\ left < job[t].amt /\ job[t].amt \in Nat /\ job[t].back \in Nat
  BY <1>t, <1>p, Types
<1>r. rest \in Position /\ (rest.row = NoRow <=> left = 0) /\ rest.amt = left
      /\ (rest.row # NoRow => rest.row = job[t].row)
  BY <1>p, <1>n, Plain DEF Position
<1>m. Matched(job[t]) = {job[t].row}
  BY <1>b DEF Matched
<1>a. /\ basis' = [basis EXCEPT ![job[t].row] = left]
      /\ snap' = [snap EXCEPT ![job[t].sym] = rest]
      /\ realised' = realised + p /\ due' = [due EXCEPT ![t] = job[t].back + p]
      /\ rev' = [rev EXCEPT ![job[t].sym] = rev[job[t].sym] + 1]
      /\ pc' = [pc EXCEPT ![t] = "credit"]
      /\ lock' = [lock EXCEPT ![job[t].sym] = NoTask] /\ active' = active - 1
      /\ UNCHANGED <<pos, owner, cash, job, nextRow, reset, resets, crashes,
           orphaned>>
  <2>1. basis \in [Rows -> Nat]
    BY <1>t, Types
  <2>2. basis' = [r \in Rows |-> IF r \in {job[t].row} THEN left ELSE basis[r]]
    BY <1>m DEF CommitClose
  <2>3. basis' = [basis EXCEPT ![job[t].row] = left]
    BY <1>p, <2>1, <2>2
  <2> QED BY <2>3 DEF CommitClose, Bump, Goto, Release, gateVars
<1> HIDE DEF rest
<1>c. active' \in Nat
  BY <1>t, <1>p, <1>a, Types, SlotLeave DEF InSlot, SlotSteps
<1>1. TypeOK'
  BY <1>t, <1>a, <1>c, <1>s, <1>p, <1>n, <1>r, Types DEF TypeOK, Steps, SlotSteps
<1>2. LockOK'
  BY <1>t, <1>a, <1>s, <1>u, Types, Plain DEF LockOK, InSlot, SlotSteps
<1>3. ActiveOK'
  BY <1>t, <1>p, <1>a, Types, SlotLeave DEF InSlot, SlotSteps
<1> HIDE DEF left
<1>4. DbOK'
  <2>1. ASSUME NEW s \in Symbols, s # job[t].sym
        PROVE  /\ snap'[s] = snap[s]
               /\ snap[s].row # NoRow => basis'[snap[s].row] = basis[snap[s].row]
               /\ \A r \in Rows : owner[r] = s => basis'[r] = basis[r]
    BY <1>t, <1>a, <1>s, <1>p, <1>b, <1>w, <2>1, Types, Plain
  <2>2. /\ snap'[job[t].sym] = rest /\ basis'[job[t].row] = left
        /\ \A r \in Rows \ {job[t].row} : basis'[r] = basis[r]
    BY <1>t, <1>a, <1>s, <1>p, Types
  <2>3. ASSUME NEW s \in Symbols, s # job[t].sym
        PROVE  /\ snap'[s].row = NoRow => snap'[s].amt = 0
               /\ snap'[s].row # NoRow =>
                    snap'[s].amt > 0 /\ basis'[snap'[s].row] = snap'[s].amt
               /\ \A r \in Rows : (owner'[r] = s /\ basis'[r] > 0) <=> r = snap'[s].row
    <3>1. owner' = owner
      BY <1>a
    <3>2. /\ snap[s].row = NoRow => snap[s].amt = 0
          /\ snap[s].row # NoRow => snap[s].amt > 0 /\ basis[snap[s].row] = snap[s].amt
          /\ \A r \in Rows : (owner[r] = s /\ basis[r] > 0) <=> r = snap[s].row
      BY DEF DbOK
    <3>3. \A r \in Rows : r = snap[s].row => owner[r] = s
      BY <3>2
    <3> QED BY <2>1, <2>3, <3>1, <3>2, <3>3
  <2>4. /\ rest.row = NoRow => rest.amt = 0
        /\ rest.row # NoRow => rest.amt > 0 /\ basis'[rest.row] = rest.amt
        /\ \A r \in Rows :
             (owner'[r] = job[t].sym /\ basis'[r] > 0) <=> r = rest.row
    BY <1>a, <1>p, <1>b, <1>n, <1>r, <2>2, Plain
  <2> QED BY <2>2, <2>3, <2>4 DEF DbOK
<1>5. MemOK'
  BY <1>t, <1>a, <1>s, <1>p, Types DEF MemOK
<1>6. FreshOK'
  <2>1. \A r \in Rows : r >= nextRow' => basis'[r] = 0
    <3>1. ~(job[t].row >= nextRow)
      BY <1>t, <1>p, <1>b, Types, Plain DEF FreshOK
    <3> QED BY <1>t, <1>a, <1>p, <3>1, Types DEF FreshOK
  <2>2. \A u \in Tasks : pc'[u] \in Opening => pc[u] \in Opening
    BY <1>t, <1>a, Types DEF Opening
  <2>3. \A u \in Tasks : pc[u] \in Opening => basis'[job[u].row] = 0
    BY <1>t, <1>a, <1>p, <1>b, Types DEF FreshOK
  <2> QED BY <1>a, <2>1, <2>2, <2>3 DEF FreshOK
<1>7. TaskOK'
  BY <1>t, <1>a, <1>s, <1>u, <1>p, <1>n, Types
     DEF TaskOK, Paying, Closing, Own, InSlot, SlotSteps
<1>8. CloseOK'
  <2>1. \A u \in Tasks : pc'[u] = "close" => pc[u] = "close" /\ job'[u] = job[u]
    BY <1>t, <1>a, Types
  <2>2. \A u \in Tasks : pc[u] = "close" =>
          /\ job[u].obs <= rev'[job[u].sym]
          /\ rev'[job[u].sym] = job[u].obs => job[u].sym # job[t].sym
    BY <1>t, <1>a, <1>s, Types DEF CloseOK, TaskOK
  <2>3. \A u \in Tasks : pc[u] = "close" /\ job[u].sym # job[t].sym =>
          /\ rev'[job[u].sym] = rev[job[u].sym]
          /\ \A w \in Tasks : pc[w] = "closeRow" /\ job[w].sym = job[u].sym
               => pc'[w] = "closeRow"
    BY <1>t, <1>a, Types DEF TaskOK
  <2> QED BY <1>a, <2>1, <2>2, <2>3 DEF CloseOK
<1>9. EraseOK'
  BY <1>t, <1>p, <1>a, Types DEF EraseOK, Erasing, InSlot, SlotSteps
<1>10. InFlightIdentity'
  <2>1. Total(basis') = Total(basis) - job[t].back /\ Total(basis) \in Int
    <3>1. left \in Int /\ basis' = [basis EXCEPT ![job[t].row] = left]
      BY <1>a, <1>n
    <3>2. /\ Total(basis) \in Int
          /\ Total(basis') = Total(basis) - basis[job[t].row] + left
      BY <1>t, <1>p, <3>1, RowsMove, Zenon
    <3> QED BY <1>b, <1>n, <3>2 DEF left
  <2>2. Total(due') = Total(due) + job[t].back + p /\ Total(due) \in Int /\ p \in Int
    <3>1. /\ job[t].back + p \in Int /\ p \in Int
          /\ due' = [due EXCEPT ![t] = job[t].back + p]
      <4>1. p \in Int /\ job[t].back \in Int
        BY <1>n
      <4> QED BY <1>a, <4>1
    <3>2. /\ Total(due) \in Int
          /\ Total(due') = Total(due) - due[t] + (job[t].back + p)
      BY <1>t, <3>1, DueMoves, Zenon
    <3> QED BY <1>p, <1>n, <3>1, <3>2
  <2> QED BY <1>t, <1>a, <1>n, <2>1, <2>2, Types DEF InFlightIdentity, Erasing
<1> QED BY <1>1, <1>2, <1>3, <1>4, <1>5, <1>6, <1>7, <1>8, <1>9, <1>10

\* The credit of a close moves the cash, outside lock and slot.
LEMMA CreditPreserves ==
  ASSUME IInv, RowsNeverFail, NEW t \in Tasks, Credit(t)
  PROVE  IInv'
<1> USE DEF IInv
<1>t. TypeOK
  OBVIOUS
<1>a. /\ pc[t] = "credit"
      /\ cash' = cash + due[t] /\ due' = [due EXCEPT ![t] = 0]
      /\ pc' = [pc EXCEPT ![t] = "idle"] /\ job' = [job EXCEPT ![t] = NoJob]
      /\ UNCHANGED <<pos, rev, lock, active, owner, basis, snap, realised,
           nextRow, reset, resets, crashes, orphaned>>
  BY DEF Credit, Finish, bookVars, gateVars
<1>1. TypeOK'
  BY <1>t, <1>a, Types, Plain DEF TypeOK, Steps, SlotSteps
<1>2. LockOK'
  BY <1>t, <1>a, Types, Plain DEF LockOK, InSlot, SlotSteps
<1>3. ActiveOK'
  BY <1>t, <1>a, Types, SlotSame DEF InSlot, SlotSteps
<1>4. DbOK'
  BY <1>a DEF DbOK
<1>5. MemOK'
  BY <1>t, <1>a, Types DEF MemOK
<1>6. FreshOK'
  BY <1>t, <1>a, Types, Plain DEF FreshOK, Opening
<1>7. TaskOK'
  BY <1>t, <1>a, Types, Plain DEF TaskOK, Paying, Closing, Own
<1>8. CloseOK'
  BY <1>t, <1>a, Types, Plain DEF CloseOK
<1>9. EraseOK'
  BY <1>t, <1>a, Types, Plain DEF EraseOK, Erasing, InSlot, SlotSteps
<1>10. InFlightIdentity'
  <2>1. Total(due') = Total(due) - due[t] /\ Total(due) \in Int /\ due[t] \in Int
    <3>1. 0 \in Int /\ due[t] \in Int /\ due' = [due EXCEPT ![t] = 0]
      BY <1>t, <1>a, Types
    <3>2. Total(due) \in Int /\ Total(due') = Total(due) - due[t] + 0
      BY <1>t, <3>1, DueMoves, Zenon
    <3> QED BY <3>1, <3>2
  <2>2. Total(basis) \in Int
    BY <1>t, SumsAreIntegers
  <2> QED BY <1>t, <1>a, <2>1, <2>2, Types DEF InFlightIdentity, Erasing
<1> QED BY <1>1, <1>2, <1>3, <1>4, <1>5, <1>6, <1>7, <1>8, <1>9, <1>10

\* A failed credit orphans the debt.
LEMMA FailCreditPreserves ==
  ASSUME IInv, RowsNeverFail, NEW t \in Tasks, FailCredit(t)
  PROVE  IInv'
<1> USE DEF IInv
<1>t. TypeOK
  OBVIOUS
<1>a. /\ pc[t] = "credit"
      /\ orphaned' = orphaned - due[t] /\ due' = [due EXCEPT ![t] = 0]
      /\ pc' = [pc EXCEPT ![t] = "idle"] /\ job' = [job EXCEPT ![t] = NoJob]
      /\ UNCHANGED <<pos, rev, lock, active, owner, basis, snap, cash, realised,
           nextRow, reset, resets, crashes>>
  BY DEF FailCredit, Finish, bookVars, gateVars
<1>1. TypeOK'
  BY <1>t, <1>a, Types, Plain DEF TypeOK, Steps, SlotSteps
<1>2. LockOK'
  BY <1>t, <1>a, Types, Plain DEF LockOK, InSlot, SlotSteps
<1>3. ActiveOK'
  BY <1>t, <1>a, Types, SlotSame DEF InSlot, SlotSteps
<1>4. DbOK'
  BY <1>a DEF DbOK
<1>5. MemOK'
  BY <1>t, <1>a, Types DEF MemOK
<1>6. FreshOK'
  BY <1>t, <1>a, Types, Plain DEF FreshOK, Opening
<1>7. TaskOK'
  BY <1>t, <1>a, Types, Plain DEF TaskOK, Paying, Closing, Own
<1>8. CloseOK'
  BY <1>t, <1>a, Types, Plain DEF CloseOK
<1>9. EraseOK'
  BY <1>t, <1>a, Types, Plain DEF EraseOK, Erasing, InSlot, SlotSteps
<1>10. InFlightIdentity'
  <2>1. Total(due') = Total(due) - due[t] /\ Total(due) \in Int /\ due[t] \in Int
    <3>1. 0 \in Int /\ due[t] \in Int /\ due' = [due EXCEPT ![t] = 0]
      BY <1>t, <1>a, Types
    <3>2. Total(due) \in Int /\ Total(due') = Total(due) - due[t] + 0
      BY <1>t, <3>1, DueMoves, Zenon
    <3> QED BY <3>1, <3>2
  <2>2. Total(basis) \in Int
    BY <1>t, SumsAreIntegers
  <2>3. cash \in Int /\ orphaned \in Int /\ realised \in Int
    BY <1>t, Types
  <2> QED BY <1>a, <2>1, <2>2, <2>3 DEF InFlightIdentity, Erasing
<1> QED BY <1>1, <1>2, <1>3, <1>4, <1>5, <1>6, <1>7, <1>8, <1>9, <1>10

\* Closing the gate touches no book.
LEMMA CloseGatePreserves ==
  ASSUME IInv, RowsNeverFail, CloseGate
  PROVE  IInv'
<1> USE DEF IInv
<1>t. TypeOK
  OBVIOUS
<1>a. /\ reset = "none" /\ reset' = "drain" /\ resets' = resets + 1
      /\ UNCHANGED <<pos, rev, lock, active, owner, basis, snap, cash, realised,
           pc, job, due, nextRow, crashes, orphaned>>
  BY DEF CloseGate, bookVars
<1>1. TypeOK'
  BY <1>t, <1>a DEF TypeOK
<1>2. LockOK' /\ ActiveOK'
  BY <1>a DEF LockOK, ActiveOK, InSlot
<1>3. DbOK' /\ MemOK'
  BY <1>a DEF DbOK, MemOK
<1>4. FreshOK' /\ TaskOK' /\ CloseOK'
  BY <1>a DEF FreshOK, TaskOK, CloseOK, Own
<1>5. EraseOK' /\ InFlightIdentity'
  BY <1>a DEF EraseOK, InFlightIdentity, Erasing
<1> QED BY <1>1, <1>2, <1>3, <1>4, <1>5

\* With no slot taken nobody holds a lock.
LEMMA NobodyInside ==
  ASSUME IInv, active = 0
  PROVE  \A t \in Tasks : ~InSlot(t)
<1> DEFINE S == {t \in Tasks : InSlot(t)}
<1>1. IsFiniteSet(S)
  BY FS_Subset
<1>2. Cardinality(S) = 0
  BY DEF IInv, ActiveOK
<1>3. S = {}
  <2> HIDE DEF S
  <2> QED BY <1>1, <1>2, FS_EmptySet
<1> QED BY <1>3

\* The erase happens with nobody inside and leaves no row.
LEMMA EraseRowsPreserves ==
  ASSUME IInv, RowsNeverFail, EraseRows
  PROVE  IInv'
<1>q. \A t \in Tasks : ~InSlot(t)
  BY NobodyInside DEF EraseRows
<1> USE DEF IInv
<1>t. TypeOK
  OBVIOUS
<1>a. /\ reset = "drain" /\ reset' = "erased"
      /\ basis' = [r \in Rows |-> 0] /\ realised' = 0
      /\ snap' = [s \in Symbols |-> NoPosition]
      /\ UNCHANGED <<pos, rev, lock, active, owner, cash, pc, job, due, nextRow,
           resets, crashes, orphaned>>
  BY DEF EraseRows
<1>1. TypeOK'
  BY <1>t, <1>a, Plain DEF TypeOK
<1>2. LockOK' /\ ActiveOK'
  BY <1>a DEF LockOK, ActiveOK, InSlot
<1>3. DbOK'
  BY <1>a, Plain DEF DbOK
<1>4. MemOK'
  BY <1>a DEF MemOK
<1>5. FreshOK'
  BY <1>a DEF FreshOK
<1>6. TaskOK'
  BY <1>a, <1>q DEF TaskOK, InSlot, SlotSteps, Paying, Closing
<1>7. CloseOK'
  BY <1>a DEF CloseOK
<1>8. EraseOK'
  BY <1>a, <1>q DEF EraseOK, InSlot
<1>9. InFlightIdentity'
  BY <1>a DEF InFlightIdentity, Erasing
<1> QED BY <1>1, <1>2, <1>3, <1>4, <1>5, <1>6, <1>7, <1>8, <1>9

\* With no open row no snapshot is left.
LEMMA NoRowsNoSnapshots ==
  ASSUME TypeOK, DbOK, \A r \in Rows : basis[r] = 0
  PROVE  \A s \in Symbols : snap[s] = NoPosition
<1>1. ASSUME NEW s \in Symbols
      PROVE  snap[s].row = NoRow /\ snap[s].amt = 0
  <2>1. snap[s].row \in Rows \cup {NoRow}
    BY Types
  <2>2. CASE snap[s].row \in Rows
    <3>1. basis[snap[s].row] = snap[s].amt /\ snap[s].amt > 0
      BY <2>2, Plain DEF DbOK
    <3> QED BY <2>2, <3>1
  <2>3. CASE snap[s].row = NoRow
    BY <2>3 DEF DbOK
  <2> QED BY <2>1, <2>2, <2>3
<1> QED BY <1>1, Types, Plain, SamePosition

\* Clearing the memory brings it in line with the empty tables.
LEMMA ClearMemoryPreserves ==
  ASSUME IInv, RowsNeverFail, ClearMemory
  PROVE  IInv'
<1> USE DEF IInv
<1>t. TypeOK
  OBVIOUS
<1>a. /\ reset = "erased" /\ reset' = "cleared"
      /\ pos' = [s \in Symbols |-> NoPosition]
      /\ rev' = [s \in Symbols |-> IF rev[s] > 0 THEN rev[s] + 1 ELSE 0]
      /\ UNCHANGED <<lock, active, owner, basis, snap, cash, realised, pc, job,
           due, nextRow, resets, crashes, orphaned>>
  BY DEF ClearMemory, bookVars
<1>q. (\A t \in Tasks : ~InSlot(t)) /\ (\A r \in Rows : basis[r] = 0)
  BY <1>a DEF EraseOK, Erasing
<1>1. TypeOK'
  BY <1>t, <1>a, Types, Plain DEF TypeOK
<1>2. LockOK' /\ ActiveOK'
  BY <1>a DEF LockOK, ActiveOK, InSlot
<1>3. DbOK'
  BY <1>a DEF DbOK
<1>4. MemOK'
  BY <1>t, <1>a, <1>q, NoRowsNoSnapshots DEF MemOK
<1>5. FreshOK'
  BY <1>a DEF FreshOK
<1>6. TaskOK'
  BY <1>a, <1>q DEF TaskOK, InSlot, SlotSteps, Paying, Closing
<1>7. CloseOK'
  <2>1. \A s \in Symbols : rev'[s] >= rev[s] /\ pos'[s].row = NoRow
                           /\ rev[s] \in Nat /\ rev'[s] \in Nat
    BY <1>t, <1>a, Types, Plain
  <2>2. \A u \in Tasks : pc[u] = "close" =>
          /\ job[u].sym \in Symbols /\ job[u].back > 0
          /\ job[u].obs <= rev[job[u].sym] /\ job[u].obs \in Nat
    BY <1>t, Types DEF CloseOK, TaskOK
  <2>3. \A u \in Tasks : pc[u] = "close" => job[u].obs <= rev'[job[u].sym]
    BY <2>1, <2>2
  <2> QED BY <1>a, <2>1, <2>2, <2>3 DEF CloseOK
<1>8. EraseOK'
  BY <1>a, <1>q DEF EraseOK, Erasing, InSlot
<1>9. InFlightIdentity'
  BY <1>a DEF InFlightIdentity, Erasing
<1> QED BY <1>1, <1>2, <1>3, <1>4, <1>5, <1>6, <1>7, <1>8, <1>9

\* The initial balance comes back when nobody owes anything.
LEMMA RestoreBalancePreserves ==
  ASSUME IInv, RowsNeverFail, RestoreBalance
  PROVE  IInv'
<1> USE DEF IInv
<1>t. TypeOK
  OBVIOUS
<1>a. /\ reset = "cleared" /\ reset' = "none"
      /\ \A t \in Tasks : pc[t] # "credit"
      /\ cash' = InitialBalance /\ orphaned' = 0
      /\ UNCHANGED <<pos, rev, lock, active, owner, basis, snap, realised, pc,
           job, due, nextRow, resets, crashes>>
  BY DEF RestoreBalance, bookVars
<1>q. /\ \A t \in Tasks : ~InSlot(t)
      /\ \A r \in Rows : basis[r] = 0
      /\ realised = 0
  BY <1>a DEF EraseOK, Erasing
<1>1. TypeOK'
  BY <1>t, <1>a DEF TypeOK
<1>2. LockOK' /\ ActiveOK'
  BY <1>a DEF LockOK, ActiveOK, InSlot
<1>3. DbOK' /\ MemOK'
  BY <1>a DEF DbOK, MemOK
<1>4. FreshOK' /\ TaskOK' /\ CloseOK'
  BY <1>a DEF FreshOK, TaskOK, CloseOK, Own
<1>5. EraseOK'
  BY <1>a DEF EraseOK, Erasing
<1>6. InFlightIdentity'
  <2>1. \A t \in Tasks : due[t] = 0
    BY <1>a, <1>q DEF TaskOK, InSlot, SlotSteps, Paying
  <2>2. due \in [Tasks -> Int] /\ basis \in [Rows -> Int]
    BY <1>t, Types
  <2>3. Total(due) = 0
    BY ONLY <2>1, <2>2, TotalZero
  <2>4. Total(basis) = 0
    BY ONLY <1>q, <2>2, TotalZero
  <2> QED BY <1>a, <1>q, <2>3, <2>4 DEF InFlightIdentity
<1> QED BY <1>1, <1>2, <1>3, <1>4, <1>5, <1>6

\* What a restart rebuilds is the snapshot.
LEMMA RestoredIsSnapshot ==
  ASSUME TypeOK, DbOK, NEW s \in Symbols
  PROVE  Restored(s) = snap[s]
<1>1. CASE snap[s].row = NoRow
  <2>1. OpenRows(s) = {}
    <3>1. \A r \in Rows : ~(owner[r] = s /\ basis[r] > 0)
      BY <1>1, Plain DEF DbOK
    <3> QED BY <3>1 DEF OpenRows
  <2>2. snap[s].amt = 0
    BY <1>1 DEF DbOK
  <2>3. snap[s] = NoPosition
    BY <1>1, <2>2, Types, Plain, SamePosition
  <2> QED BY <2>1, <2>3 DEF Restored
<1>2. CASE snap[s].row # NoRow
  <2>1. snap[s].row \in Rows /\ basis[snap[s].row] = snap[s].amt
    BY <1>2, Types DEF DbOK
  <2>2. OpenRows(s) = {snap[s].row}
    BY <2>1 DEF DbOK, OpenRows
  <2>3. LedgerRow(s) = snap[s].row
    BY <2>2 DEF LedgerRow
  <2>4. RestoredRow(s) = snap[s].row
    BY <1>2, <2>1, <2>3 DEF RestoredRow
  <2>5. Restored(s) = [row |-> snap[s].row, amt |-> snap[s].amt]
    BY <2>1, <2>2, <2>4 DEF Restored
  <2> QED BY <2>5, Types DEF Position
<1> QED BY <1>1, <1>2

\* A restart keeps what the rows say, and the lost movements are orphaned.
LEMMA CrashAndRestartPreserves ==
  ASSUME IInv, RowsNeverFail, CrashAndRestart
  PROVE  IInv'
<1> USE DEF IInv
<1>t. TypeOK
  OBVIOUS
<1>a. /\ crashes' = crashes + 1 /\ reset' = "none" /\ active' = 0
      /\ pos' = [s \in Symbols |-> snap[s]] /\ rev' = [s \in Symbols |-> 0]
      /\ lock' = [s \in Symbols |-> NoTask]
      /\ pc' = [t \in Tasks |-> "idle"] /\ job' = [t \in Tasks |-> NoJob]
      /\ due' = [t \in Tasks |-> 0]
      /\ UNCHANGED <<owner, basis, snap, realised, nextRow, resets>>
  <2>1. [s \in Symbols |-> Restored(s)] = [s \in Symbols |-> snap[s]]
    BY RestoredIsSnapshot
  <2> QED BY <2>1 DEF CrashAndRestart, bookVars
<1>b. \/ /\ cash' = InitialBalance - Total(basis) + realised
         /\ orphaned' = 0
      \/ /\ cash' = cash
         /\ orphaned' = IF reset \in {"erased", "cleared"}
                          THEN cash - InitialBalance
                          ELSE orphaned - Total(due)
  BY DEF CrashAndRestart
<1>c. /\ Total(basis) \in Int /\ Total(due) \in Int
      /\ cash \in Int /\ orphaned \in Int /\ realised \in Int
      /\ InitialBalance \in Int
  BY <1>t, Types, SumsAreIntegers
<1>1. TypeOK'
  <2>1. cash' \in Int /\ orphaned' \in Int
    BY <1>b, <1>c
  <2> QED BY <1>t, <1>a, <2>1, Types, Plain DEF TypeOK, Steps
<1>2. LockOK'
  BY <1>a, Plain DEF LockOK, InSlot, SlotSteps
<1>3. ActiveOK'
  <2>1. {t \in Tasks : InSlot(t)'} = {}
    BY <1>a DEF InSlot, SlotSteps
  <2> QED BY <1>a, <2>1, FS_EmptySet DEF ActiveOK
<1>4. DbOK' /\ MemOK'
  BY <1>t, <1>a, Types DEF DbOK, MemOK
<1>5. FreshOK'
  BY <1>a DEF FreshOK, Opening
<1>6. TaskOK'
  BY <1>a DEF TaskOK, Paying, Closing
<1>7. CloseOK'
  BY <1>a DEF CloseOK
<1>8. EraseOK'
  BY <1>a DEF EraseOK, Erasing
<1>9. InFlightIdentity'
  <2>1. due' \in [Tasks -> Int] /\ \A t \in Tasks : due'[t] = 0
    BY <1>a
  <2>2. Total(due') = 0
    BY ONLY <2>1, TotalZero
  <2>3. Erasing => Total(basis) = 0 /\ realised = 0
    <3>1. basis \in [Rows -> Int]
      BY <1>t, Types
    <3> QED BY <3>1, TotalZero DEF EraseOK
  <2>4. basis' = basis /\ realised' = realised /\ reset' = "none"
    BY <1>a
  <2>5. cash' + Total(basis) = InitialBalance + realised + orphaned'
    BY <1>b, <1>c, <2>3 DEF InFlightIdentity, Erasing
  <2>6. Total(basis') = Total(basis)
    BY <2>4
  <2>7. cash' \in Int /\ orphaned' \in Int
    BY <1>b, <1>c
  <2>8. cash' + Total(due') + Total(basis') = InitialBalance + realised' + orphaned'
    BY ONLY <1>c, <2>2, <2>4, <2>5, <2>6, <2>7
  <2> QED BY <2>8 DEF InFlightIdentity
<1> QED BY <1>1, <1>2, <1>3, <1>4, <1>5, <1>6, <1>7, <1>8, <1>9

\* Nothing has happened yet.
LEMMA InitEstablishes == Init => IInv
<1> SUFFICES ASSUME Init PROVE IInv
  OBVIOUS
<1> USE DEF Init
<1>1. TypeOK
  BY Plain DEF TypeOK, Steps
<1>2. LockOK
  BY Plain DEF LockOK, InSlot, SlotSteps
<1>3. ActiveOK
  <2>1. {t \in Tasks : InSlot(t)} = {}
    BY DEF InSlot, SlotSteps
  <2> QED BY <2>1, FS_EmptySet DEF ActiveOK
<1>4. DbOK /\ MemOK
  BY Plain DEF DbOK, MemOK
<1>5. FreshOK
  BY DEF FreshOK, Opening
<1>6. TaskOK /\ CloseOK
  BY DEF TaskOK, CloseOK, Paying, Closing
<1>7. EraseOK
  BY DEF EraseOK, Erasing
<1>8. InFlightIdentity
  <2>1. due \in [Tasks -> Int] /\ \A t \in Tasks : due[t] = 0
    OBVIOUS
  <2>2. basis \in [Rows -> Int] /\ \A r \in Rows : basis[r] = 0
    OBVIOUS
  <2>3. Total(due) = 0 /\ Total(basis) = 0
    BY ONLY <2>1, <2>2, TotalZero
  <2> QED BY <2>3 DEF InFlightIdentity
<1> QED BY <1>1, <1>2, <1>3, <1>4, <1>5, <1>6, <1>7, <1>8 DEF IInv

\* Every step preserves the inductive invariant.
LEMMA StepPreserves == IInv /\ RowsNeverFail /\ [Next]_vars => IInv'
<1> SUFFICES ASSUME IInv, RowsNeverFail, [Next]_vars PROVE IInv'
  OBVIOUS
<1>0. CASE UNCHANGED vars
  BY <1>0 DEF vars, bookVars, gateVars, IInv, TypeOK, LockOK, ActiveOK, DbOK,
     MemOK, FreshOK, TaskOK, CloseOK, EraseOK, InFlightIdentity, Erasing,
     InSlot, Own
<1>1. ASSUME NEW t \in Tasks, Request(t) PROVE IInv'
  BY <1>1, OpenRequestPreserves, CloseRequestPreserves DEF Request
<1>2. ASSUME NEW t \in Tasks, OpenStep(t) PROVE IInv'
  <2>1. ~FailOpen(t)
    BY DEF RowsNeverFail, FailOpen
  <2> QED BY <1>2, <2>1, RefuseOpenPreserves, EnterOpenPreserves,
             FillOpenPreserves, CommitOpenPreserves, PayOpenPreserves,
             FailPayPreserves, UndoOpenPreserves, FailUndoPreserves DEF OpenStep
<1>3. ASSUME NEW t \in Tasks, CloseStep(t) PROVE IInv'
  <2>1. ~FailClose(t)
    BY DEF RowsNeverFail, FailClose
  <2> QED BY <1>3, <2>1, RefuseClosePreserves, EnterClosePreserves,
             MemClosePreserves, CommitClosePreserves, CreditPreserves,
             FailCreditPreserves DEF CloseStep
<1>4. CASE ResetStep
  BY <1>4, CloseGatePreserves, EraseRowsPreserves, ClearMemoryPreserves,
     RestoreBalancePreserves DEF ResetStep
<1>5. CASE CrashAndRestart
  BY <1>5, CrashAndRestartPreserves
<1>6. CASE Quiet
  BY <1>0, <1>6 DEF Quiet
<1> QED BY <1>0, <1>1, <1>2, <1>3, <1>4, <1>5, <1>6 DEF Next

\* The inductive invariant holds for ever, whatever the symbols, the tasks, the
\* amounts and the number of opens, resets, failed payments and crashes.
THEOREM Invariance == ASSUME RowsNeverFail PROVE Spec => []IInv
<1>1. Init => IInv
  BY InitEstablishes
<1>2. IInv /\ [Next]_vars => IInv'
  BY StepPreserves
<1> QED BY <1>1, <1>2, PTL DEF Spec

\* The type invariant.
THEOREM TypeCorrect == ASSUME RowsNeverFail PROVE Spec => []TypeOK
<1>1. IInv => TypeOK
  BY DEF IInv
<1> QED BY <1>1, Invariance, PTL

\* No interleaving of opens, closes, reduces, failed payments, resets and
\* crashes creates or destroys money: executor.py and its callers.
THEOREM MoneyIsConserved == ASSUME RowsNeverFail PROVE Spec => []InFlightIdentity
<1>1. IInv => InFlightIdentity
  BY DEF IInv
<1> QED BY <1>1, Invariance, PTL

\* Memory, snapshot and open row of an unlocked symbol agree, so a restart
\* rebuilds what the running process had.
THEOREM BooksAlwaysAgree == ASSUME RowsNeverFail PROVE Spec => []BooksAgree
<1>1. IInv => BooksAgree
  <2> SUFFICES ASSUME IInv, ~Erasing, NEW s \in Symbols, lock[s] = NoTask
               PROVE  /\ snap[s] = pos[s]
                      /\ OpenRows(s) =
                           (IF pos[s].row = NoRow THEN {} ELSE {pos[s].row})
                      /\ pos[s].row # NoRow => basis[pos[s].row] = pos[s].amt
    BY DEF BooksAgree
  <2>1. snap[s] = pos[s]
    BY DEF IInv, MemOK, Erasing
  <2>2. /\ snap[s].row # NoRow => basis[snap[s].row] = snap[s].amt
        /\ \A r \in Rows : r \in OpenRows(s) <=> r = snap[s].row
    BY DEF IInv, DbOK, OpenRows
  <2>3. snap[s].row \in Rows \cup {NoRow} /\ NoRow \notin Rows
    BY Types, Plain DEF IInv
  <2>4. OpenRows(s) \subseteq Rows
    BY DEF OpenRows
  <2> QED BY <2>1, <2>2, <2>3, <2>4
<1> QED BY <1>1, Invariance, PTL

\* The revision check of close_position is enough: a close that goes ahead acts
\* on the position its caller saw.
THEOREM ClosesAreNeverStale ==
  ASSUME RowsNeverFail PROVE Spec => []CloseActsOnWhatItSaw
<1>1. IInv => CloseActsOnWhatItSaw
  BY DEF IInv, TaskOK, Own, CloseActsOnWhatItSaw
<1> QED BY <1>1, Invariance, PTL

\* The reset barrier is enough: nobody is inside from the erase to the restore.
THEOREM ResetIsExclusive == ASSUME RowsNeverFail PROVE Spec => []ResetWindowIsQuiet
<1>1. IInv => ResetWindowIsQuiet
  <2> SUFFICES ASSUME IInv, Erasing
               PROVE  /\ \A t \in Tasks : ~InSlot(t)
                      /\ Total(basis) = 0 /\ realised = 0
    BY DEF ResetWindowIsQuiet
  <2>1. /\ \A t \in Tasks : ~InSlot(t)
        /\ \A r \in Rows : basis[r] = 0
        /\ realised = 0
    BY DEF IInv, EraseOK
  <2>2. basis \in [Rows -> Int]
    BY Types DEF IInv
  <2>3. Total(basis) = 0
    BY ONLY <2>1, <2>2, TotalZero
  <2> QED BY <2>1, <2>3
<1> QED BY <1>1, Invariance, PTL

\* What is kept when money is never lost.
NothingLost == orphaned = 0 /\ crashes = 0

\* When neither the credits nor the undos fail and the process does not crash,
\* the identity of tests/test_ledger_invariant.py holds whenever nobody is at work.
THEOREM SettledBooks ==
  ASSUME RowsNeverFail, MoneyNeverLost PROVE Spec => []SettledIdentity
<1>1. Init => NothingLost
  BY DEF Init, NothingLost
<1>2. NothingLost /\ [Next]_vars => NothingLost'
  <2> SUFFICES ASSUME orphaned = 0, crashes = 0, [Next]_vars
               PROVE  orphaned' = 0 /\ crashes' = 0
    BY DEF NothingLost
  <2>1. ASSUME NEW t \in Tasks, Request(t) PROVE orphaned' = 0 /\ crashes' = 0
    BY <2>1 DEF Request, OpenRequest, CloseRequest
  <2>2. ASSUME NEW t \in Tasks, OpenStep(t) PROVE orphaned' = 0 /\ crashes' = 0
    BY <2>2 DEF OpenStep, RefuseOpen, EnterOpen, FillOpen, CommitOpen, FailOpen,
       PayOpen, FailPay, UndoOpen, FailUndo, MoneyNeverLost
  <2>3. ASSUME NEW t \in Tasks, CloseStep(t) PROVE orphaned' = 0 /\ crashes' = 0
    BY <2>3 DEF CloseStep, RefuseClose, EnterClose, MemClose, CommitClose,
       FailClose, Credit, FailCredit, MoneyNeverLost
  <2>4. CASE ResetStep
    BY <2>4 DEF ResetStep, CloseGate, EraseRows, ClearMemory, RestoreBalance
  <2>5. ~CrashAndRestart
    BY DEF CrashAndRestart, MoneyNeverLost
  <2>6. CASE UNCHANGED vars
    BY <2>6 DEF vars
  <2> QED BY <2>1, <2>2, <2>3, <2>4, <2>5, <2>6 DEF Next, Quiet
<1>3. IInv /\ NothingLost => SettledIdentity
  <2> SUFFICES ASSUME IInv, orphaned = 0, reset = "none",
                      \A t \in Tasks : pc[t] = "idle"
               PROVE  InitialBalance - Total(basis) + realised = cash
    BY DEF SettledIdentity, NothingLost
  <2>1. (\A t \in Tasks : due[t] = 0) /\ due \in [Tasks -> Int]
    BY Types DEF IInv, TaskOK, Paying
  <2>2. Total(due) = 0
    BY ONLY <2>1, TotalZero
  <2>3. cash + Total(due) + Total(basis) = InitialBalance + realised + orphaned
    BY DEF IInv, InFlightIdentity, Erasing
  <2>4. Total(basis) \in Int /\ cash \in Int /\ realised \in Int
    BY Types, SumsAreIntegers DEF IInv
  <2> QED BY <2>2, <2>3, <2>4
<1> QED BY <1>1, <1>2, <1>3, Invariance, PTL DEF Spec

\* Seen from the rows, the wallet is what conservation says it is.
LEMMA ImpliedWallet ==
  IInv => Implied = InitialBalance + realised - Total(basis)
<1> SUFFICES ASSUME IInv
             PROVE  Implied = InitialBalance + realised - Total(basis)
  OBVIOUS
<1>1. /\ Total(basis) \in Int /\ Total(due) \in Int
      /\ cash \in Int /\ realised \in Int /\ orphaned \in Int
  BY Types, SumsAreIntegers DEF IInv
<1>2. CASE Erasing
  <2>1. /\ \A r \in Rows : basis[r] = 0
        /\ realised = 0 /\ basis \in [Rows -> Int]
    BY <1>2, Types DEF IInv, EraseOK
  <2>2. Total(basis) = 0
    BY ONLY <2>1, TotalZero
  <2> QED BY <1>1, <1>2, <2>1, <2>2 DEF Implied
<1>3. CASE ~Erasing
  BY <1>1, <1>3 DEF Implied, IInv, InFlightIdentity
<1> QED BY <1>1, <1>2, <1>3

LEMMA ImpliedWalletNext ==
  IInv' => (Implied = InitialBalance + realised - Total(basis))'
BY ImpliedWallet, PTL

\* The open commits: cash goes into a fresh row.
LEMMA CommitOpenInvests ==
  ASSUME IInv, IInv', NEW t \in Tasks, CommitOpen(t)
  PROVE  Account!Invest(job[t].row) /\ job[t].row \in Rows
<1>t. TypeOK /\ TypeOK'
  BY DEF IInv
<1>1. /\ basis' = [basis EXCEPT ![job[t].row] = job[t].amt]
      /\ realised' = realised /\ job[t].row \in Rows
      /\ basis[job[t].row] = 0 /\ job[t].amt > 0
  BY DEF CommitOpen, IInv, FreshOK, Opening
<1>2. basis'[job[t].row] = job[t].amt /\ job[t].amt \in Int
  BY <1>t, <1>1, Types
<1>3. Total(basis') = Total(basis) - basis[job[t].row] + job[t].amt
  BY <1>t, <1>1, <1>2, RowsMove, Zenon
<1>4. Implied' = InitialBalance + realised' - Total(basis')
  BY ImpliedWalletNext
<1>5. /\ Implied = InitialBalance + realised - Total(basis)
      /\ Total(basis) \in Int /\ realised \in Int
  BY <1>t, ImpliedWallet, Types, SumsAreIntegers
<1>6. Implied' = Implied - basis'[job[t].row]
  BY <1>1, <1>2, <1>3, <1>4, <1>5
<1> QED BY <1>1, <1>2, <1>6 DEF Account!Invest, Account!OnlyRow

\* The undo takes the whole row back.
LEMMA UndoOpenWithdraws ==
  ASSUME IInv, IInv', NEW t \in Tasks, UndoOpen(t)
  PROVE  Account!Withdraw(job[t].row) /\ job[t].row \in Rows
<1>t. TypeOK /\ TypeOK'
  BY DEF IInv
<1>1. /\ basis' = [basis EXCEPT ![job[t].row] = 0]
      /\ realised' = realised /\ job[t].row \in Rows
  BY DEF UndoOpen, IInv, TaskOK, Paying
<1>2. basis'[job[t].row] = 0 /\ basis[job[t].row] > 0 /\ basis[job[t].row] \in Int
  <2>1. /\ job[t].sym \in Symbols /\ snap[job[t].sym].row = job[t].row
        /\ job[t].row # NoRow
    <3>1. job[t].sym \in Symbols /\ snap[job[t].sym] = Own(t)
      BY DEF UndoOpen, IInv, TaskOK, Paying
    <3> QED BY <1>1, <3>1, Plain DEF Own
  <2>2. basis[job[t].row] > 0
    BY <2>1 DEF IInv, DbOK
  <2> QED BY <1>t, <1>1, <2>2, Types
<1>3. Total(basis') = Total(basis) - basis[job[t].row] + 0
  <2>1. 0 \in Int
    OBVIOUS
  <2> QED BY <1>t, <1>1, <2>1, RowsMove, Zenon
<1>4. Implied' = InitialBalance + realised' - Total(basis')
  BY ImpliedWalletNext
<1>5. /\ Implied = InitialBalance + realised - Total(basis)
      /\ Total(basis) \in Int /\ realised \in Int
  BY <1>t, ImpliedWallet, Types, SumsAreIntegers
<1>6. Implied' = Implied + basis[job[t].row]
  BY <1>1, <1>2, <1>3, <1>4, <1>5
<1> QED BY <1>1, <1>2, <1>6 DEF Account!Withdraw, Account!OnlyRow

\* The close commits: what leaves the row and what was won or lost reach the
\* wallet.
LEMMA CommitCloseSettles ==
  ASSUME IInv, IInv', NEW t \in Tasks, NEW p \in Pnls, CommitClose(t, p)
  PROVE  Account!Settle(job[t].row) /\ job[t].row \in Rows
<1> DEFINE left == job[t].amt - job[t].back
<1>t. TypeOK /\ TypeOK'
  BY DEF IInv
<1>0. /\ job[t].row \in Rows /\ job[t].sym \in Symbols
      /\ snap[job[t].sym] = Own(t) /\ 0 < job[t].back /\ job[t].back <= job[t].amt
  BY DEF CommitClose, IInv, TaskOK, Closing
<1>1. basis[job[t].row] = job[t].amt /\ job[t].amt > 0
  <2>1. /\ snap[job[t].sym].row = job[t].row /\ snap[job[t].sym].amt = job[t].amt
        /\ job[t].row # NoRow
    BY <1>0, Plain DEF Own
  <2> QED BY <1>0, <2>1 DEF IInv, DbOK
<1>2. left \in Int /\ 0 <= left /\ left < job[t].amt
  BY <1>t, <1>0, Types
<1>3. basis' = [basis EXCEPT ![job[t].row] = left]
  <2>1. basis' = [r \in Rows |-> IF r \in {job[t].row} THEN left ELSE basis[r]]
    BY <1>1 DEF CommitClose, Matched
  <2>2. basis \in [Rows -> Nat]
    BY <1>t, Types
  <2> QED BY <1>0, <2>1, <2>2
<1>4. basis'[job[t].row] = left
  BY <1>t, <1>0, <1>3, Types
<1> HIDE DEF left
<1>5. Total(basis') = Total(basis) - basis[job[t].row] + left
  BY <1>t, <1>0, <1>2, <1>3, RowsMove, Zenon
<1>6. Implied' = InitialBalance + realised' - Total(basis')
  BY ImpliedWalletNext
<1>7. /\ Implied = InitialBalance + realised - Total(basis)
      /\ Total(basis) \in Int /\ realised \in Int /\ realised' \in Int
      /\ basis[job[t].row] \in Int
  BY <1>t, <1>0, ImpliedWallet, Types, SumsAreIntegers DEF TypeOK
<1>8. Implied' = Implied + (basis[job[t].row] - basis'[job[t].row])
                         + (realised' - realised)
  BY <1>2, <1>4, <1>5, <1>6, <1>7
<1> QED BY <1>0, <1>1, <1>2, <1>3, <1>4, <1>8 DEF Account!Settle, Account!OnlyRow

\* The erase starts the account over.
LEMMA EraseRowsStartsOver ==
  ASSUME IInv', EraseRows
  PROVE  Account!StartOver
<1>1. basis' = [r \in Rows |-> 0] /\ realised' = 0 /\ Implied' = InitialBalance
  BY DEF EraseRows, Implied, Erasing
<1> QED BY <1>1 DEF Account!StartOver, Account!Fresh

\* A step that leaves basis and realised alone is invisible to the account.
LEMMA SameBook ==
  ASSUME IInv, IInv', UNCHANGED <<basis, realised>>
  PROVE  UNCHANGED Account!ledgerVars
<1>1. Implied' = InitialBalance + realised' - Total(basis')
  BY ImpliedWalletNext
<1>2. Implied = InitialBalance + realised - Total(basis)
  BY ImpliedWallet
<1> QED BY <1>1, <1>2 DEF Account!ledgerVars

\* Every step of the tasks is one step of the account, or none.
LEMMA StepMaps ==
  ASSUME IInv, IInv', RowsNeverFail, [Next]_vars
  PROVE  [Account!LedgerNext]_(Account!ledgerVars)
<1>0. CASE UNCHANGED <<basis, realised>>
  BY <1>0, SameBook
<1>1. ASSUME NEW t \in Tasks, Request(t) PROVE UNCHANGED <<basis, realised>>
  BY <1>1 DEF Request, OpenRequest, CloseRequest, bookVars
<1>2. ASSUME NEW t \in Tasks, OpenStep(t)
      PROVE  UNCHANGED <<basis, realised>> \/ Account!LedgerNext
  <2>1. CASE CommitOpen(t)
    BY <2>1, CommitOpenInvests DEF Account!LedgerNext
  <2>2. CASE UndoOpen(t)
    BY <2>2, UndoOpenWithdraws DEF Account!LedgerNext
  <2>3. CASE ~CommitOpen(t) /\ ~UndoOpen(t)
    BY <1>2, <2>3 DEF OpenStep, RefuseOpen, EnterOpen, FillOpen, FailOpen,
       PayOpen, FailPay, FailUndo, bookVars
  <2> QED BY <2>1, <2>2, <2>3
<1>3. ASSUME NEW t \in Tasks, CloseStep(t)
      PROVE  UNCHANGED <<basis, realised>> \/ Account!LedgerNext
  <2>1. ASSUME NEW p \in Pnls, CommitClose(t, p) PROVE Account!LedgerNext
    BY <2>1, CommitCloseSettles DEF Account!LedgerNext
  <2>2. CASE ~(\E p \in Pnls : CommitClose(t, p))
    BY <1>3, <2>2 DEF CloseStep, RefuseClose, EnterClose, MemClose, FailClose,
       Credit, FailCredit, bookVars
  <2> QED BY <2>1, <2>2
<1>4. ASSUME ResetStep PROVE UNCHANGED <<basis, realised>> \/ Account!LedgerNext
  <2>1. CASE EraseRows
    BY <2>1, EraseRowsStartsOver DEF Account!LedgerNext
  <2>2. CASE ~EraseRows
    BY <1>4, <2>2 DEF ResetStep, CloseGate, ClearMemory, RestoreBalance, bookVars
  <2> QED BY <2>1, <2>2
<1>5. CASE CrashAndRestart
  BY <1>0, <1>5 DEF CrashAndRestart, bookVars
<1>6. CASE UNCHANGED vars
  BY <1>0, <1>6 DEF vars, bookVars
<1> QED BY <1>0, <1>1, <1>2, <1>3, <1>4, <1>5, <1>6 DEF Next, Quiet

\* The interleaved tasks implement the atomic account of module Ledger.
THEOREM Refinement == ASSUME RowsNeverFail PROVE Spec => ImplementsLedger
<1>1. Init => Account!LedgerInit
  <2> SUFFICES ASSUME Init PROVE Account!LedgerInit
    OBVIOUS
  <2>1. basis = [r \in Rows |-> 0] /\ realised = 0
    BY DEF Init
  <2>2. due \in [Tasks -> Int] /\ \A t \in Tasks : due[t] = 0
    BY DEF Init
  <2>3. Total(due) = 0
    BY ONLY <2>2, TotalZero
  <2>4. Implied = InitialBalance
    BY <2>3 DEF Init, Implied, Erasing
  <2> QED BY <2>1, <2>4 DEF Account!LedgerInit, Account!Fresh
<1>2. IInv /\ IInv' /\ [Next]_vars => [Account!LedgerNext]_(Account!ledgerVars)
  BY StepMaps
<1>3. Spec => []IInv
  BY Invariance
<1> QED BY <1>1, <1>2, <1>3, PTL DEF Spec, ImplementsLedger, Account!LedgerSpec
=============================================================================
