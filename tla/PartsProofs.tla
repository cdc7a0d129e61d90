----------------------------- MODULE PartsProofs -----------------------------
(*************************************************************************)
(* The circuit breaker, the engine judging its strategies, their         *)
(* lifecycle, the advice of the model, the orchestrator, the request     *)
(* budgets, the trading page, and news: theorems about each of them for  *)
(* any values of its constants; and, with the parts of DataProofs and    *)
(* ResearchProofs, about all side by side, whatever others there are.    *)
(*************************************************************************)
EXTENDS ResearchProofs

----------------------------------------------------------------------------
(* The circuit breaker: what it measures, and that it is heard *)

\* The breaker's equity is below its peaks, and the reason last alerted is that of the
\* trip it is in: a trip that is new has not been alerted yet.
Sane(b) ==
  /\ b \in Breakers
  /\ b.equity <= b.peak /\ b.peak <= b.weekPeak
  /\ b.alerted = IF b.tripped THEN b.reason ELSE NoReason

\* The inductive invariant.
IInv == TypeOK /\ Sane(brk) /\ SettledEquity /\ OneAlertPerTrip

----------------------------------------------------------------------------
(* The operators *)

\* The larger of two integers is one of them and below neither.
LEMMA MaxOfTwo ==
  ASSUME NEW x \in Int, NEW y \in Int
  PROVE  /\ Max({x, y}) \in Int
         /\ x <= Max({x, y}) /\ y <= Max({x, y})
         /\ Max({x, y}) = x \/ Max({x, y}) = y
<1>1. \E m \in {x, y} : \A z \in {x, y} : m >= z
  <2>1. CASE x >= y
    BY <2>1
  <2>2. CASE y >= x
    BY <2>2
  <2> QED BY <2>1, <2>2
<1> QED BY <1>1 DEF Max

\* What the open positions tie up is an amount of money.
LEMMA InvestedInteger ==
  ASSUME BreakerAssumption, NEW st PROVE Invested(st) \in Nat
<1>1. InMemory(st) \subseteq Symbols
  BY DEF InMemory
<1>2. Cardinality(InMemory(st)) \in Nat
  BY <1>1, FS_Subset, FS_CardinalityType DEF BreakerAssumption
<1>3. Amount \in Nat
  BY DEF BreakerAssumption
<1>4. \A k \in Nat : Amount * k \in Nat
  BY <1>3
<1> QED BY <1>2, <1>4 DEF Invested

\* check() finds a reason of a known kind.
LEMMA ReasonType == ASSUME NEW b \in Breakers PROVE Reason(b) \in Reasons
<1>1. /\ b.peak - b.equity \in Int /\ b.weekPeak - b.equity \in Int
      /\ b.dailyPnl \in Int /\ b.losses \in Int
  BY DEF Breakers
<1>2. \/ Reason(b) = <<"daily drawdown", b.peak - b.equity>>
      \/ Reason(b) = <<"weekly drawdown", b.weekPeak - b.equity>>
      \/ Reason(b) = <<"daily loss", b.dailyPnl>>
      \/ Reason(b) = <<"consecutive losses", b.losses>>
      \/ Reason(b) = NoReason
  BY DEF Reason
<1> QED BY <1>1, <1>2, Zenon DEF Reasons, Figures

LEMMA NoReasonType == NoReason \in Reasons
BY Zenon DEF Reasons

\* A new equity lifts both peaks, and leaves the rest of the breaker alone.
LEMMA SetEquitySane ==
  ASSUME NEW b, Sane(b), NEW e \in Int
  PROVE  Sane(SetEquity(b, e)) /\ SetEquity(b, e).equity = e
<1> DEFINE p == Max({b.peak, e})
           w == Max({b.weekPeak, e})
<1>1. b \in Breakers /\ b.peak \in Int /\ b.weekPeak \in Int /\ b.peak <= b.weekPeak
  BY DEF Sane, Breakers
<1>2. p \in Int /\ e <= p /\ (p = b.peak \/ p = e)
  BY <1>1, MaxOfTwo
<1>3. w \in Int /\ e <= w /\ b.weekPeak <= w
  BY <1>1, MaxOfTwo
<1>4. p <= w
  BY <1>1, <1>2, <1>3
<1>5. SetEquity(b, e) = [b EXCEPT !.equity = e, !.peak = p, !.weekPeak = w]
  BY DEF SetEquity
<1> HIDE DEF p, w
<1>6. SetEquity(b, e) \in Breakers
  BY <1>1, <1>2, <1>3, <1>5 DEF Breakers
<1> QED BY <1>1, <1>2, <1>4, <1>5, <1>6 DEF Sane, Breakers

\* So does update_balance, also where it takes an inflated peak back.
LEMMA UpdateBalanceSane ==
  ASSUME BreakerAssumption, Sane(brk), NEW c \in Int, NEW st, UpdateBalance(c, st)
  PROVE  Sane(brk') /\ brk'.equity = c + Invested(st)
<1> DEFINE e == c + Invested(st)
           b == SetEquity(brk, e)
<1>1. e \in Int
  BY InvestedInteger
<1>2. Sane(b) /\ b.equity = e
  BY <1>1, SetEquitySane
<1>3. brk' = b \/ brk' = [b EXCEPT !.peak = e]
  BY DEF UpdateBalance
<1> HIDE DEF b, e
<1>4. b \in Breakers /\ e <= b.weekPeak
  BY <1>1, <1>2 DEF Sane, Breakers
<1> QED BY <1>1, <1>2, <1>3, <1>4 DEF Sane, Breakers, e

\* A result changes neither the equity nor the peaks.
LEMMA ResultSane ==
  ASSUME BreakerAssumption, NEW b, Sane(b), NEW p \in Results
  PROVE  /\ Sane(AddTradeResult(b, p)) /\ AddTradeResult(b, p).equity = b.equity
         /\ AddTradeResult(b, p).weekPeak = b.weekPeak
<1>1. Cents(p) \in Int
  BY DEF Cents, BreakerAssumption
<1> DEFINE d == b.dailyPnl + Cents(p)
           l == IF Cents(p) < 0 THEN b.losses + 1 ELSE 0
<1>2. b \in Breakers /\ d \in Int /\ l \in Nat
  BY <1>1 DEF Sane, Breakers
<1>3. AddTradeResult(b, p) = [b EXCEPT !.dailyPnl = d, !.losses = l]
  BY DEF AddTradeResult
<1> HIDE DEF d, l
<1> QED BY <1>2, <1>3 DEF Sane, Breakers

\* The resets of the day and the week lower the peaks to the equity, no further.
LEMMA ResetDailySane ==
  ASSUME NEW b, Sane(b)
  PROVE  /\ Sane(ResetDaily(b)) /\ ResetDaily(b).equity = b.equity
         /\ ResetDaily(b).weekPeak = b.weekPeak
<1>1. b \in Breakers /\ b.equity \in Int /\ 0 \in Int
  BY DEF Sane, Breakers
<1>2. ResetDaily(b) \in Breakers
  BY <1>1 DEF ResetDaily, Breakers
<1> QED BY <1>1, <1>2 DEF ResetDaily, Sane, Breakers

LEMMA ResetWeeklySane ==
  ASSUME NEW b, Sane(b)
  PROVE  Sane(ResetWeekly(b)) /\ ResetWeekly(b).equity = b.equity
<1>1. b \in Breakers /\ b.equity \in Int
  BY DEF Sane, Breakers
<1>2. ResetWeekly(b) \in Breakers
  BY <1>1 DEF ResetWeekly, Breakers
<1> QED BY <1>1, <1>2 DEF ResetWeekly, Sane, Breakers

\* A reset of the trip forgets the alert with it.
LEMMA ResetTripSane ==
  ASSUME NEW b, Sane(b)
  PROVE  /\ Sane(ResetTrip(b)) /\ ResetTrip(b).equity = b.equity
         /\ ResetTrip(b).weekPeak = b.weekPeak
<1>1. b \in Breakers /\ NoReason \in Reasons
  BY NoReasonType DEF Sane
<1>2. ResetTrip(b) \in Breakers
  BY <1>1 DEF ResetTrip, Breakers
<1> QED BY <1>1, <1>2 DEF ResetTrip, Sane, Breakers

\* The first check of a day rolls the day, and the week when it has turned.
LEMMA RolledSane ==
  ASSUME NEW b, Sane(b), day \in Nat
  PROVE  /\ Sane(Rolled(b)) /\ Rolled(b).equity = b.equity
         /\ Week(b.checkDay) = Week(day) => Rolled(b).weekPeak = b.weekPeak
<1> DEFINE d == IF b.checkDay \notin {0, day} THEN ResetDaily(b) ELSE b
           w == IF b.checkDay # 0 /\ Week(b.checkDay) # Week(day) THEN ResetWeekly(d) ELSE d
<1>1. Sane(d) /\ d.equity = b.equity /\ d.weekPeak = b.weekPeak
  BY ResetDailySane
<1>2. Sane(w) /\ w.equity = b.equity
  BY <1>1, ResetWeeklySane
<1>3. Week(b.checkDay) = Week(day) => w.weekPeak = b.weekPeak
  BY <1>1
<1>4. Rolled(b) = [w EXCEPT !.checkDay = day]
  BY DEF Rolled
<1> HIDE DEF w
<1> QED BY <1>2, <1>3, <1>4 DEF Sane, Breakers

----------------------------------------------------------------------------
(* The account *)

\* A step that shows the breaker another equity shows it the true one.
LEMMA Updated ==
  ASSUME BreakerAssumption, IInv, NEW c \in Int, cash' = c,
         stage' \in [Symbols -> {"flat", "opening", "open", "closing"}],
         gain' \in [Symbols -> Int], UpdateBalance(c, stage'),
         UNCHANGED <<results, day, trips, alerts>>
  PROVE  IInv'
<1>1. Sane(brk') /\ brk'.equity = c + Invested(stage')
  BY UpdateBalanceSane DEF IInv
<1>2. SettledEquity'
  BY <1>1 DEF SettledEquity, Settled, Invested, InMemory
<1> QED BY <1>1, <1>2 DEF IInv, TypeOK, OneAlertPerTrip, Sane

\* A step that leaves equity, cash and positions alone keeps what is settled.
LEMMA SameEquity ==
  ASSUME SettledEquity, brk'.equity = brk.equity, UNCHANGED <<cash, stage, undone>>
  PROVE  SettledEquity'
BY DEF SettledEquity, Settled, Invested, InMemory

\* Nothing is invested when the program starts.
LEMMA InitEstablishes == ASSUME BreakerAssumption, Init PROVE IInv
<1>1. InMemory(stage) = {}
  BY DEF Init, InMemory
<1>2. Invested(stage) = 0
  BY <1>1, FS_EmptySet DEF Invested, BreakerAssumption
<1>3. InitialCash \in Int /\ FirstDay \in Nat
  BY DEF BreakerAssumption
<1>4. Sane(brk)
  BY <1>3, NoReasonType DEF Init, Sane, Breakers
<1>5. TypeOK
  BY <1>3, <1>4 DEF Init, TypeOK, Sane
<1>6. SettledEquity
  BY <1>2, <1>3 DEF Init, SettledEquity
<1> QED BY <1>4, <1>5, <1>6 DEF IInv, OneAlertPerTrip, Init

LEMMA AccountPreserves ==
  ASSUME BreakerAssumption, IInv, AccountStep PROVE IInv'
<1>0. Amount \in Int /\ \A p \in Results : p \in Int /\ Cents(p) \in Int
  BY DEF BreakerAssumption, Cents
<1>1. ASSUME NEW s \in Symbols, OpenMemory(s) PROVE IInv'
  <2>1. ~Settled'
    BY <1>1 DEF OpenMemory, Settled, IInv, TypeOK
  <2> QED BY <1>1, <2>1 DEF OpenMemory, NoHistory, IInv, TypeOK, SettledEquity,
                               OneAlertPerTrip, time, Sane
<1>2. ASSUME NEW s \in Symbols, OpenPay(s) PROVE IInv'
  <2>1. cash - Amount \in Int
    BY <1>0 DEF IInv, TypeOK
  <2> QED BY <1>2, <2>1, Updated DEF OpenPay, IInv, TypeOK, time
<1>3. ASSUME NEW s \in Symbols, OpenUndo(s) PROVE IInv'
  BY <1>3 DEF OpenUndo, IInv, TypeOK, SettledEquity, OneAlertPerTrip, time, Sane
<1>4. ASSUME NEW s \in Symbols, CloseCredit(s) PROVE IInv'
  <2>1. cash + Amount + gain[s] \in Int
    BY <1>0 DEF IInv, TypeOK
  <2>2. gain' \in [Symbols -> Int] /\ stage' \in [Symbols -> {"flat", "opening", "open", "closing"}]
    BY <1>4 DEF CloseCredit, IInv, TypeOK
  <2>3. cash' = cash + Amount + gain[s] /\ UpdateBalance(cash', stage')
    BY <1>4 DEF CloseCredit
  <2>4. UNCHANGED <<results, day, trips, alerts>>
    BY <1>4 DEF CloseCredit, time
  <2> QED BY <2>1, <2>2, <2>3, <2>4, Updated
<1>5. ASSUME NEW s \in Symbols, NEW p \in Results, CloseMemory(s, p) PROVE IInv'
  <2>1. ~Settled'
    BY <1>5 DEF CloseMemory, Settled, IInv, TypeOK
  <2>2. Append(results, p) \in Seq(Results)
    BY DEF IInv, TypeOK
  <2> QED BY <1>0, <1>5, <2>1, <2>2
        DEF CloseMemory, NoHistory, IInv, TypeOK, SettledEquity, OneAlertPerTrip, time, Sane
<1>6. CASE Report
  <2>1. Head(results) \in Results /\ Tail(results) \in Seq(Results)
    BY <1>6 DEF Report, IInv, TypeOK
  <2>2. Sane(brk') /\ brk'.equity = brk.equity
    BY <1>6, <2>1, ResultSane DEF Report, IInv
  <2>3. SettledEquity'
    BY <1>6, <2>2, SameEquity DEF Report, IInv, acct
  <2> QED BY <1>6, <2>1, <2>2, <2>3 DEF Report, IInv, TypeOK, OneAlertPerTrip, acct, time, Sane
<1> QED BY <1>1, <1>2, <1>3, <1>4, <1>5, <1>6 DEF AccountStep

----------------------------------------------------------------------------
(* Checks and resets *)

\* A step that only changes the breaker, and raises as many alerts as there are trips.
LEMMA BreakerOnly ==
  ASSUME IInv, Sane(brk'), brk'.equity = brk.equity,
         UNCHANGED <<cash, gain, stage, results, undone>>, day' \in Nat,
         trips' \in Nat, alerts' = trips'
  PROVE  IInv'
<1>1. SettledEquity'
  BY SameEquity DEF IInv
<1> QED BY <1>1 DEF IInv, TypeOK, OneAlertPerTrip, Sane

LEMMA BreakerPreserves ==
  ASSUME BreakerAssumption, IInv, BreakerStep PROVE IInv'
<1> DEFINE b == Rolled(brk)
<1>0. /\ Sane(brk) /\ day \in Nat /\ trips \in Nat /\ alerts = trips
      /\ Sane(b) /\ b.equity = brk.equity
  BY RolledSane DEF IInv, TypeOK, OneAlertPerTrip
<1> HIDE DEF b
<1>1. CASE Pass
  BY <1>0, <1>1, BreakerOnly DEF Pass, NoHistory, acct, time, b
<1>2. CASE TripNow
  <2>1. ~b.tripped /\ b.alerted = NoReason
    BY <1>0, <1>2 DEF TripNow, b, Sane
  <2>2. b \in Breakers /\ Reason(b) \in Reasons
    BY <1>0, ReasonType DEF Sane
  <2>3. Alert(Trip(b)) = [b EXCEPT !.tripped = TRUE, !.reason = Reason(b), !.alerted = Reason(b)]
    BY <2>2 DEF Alert, Trip, Breakers
  <2>4. Sane(Alert(Trip(b))) /\ Alert(Trip(b)).equity = b.equity
    BY <1>0, <2>2, <2>3 DEF Sane, Breakers
  <2>5. alerts' = trips' /\ trips' \in Nat
    BY <1>0, <1>2, <2>1 DEF TripNow, b
  <2> QED BY <1>0, <1>2, <2>4, <2>5, BreakerOnly DEF TripNow, b, acct, time
<1>3. CASE Refuse
  <2>1. b.tripped /\ b.alerted = b.reason /\ b \in Breakers
    BY <1>0, <1>3 DEF Refuse, b, Sane
  <2>2. Sane(Alert(b)) /\ Alert(b).equity = b.equity
    BY <1>0, <2>1 DEF Alert, Sane, Breakers
  <2>3. alerts' = trips' /\ trips' \in Nat
    BY <1>0, <1>3, <2>1 DEF Refuse, b
  <2> QED BY <1>0, <1>3, <2>2, <2>3, BreakerOnly DEF Refuse, b, acct, time
<1>4. Sane(ResetDaily(ResetTrip(brk))) /\ ResetDaily(ResetTrip(brk)).equity = brk.equity
  BY <1>0, ResetTripSane, ResetDailySane
<1>5. CASE Override
  BY <1>0, <1>4, <1>5, BreakerOnly DEF Override, acct, time
<1>6. CASE Recover
  BY <1>0, <1>4, <1>6, BreakerOnly DEF Recover, acct, time
<1>7. CASE AskAI \/ StayTripped
  BY <1>0, <1>7, BreakerOnly DEF AskAI, StayTripped, NoHistory, acct, time
<1> QED BY <1>1, <1>2, <1>3, <1>5, <1>6, <1>7 DEF BreakerStep

LEMMA CalendarPreserves ==
  ASSUME BreakerAssumption, IInv, Tomorrow \/ Timer PROVE IInv'
<1>0. Sane(brk) /\ day \in Nat /\ trips \in Nat /\ alerts = trips
  BY DEF IInv, TypeOK, OneAlertPerTrip
<1>1. CASE Tomorrow
  BY <1>0, <1>1, BreakerOnly DEF Tomorrow, acct
<1>2. CASE Timer
  <2>1. Sane(brk') /\ brk'.equity = brk.equity
    BY <1>0, <1>2, ResetDailySane, ResetWeeklySane DEF Timer
  <2> QED BY <1>0, <1>2, <2>1, BreakerOnly DEF Timer, NoHistory, acct
<1> QED BY <1>1, <1>2

LEMMA NextPreserves == ASSUME BreakerAssumption, IInv, [Next]_vars PROVE IInv'
<1>1. CASE Next
  BY <1>1, AccountPreserves, BreakerPreserves, CalendarPreserves DEF Next
<1>2. CASE UNCHANGED vars
  BY <1>2 DEF vars, acct, time, IInv, TypeOK, SettledEquity, Settled, Invested,
                  InMemory, OneAlertPerTrip, Sane
<1> QED BY <1>1, <1>2

----------------------------------------------------------------------------
(* The results *)

\* IInv holds always, for any symbols, amounts, limits and calendar.
THEOREM Invariance == ASSUME BreakerAssumption PROVE Spec => []IInv
<1>1. Init => IInv
  BY InitEstablishes
<1>2. IInv /\ [Next]_vars => IInv'
  BY NextPreserves
<1> QED BY <1>1, <1>2, PTL DEF Spec

\* The breaker and what feeds it keep their types.
THEOREM TypeCorrect == ASSUME BreakerAssumption PROVE Spec => []TypeOK
<1>1. IInv => TypeOK
  BY DEF IInv
<1> QED BY <1>1, Invariance, PTL

\* Whenever no open or close is half done and none was undone, the breaker judges the
\* equity the account really has (update_balance, risk/manager.py:659).
THEOREM EquitySettles == ASSUME BreakerAssumption PROVE Spec => []SettledEquity
<1>1. IInv => SettledEquity
  BY DEF IInv
<1> QED BY <1>1, Invariance, PTL

\* The peak of the day is never above that of the week (circuit_breaker.py:143).
THEOREM PeaksStayInOrder == ASSUME BreakerAssumption PROVE Spec => []PeaksInOrder
<1>1. IInv => PeaksInOrder
  BY DEF IInv, Sane, PeaksInOrder
<1> QED BY <1>1, Invariance, PTL

\* Every trip raises one RISK_BREACH, also when a limit breaks again after a reset
\* (is_new_trip, circuit_breaker.py:170).
THEOREM EveryTripIsHeard == ASSUME BreakerAssumption PROVE Spec => []OneAlertPerTrip
<1>1. IInv => OneAlertPerTrip
  BY DEF IInv
<1> QED BY <1>1, Invariance, PTL

\* No step lowers the weekly peak but those that turn a week (circuit_breaker.py:84).
THEOREM WeekPeakIsKept ==
  ASSUME BreakerAssumption PROVE Spec => [][WeekPeakHolds]_vars
<1>1. ASSUME IInv, [Next]_vars PROVE [WeekPeakHolds]_vars
  <2>0. Sane(brk) /\ brk \in Breakers /\ brk.weekPeak \in Int /\ day \in Nat
    BY <1>1 DEF IInv, TypeOK, Sane, Breakers
  <2>1. ASSUME NEW c \in Int, NEW st, UpdateBalance(c, st)
        PROVE  brk'.weekPeak >= brk.weekPeak
    <3> DEFINE e == c + Invested(st)
               b == SetEquity(brk, e)
    <3>1. e \in Int
      BY InvestedInteger
    <3>2. b \in Breakers /\ b.weekPeak = Max({brk.weekPeak, e})
      BY <2>0, <3>1, SetEquitySane DEF SetEquity, Sane, Breakers
    <3>3. b.weekPeak >= brk.weekPeak
      BY <2>0, <3>1, <3>2, MaxOfTwo
    <3>4. brk' = b \/ brk' = [b EXCEPT !.peak = e]
      BY <2>1 DEF UpdateBalance
    <3> HIDE DEF b
    <3> QED BY <3>2, <3>3, <3>4 DEF Breakers
  <2>2. CASE AccountStep
    <3>0. cash \in Int /\ Amount \in Int /\ \A s \in Symbols : gain[s] \in Int
      BY <1>1 DEF IInv, TypeOK, BreakerAssumption
    <3>1. ASSUME NEW s \in Symbols, OpenPay(s) PROVE brk'.weekPeak >= brk.weekPeak
      BY <2>1, <3>0, <3>1 DEF OpenPay
    <3>2. ASSUME NEW s \in Symbols, CloseCredit(s) PROVE brk'.weekPeak >= brk.weekPeak
      <4>1. cash' \in Int /\ UpdateBalance(cash', stage')
        BY <3>0, <3>2 DEF CloseCredit
      <4> QED BY <2>1, <4>1
    <3>3. ASSUME Report PROVE brk'.weekPeak >= brk.weekPeak
      <4>1. Head(results) \in Results
        BY <1>1, <3>3 DEF Report, IInv, TypeOK
      <4>2. brk'.weekPeak = brk.weekPeak
        BY <2>0, <3>3, <4>1, ResultSane DEF Report
      <4> QED BY <2>0, <4>2
    <3>4. ASSUME NEW s \in Symbols,
                 OpenMemory(s) \/ OpenUndo(s) \/ \E p \in Results : CloseMemory(s, p)
          PROVE  brk' = brk
      BY <3>4 DEF OpenMemory, OpenUndo, CloseMemory
    <3>5. brk'.weekPeak >= brk.weekPeak
      BY <2>0, <2>2, <3>1, <3>2, <3>3, <3>4 DEF AccountStep
    <3>6. brk'.weekPeak \in Int
      BY <1>1, NextPreserves DEF IInv, Sane, Breakers
    <3> QED BY <2>0, <3>5, <3>6 DEF WeekPeakHolds
  <2>3. Week(brk.checkDay) = Week(day) => Rolled(brk).weekPeak = brk.weekPeak
    BY <2>0, RolledSane
  <2>4. Rolled(brk) \in Breakers
    BY <2>0, RolledSane DEF Sane
  <2>5. CASE Pass \/ TripNow \/ Refuse
    <3>1. brk'.weekPeak = Rolled(brk).weekPeak
      BY <2>4, <2>5 DEF Pass, TripNow, Refuse, Trip, Alert, Breakers
    <3> QED BY <2>0, <2>3, <3>1 DEF WeekPeakHolds
  <2>6. CASE Override \/ Recover
    <3>1. brk'.weekPeak = brk.weekPeak
      BY <2>0, <2>6, ResetTripSane, ResetDailySane DEF Override, Recover
    <3> QED BY <2>0, <3>1 DEF WeekPeakHolds
  <2>7. CASE AskAI \/ StayTripped \/ Tomorrow \/ UNCHANGED vars
    <3>1. brk' = brk
      BY <2>7 DEF AskAI, StayTripped, Tomorrow, vars
    <3> QED BY <2>0, <3>1 DEF WeekPeakHolds
  <2>8. CASE Timer
    <3>1. day % WeekLength # 0 => brk'.weekPeak = brk.weekPeak
      BY <2>0, <2>8, ResetDailySane DEF Timer
    <3>2. midnight
      BY <2>8 DEF Timer
    <3> QED BY <2>0, <3>1, <3>2 DEF WeekPeakHolds
  <2> QED BY <1>1, <2>2, <2>5, <2>6, <2>7, <2>8 DEF Next, BreakerStep
<1> QED BY <1>1, Invariance, PTL DEF Spec

----------------------------------------------------------------------------
(* The engine judging its strategies *)

LEMMA SigTypes ==
  ASSUME Sig!SigTypeOK, Sig!SignalNext PROVE Sig!SigTypeOK'
<1> USE DEF Sig!SigTypeOK, Sig!Go
<1>1. CASE Sig!ChangeTable
  BY <1>1 DEF Sig!ChangeTable
<1>2. CASE Sig!ChangePosition
  BY <1>2 DEF Sig!ChangePosition
<1>3. ASSUME NEW w \in Sig!Walks, NEW new, Sig!Go(w, new) PROVE Sig!SigTypeOK'
  BY <1>3, SMTT(30)
<1>4. ASSUME NEW w \in Sig!Walks,
             \/ Sig!Start(w) \/ Sig!NextStrategy(w) \/ Sig!Judge(w) \/ Sig!Fuse(w)
             \/ Sig!Reduce(w) \/ Sig!Count(w) \/ Sig!Leave(w)
      PROVE  \E new : Sig!Go(w, new)
  <2> HIDE DEF Sig!Go
  <2> QED BY <1>4 DEF Sig!Start, Sig!NextStrategy, Sig!Judge, Sig!Fuse, Sig!Reduce, Sig!Count, Sig!Leave
<1> QED BY <1>1, <1>2, <1>3, <1>4 DEF Sig!SignalNext

\* A strategy reduces or leaves a position of its own.
LEMMA SigManagesItsOwn ==
  ASSUME Sig!SignalNext PROVE Sig!ManagesItsOwn
<1> USE DEF Sig!ManagesItsOwn
<1>1. ASSUME Sig!Quiet PROVE Sig!ManagesItsOwn
  BY <1>1 DEF Sig!Quiet, Sig!Silence
<1>2. ASSUME NEW w \in Sig!Walks, Sig!Fuse(w) PROVE Sig!ManagesItsOwn
  BY <1>1, <1>2 DEF Sig!Fuse, Sig!Publish
<1>3. ASSUME NEW w \in Sig!Walks, Sig!Reduce(w) PROVE Sig!ManagesItsOwn
  BY <1>1, <1>3 DEF Sig!Reduce, Sig!Reduces, Sig!Mine, Sig!OwnedNow, Sig!Owns, Sig!Publish
<1>4. ASSUME NEW w \in Sig!Walks, Sig!Leave(w) PROVE Sig!ManagesItsOwn
  BY <1>1, <1>4, SMTT(30) DEF Sig!Leave, Sig!Mine, Sig!OwnedNow, Sig!Owns, Sig!Publish
<1>5. ASSUME \/ Sig!ChangeTable \/ Sig!ChangePosition
             \/ \E w \in Sig!Walks : Sig!Start(w) \/ Sig!NextStrategy(w) \/ Sig!Judge(w) \/ Sig!Count(w)
      PROVE  Sig!Quiet
  BY <1>5 DEF Sig!ChangeTable, Sig!ChangePosition, Sig!Start, Sig!NextStrategy, Sig!Judge, Sig!Count
<1> QED BY <1>1, <1>2, <1>3, <1>4, <1>5 DEF Sig!SignalNext

LEMMA SigNoEntryIntoAnExit ==
  ASSUME Sig!SigTypeOK, Sig!SignalNext PROVE Sig!NoEntryIntoAnExit
<1> SUFFICES ASSUME NEW w \in Sig!Walks, Sig!At(w, "fusing"), c4'[w].pc # "fusing", c5'.kind = "entry"
             PROVE  ~(c5'.side \in c4[w].verdict.leave /\ c2.side = c5'.side)
  BY DEF Sig!NoEntryIntoAnExit
<1>1. ~Sig!Quiet
  BY DEF Sig!Quiet, Sig!Silence
<1>2. ASSUME NEW x \in Sig!Walks, NEW new, Sig!Go(x, new) PROVE x = w
  BY <1>2 DEF Sig!Go, Sig!SigTypeOK, Sig!At
<1>3. CASE Sig!Fuse(w)
  BY <1>1, <1>3 DEF Sig!Fuse, Sig!Publish, Sig!ExitBlocks, Sig!Held, Sig!HeldNow
<1>4. ASSUME NEW x \in Sig!Walks, Sig!Fuse(x) PROVE x = w
  BY <1>2, <1>4 DEF Sig!Fuse
<1>5. ASSUME NEW x \in Sig!Walks, Sig!Reduce(x) \/ Sig!Leave(x) PROVE FALSE
  BY <1>1, <1>5, SMTT(30) DEF Sig!Reduce, Sig!Leave, Sig!Publish
<1>6. ASSUME \/ Sig!ChangeTable \/ Sig!ChangePosition
             \/ \E x \in Sig!Walks : Sig!Start(x) \/ Sig!NextStrategy(x) \/ Sig!Judge(x) \/ Sig!Count(x)
      PROVE  Sig!Quiet
  BY <1>6 DEF Sig!ChangeTable, Sig!ChangePosition, Sig!Start, Sig!NextStrategy, Sig!Judge, Sig!Count
<1> QED BY <1>1, <1>3, <1>4, <1>5, <1>6 DEF Sig!SignalNext

LEMMA SigStarts == ASSUME Sig!SignalInit PROVE Sig!SigTypeOK
BY DEF Sig!SignalInit, Sig!SigTypeOK

----------------------------------------------------------------------------
(* The strategies' lifecycle *)

\* Where a pass is while it analyses.
Analysing == {"matrix", "removing", "improving", "asking", "testing", "gaps", "filling"}

LEMMA LifeHolding ==
  /\ Life!Holding("optimize") = {p \in Life!Passes : c5[p].pc \in Analysing}
  /\ Life!Holding("optimize")' = {p \in Life!Passes : c5'[p].pc \in Analysing}
BY DEF Life!Holding, Analysing

LEMMA LifeAnalysing ==
  ASSUME Life!LifeTypeOK
  PROVE  /\ Life!StampFollows <=>
              /\ \A p, q \in Life!Passes : c5[p].pc \in Analysing /\ c5[q].pc \in Analysing => p = q
              /\ c4["optimize"] => \A p \in Life!Passes : c5[p].pc \notin Analysing
BY LifeHolding DEF Life!StampFollows

\* A caller goes on, in a pass it has already or in one whose stamp it sets: what is
\* typed stays typed, and one analysis remains one.
LEMMA LifeGoes ==
  ASSUME Life!LifeInv, NEW p \in Life!Passes, NEW new \in Life!PassType, Life!Go(p, new),
         c1' \in [LifeSetup.names -> Life!Configs], c2' \in [LifeSetup.names -> Life!Configs],
         c3' = c3, c4' \in [Life!Jobs -> BOOLEAN],
         \/ c4["optimize"] /\ ~c4'["optimize"]
         \/ /\ new.pc \in Analysing => c5[p].pc \in Analysing
            /\ c4'["optimize"] => c4["optimize"]
  PROVE  Life!LifeInv'
<1>1. Life!LifeTypeOK /\ c5 \in [Life!Passes -> Life!PassType]
  BY DEF Life!LifeInv, Life!LifeTypeOK
<1>2. c5' = [c5 EXCEPT ![p] = new]
  BY DEF Life!Go
<1>3. Life!LifeTypeOK'
  BY <1>1, <1>2 DEF Life!LifeTypeOK
<1>4. /\ \A q, r \in Life!Passes : c5[q].pc \in Analysing /\ c5[r].pc \in Analysing => q = r
      /\ c4["optimize"] => \A q \in Life!Passes : c5[q].pc \notin Analysing
  BY <1>1, LifeAnalysing DEF Life!LifeInv
<1>5. \A q \in Life!Passes : c5'[q] = IF q = p THEN new ELSE c5[q]
  BY <1>1, <1>2
<1>6. /\ \A q, r \in Life!Passes : c5'[q].pc \in Analysing /\ c5'[r].pc \in Analysing => q = r
      /\ c4'["optimize"] => \A q \in Life!Passes : c5'[q].pc \notin Analysing
  BY <1>4, <1>5
<1>7. Life!StampFollows'
  BY <1>6, LifeHolding DEF Life!StampFollows
<1> QED BY <1>3, <1>7 DEF Life!LifeInv

\* No caller moves, and no interval of an analysis passes while there is one.
LEMMA LifeStands ==
  ASSUME Life!LifeInv, c5' = c5,
         c1' \in [LifeSetup.names -> Life!Configs], c2' \in [LifeSetup.names -> Life!Configs],
         c3' \in {"auto", "suggest"}, c4' \in [Life!Jobs -> BOOLEAN],
         c4'["optimize"] => c4["optimize"] \/ Life!Holding("optimize") = {}
  PROVE  Life!LifeInv'
<1>1. Life!LifeTypeOK'
  BY DEF Life!LifeInv, Life!LifeTypeOK
<1>2. Life!Holding("optimize")' = Life!Holding("optimize")
  BY LifeHolding
<1>3. Life!StampFollows'
  BY <1>2 DEF Life!LifeInv, Life!StampFollows
<1> QED BY <1>1, <1>3 DEF Life!LifeInv

LEMMA LifeRewrites ==
  ASSUME Life!LifeTypeOK, NEW n \in LifeSetup.names, NEW c \in Life!Configs, NEW always,
         Life!Rewrite(n, c, always)
  PROVE  c1' \in [LifeSetup.names -> Life!Configs] /\ c2' \in [LifeSetup.names -> Life!Configs]
<1>1. c1 \in [LifeSetup.names -> Life!Configs] /\ c2 \in [LifeSetup.names -> Life!Configs]
  BY DEF Life!LifeTypeOK
<1> QED BY <1>1 DEF Life!Rewrite

LEMMA LifeStamps ==
  ASSUME Life!LifeTypeOK, NEW j \in Life!Jobs, Life!Stamp(j)
  PROVE  /\ c4' \in [Life!Jobs -> BOOLEAN]
         /\ c4'["optimize"] => c4["optimize"]
         /\ j = "optimize" => c4["optimize"] /\ ~c4'["optimize"]
<1>1. c4 \in [Life!Jobs -> BOOLEAN] /\ c4' = [c4 EXCEPT ![j] = FALSE] /\ c4[j]
  BY DEF Life!LifeTypeOK, Life!Stamp, Life!StampFirst
<1> QED BY <1>1 DEF Life!Jobs

LEMMA LifeTypes ==
  ASSUME Life!LifecycleAssumption
  PROVE  /\ Life!NoPass \in Life!PassType /\ Life!Absent \in Life!Configs
         /\ LifeSetup.newborn \in LifeSetup.names
         /\ \A cs \in SUBSET LifeSetup.coins : Life!Invented(cs) \in Life!Configs
BY DEF Life!LifecycleAssumption, Life!NoPass, Life!PassType, Life!Absent, Life!Configs, Life!Invented

LEMMA LifeOperator ==
  ASSUME Life!LifecycleAssumption, Life!LifeInv,
         NEW n \in LifeSetup.names, Life!Edit(n)
  PROVE  Life!LifeInv'
<1>1. /\ Life!LifeTypeOK /\ c3 \in {"auto", "suggest"} /\ c4 \in [Life!Jobs -> BOOLEAN]
      /\ c1 \in [LifeSetup.names -> Life!Configs] /\ c2 \in [LifeSetup.names -> Life!Configs]
  BY DEF Life!LifeInv, Life!LifeTypeOK
<1>2. c3' = c3 /\ c4' = c4 /\ c5' = c5
  BY DEF Life!Edit
<1>3. c1' \in [LifeSetup.names -> Life!Configs] /\ c2' \in [LifeSetup.names -> Life!Configs]
  <2>1. /\ [c1[n] EXCEPT !.by = "edited"] \in Life!Configs
        /\ [c1[n] EXCEPT !.on = ~@] \in Life!Configs
        /\ \A cs \in SUBSET LifeSetup.coins : [c1[n] EXCEPT !.coins = cs] \in Life!Configs
    BY <1>1, ZenonT(30) DEF Life!Configs
  <2>2. CASE \E c \in Life!Configs, always \in BOOLEAN : Life!Rewrite(n, c, always)
    BY <1>1, <2>2, LifeRewrites
  <2>3. CASE Life!Reload
    BY <1>1, <2>3 DEF Life!Reload
  <2> QED BY <2>1, <2>2, <2>3, LifeTypes DEF Life!Edit
<1> QED BY <1>1, <1>2, <1>3, LifeStands

LEMMA LifeIntervals ==
  ASSUME Life!LifeInv, Life!SetMode \/ \E j \in Life!Jobs : Life!Elapse(j) PROVE Life!LifeInv'
<1>1. /\ c3 \in {"auto", "suggest"} /\ c4 \in [Life!Jobs -> BOOLEAN]
      /\ c1 \in [LifeSetup.names -> Life!Configs] /\ c2 \in [LifeSetup.names -> Life!Configs]
  BY DEF Life!LifeInv, Life!LifeTypeOK
<1>2. CASE Life!SetMode
  BY <1>1, <1>2, LifeStands DEF Life!SetMode
<1>3. ASSUME NEW j \in Life!Jobs, Life!Elapse(j) PROVE Life!LifeInv'
  <2>1. c4' = [c4 EXCEPT ![j] = TRUE] /\ Life!Holding(j) = {} /\ UNCHANGED <<c1, c2, c3, c5>>
    BY <1>3 DEF Life!Elapse
  <2>2. c4' \in [Life!Jobs -> BOOLEAN] /\ (c4'["optimize"] => c4["optimize"] \/ j = "optimize")
    BY <1>1, <2>1 DEF Life!Jobs
  <2> QED BY <1>1, <2>1, <2>2, LifeStands
<1> QED BY <1>2, <1>3

LEMMA LifeCalls ==
  ASSUME Life!LifecycleAssumption, Life!LifeInv, NEW p \in Life!Passes,
         \/ Life!Generate(p) \/ Life!Generated(p) \/ Life!Analyse(p) \/ Life!MatrixDone(p)
         \/ Life!Remove(p) \/ Life!Improve(p) \/ Life!Asked(p) \/ Life!Tested(p)
         \/ Life!Gaps(p) \/ Life!Filled(p)
  PROVE  Life!LifeInv'
<1> DEFINE me == c5[p]
<1>0. /\ Life!LifeTypeOK /\ c3 \in {"auto", "suggest"} /\ c4 \in [Life!Jobs -> BOOLEAN]
      /\ c1 \in [LifeSetup.names -> Life!Configs] /\ c2 \in [LifeSetup.names -> Life!Configs]
      /\ me \in Life!PassType /\ Life!NoPass \in Life!PassType
      /\ Life!NoPass.pc \notin Analysing /\ Life!OnDisk \subseteq LifeSetup.names
  BY LifeTypes DEF Life!LifeInv, Life!LifeTypeOK, Life!NoPass, Analysing, Life!OnDisk
<1>1. CASE Life!Generate(p)
  <2> DEFINE new == [Life!NoPass EXCEPT !.pc = "generating"]
  <2>1. new \in Life!PassType /\ new.pc \notin Analysing /\ "generate" \in Life!Jobs
    BY <1>0 DEF Life!PassType, Analysing, Life!Jobs
  <2>2. Life!Stamp("generate") /\ Life!Go(p, new) /\ UNCHANGED <<c1, c2, c3>>
    BY <1>1 DEF Life!Generate
  <2> HIDE DEF new
  <2> QED BY <1>0, <2>1, <2>2, LifeStamps, LifeGoes
<1>2. CASE Life!Generated(p) \/ Life!Filled(p)
  <2>1. \/ UNCHANGED <<c1, c2>>
        \/ \E cs \in SUBSET LifeSetup.coins :
             c1' = [c1 EXCEPT ![LifeSetup.newborn] = Life!Invented(cs)] /\ c2' = c1'
    <3>1. {} \in SUBSET LifeSetup.coins /\ me.gap \in SUBSET LifeSetup.coins
      BY <1>0 DEF Life!PassType
    <3>2. CASE Life!Generated(p)
      BY <3>1, <3>2 DEF Life!Generated
    <3>3. CASE Life!Filled(p)
      BY <3>1, <3>3 DEF Life!Filled
    <3> QED BY <1>2, <3>2, <3>3
  <2>2. c1' \in [LifeSetup.names -> Life!Configs] /\ c2' \in [LifeSetup.names -> Life!Configs]
    BY <1>0, <2>1, LifeTypes
  <2>3. Life!Go(p, Life!NoPass) /\ UNCHANGED <<c3, c4>>
    BY <1>2 DEF Life!Generated, Life!Filled, Life!End
  <2> QED BY <1>0, <2>2, <2>3, LifeGoes
<1>3. CASE Life!Analyse(p)
  <2>1. "optimize" \in Life!Jobs /\ Life!Stamp("optimize") /\ UNCHANGED <<c1, c2, c3>>
    BY <1>3 DEF Life!Analyse, Life!Jobs
  <2>2. CASE Life!OnDisk = {}
    <3>1. c5' = c5
      BY <1>3, <2>2 DEF Life!Analyse
    <3> QED BY <1>0, <2>1, <3>1, LifeStamps, LifeStands
  <2>3. CASE Life!OnDisk # {}
    <3> DEFINE new == [Life!NoPass EXCEPT !.pc = "matrix", !.todo = Life!OnDisk, !.mode = c3]
    <3>1. new \in Life!PassType
      BY <1>0 DEF Life!PassType
    <3>2. Life!Go(p, new)
      BY <1>3, <2>3 DEF Life!Analyse
    <3> HIDE DEF new
    <3> QED BY <1>0, <2>1, <3>1, <3>2, LifeStamps, LifeGoes
  <2> QED BY <2>2, <2>3
\* A pass goes on to new, and nothing else changes.
<1>4. ASSUME NEW new \in Life!PassType, Life!Go(p, new), me.pc \in Analysing, UNCHANGED <<c1, c2, c3, c4>>
      PROVE  Life!LifeInv'
  BY <1>0, <1>4, LifeGoes
<1>5. CASE Life!MatrixDone(p)
  <2>1. me.pc \in Analysing /\ UNCHANGED <<c1, c2, c3, c4>>
    BY <1>5 DEF Life!MatrixDone, Life!At, Analysing
  <2>2. CASE Life!End(p)
    BY <1>0, <1>4, <2>1, <2>2 DEF Life!End
  <2>3. ASSUME NEW losing \in [me.todo -> LifeSetup.losses]
        PROVE  LET poor == {n \in me.todo : losing[n] = LifeSetup.coins}
                   gap == {c \in LifeSetup.coins : \A n \in me.todo : c \in losing[n]}
               IN [me EXCEPT !.pc = "removing", !.poor = poor, !.gap = gap,
                      !.losing = [n \in LifeSetup.names |-> IF n \in me.todo THEN losing[n] ELSE {}]] \in Life!PassType
    BY <1>0 DEF Life!PassType, Life!LifecycleAssumption
  <2> QED BY <1>4, <1>5, <2>1, <2>2, <2>3, ZenonT(30) DEF Life!MatrixDone
<1>6. CASE Life!Remove(p)
  <2>1. me.pc \in Analysing /\ UNCHANGED <<c3, c4>>
    BY <1>6 DEF Life!Remove, Life!At, Analysing
  <2>2. CASE me.todo = {}
    <3> DEFINE new == [Life!NoPass EXCEPT !.pc = "improving", !.todo = me.poor, !.mode = me.mode, !.gap = me.gap]
    <3>1. new \in Life!PassType
      BY <1>0 DEF Life!PassType
    <3>2. Life!Go(p, new) /\ UNCHANGED <<c1, c2>>
      BY <1>6, <2>2 DEF Life!Remove
    <3> HIDE DEF new
    <3> QED BY <1>4, <2>1, <3>1, <3>2
  <2>3. ASSUME NEW n \in me.todo, Life!Go(p, [me EXCEPT !.todo = @ \ {n}]),
               \/ Life!Rewrite(n, Life!Restricted(n, me.losing[n]), FALSE)
               \/ UNCHANGED <<c1, c2>>
        PROVE  Life!LifeInv'
    <3> DEFINE new == [me EXCEPT !.todo = @ \ {n}]
    <3>1. new \in Life!PassType /\ new.pc = me.pc
      BY <1>0 DEF Life!PassType
    <3>2. n \in LifeSetup.names /\ Life!Restricted(n, me.losing[n]) \in Life!Configs
      BY <1>0, SMTT(30) DEF Life!PassType, Life!Restricted, Life!Trades, Life!Configs
    <3>3. c1' \in [LifeSetup.names -> Life!Configs] /\ c2' \in [LifeSetup.names -> Life!Configs]
      BY <1>0, <2>3, <3>2, LifeRewrites
    <3> HIDE DEF new
    <3>4. Life!Go(p, new)
      BY <2>3, SMTT(30) DEF new
    <3> QED BY <1>0, <2>1, <3>1, <3>3, <3>4, LifeGoes
  <2> QED BY <1>6, <2>2, <2>3 DEF Life!Remove
<1>7. CASE Life!Improve(p)
  <2>1. me.pc \in Analysing /\ UNCHANGED <<c1, c2, c3, c4>>
    BY <1>7 DEF Life!Improve, Life!At, Analysing
  <2>2. [Life!NoPass EXCEPT !.pc = "gaps", !.mode = me.mode, !.gap = me.gap] \in Life!PassType
    BY <1>0 DEF Life!PassType
  <2>3. ASSUME NEW n \in me.todo
        PROVE  LET rest == [me EXCEPT !.todo = @ \ {n}, !.name = n, !.seen = c1[n]]
               IN rest \in Life!PassType /\ [rest EXCEPT !.pc = "asking"] \in Life!PassType
    BY <1>0 DEF Life!PassType
  <2> QED BY <1>4, <1>7, <2>1, <2>2, <2>3, ZenonT(30) DEF Life!Improve
<1>8. CASE Life!Asked(p)
  <2>1. me.pc \in Analysing /\ UNCHANGED <<c1, c2, c3, c4>>
    BY <1>8 DEF Life!Asked, Life!At, Analysing
  <2>2. \A pc \in {"testing", "improving"} : [me EXCEPT !.pc = pc] \in Life!PassType
    BY <1>0 DEF Life!PassType
  <2> QED BY <1>0, <1>4, <1>8, <2>1, <2>2 DEF Life!Asked, Life!End
<1>9. CASE Life!Tested(p)
  <2> DEFINE new == [me EXCEPT !.pc = "improving", !.name = LifeSetup.newborn, !.seen = Life!Absent]
  <2>1. me.pc \in Analysing /\ UNCHANGED <<c3, c4>> /\ (Life!Go(p, new) \/ Life!Go(p, Life!NoPass))
    BY <1>9 DEF Life!Tested, Life!At, Life!End, Analysing
  <2>2. new \in Life!PassType
    BY <1>0, LifeTypes DEF Life!PassType
  <2>3. /\ me.name \in LifeSetup.names
        /\ \A cs \in {me.seen.coins, {}} : Life!Tuned(me.seen, cs) \in Life!Configs
        /\ [me.seen EXCEPT !.on = FALSE] \in Life!Configs
    BY <1>0 DEF Life!PassType, Life!Configs, Life!Tuned
  <2>4. \/ UNCHANGED <<c1, c2>>
        \/ \E c \in Life!Configs : Life!Rewrite(me.name, c, TRUE)
    BY <1>9, <2>3 DEF Life!Tested
  <2>5. c1' \in [LifeSetup.names -> Life!Configs] /\ c2' \in [LifeSetup.names -> Life!Configs]
    BY <1>0, <2>3, <2>4, LifeRewrites
  <2> HIDE DEF new
  <2> QED BY <1>0, <2>1, <2>2, <2>5, LifeGoes
<1>10. CASE Life!Gaps(p)
  <2>1. me.pc \in Analysing /\ UNCHANGED <<c1, c2, c3>>
    BY <1>10 DEF Life!Gaps, Life!At, Analysing
  <2>2. [me EXCEPT !.pc = "filling"] \in Life!PassType /\ "generate" \in Life!Jobs
    BY <1>0 DEF Life!PassType, Life!Jobs
  <2>3. CASE Life!Stamp("generate") /\ Life!Go(p, [me EXCEPT !.pc = "filling"])
    BY <1>0, <2>1, <2>2, <2>3, LifeStamps, LifeGoes
  <2>4. CASE Life!End(p) /\ UNCHANGED c4
    BY <1>0, <1>4, <2>1, <2>4 DEF Life!End
  <2> QED BY <1>10, <2>3, <2>4 DEF Life!Gaps
<1> QED BY <1>1, <1>2, <1>3, <1>5, <1>6, <1>7, <1>8, <1>9, <1>10

LEMMA LifeRetires ==
  ASSUME Life!LifecycleAssumption, Life!LifeInv, Life!Retire \/ Life!Judge \/ Life!Judged
  PROVE  Life!LifeInv'
<1> DEFINE me == c5["loop"]
<1>0. /\ Life!LifeTypeOK /\ c3 \in {"auto", "suggest"} /\ c4 \in [Life!Jobs -> BOOLEAN]
      /\ c1 \in [LifeSetup.names -> Life!Configs] /\ c2 \in [LifeSetup.names -> Life!Configs]
      /\ me \in Life!PassType /\ Life!NoPass \in Life!PassType /\ "loop" \in Life!Passes
      /\ Life!NoPass.pc \notin Analysing /\ Life!OnDisk \subseteq LifeSetup.names
  BY LifeTypes DEF Life!LifeInv, Life!LifeTypeOK, Life!NoPass, Analysing, Life!OnDisk, Life!Passes
<1>1. CASE Life!Retire
  <2> DEFINE new == [Life!NoPass EXCEPT !.pc = "retiring", !.todo = Life!OnDisk]
  <2>1. new \in Life!PassType /\ new.pc \notin Analysing /\ "retire" \in Life!Jobs
    BY <1>0 DEF Life!PassType, Analysing, Life!Jobs
  <2>2. Life!Go("loop", new) /\ Life!Stamp("retire") /\ UNCHANGED <<c1, c2, c3>>
    BY <1>1 DEF Life!Retire
  <2> HIDE DEF new
  <2> QED BY <1>0, <2>1, <2>2, LifeStamps, LifeGoes
<1>2. CASE Life!Judge
  <2>1. UNCHANGED <<c1, c2, c3, c4>>
    BY <1>2 DEF Life!Judge
  <2>2. \A n \in me.todo : LET new == [me EXCEPT !.pc = "judging", !.name = n, !.seen = c1[n]]
                           IN new \in Life!PassType /\ new.pc \notin Analysing
    BY <1>0 DEF Life!PassType, Analysing
  <2>3. \E new \in Life!PassType : new.pc \notin Analysing /\ Life!Go("loop", new)
    BY <1>0, <1>2, <2>2 DEF Life!Judge, Life!End
  <2> QED BY <1>0, <2>1, <2>3, LifeGoes
<1>3. CASE Life!Judged
  <2> DEFINE n == me.name
             new == [me EXCEPT !.pc = "retiring", !.todo = @ \ {n}, !.name = LifeSetup.newborn, !.seen = Life!Absent]
  <2>1. new \in Life!PassType /\ new.pc \notin Analysing /\ n \in LifeSetup.names
    BY <1>0, LifeTypes DEF Life!PassType, Analysing
  <2>2. Life!Go("loop", new) \/ Life!Go("loop", Life!NoPass)
    BY <1>3 DEF Life!Judged, Life!End
  <2>3. UNCHANGED <<c2, c3, c4>> /\ (c1' = c1 \/ c1' = [c1 EXCEPT ![n] = [c1[n] EXCEPT !.on = FALSE]])
    BY <1>3 DEF Life!Judged, Life!RetiredFile, Life!SwitchOff
  <2> HIDE DEF new
  <2>4. c1' \in [LifeSetup.names -> Life!Configs]
    <3> HIDE DEF n
    <3>1. [c1[n] EXCEPT !.on = FALSE] \in Life!Configs
      <4>1. c1[n] \in Life!Configs
        BY <1>0, <2>1
      <4> QED BY <4>1 DEF Life!Configs
    <3> QED BY <1>0, <2>1, <2>3, <3>1
  <2> QED BY <1>0, <2>1, <2>2, <2>3, <2>4, LifeGoes
<1> QED BY <1>1, <1>2, <1>3

\* A judgement throws the switch of what the file has by then.
LEMMA LifeKeepsEdits ==
  ASSUME Life!LifecycleAssumption, Life!LifeInv, Life!LifeNext
  PROVE  Life!RetireKeepsEdits
<1> DEFINE me == c5["loop"]
           n == me.name
<1> SUFFICES ASSUME me.pc = "judging", c5'["loop"].pc = "retiring"
             PROVE  c1'[n].by = c1[n].by /\ c1'[n].coins = c1[n].coins
  BY DEF Life!RetireKeepsEdits, Life!At
<1>0. /\ c5 \in [Life!Passes -> Life!PassType] /\ "loop" \in Life!Passes /\ n \in LifeSetup.names
      /\ c1 \in [LifeSetup.names -> Life!Configs]
  BY DEF Life!LifeInv, Life!LifeTypeOK, Life!Passes, Life!PassType
<1>1. c5' # c5
  OBVIOUS
<1>2. ASSUME NEW p \in Life!Passes, NEW new, Life!Go(p, new), c5[p].pc # "judging" PROVE FALSE
  <2>1. p # "loop" /\ c5' = [c5 EXCEPT ![p] = new]
    BY <1>2 DEF Life!Go
  <2>2. c5'["loop"] = c5["loop"]
    BY <1>0, <2>1
  <2> QED BY <2>2
<1>3. ASSUME NEW p \in Life!Passes,
             \/ Life!Generate(p) \/ Life!Generated(p) \/ Life!Analyse(p) \/ Life!MatrixDone(p)
             \/ Life!Remove(p) \/ Life!Improve(p) \/ Life!Asked(p) \/ Life!Tested(p)
             \/ Life!Gaps(p) \/ Life!Filled(p)
      PROVE  FALSE
  <2>1. c5[p].pc # "judging"
    BY <1>3 DEF Life!Generate, Life!Generated, Life!Analyse, Life!MatrixDone, Life!Remove,
                Life!Improve, Life!Asked, Life!Tested, Life!Gaps, Life!Filled, Life!At
  <2>2. \E new : Life!Go(p, new)
    <3>1. CASE Life!Generate(p) \/ Life!Generated(p) \/ Life!Analyse(p)
      BY <1>1, <3>1 DEF Life!Generate, Life!Generated, Life!Analyse, Life!End
    <3>2. CASE Life!MatrixDone(p)
      BY <3>2 DEF Life!MatrixDone, Life!End
    <3>3. CASE Life!Remove(p)
      BY <3>3 DEF Life!Remove
    <3>4. CASE Life!Improve(p)
      BY <3>4 DEF Life!Improve
    <3>5. CASE Life!Asked(p) \/ Life!Tested(p) \/ Life!Gaps(p) \/ Life!Filled(p)
      BY <3>5 DEF Life!Asked, Life!Tested, Life!Gaps, Life!Filled, Life!End
    <3> QED BY <1>3, <3>1, <3>2, <3>3, <3>4, <3>5
  <2> QED BY <1>2, <2>1, <2>2, SMTT(30)
<1>4. ~Life!Retire /\ ~Life!Judge
  BY DEF Life!Retire, Life!Judge, Life!At
<1>5. ~Life!SetMode /\ \A m \in LifeSetup.names : ~Life!Edit(m)
  BY <1>1 DEF Life!SetMode, Life!Edit
<1>6. \A j \in Life!Jobs : ~Life!Elapse(j)
  BY <1>1 DEF Life!Elapse
<1>7. CASE Life!Judged
  <2>1. c1' = c1 \/ c1' = [c1 EXCEPT ![n] = [c1[n] EXCEPT !.on = FALSE]]
    BY <1>7 DEF Life!Judged, Life!RetiredFile, Life!SwitchOff
  <2> QED BY <1>0, <2>1 DEF Life!Configs
<1> QED BY <1>3, <1>4, <1>5, <1>6, <1>7 DEF Life!LifeNext

LEMMA LifeInductive ==
  ASSUME Life!LifecycleAssumption, Life!LifeInv, Life!LifeNext
  PROVE  Life!LifeInv' /\ Life!RetireKeepsEdits
BY LifeOperator, LifeIntervals, LifeCalls, LifeRetires, LifeKeepsEdits DEF Life!LifeNext

LEMMA LifeStarts ==
  ASSUME Life!LifecycleAssumption, Life!LifeInit PROVE Life!LifeInv
<1>1. Life!LifeTypeOK
  BY LifeTypes DEF Life!LifeInit, Life!LifeTypeOK, Life!Configs
<1>2. \A p \in Life!Passes : c5[p].pc = "idle"
  BY DEF Life!LifeInit, Life!NoPass
<1>3. Life!StampFollows
  BY <1>2, LifeHolding DEF Life!StampFollows, Analysing
<1> QED BY <1>1, <1>3 DEF Life!LifeInv

\* What the stamp keeps is that one pass analyses at most.
LEMMA LifeOneAnalysis == ASSUME Life!LifeInv PROVE Life!OneAnalysisAtATime
<1> DEFINE H == Life!Holding("optimize")
<1>1. Life!Cardinality(H) = Cardinality(H)
  BY DEF Life!Cardinality, Cardinality
<1>2. \A p, q \in H : p = q
  BY DEF Life!LifeInv, Life!StampFollows
<1> HIDE DEF H
<1>3. H = {} \/ \E p : H = {p}
  BY <1>2
<1>4. Cardinality(H) = 0 \/ Cardinality(H) = 1
  BY <1>3, FS_EmptySet, FS_Singleton
<1> QED BY <1>1, <1>4 DEF Life!OneAnalysisAtATime, H

----------------------------------------------------------------------------
(* The advice of the model *)

LEMMA AdvTypes ==
  ASSUME Adv!AdvTypeOK, Adv!AdviceNext PROVE Adv!AdvTypeOK'
<1>1. c8' = c8 \/ c8' = c8 + 1
  BY DEF Adv!AdviceNext, Adv!ActOnRisk, Adv!ActOnCoins, Adv!StoreCoins, Adv!Approve,
         Adv!Reject, Adv!UniverseLoads, Adv!WindowPasses, Adv!SetMode, Adv!SetParams,
         Adv!SetWatchlist, Adv!Answer, Adv!Save, Adv!Review, Adv!Touches
<1> QED BY <1>1 DEF Adv!AdvTypeOK

LEMMA AdvNoUnapprovedChange ==
  ASSUME Adv!AdvTypeOK, Adv!AdviceNext PROVE Adv!NoUnapprovedChange
<1> SUFFICES ASSUME c3' # c3, c1 # "full_auto", c7 = Adv!NoReview PROVE c8' # c8
  BY DEF Adv!NoUnapprovedChange
<1>1. CASE Adv!SetParams
  BY <1>1 DEF Adv!SetParams, Adv!Touches, Adv!AdvTypeOK
<1>2. ~Adv!ActOnRisk
  BY DEF Adv!ActOnRisk, Adv!MayAct, Adv!ByMode
<1>3. ~Adv!Approve
  BY DEF Adv!Approve, Adv!NoReview
<1>4. ASSUME \/ Adv!ActOnCoins \/ Adv!StoreCoins \/ Adv!Reject \/ Adv!UniverseLoads \/ Adv!WindowPasses
             \/ Adv!SetMode \/ Adv!SetWatchlist
             \/ \E l \in Adv!Loops : Adv!Answer(l) \/ Adv!Save(l)
             \/ \E i \in DOMAIN c5 : Adv!Review(i)
      PROVE  c3' = c3
  BY <1>4 DEF Adv!ActOnCoins, Adv!StoreCoins, Adv!Reject, Adv!UniverseLoads, Adv!WindowPasses,
              Adv!SetMode, Adv!SetWatchlist, Adv!Answer, Adv!Save, Adv!Review
<1> QED BY <1>1, <1>2, <1>3, <1>4 DEF Adv!AdviceNext

LEMMA ListsStayFull ==
  ASSUME Adv!ListsAreFull, Adv!AdviceNext PROVE Adv!ListsAreFull'
<1> USE DEF Adv!ListsAreFull, Adv!Here
<1>1. CASE Adv!ActOnCoins
  BY <1>1 DEF Adv!ActOnCoins, Adv!Step, Adv!Writes, Adv!IfAny, Adv!Unasked, Adv!Loops
<1>2. CASE Adv!StoreCoins
  BY <1>2 DEF Adv!StoreCoins, Adv!Step, Adv!Unasked, Adv!Loops
<1>3. CASE Adv!ActOnRisk
  BY <1>3 DEF Adv!ActOnRisk, Adv!Step, Adv!Unasked, Adv!Loops
<1>4. ASSUME NEW l \in Adv!Loops, Adv!Answer(l) \/ Adv!Save(l) PROVE Adv!ListsAreFull'
  <2>1. CASE Adv!Answer(l)
    BY <2>1 DEF Adv!Answer, Adv!Step, Adv!Loops
  <2>2. CASE Adv!Save(l)
    BY <2>2 DEF Adv!Save, Adv!Step, Adv!Loops
  <2> QED BY <1>4, <2>1, <2>2
<1>5. CASE Adv!SetWatchlist
  BY <1>5 DEF Adv!SetWatchlist
<1>6. ASSUME \/ Adv!Approve \/ Adv!Reject \/ Adv!UniverseLoads \/ Adv!WindowPasses
             \/ Adv!SetMode \/ Adv!SetParams \/ \E i \in DOMAIN c5 : Adv!Review(i)
      PROVE  Adv!ListsAreFull'
  BY <1>6 DEF Adv!Approve, Adv!Reject, Adv!UniverseLoads, Adv!WindowPasses, Adv!SetMode,
              Adv!SetParams, Adv!Review
<1> QED BY <1>1, <1>2, <1>3, <1>4, <1>5, <1>6 DEF Adv!AdviceNext

LEMMA AdvStarts ==
  ASSUME Adv!AdviceAssumption, Adv!AdviceInit PROVE Adv!AdvInv
BY DEF Adv!AdviceAssumption, Adv!AdviceInit, Adv!AdvInv, Adv!AdvTypeOK, Adv!ListsAreFull, Adv!Here,
       Adv!Unasked, Adv!Loops

----------------------------------------------------------------------------
(* The orchestrator *)

LEMMA OrcRelabels ==
  ASSUME NEW s, NEW label, s = [label |-> s.label, losses |-> s.losses, killed |-> s.killed], s.killed \in BOOLEAN
  PROVE  LET r == Orc!Relabelled(s, label)
         IN  /\ r = [label |-> r.label, losses |-> r.losses, killed |-> r.killed]
             /\ r.killed \in BOOLEAN
             /\ r.killed => s.killed
             /\ s.killed /\ r.label = s.label => r.killed
BY DEF Orc!Relabelled, Orc!Fresh

LEMMA OrcInductive ==
  ASSUME Orc!OrcInv, Orc!OrcNext
  PROVE  Orc!OrcInv' /\ Orc!KilledUntilTheRegimeTurns
<1> DEFINE Entry(s) ==
             /\ s = [label |-> s.label, losses |-> s.losses, killed |-> s.killed]
             /\ s.killed \in BOOLEAN
           Kept ==
             /\ c1' = c1
             /\ c2' = [v \in OrcSetup.variants |-> c2'[v]] /\ c6' = [v \in OrcSetup.variants |-> c6'[v]]
             /\ \A v \in OrcSetup.variants :
                  /\ Entry(c2'[v]) /\ (c2'[v].killed => c1.losses > 0)
                  /\ c2[v].killed /\ c2'[v].label = c2[v].label =>
                       c2'[v].killed /\ (c6'[v] # c6[v] /\ c1.enabled => ~c6'[v].enabled)
<1>0. /\ \A v \in OrcSetup.variants : Entry(c2[v]) /\ (c2[v].killed => c1.losses > 0)
      /\ c2 = [v \in OrcSetup.variants |-> c2[v]] /\ c6 = [v \in OrcSetup.variants |-> c6[v]]
  BY DEF Orc!OrcInv, Orc!OrcTypeOK, Orc!KilledByLosses
\* It is enough to look at one strategy.
<1>1. SUFFICES Kept
  BY DEF Orc!OrcInv, Orc!OrcTypeOK, Orc!KilledByLosses, Orc!KilledUntilTheRegimeTurns
<1>2. ASSUME NEW label, Orc!SeeRegime(label) PROVE Kept
  BY <1>0, <1>2, OrcRelabels, ZenonT(30) DEF Orc!SeeRegime
<1>3. ASSUME NEW v \in OrcSetup.variants, NEW pnl, NEW label, Orc!RecordTrade(v, pnl, label) PROVE Kept
  <2> DEFINE r == IF label = Orc!None THEN c2[v] ELSE Orc!Relabelled(c2[v], label)
             a == Orc!After(r, pnl)
  <2>1. Entry(r) /\ (r.killed => c2[v].killed) /\ (c2[v].killed /\ r.label = c2[v].label => r.killed)
    BY <1>0, OrcRelabels
  <2>2. /\ Entry(a) /\ a.label = r.label /\ (r.killed => a.killed)
        /\ a.killed => r.killed \/ c1.losses > 0
    <3> HIDE DEF r
    <3>1. PICK n : a = [r EXCEPT !.losses = n, !.killed = @ \/ Orc!Trips(n)]
      BY DEF Orc!After, Orc!Counted
    <3>2. PICK k \in BOOLEAN : k = (r.killed \/ Orc!Trips(n))
      OBVIOUS
    <3>3. a = [[r EXCEPT !.losses = n] EXCEPT !.killed = k]
      BY <2>1, <3>1, <3>2
    <3>4. a = [label |-> r.label, losses |-> n, killed |-> k]
      <4> HIDE DEF a
      <4> QED BY <2>1, <3>3
    <3>5. Orc!Trips(n) => c1.losses > 0
      BY DEF Orc!Trips
    <3> HIDE DEF a
    <3> QED BY <3>2, <3>4, <3>5
  <2>3. /\ c1' = c1 /\ c6' = c6 /\ c2' = [c2 EXCEPT ![v] = a]
    BY <1>3 DEF Orc!RecordTrade
  <2> HIDE DEF r, a
  <2> QED BY <1>0, <2>1, <2>2, <2>3
<1>4. ASSUME NEW label, NEW x, Orc!DecideAll(label, x) PROVE Kept
  <2> DEFINE now == [v \in OrcSetup.variants |-> IF label = Orc!None THEN c2[v] ELSE Orc!Relabelled(c2[v], label)]
  <2>1. \A v \in OrcSetup.variants :
          /\ Entry(now[v]) /\ (now[v].killed => c2[v].killed)
          /\ c2[v].killed /\ now[v].label = c2[v].label => now[v].killed
    BY <1>0, OrcRelabels
  <2>2. c1' = c1
    BY <1>4 DEF Orc!DecideAll
  <2>3. CASE ~c1.enabled
    BY <1>0, <1>4, <2>3 DEF Orc!DecideAll
  <2>4. CASE c1.enabled
    <3>1. c2' = now /\ c6' = [v \in OrcSetup.variants |-> Orc!Decision(v, now[v], x, c5)]
      BY <1>4, <2>4 DEF Orc!DecideAll
    <3>2. ASSUME NEW v, NEW s, s.killed, c1.losses > 0 PROVE ~Orc!Decision(v, s, x, c5).enabled
      BY <3>2 DEF Orc!Decision, Orc!KillBlocks
    <3>3. ASSUME NEW v \in OrcSetup.variants, now[v].killed
          PROVE  c2'[v] = now[v] /\ ~c6'[v].enabled /\ c1.losses > 0
      <4>1. c1.losses > 0
        BY <1>0, <2>1, <3>3
      <4> HIDE DEF now
      <4> QED BY <3>1, <3>2, <3>3, <4>1
    <3>4. /\ c2' = [v \in OrcSetup.variants |-> c2'[v]]
          /\ c6' = [v \in OrcSetup.variants |-> c6'[v]]
      BY <3>1
    <3>5. \A v \in OrcSetup.variants : c2'[v] = now[v]
      BY <3>1
    <3> HIDE DEF now
    <3> QED BY <1>0, <2>1, <2>2, <3>3, <3>4, <3>5
  <2> QED BY <2>3, <2>4
<1>5. ASSUME \/ Orc!NextBar \/ \E stamp, share : Orc!ObserveBreadth(stamp, share)
             \/ \E newest : Orc!LoadBreadth(newest) \/ \E v, x : Orc!ObserveVol(v, x)
      PROVE  Kept
  <2>1. c1' = c1 /\ c2' = c2 /\ c6' = c6
    BY <1>5 DEF Orc!NextBar, Orc!ObserveBreadth, Orc!LoadBreadth, Orc!ObserveVol
  <2> QED BY <1>0, <2>1
<1> QED BY <1>2, <1>3, <1>4, <1>5 DEF Orc!OrcNext

LEMMA OrcStarts == ASSUME Orc!OrcInit PROVE Orc!OrcInv
BY DEF Orc!OrcInit, Orc!OrcInv, Orc!OrcTypeOK, Orc!KilledByLosses, Orc!Fresh

----------------------------------------------------------------------------
(* Request budgets *)

\* The part counts with the same cardinality as the library.
LEMMA ThrCardinality == \A S : Thr!Cardinality(S) = Cardinality(S) /\ Thr!IsFiniteSet(S) = IsFiniteSet(S)
BY DEF Thr!Cardinality, Cardinality, Thr!IsFiniteSet, IsFiniteSet

\* A map of buckets holds charges of a set.
Within(h, charges) == \A key \in DOMAIN h : h[key] \subseteq charges

\* Charging one bucket keeps what is recent in every bucket, and adds the charge unless
\* the bucket is over its limit.
LEMMA ThrSpentWithin ==
  ASSUME NEW h, NEW key, NEW c, NEW charges, Within(h, charges)
  PROVE  /\ Within(Thr!Spent(h, key, c), charges \cup {c})
         /\ Thr!Over(h, key) => Within(Thr!Spent(h, key, c), charges)
BY DEF Thr!Spent, Thr!With, Thr!Recent, Within

LEMMA ThrSpentKeeps ==
  ASSUME NEW h, NEW key, NEW c, NEW other
  PROVE  /\ Thr!Recent(h, other) \subseteq Thr!Recent(Thr!Spent(h, key, c), other)
         /\ other # key => Thr!Recent(h, other) = Thr!Recent(Thr!Spent(h, key, c), other)
BY DEF Thr!Spent, Thr!With, Thr!Recent

LEMMA ThrSpentCharges ==
  ASSUME NEW h, NEW key, NEW c, ~Thr!Over(h, key), c2 - c.at < ThrSetup.window
  PROVE  c \in Thr!Recent(Thr!Spent(h, key, c), key)
BY DEF Thr!Spent, Thr!With, Thr!Recent

\* Pruning forgets no recent charge.
LEMMA ThrPruned ==
  ASSUME NEW h, NEW key, NEW charges, Within(h, charges), Thr!ThrottleAssumption,
         c2 \in Nat, \A c \in charges : c.at \in Nat
  PROVE  LET p == Thr!Pruned(h)
         IN  Within(p, charges) /\ Thr!Recent(p, key) = Thr!Recent(h, key)
<1>1. CASE Thr!Cardinality(DOMAIN h) <= ThrSetup.maxUsers
  BY <1>1 DEF Thr!Pruned
<1>2. CASE ~(Thr!Cardinality(DOMAIN h) <= ThrSetup.maxUsers)
  <2>1. Thr!Pruned(h) = [k \in {j \in DOMAIN h : ~Thr!Stale(h, j)} |-> h[k]]
    BY <1>2 DEF Thr!Pruned
  <2>2. ASSUME key \in DOMAIN h, Thr!Stale(h, key) PROVE Thr!Recent(h, key) = {}
    <3>1. \A c \in h[key] : c2 - c.at >= ThrSetup.window /\ c.at \in Nat
      BY <2>2 DEF Thr!Stale, Thr!IsStale, Within
    <3>2. \A c \in h[key] : ~(c2 - c.at < ThrSetup.window)
      BY <3>1 DEF Thr!ThrottleAssumption
    <3> QED BY <3>2 DEF Thr!Recent
  <2> QED BY <2>1, <2>2 DEF Thr!Recent, Within
<1> QED BY <1>1, <1>2

LEMMA ThrRequest ==
  ASSUME Thr!ThrottleAssumption, Thr!ThrInv,
         NEW u \in ThrSetup.users, NEW f \in Thr!Buckets, Thr!Request(u, f)
  PROVE  Thr!ThrInv'
<1> DEFINE A == ThrSetup.aggregate
           family == <<f, u>>
           shared == <<A, u>>
           c == Thr!NewCharge(u, f)
           once == Thr!Spent(c1, family, c)
           twice == Thr!Spent(once, shared, c)
           both == IF f = A THEN once ELSE twice
           Served == ~Thr!Over(c1, family) /\ (f = A \/ ~Thr!Over(once, shared))
\* The request, in its two outcomes.
<1>1. /\ c2' = c2
      /\ c3' = IF Thr!Over(c1, family) THEN c3 ELSE c3 \cup {c}
      /\ Served => c1' = Thr!Pruned(both) /\ c4' = c4 \cup {c}
      /\ ~Served => c4' = c4 /\ c1' = IF Thr!Over(c1, family) THEN once ELSE twice
  BY DEF Thr!Request
<1>2. /\ c2 \in Nat /\ IsFiniteSet(c3) /\ c4 \subseteq c3 /\ Within(c1, c3)
      /\ \A d \in c3 : d.at \in Nat /\ d.at <= c2
  BY ThrCardinality DEF Thr!ThrInv, Thr!ThrTypeOK, Within
<1>3. c.user = u /\ c.family = f /\ c.at = c2 /\ c2 - c.at < ThrSetup.window
  BY <1>2 DEF Thr!NewCharge, Thr!ThrottleAssumption
<1>4. family = shared <=> f = A
  OBVIOUS
<1> HIDE DEF c
<1>5. \A d \in c3 \cup {c} : d.at \in Nat /\ d.at <= c2
  BY <1>2, <1>3
\* What the buckets hold after the first and after the second charge.
<1>6. /\ Within(once, c3 \cup {c}) /\ (Thr!Over(c1, family) => Within(once, c3))
      /\ \A key : Thr!Recent(c1, key) \subseteq Thr!Recent(once, key)
      /\ ~Thr!Over(c1, family) => c \in Thr!Recent(once, family)
      /\ f # A => Thr!Recent(c1, shared) = Thr!Recent(once, shared)
  <2>1. Within(once, c3 \cup {c}) /\ (Thr!Over(c1, family) => Within(once, c3))
    BY <1>2, ThrSpentWithin
  <2>2. \A key : /\ Thr!Recent(c1, key) \subseteq Thr!Recent(once, key)
                 /\ key # family => Thr!Recent(c1, key) = Thr!Recent(once, key)
    BY ThrSpentKeeps
  <2>3. ~Thr!Over(c1, family) => c \in Thr!Recent(once, family)
    BY <1>3, ThrSpentCharges
  <2> QED BY <1>4, <2>1, <2>2, <2>3
<1> HIDE DEF once
<1>7. /\ Within(twice, c3 \cup {c})
      /\ \A key : Thr!Recent(once, key) \subseteq Thr!Recent(twice, key)
      /\ ~Thr!Over(once, shared) => c \in Thr!Recent(twice, shared)
  <2>1. (c3 \cup {c}) \cup {c} = c3 \cup {c}
    OBVIOUS
  <2> QED BY <1>3, <1>6, <2>1, ThrSpentWithin, ThrSpentKeeps, ThrSpentCharges
<1> HIDE DEF twice
<1>8. /\ Within(both, c3 \cup {c})
      /\ \A key : Thr!Recent(c1, key) \subseteq Thr!Recent(both, key)
      /\ Served => c \in Thr!Recent(both, family) /\ c \in Thr!Recent(both, shared)
  BY <1>4, <1>6, <1>7
<1> HIDE DEF both, family, shared
<1>9. /\ Within(Thr!Pruned(both), c3 \cup {c})
      /\ \A key : Thr!Recent(Thr!Pruned(both), key) = Thr!Recent(both, key)
  BY <1>2, <1>5, <1>8, ThrPruned
\* The four parts of the invariant.
<1>10. Thr!ThrTypeOK'
  <2>1. IsFiniteSet(c3 \cup {c})
    BY <1>2, FS_AddElement
  <2>2. c4' \subseteq c3'
    BY <1>1, <1>2 DEF Served
  <2>3. Within(c1', c3')
    BY <1>1, <1>2, <1>6, <1>7, <1>9 DEF Within, Served
  <2>4. IsFiniteSet(c3') /\ \A d \in c3' : d.at \in Nat /\ d.at <= c2'
    BY <1>1, <1>2, <1>5, <2>1
  <2> QED BY <1>1, <1>2, <2>2, <2>3, <2>4, ThrCardinality DEF Thr!ThrTypeOK, Within
<1>11. \A key : Thr!Recent(c1, key) \subseteq Thr!Recent(c1', key)
  BY <1>1, <1>6, <1>7, <1>8, <1>9
<1>12. Thr!StillCharged'
  <2>1. ASSUME NEW d \in c4', c2 - d.at < ThrSetup.window
        PROVE  d \in Thr!Recent(c1', <<d.family, d.user>>) /\ d \in Thr!Recent(c1', <<A, d.user>>)
    <3>1. CASE d \in c4
      <4>1. d \in Thr!Recent(c1, <<d.family, d.user>>) /\ d \in Thr!Recent(c1, <<A, d.user>>)
        BY <2>1, <3>1 DEF Thr!ThrInv, Thr!StillCharged, Thr!Charges, Thr!Recent
      <4> QED BY <1>11, <4>1
    <3>2. CASE d = c /\ Served
      BY <1>1, <1>3, <1>8, <1>9, <3>2 DEF family, shared
    <3> QED BY <1>1, <2>1, <3>1, <3>2
  <2> QED BY <1>1, <2>1 DEF Thr!StillCharged, Thr!Charges, Thr!Recent
<1>13. Thr!BudgetsHold'
  <2> SUFFICES ASSUME NEW v \in ThrSetup.users, NEW b \in Thr!Buckets, NEW t \in 1 .. ThrSetup.lastTime
               PROVE  Cardinality(Thr!Counted(v, b, t)') <= ThrSetup.limits[b]
    BY ThrCardinality DEF Thr!BudgetsHold
  <2>1. CASE Thr!Counted(v, b, t)' = Thr!Counted(v, b, t)
    BY <2>1, ThrCardinality DEF Thr!ThrInv, Thr!BudgetsHold
  <2>2. CASE Thr!Counted(v, b, t)' # Thr!Counted(v, b, t)
    <3> DEFINE recent == Thr!Recent(c1, <<b, u>>)
    <3>1. Served /\ v = u /\ b \in {A, f} /\ t <= c2 /\ c2 < t + ThrSetup.window
      BY <1>1, <1>3, <2>2 DEF Thr!Counted
    <3>2. Thr!Counted(v, b, t)' \subseteq recent \cup {c}
      <4>1. ASSUME NEW d \in c4, t <= d.at, d.user = u, b \in {A, d.family} PROVE d \in recent
        <5>1. d.at \in Nat /\ c2 - d.at < ThrSetup.window
          BY <1>2, <3>1, <4>1 DEF Thr!ThrottleAssumption
        <5> QED BY <4>1, <5>1 DEF Thr!ThrInv, Thr!StillCharged, Thr!Charges, Thr!Recent
      <4> QED BY <1>1, <3>1, <4>1 DEF Thr!Counted
    <3>3. IsFiniteSet(recent) /\ Cardinality(recent) \in Nat
      <4>1. recent \subseteq c3
        BY <1>2 DEF Within, Thr!Recent
      <4> QED BY <1>2, <4>1, FS_Subset, FS_CardinalityType
    <3>4. ~(Cardinality(recent) >= ThrSetup.limits[b])
      <4>1. CASE b = f
        BY <3>1, <4>1, ThrCardinality DEF Thr!Over, family
      <4>2. CASE b # f
        BY <1>6, <3>1, <4>2, ThrCardinality DEF Thr!Over, shared
      <4> QED BY <4>1, <4>2
    <3>5. IsFiniteSet(recent \cup {c}) /\ Cardinality(recent \cup {c}) <= Cardinality(recent) + 1
      <4> HIDE DEF recent
      <4>1. /\ IsFiniteSet(recent \cup {c})
            /\ Cardinality(recent \cup {c}) = Cardinality(recent) \/ Cardinality(recent \cup {c}) = Cardinality(recent) + 1
        BY <3>3, FS_AddElement
      <4> QED BY <3>3, <4>1
    <3> HIDE DEF recent
    <3>6. /\ Cardinality(Thr!Counted(v, b, t)') <= Cardinality(recent \cup {c})
          /\ Cardinality(Thr!Counted(v, b, t)') \in Nat /\ Cardinality(recent \cup {c}) \in Nat
      BY <3>2, <3>5, FS_Subset, FS_CardinalityType
    <3>7. ThrSetup.limits[b] \in Nat
      BY DEF Thr!ThrottleAssumption
    <3> QED BY <3>3, <3>4, <3>5, <3>6, <3>7
  <2> QED BY <2>1, <2>2
<1> QED BY <1>10, <1>12, <1>13 DEF Thr!ThrInv

LEMMA ThrInductive ==
  ASSUME Thr!ThrottleAssumption, Thr!ThrInv, Thr!ThrNext PROVE Thr!ThrInv'
<1>1. CASE Thr!Pass
  <2>1. c2' = c2 + 1 /\ c1' = c1 /\ c3' = c3 /\ c4' = c4
    BY <1>1 DEF Thr!Pass
  <2>2. /\ c2 \in Nat /\ c4 \subseteq c3 /\ \A d \in c3 : d.at \in Nat /\ d.at <= c2
    BY DEF Thr!ThrInv, Thr!ThrTypeOK
  <2>3. Thr!ThrTypeOK'
    BY <2>1, <2>2 DEF Thr!ThrInv, Thr!ThrTypeOK
  <2>4. \A d \in c4 : c2 + 1 - d.at < ThrSetup.window => c2 - d.at < ThrSetup.window
    BY <2>2 DEF Thr!ThrottleAssumption
  <2>5. Thr!StillCharged'
    <3>1. ASSUME NEW d \in c4', c2' - d.at < ThrSetup.window
          PROVE  d \in Thr!Charges(<<d.family, d.user>>)' /\ d \in Thr!Charges(<<ThrSetup.aggregate, d.user>>)'
      <4>1. d \in c4 /\ c2 - d.at < ThrSetup.window
        BY <2>1, <2>2, <2>4, <3>1
      <4>2. d \in Thr!Charges(<<d.family, d.user>>) /\ d \in Thr!Charges(<<ThrSetup.aggregate, d.user>>)
        BY <4>1 DEF Thr!ThrInv, Thr!StillCharged
      <4> QED BY <2>1, <4>2 DEF Thr!Charges
    <3> QED BY <3>1 DEF Thr!StillCharged, Thr!Charges
  <2>6. Thr!BudgetsHold'
    BY <2>1 DEF Thr!ThrInv, Thr!BudgetsHold, Thr!Counted
  <2> QED BY <2>3, <2>5, <2>6 DEF Thr!ThrInv
<1> QED BY <1>1, ThrRequest DEF Thr!ThrNext

LEMMA ThrStarts ==
  ASSUME Thr!ThrottleAssumption, Thr!ThrInit PROVE Thr!ThrInv
<1>1. c1 = Thr!NoHits /\ c2 = 1 /\ c3 = {} /\ c4 = {}
  BY DEF Thr!ThrInit
<1>2. Thr!ThrTypeOK
  BY <1>1, FS_EmptySet, ThrCardinality DEF Thr!ThrTypeOK, Thr!NoHits
<1>3. Thr!StillCharged
  BY <1>1 DEF Thr!StillCharged
<1>4. Thr!BudgetsHold
  <2> SUFFICES ASSUME NEW v \in ThrSetup.users, NEW b \in Thr!Buckets, NEW t \in 1 .. ThrSetup.lastTime
               PROVE  Cardinality(Thr!Counted(v, b, t)) <= ThrSetup.limits[b]
    BY ThrCardinality DEF Thr!BudgetsHold
  <2>1. Thr!Counted(v, b, t) = {}
    BY <1>1 DEF Thr!Counted
  <2>2. ThrSetup.limits[b] \in Nat
    BY DEF Thr!ThrottleAssumption
  <2> QED BY <2>1, <2>2, FS_EmptySet
<1> QED BY <1>2, <1>3, <1>4 DEF Thr!ThrInv

----------------------------------------------------------------------------
(* The trading page *)

LEMMA PageStarts == ASSUME Browser!PageInit PROVE Browser!PageInv
BY DEF Browser!PageInit, Browser!PageInv, Browser!Tags, Browser!Panels, Browser!Blank

LEMMA PageStays ==
  ASSUME Browser!PageInv, Browser!PageNext PROVE Browser!PageInv'
<1> USE DEF Browser!PageInv, Browser!Blank
\* What is asked for is a chart of what is chosen with the number after the last one, or none.
<1>1. ASSUME NEW s, NEW i PROVE
        LET r == Browser!Chart(s, i)
        IN r.kind = "kline" /\ r.what = <<s, i>> /\ r.number = c7["kline"] + 1
  BY DEF Browser!Chart, Browser!Request, Browser!Number, Browser!Numbered, Browser!Tags
<1>2. Browser!Ticker.kind = "ticker" /\ \A what : Browser!Request("feeEst", what).kind = "feeEst"
  BY DEF Browser!Ticker, Browser!Request
<1>3. Browser!Counted("kline")["kline"] = c7["kline"] + 1 /\ Browser!Counted("feeEst")["kline"] = c7["kline"]
      /\ \A k : DOMAIN Browser!Counted(k) = Browser!Tags
  BY DEF Browser!Counted, Browser!Tags
<1>4. \A r : Browser!Sent(r) \subseteq c8 \cup {r}
  BY DEF Browser!Sent
<1>5. ASSUME NEW kind \in Browser!Panels, Browser!Poll(kind) PROVE Browser!PageInv'
  BY <1>1, <1>2, <1>3, <1>4, <1>5 DEF Browser!Poll
<1>6. ASSUME NEW s, Browser!Pick(s) PROVE Browser!PageInv'
  <2> DEFINE chart == Browser!Chart(s, c2)
  <2>1. /\ c8' = c8 \cup {Browser!Request("ticker", <<s>>), chart} /\ c1' = s /\ c2' = c2
        /\ c7' = Browser!Counted("kline") /\ DOMAIN c3' = Browser!Panels /\ c3'["kline"] = <<>>
    BY <1>6 DEF Browser!Pick, Browser!Panels
  <2>2. Browser!Request("ticker", <<s>>).kind = "ticker"
    BY DEF Browser!Request
  <2> HIDE DEF chart
  <2> QED BY <1>1, <1>3, <2>1, <2>2 DEF chart
<1>7. ASSUME NEW i, Browser!Switch(i) PROVE Browser!PageInv'
  <2>1. /\ c8' = c8 \cup {Browser!Chart(c1, i)} /\ c2' = i /\ c1' = c1
        /\ c7' = Browser!Counted("kline") /\ DOMAIN c3' = Browser!Panels /\ c3'["kline"] = <<>>
    BY <1>7 DEF Browser!Switch, Browser!Panels
  <2> QED BY <1>1, <1>3, <2>1
<1>8. ASSUME NEW q, Browser!Type(q) PROVE Browser!PageInv'
  BY <1>8 DEF Browser!Type
<1>9. ASSUME NEW r \in c8, Browser!Answer(r) PROVE Browser!PageInv'
  <2>1. c8' \subseteq c8 /\ c7' = c7 /\ c1' = c1 /\ c2' = c2
    BY <1>9 DEF Browser!Answer
  <2>2. DOMAIN c3' = Browser!Panels /\ c3'["kline"] \in {<<>>, c3["kline"], <<c1, c2>>}
    <3>1. CASE Browser!Drawn(r)
      BY <3>1 DEF Browser!Drawn, Browser!Late, Browser!Superseded, Browser!Tags, Browser!Panels
    <3>2. CASE Browser!Estimated(r) \/ Browser!Ordered(r) \/ Browser!Found(r)
      BY <3>2 DEF Browser!Estimated, Browser!Ordered, Browser!Found
    <3> QED BY <1>9, <3>1, <3>2 DEF Browser!Answer
  <2> QED BY <2>1, <2>2
<1>10. CASE Browser!Edit
  BY <1>10 DEF Browser!Edit
<1>11. CASE Browser!Estimate
  BY <1>2, <1>3, <1>4, <1>11 DEF Browser!Estimate
<1>12. CASE Browser!Submit
  BY <1>12 DEF Browser!Submit
<1>13. CASE Browser!Search
  BY <1>13 DEF Browser!Search
<1>14. CASE Browser!Visibility
  BY <1>1, <1>2, <1>3, <1>4, <1>14 DEF Browser!Visibility
<1> QED
  BY <1>5, <1>6, <1>7, <1>8, <1>9, <1>10, <1>11, <1>12, <1>13, <1>14 DEF Browser!PageNext

LEMMA PageStands == ASSUME Browser!PageInv, UNCHANGED cells PROVE Browser!PageInv'
BY DEF cells, Browser!PageInv

----------------------------------------------------------------------------
(* News and alerts *)

\* A beginning stays one when something is appended.
LEMMA BeginsLonger ==
  ASSUME NEW V, NEW a \in Seq(V), NEW b \in Seq(V), News!Begins(a, b), NEW v \in V
  PROVE  /\ News!Begins(a, Append(b, v)) /\ Append(b, v) \in Seq(V)
         /\ Len(Append(b, v)) = Len(b) + 1 /\ Len(a) < Len(Append(b, v))
BY DEF News!Begins

LEMMA BeginsPrefix ==
  ASSUME NEW V, NEW a \in Seq(V), NEW b \in Seq(V), News!Begins(a, b) PROVE News!IsPrefix(a, b)
<1>1. /\ DOMAIN SubSeq(a, 1, Len(a)) = 1..Len(a) /\ DOMAIN SubSeq(b, 1, Len(a)) = 1..Len(a)
      /\ \A i \in 1..Len(a) : SubSeq(a, 1, Len(a))[i] = a[i] /\ SubSeq(b, 1, Len(a))[i] = b[i]
  BY DEF News!Begins
<1>2. SubSeq(a, 1, Len(a)) = [i \in 1..Len(a) |-> a[i]] /\ SubSeq(b, 1, Len(a)) = [i \in 1..Len(a) |-> b[i]]
  BY DEF News!Begins
<1> QED BY <1>2 DEF News!Begins, News!IsPrefix

\* PublishedInOrder of any queue, averages heard, judgements and coins unsaid.
InOrder(q, heard, all, silent) ==
  /\ \A s \in News!Coins : News!Begins(heard[s], all[s])
  /\ \A i \in DOMAIN q : q[i].kind = "update" =>
       News!Begins(q[i].value, all[q[i].symbol]) /\ Len(heard[q[i].symbol]) < Len(q[i].value)
  /\ \A i, j \in DOMAIN q :
       i < j /\ q[i].kind = "update" /\ q[j].kind = "update" /\ q[j].symbol = q[i].symbol =>
         Len(q[i].value) < Len(q[j].value)
  /\ \A s \in News!Coins \ silent :
       heard[s] = all[s] \/ \E i \in DOMAIN q : q[i] = News!Update(s, all[s])

LEMMA InOrderIs == News!PublishedInOrder <=> InOrder(c6, c7, c4, c5)
BY DEF News!PublishedInOrder, InOrder

Heard == [News!Coins -> News!Averages]

\* A judgement that is not published, and one that is.
LEMMA NewsGoesOn ==
  ASSUME NEW q \in Seq(News!Event), NEW heard \in Heard, NEW all \in Heard, NEW silent,
         InOrder(q, heard, all, silent), NEW s \in News!Coins, NEW v \in NewsSetup.votes \cup {0},
         NEW more, more = [all EXCEPT ![s] = Append(@, v)]
  PROVE  LET e == News!Update(s, more[s])
         IN /\ more \in Heard /\ e \in News!Event
            /\ InOrder(q, heard, more, silent \cup {s})
            /\ InOrder(Append(q, e), heard, more, silent \ {s})
<1> DEFINE e == News!Update(s, more[s])
           V == NewsSetup.votes \cup {0}
<1>1. \A k \in News!Coins : heard[k] \in Seq(V) /\ all[k] \in Seq(V)
  BY DEF Heard, News!Averages
<1>2. \A i \in DOMAIN q : q[i].symbol \in News!Coins /\ q[i].value \in Seq(V)
  <2>1. \A x \in News!Event : x.symbol \in News!Coins /\ x.value \in Seq(V)
    BY DEF News!Event, News!Averages
  <2> QED BY <2>1, ElementsOf
<1>3. more[s] = Append(all[s], v) /\ \A k \in News!Coins : k # s => more[k] = all[k]
  BY DEF Heard
<1>4. more[s] \in Seq(V) /\ Len(more[s]) = Len(all[s]) + 1
  BY <1>1, <1>3
<1>5. more \in Heard
  BY <1>1, <1>4 DEF Heard, News!Averages
<1>6. e \in News!Event
  BY <1>4 DEF News!Event, News!Update, News!Averages
<1>7. \A k \in News!Coins, a \in Seq(V) : News!Begins(a, all[k]) => News!Begins(a, more[k])
  BY <1>1, <1>3, BeginsLonger
<1>8. /\ \A k \in News!Coins : News!Begins(heard[k], more[k])
      /\ \A i \in DOMAIN q : q[i].kind = "update" =>
            News!Begins(q[i].value, more[q[i].symbol]) /\ Len(heard[q[i].symbol]) < Len(q[i].value)
  BY <1>1, <1>2, <1>7 DEF InOrder
<1>9. InOrder(q, heard, more, silent \cup {s})
  BY <1>3, <1>8 DEF InOrder
<1>10. InOrder(Append(q, e), heard, more, silent \ {s})
  <2>1. /\ e.kind = "update" /\ e.symbol = s /\ e.value = more[s]
    BY DEF News!Update
  <2>2. News!Begins(more[s], more[s]) /\ Len(heard[s]) < Len(more[s])
    BY <1>1, <1>4 DEF News!Begins, InOrder
  <2>3. \A i \in DOMAIN q : q[i].kind = "update" /\ q[i].symbol = s => Len(q[i].value) < Len(more[s])
    BY <1>1, <1>2, <1>4 DEF News!Begins, InOrder
  <2> DEFINE r == Append(q, e)
  <2>4. /\ DOMAIN r = 1..Len(q) + 1 /\ DOMAIN q = 1..Len(q) /\ Len(q) \in Nat
        /\ r[Len(q) + 1] = e /\ \A i \in DOMAIN q : r[i] = q[i]
        /\ \A i \in DOMAIN r : i \in DOMAIN q \/ i = Len(q) + 1
        /\ \A i, j \in DOMAIN r : i < j => i \in DOMAIN q
    BY <1>6, AppendEnds
  <2> HIDE DEF e, r
  <2>5. \A k \in News!Coins \ (silent \ {s}) :
          heard[k] = more[k] \/ \E i \in DOMAIN r : r[i] = News!Update(k, more[k])
    <3> TAKE k \in News!Coins \ (silent \ {s})
    <3>1. CASE k = s
      <4>1. e = News!Update(s, more[s])
        BY DEF e
      <4> QED BY <2>4, <3>1, <4>1
    <3>2. CASE k # s
      BY <1>3, <2>4, <3>2 DEF InOrder
    <3> QED BY <3>1, <3>2
  <2>6. \A i \in DOMAIN r : (i \in DOMAIN q /\ r[i] = q[i]) \/ (i = Len(q) + 1 /\ r[i] = e)
    BY <2>4
  <2>8. \A i \in DOMAIN r : r[i].kind = "update" =>
          News!Begins(r[i].value, more[r[i].symbol]) /\ Len(heard[r[i].symbol]) < Len(r[i].value)
    BY <1>8, <2>1, <2>2, <2>6
  <2>9. \A i, j \in DOMAIN r :
          i < j /\ r[i].kind = "update" /\ r[j].kind = "update" /\ r[j].symbol = r[i].symbol =>
            Len(r[i].value) < Len(r[j].value)
    BY <2>1, <2>3, <2>4, <2>6, ZenonT(30) DEF InOrder
  <2>10. InOrder(r, heard, more, silent \ {s})
    BY <1>8, <2>5, <2>8, <2>9 DEF InOrder
  <2> QED BY <2>10 DEF r
<1> QED BY <1>5, <1>6, <1>9, <1>10

\* An alert in the queue is no update.
LEMMA NewsAlerts ==
  ASSUME NEW q \in Seq(News!Event), NEW heard, NEW all, NEW silent,
         InOrder(q, heard, all, silent), NEW s \in News!Coins
  PROVE  InOrder(Append(q, News!Alert(s)), heard, all, silent) /\ News!Alert(s) \in News!Event
<1> DEFINE e == News!Alert(s)
           r == Append(q, e)
<1>1. e \in News!Event /\ e.kind # "update"
  BY DEF News!Event, News!Alert, News!Averages
<1>2. \A i \in DOMAIN r : (i \in DOMAIN q /\ r[i] = q[i]) \/ r[i] = e
  BY <1>1, AppendEnds
<1>3. \A i \in DOMAIN q : i \in DOMAIN r /\ r[i] = q[i]
  BY <1>1, AppendEnds
<1> HIDE DEF e, r
<1>4. InOrder(r, heard, all, silent)
  BY <1>1, <1>2, <1>3 DEF InOrder
<1> QED BY <1>1, <1>4 DEF e, r

\* The first of the queue is heard.
LEMMA NewsIsHeard ==
  ASSUME NEW q \in Seq(News!Event), q # <<>>, NEW heard \in Heard, NEW all \in Heard, NEW silent,
         InOrder(q, heard, all, silent)
  PROVE  LET e == Head(q)
             now == IF e.kind = "update" THEN [heard EXCEPT ![e.symbol] = e.value] ELSE heard
         IN now \in Heard /\ InOrder(Tail(q), now, all, silent)
<1> DEFINE e == Head(q)
           r == Tail(q)
           now == IF e.kind = "update" THEN [heard EXCEPT ![e.symbol] = e.value] ELSE heard
<1>1. e = q[1] /\ 1 \in DOMAIN q /\ e \in News!Event
  BY TailShifts
<1>2. e.symbol \in News!Coins /\ e.value \in News!Averages
  BY <1>1 DEF News!Event
<1>3. now \in Heard
  BY <1>2 DEF Heard
<1>4. \A i \in DOMAIN r : i + 1 \in DOMAIN q /\ r[i] = q[i + 1] /\ i \in Nat /\ 1 < i + 1
  BY TailShifts
<1>5. \A i \in DOMAIN q : i = 1 \/ (i - 1 \in DOMAIN r /\ r[i - 1] = q[i])
  BY TailShifts
<1>6. \A k \in News!Coins : now[k] = IF e.kind = "update" /\ k = e.symbol THEN e.value ELSE heard[k]
  BY DEF Heard
<1>7. \A i \in DOMAIN r : r[i].symbol \in News!Coins
  <2>1. \A i \in DOMAIN q : q[i] \in News!Event
    BY ElementsOf
  <2>2. \A x \in News!Event : x.symbol \in News!Coins
    BY DEF News!Event
  <2> HIDE DEF r
  <2> QED BY <1>4, <2>1, <2>2
<1> HIDE DEF e, r, now
<1>8. \A k \in News!Coins : News!Begins(now[k], all[k])
  BY <1>1, <1>6 DEF InOrder
<1>9. \A i \in DOMAIN r : r[i].kind = "update" =>
        News!Begins(r[i].value, all[r[i].symbol]) /\ Len(now[r[i].symbol]) < Len(r[i].value)
  BY <1>1, <1>4, <1>6, <1>7, SMTT(30) DEF InOrder
<1>10. \A i, j \in DOMAIN r :
         i < j /\ r[i].kind = "update" /\ r[j].kind = "update" /\ r[j].symbol = r[i].symbol =>
           Len(r[i].value) < Len(r[j].value)
  <2> TAKE i, j \in DOMAIN r
  <2>1. i < j => i + 1 < j + 1
    BY <1>4
  <2> QED BY <1>4, <2>1 DEF InOrder
<1>11. ASSUME NEW k \in News!Coins \ silent
       PROVE  now[k] = all[k] \/ \E i \in DOMAIN r : r[i] = News!Update(k, all[k])
  <2>0. Len(all[k]) \in Nat
    BY DEF Heard, News!Averages
  <2>1. CASE heard[k] = all[k]
    <3>1. CASE e.kind = "update" /\ k = e.symbol
      <4>1. Len(heard[k]) < Len(e.value) /\ Len(e.value) <= Len(all[k])
        BY <1>1, <3>1 DEF InOrder, News!Begins
      <4> QED BY <1>2, <2>0, <2>1, <4>1 DEF News!Averages
    <3> QED BY <1>6, <2>1, <3>1
  <2>2. ASSUME NEW i \in DOMAIN q, q[i] = News!Update(k, all[k])
        PROVE  now[k] = all[k] \/ \E j \in DOMAIN r : r[j] = News!Update(k, all[k])
    <3>1. CASE i = 1
      BY <1>1, <1>6, <2>2, <3>1 DEF News!Update
    <3> QED BY <1>5, <2>2, <3>1
  <2> QED BY <2>1, <2>2 DEF InOrder
<1>12. InOrder(r, now, all, silent)
  BY <1>8, <1>9, <1>10, <1>11 DEF InOrder
<1> QED BY <1>3, <1>12 DEF e, r, now

Walks == [on : BOOLEAN, event : News!Event \cup {<<>>}, next : Nat, present : SUBSET News!RuleIds,
          asked : SUBSET News!RuleIds, cut : BOOLEAN, missed : SUBSET News!RuleIds]

\* The rules the event of a walk met and has not asked yet are from position n on.
AheadOf(list, w, n) ==
  \A i \in DOMAIN list : list[i].id \in w.present =>
    list[i].id \in w.asked \/ \E j \in DOMAIN list : j >= n /\ list[j].id = list[i].id

LEMMA RuleIdsOf ==
  ASSUME c8 \in Seq(News!Rule) PROVE \A i \in DOMAIN c8 : c8[i].id \in News!RuleIds
<1>1. \A i \in DOMAIN c8 : c8[i] \in News!Rule
  BY ElementsOf
<1>2. \A r \in News!Rule : r.id \in News!RuleIds
  BY DEF News!Rule
<1> QED BY <1>1, <1>2

LEMMA WalkGoesOn ==
  ASSUME c8 \in Seq(News!Rule), NEW w \in Walks, w.missed = {}, NEW n \in Nat, n > 0,
         w.cut \/ AheadOf(c8, w, n)
  PROVE  LET r == News!Walked(w, n)
         IN /\ r \in Walks /\ r.missed = {}
            /\ r.on => r.next \in DOMAIN c8
            /\ r.on /\ ~r.cut => AheadOf(c8, r, r.next + 1)
<1> DEFINE stop == {j \in n..Len(c8) : News!Fires(c8[j], w.event) \/ ~News!GoesOn(c8[j], w.event)}
           last == IF stop = {} THEN Len(c8) ELSE News!Min(stop)
           passed == {c8[j].id : j \in n..last}
           r == News!Walked(w, n)
<1>1. Len(c8) \in Nat /\ DOMAIN c8 = 1..Len(c8)
  OBVIOUS
<1>2. stop \subseteq Nat /\ \A j \in stop : j \in DOMAIN c8 /\ j >= n /\ News!Fires(c8[j], w.event)
  BY <1>1 DEF News!GoesOn, News!Caught
<1>3. stop # {} => last \in stop
  <2> HIDE DEF stop
  <2>1. ASSUME stop # {} PROVE \E m \in stop : \A k \in stop : m <= k
    BY <1>2, <2>1, Least
  <2> QED BY <2>1 DEF News!Min
<1>4. last \in Nat /\ last <= Len(c8)
  BY <1>1, <1>2, <1>3
<1>5. passed \subseteq News!RuleIds
  <2> HIDE DEF last
  <2> QED BY <1>1, <1>4, RuleIdsOf
<1>6. \A i \in DOMAIN c8 : i >= n /\ i <= last => c8[i].id \in passed
  <2> HIDE DEF last
  <2> QED BY <1>1, <1>4
<1>7. CASE stop = {}
  <2>1. r = [News!NoWalk EXCEPT !.missed = IF w.cut THEN {} ELSE
               (w.present \cap {c8[j].id : j \in DOMAIN c8}) \ (w.asked \cup passed)]
    BY <1>7 DEF News!Walked
  <2>2. last = Len(c8)
    BY <1>7
  <2>3. ~w.cut => (w.present \cap {c8[j].id : j \in DOMAIN c8}) \ (w.asked \cup passed) = {}
    <3> HIDE DEF passed, last
    <3> SUFFICES ASSUME ~w.cut, NEW i \in DOMAIN c8, c8[i].id \in w.present, c8[i].id \notin w.asked
                 PROVE  c8[i].id \in passed
      OBVIOUS
    <3>1. PICK j \in DOMAIN c8 : j >= n /\ c8[j].id = c8[i].id
      BY DEF AheadOf
    <3> QED BY <1>1, <1>6, <2>2, <3>1
  <2>4. r = [News!NoWalk EXCEPT !.missed = {}]
    <3> HIDE DEF passed, last, r
    <3> QED BY <2>1, <2>3
  <2>5. /\ [News!NoWalk EXCEPT !.missed = {}] \in Walks /\ [News!NoWalk EXCEPT !.missed = {}].missed = {}
        /\ ~[News!NoWalk EXCEPT !.missed = {}].on
    BY DEF Walks, News!NoWalk
  <2> HIDE DEF r
  <2>6. r \in Walks /\ r.missed = {} /\ ~r.on
    BY <2>4, <2>5
  <2> QED BY <2>6 DEF r
<1>8. CASE stop # {}
  <2>1. News!Fires(c8[last], w.event) /\ last \in DOMAIN c8 /\ last >= n
    <3> HIDE DEF stop, last
    <3> QED BY <1>2, <1>3, <1>8
  <2>2. r = [w EXCEPT !.on = TRUE, !.asked = @ \cup passed, !.next = last]
    <3>1. r = IF stop = {} \/ ~News!Fires(c8[last], w.event)
              THEN [News!NoWalk EXCEPT !.missed = IF w.cut THEN {} ELSE
                      (w.present \cap {c8[j].id : j \in DOMAIN c8}) \ (w.asked \cup passed)]
              ELSE [w EXCEPT !.on = TRUE, !.asked = @ \cup passed, !.next = last]
      BY DEF News!Walked
    <3> HIDE DEF r, stop, last, passed
    <3> QED BY <1>8, <2>1, <3>1
  <2> HIDE DEF r, stop, last, passed
  <2>3. /\ r \in Walks /\ r.missed = {} /\ r.next = last /\ r.cut = w.cut
        /\ r.present = w.present /\ r.asked = w.asked \cup passed
    BY <1>4, <1>5, <2>2 DEF Walks
  <2>4. ASSUME ~w.cut PROVE AheadOf(c8, r, last + 1)
    <3> SUFFICES ASSUME NEW i \in DOMAIN c8, c8[i].id \in w.present, c8[i].id \notin w.asked,
                        c8[i].id \notin passed
                 PROVE  \E j \in DOMAIN c8 : j >= last + 1 /\ c8[j].id = c8[i].id
      BY <2>3 DEF AheadOf
    <3>1. PICK j \in DOMAIN c8 : j >= n /\ c8[j].id = c8[i].id
      BY <2>4 DEF AheadOf
    <3>2. ~(j <= last)
      BY <1>6, <3>1
    <3> QED BY <1>1, <1>4, <3>1, <3>2
  <2>5. /\ r \in Walks /\ r.missed = {} /\ (r.on => r.next \in DOMAIN c8)
        /\ r.on /\ ~r.cut => AheadOf(c8, r, r.next + 1)
    BY <2>1, <2>3, <2>4
  <2> QED BY <2>5 DEF r
<1> QED BY <1>7, <1>8

\* The stamp of a rule that fires changes no other thing of the list.
LEMMA WalkStamps ==
  ASSUME c8 \in Seq(News!Rule), c11 \in Int, NEW w \in Walks, w.on => w.next \in DOMAIN c8
  PROVE  LET list == News!Stamped(w)
         IN /\ list \in Seq(News!Rule) /\ DOMAIN list = DOMAIN c8
            /\ \A i \in DOMAIN c8 : list[i].id = c8[i].id
<1>1. \A i \in DOMAIN c8 : c8[i] \in News!Rule
  BY ElementsOf
<1>2. \A r \in News!Rule : [r EXCEPT !.fired = c11] \in News!Rule /\ [r EXCEPT !.fired = c11].id = r.id
  BY DEF News!Rule
<1>3. CASE w.next \in DOMAIN c8
  <2>1. /\ [c8 EXCEPT ![w.next] = [c8[w.next] EXCEPT !.fired = c11]] \in Seq(News!Rule)
        /\ [c8 EXCEPT ![w.next].fired = c11] = [c8 EXCEPT ![w.next] = [c8[w.next] EXCEPT !.fired = c11]]
    BY <1>1, <1>2, <1>3
  <2> QED BY <1>1, <1>2, <1>3, <2>1 DEF News!Stamped
<1>4. CASE ~w.on
  BY <1>4 DEF News!Stamped
<1> QED BY <1>3, <1>4

TaskRec == [at : {"idle", "fetch", "judge", "momentum"}, coins : Seq(News!Coins), left : Int, old : News!Averages]

\* What an update of a task changes, and what it leaves.
LEMMA TaskMoves ==
  ASSUME NEW P, NEW Q, NEW R, NEW S, NEW k \in [at : P, coins : Q, left : R, old : S],
         NEW at \in P, NEW coins \in Q, NEW left \in R, NEW old \in S
  PROVE  /\ LET m == [k EXCEPT !.left = left, !.old = old]
            IN m \in [at : P, coins : Q, left : R, old : S] /\ m.coins = k.coins
         /\ LET m == [k EXCEPT !.at = at, !.left = left, !.old = old]
            IN m \in [at : P, coins : Q, left : R, old : S] /\ m.coins = k.coins
         /\ LET m == [k EXCEPT !.coins = coins, !.left = left]
            IN m \in [at : P, coins : Q, left : R, old : S] /\ m.coins = coins
OBVIOUS

LEMMA NewsOnward ==
  ASSUME NEW task \in TaskRec, task.coins # <<>>
  PROVE  LET next == News!Onward(task)
         IN next \in TaskRec /\ (next.at = "idle" \/ next.coins # <<>>) /\ Head(task.coins) \in News!Coins
<1>1. News!Idle \in TaskRec /\ News!Idle.at = "idle"
  BY DEF TaskRec, News!Idle, News!Averages
<1>2. Tail(task.coins) \in Seq(News!Coins) /\ Head(task.coins) \in News!Coins
  BY TailShifts DEF TaskRec
<1>3. Len(task.coins) # 1 => Tail(task.coins) # <<>>
  <2> DEFINE n == Len(task.coins)
             rest == Tail(task.coins)
  <2>1. n \in Nat \ {0} /\ Len(rest) = n - 1
    BY EmptySeq, HeadTailProperties DEF TaskRec
  <2>2. rest = <<>> => Len(rest) = 0
    BY EmptySeq
  <2> HIDE DEF n, rest
  <2>3. n # 1 => rest # <<>>
    BY <2>1, <2>2
  <2> QED BY <2>3 DEF n, rest
<1>4. Len(task.coins) # 1 => News!Onward(task) = [task EXCEPT !.coins = Tail(@), !.left = 0]
  BY DEF News!Onward
<1>5. Len(task.coins) = 1 => News!Onward(task) = News!Idle
  BY DEF News!Onward
<1>6. [task EXCEPT !.coins = Tail(@), !.left = 0] \in TaskRec
      /\ [task EXCEPT !.coins = Tail(@), !.left = 0].coins = Tail(task.coins)
  <2> DEFINE rest == Tail(task.coins)
  <2>1. rest \in Seq(News!Coins) /\ 0 \in Int
    BY <1>2
  <2> HIDE DEF rest
  <2>2. [task EXCEPT !.coins = rest, !.left = 0] \in TaskRec /\ [task EXCEPT !.coins = rest, !.left = 0].coins = rest
    BY <2>1, TaskMoves DEF TaskRec
  <2> QED BY <2>2 DEF rest
<1> QED BY <1>1, <1>2, <1>3, <1>4, <1>5, <1>6

\* What a task does once a coin is done: nothing, or one more event, and an alert of the monitor.
TasksOK(ts) == ts \in [News!Tasks -> TaskRec] /\ \A t \in News!Tasks : ts[t].at = "idle" \/ ts[t].coins # <<>>

LEMMA TaskGoes ==
  ASSUME TasksOK(c1), NEW t \in News!Tasks, NEW task \in TaskRec, task.at = "idle" \/ task.coins # <<>>
  PROVE  TasksOK([c1 EXCEPT ![t] = task])
BY DEF TasksOK

LEMMA NewsFinish ==
  ASSUME TasksOK(c1), NEW t \in News!Tasks, NEW task \in TaskRec, task.coins # <<>>, NEW events,
         News!Finish(t, task, events), c6 \o events \in Seq(News!Event), NEW heard, NEW all, NEW silent,
         InOrder(c6 \o events, heard, all, silent)
  PROVE  TasksOK(c1') /\ c6' \in Seq(News!Event) /\ InOrder(c6', heard, all, silent)
<1> DEFINE s == Head(task.coins)
           q == c6 \o events
<1>1. TasksOK(c1')
  BY NewsOnward, TaskGoes DEF News!Finish, News!Goes
<1>2. s \in News!Coins
  BY NewsOnward
<1>3. c6' = q \o (IF t = "monitor" THEN <<News!Alert(s)>> ELSE <<>>)
  BY DEF News!Finish
<1>4. c6' = q \/ c6' = Append(q, News!Alert(s))
  <2>1. q \in Seq(News!Event) /\ News!Alert(s) \in News!Event
    BY <1>2, NewsAlerts
  <2> HIDE DEF q
  <2>2. q \o <<>> = q /\ q \o <<News!Alert(s)>> = Append(q, News!Alert(s))
    BY <2>1
  <2> QED BY <1>3, <2>2
<1>5. Append(q, News!Alert(s)) \in Seq(News!Event) /\ InOrder(Append(q, News!Alert(s)), heard, all, silent)
  BY <1>2, NewsAlerts, AppendEnds
<1> QED BY <1>1, <1>4, <1>5

LEMMA NewsParts ==
  News!NewsInv <=>
    /\ TasksOK(c1) /\ {c3, c4, c7} \subseteq Heard /\ c6 \in Seq(News!Event)
    /\ c8 \in Seq(News!Rule) /\ c9 \in Seq(News!Rule) /\ c12 \in Nat /\ c11 \in Nat /\ c10 \in Walks
    /\ InOrder(c6, c7, c4, c5) /\ c3 = c4 /\ c10.missed = {}
    /\ c10.on /\ ~c10.cut => c10.next \in DOMAIN c8 /\ AheadOf(c8, c10, c10.next + 1)
<1>1. News!NewsTypeOK <=>
        /\ TasksOK(c1) /\ {c3, c4, c7} \subseteq Heard /\ c6 \in Seq(News!Event)
        /\ c8 \in Seq(News!Rule) /\ c9 \in Seq(News!Rule) /\ c12 \in Nat /\ c11 \in Nat /\ c10 \in Walks
  BY DEF News!NewsTypeOK, TasksOK, TaskRec, Heard, Walks, News!At
<1>2. ASSUME c10.next \in Nat PROVE
        News!RestIsAhead <=>
          (c10.on /\ ~c10.cut => c10.next \in DOMAIN c8 /\ AheadOf(c8, c10, c10.next + 1))
  <2>1. c8 \in Seq(News!Rule) => \A j \in DOMAIN c8 : j > c10.next <=> j >= c10.next + 1
    BY <1>2
  <2> QED BY <2>1 DEF News!RestIsAhead, AheadOf
<1> QED BY <1>1, <1>2, InOrderIs DEF News!NewsInv, Walks

LEMMA NewsPartsThen ==
  News!NewsInv' <=>
    /\ TasksOK(c1') /\ {c3', c4', c7'} \subseteq Heard /\ c6' \in Seq(News!Event)
    /\ c8' \in Seq(News!Rule) /\ c9' \in Seq(News!Rule) /\ c12' \in Nat /\ c11' \in Nat /\ c10' \in Walks
    /\ InOrder(c6', c7', c4', c5') /\ c3' = c4' /\ c10'.missed = {}
    /\ c10'.on /\ ~c10'.cut => c10'.next \in DOMAIN c8' /\ AheadOf(c8', c10', c10'.next + 1)
<1>1. News!NewsTypeOK' <=>
        /\ TasksOK(c1') /\ {c3', c4', c7'} \subseteq Heard /\ c6' \in Seq(News!Event)
        /\ c8' \in Seq(News!Rule) /\ c9' \in Seq(News!Rule) /\ c12' \in Nat /\ c11' \in Nat /\ c10' \in Walks
  BY DEF News!NewsTypeOK, TasksOK, TaskRec, Heard, Walks, News!At
<1>2. ASSUME c10'.next \in Nat PROVE
        News!RestIsAhead' <=>
          (c10'.on /\ ~c10'.cut => c10'.next \in DOMAIN c8' /\ AheadOf(c8', c10', c10'.next + 1))
  <2>1. c8' \in Seq(News!Rule) => \A j \in DOMAIN c8' : j > c10'.next <=> j >= c10'.next + 1
    BY <1>2
  <2> QED BY <2>1 DEF News!RestIsAhead, AheadOf
<1>3. News!PublishedInOrder' <=> InOrder(c6', c7', c4', c5')
  BY DEF News!PublishedInOrder, InOrder
<1> QED BY <1>1, <1>2, <1>3 DEF News!NewsInv, Walks

LEMMA NewsLoaded ==
  ASSUME News!NewsroomAssumption PROVE \A l \in Seq(News!Rule) : News!Loaded(l) \in Seq(News!Rule)
<1> TAKE l \in Seq(News!Rule)
<1>1. \A i \in DOMAIN l : l[i] \in News!Rule
  BY ElementsOf
<1>2. News!Never \in Int
  BY DEF News!Never, News!NewsroomAssumption
<1>3. \A r \in News!Rule : [r EXCEPT !.fired = News!Never] \in News!Rule
  BY <1>2 DEF News!Rule
<1>4. Len(l) \in Nat /\ DOMAIN l = 1..Len(l)
  OBVIOUS
<1>5. News!Loaded(l) \in [1..Len(l) -> News!Rule]
  BY <1>1, <1>3, <1>4 DEF News!Loaded
<1> QED BY <1>4, <1>5

\* What a start begins with.
LEMMA NewsFresh ==
  LET none == [s \in News!Coins |-> <<>>]
  IN /\ TasksOK([t \in News!Tasks |-> News!Idle]) /\ none \in Heard
     /\ InOrder(<<>>, none, none, {}) /\ <<>> \in Seq(News!Event) /\ <<>> \in Seq(News!Rule)
     /\ News!NoWalk \in Walks /\ News!NoWalk.missed = {} /\ ~News!NoWalk.on
<1> DEFINE none == [s \in News!Coins |-> <<>>]
<1>1. TasksOK([t \in News!Tasks |-> News!Idle])
  BY DEF TasksOK, TaskRec, News!Idle, News!Averages
<1>2. none \in Heard
  BY DEF Heard, News!Averages
<1>3. InOrder(<<>>, none, none, {})
  BY DEF InOrder, News!Begins
<1>4. News!NoWalk \in Walks /\ News!NoWalk.missed = {} /\ ~News!NoWalk.on
  BY DEF Walks, News!NoWalk
<1> QED BY <1>1, <1>2, <1>3, <1>4

LEMMA NewsTold ==
  ASSUME News!NewsroomAssumption, News!NewsInv, News!NewsNext PROVE News!NewsInv'
<1> DEFINE V == NewsSetup.votes \cup {0}
<1>0. /\ TasksOK(c1) /\ {c3, c4, c7} \subseteq Heard /\ c6 \in Seq(News!Event)
      /\ c8 \in Seq(News!Rule) /\ c9 \in Seq(News!Rule) /\ c12 \in Nat /\ c11 \in Nat /\ c10 \in Walks
      /\ InOrder(c6, c7, c4, c5) /\ c3 = c4 /\ c10.missed = {}
      /\ c10.on /\ ~c10.cut => c10.next \in DOMAIN c8 /\ AheadOf(c8, c10, c10.next + 1)
  BY NewsParts
<1>a. \A t \in News!Tasks : /\ c1[t] \in TaskRec /\ (c1[t].at = "idle" \/ c1[t].coins # <<>>)
                            /\ c1[t].at \in {"idle", "fetch", "judge", "momentum"}
  BY <1>0 DEF TasksOK, TaskRec
<1>b. \A t \in News!Tasks : c1[t].coins # <<>> => Head(c1[t].coins) \in News!Coins
  BY <1>a, NewsOnward
<1>c. {"periodic", "monitor"} = News!Tasks
  BY DEF News!Tasks
<1>d. c11' \in Nat
  <2>1. c11' = c11 \/ c11' = c11 + 1
    BY DEF News!NewsNext, News!PeriodicRound, News!Anomaly, News!Fetch, News!Judged, News!Momentum,
           News!Deliver, News!Fired, News!ToggleRule, News!RemoveRule, News!AddRule, News!Saved,
           News!Tick, News!Restart
  <2>2. c11 \in Nat
    BY <1>0
  <2> QED BY <2>1, <2>2, SMTT(30)
\* The tasks, and what becomes of the queue.
<1>1. ASSUME TasksOK(c1'), c3' \in Heard, c6' \in Seq(News!Event), c12' \in Nat,
             InOrder(c6', c7, c3', c5'), c3' = c4', UNCHANGED <<c7, c8, c9, c10>>
      PROVE  News!NewsInv'
  BY <1>0, <1>d, <1>1, NewsPartsThen
<1>2. ASSUME UNCHANGED <<c3, c4, c5, c6, c7, c8, c9, c10, c12>>, TasksOK(c1') PROVE News!NewsInv'
  BY <1>0, <1>1, <1>2
\* The walk, and what becomes of the rules.
<1>3. ASSUME UNCHANGED <<c1, c3, c4, c5, c12>>, c7' \in Heard, c6' \in Seq(News!Event), InOrder(c6', c7', c4, c5),
             c8' \in Seq(News!Rule), c9' \in Seq(News!Rule), c10' \in Walks, c10'.missed = {},
             c10'.on /\ ~c10'.cut => c10'.next \in DOMAIN c8' /\ AheadOf(c8', c10', c10'.next + 1)
      PROVE  News!NewsInv'
  BY <1>0, <1>d, <1>3, NewsPartsThen
<1>4. ASSUME News!PeriodicRound PROVE News!NewsInv'
  <2>1. PICK where \in {"fetch", "momentum"} :
          c1' = [c1 EXCEPT !["periodic"] = [at |-> where, coins |-> NewsSetup.symbols, left |-> 0, old |-> <<>>]]
    BY <1>4 DEF News!PeriodicRound, News!Goes
  <2>2. NewsSetup.symbols \in Seq(News!Coins) /\ NewsSetup.symbols # <<>>
    BY <1>4 DEF News!PeriodicRound, News!NewsroomAssumption, News!Coins
  <2>3. [at |-> where, coins |-> NewsSetup.symbols, left |-> 0, old |-> <<>>] \in TaskRec
    BY <2>2 DEF TaskRec, News!Averages
  <2>4. TasksOK(c1')
    BY <1>0, <1>c, <2>1, <2>2, <2>3, TaskGoes
  <2> QED BY <1>2, <1>4, <2>4 DEF News!PeriodicRound, News!alertOnly
<1>5. ASSUME News!Anomaly PROVE News!NewsInv'
  <2>1. PICK s \in News!Coins :
          c1' = [c1 EXCEPT !["monitor"] = [at |-> "fetch", coins |-> <<s>>, left |-> 0, old |-> <<>>]]
    BY <1>5 DEF News!Anomaly, News!Goes
  <2>2. [at |-> "fetch", coins |-> <<s>>, left |-> 0, old |-> <<>>] \in TaskRec
    BY DEF TaskRec, News!Averages
  <2>3. TasksOK(c1')
    BY <1>0, <1>c, <2>1, <2>2, TaskGoes
  <2> QED BY <1>2, <1>5, <2>3 DEF News!Anomaly, News!alertOnly
<1>6. ASSUME NEW t \in News!Tasks, News!Fetch(t) PROVE News!NewsInv'
  <2>1. c1[t].coins # <<>> /\ c1[t] \in TaskRec
    BY <1>6, <1>a DEF News!Fetch, News!At
  <2>2. PICK n \in 0..News!Min({NewsSetup.maxBatch, NewsSetup.maxArticles - c12}) :
          /\ c12' = c12 + n
          /\ IF n = 0 THEN News!Finish(t, c1[t], <<>>)
             ELSE /\ News!Goes(t, [c1[t] EXCEPT !.at = "judge", !.left = n, !.old = c3[Head(c1[t].coins)]])
                  /\ UNCHANGED c6
    BY <1>6 DEF News!Fetch
  <2>3. n \in Nat /\ c12' \in Nat
    BY <1>0, <2>2
  <2>4. UNCHANGED <<c3, c4, c5, c7, c8, c9, c10>>
    BY <1>6 DEF News!Fetch, News!alertOnly
  <2>5. CASE n = 0
    <3>1. c6 \o <<>> = c6
      BY <1>0
    <3>2. TasksOK(c1') /\ c6' \in Seq(News!Event) /\ InOrder(c6', c7, c4, c5)
      BY <1>0, <2>1, <2>2, <2>5, <3>1, NewsFinish
    <3> QED BY <1>0, <1>1, <2>3, <2>4, <3>2
  <2>6. CASE n # 0
    <3> DEFINE old == c3[Head(c1[t].coins)]
               task == [c1[t] EXCEPT !.at = "judge", !.left = n, !.old = old]
    <3>1. c3[Head(c1[t].coins)] \in News!Averages
      BY <1>0, <1>b, <2>1 DEF Heard
    <3>2. task \in TaskRec /\ task.coins = c1[t].coins
      <4>1. old \in News!Averages /\ n \in Int
        BY <2>3, <3>1
      <4> HIDE DEF old
      <4> QED BY <2>1, <4>1, TaskMoves DEF TaskRec
    <3>3. c1' = [c1 EXCEPT ![t] = task] /\ c6' = c6
      BY <2>2, <2>6 DEF News!Goes
    <3> HIDE DEF task
    <3>4. TasksOK(c1')
      BY <1>0, <2>1, <3>2, <3>3, TaskGoes
    <3> QED BY <1>0, <1>1, <2>3, <2>4, <3>3, <3>4
  <2> QED BY <2>5, <2>6
<1>7. ASSUME NEW t \in News!Tasks, News!Judged(t) PROVE News!NewsInv'
  <2> DEFINE s == Head(c1[t].coins)
  <2>1. c1[t].coins # <<>> /\ c1[t] \in TaskRec /\ s \in News!Coins
    <3>1. c1[t].at = "judge"
      BY <1>7, SMTT(30) DEF News!Judged, News!At
    <3> QED BY <3>1, <1>a, <1>b
  <2>2. PICK v \in V :
          LET value == Append(c3[s], v)
          IN /\ c3' = [c3 EXCEPT ![s] = value] /\ c4' = [c4 EXCEPT ![s] = Append(@, v)] /\ c5' = c5 \ {s}
             /\ IF c1[t].left = 1 THEN News!Finish(t, [c1[t] EXCEPT !.at = "fetch"], <<News!Update(s, value)>>)
                ELSE /\ News!Goes(t, [c1[t] EXCEPT !.left = @ - 1, !.old = value])
                     /\ c6' = Append(c6, News!Update(s, value))
    BY <1>7 DEF News!Judged, News!Averaged, News!Current
  <2>3. UNCHANGED <<c7, c8, c9, c10, c12>>
    BY <1>7, SMTT(30) DEF News!Judged, News!alertOnly
  <2> DEFINE value == Append(c3[s], v)
             e == News!Update(s, value)
  <2>4. c3' = [c3 EXCEPT ![s] = Append(@, v)] /\ c4' = c3' /\ c3'[s] = value
    BY <1>0, <2>1, <2>2 DEF Heard
  <2> HIDE DEF s
  <2>5. /\ c3' \in Heard /\ e \in News!Event /\ InOrder(Append(c6, e), c7, c3', c5')
    <3>1. /\ c6 \in Seq(News!Event) /\ {c3, c7} \subseteq Heard /\ InOrder(c6, c7, c3, c5)
          /\ v \in NewsSetup.votes \cup {0} /\ s \in News!Coins /\ c5' = c5 \ {s}
      BY <1>0, <2>1, <2>2
    <3> QED BY <2>4, <3>1, NewsGoesOn
  <2>6. value \in News!Averages
    BY <2>1, <2>4, <2>5 DEF Heard
  <2>7. CASE c1[t].left = 1
    <3> DEFINE task == [c1[t] EXCEPT !.at = "fetch"]
    <3>1. task \in TaskRec /\ task.coins = c1[t].coins
      BY <2>1 DEF TaskRec
    <3>2. News!Finish(t, task, <<e>>)
      BY <2>2, <2>7
    <3>3. c6 \o <<e>> = Append(c6, e) /\ Append(c6, e) \in Seq(News!Event)
      BY <1>0, <2>5
    <3> HIDE DEF task, e
    <3>4. TasksOK(c1') /\ c6' \in Seq(News!Event) /\ InOrder(c6', c7, c3', c5')
      BY <1>0, <2>1, <2>5, <3>1, <3>2, <3>3, NewsFinish
    <3> QED BY <1>0, <1>1, <2>3, <2>4, <2>5, <3>4
  <2>8. CASE c1[t].left # 1
    <3> DEFINE left == c1[t].left - 1
               task == [c1[t] EXCEPT !.left = left, !.old = value]
    <3>1. task \in TaskRec /\ task.coins = c1[t].coins
      <4>1. left \in Int
        BY <2>1 DEF TaskRec
      <4> HIDE DEF value, left
      <4> QED BY <2>1, <2>6, <4>1, TaskMoves DEF TaskRec
    <3>2. c1' = [c1 EXCEPT ![t] = task] /\ c6' = Append(c6, e)
      BY <2>2, <2>8 DEF News!Goes
    <3> HIDE DEF task, e
    <3>3. TasksOK(c1')
      BY <1>0, <2>1, <3>1, <3>2, TaskGoes
    <3>4. c6' \in Seq(News!Event)
      BY <1>0, <2>5, <3>2, AppendEnds
    <3> QED BY <1>0, <1>1, <2>3, <2>4, <2>5, <3>2, <3>3, <3>4
  <2> QED BY <2>7, <2>8
<1>8. ASSUME News!Momentum PROVE News!NewsInv'
  <2> DEFINE s == Head(c1["periodic"].coins)
  <2>1. c1["periodic"].coins # <<>> /\ c1["periodic"] \in TaskRec /\ s \in News!Coins
    <3>1. c1["periodic"].at = "momentum"
      BY <1>8 DEF News!Momentum, News!At
    <3> QED BY <3>1, <1>a, <1>b, <1>c
  <2>2. TasksOK(c1')
    BY <1>0, <1>8, <1>c, <2>1, NewsOnward, TaskGoes, ZenonT(30) DEF News!Momentum, News!Goes
  <2>3. UNCHANGED <<c7, c8, c9, c10>>
    BY <1>8 DEF News!Momentum, News!alertOnly
  <2>4. CASE UNCHANGED <<c3, c4, c5, c6, c12>>
    BY <1>2, <2>2, <2>3, <2>4
  <2>5. ASSUME NEW v \in NewsSetup.votes, NEW titled \in BOOLEAN,
               /\ c12' = c12 + 1 /\ c3' = [c3 EXCEPT ![s] = Append(@, v)]
               /\ c4' = [c4 EXCEPT ![s] = Append(@, v)]
               /\ IF titled THEN c6' = Append(c6, News!Update(s, c3'[s])) /\ c5' = c5 \ {s}
                  ELSE UNCHANGED c6 /\ c5' = c5 \cup {s}
        PROVE  News!NewsInv'
    <3> HIDE DEF s
    <3> DEFINE e == News!Update(s, c3'[s])
    <3>1. c12' \in Nat /\ c4' = c3'
      BY <1>0, <2>5
    <3>2. /\ c3' \in Heard /\ e \in News!Event
          /\ InOrder(c6, c7, c3', c5 \cup {s}) /\ InOrder(Append(c6, e), c7, c3', c5 \ {s})
      <4>1. /\ c6 \in Seq(News!Event) /\ {c3, c7} \subseteq Heard /\ InOrder(c6, c7, c3, c5)
            /\ v \in NewsSetup.votes \cup {0} /\ s \in News!Coins
        BY <1>0, <2>1
      <4>2. c3' = [c3 EXCEPT ![s] = Append(@, v)]
        BY <2>5
      <4> QED BY <4>1, <4>2, NewsGoesOn, ZenonT(30)
    <3> HIDE DEF e
    <3>3. /\ titled => c6' = Append(c6, e) /\ c5' = c5 \ {s}
          /\ ~titled => c6' = c6 /\ c5' = c5 \cup {s}
      BY <2>5 DEF e
    <3>4. Append(c6, e) \in Seq(News!Event)
      BY <1>0, <3>2, AppendEnds
    <3>5. c6' \in Seq(News!Event) /\ InOrder(c6', c7, c3', c5')
      BY <1>0, <3>2, <3>3, <3>4
    <3> QED BY <1>0, <1>1, <2>2, <2>3, <3>1, <3>2, <3>5
  <2> QED BY <1>8, <2>4, <2>5, ZenonT(30) DEF News!Momentum
<1>9. ASSUME News!Deliver PROVE News!NewsInv'
  <2> DEFINE e == Head(c6)
             w == [News!NoWalk EXCEPT !.event = e, !.present = {c8[j].id : j \in DOMAIN c8}]
             r == News!Walked(w, 1)
  <2>1. /\ c6 # <<>> /\ c6' = Tail(c6) /\ c10' = r /\ c8' = News!Stamped(r) /\ c9' = c9
        /\ c7' = IF e.kind = "update" THEN [c7 EXCEPT ![e.symbol] = e.value] ELSE c7
        /\ UNCHANGED <<c1, c3, c4, c5, c12>>
    BY <1>9 DEF News!Deliver, News!newsOnly
  <2>2. c7' \in Heard /\ InOrder(c6', c7', c4, c5) /\ c6' \in Seq(News!Event) /\ e \in News!Event
    BY <1>0, <2>1, NewsIsHeard, TailShifts
  <2>3. w \in Walks /\ w.missed = {} /\ AheadOf(c8, w, 1)
    <3> HIDE DEF e
    <3>1. {c8[j].id : j \in DOMAIN c8} \subseteq News!RuleIds
      BY <1>0, RuleIdsOf
    <3>2. w \in Walks /\ w.missed = {}
      BY <2>2, <3>1 DEF Walks, News!NoWalk
    <3>3. \A j \in DOMAIN c8 : j >= 1
      BY <1>0
    <3> QED BY <3>2, <3>3 DEF AheadOf
  <2> HIDE DEF w, e, r
  <2>4. /\ r \in Walks /\ r.missed = {} /\ (r.on => r.next \in DOMAIN c8)
        /\ r.on /\ ~r.cut => AheadOf(c8, r, r.next + 1)
    BY <1>0, <2>3, WalkGoesOn DEF r
  <2>5. c8' \in Seq(News!Rule) /\ DOMAIN c8' = DOMAIN c8 /\ \A i \in DOMAIN c8 : c8'[i].id = c8[i].id
    BY <1>0, <2>1, <2>4, WalkStamps
  <2>6. r.on /\ ~r.cut => AheadOf(c8', r, r.next + 1)
    BY <2>4, <2>5 DEF AheadOf
  <2> QED BY <1>0, <1>3, <2>1, <2>2, <2>4, <2>5, <2>6
<1>10. ASSUME News!Fired PROVE News!NewsInv'
  <2> DEFINE r == News!Walked(c10, c10.next + 1)
  <2>1. /\ c10.on /\ c10' = r /\ c8' = News!Stamped(r) /\ UNCHANGED <<c1, c3, c4, c5, c6, c7, c9, c12>>
    BY <1>10 DEF News!Fired, News!newsOnly
  <2>2. c10.next + 1 \in Nat /\ c10.next + 1 > 0 /\ (c10.cut \/ AheadOf(c8, c10, c10.next + 1))
    BY <1>0, <2>1 DEF Walks
  <2> HIDE DEF r
  <2>4. /\ r \in Walks /\ r.missed = {} /\ (r.on => r.next \in DOMAIN c8)
        /\ r.on /\ ~r.cut => AheadOf(c8, r, r.next + 1)
    BY <1>0, <2>2, WalkGoesOn DEF r
  <2>5. c8' \in Seq(News!Rule) /\ DOMAIN c8' = DOMAIN c8 /\ \A i \in DOMAIN c8 : c8'[i].id = c8[i].id
    BY <1>0, <2>1, <2>4, WalkStamps
  <2>6. r.on /\ ~r.cut => AheadOf(c8', r, r.next + 1)
    BY <2>4, <2>5 DEF AheadOf
  <2> QED BY <1>0, <1>3, <2>1, <2>4, <2>5, <2>6
<1>11. ASSUME News!ToggleRule PROVE News!NewsInv'
  <2>1. PICK i \in DOMAIN c8 : c8' = [c8 EXCEPT ![i].enabled = ~@] /\ c9' = c8'
    BY <1>11 DEF News!ToggleRule, News!Saved
  <2>2. UNCHANGED <<c1, c3, c4, c5, c6, c7, c10, c12>>
    BY <1>11 DEF News!ToggleRule, News!Saved, News!newsOnly
  <2>3. c8[i] \in News!Rule
    BY <1>0, ElementsOf
  <2>4. [c8[i] EXCEPT !.enabled = ~@] \in News!Rule /\ [c8[i] EXCEPT !.enabled = ~@].id = c8[i].id
    BY <2>3 DEF News!Rule
  <2>5. c8' \in Seq(News!Rule) /\ DOMAIN c8' = DOMAIN c8 /\ \A k \in DOMAIN c8 : c8'[k].id = c8[k].id
    BY <1>0, <2>1, <2>4
  <2>6. c10.on /\ ~c10.cut => AheadOf(c8', c10, c10.next + 1)
    BY <1>0, <2>5 DEF AheadOf
  <2> QED BY <1>0, <1>3, <2>1, <2>2, <2>5, <2>6
<1>12. ASSUME News!RemoveRule PROVE News!NewsInv'
  <2>1. PICK i \in DOMAIN c8 : c8' = News!RemoveAt(c8, i) /\ c9' = c8'
    BY <1>12 DEF News!RemoveRule, News!Saved
  <2>2. UNCHANGED <<c1, c3, c4, c5, c6, c7, c12>> /\ c10' = [c10 EXCEPT !.cut = @ \/ c10.on]
    BY <1>12 DEF News!RemoveRule, News!Saved, News!newsOnly
  <2>3. c8' \in Seq(News!Rule)
    BY <1>0, <2>1, SMTT(30) DEF News!RemoveAt
  <2>4. c10' \in Walks /\ c10'.missed = {} /\ c10'.on = c10.on /\ c10'.cut = (c10.cut \/ c10.on)
    BY <1>0, <2>2 DEF Walks
  <2> QED BY <1>0, <1>3, <2>1, <2>2, <2>3, <2>4
<1>13. ASSUME News!AddRule PROVE News!NewsInv'
  <2> DEFINE new == [NewsSetup.newRule EXCEPT !.fired = News!Never]
  <2>1. c8' = Append(c8, new) /\ c9' = c8' /\ UNCHANGED <<c1, c3, c4, c5, c6, c7, c10, c12>>
    BY <1>13 DEF News!AddRule, News!Saved, News!newsOnly
  <2>2. new \in News!Rule
    <3>1. News!Never \in Int /\ NewsSetup.newRule \in News!Rule
      BY DEF News!Never, News!NewsroomAssumption
    <3> QED BY <3>1 DEF News!Rule
  <2> HIDE DEF new
  <2>3. /\ c8' \in Seq(News!Rule) /\ \A i \in DOMAIN c8 : i \in DOMAIN c8' /\ c8'[i] = c8[i]
        /\ Len(c8) \in Nat /\ DOMAIN c8 = 1..Len(c8) /\ DOMAIN c8' = 1..Len(c8) + 1
        /\ \A i \in DOMAIN c8' : i \in DOMAIN c8 \/ i = Len(c8) + 1
    BY <1>0, <2>1, <2>2, AppendEnds
  <2>4. ASSUME c10.on /\ ~c10.cut PROVE c10.next \in DOMAIN c8' /\ AheadOf(c8', c10, c10.next + 1)
    <3>1. c10.next \in DOMAIN c8 /\ AheadOf(c8, c10, c10.next + 1)
      BY <1>0, <2>4
    <3>2. Len(c8) + 1 >= c10.next + 1
      BY <2>3, <3>1
    <3> QED BY <2>3, <3>1, <3>2 DEF AheadOf
  <2> QED BY <1>0, <1>3, <2>1, <2>3, <2>4
<1>14. ASSUME News!Tick PROVE News!NewsInv'
  BY <1>0, <1>2, <1>14 DEF News!Tick, News!newsOnly, News!alertOnly
<1>15. ASSUME News!Restart PROVE News!NewsInv'
  <2>1. NewsSetup.rules \in Seq(News!Rule)
    BY DEF News!NewsroomAssumption
  <2>2. \A l \in Seq(News!Rule) : News!Loaded(l) \in Seq(News!Rule)
    BY NewsLoaded
  <2>3. c8' \in Seq(News!Rule) /\ c9' = c9 /\ c12' = c12
    BY <1>0, <1>15, <2>1, <2>2 DEF News!Restart
  <2> QED BY <1>0, <1>d, <1>15, <2>3, NewsPartsThen, NewsFresh DEF News!Restart
<1> QED
  BY <1>4, <1>5, <1>6, <1>7, <1>8, <1>9, <1>10, <1>11, <1>12, <1>13, <1>14, <1>15 DEF News!NewsNext

LEMMA NewsStarts ==
  ASSUME News!NewsroomAssumption, News!NewsInit PROVE News!NewsInv
<1>1. NewsSetup.rules \in Seq(News!Rule)
  BY DEF News!NewsroomAssumption
<1>2. c8 \in Seq(News!Rule)
  BY <1>1, NewsLoaded DEF News!NewsInit
<1> QED BY <1>2, NewsParts, NewsFresh DEF News!NewsInit

\* What an engine and an operator see of it.
LEMMA NewsShown ==
  ASSUME News!NewsInv
  PROVE  News!EveryJudgementCounts /\ News!EngineFollows /\ News!BrokenRuleSilencesNobody
<1>0. /\ {c3, c4, c7} \subseteq Heard /\ c6 \in Seq(News!Event) /\ InOrder(c6, c7, c4, c5)
      /\ c3 = c4 /\ c10.missed = {}
  BY NewsParts
<1>1. \A s \in News!Coins : News!IsPrefix(c7[s], c4[s])
  <2> TAKE s \in News!Coins
  <2>1. c7[s] \in Seq(NewsSetup.votes \cup {0}) /\ c4[s] \in Seq(NewsSetup.votes \cup {0})
    BY <1>0 DEF Heard, News!Averages
  <2> QED BY <1>0, <2>1, BeginsPrefix DEF InOrder
<1>2. c6 = <<>> => \A s \in News!Coins : c7[s] = c3[s] \/ s \in c5
  BY <1>0 DEF InOrder
<1>3. \A i, j \in DOMAIN c6 :
        i < j /\ c6[i].symbol = c6[j].symbol /\ c6[i].kind = "update" /\ c6[j].kind = "update"
          => Len(c7[c6[i].symbol]) < Len(c6[i].value) /\ Len(c6[i].value) < Len(c6[j].value)
  BY <1>0 DEF InOrder
<1>4. News!EngineFollows
  BY <1>1, <1>2, <1>3 DEF News!EngineFollows
<1> QED BY <1>0, <1>4 DEF News!EveryJudgementCounts, News!BrokenRuleSilencesNobody

LEMMA NewsStands == ASSUME News!NewsInv, UNCHANGED cells PROVE News!NewsInv'
<1>1. /\ c1' = c1 /\ c3' = c3 /\ c4' = c4 /\ c5' = c5 /\ c6' = c6 /\ c7' = c7 /\ c8' = c8 /\ c9' = c9
      /\ c10' = c10 /\ c11' = c11 /\ c12' = c12
  BY DEF cells
<1> QED BY <1>1, NewsParts, NewsPartsThen

----------------------------------------------------------------------------
(* All of them side by side *)

\* What each part keeps, in the behaviours of that part.
PartsInv ==
  /\ turn = "sig" => Sig!SigTypeOK
  /\ turn = "life" => Life!LifeInv
  /\ turn = "adv" => Adv!AdvInv
  /\ turn = "orc" => Orc!OrcInv /\ Orc!OrcSamples
  /\ turn = "thr" => Thr!ThrInv
  /\ turn = "maint" => Maint!MaintInv
  /\ turn = "set" => Set!SetInv
  /\ turn = "page" => Browser!PageInv
  /\ turn = "news" => News!NewsInv
  /\ turn = "bench" => Bench!DeskInv
  /\ turn = "pair" => Pair!PairsInv
  /\ turn = "study" => Study!StudyInv
  /\ turn = "gene" => Gene!GenePoolInv
  /\ turn = "score" => Score!ScoreInv
  /\ turn = "gate" => Gate!GateInv
  /\ turn = "pred" => Pred!PredInv
  /\ turn = "reg" => Reg!RegimeInv

LEMMA PartsStart ==
  ASSUME NEW STATE otherChoice, PartsInit(otherChoice) PROVE PartsInv
<1>1. CASE PartsChoice
  BY <1>1, PartsAssumption, SigStarts, LifeStarts, AdvStarts, OrcStarts, OrcSampled, ThrStarts, MaintStarts, SetStarts,
     PageStarts, NewsStarts, BenchStarts, PairStarts, StudyStarts, GeneStarts, ScoreStarts,
     GateStarts, PredStarts, RegStarts
  DEF PartsChoice, PartsInv
<1>2. CASE turn \notin Turns
  BY <1>2 DEF Turns, PartsInv
<1> QED BY <1>1, <1>2 DEF PartsInit

\* A step is one of the part the behaviour is of, whichever that is.
LEMMA PartsMove ==
  ASSUME NEW ACTION otherMove, PartsNext(otherMove)
  PROVE  /\ turn' = turn
         /\ turn = "sig" => Sig!SignalNext
         /\ turn = "life" => Life!LifeNext
         /\ turn = "adv" => Adv!AdviceNext
         /\ turn = "orc" => Orc!OrcNext
         /\ turn = "thr" => Thr!ThrNext
         /\ turn = "maint" => Maint!MaintNext
         /\ turn = "set" => Set!SettingsNext
         /\ turn = "page" => Browser!PageNext
         /\ turn = "news" => News!NewsNext
         /\ turn = "bench" => Bench!DeskNext
         /\ turn = "pair" => Pair!PairsNext
         /\ turn = "study" => Study!StudyNext
         /\ turn = "gene" => Gene!GeneNext
         /\ turn = "score" => Score!ScoreNext
         /\ turn = "gate" => Gate!GateNext
         /\ turn = "pred" => Pred!PredNext
         /\ turn = "reg" => Reg!RegimeNext
BY DEF PartsNext, Turns, MoveBreaker, MoveSig, MoveLife, MoveAdv, MoveOrc, MoveThr, MoveMaint, MoveSet,
       MovePage, MoveNews, MoveBench, MovePair, MoveStudy, MoveGene, MoveScore, MoveGate, MovePred, MoveReg

\* What stands still stays as it is.
LEMMA PartsStand ==
  ASSUME UNCHANGED cells
  PROVE  /\ Sig!SigTypeOK => Sig!SigTypeOK'
         /\ Life!LifeInv => Life!LifeInv'
         /\ Adv!AdvInv => Adv!AdvInv'
         /\ Orc!OrcInv => Orc!OrcInv'
         /\ Orc!OrcSamples => Orc!OrcSamples'
         /\ Thr!ThrInv => Thr!ThrInv'
         /\ Maint!MaintInv => Maint!MaintInv'
         /\ Set!SetInv => Set!SetInv'
         /\ Browser!PageInv => Browser!PageInv'
         /\ News!NewsInv => News!NewsInv'
         /\ Bench!DeskInv => Bench!DeskInv'
         /\ Pair!PairsInv => Pair!PairsInv'
         /\ Study!StudyInv => Study!StudyInv'
         /\ Gene!GenePoolInv => Gene!GenePoolInv'
         /\ Score!ScoreInv => Score!ScoreInv'
         /\ Gate!GateInv => Gate!GateInv'
         /\ Pred!PredInv => Pred!PredInv'
         /\ Reg!RegimeInv => Reg!RegimeInv'
<1>0. /\ c1' = c1 /\ c2' = c2 /\ c3' = c3 /\ c4' = c4 /\ c5' = c5 /\ c6' = c6 /\ c7' = c7 /\ c8' = c8
      /\ c9' = c9 /\ c10' = c10
  BY DEF cells
<1>1. Sig!SigTypeOK => Sig!SigTypeOK'
  BY <1>0 DEF Sig!SigTypeOK
<1>2. ASSUME Life!LifeInv PROVE Life!LifeInv'
  BY <1>0, <1>2, LifeStands DEF Life!LifeInv, Life!LifeTypeOK
<1>3. Adv!AdvInv => Adv!AdvInv'
  BY <1>0 DEF Adv!AdvInv, Adv!AdvTypeOK, Adv!ListsAreFull, Adv!Here
<1>4. Orc!OrcInv => Orc!OrcInv'
  BY <1>0 DEF Orc!OrcInv, Orc!OrcTypeOK, Orc!KilledByLosses
<1>5. Thr!ThrInv => Thr!ThrInv'
  BY <1>0 DEF Thr!ThrInv, Thr!ThrTypeOK, Thr!StillCharged, Thr!Charges, Thr!BudgetsHold, Thr!Counted
<1>6. Maint!MaintInv => Maint!MaintInv'
  BY <1>0, MaintStands
<1>7. Set!SetInv => Set!SetInv'
  BY <1>0, SetStands
<1>8. ASSUME Bench!DeskInv PROVE Bench!DeskInv'
  <2>1. c8 \in Int
    BY <1>8 DEF Bench!DeskInv, Bench!DeskTypeOK
  <2> QED BY <1>0, <1>8, <2>1, BenchStands
<1>9. Pair!PairsInv => Pair!PairsInv'
  BY <1>0, PairStands
<1>10. Study!StudyInv => Study!StudyInv'
  BY <1>0, StudyStands
<1>11. Gene!GenePoolInv => Gene!GenePoolInv'
  BY <1>0, GeneStands
<1>12. Score!ScoreInv => Score!ScoreInv'
  BY <1>0, ScoreStands
<1>13. Orc!OrcSamples => Orc!OrcSamples'
  BY <1>0, OrcStands
<1>14. Gate!GateInv => Gate!GateInv'
  BY <1>0, GateStands
<1>15. Pred!PredInv => Pred!PredInv'
  BY <1>0, PredStands
<1>16. Reg!RegimeInv => Reg!RegimeInv'
  BY <1>0, RegStands
<1> QED BY <1>1, <1>2, <1>3, <1>4, <1>5, <1>6, <1>7, <1>8, <1>9, <1>10, <1>11, <1>12, <1>13, <1>14, <1>15,
           <1>16, PageStands, NewsStands

LEMMA OrcSamplesStay ==
  ASSUME Orc!OrchestraAssumption, Orc!OrcInv, Orc!OrcSamples, Orc!OrcNext PROVE Orc!OrcSamples'
BY OrcDated DEF Orc!OrcInv

LEMMA PartsPreserved ==
  ASSUME NEW ACTION otherMove, PartsInv, [PartsNext(otherMove)]_partsVars PROVE PartsInv'
<1>1. CASE UNCHANGED partsVars
  <2>1. turn' = turn /\ UNCHANGED cells
    BY <1>1 DEF partsVars
  <2> QED BY <2>1, PartsStand DEF PartsInv
<1>2. CASE PartsNext(otherMove)
  BY <1>2, PartsAssumption, PartsMove, SigTypes, LifeInductive, AdvTypes, OrcInductive,
     ThrInductive, MaintInductive, SetAsks, ListsStayFull, PageStays, NewsTold, BenchInductive, PairInductive,
     StudyInductive, GeneInductive, ScoreInductive, OrcSamplesStay, GateInductive, PredInductive, RegInductive
  DEF PartsInv, Adv!AdvInv
<1> QED BY <1>1, <1>2

\* They start with what they are to keep and keep it, for any of their constants and with
\* any others beside them.
THEOREM PartsInvariance ==
  ASSUME NEW STATE otherChoice, NEW ACTION otherMove
  PROVE  SpecBeside(otherChoice, otherMove) => []PartsInv
<1>1. PartsInit(otherChoice) => PartsInv
  BY PartsStart
<1>2. PartsInv /\ [PartsNext(otherMove)]_partsVars => PartsInv'
  BY PartsPreserved
<1> QED BY <1>1, <1>2, PTL DEF SpecBeside

\* One analysis at a time (strategy_lifecycle.py:291), and no user is served more than the
\* budgets of the routes allow (audit.py:52), for any intervals, limits and windows.
THEOREM WhatIsLimited ==
  ASSUME NEW STATE otherChoice, NEW ACTION otherMove
  PROVE  SpecBeside(otherChoice, otherMove) => []LimitsHold
<1>1. PartsInv => LimitsHold
  BY LifeOneAnalysis DEF PartsInv, LimitsHold, Thr!ThrInv
<1> QED BY <1>1, PartsInvariance, PTL

\* Every judgement of a coin is in its average and reaches the engine in order
\* (analyzer.py:201), a broken rule silences no other (alerts/manager.py:39), the chart is
\* of the chosen symbol (trade.html:496), and the watchlist is never emptied by an answer
\* (deepseek_ctl.py:115): for any coins, judgements, rules, symbols and picks.
THEOREM WhatIsShown ==
  ASSUME NEW STATE otherChoice, NEW ACTION otherMove
  PROVE  SpecBeside(otherChoice, otherMove) => []WhatIsShownIsTrue
<1>1. PartsInv => WhatIsShownIsTrue
  BY NewsShown
  DEF PartsInv, WhatIsShownIsTrue, Browser!PageInv, Browser!ChartIsOfTheSymbol,
      Adv!AdvInv, Adv!ListsAreFull, Adv!WatchlistNeverEmptied
<1> QED BY <1>1, PartsInvariance, PTL

\* A program that is up has the present schema and every row its id (database.py:512),
\* the balance and the rows say together what trading left (db_manager.py:16), a stored
\* backtest is shown for its own record (routes/backtest.py:396) and a running one is
\* listed, and orders go to the exchange itself only if that was asked for
\* (settings.py:179): for any old database, any files and any number of browsers.
THEOREM WhatIsStored ==
  ASSUME NEW STATE otherChoice, NEW ACTION otherMove
  PROVE  SpecBeside(otherChoice, otherMove) => []StoreIsSound
<1>1. PartsInv => StoreIsSound
  BY MaintFresh DEF PartsInv, StoreIsSound, Set!SetInv, Bench!DeskInv
<1> QED BY <1>1, PartsInvariance, PTL

\* A test meets the null of its own regression, a stopped pair stands down until the spread
\* is calm and its trades pay each round trip once (pairs.py:31, 68, 924), a composite curve
\* follows from its parts (composite.py:35), one artifact of a window at most is its first
\* (holdout.py:26), and a backtest no other one overlaps is priced with its own figures
\* (backtest/engine.py:354): for any scores, thresholds, curves, trades and rules.
THEOREM StudiesAreSound ==
  ASSUME NEW STATE otherChoice, NEW ACTION otherMove
  PROVE  SpecBeside(otherChoice, otherMove) => []StudiesCanBeBelieved
<1>1. PartsInv => StudiesCanBeBelieved
  BY PairPays, StudyFirst
  DEF PartsInv, StudiesCanBeBelieved, Pair!PairsInv, Study!StudyInv, Bench!DeskInv
<1> QED BY <1>1, PartsInvariance, PTL

\* Every condition of a genome can be evaluated where it trades, publishing and seeding
\* change nothing of it (genome.py:1170, 1453), and its score is the one of its own ledger in
\* one pass over its whole chunk, at the share of the positions the chunk's size gives it,
\* whichever sibling was refused or worker died around it (fitness.py:154, 1721): for any
\* pools, seeds and conditions, and for any number of genomes, workers and positions.
THEOREM GenomesAreSound ==
  ASSUME NEW STATE otherChoice, NEW ACTION otherMove
  PROVE  SpecBeside(otherChoice, otherMove) => []GenomeTradesAsScored
<1>1. PartsInv => GenomeTradesAsScored
  BY PartsAssumption, GeneTrades, ScoreInChunk DEF PartsInv, GenomeTradesAsScored
<1> QED BY <1>1, PartsInvariance, PTL

\* A model is allowed on trades that share no bar with what made it and that pay fold by
\* fold (evaluation.py:75), a bar is labelled by a fit on bars before it (regime.py:581),
\* breadth is looked up among earlier samples (orchestrator.py:948), and a score is a call
\* the gate vouched for (predictor.py:313): for any frames, answers, prices, samples and
\* thresholds, and of the gate where the embargo covers the label, as it does unless
\* ml.embargo_bars says otherwise (predictor.py:482, config.py:853).
THEOREM NothingIsSeenAhead ==
  ASSUME NEW STATE otherChoice, NEW ACTION otherMove
  PROVE  SpecBeside(otherChoice, otherMove) =>
           []((turn = "gate" => GateSetup.embargo >= GateSetup.span) => NothingFromTheFuture)
<1>1. PartsInv => ((turn = "gate" => GateSetup.embargo >= GateSetup.span) => NothingFromTheFuture)
  BY PartsAssumption, GateSound, RegLabelled, PredGated DEF PartsInv, NothingFromTheFuture, Orc!OrcSamples
<1> QED BY <1>1, PartsInvariance, PTL

\* A strategy manages its own position and does not enter where it would leave
\* (engine.py:554, 413), a retirement keeps the operator's edits
\* (strategy_lifecycle.py:225), the model changes parameters in full_auto alone
\* (deepseek_ctl.py:407), and what losses stopped waits for another regime
\* (orchestrator.py:1081): for any strategies, answers and rules.
THEOREM ActsWithinItsRights ==
  ASSUME NEW STATE otherChoice, NEW ACTION otherMove
  PROVE  SpecBeside(otherChoice, otherMove) => OnlyWhoMayActs
<1>1. ASSUME PartsInv, PartsNext(otherMove) PROVE WhoMayActs
  BY <1>1, PartsAssumption, PartsMove, SigManagesItsOwn, SigNoEntryIntoAnExit, LifeInductive,
     AdvNoUnapprovedChange, OrcInductive
  DEF PartsInv, Adv!AdvInv, WhoMayActs
<1>2. PartsInv /\ [PartsNext(otherMove)]_partsVars => [WhoMayActs]_partsVars
  BY <1>1
<1> QED BY <1>2, PartsInvariance, PTL DEF SpecBeside, OnlyWhoMayActs

\* A start keeps every row of the database (database.py:425), and a save of one part of the
\* settings those of the others (settings.py:58): for any file, schema and setting.
THEOREM NothingStoredIsLost ==
  ASSUME NEW STATE otherChoice, NEW ACTION otherMove
  PROVE  SpecBeside(otherChoice, otherMove) => OthersStay
<1>1. ASSUME PartsInv, PartsNext(otherMove) PROVE NothingIsLost
  BY <1>1, PartsMove, MaintInductive, SetSaves DEF PartsInv, NothingIsLost, Set!SetInv
<1>2. PartsInv /\ [PartsNext(otherMove)]_partsVars => [NothingIsLost]_partsVars
  BY <1>1
<1> QED BY <1>2, PartsInvariance, PTL DEF SpecBeside, OthersStay

\* In the behaviours of the other parts the breaker stands still: side by side with them it
\* behaves as it does alone, and what is proved of it above holds there too.
THEOREM BreakerAmongTheParts ==
  ASSUME NEW STATE otherChoice, NEW ACTION otherMove
  PROVE  SpecBeside(otherChoice, otherMove) =>
           Spec /\ [](SettledEquity /\ PeaksInOrder /\ OneAlertPerTrip)
<1>1. PartsInit(otherChoice) => Init
  BY DEF PartsInit
<1>2. [PartsNext(otherMove)]_partsVars => [Next]_vars
  <2>1. PartsNext(otherMove) => Next \/ UNCHANGED vars
    BY DEF PartsNext, MoveBreaker
  <2>2. UNCHANGED partsVars => UNCHANGED vars
    BY DEF partsVars
  <2> QED BY <2>1, <2>2
<1>3. SpecBeside(otherChoice, otherMove) => Spec
  BY <1>1, <1>2, PTL DEF SpecBeside, Spec
<1>4. BreakerAssumption
  BY PartsAssumption
<1> QED BY <1>3, <1>4, EquitySettles, PeaksStayInOrder, EveryTripIsHeard, PTL
=============================================================================
