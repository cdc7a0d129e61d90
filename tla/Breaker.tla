------------------------------- MODULE Breaker -------------------------------
(*************************************************************************)
(* The circuit breaker (core/risk/circuit_breaker.py) and what feeds it: *)
(* equity computed by RiskManager.update_balance from the wallet and the *)
(* executor's positions, trade results that arrive as POSITION_UPDATE    *)
(* events, the calendar, and the three ways it is reset - the first      *)
(* check of a day, the midnight timer, and a person or the AI recovery   *)
(* loop.                                                                 *)
(*                                                                       *)
(* Opening and closing a position changes the memory and the wallet in   *)
(* two steps; update_balance may run for another symbol in between.      *)
(* Amounts are cents, except a result as the event carries it, in tenths *)
(* of a cent.                                                            *)
(*************************************************************************)
EXTENDS Integers, Sequences, FiniteSets, FiniteSetsExt

CONSTANTS
  Symbols,
  Nobody,
  Amount,          \* cash one position takes
  Results,         \* pnl of a close, unrounded
  InitialCash,
  MaxDailyLoss,    \* max_daily_loss_usdt
  DayLimit,        \* max_daily_drawdown_pct
  WeekLimit,       \* max_weekly_drawdown_pct
  MaxLosses,       \* max_consecutive_losses
  MaxCloses,       \* bound: closes
  FirstDay,        \* day 7, 14, ... is a Monday
  MaxDay,          \* bound: last day
  MaxResets        \* bound: resets by hand or by the AI

WeekLength == 7

BreakerAssumption ==
  /\ IsFiniteSet(Symbols) /\ Nobody \notin Symbols
  /\ Amount \in Nat \ {0} /\ InitialCash \in Nat \ {0}
  /\ \A p \in Results : p \in Int \ {0} /\ p % 10 # 5
  /\ {MaxDailyLoss, DayLimit, WeekLimit, MaxLosses} \subseteq Nat \ {0}
  /\ {MaxCloses, MaxDay, MaxResets} \subseteq Nat /\ FirstDay \in 1 .. MaxDay

VARIABLES
  stage,       \* stage[s]: flat, opening, open or closing
  bus,         \* the symbol whose order the event bus is executing
  cash,        \* sim_balance
  gain,        \* gain[s]: what the close of s still adds to its amount
  results,     \* POSITION_UPDATE events not handled yet: their pnl
  brk,         \* the CircuitBreaker's fields
  day, midnight, \* the date; whether today's timer is still to fire
  asked,       \* the AI recovery loop awaits an answer
  closes, resets,
  undone,      \* history: an open was undone since the last update_balance
  today,       \* history: results reported since midnight or a reset by hand
  low,         \* history: depth of the worst true drawdown, in percent
  high,        \* history: highest true equity
  trips, alerts \* history: trips of the breaker, RISK_BREACH events published

acct == <<stage, bus, cash, gain, closes>>
time == <<day, midnight>>
vars == <<stage, bus, cash, gain, results, brk, day, midnight, asked, closes, resets,
          undone, today, low, high, trips, alerts>>

NoReason == <<"none", 0>>

Init ==
  /\ stage = [s \in Symbols |-> "flat"]
  /\ bus = Nobody
  /\ cash = InitialCash
  /\ gain = [s \in Symbols |-> 0]
  /\ results = <<>>
  /\ brk = [dailyPnl |-> 0, peak |-> InitialCash, weekPeak |-> InitialCash,
            equity |-> InitialCash, losses |-> 0, tripped |-> FALSE,
            reason |-> NoReason, alerted |-> NoReason, checkDay |-> 0]
  /\ day = FirstDay
  /\ midnight = FALSE
  /\ asked = FALSE
  /\ closes = 0
  /\ resets = 0
  /\ undone = FALSE
  /\ today = 0
  /\ low = 0
  /\ high = InitialCash
  /\ trips = 0
  /\ alerts = 0

----------------------------------------------------------------------------
(* The methods of CircuitBreaker *)

\* Mutant of SetEquity: the week has no peak of its own.
SetEquityDayOnly(b, e) ==
  [b EXCEPT !.equity = e, !.peak = Max({@, e})]

SetEquity(b, e) ==
  [b EXCEPT !.equity = e, !.peak = Max({@, e}), !.weekPeak = Max({@, e})]

\* round(pnl, 2)
Cents(p) == (p + 5) \div 10

AddTradeResult(b, p) ==
  [b EXCEPT !.dailyPnl = @ + Cents(p),
            !.losses = IF Cents(p) < 0 THEN @ + 1 ELSE 0]

\* Mutant of ResetDaily: a fresh day takes the weekly peak with it.
ResetDailyAll(b) == [b EXCEPT !.dailyPnl = 0, !.peak = b.equity, !.weekPeak = b.equity]

\* A trip outlives the day, and so does the losing streak.
ResetDaily(b) == [b EXCEPT !.dailyPnl = 0, !.peak = b.equity]

ResetWeekly(b) == [b EXCEPT !.weekPeak = b.equity, !.peak = b.equity]

\* Mutant of ResetTrip: the reason last alerted is kept.
ResetTripKeepsAlert(b) ==
  [b EXCEPT !.tripped = FALSE, !.reason = NoReason, !.losses = 0]

ResetTrip(b) ==
  [b EXCEPT !.tripped = FALSE, !.reason = NoReason, !.losses = 0,
            !.alerted = NoReason]

Week(d) == d \div WeekLength

\* check(): the first one of a day, or of a week, resets.
Rolled(b) ==
  LET d == IF b.checkDay \notin {0, day} THEN ResetDaily(b) ELSE b
      w == IF b.checkDay # 0 /\ Week(b.checkDay) # Week(day)
             THEN ResetWeekly(d) ELSE d
  IN [w EXCEPT !.checkDay = day]

Beyond(peak, equity, limit) == peak > 0 /\ (peak - equity) * 100 > limit * peak

\* check(): the first limit that is broken; its text carries the figure.
Reason(b) ==
  IF Beyond(b.peak, b.equity, DayLimit) THEN <<"daily drawdown", b.peak - b.equity>>
  ELSE IF Beyond(b.weekPeak, b.equity, WeekLimit)
    THEN <<"weekly drawdown", b.weekPeak - b.equity>>
  ELSE IF b.dailyPnl <= 0 - MaxDailyLoss THEN <<"daily loss", b.dailyPnl>>
  ELSE IF b.losses >= MaxLosses THEN <<"consecutive losses", b.losses>>
  ELSE NoReason

Trip(b) == [b EXCEPT !.tripped = TRUE, !.reason = Reason(b)]

\* is_new_trip()
Alert(b) == [b EXCEPT !.alerted = b.reason]

----------------------------------------------------------------------------
(* The account *)

InMemory(st) == {s \in Symbols : st[s] \in {"opening", "open"}}
Invested(st) == Amount * Cardinality(InMemory(st))

\* RiskManager.update_balance: the wallet just written, plus the positions the
\* executor holds in memory at this moment.
UpdateBalance(c, st) ==
  LET e == c + Invested(st)
      b == SetEquity(brk, e)
  IN /\ brk' = IF Invested(st) = 0 /\ b.peak * 100 > e * 105 /\ e > 0
                 THEN [b EXCEPT !.peak = e] ELSE b
     /\ undone' = FALSE

\* What the account is worth: an amount leaves the wallet with the open's
\* deduction and comes back with the close's credit.
Owned(st) == Amount * Cardinality({s \in Symbols : st[s] \in {"open", "closing"}})

Worth(c, st) ==
  LET w == c + Owned(st) IN
  /\ high' = Max({high, w})
  /\ low' = Max({low, ((Max({high, w}) - w) * 100) \div Max({high, w})})

NoHistory == UNCHANGED <<undone, today, low, high, trips, alerts>>

\* ORDER_REQUEST: the position appears in memory; the bus runs this handler only.
OpenMemory(s) ==
  /\ bus = Nobody
  /\ stage[s] = "flat"
  /\ stage' = [stage EXCEPT ![s] = "opening"]
  /\ bus' = s
  /\ UNCHANGED <<cash, gain, results, brk, time, asked, closes, resets>>
  /\ NoHistory

OpenPay(s) ==
  LET st == [stage EXCEPT ![s] = "open"] IN
  /\ stage[s] = "opening"
  /\ stage' = st
  /\ cash' = cash - Amount
  /\ bus' = Nobody
  /\ UpdateBalance(cash', st)
  /\ UNCHANGED <<gain, results, time, asked, closes, resets, today, low, high, trips,
                 alerts>>

\* The deduction fails: the position goes, and nobody tells the breaker.
OpenUndo(s) ==
  /\ stage[s] = "opening"
  /\ stage' = [stage EXCEPT ![s] = "flat"]
  /\ bus' = Nobody
  /\ undone' = TRUE
  /\ UNCHANGED <<cash, gain, results, brk, time, asked, closes, resets, today, low,
                 high, trips, alerts>>

\* The position leaves the memory and its result is published.
CloseMemory(s, p) ==
  /\ closes < MaxCloses
  /\ stage[s] = "open"
  /\ stage' = [stage EXCEPT ![s] = "closing"]
  /\ gain' = [gain EXCEPT ![s] = Cents(p)]
  /\ results' = Append(results, p)
  /\ closes' = closes + 1
  /\ UNCHANGED <<bus, cash, brk, time, asked, resets>>
  /\ NoHistory

\* Mutant of CloseCredit: the risk manager is not told.
CloseCreditSilent(s) ==
  /\ stage[s] = "closing"
  /\ stage' = [stage EXCEPT ![s] = "flat"]
  /\ cash' = cash + Amount + gain[s]
  /\ gain' = [gain EXCEPT ![s] = 0]
  /\ Worth(cash', stage')
  /\ UNCHANGED <<bus, results, brk, time, asked, closes, resets, undone, today, trips,
                 alerts>>

CloseCredit(s) ==
  LET st == [stage EXCEPT ![s] = "flat"] IN
  /\ stage[s] = "closing"
  /\ stage' = st
  /\ cash' = cash + Amount + gain[s]
  /\ gain' = [gain EXCEPT ![s] = 0]
  /\ UpdateBalance(cash', st)
  /\ Worth(cash', st)
  /\ UNCHANGED <<bus, results, time, asked, closes, resets, today, trips, alerts>>

\* RiskManager._on_position_update
Report ==
  /\ bus = Nobody
  /\ results # <<>>
  /\ results' = Tail(results)
  /\ brk' = AddTradeResult(brk, Head(results))
  /\ today' = today + Cents(Head(results))
  /\ UNCHANGED <<acct, undone, time, asked, resets, low, high, trips, alerts>>

----------------------------------------------------------------------------
(* Checks and resets *)

\* check_signal goes past its first step.
Pass ==
  LET b == Rolled(brk) IN
  /\ ~b.tripped
  /\ Reason(b) = NoReason
  /\ brk' = b
  /\ UNCHANGED <<acct, results, time, asked, resets>>
  /\ NoHistory

\* A limit is broken: the breaker latches, and is_new_trip decides on the alert.
TripNow ==
  LET b == Rolled(brk) IN
  /\ ~b.tripped
  /\ Reason(b) # NoReason
  /\ brk' = Alert(Trip(b))
  /\ trips' = trips + 1
  /\ alerts' = alerts + (IF Reason(b) # b.alerted THEN 1 ELSE 0)
  /\ UNCHANGED <<acct, undone, results, time, asked, resets, today, low, high>>

\* The breaker is latched: rejected, and the reason has been alerted already.
Refuse ==
  LET b == Rolled(brk) IN
  /\ b.tripped
  /\ brk' = Alert(b)
  /\ alerts' = alerts + (IF b.reason # b.alerted THEN 1 ELSE 0)
  /\ UNCHANGED <<acct, undone, results, time, asked, resets, today, low, high, trips>>

Tomorrow ==
  /\ day < MaxDay
  /\ ~midnight
  /\ day' = day + 1
  /\ midnight' = TRUE
  /\ today' = 0
  /\ UNCHANGED <<acct, undone, results, brk, asked, resets, low, high, trips, alerts>>

\* _circuit_breaker_reset_loop, some minutes past midnight.
Timer ==
  /\ midnight
  /\ midnight' = FALSE
  /\ brk' = IF day % WeekLength = 0 THEN ResetWeekly(ResetDaily(brk))
            ELSE ResetDaily(brk)
  /\ UNCHANGED <<acct, results, day, asked, resets>>
  /\ NoHistory

\* POST /api/circuit-breaker/reset
Override ==
  /\ resets < MaxResets
  /\ brk' = ResetDaily(ResetTrip(brk))
  /\ resets' = resets + 1
  /\ today' = 0
  /\ UNCHANGED <<acct, undone, results, time, asked, low, high, trips, alerts>>

\* _breaker_recovery_loop looks at is_tripped and calls the model ...
AskAI ==
  /\ ~asked
  /\ brk.tripped
  /\ asked' = TRUE
  /\ UNCHANGED <<acct, results, brk, time, resets>>
  /\ NoHistory

\* ... and resets the breaker when the answer says so,
Recover ==
  /\ asked
  /\ resets < MaxResets
  /\ asked' = FALSE
  /\ brk' = ResetDaily(ResetTrip(brk))
  /\ resets' = resets + 1
  /\ today' = 0
  /\ UNCHANGED <<acct, undone, results, time, low, high, trips, alerts>>

\* or leaves it for the next round.
StayTripped ==
  /\ asked
  /\ asked' = FALSE
  /\ UNCHANGED <<acct, results, brk, time, resets>>
  /\ NoHistory

----------------------------------------------------------------------------

AccountStep ==
  \/ \E s \in Symbols : OpenMemory(s) \/ OpenPay(s) \/ OpenUndo(s) \/ CloseCredit(s)
  \/ \E s \in Symbols, p \in Results : CloseMemory(s, p)
  \/ Report

BreakerStep ==
  \/ Pass \/ TripNow \/ Refuse \/ Override
  \/ AskAI \/ Recover \/ StayTripped

Next == AccountStep \/ BreakerStep \/ Tomorrow \/ Timer

Spec == Init /\ [][Next]_vars

----------------------------------------------------------------------------
(* Properties *)

\* What check() may give for a reason: a text and its figure.
Figures(text) == {<<text, x>> : x \in Int}
Reasons ==
  {NoReason} \cup Figures("daily drawdown") \cup Figures("weekly drawdown")
  \cup Figures("daily loss") \cup Figures("consecutive losses")

\* The fields of the breaker.
Breakers ==
  [dailyPnl : Int, peak : Int, weekPeak : Int, equity : Int, losses : Nat,
   tripped : BOOLEAN, reason : Reasons, alerted : Reasons, checkDay : Nat]

\* Every variable keeps its type.
TypeOK ==
  /\ stage \in [Symbols -> {"flat", "opening", "open", "closing"}]
  /\ cash \in Int /\ gain \in [Symbols -> Int]
  /\ results \in Seq(Results)
  /\ brk \in Breakers
  /\ day \in Nat
  /\ trips \in Nat /\ alerts \in Nat

Settled == \A s \in Symbols : stage[s] \in {"flat", "open"}

\* When no open or close is half done, the breaker judges the equity the account
\* really has, whichever order the wallet writes and the memory changes came in:
\* the last handler to finish puts right what the others saw half done (but for
\* an open whose deduction failed: nobody corrects what was seen of it).
SettledEquity == Settled /\ ~undone => brk.equity = cash + Invested(stage)

\* The peak of the day never stands above the peak of the week, so that no daily
\* reset hides a slide the weekly limit is there for.
PeaksInOrder == brk.equity <= brk.peak /\ brk.peak <= brk.weekPeak

\* Each trip raises exactly one RISK_BREACH - the breaker's response and the
\* recovery loop hang on it - also when the same limit breaks again after a reset.
OneAlertPerTrip == alerts = trips

\* The weekly peak comes down only when a week turns.
WeekPeakHolds ==
  brk'.weekPeak < brk.weekPeak =>
    (midnight /\ day % WeekLength = 0) \/ Week(brk.checkDay) # Week(day)

\* docs/core-algorithms/03-circuit-breaker.md: daily_pnl is cleared at midnight, so
\* that a signal which passes was measured against everything lost since, but for
\* what somebody reset by hand.
DailyLossCounts ==
  [][Pass => brk'.dailyPnl <= today]_vars

\* RiskManager.update_balance: no false alarm from a peak that stale position
\* tracking inflated - the breaker trips on a drawdown the account really had.
NoFalseAlarm ==
  brk.tripped /\ brk.reason[1] = "daily drawdown" => low >= DayLimit

\* The reset button says that trading has resumed: no check refuses at once what
\* was reset by hand.
OverrideResumes == [][Override => Reason(brk') = NoReason]_vars

\* _breaker_recovery_loop ends when the breaker is no longer tripped: it resets
\* only a breaker that is.
RecoversTheTripped == [][Recover => brk.tripped]_vars
=============================================================================
