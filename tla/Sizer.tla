------------------------------- MODULE Sizer -------------------------------
(*************************************************************************)
(* The numbers of a simulated trade: how large an entry is, where its    *)
(* stop and targets lie, and what a round trip costs                     *)
(* (core/risk/position_sizer, core/backtest/cost_model).  Amounts are    *)
(* integers of the quote currency, percentages whole per cents,          *)
(* forecasts and scales per mille; every division rounds down, so a cap  *)
(* that holds here holds for the floats of the code up to their last     *)
(* digit.                                                                *)
(*                                                                       *)
(* A limits record L has the fields pool, size, maxSize, softStop,       *)
(* minStop, trailing, targets, vt (target, lo, hi, cap, multiple,        *)
(* stopLo, stopHi; target 0 is "vol targeting off"), participation and   *)
(* impact (0 is off) and fee.                                            *)
(*************************************************************************)
EXTENDS Integers, Sequences

Lesser(a, b) == IF a < b THEN a ELSE b
Greater(a, b) == IF a < b THEN b ELSE a
Clip(x, lo, hi) == Lesser(Greater(x, lo), hi)
PerCent(x, pct) == (x * pct) \div 100

NoForecast == 0
NoVolume == -1     \* no quote volume is passed: the cap is not asked

HardCap(L, balance) == PerCent(balance, L.maxSize)

\* clip(target / forecast, lo, hi) in per mille; one when there is no forecast.
VolScale(L, forecast) ==
  IF L.vt.target = 0 \/ forecast = NoForecast THEN 1000
  ELSE Clip((L.vt.target * 1000) \div forecast, L.vt.lo, L.vt.hi)

\* A volume of zero is "no_volume": the cap refuses the trade.
ParticipationCap(L, amount, volume) ==
  IF L.participation = 0 \/ volume = NoVolume THEN amount
  ELSE Lesser(amount, PerCent(volume, L.participation))

Scaled(L, balance, amount, forecast) ==
  LET scaled == (amount * VolScale(L, forecast)) \div 1000
      capped == Lesser(scaled, HardCap(L, balance))
  IN  IF VolScale(L, forecast) = 1000 THEN amount
      ELSE IF L.vt.cap = 0 THEN capped
      ELSE Lesser(capped, PerCent(balance, L.vt.cap))

\* The notional of calculate_position_size.
RiskAmount(L, balance, expanding, forecast, volume) ==
  LET pooled == PerCent(PerCent(balance, L.pool), L.size)
      capped == Lesser(pooled, HardCap(L, balance))
      calmed == IF expanding THEN (capped * 7) \div 10 ELSE capped
  IN  ParticipationCap(L, Scaled(L, balance, calmed, forecast), volume)

\* Stop and trailing distance in per cent.
StopDistance(L, forecast) ==
  LET base == Greater(L.softStop, L.minStop)
      lo   == Greater(L.vt.stopLo, L.minStop)
  IN  IF L.vt.target = 0 \/ forecast = NoForecast THEN base
      ELSE Lesser(Greater((L.vt.multiple * forecast) \div 1000, lo), Greater(L.vt.stopHi, lo))

Beyond(price, pct, side) ==
  IF side = "long" THEN PerCent(price, 100 - pct) ELSE PerCent(price, 100 + pct)

StopLevel(L, price, side) == Beyond(price, StopDistance(L, NoForecast), side)

\* calculate_take_profits: the levels in the order they are tried.
Targets(L, price, side) ==
  [i \in 1 .. Len(L.targets) |->
     IF side = "long" THEN PerCent(price, 100 + L.targets[i])
                      ELSE PerCent(price, 100 - L.targets[i])]

\* The strategy's own trailing distance wins over the platform's.
TrailingDistance(L, riskExit) == IF riskExit.present THEN riskExit.trail ELSE L.trailing

----------------------------------------------------------------------------
(* Spread of a symbol: override, else a fresh cached or fetched live value *)
(* when live values are in use, else the default; None is "no value".      *)

None == -2

ResolveSpread(override, useLive, cached, fetched, default) ==
  IF override # None THEN [value |-> override, source |-> "override"]
  ELSE IF useLive /\ cached # None THEN [value |-> cached, source |-> "live"]
  ELSE IF useLive /\ fetched # None THEN [value |-> fetched, source |-> "live"]
  ELSE [value |-> default, source |-> "default"]

\* Fee on both notionals and half the spread on each, in per mille, plus the
\* impact of the larger notional when it is priced and a volume is known.
Impact(L, notional, volume) ==
  IF L.impact = 0 \/ volume <= 0 THEN 0 ELSE (notional * L.impact * notional) \div (1000 * volume)

TradingCost(L, spread, entry, exit, qty, volume) ==
  (qty * (entry + exit) * (2 * L.fee + spread)) \div 2000
    + Impact(L, qty * Greater(entry, exit), volume)
=============================================================================
