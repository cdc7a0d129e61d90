------------------------------ MODULE Backtest ------------------------------
(*************************************************************************)
(* The backtest (core/backtest): a feeder that replays bars, the legacy  *)
(* engine that decides and fills bar by bar, the hybrid engine that      *)
(* executes a matrix of precomputed signals, and the book both keep.     *)
(* One step is one tick of the timeline: reduces, exits, signal weights, *)
(* entries, in the order of the loop.                                    *)
(*                                                                       *)
(* The engine is sequential.  What makes it hard is that the same        *)
(* request may be executed in several ways that have to agree, so the    *)
(* module runs some of them side by side over the same bars and signals: *)
(* the engine the request is routed to beside the other one, and a chunk *)
(* of genomes beside a run for each of them in which the others never    *)
(* get a signal.                                                         *)
(*************************************************************************)
EXTENDS Sizer, FiniteSets, SequencesExt

CONSTANTS
  Strategies,    \* the strategies of the run, in their order
  Symbols,       \* the symbols of the run, in their order
  Config,        \* per strategy: tfs, logic, riskExit, reduce, ml
  Requests,      \* the requests a run may start from
  Paths,         \* bound: the price paths, ticks 0 .. Window of [open, close]
  Regimes,       \* bound: what detect_market_regime may find
  SignalChoices, \* bound: the entry signals of a bar
  Window,        \* bound: the last tick
  InitialCash, MaxOpenTrades,
  Limits,        \* the limits record of Sizer
  Weights,       \* the configured signal weights
  WeightPeriod,  \* ticks between two updates of the weights
  RetrainEvery   \* ml_retrain_interval

BacktestAssumption ==
  /\ Window \in Nat \ {0} /\ InitialCash \in Nat /\ MaxOpenTrades \in Nat \ {0}
  /\ WeightPeriod \in Nat \ {0} /\ RetrainEvery \in Nat \ {0}
  /\ Len(Strategies) > 0 /\ Len(Symbols) > 0

----------------------------------------------------------------------------
(* core/strategy/evaluation_kernel: from the conditions that hold on a bar to the entry that  *)
(* is taken, once bar by bar (the legacy engine and the live path) and once for a whole       *)
(* timeline (the hybrid engine).  Which conditions hold is data.  Weights are twentieths, the  *)
(* multiplier of a higher timeframe tenths, scores per mille.                                *)
Threshold == 500
CounterTrend == 650
NoEntry == "none"

\* Mutant of SideActive: "and" is ignored, as an earlier fold of the matrix did.
SideActiveOr(logic, conditions) == \E i \in DOMAIN conditions : conditions[i]

\* StrategyConfig.entry_sides: any condition of the side or all of them; a
\* side without conditions is never active.
SideActive(logic, conditions) ==
  /\ conditions # <<>>
  /\ IF logic = "and" THEN \A i \in DOMAIN conditions : conditions[i]
                      ELSE \E i \in DOMAIN conditions : conditions[i]

\* One for an unambiguous long, minus one for a short, zero otherwise.
Indicator(long, short) ==
  IF long /\ ~short THEN 1 ELSE IF short /\ ~long THEN -1 ELSE 0

Magnitude(x) == IF x < 0 THEN -x ELSE x

\* fuse_signals without news: the weight of a model that does not vote stays in
\* the divisor.  vote is the signed score of the model in tenths.
Fused(indicator, vote, w) ==
  LET total == w.indicator + w.ml + w.news
      sum   == 1000 * indicator * w.indicator + 100 * vote * w.ml
  IN  IF total <= 0 THEN 1000 * indicator
      ELSE IF sum < 0 THEN -((-sum) \div total) ELSE sum \div total

Aligned(score, multiplier) ==
  IF score < 0 THEN -(((-score) * multiplier) \div 10) ELSE (score * multiplier) \div 10

\* check_higher_tf_trend: deviation of the last close from the EMA in per
\* cent, None while the frame is short.
HigherTrend(deviation, known, side) ==
  LET against == IF side = "long" THEN -deviation ELSE deviation
  IN  IF ~known \/ against <= 0 THEN 10 ELSE IF against < 2 THEN 6 ELSE 0

Against(side, regime) ==
  \/ side = "long" /\ regime = "bear"
  \/ side = "short" /\ regime = "bull"

Sign(score) == IF score > 0 THEN "long" ELSE "short"

\* The scalar path of the legacy engine: conditions, filters, fusion, higher
\* timeframe, threshold.
Verdict(signal, logic, vote, w, regime) ==
  LET indicator == Indicator(SideActive(logic, signal.long), SideActive(logic, signal.short))
      side      == IF indicator > 0 THEN "long" ELSE "short"
      score     == Aligned(Fused(indicator, vote, w), HigherTrend(signal.deviation, TRUE, side))
      needed    == IF Against(side, regime) THEN CounterTrend ELSE Threshold
  IN  IF indicator = 0 \/ ~signal.allowed \/ Magnitude(score) < needed
      THEN NoEntry ELSE Sign(score)

\* Conditions folded one after another into the mask of a side.
FoldedSide(logic, conditions) ==
  LET mask[i \in 1 .. Len(conditions)] ==
        IF i = 1 THEN conditions[1]
        ELSE IF logic = "and" THEN mask[i - 1] /\ conditions[i] ELSE mask[i - 1] \/ conditions[i]
  IN  conditions # <<>> /\ mask[Len(conditions)]

\* The vectorised path of the hybrid engine: it has no filters and no model,
\* computes a multiplier for each side and selects by the sign.
EntrySignal(signal, logic, w, regime) ==
  LET indicator  == Indicator(FoldedSide(logic, signal.long), FoldedSide(logic, signal.short))
      multiplier == IF indicator > 0 THEN HigherTrend(signal.deviation, TRUE, "long")
                    ELSE IF indicator < 0 THEN HigherTrend(signal.deviation, TRUE, "short") ELSE 10
      score      == Aligned(Fused(indicator, 0, w), multiplier)
      counter    == \/ indicator > 0 /\ regime = "bear"
                    \/ indicator < 0 /\ regime = "bull"
      needed     == IF counter THEN CounterTrend ELSE Threshold
  IN  IF Magnitude(score) < needed THEN NoEntry ELSE Sign(score)

----------------------------------------------------------------------------
Genomes == {Strategies[i] : i \in DOMAIN Strategies}
Pairs == {Symbols[i] : i \in DOMAIN Symbols}
NoPosition == [side |-> "none"]
Shared == "shared"

VARIABLES
  request,   \* what was asked for
  bars,      \* the bars of every symbol, fixed for the run
  regime,    \* market regime per symbol, found at the first tick and kept
  t,         \* tick of the feeder, 0 before the first
  signal,    \* what the conditions say of each strategy and symbol
  weights,   \* signal weights of the legacy engine
  updated,   \* the tick of their last update
  books,     \* the executions and their books
  phase      \* "ready", "bar", "trade", "done", "refused"

vars == <<request, bars, regime, t, signal, weights, updated, books, phase>>

----------------------------------------------------------------------------
(* The feeder: a row of a timeframe is labelled with the tick it closes at. *)

Row(tf, now) == (now \div tf) * tf
HasBar(tf, now) == now % tf = 0
CloseAt(sym, tf, now) == bars[sym][Row(tf, now)].close

\* next_bar_open: the row after the last one closed, None outside the window.
NextOpen(sym, tf, now) ==
  IF Row(tf, now) + tf > Window THEN None ELSE bars[sym][Row(tf, now) + 1].open

Primary(s) == LET tfs == {Config[s].tfs[i] : i \in DOMAIN Config[s].tfs}
              IN  CHOOSE tf \in tfs : \A other \in tfs : tf <= other

----------------------------------------------------------------------------
(* Routing of a request. *)

\* The reduce conditions of a strategy, when the request's strategies have any.
ReducePct(r, s) == IF r.reduces THEN Config[s].reduce ELSE 0

HasMl(r) == r.ml /\ \E s \in Genomes : Config[s].ml

Selected(r) ==
  IF r.mode = "legacy" \/ HasMl(r) THEN "legacy"
  ELSE IF r.mode = "hybrid" THEN "hybrid"
  ELSE IF Len(Strategies) >= 3 /\ \A s \in Genomes : ReducePct(r, s) = 0
       THEN "hybrid" ELSE "legacy"

\* Explicit hybrid is refused what it cannot do; auto falls back.
Route(r) ==
  IF Selected(r) = "legacy" THEN "legacy"
  ELSE IF r.fill = "next_open" THEN (IF r.mode = "hybrid" THEN "refused" ELSE "legacy")
  ELSE IF r.orchestrated THEN "refused" ELSE "hybrid"

\* An execution: which engine, which genomes get signals, whether positions
\* and cash are per genome.
Execution(engine, of, isolated, fill) ==
  [engine |-> engine, of |-> of, isolated |-> isolated, fill |-> fill]

Executions(r) ==
  IF r.isolated
  THEN [run \in {"chunk"} \cup Genomes |->
          Execution("legacy", IF run = "chunk" THEN Genomes ELSE {run}, TRUE, r.fill)]
  ELSE [run \in IF Route(r) = "hybrid" THEN {"routed", "other"} ELSE {"routed"} |->
          Execution(IF run = "routed" THEN Route(r) ELSE "legacy", Genomes, FALSE, r.fill)]

Owner(x, s) == IF x.isolated THEN s ELSE Shared
Owners(x) == {Owner(x, s) : s \in Genomes}

EmptyBook(x) ==
  [x |-> x,
   cash |-> [o \in Owners(x) |-> InitialCash],
   booked |-> [o \in Owners(x) |-> 0],
   closed |-> [o \in Owners(x) |-> 0],
   pos |-> [k \in Genomes \X Pairs |-> NoPosition],
   fit |-> [k \in Genomes \X Pairs |-> 0],
   unfilled |-> 0, fallbacks |-> 0]

----------------------------------------------------------------------------
(* The book. *)

Open(b) == {k \in DOMAIN b.pos : b.pos[k] # NoPosition}
Profit(p, price, qty) == (IF p.side = "long" THEN price - p.entry ELSE p.entry - price) * qty

\* The fill of a decision at `now` on the series of tf: the decision's own
\* price, or the next open; at the end of the window the former, counted.
Fill(b, sym, tf, now, price) ==
  IF b.x.fill = "close" THEN [price |-> price, fallback |-> 0]
  ELSE IF NextOpen(sym, tf, now) = None THEN [price |-> price, fallback |-> 1]
  ELSE [price |-> NextOpen(sym, tf, now), fallback |-> 0]

\* Mutant of Credit: the cash of the whole run is the base of every close.
CreditPooled(b, o, amount) ==
  [b EXCEPT !.cash[o] = b.cash[CHOOSE p \in DOMAIN b.cash : TRUE] + amount]

\* The position's own ledger is both base and target.
Credit(b, o, amount) == [b EXCEPT !.cash[o] = @ + amount]

\* The spread is resolved once for the run; no volume reaches the costs while
\* the impact is not priced.
Spread == ResolveSpread(request.spread.override, request.spread.useLive, request.spread.cached,
                        request.spread.fetched, Limits.spread).value
Cost(p, price) == TradingCost(Limits, Spread, p.entry, price, p.qty, 0)

\* close_position and _close_and_credit.
Close(b, k, fill) ==
  LET p   == b.pos[k]
      o   == Owner(b.x, k[1])
      net == Profit(p, fill.price, p.qty) - Cost(p, fill.price)
  IN  [Credit(b, o, p.amount + net) EXCEPT
         !.booked[o] = @ + net, !.closed[o] = @ + 1,
         !.pos[k] = NoPosition, !.fallbacks = @ + fill.fallback]

----------------------------------------------------------------------------
(* Legacy: partial reduces, at most four of a position and one in a tick. *)

Reduced(b, k, tf, now) ==
  LET p    == b.pos[k]
      fill == Fill(b, k[2], tf, now, CloseAt(k[2], tf, now))
      qty  == PerCent(p.qty, ReducePct(request, k[1]))
      o    == Owner(b.x, k[1])
      gain == Profit(p, fill.price, qty)
  IN  IF qty = 0 THEN b
      ELSE [Credit(b, o, qty * fill.price + gain) EXCEPT
              !.booked[o] = @ + gain, !.closed[o] = @ + 1,
              !.pos[k].qty = @ - qty, !.pos[k].amount = @ - qty * fill.price,
              !.pos[k].reduced = @ + 1, !.fallbacks = @ + fill.fallback]

Reduces(b, now) ==
  LET due == {k \in Open(b) : b.pos[k].reduced < 4 /\ ReducePct(request, k[1]) > 0
                              /\ signal[k].reduce /\ k[1] \in b.x.of}
  IN  FoldLeft(LAMBDA acc, k : Reduced(acc, k, Config[k[1]].tfs[1], now), b, SetToSeq(due))

----------------------------------------------------------------------------
(* Exits of one position: what they do to it. *)

StopHit(p, price) ==
  p.stop > 0 /\ IF p.side = "long" THEN price <= p.stop ELSE price >= p.stop

TargetHit(p, price, target) ==
  IF p.side = "long" THEN price >= target ELSE price <= target

HitTargets(p, price) ==
  {i \in DOMAIN Limits.targets : TargetHit(p, price, Targets(Limits, p.entry, p.side)[i])}

\* The first level that is hit closes the whole position.
FirstTarget(p, price) ==
  Targets(Limits, p.entry, p.side)[CHOOSE i \in HitTargets(p, price) :
                                     \A j \in HitTargets(p, price) : i <= j]

\* The trailing stop follows the best price, and replaces whatever stop there is.
Trailed(p, price) ==
  LET best == IF p.side = "long" THEN Greater(p.best, price) ELSE Lesser(p.best, price)
  IN  IF p.trail = 0 THEN p ELSE [p EXCEPT !.best = best, !.stop = Beyond(best, p.trail, p.side)]

HeldTooLong(p, now) == p.hold > 0 /\ now - p.opened >= p.hold

\* The timeframes of the strategy, in its order, whose exit conditions hold.
ExitFrames(k) == SelectSeq(Config[k[1]].tfs, LAMBDA tf : tf \in signal[k].exits)
IndicatorExit(p, k) == p.byIndicator /\ ExitFrames(k) # <<>>
IndicatorPrice(k, now) == CloseAt(k[2], ExitFrames(k)[1], now)

LegacyExit(b, k, now) ==
  LET p == b.pos[k] price == CloseAt(k[2], p.tf, now) q == Trailed(p, price) IN
  IF StopHit(p, price) THEN Close(b, k, Fill(b, k[2], p.tf, now, p.stop))
  ELSE IF HitTargets(p, price) # {}
       THEN Close(b, k, Fill(b, k[2], p.tf, now, FirstTarget(p, price)))
  ELSE IF HeldTooLong(p, now) THEN Close(b, k, Fill(b, k[2], p.tf, now, price))
  ELSE IF IndicatorExit(p, k) /\ k[1] \in b.x.of
       THEN Close(b, k, Fill(b, k[2], ExitFrames(k)[1], now, IndicatorPrice(k, now)))
  ELSE [b EXCEPT !.pos[k] = q]

\* The hybrid executor looks only at positions whose timeframe has a bar now,
\* and asks the indicators before the holding time.
HybridExit(b, k, now) ==
  LET p == b.pos[k] price == CloseAt(k[2], p.tf, now) q == Trailed(p, price) IN
  IF ~HasBar(p.tf, now) THEN b
  ELSE IF StopHit(p, price) THEN Close(b, k, [price |-> p.stop, fallback |-> 0])
  ELSE IF HitTargets(p, price) # {}
       THEN Close(b, k, [price |-> FirstTarget(p, price), fallback |-> 0])
  ELSE IF IndicatorExit(p, k) THEN Close(b, k, [price |-> IndicatorPrice(k, now), fallback |-> 0])
  ELSE IF HeldTooLong(p, now) THEN Close(b, k, [price |-> price, fallback |-> 0])
  ELSE [b EXCEPT !.pos[k] = q]

Exits(b, now) ==
  FoldLeft(LAMBDA acc, k : IF b.x.engine = "legacy" THEN LegacyExit(acc, k, now)
                                                    ELSE HybridExit(acc, k, now),
           b, SetToSeq(Open(b)))

----------------------------------------------------------------------------
(* Entries, strategy by strategy and symbol by symbol. *)

EntryOrder ==
  LET m == Len(Symbols) IN
  [i \in 1 .. Len(Strategies) * m |-> <<Strategies[((i - 1) \div m) + 1], Symbols[((i - 1) % m) + 1]>>]

\* The key of a position names the strategy only when runs are isolated.
Taken(b, k) == \E other \in Open(b) : other[2] = k[2] /\ (b.x.isolated => other[1] = k[1])

MaxPositions(b) ==
  IF b.x.isolated THEN Greater(1, MaxOpenTrades \div Len(Strategies)) ELSE MaxOpenTrades

\* Mutant of OwnPositions: the slots of the whole chunk are counted.
OwnPositionsAll(b, s) == Cardinality(Open(b))

\* A genome of an isolated chunk counts its own positions.
OwnPositions(b, s) ==
  Cardinality({k \in Open(b) : b.x.isolated => k[1] = s})

\* Kelly-lite: one per cent of the balance at risk, if that is less.
Quantity(b, s, price, expanding) ==
  LET balance == b.cash[Owner(b.x, s)]
      base    == RiskAmount(Limits, balance, expanding, NoForecast, NoVolume) \div price
      kelly   == balance \div (price * Config[s].riskExit.stop)
  IN  IF Config[s].riskExit.present /\ kelly > 0 THEN Lesser(base, kelly) ELSE base

NewPosition(s, side, price, qty, now) ==
  LET re == Config[s].riskExit IN
  [side |-> side, qty |-> qty, entry |-> price, amount |-> qty * price, opened |-> now,
   tf |-> Primary(s), best |-> price, reduced |-> 0,
   stop |-> IF re.present THEN Beyond(price, re.stop, side) ELSE StopLevel(Limits, price, side),
   trail |-> TrailingDistance(Limits, re),
   hold |-> IF re.present THEN re.hold ELSE 0,
   byIndicator |-> re.present => re.byIndicator]

\* Sizing and booking, the same in both engines.
Book(b, k, side, price, now) ==
  LET qty == Quantity(b, k[1], price, signal[k].expanding)
      o   == Owner(b.x, k[1])
  IN  IF qty <= 0 \/ qty * price * 100 > b.cash[o] * 95 THEN b
      ELSE [b EXCEPT !.cash[o] = @ - qty * price,
                     !.pos[k] = NewPosition(k[1], side, price, qty, now)]

MayEnter(b, k) ==
  /\ k[1] \in b.x.of
  /\ ~Taken(b, k)
  /\ OwnPositions(b, k[1]) < MaxPositions(b)

\* The model votes only once it has been fitted.
Vote(b, k) == IF Config[k[1]].ml /\ request.ml /\ b.fit[k] > 0 THEN signal[k].vote ELSE 0

LegacyEnter(b, k, now) ==
  LET side == Verdict(signal[k], Config[k[1]].logic, Vote(b, k), weights, regime[k[2]])
      next == NextOpen(k[2], Primary(k[1]), now)
  IN  IF ~MayEnter(b, k) \/ side = NoEntry THEN b
      ELSE IF b.x.fill = "close" THEN Book(b, k, side, CloseAt(k[2], Primary(k[1]), now), now)
      ELSE IF next = None THEN [b EXCEPT !.unfilled = @ + 1]
      ELSE Book(b, k, side, next, now)

\* A cell of the matrix exists only where the primary timeframe has a bar.
HybridEnter(b, k, now) ==
  LET side == EntrySignal(signal[k], Config[k[1]].logic, Weights, regime[k[2]]) IN
  IF ~HasBar(Primary(k[1]), now) \/ ~MayEnter(b, k) \/ side = NoEntry THEN b
  ELSE Book(b, k, side, CloseAt(k[2], Primary(k[1]), now), now)

Entries(b, now) ==
  FoldLeft(LAMBDA acc, k : IF b.x.engine = "legacy" THEN LegacyEnter(acc, k, now)
                                                    ELSE HybridEnter(acc, k, now),
           b, EntryOrder)

----------------------------------------------------------------------------
(* Round robin over the models: each is fitted when the tick is its turn. *)

Models == SelectSeq(EntryOrder, LAMBDA k : Config[k[1]].ml)
Turn(k) == CHOOSE i \in DOMAIN Models : Models[i] = k
Stagger == LET n == Len(Models)
           IN  Greater(1, Greater(RetrainEvery, n) \div Greater(n, 1))

Retrain(b, now) ==
  [b EXCEPT !.fit = [k \in DOMAIN @ |->
     IF /\ b.x.engine = "legacy" /\ request.ml /\ Config[k[1]].ml
        /\ now % Stagger = (Turn(k) - 1) % Stagger
     THEN now ELSE @[k]]]

\* The regime of the market moves the weights, every so many ticks.
Shifted(found) ==
  IF found = "bull"
  THEN [indicator |-> Greater(6, Weights.indicator + 2), ml |-> Greater(2, Weights.ml - 1),
        news |-> Weights.news]
  ELSE IF found = "bear"
  THEN [indicator |-> Greater(6, Weights.indicator - 1), ml |-> Lesser(10, Weights.ml + 2),
        news |-> Weights.news]
  ELSE Weights

UpdateWeights(now) ==
  IF request.aiWeights /\ now - updated >= WeightPeriod
  THEN weights' = Shifted(regime[Symbols[1]]) /\ updated' = now
  ELSE UNCHANGED <<weights, updated>>

----------------------------------------------------------------------------
Quiet == [long |-> <<>>, short |-> <<>>, deviation |-> 0, allowed |-> TRUE,
          expanding |-> FALSE, reduce |-> FALSE, exits |-> {}, vote |-> 0]

Init ==
  /\ request \in Requests
  /\ bars \in [Pairs -> Paths]
  /\ regime \in [Pairs -> Regimes]
  /\ t = 0 /\ weights = Weights /\ updated = 0
  /\ signal = [k \in Genomes \X Pairs |-> Quiet]
  /\ books = [run \in {} |-> EmptyBook(run)]
  /\ phase = "ready"

\* Routing, configuration of the ledgers, loading.
Start ==
  /\ phase = "ready"
  /\ IF Route(request) = "refused" /\ ~request.isolated
     THEN phase' = "refused" /\ UNCHANGED books
     ELSE /\ phase' = "bar"
          /\ books' = [run \in DOMAIN Executions(request) |-> EmptyBook(Executions(request)[run])]
  /\ UNCHANGED <<request, bars, regime, t, signal, weights, updated>>

\* A condition can change only where its timeframe has a new bar.
Fresh(k, old, new, now) ==
  /\ ~HasBar(Primary(k[1]), now) =>
       new = [old EXCEPT !.exits = new.exits]
  /\ \A i \in DOMAIN Config[k[1]].tfs :
       LET tf == Config[k[1]].tfs[i]
       IN  ~HasBar(tf, now) => (tf \in new.exits <=> tf \in old.exits)

\* The feeder moves to the next tick: what the conditions say of it, and the
\* weights its entries will use.
Observe ==
  /\ phase = "bar" /\ t < Window
  /\ t' = t + 1
  /\ signal' \in [Genomes \X Pairs -> SignalChoices]
  /\ \A k \in DOMAIN signal : Fresh(k, signal[k], signal'[k], t + 1)
  /\ UpdateWeights(t + 1)
  /\ phase' = "trade"
  /\ UNCHANGED <<request, bars, regime, books>>

\* Models, reduces, exits and entries of the tick, in every execution.
Traded(b) ==
  IF b.x.engine = "legacy" THEN Entries(Exits(Reduces(Retrain(b, t), t), t), t)
  ELSE Entries(Exits(b, t), t)

Trade ==
  /\ phase = "trade"
  /\ books' = [run \in DOMAIN books |-> Traded(books[run])]
  /\ phase' = "bar"
  /\ UNCHANGED <<request, bars, regime, t, signal, weights, updated>>

\* Positions left at the end are closed at the last close; the hybrid executor
\* takes the entry price when their timeframe has no bar there.
ForceClose(b, k) ==
  LET p == b.pos[k] last == CloseAt(k[2], p.tf, t) IN
  IF b.x.engine = "legacy" THEN Close(b, k, Fill(b, k[2], p.tf, t, last))
  ELSE Close(b, k, [price |-> IF HasBar(p.tf, t) THEN last ELSE p.entry, fallback |-> 0])

Finish ==
  /\ phase = "bar" /\ t = Window
  /\ books' = [run \in DOMAIN books |->
                 FoldLeft(LAMBDA acc, k : ForceClose(acc, k), books[run], SetToSeq(Open(books[run])))]
  /\ phase' = "done"
  /\ UNCHANGED <<request, bars, regime, t, signal, weights, updated>>

Next == Start \/ Observe \/ Trade \/ Finish

Spec == Init /\ [][Next]_vars

----------------------------------------------------------------------------
(* Properties. *)

\* The cash of a ledger and what its positions have tied up are the initial
\* balance plus every profit booked, through reduces, fills at the next open
\* and the forced closes at the end, in either engine (trade_book, _credit_ledger).
Invested(b, o) ==
  LET mine == {k \in Open(b) : Owner(b.x, k[1]) = o}
  IN  FoldLeft(LAMBDA acc, k : acc + b.pos[k].amount, 0, SetToSeq(mine))

LedgerExplained ==
  \A run \in DOMAIN books : LET b == books[run] IN
    \A o \in DOMAIN b.cash : b.cash[o] + Invested(b, o) = InitialCash + b.booked[o]

\* What a genome earns in a chunk is what it earns when the other genomes of
\* the chunk never trade: neither their cash nor their slots reach it
\* (per_genome_ledger, _own_positions, _close_and_credit).
Result(b, s) ==
  [cash |-> b.cash[s], booked |-> b.booked[s], closed |-> b.closed[s],
   pos |-> [sym \in Pairs |-> b.pos[<<s, sym>>]]]

GenomesIsolated ==
  request.isolated /\ books # <<>> =>
    \A s \in Genomes : Result(books["chunk"], s) = Result(books[s], s)

\* A request that is executed by the hybrid engine gets the book the legacy
\* engine would have given it, where the two promise the same: bars on every
\* tick, no signal weights of the AI, no reduces, filters or models, and no
\* strategy that has both a holding time and indicator exits.
Outcome(b) == <<b.cash, b.booked, b.closed, b.pos>>

Comparable ==
  /\ ~request.aiWeights
  /\ \A s \in Genomes :
       /\ Primary(s) = 1 /\ ReducePct(request, s) = 0
       /\ Config[s].riskExit.hold = 0 \/ ~Config[s].riskExit.byIndicator
  /\ \A k \in DOMAIN signal : signal[k].allowed

EnginesAgree ==
  "other" \in DOMAIN books /\ Comparable =>
    Outcome(books["routed"]) = Outcome(books["other"])
=============================================================================
