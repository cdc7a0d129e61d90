------------------------------- MODULE MCParts -------------------------------
(*************************************************************************)
(* The parts of the program that have a model of their own and no run of *)
(* their own, for one run of TLC: those of module Parts, and the         *)
(* backtest and market data.                                             *)
(*************************************************************************)
EXTENDS Parts, TLC

CONSTANTS NoScore, NoHalfLife, NoLock

(* --- backtests of two genomes in a chunk of two slots and two symbols --- *)
GenomeConfigs ==
  [s \in {"a", "b"} |->
     IF s = "a"
     THEN [tfs |-> <<1, 2>>, logic |-> "and", reduce |-> 50, ml |-> TRUE,
           riskExit |-> [present |-> FALSE, stop |-> 1, trail |-> 0, hold |-> 0, byIndicator |-> TRUE]]
     ELSE [tfs |-> <<1>>, logic |-> "or", reduce |-> 0, ml |-> FALSE,
           riskExit |-> [present |-> TRUE, stop |-> 10, trail |-> 5, hold |-> 2, byIndicator |-> FALSE]]]

\* An override, a cached spread of -2: none.
TestRequest(mode, ml, fill, isolated, ai, reduces) ==
  [mode |-> mode, ml |-> ml, fill |-> fill, isolated |-> isolated,
   aiWeights |-> ai, reduces |-> reduces, orchestrated |-> FALSE,
   spread |-> [override |-> -2, useLive |-> ~isolated, cached |-> -2, fetched |-> 4]]
TestRequests ==
  {TestRequest("hybrid", FALSE, "close", FALSE, FALSE, FALSE),
   TestRequest("hybrid", FALSE, "next_open", FALSE, FALSE, FALSE),
   TestRequest("legacy", TRUE, "next_open", FALSE, TRUE, TRUE),
   TestRequest("legacy", FALSE, "next_open", TRUE, TRUE, TRUE)}

TestBar(open, close) == [open |-> open, close |-> close]
TestPaths ==
  {(0 :> TestBar(100, 100) @@ 1 :> TestBar(100, 100) @@ 2 :> TestBar(90, 120) @@ 3 :> TestBar(110, 80)),
   (0 :> TestBar(100, 100) @@ 1 :> TestBar(100, 110) @@ 2 :> TestBar(120, 90) @@ 3 :> TestBar(90, 100))}

NoSignal ==
  [long |-> <<>>, short |-> <<>>, deviation |-> 0, allowed |-> TRUE, expanding |-> FALSE,
   reduce |-> FALSE, exits |-> {}, vote |-> 0]
TestSignals ==
  {[NoSignal EXCEPT !.long = <<TRUE, TRUE>>, !.vote = -10],
   [NoSignal EXCEPT !.short = <<TRUE>>, !.long = <<TRUE, FALSE>>, !.deviation = -1,
                    !.exits = {1, 2}, !.expanding = TRUE],
   [NoSignal EXCEPT !.reduce = TRUE, !.exits = {2}]}

TestLimits ==
  [pool |-> 50, size |-> 40, maxSize |-> 15, softStop |-> 12, minStop |-> 1, trailing |-> 5,
   targets |-> <<15, 30>>, vt |-> [target |-> 0], participation |-> 0, impact |-> 0, fee |-> 1, spread |-> 2]
Test == INSTANCE Backtest WITH
  request <- c1, bars <- c2, regime <- c3, t <- c4, signal <- c5, weights <- c6,
  updated <- c7, books <- c8, phase <- c9, Strategies <- <<"a", "b">>,
  Symbols <- <<"x", "y">>, Config <- GenomeConfigs, Requests <- TestRequests,
  Paths <- TestPaths, Regimes <- {"range"}, SignalChoices <- TestSignals, Window <- 3,
  InitialCash <- 10000, MaxOpenTrades <- 2, Limits <- TestLimits,
  Weights <- [indicator |-> 12, ml |-> 6, news |-> 2], WeightPeriod <- 2, RetrainEvery <- 4
MoveTest ==
  turn = "test" /\ Test!Next /\ UNCHANGED <<turn, Rest10>>

(* --- the circuit breaker: a loss that counts, a gain, and dust that rounds to zero --- *)
BreakerResults == {-30, 24}

(* --- the engine judging two strategies --- *)
SmallSig ==
  [strategies |-> {"s", "t"}, maxReduces |-> 1, maxChanges |-> 1,
   verdicts |-> {[entry |-> "long", leave |-> {"long"}, reduce |-> TRUE]},
   restored |-> {[owner |-> "nobody", side |-> "none"], [owner |-> "s", side |-> "long"]}]

(* --- strategies retired, tuned and added by the model --- *)
SmallLife ==
  [names |-> {"s", "g"}, newborn |-> "g", coins |-> {"eth"}, losses |-> {{}, {"eth"}},
   maxEdits |-> 1, maxRounds |-> 1]

(* --- what the model advises --- *)
SmallAdv ==
  [picks |-> {{"xxx"}, {"btc", "xxx"}}, params |-> {"reckless", "words"}, noNumbers |-> "words",
   reckless |-> "reckless", tradable |-> {"btc"}, default |-> {"btc"}, maxRows |-> 1, maxTouches |-> 1]

(* --- the orchestrator --- *)
PlainRules ==
  [enabled |-> TRUE, typos |-> {}, losses |-> 0, threshold |-> 0, reset |-> TRUE, allowed |-> [v \in {} |-> {}],
   unknownDenied |-> FALSE, unlistedDenied |-> FALSE, multiple |-> 0, window |-> 3, minSamples |-> 2,
   highDenied |-> TRUE, floor |-> 0, tolerance |-> 1, staleAfter |-> 1, staleDenied |-> FALSE,
   lowDenied |-> TRUE, missingDenied |-> TRUE]
OrcRules ==
  {[PlainRules EXCEPT !.losses = 2, !.unlistedDenied = TRUE, !.allowed = [v \in {"g1"} |-> {"all"}]],
   [PlainRules EXCEPT !.multiple = 1], [PlainRules EXCEPT !.floor = 2],
   [PlainRules EXCEPT !.enabled = FALSE], [PlainRules EXCEPT !.reset = FALSE]}
SmallOrc ==
  [variants |-> {"g1", "g2"}, words |-> {"up", "down"}, rules |-> OrcRules, samples |-> {1, 3},
   lastBar |-> 2, maxFeeds |-> 3]

(* --- genomes bred, scored and published --- *)
GeneJobs == {[pool |-> {}, switch |-> FALSE], [pool |-> {60}, switch |-> TRUE]}
GeneSeeds ==
  {[tf |-> {1}, regime |-> {"bull", "crisis"}, indicators |-> {"ema", "obv"},
    entry |-> {<<"slope", TRUE>>, <<"ema", TRUE>>}, exit |-> {"obv"}]}
SmallGene ==
  [intervals |-> {1, 15, 60}, conditions |-> {"ema", "slope"}, jobs |-> GeneJobs,
   seeds |-> GeneSeeds, maxBred |-> 1]

(* --- a generation scored by two worker processes --- *)
\* A second position brings enough trades for a score that counts.
OnePass(k) == [trades |-> IF k = 1 THEN 20 ELSE 40, sharpe |-> 1, cost |-> 5 * k, impact |-> 2, measured |-> TRUE]
Evidences == [decodes : BOOLEAN, pass : {[k \in 1..3 |-> OnePass(k)]}]
SmallScore == [genomes |-> 3, maxWorkers |-> 2, openTrades |-> 3, evidences |-> Evidences]

(* --- the composite study and the hold-out window --- *)
FirstCurve == {<<1, 10>>, <<2, 12>>, <<3, 9>>}
StudyCurves == {FirstCurve, {<<2, 10>>, <<3, 8>>}, {<<1, 10>>, <<2, 9>>}}
FirstTrades == {<<1, 2>>}
StudyTrades == {FirstTrades, {<<1, 1>>, <<3, 3>>}}
SmallStudy ==
  [children |-> {"g1", "g2"}, grid |-> 3, curves |-> StudyCurves, tradeLists |-> StudyTrades,
   labelAt |-> <<"up", "down", "up">>, maxRuns |-> 2]

(* --- the gate on a trained model --- *)
GateFrame(h, d) ==
  [b \in 1..30 |-> IF b % h = 0 THEN "flat" ELSE IF (b \div d) % 2 = 0 THEN "up" ELSE "down"]
GateFrames == {GateFrame(8, 5)}
SmallGate ==
  [lastBar |-> 30, frames |-> GateFrames, answers |-> {2, 5, 8}, folds |-> 2, span |-> 2,
   embargo |-> 2, minTrain |-> 5, fitFloor |-> 3, calFloor |-> 2, minCalRows |-> 3,
   minTrades |-> 3, streamFloor |-> 1, fee |-> 40, edge |-> 3, overrides |-> {"null", "off"}]

(* --- predictions of the model in use --- *)
SmallPred ==
  [maxTrainings |-> 2, maxBars |-> 2, maxCrashes |-> 1, contracts |-> {1, 2}, bases |-> {5},
   thresholds |-> {3, 7}, probabilities |-> {1, 6, 8}]

(* --- regime labels --- *)
RegAllowed == {<<"trend_up">>, <<"range", "low">>}
SmallReg ==
  [closes |-> {1, 2}, volWindow |-> 2, minPeriods |-> 2, fast |-> 1, slow |-> 3,
   minRegimeRows |-> 3, minRows |-> 2, warmup |-> 4, refitEvery |-> 2, maxRows |-> 3,
   allowed |-> RegAllowed, maxBars |-> 5]

(* --- a traded pair and its cointegration test --- *)
SmallPair ==
  [scores |-> {-9, -4, 0, 2, 4, 9}, noScore |-> NoScore, zEntry |-> 4, zExit |-> 1, zStop |-> 8,
   lengths |-> {2, 5}, simMin |-> 3, simMax |-> 4, minObs |-> 4, halfLives |-> {1, 3, 9},
   noHalfLife |-> NoHalfLife, minHalfLife |-> 2, maxHalfLife |-> 5, lookbackMult |-> 2,
   minLookback |-> 3, maxLookback |-> 8, maxLag |-> 1, nullMax |-> 2, maxWork |-> 6]

(* --- bars of a volume clock --- *)
Bars == INSTANCE VolumeBars WITH
  prints <- c1, builder <- c2, pushed <- c3, streamed <- c4, saved <- c5, Prices <- {1, 2},
  Volumes <- {1, 2}, Threshold <- 3, Interval <- 2, LastTime <- 4, MaxPrints <- 3
MoveBars ==
  turn = "bars" /\ Bars!BarsNext /\ UNCHANGED <<turn, Rest6>>

(* --- the candles of one symbol, in memory and on disk --- *)
CandleRow(bar, conv) == [bar |-> bar, conv |-> conv, final |-> TRUE]
CandleFiles ==
  {{}, {CandleRow(0, "open"), CandleRow(2, "open"), CandleRow(2, "close")}, {CandleRow(1, "close")}}
Ohlc == INSTANCE Candles WITH
  closed <- c1, disk <- c2, mem <- c3, loaded <- c4, dirty <- c5, stream <- c6, live <- c7,
  answer <- c8, backfill <- c9, backfills <- c10, writer <- c11, shrunk <- c12, LastBar <- 4, Page <- 2,
  MinCandles <- 2, Files <- CandleFiles, Backfills <- 1
MoveOhlc ==
  turn = "ohlc" /\ Ohlc!CandleNext /\ UNCHANGED <<turn, Rest13>>

(* --- three callers of the token screener --- *)
ScrMarkets ==
  {[ticker |-> "fine", depth |-> "fine", hourly |-> "fine", daily |-> "thin", listing |-> "bad"]}
Scr == INSTANCE Screener WITH
  market <- c1, cache <- c2, locks <- c3, holder <- c4, queue <- c5, asks <- c6, clock <- c7,
  doubtful <- c8, Callers <- {"c1", "c2", "c3"}, Markets <- ScrMarkets,
  Failures <- {{"listing"}, {"ticker"}}, MaxLocks <- 1, MaxEntries <- 1, Ttl <- 1,
  Budget <- 0, LastTime <- 1
MoveScr ==
  turn = "scr" /\ Scr!ScrNext /\ UNCHANGED <<turn, Rest9>>

(* --- the recorder of market breadth --- *)
Quoted(usdt, volume, change) == [usdt |-> usdt, volume |-> volume, change |-> change]
BreadthPayloads ==
  {{Quoted(FALSE, 1, 1), Quoted(TRUE, 0, 1)}, {Quoted(TRUE, 2, 1), Quoted(TRUE, 1, -1), Quoted(TRUE, 0, 1)}}
Breadth == INSTANCE Breadth WITH
  now <- c1, file <- c2, memo <- c3, task <- c4, told <- c5, deaths <- c6, seen <- c7,
  Readers <- {"r1"}, Recorder <- "rec", Payloads <- BreadthPayloads, Ttl <- 1, MaxLines <- 2,
  Attempts <- 2, LastTime <- 2, MaxDeaths <- 1
MoveBreadth ==
  turn = "breadth" /\ Breadth!BreadthNext /\ UNCHANGED <<turn, Rest8>>

(* --- the trading page --- *)
SmallPage ==
  [symbols |-> {"btc", "eth"}, first |-> "btc", intervals |-> {"5m", "1h"}, initial |-> "5m",
   queries |-> {"b", "bt"}, maxFlights |-> 2, maxSent |-> 3, maxActs |-> 2]

(* --- request budgets --- *)
SmallThr ==
  [users |-> {"u", "v"}, families |-> {"depth", "klines"}, aggregate |-> "market",
   limits |-> [depth |-> 1, klines |-> 1, market |-> 2], window |-> 2, maxUsers |-> 3, lastTime |-> 3]

(* --- the database from start to clean-up --- *)
MaintRow(key, id, action, status, pnl, opened, closed, group, exit) ==
  [key |-> key, id |-> id, action |-> action, status |-> status, pnl |-> pnl, opened |-> opened,
   closed |-> closed, group |-> group, exit |-> exit]
Columns == {"action", "trade_group", "exit_reason"}
OldDb ==
  [columns |-> {"action", "trade_group"}, canonical |-> FALSE, positions |-> "legacy", indexes |-> {},
   dead |-> TRUE, reconciliation |-> "legacy", version |-> 0]
NewDb ==
  [columns |-> Columns, canonical |-> TRUE, positions |-> "canonical", indexes |-> {"trades", "positions"},
   dead |-> FALSE, reconciliation |-> "none", version |-> 0]
OldRows ==
  {MaintRow(1, 1, "open", "closed", 0, 1, 0, 1, FALSE), MaintRow(2, 0, "close", "closed", 2, 2, 0, 1, TRUE),
   MaintRow(3, 3, "open", "closed", -1, 2, 0, 2, TRUE), MaintRow(4, 0, "open", "open", 0, 2, 0, 3, FALSE),
   MaintRow(5, 5, "reduce", "closed", 1, 1, 1, 1, TRUE)}
NewFile == [db |-> NewDb, rows |-> {MaintRow(1, 1, "open", "open", 0, 2, 0, 1, FALSE)}]
MaintFiles == {NewFile, [db |-> OldDb, rows |-> OldRows]}
SmallMaint == [files |-> MaintFiles, now |-> 3, retention |-> 1, maxCrashes |-> 2, maxWork |-> 3]

(* --- news, its judgement and the alerts --- *)
AddedRule == [id |-> "added", kind |-> "update", cooldown |-> 1, enabled |-> TRUE, broken |-> FALSE, fired |-> 0]
NewsRules ==
  <<[AddedRule EXCEPT !.id = "all", !.kind = "any", !.cooldown = 0],
    [AddedRule EXCEPT !.id = "odd", !.kind = "any", !.broken = TRUE],
    [AddedRule EXCEPT !.id = "news", !.kind = "alert"]>>
SmallNews ==
  [symbols |-> <<"btc">>, votes |-> {1}, rules |-> NewsRules, newRule |-> AddedRule, cooldown |-> 2,
   maxBatch |-> 2, maxArticles |-> 2, maxEdits |-> 1, lastTime |-> 1]

(* --- the backtest page --- *)
SmallBench ==
  [browsers |-> {"b"}, fees |-> {4, 5}, storedFee |-> 4, keep |-> 0, maxRuns |-> 2, lastTime |-> 1,
   maxActs |-> 1]

(* --- the settings and their files --- *)
FullFiles ==
  [config |-> [state |-> "there", values |-> [testnet |-> "live", mode |-> "semi_auto", news |-> "own"]],
   risk |-> [state |-> "there", values |-> [limits |-> "loose"]],
   secrets |-> [state |-> "there", values |-> [key |-> "stored"]]]
NoFile == [state |-> "absent", values |-> [k \in {} |-> 0]]
SetContents == {FullFiles, [f \in {"config", "risk", "secrets"} |-> NoFile]}
SmallSet ==
  [environment |-> "none", empty |-> "none", contents |-> SetContents, maxSaves |-> 2, maxCrashes |-> 1]

(* --- all of them ------------------------------------------------------------- *)
ASSUME OthersAssumption == Test!BacktestAssumption

OthersChoice ==
  \/ turn = "test" /\ Test!Init /\ Free10
  \/ turn = "bars" /\ Bars!BarsInit /\ Free6
  \/ turn = "ohlc" /\ Ohlc!CandleInit /\ Free13
  \/ turn = "scr" /\ Scr!ScrInit /\ Free9
  \/ turn = "breadth" /\ Breadth!BreadthInit /\ Free8

OthersMove ==
  \/ MoveTest \/ MoveBars \/ MoveOhlc \/ MoveScr \/ MoveBreadth

\* SpecBeside(OthersChoice, OthersMove), in the form TLC takes.
PartsSpec == PartsInit(OthersChoice) /\ [][PartsNext(OthersMove)]_partsVars

\* The gate alone.
GateSpec ==
  /\ Init /\ turn = "gate" /\ Gate!GateInit /\ Free5
  /\ [][MoveGate /\ UNCHANGED vars]_partsVars

(* --- properties ------------------------------------------------------------- *)
\* The cash of a ledger and what its positions tie up are the initial balance and
\* every profit booked, and a genome of a chunk earns what it earns alone
\* (backtest/engine.py, per_genome_ledger).
BacktestAddsUp ==
  turn = "test" => Test!LedgerExplained /\ Test!GenomesIsolated

\* A request executed by the hybrid engine gets the book the legacy engine would
\* have given it, where the two promise the same (backtest/hybrid.py).
EnginesAgree ==
  turn = "test" => Test!EnginesAgree

\* Data is what was received: one row for a bar (ohlcv_cache.py:521), bars of a
\* restored builder as of the whole stream (volume_bars.py:417), breadth that was seen
\* (breadth.py:590), and no clean rating of a token nobody measured (screener.py:386);
\* and one crawl at a time asks for it (screener.py:732).
DataIsWhatWasSeen ==
  /\ turn = "ohlc" => Ohlc!OneRowPerBar
  /\ turn = "bars" => Bars!StreamEqualsBatch
  /\ turn = "breadth" => Breadth!OnlyWhatWasSeen
  /\ turn = "scr" => Scr!CleanMeansMeasured /\ Scr!OneCrawlPerKey

\* What is past stays: labels of earlier bars (regime.py:507), bars of the volume clock
\* and the calendar (volume_bars.py:566), lines of the breadth series (breadth.py:77),
\* bars of the candle file for whoever unites with it (ohlcv_cache.py:6), the progress of a generation
\* (fitness.py:1814), and the peak of a week that is not over (circuit_breaker.py:84).
ThePastStays ==
  [][/\ turn = "reg" => Reg!EarlierLabelsStay
     /\ turn = "bars" => Bars!ClosedBarsNeverChange
     /\ turn = "breadth" => Breadth!EarlierLinesStay
     /\ turn = "ohlc" => Ohlc!HistoryIsNeverTruncated
     /\ turn = "score" => Score!ProgressOnlyGrows
     /\ turn = "breaker" => WeekPeakHolds]_partsVars

\* A model the gate allows pays at the cost its fills will be charged: the gate "can
\* never gate on a cheaper cost than the one the fills actually pay" (credibility.py:12).
AllowedPaysTheFills ==
  turn = "gate" => Gate!AllowedPaysTheFills
=============================================================================
