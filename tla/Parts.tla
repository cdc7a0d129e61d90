-------------------------------- MODULE Parts --------------------------------
(*************************************************************************)
(* The parts of the program there are theorems about that have no module *)
(* of theorems of their own, side by side: the circuit breaker, the      *)
(* engine judging its strategies, their lifecycle, the advice of the     *)
(* model, the orchestrator, the request budgets, the start of the        *)
(* database, the settings, the trading page, news with the alerts, the   *)
(* backtest page, pairs trading, the composite study, the breeding and   *)
(* scoring of genomes, the gate on a trained model, its predictions, and *)
(* regime labels.                                                        *)
(*                                                                       *)
(* They share no state, so a behaviour is one of one part, chosen at the *)
(* start; the breaker keeps its own variables, which stand still in the  *)
(* behaviours of the others, and all the others keep theirs in the same  *)
(* cells: the reachable states are those of the parts side by side.      *)
(* Module MCParts adds the parts that are only model-checked.            *)
(*************************************************************************)
EXTENDS Breaker

CONSTANTS
  \* For each part a record of its constants.
  SigSetup, LifeSetup, AdvSetup, OrcSetup, ThrSetup, MaintSetup, SetSetup, PageSetup,
  NewsSetup, BenchSetup, PairSetup, StudySetup, GeneSetup, ScoreSetup,
  GateSetup, PredSetup, RegSetup

VARIABLES
  turn,    \* the part this behaviour is of
  c1, c2, c3, c4, c5, c6, c7, c8, c9, c10, c11, c12, c13, c14

cells == <<c1, c2, c3, c4, c5, c6, c7, c8, c9, c10, c11, c12, c13, c14>>
partsVars == <<turn, cells, vars>>

\* The cells a part has no use for stay empty.
Free14 == c14 = 0
Free13 == c13 = 0 /\ Free14
Free12 == c12 = 0 /\ Free13
Free11 == c11 = 0 /\ Free12
Free10 == c10 = 0 /\ Free11
Free9 == c9 = 0 /\ Free10
Free8 == c8 = 0 /\ Free9
Free7 == c7 = 0 /\ Free8
Free6 == c6 = 0 /\ Free7
Free5 == c5 = 0 /\ Free6
Free4 == c4 = 0 /\ Free5
Free3 == c3 = 0 /\ Free4
Free2 == c2 = 0 /\ Free3
Free1 == c1 = 0 /\ Free2
Rest14 == <<c14>>
Rest13 == <<c13, Rest14>>
Rest12 == <<c12, Rest13>>
Rest11 == <<c11, Rest12>>
Rest10 == <<c10, Rest11>>
Rest9 == <<c9, Rest10>>
Rest8 == <<c8, Rest9>>
Rest7 == <<c7, Rest8>>
Rest6 == <<c6, Rest7>>
Rest5 == <<c5, Rest6>>
Rest4 == <<c4, Rest5>>

\* The circuit breaker: its own variables.
MoveBreaker ==
  turn = "breaker" /\ Next /\ UNCHANGED <<turn, cells>>

\* The engine judging its strategies.
Sig == INSTANCE Signals WITH
  table <- c1, position <- c2, reduced <- c3, walk <- c4, wire <- c5, changes <- c6,
  Strategies <- SigSetup.strategies, Verdicts <- SigSetup.verdicts,
  MaxReduces <- SigSetup.maxReduces, Restored <- SigSetup.restored,
  MaxChanges <- SigSetup.maxChanges
MoveSig ==
  turn = "sig" /\ Sig!SignalNext /\ UNCHANGED <<turn, Rest7>>

\* Strategies retired, tuned and added by the model.
Life == INSTANCE Lifecycle WITH
  file <- c1, engine <- c2, aiMode <- c3, due <- c4, pass <- c5, edits <- c6, rounds <- c7,
  Names <- LifeSetup.names, Newborn <- LifeSetup.newborn, Coins <- LifeSetup.coins,
  Losses <- LifeSetup.losses, MaxEdits <- LifeSetup.maxEdits, MaxRounds <- LifeSetup.maxRounds
MoveLife ==
  turn = "life" /\ Life!LifeNext /\ UNCHANGED <<turn, Rest8>>

\* What the model advises.
Adv == INSTANCE Advice WITH
  autonomy <- c1, knows <- c2, params <- c3, watch <- c4, rows <- c5, asking <- c6,
  review <- c7, touches <- c8, Picks <- AdvSetup.picks, Params <- AdvSetup.params,
  NoNumbers <- AdvSetup.noNumbers, Reckless <- AdvSetup.reckless, Tradable <- AdvSetup.tradable,
  Default <- AdvSetup.default, MaxRows <- AdvSetup.maxRows, MaxTouches <- AdvSetup.maxTouches
MoveAdv ==
  turn = "adv" /\ Adv!AdviceNext /\ UNCHANGED <<turn, Rest9>>

\* The orchestrator.
Orc == INSTANCE Orchestra WITH
  rules <- c1, strat <- c2, vols <- c3, shares <- c4, bar <- c5, verdict <- c6, feeds <- c7,
  Variants <- OrcSetup.variants, Words <- OrcSetup.words, RawRules <- OrcSetup.rules,
  Samples <- OrcSetup.samples, LastBar <- OrcSetup.lastBar, MaxFeeds <- OrcSetup.maxFeeds
MoveOrc ==
  turn = "orc" /\ Orc!OrcNext /\ UNCHANGED <<turn, Rest8>>

\* The request budgets of the web routes.
Thr == INSTANCE Throttle WITH
  hits <- c1, clock <- c2, charged <- c3, served <- c4, Users <- ThrSetup.users,
  Families <- ThrSetup.families, Aggregate <- ThrSetup.aggregate, Limits <- ThrSetup.limits,
  Window <- ThrSetup.window, MaxUsers <- ThrSetup.maxUsers, LastTime <- ThrSetup.lastTime
MoveThr ==
  turn = "thr" /\ Thr!ThrNext /\ UNCHANGED <<turn, Rest5>>

\* The database from start to clean-up.
Maint == INSTANCE Maintenance WITH
  db <- c1, trades <- c2, balance <- c3, phase <- c4, read <- c5, reconciled <- c6,
  books <- c7, crashes <- c8, work <- c9, Files <- MaintSetup.files, Now <- MaintSetup.now,
  Retention <- MaintSetup.retention, MaxCrashes <- MaintSetup.maxCrashes,
  MaxWork <- MaintSetup.maxWork
MoveMaint ==
  turn = "maint" /\ Maint!MaintNext /\ UNCHANGED <<turn, Rest10>>

\* The settings and their files.
Set == INSTANCE Settings WITH
  memory <- c1, files <- c2, up <- c3, saved <- c4, wanted <- c5, saves <- c6, crashes <- c7,
  Environment <- SetSetup.environment, Empty <- SetSetup.empty,
  Contents <- SetSetup.contents, MaxSaves <- SetSetup.maxSaves, MaxCrashes <- SetSetup.maxCrashes
MoveSet ==
  turn = "set" /\ Set!SettingsNext /\ UNCHANGED <<turn, Rest8>>

\* The trading page.
Browser == INSTANCE TradePage WITH
  symbol <- c1, interval <- c2, shown <- c3, form <- c4, estimate <- c5, search <- c6,
  sequence <- c7, flights <- c8, posting <- c9, hidden <- c10, acts <- c11,
  Symbols <- PageSetup.symbols, First <- PageSetup.first, Intervals <- PageSetup.intervals,
  Initial <- PageSetup.initial, Queries <- PageSetup.queries, MaxFlights <- PageSetup.maxFlights,
  MaxSent <- PageSetup.maxSent, MaxActs <- PageSetup.maxActs
MovePage ==
  turn = "page" /\ Browser!PageNext /\ UNCHANGED <<turn, Rest12>>

\* News, its judgement and the alerts.
News == INSTANCE Newsroom WITH
  tasks <- c1, fetchedAt <- c2, ema <- c3, judged <- c4, unsaid <- c5, queue <- c6,
  seen <- c7, rules <- c8, file <- c9, walk <- c10, now <- c11, articles <- c12, edits <- c13,
  Symbols <- NewsSetup.symbols, Votes <- NewsSetup.votes, Rules <- NewsSetup.rules,
  NewRule <- NewsSetup.newRule, Cooldown <- NewsSetup.cooldown, MaxBatch <- NewsSetup.maxBatch,
  MaxArticles <- NewsSetup.maxArticles, MaxEdits <- NewsSetup.maxEdits, LastTime <- NewsSetup.lastTime
MoveNews ==
  turn = "news" /\ News!NewsNext /\ UNCHANGED <<turn, Rest14>>

\* The backtest page.
Bench == INSTANCE Desk WITH
  runs <- c1, engine <- c2, fee <- c3, tabs <- c4, records <- c5, files <- c6, lastId <- c7,
  now <- c8, acts <- c9, Browsers <- BenchSetup.browsers, Fees <- BenchSetup.fees,
  StoredFee <- BenchSetup.storedFee, Keep <- BenchSetup.keep, MaxRuns <- BenchSetup.maxRuns,
  LastTime <- BenchSetup.lastTime, MaxActs <- BenchSetup.maxActs
MoveBench ==
  turn = "bench" /\ Bench!DeskNext /\ UNCHANGED <<turn, Rest10>>

\* A traded pair and its cointegration test.
Pair == INSTANCE Pairs WITH
  nulls <- c1, tested <- c2, pair <- c3, zs <- c4, held <- c5, stopped <- c6, tests <- c7,
  Scores <- PairSetup.scores, NoScore <- PairSetup.noScore, ZEntry <- PairSetup.zEntry,
  ZExit <- PairSetup.zExit, ZStop <- PairSetup.zStop, Lengths <- PairSetup.lengths,
  SimMin <- PairSetup.simMin, SimMax <- PairSetup.simMax, MinObs <- PairSetup.minObs,
  HalfLives <- PairSetup.halfLives, NoHalfLife <- PairSetup.noHalfLife,
  MinHalfLife <- PairSetup.minHalfLife, MaxHalfLife <- PairSetup.maxHalfLife,
  LookbackMult <- PairSetup.lookbackMult, MinLookback <- PairSetup.minLookback,
  MaxLookback <- PairSetup.maxLookback, MaxLag <- PairSetup.maxLag,
  NullMax <- PairSetup.nullMax, MaxWork <- PairSetup.maxWork
MovePair ==
  turn = "pair" /\ Pair!PairsNext /\ UNCHANGED <<turn, Rest8>>

\* The composite study and the hold-out window.
Study == INSTANCE Composite WITH
  market <- c1, allowed <- c2, arms <- c3, stage <- c4, registry <- c5, artifacts <- c6,
  looks <- c7, runs <- c8, Children <- StudySetup.children, Grid <- StudySetup.grid,
  Curves <- StudySetup.curves, TradeLists <- StudySetup.tradeLists,
  LabelAt <- StudySetup.labelAt, MaxRuns <- StudySetup.maxRuns
MoveStudy ==
  turn = "study" /\ Study!StudyNext /\ UNCHANGED <<turn, Rest9>>

\* Genomes bred, decoded and published.
Gene == INSTANCE GenePool WITH
  job <- c1, pop <- c2, bred <- c3, Intervals <- GeneSetup.intervals,
  Conditions <- GeneSetup.conditions, GeneJobs <- GeneSetup.jobs, GeneSeeds <- GeneSetup.seeds,
  MaxBred <- GeneSetup.maxBred
MoveGene ==
  turn = "gene" /\ Gene!GeneNext /\ UNCHANGED <<turn, Rest4>>

\* A generation scored by worker processes.
Score == INSTANCE Scorers WITH
  evalPhase <- c1, evidence <- c2, threaded <- c3, listened <- c4, worker <- c5, ticks <- c6,
  doneByChunk <- c7, completed <- c8, results <- c9, paths <- c10, Genomes <- ScoreSetup.genomes,
  MaxWorkers <- ScoreSetup.maxWorkers, OpenTrades <- ScoreSetup.openTrades, Evidences <- ScoreSetup.evidences
MoveScore ==
  turn = "score" /\ Score!ScoreNext /\ UNCHANGED <<turn, Rest11>>

\* The gate on a trained model.
Gate == INSTANCE Credibility WITH
  rows <- c1, bnb <- c2, folds <- c3, gate <- c4, LastBar <- GateSetup.lastBar,
  Frames <- GateSetup.frames, Answers <- GateSetup.answers, Folds <- GateSetup.folds,
  Span <- GateSetup.span, Embargo <- GateSetup.embargo, MinTrain <- GateSetup.minTrain,
  FitFloor <- GateSetup.fitFloor, CalFloor <- GateSetup.calFloor,
  MinCalRows <- GateSetup.minCalRows, MinTrades <- GateSetup.minTrades,
  StreamFloor <- GateSetup.streamFloor, Fee <- GateSetup.fee, Edge <- GateSetup.edge,
  Overrides <- GateSetup.overrides
MoveGate ==
  turn = "gate" /\ Gate!GateNext /\ UNCHANGED <<turn, Rest5>>

\* Predictions of the model in use.
Pred == INSTANCE Predictor WITH
  trained <- c1, disk <- c2, step <- c3, live <- c4, contract <- c5, last <- c6, queued <- c7,
  cached <- c8, verdict <- c9, reader <- c10, crashes <- c11,
  MaxTrainings <- PredSetup.maxTrainings, MaxBars <- PredSetup.maxBars,
  MaxCrashes <- PredSetup.maxCrashes, Contracts <- PredSetup.contracts, Bases <- PredSetup.bases,
  Thresholds <- PredSetup.thresholds, Probabilities <- PredSetup.probabilities
MovePred ==
  turn = "pred" /\ Pred!PredNext /\ UNCHANGED <<turn, Rest12>>

\* Regime labels.
Reg == INSTANCE Regime WITH
  closes <- c1, gating <- c2, table <- c3, answer <- c4, Closes <- RegSetup.closes,
  VolWindow <- RegSetup.volWindow, MinPeriods <- RegSetup.minPeriods, Fast <- RegSetup.fast,
  Slow <- RegSetup.slow, MinRegimeRows <- RegSetup.minRegimeRows, MinRows <- RegSetup.minRows,
  Warmup <- RegSetup.warmup, RefitEvery <- RegSetup.refitEvery, MaxRows <- RegSetup.maxRows,
  Allowed <- RegSetup.allowed, MaxBars <- RegSetup.maxBars
MoveReg ==
  turn = "reg" /\ Reg!RegimeNext /\ UNCHANGED <<turn, Rest5>>

ASSUME PartsAssumption ==
  /\ BreakerAssumption
  /\ Life!LifecycleAssumption
  /\ Adv!AdviceAssumption
  /\ News!NewsroomAssumption
  /\ Thr!ThrottleAssumption
  /\ Maint!MaintenanceAssumption
  /\ Set!SettingsAssumption
  /\ Pair!PairsAssumption
  /\ Study!StudyAssumption
  /\ Gene!GenePoolAssumption
  /\ Score!ScorersAssumption
  /\ Orc!OrchestraAssumption
  /\ Gate!CredibilityAssumption
  /\ Pred!PredictorAssumption
  /\ Reg!RegimeAssumption

Turns == {"breaker", "sig", "life", "adv", "orc", "thr", "maint", "set", "page", "news",
          "bench", "pair", "study", "gene", "score", "gate", "pred", "reg"}

PartsChoice ==
  \/ turn = "breaker" /\ Free1
  \/ turn = "sig" /\ Sig!SignalInit /\ Free7
  \/ turn = "life" /\ Life!LifeInit /\ Free8
  \/ turn = "adv" /\ Adv!AdviceInit /\ Free9
  \/ turn = "orc" /\ Orc!OrcInit /\ Free8
  \/ turn = "thr" /\ Thr!ThrInit /\ Free5
  \/ turn = "maint" /\ Maint!MaintInit /\ Free10
  \/ turn = "set" /\ Set!SettingsInit /\ Free8
  \/ turn = "page" /\ Browser!PageInit /\ Free12
  \/ turn = "news" /\ News!NewsInit /\ Free14
  \/ turn = "bench" /\ Bench!DeskInit /\ Free10
  \/ turn = "pair" /\ Pair!PairsInit /\ Free8
  \/ turn = "study" /\ Study!StudyInit /\ Free9
  \/ turn = "gene" /\ Gene!GeneInit /\ Free4
  \/ turn = "score" /\ Score!ScoreInit /\ Free11
  \/ turn = "gate" /\ Gate!GateInit /\ Free5
  \/ turn = "pred" /\ Pred!PredInit /\ Free12
  \/ turn = "reg" /\ Reg!RegimeInit /\ Free5

\* Beside these, any others that start and go on in some way of their own.
PartsInit(otherChoice) ==
  Init /\ (PartsChoice \/ (otherChoice /\ turn \notin Turns))

PartsNext(otherMove) ==
  \/ MoveBreaker
  \/ /\ \/ MoveSig \/ MoveLife \/ MoveAdv \/ MoveOrc \/ MoveThr \/ MoveMaint \/ MoveSet
        \/ MovePage \/ MoveNews \/ MoveBench \/ MovePair \/ MoveStudy \/ MoveGene \/ MoveScore
        \/ MoveGate \/ MovePred \/ MoveReg
        \/ otherMove /\ turn \notin Turns /\ UNCHANGED turn
     /\ UNCHANGED vars

SpecBeside(otherChoice, otherMove) ==
  PartsInit(otherChoice) /\ [][PartsNext(otherMove)]_partsVars

(* --- properties ------------------------------------------------------------- *)
\* What is limited stays so: one analysis at a time (strategy_lifecycle.py:291), and the
\* request budgets of every user (audit.py:52).
LimitsHold ==
  /\ turn = "life" => Life!OneAnalysisAtATime
  /\ turn = "thr" => Thr!BudgetsHold

\* What engine and operator see is true: every judgement of a coin is in its average
\* and reaches the engine in order (analyzer.py:201), a broken rule silences no other
\* (alerts/manager.py:39), the chart is of the chosen symbol (trade.html:496), and the
\* watchlist is never emptied by an answer (deepseek_ctl.py:115).
WhatIsShownIsTrue ==
  /\ turn = "news" => News!EveryJudgementCounts /\ News!EngineFollows /\ News!BrokenRuleSilencesNobody
  /\ turn = "page" => Browser!ChartIsOfTheSymbol
  /\ turn = "adv" => Adv!WatchlistNeverEmptied

\* What is stored says what happened: a program that is up has the present schema and
\* every row its id (database.py:512), a stored backtest is shown for its own record
\* (routes/backtest.py:396), and orders go to the exchange itself only if that was
\* asked for (settings.py:179).
StoreIsSound ==
  /\ turn = "maint" => Maint!UpMeansFresh /\ Maint!IdentityKept
  /\ turn = "bench" => Bench!FileIsOfItsRecord /\ Bench!RunningIsListed
  /\ turn = "set" => Set!LiveOnlyAsAsked

\* A study can be believed: a test meets the null of its own regression, a stopped
\* pair stands down and pays each round trip once (pairs.py:31, 68, 924), a composite
\* curve follows from its parts (composite.py:35), one artifact of a window at most is
\* its first (holdout.py:26), and a backtest no other one overlaps is priced with its
\* own figures (backtest/engine.py:354).
StudiesCanBeBelieved ==
  /\ turn = "pair" => Pair!NullMatchesTheTest /\ Pair!StandsDownAfterAStop /\ Pair!TradesPayOnce
  /\ turn = "study" => Study!CurveIsRecomputable /\ Study!OneFirstArtifact
  /\ turn = "bench" => Bench!AloneIsItsOwn

\* A genome trades as it was scored: its conditions can be evaluated, publishing and
\* seeding change nothing of it (genome.py:1170, 1453), and its score is the one of its
\* own ledger in one pass over its whole chunk, whichever worker died around it and
\* whichever sibling was refused (fitness.py:154, 1721).
GenomeTradesAsScored ==
  /\ turn = "gene" => Gene!ConditionsEvaluable /\ Gene!PublishedAsScored
  /\ turn = "score" => Score!ScoredInItsChunk

\* Nothing is decided from the future: a model is allowed on rows that share no bar
\* with what made it (evaluation.py:75), a bar is labelled by a fit on bars before it
\* (regime.py:581), breadth is looked up among earlier samples (orchestrator.py:948),
\* and a score is a call the gate vouched for (predictor.py:313).
NothingFromTheFuture ==
  /\ turn = "gate" => Gate!AllowedIsOutOfSample
  /\ turn = "reg" => Reg!LabelIsOfItsBar
  /\ turn = "orc" => Orc!BreadthIsNotFromTheFuture
  /\ turn = "pred" => Pred!ScoreIsAGatedCall

\* Only who may acts, as things are when it acts and not as they were when it asked: a
\* strategy manages its own position and does not enter where it would leave
\* (engine.py:554, 413), a retirement keeps the edits of the operator
\* (strategy_lifecycle.py:225), the model changes parameters in full_auto alone
\* (deepseek_ctl.py:407), and what losses stopped waits for another regime
\* (orchestrator.py:1081).
WhoMayActs ==
  /\ turn = "sig" => Sig!ManagesItsOwn /\ Sig!NoEntryIntoAnExit
  /\ turn = "life" => Life!RetireKeepsEdits
  /\ turn = "adv" => Adv!NoUnapprovedChange
  /\ turn = "orc" => Orc!KilledUntilTheRegimeTurns
OnlyWhoMayActs == [][WhoMayActs]_partsVars

\* Nothing stored is lost on the way: a start keeps every row (database.py:425), a save
\* of one part keeps the settings of the others (settings.py:58).
NothingIsLost ==
  /\ turn = "maint" => Maint!StartKeepsTheRows
  /\ turn = "set" => Set!OthersAreKept
OthersStay == [][NothingIsLost]_partsVars
=============================================================================
