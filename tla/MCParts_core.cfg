SPECIFICATION PartsSpec
CONSTANTS
  NoScore = NoScore
  NoHalfLife = NoHalfLife
  NoLock = NoLock
  SigSetup <- SmallSig
  LifeSetup <- SmallLife
  AdvSetup <- SmallAdv
  OrcSetup <- SmallOrc
  ThrSetup <- SmallThr
  MaintSetup <- SmallMaint
  SetSetup <- SmallSet
  PageSetup <- SmallPage
  NewsSetup <- SmallNews
  BenchSetup <- SmallBench
  PairSetup <- SmallPair
  StudySetup <- SmallStudy
  GeneSetup <- SmallGene
  ScoreSetup <- SmallScore
  GateSetup <- SmallGate
  PredSetup <- SmallPred
  RegSetup <- SmallReg
  Symbols = {"s1", "s2"}
  Nobody = "nobody"
  Amount = 6
  Results <- BreakerResults
  InitialCash = 100
  MaxDailyLoss = 3
  DayLimit = 7
  WeekLimit = 10
  MaxLosses = 2
  MaxCloses = 2
  FirstDay = 6
  MaxDay = 7
  MaxResets = 1
INVARIANT SettledEquity
INVARIANT PeaksInOrder
INVARIANT OneAlertPerTrip
INVARIANT BacktestAddsUp
INVARIANT EnginesAgree
INVARIANT GenomeTradesAsScored
INVARIANT NothingFromTheFuture
INVARIANT StudiesCanBeBelieved
INVARIANT DataIsWhatWasSeen
INVARIANT LimitsHold
INVARIANT WhatIsShownIsTrue
INVARIANT StoreIsSound
PROPERTY ThePastStays
PROPERTY OnlyWhoMayActs
PROPERTY OthersStay
CHECK_DEADLOCK FALSE
