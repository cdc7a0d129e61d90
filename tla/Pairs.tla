-------------------------------- MODULE Pairs --------------------------------
(*************************************************************************)
(* Pairs trading (core/strategy/pairs.py): a cointegration test read     *)
(* against a simulated null distribution from a cache, the guard, and    *)
(* the z-score machine that takes positions bar by bar, with the trades  *)
(* and costs made of them.  The regressions are open: what a test or a   *)
(* z-score comes to is a choice; a z-score is a number of quarters.      *)
(* Costs are counted in halves of a round trip.                          *)
(*************************************************************************)
EXTENDS Integers, Sequences, FiniteSets, FiniteSetsExt

CONSTANTS Scores,      \* z-scores in quarters, and NoScore
          NoScore,     \* a bar whose z is not finite
          ZEntry, ZExit, ZStop,
          Lengths,     \* sample sizes
          SimMin, SimMax,      \* range of the simulated length
          MinObs,      \* the guard's sample size
          HalfLives, NoHalfLife, MinHalfLife, MaxHalfLife,
          LookbackMult, MinLookback, MaxLookback,
          MaxLag,      \* candidate lags of the ADF regression are 0..MaxLag
          NullMax,     \* size of the cache of null distributions
          MaxWork      \* bound: bars, and tests at two each

PairsAssumption ==
  Scores \subseteq Int /\ NoScore \notin Scores /\ {ZEntry, ZExit, ZStop} \subseteq Int

VARIABLES nulls,     \* the cache: regressions whose null has been simulated
          tested,    \* the last test: the regression asked for, the null it was read against
          pair,      \* the fit: verdict of the guard, lookback
          zs,        \* the z-scores so far
          held,      \* the position per bar
          stopped,   \* the latch
          tests

pairsVars == <<nulls, tested, pair, zs, held, stopped, tests>>

NoTest == [asked |-> <<>>, used |-> <<>>]
NoPair == [allowed |-> FALSE, lookback |-> MaxLookback]

PairsInit ==
  /\ nulls = {} /\ tested = NoTest /\ pair = NoPair
  /\ zs = <<>> /\ held = <<>> /\ stopped = FALSE /\ tests = 0

Clip(x, lo, hi) == IF x < lo THEN lo ELSE IF x > hi THEN hi ELSE x

(* --- the test ------------------------------------------------------------------- *)
(* The lag with the least criterion, the smaller on a tie; 2 observations are too few    *)
(* for any.                                                                          *)
BestLag(aic) == Min({ l \in DOMAIN aic : \A k \in DOMAIN aic : aic[l] <= aic[k] })

(* A null is the one of the simulated length and the lags of the regression; the constant,  *)
(* which no test here has, is left out.  A full cache is emptied.                        *)
Null(n, lags) == [length |-> Clip(n, SimMin, SimMax), lags |-> lags]
Key(d) == d
KeyOfLength(d) == d.length
CacheKey(d) == Key(d)
Cached(d) == { e \in nulls : CacheKey(e) = CacheKey(d) }

Lookup(d) ==
  IF Cached(d) # {}
  THEN nulls' = nulls /\ tested' = [asked |-> d, used |-> CHOOSE e \in Cached(d) : TRUE]
  ELSE /\ nulls' = (IF Cardinality(nulls) >= NullMax THEN {} ELSE nulls) \cup {d}
       /\ tested' = [asked |-> d, used |-> d]

(* pair_guard: every precondition that fails is a reason; a negative hedge ratio passes. *)
Reasons(n, passes, halfLife, beta) ==
  (IF n < MinObs THEN {"short sample"} ELSE {})
  \cup (IF passes THEN {} ELSE {"not cointegrated"})
  \cup (IF halfLife = NoHalfLife \/ halfLife < MinHalfLife \/ halfLife > MaxHalfLife
        THEN {"half-life"} ELSE {})
  \cup (IF beta = 0 THEN {"hedge"} ELSE {})
Lookback(halfLife) ==
  IF halfLife = NoHalfLife THEN MaxLookback ELSE Clip(LookbackMult * halfLife, MinLookback, MaxLookback)

(* fit_pair: the null of the test's own lag only when asked for; the half-life is that of     *)
(* the tested spread, not of the filtered one.                                       *)
Fit ==
  /\ 2 * tests + 2 <= MaxWork /\ tests' = tests + 1 /\ zs = <<>>
  /\ \E n \in Lengths, aic \in [0..MaxLag -> 1..2], matched, passes \in BOOLEAN,
        halfLife \in HalfLives \cup {NoHalfLife}, beta \in {-1, 0, 1} :
       /\ Lookup(Null(n, IF matched THEN BestLag(aic) ELSE 0))
       /\ pair' = [allowed |-> Reasons(n, passes, halfLife, beta) = {}, lookback |-> Lookback(halfLife)]
  /\ UNCHANGED <<zs, held, stopped>>

(* --- the machine -------------------------------------------------------------------- *)
Abs(x) == IF x < 0 THEN -x ELSE x
Position == IF held = <<>> THEN 0 ELSE held[Len(held)]
Released(z) == stopped /\ Abs(z) < ZEntry
ReleasedAtOnce(z) == stopped
Unlatched(z) == Released(z)
Entered(z, latch) == IF latch THEN 0 ELSE IF z >= ZEntry THEN -1 ELSE IF z <= -ZEntry THEN 1 ELSE 0

(* pairs_positions: a bar without a score keeps the position; a bar that closes does not         *)
(* open again.                                                                          *)
Bar(z) ==
  LET latch == stopped /\ ~Unlatched(z)
  IN /\ Len(zs) + 2 * tests < MaxWork /\ tests > 0 /\ zs' = Append(zs, z)
     /\ IF z = NoScore THEN held' = Append(held, Position) /\ UNCHANGED stopped
        ELSE IF Position = 0
        THEN held' = Append(held, Entered(z, latch)) /\ stopped' = latch
        ELSE IF Abs(z) >= ZStop THEN held' = Append(held, 0) /\ stopped' = TRUE
        ELSE held' = Append(held, IF Abs(z) <= ZExit THEN 0 ELSE Position) /\ UNCHANGED stopped
     /\ UNCHANGED <<nulls, tested, pair, tests>>

(* --- returns and trades ------------------------------------------------------------------ *)
(* Half a round trip per change of position; the last bar has no return yet, and its charge     *)
(* is lost with it.                                                                      *)
HeldBefore(t) == IF t = 1 THEN 0 ELSE held[t - 1]
Charge(t) == IF t = Len(held) THEN 0 ELSE Abs(held[t] - HeldBefore(t))

(* pair_trades: a maximal run of one position and the bar that ends it. *)
Starts == { t \in DOMAIN held : held[t] # 0 /\ held[t] # HeldBefore(t) }
RunEnd(s) == Max({ t \in s..Len(held) : \A u \in s..t : held[u] = held[s] })
WithClosingBar(s) == IF RunEnd(s) < Len(held) THEN RunEnd(s) + 1 ELSE Len(held)
WithoutClosingBar(s) == RunEnd(s)
Exit(s) == WithClosingBar(s)
Trades == { s..Exit(s) : s \in Starts }
Charged(bars) == MapThenSumSet(Charge, bars)

PairsNext == Fit \/ \E z \in Scores \cup {NoScore} : Bar(z)

(* --- properties ------------------------------------------------------------------------------ *)
(* A test is read against the null of its own regression, whatever was simulated and             *)
(* thrown out of the cache before (pairs.py:31).                                             *)
NullMatchesTheTest == tested.used = tested.asked

(* After a stop no position is taken before a bar on which the spread is calm, and that           *)
(* bar itself takes none (pairs.py:68).                                                      *)
StoppedAt(s) == HeldBefore(s) # 0 /\ zs[s] # NoScore /\ Abs(zs[s]) >= ZStop
CalmAt(u) == zs[u] # NoScore /\ Abs(zs[u]) < ZEntry
StandsDownAfterAStop ==
  \A s, t \in DOMAIN held :
    s < t /\ StoppedAt(s) /\ held[t] # 0 /\ HeldBefore(t) = 0 => \E u \in (s + 1)..(t - 1) : CalmAt(u)

(* Every trade that has closed pays one round trip, and the trades together pay what the          *)
(* bars were charged (pairs.py:924: half of it was once dropped).                              *)
TradesPayOnce ==
  /\ \A bars \in Trades : Max(bars) < Len(held) => Charged(bars) = 2
  /\ Charged(DOMAIN held) = Charged(UNION Trades)
  /\ \A a, b \in Trades : a # b => a \cap b = {}

(* What is kept besides: one bar for one score; the latch stays after a stop, with nothing           *)
(* held, until a calm bar; and a position is closed before the opposite one is taken.              *)
PairsTypeOK ==
  /\ zs \in Seq(Scores \cup {NoScore}) /\ held \in Seq({-1, 0, 1}) /\ Len(zs) = Len(held)
  /\ stopped \in BOOLEAN
LatchedSince(s) == stopped /\ \A t \in s..Len(held) : held[t] = 0
LatchOutlastsTheStop ==
  \A s \in DOMAIN held : StoppedAt(s) => LatchedSince(s) \/ \E u \in (s + 1)..Len(held) : CalmAt(u)
ClosesFirst ==
  \A t \in DOMAIN held : HeldBefore(t) # 0 /\ held[t] # 0 => held[t] = HeldBefore(t)
PairsInv ==
  PairsTypeOK /\ NullMatchesTheTest /\ LatchOutlastsTheStop /\ StandsDownAfterAStop /\ ClosesFirst
=============================================================================
