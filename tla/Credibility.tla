---------------------------- MODULE Credibility ----------------------------
(* The gate a direction model passes before it may be used:               *)
(* core/ml/evaluation.py (purged folds), core/ml/credibility.py (the      *)
(* nested evaluation, the threshold search, the round-trip cost and the   *)
(* verdict) and core/ml/calibration.py (the isotonic fit).                *)
(*                                                                        *)
(* A bar is labelled up, down or flat; flat bars and bars whose forward   *)
(* window is not complete are dropped, and the splitter works on the      *)
(* positions of what is left.  A model is what it answers to an up bar    *)
(* and to a down bar, so fitting one chooses two probabilities (tenths);  *)
(* moves and costs are whole units, expectancies sums over trades.  The   *)
(* probabilistic Sharpe ratio (skew and kurtosis of real-valued returns)  *)
(* is a Boolean chosen with the verdict.                                  *)
EXTENDS Integers, Sequences, FiniteSets, FiniteSetsExt

CONSTANTS
  LastBar,          \* bars of the training frame
  Frames,           \* the labellings considered: 1..LastBar -> up/down/flat
  Answers,          \* probabilities a fitted model can give, in tenths
  Folds,            \* n_splits
  Span, Embargo,    \* label horizon and embargo, in rows
  MinTrain,         \* rows a fold must train on
  FitFloor,         \* a stream is held out only above this many fit rows (60)
  CalFloor,         \* ... and this many stream rows (20)
  MinCalRows,       \* rows a calibrator is fitted on
  MinTrades,        \* outer trades the gate asks for
  StreamFloor,      \* trades a stream threshold needs at least (50)
  Fee, Edge,        \* per side: taker fee, half spread plus slippage
  Overrides         \* values of ml.use_bnb_discount: "null", "on", "off"

CredibilityAssumption ==
  /\ {LastBar, Span, MinTrain} \subseteq Nat \ {0} /\ Folds \in Nat \ {0, 1}
  /\ {Embargo, FitFloor, CalFloor, MinCalRows, MinTrades, StreamFloor} \subseteq Nat
  /\ Frames \subseteq [1..LastBar -> {"up", "down", "flat"}]
  /\ {Fee, Edge} \subseteq Int

VARIABLES
  rows,      \* the rows left after dropping: their bars and whether price rose
  bnb,       \* sim.cost_model.use_bnb_discount and the ml override
  folds,     \* one record per evaluated fold, the splits skipped included
  gate       \* the verdict, or "open"

gateVars == <<rows, bnb, folds, gate>>

(* ------------------------------ the cost ------------------------------ *)

Discounted(fee) == (3 * fee) \div 4

\* sim_fee_pct: what a simulated fill pays.
FillFee == IF bnb.sim THEN Discounted(Fee) ELSE Fee

\* The gate's flag follows the sim setting unless ml.use_bnb_discount is set.
GateDiscount == IF bnb.ml = "null" THEN bnb.sim ELSE bnb.ml = "on"

\* round_trip_cost_pct_from_quote starts from the fee of the fills.
GateFee == IF GateDiscount THEN Discounted(FillFee) ELSE FillFee

Cost == 2 * (GateFee + Edge)
FillCost == 2 * (FillFee + Edge)

(* ------------------------- rows and purged folds ---------------------- *)

Kept(frame, b) == frame[b] # "flat" /\ b + Span <= LastBar
Rows(frame) ==
  LET upto[b \in 0..LastBar] ==
        IF b = 0 THEN <<>>
        ELSE IF Kept(frame, b) THEN Append(upto[b - 1], [bar |-> b, up |-> frame[b] = "up"])
        ELSE upto[b - 1]
  IN  upto[LastBar]

N == Len(rows)

\* Rows count from 0.
Bar(i) == rows[i + 1].bar
Up(i) == rows[i + 1].up
Move(i) == LET size == 60 + 10 * (Bar(i) % 2) IN IF Up(i) THEN size ELSE -size

\* Changed definition: the forward window is cut one row short.
EndsEarly(i) == Min({i + Span - 1, N - 1})

Ends(i) == Min({i + Span, N - 1})
Bound(f) == (f * N) \div Folds
Test(f) == Bound(f - 1)..Bound(f) - 1

Train(f) == {i \in 0..N - 1 : /\ ~(i < Bound(f - 1) /\ Ends(i) >= Bound(f - 1))
                             /\ i \notin Test(f)
                             /\ ~(i >= Bound(f) /\ i < Bound(f) + Embargo)}

Splits == IF N <= 2 * Folds THEN {} ELSE {f \in 1..Folds : Test(f) # {}}

Cut(f) == LET n == Cardinality(Train(f))
              c == (4 * n) \div 5
          IN  IF c < FitFloor \/ n - c < CalFloor THEN n ELSE c
\* The tail of the training rows is kept for calibrator and threshold.
Stream(f) == LET train == Train(f)
                 sorted == SelectSeq([k \in 1..N |-> k - 1], LAMBDA i : i \in train)
             IN  {sorted[k] : k \in Cut(f) + 1..Len(sorted)}

(* ------------------- calibration and the threshold -------------------- *)

Answer(m, i) == IF Up(i) THEN m.up ELSE m.down

\* An isotonic fit of two answers: they keep apart when they rank the classes
\* the right way round, and are pooled to the share of ups otherwise.
Fitted(m, s) ==
  LET ups == Cardinality({i \in s : Up(i)})
      n == Cardinality(s)
  IN  IF n < MinCalRows \/ ups \in {0, n} THEN m
      ELSE IF m.up > m.down THEN [up |-> 10, down |-> 0]
      ELSE [up |-> (10 * ups) \div n, down |-> (10 * ups) \div n]

Net(s, side) == MapThenSumSet(LAMBDA i : side * Move(i) - Cost, s)

Grid == 3..9
Longs(m, s, t) == {i \in s : Answer(m, i) >= t}
Shorts(m, s, t) == {i \in s : Answer(m, i) <= 10 - t}

FoldMinTrades(n) == Min({MinTrades, Max({StreamFloor, n \div 10})})

Nothing == [side |-> 0, at |-> 0, total |-> 0, count |-> 0]

\* A strictly better mean replaces the best so far; long is looked at first.
Better(c, best) ==
  /\ c.count > 0 /\ c.total > 0
  /\ best = Nothing \/ c.total * best.count > best.total * c.count

Candidates(m, s) ==
  [k \in 1..2 * Cardinality(Grid) |->
     LET t == 3 + ((k - 1) \div 2)
         side == IF k % 2 = 1 THEN 1 ELSE -1
         taken == IF side = 1 THEN Longs(m, s, t) ELSE Shorts(m, s, t)
     IN  [side |-> side, at |-> t, total |-> Net(taken, side), count |-> Cardinality(taken)]]

Search(m, s) ==
  LET cs == Candidates(m, s)
      best[k \in 0..Len(cs)] ==
        IF k = 0 THEN Nothing
        ELSE IF cs[k].count >= FoldMinTrades(Cardinality(s)) /\ Better(cs[k], best[k - 1])
             THEN cs[k] ELSE best[k - 1]
  IN  best[Len(cs)]

\* Both fields hold the grid point of the side that won.
Decides(m, s, c) ==
  CASE c.side = 1 -> {i \in s : Answer(m, i) >= c.at}
    [] c.side = -1 -> {i \in s : Answer(m, i) <= c.at}
    [] OTHER -> {}

(* ------------------------------ the steps ----------------------------- *)

GateInit ==
  /\ \E frame \in Frames : rows = Rows(frame)
  /\ bnb \in [sim : BOOLEAN, ml : Overrides]
  /\ folds = <<>>
  /\ gate = "open"

\* One fold: fit, calibrate on the stream, choose the threshold there, and
\* apply it to the rows of the fold.  A fold that trains on too little is skipped.
Fold ==
  /\ gate = "open"
  /\ Splits # {} /\ N >= MinTrain
  /\ Len(folds) < Folds
  /\ LET f == Len(folds) + 1 IN
     IF f \notin Splits \/ Cardinality(Train(f)) < MinTrain
     THEN folds' = Append(folds, [used |-> FALSE])
     ELSE \E raw \in [up : Answers, down : Answers] :
            LET s == Stream(f)
                m == Fitted(raw, s)
                c == Search(m, s)
            IN  folds' = Append(folds, [used |-> TRUE, raw |-> raw, fitted |-> m,
                                        choice |-> c, taken |-> Decides(m, Test(f), c)])
  /\ UNCHANGED <<rows, bnb, gate>>

Used == {f \in DOMAIN folds : folds[f].used}
Outer == UNION {Test(f) : f \in Used}
Taken == UNION {folds[f].taken : f \in Used}
FoldOf(i) == CHOOSE f \in Used : i \in Test(f)
RawOf(i) == Answer(folds[FoldOf(i)].raw, i)

\* Twice the pairs of an up and a down row the models rank rightly, ties once.
Ranked == MapThenSumSet(LAMBDA p : IF RawOf(p[1]) > RawOf(p[2]) THEN 2
                                   ELSE IF RawOf(p[1]) = RawOf(p[2]) THEN 1 ELSE 0,
                        {i \in Outer : Up(i)} \X {i \in Outer : ~Up(i)})
Pairings == Cardinality({i \in Outer : Up(i)}) * Cardinality({i \in Outer : ~Up(i)})
Ranks == IF Pairings = 0 THEN FALSE ELSE 50 * Ranked > 55 * Pairings

OuterNet(i) == folds[FoldOf(i)].choice.side * Move(i) - Cost
Total == MapThenSumSet(OuterNet, Taken)
Squares == MapThenSumSet(LAMBDA i : OuterNet(i) * OuterNet(i), Taken)

\* mean / (sd / sqrt(n)) > 2, the standard deviation not zero.
Significant ==
  LET n == Cardinality(Taken)
      spread == n * Squares - Total * Total
  IN  n > 1 /\ spread > 0 /\ Total > 0 /\ Total * Total * (n - 1) > 4 * spread

Decide ==
  /\ gate = "open"
  /\ IF Splits = {} \/ N < MinTrain THEN gate' = "refused"
     ELSE /\ Len(folds) = Folds
          /\ IF Used = {} THEN gate' = "refused"
             ELSE \E psr \in BOOLEAN :
                    gate' = IF /\ Ranks /\ Total > 0 /\ Cardinality(Taken) >= MinTrades
                               /\ Significant /\ psr
                            THEN "allowed" ELSE "refused"
  /\ UNCHANGED <<rows, bnb, folds>>

GateNext == Fold \/ Decide

(* ------------------------------ properties ---------------------------- *)

\* The bars whose close the label of row i was computed from.
Window(i) == Bar(i)..Bar(i) + Span

\* A model the gate allows earned its verdict out of sample: no row a fold's
\* model, calibrator or threshold was made from shares a bar with the label of
\* a row that threshold trades, although the purge counts rows and the labels
\* count bars; and those trades alone, one fold after the other, pay.
AllowedIsOutOfSample ==
  gate = "allowed" =>
    /\ \A f \in Used : \A i \in Train(f), j \in folds[f].taken : Window(i) \cap Window(j) = {}
    /\ MapThenSumSet(LAMBDA f : Net(folds[f].taken, folds[f].choice.side), Used) > 0

\* Rows are in the order of their bars, a fold trades rows of its own block alone, and the
\* verdict was passed on what the folds still are.
GateInv ==
  /\ rows \in Seq([bar : 1..LastBar, up : BOOLEAN])
  /\ \A i, j \in DOMAIN rows : i < j => rows[i].bar < rows[j].bar
  /\ Len(folds) \in 0..Folds /\ folds = [f \in 1..Len(folds) |-> folds[f]]
  /\ \A f \in Used : folds[f].taken \subseteq Test(f) /\ folds[f].choice.side \in {-1, 0, 1}
  /\ gate = "allowed" => Total > 0

\* A model the gate allows pays at the cost its fills will be charged: "the gate
\* can never gate on a cheaper cost than the one the fills actually pay"
\* (credibility.py:12).  The discount is taken off a fee that already had it
\* taken off, so a model that only pays at the cheaper cost is let through.
AllowedPaysTheFills ==
  gate = "allowed" /\ bnb.ml = "null" =>
    MapThenSumSet(LAMBDA i : folds[FoldOf(i)].choice.side * Move(i) - FillCost, Taken) > 0

\* The threshold a fold publishes trades the rows its expectancy was measured
\* on: "a short when p_up <= threshold_down (threshold_down = 1 - t)".
ThresholdIsTheBand ==
  \A f \in Used : LET c == folds[f].choice
                      m == folds[f].fitted
                  IN  c.side # 0 => Net(Decides(m, Stream(f), c), c.side) = c.total

=============================================================================
