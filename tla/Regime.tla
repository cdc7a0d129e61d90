-------------------------------- MODULE Regime --------------------------------
(*************************************************************************)
(* Market regimes (core/strategy/regime.py): the table of a frame that   *)
(* grows bar by bar, its three columns, and the gate that reads the last *)
(* row.  Tercile and trend columns are computed; of the hidden Markov    *)
(* model a label is what it was computed from, the numerics of EM being  *)
(* outside: a posterior names the bars it saw and the fit, a fit its     *)
(* window and the dispersions in EM's arbitrary order. Positions of the  *)
(* model count from 0, bars of the frame from 1: the first return is     *)
(* missing, so position p is bar p + 2.                                  *)
(*************************************************************************)
EXTENDS Integers, Sequences, FiniteSets, SequencesExt

CONSTANTS Closes,       \* prices a bar may close at
          VolWindow, MinPeriods, Fast, Slow, MinRegimeRows,
          MinRows, Warmup, RefitEvery, MaxRows,
          Allowed,      \* the regimes the strategy's kind may trade in
          MaxBars            \* bound: bars of the frame

RegimeAssumption ==
  /\ {VolWindow, MinPeriods, MinRows, RefitEvery} \subseteq Nat \ {0}
  /\ {Fast, Slow, MinRegimeRows, Warmup, MaxRows, MaxBars} \subseteq Nat

VARIABLES closes,       \* the frame
          gating,       \* REGIME_GATING_ENABLED
          table,        \* the last row of the table as last made, and its flags
          answer        \* what the gate last said, and of which bar

regimeVars == <<closes, gating, table, answer>>

NoAnswer == [bar |-> 0, regime |-> <<>>, allowed |-> TRUE]
NoTable == [bar |-> 0, regime |-> <<>>, hmm |-> <<>>, present |-> FALSE, causal |-> TRUE]
RegimeInit == closes = <<>> /\ gating = FALSE /\ table = NoTable /\ answer = NoAnswer

(* --- volatility terciles: thresholds from the bars before --------------------------- *)
(* The spread of the last returns stands for their standard deviation.                  *)
Returns(cs, t) == { i \in Max({2, t - VolWindow + 1})..t : TRUE }
HasVol(cs, t) == Cardinality(Returns(cs, t)) >= MinPeriods
Vol(cs, t) ==
  LET r == { cs[i] - cs[i - 1] : i \in Returns(cs, t) } IN Max(r) - Min(r)

Before(cs, t) == SelectSeq([i \in 1..(t - 1) |-> i], LAMBDA i : HasVol(cs, i))
UpToIt(cs, t) == SelectSeq([i \in 1..Len(cs) |-> i], LAMBDA i : HasVol(cs, i))
Known(cs, t) == Before(cs, t)

(* Three times the k-th tercile, interpolated as pandas does. *)
Tercile(cs, t, k) ==
  LET known == Known(cs, t)
      s == SortSeq([i \in DOMAIN known |-> Vol(cs, known[i])], <)
      at == (Len(s) - 1) * k
      i == at \div 3 + 1
  IN 3 * s[i] + IF at % 3 = 0 THEN 0 ELSE (at % 3) * (s[i + 1] - s[i])

VolRegime(cs, t) ==
  IF ~HasVol(cs, t) \/ Len(Known(cs, t)) < MinPeriods THEN "unknown"
  ELSE IF 3 * Vol(cs, t) <= Tercile(cs, t, 1) THEN "low"
  ELSE IF 3 * Vol(cs, t) <= Tercile(cs, t, 2) THEN "mid" ELSE "high"

(* --- trend: two exponential averages, times (span + 1)^(t - 1) ----------------------- *)
Ema(cs, span) ==
  LET ema[t \in DOMAIN cs] ==
        IF t = 1 THEN cs[1] ELSE (span - 1) * ema[t - 1] + 2 * cs[t] * (span + 1)^(t - 2)
  IN [t \in DOMAIN cs |-> ema[t] * (span + 1)]

TrendRegime(cs, t) ==
  LET slow == Ema(cs, Slow)[t] * (Fast + 1)^t
      fast == Ema(cs, Fast)[t] * (Slow + 1)^t
      close == cs[t] * (Fast + 1)^t * (Slow + 1)^t
  IN IF t <= MinRegimeRows THEN "range"
     ELSE IF close > slow /\ fast > slow THEN "trend_up"
     ELSE IF close < slow /\ fast < slow THEN "trend_down" ELSE "range"

(* What the gate reads: the trend, or the volatility inside a range. *)
Composite(cs, t) ==
  IF TrendRegime(cs, t) = "range" THEN <<"range", VolRegime(cs, t)>> ELSE <<TrendRegime(cs, t)>>

(* --- the hidden Markov model ------------------------------------------------------------ *)
Unlabelled == <<>>

(* A fit sees the positions from..(upto - 1); which of its states is calm is arbitrary. *)
Fit(from, upto) ==
  [from |-> from, upto |-> upto, sigma |-> IF upto % 2 = 0 THEN <<1, 2>> ELSE <<2, 1>>]

(* The posterior of a state given the positions from..upto. *)
Posterior(fit, from, upto) == [k \in {1, 2} |-> [saw |-> <<from, upto>>, fit |-> fit, state |-> k]]
ForwardOnly(fit, start, j, end) == Posterior(fit, start, start + j)
WithBackwardPass(fit, start, j, end) == Posterior(fit, start, end - 1)
Forward(fit, start, j, end) == ForwardOnly(fit, start, j, end)

(* State 1 is the calm one, whatever EM called it. *)
Ordered(post) ==
  LET order == IF post[1].fit.sigma[1] <= post[1].fit.sigma[2] THEN <<1, 2>> ELSE <<2, 1>>
  IN [k \in {1, 2} |-> post[order[k]]]

(* The row of the buffer a bar of the segment is read from. *)
OwnRow(tt, t, start) == tt - start
RowOfSegment(tt, t, start) == tt - t
RowOf(tt, t, start) == OwnRow(tt, t, start)

Limit == Max({MaxRows, MinRows})
PastWindow(t) == Fit(Max({0, t - Limit}), t)
WindowWithItself(t) == Fit(Max({0, t - Limit}), t + 1)
Window(t) == PastWindow(t)

Refits(t, fit) ==
  /\ fit = Unlabelled \/ (t >= Warmup /\ (t - Warmup) % RefitEvery = 0)
  /\ t >= MinRows
SegmentEnd(t, n) ==
  LET end == IF t < Warmup THEN Warmup
             ELSE IF Warmup = 0 THEN t + RefitEvery
             ELSE Warmup + ((t - Warmup) \div RefitEvery + 1) * RefitEvery
  IN Min({n, Max({end, t + 1})})

(* hmm_two_state_causal: from position t on, with the fit in force. *)
CausalLabels(n) ==
  LET walk[from \in (0..n) \X (-1..n)] ==
        LET t == from[1]
            fitAt == from[2]
            held == IF fitAt < 0 THEN Unlabelled ELSE Window(fitAt)
            now == IF Refits(t, held) THEN t ELSE fitAt
            end == SegmentEnd(t, n)
            start == Max({0, t - Limit})
            label(tt) == [post |-> Ordered(Forward(Window(now), start, RowOf(tt, t, start), end)),
                          told |-> tt >= Warmup]
        IN IF t = n THEN <<>>
           ELSE IF now < 0 THEN <<Unlabelled>> \o walk[<<t + 1, now>>]
           ELSE [k \in 1..(end - t) |-> label(t + k - 1)] \o walk[<<end, now>>]
  IN IF n < MinRows THEN [k \in 1..n |-> Unlabelled] ELSE walk[<<0, -1>>]

(* hmm_two_state: one fit of the last rows, and a path through all of them. *)
WholeLabels(n) ==
  LET first == Max({0, n - MaxRows})
  IN [k \in 1..n |-> IF k <= first \/ n - first < MinRows THEN Unlabelled
                     ELSE [post |-> Ordered(Posterior(Fit(first, n), first, n - 1)), told |-> TRUE]]

(* The model's series is a bar shorter than the frame, and put back on its index. *)
OnTheFrame(labels) == <<Unlabelled>> \o labels
HmmColumn(cs, causal) ==
  IF cs = <<>> THEN <<>>
  ELSE OnTheFrame(IF causal THEN CausalLabels(Len(cs) - 1) ELSE WholeLabels(Len(cs) - 1))

(* --- classify_regimes and the gate -------------------------------------------------------- *)
(* causal_hmm left out means: as the switch says at this moment.                            *)
Classify ==
  /\ closes # <<>>
  /\ \E with \in BOOLEAN, asked \in {"asSwitched", "causal", "whole"} :
       LET causal == asked = "causal" \/ (asked = "asSwitched" /\ gating)
       IN table' = [bar |-> Len(closes), regime |-> Composite(closes, Len(closes)),
                    hmm |-> IF with THEN Last(HmmColumn(closes, causal)) ELSE Unlabelled,
                    present |-> with, causal |-> ~with \/ causal]
  /\ UNCHANGED <<closes, gating, answer>>

(* check_table. *)
Refused(t, requireCausal) == gating /\ requireCausal /\ t.present /\ ~t.causal

(* gate_row on the last row; an empty table is allowed. *)
Ask ==
  /\ \E requireCausal \in BOOLEAN :
       /\ ~Refused(table, requireCausal)
       /\ answer' = IF table.bar = 0 THEN NoAnswer
                    ELSE [bar |-> table.bar, regime |-> table.regime,
                          allowed |-> gating => table.regime \in Allowed]
  /\ UNCHANGED <<closes, gating, table>>

Switch == gating' = ~gating /\ UNCHANGED <<closes, table, answer>>

Arrive ==
  /\ Len(closes) < MaxBars
  /\ \E c \in Closes : closes' = Append(closes, c)
  /\ UNCHANGED <<gating, table, answer>>

RegimeNext == Arrive \/ Classify \/ Ask \/ Switch

(* --- properties ------------------------------------------------------------------------- *)
(* Appending bars changes no earlier label of any causal column, and so no row the gate     *)
(* has been asked about reads otherwise later (regime.py:507).                               *)
EarlierLabelsStay ==
  LET now == [t \in DOMAIN closes' |-> Composite(closes', t)]
      labels == HmmColumn(closes', TRUE)
      old == HmmColumn(closes, TRUE)
  IN /\ closes' # closes =>
          \A t \in DOMAIN closes : now[t] = Composite(closes, t) /\ labels[t] = old[t]
     /\ answer' # answer => answer'.regime = now[answer'.bar]

(* The label of a bar is the posterior of that bar, with its calm state first, under a fit  *)
(* that saw only bars before it, and no bar is named before the warm-up (regime.py:483).    *)
LabelIsOfItsBar ==
  LET labels == HmmColumn(closes, TRUE)
  IN \A t \in DOMAIN closes : labels[t] # Unlabelled =>
       LET post == labels[t].post sigma == post[1].fit.sigma
       IN /\ post[1].saw[2] = t - 2 /\ post[1].fit.upto <= t - 2
          /\ sigma[post[1].state] <= sigma[post[2].state]
          /\ labels[t].told => t - 2 >= Warmup

\* The frame is a series of closes.
RegimeInv == closes \in Seq(Closes)
=============================================================================
