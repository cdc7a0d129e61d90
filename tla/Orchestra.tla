------------------------------ MODULE Orchestra ------------------------------
(*************************************************************************)
(* The upper layer (core/ai/orchestrator.py): a state machine that is    *)
(* fed the labels of the market, volatility and breadth samples and      *)
(* closed trades, and says for each strategy whether it may enter.  Four *)
(* rules, each of which can only stop a strategy.  Volatility and shares *)
(* of risen coins are small integers; a raw configuration is a record of *)
(* words.                                                                *)
(*************************************************************************)
EXTENDS Integers, Sequences, FiniteSets, SequencesExt

CONSTANTS Variants,     \* strategies the machine is made with
          Words,        \* labels of the causal classifier
          RawRules,     \* raw configurations
          Samples,      \* volatility samples, shares of risen coins
          LastBar,      \* bound: bars of the timeline
          MaxFeeds      \* bound: events

OrchestraAssumption == LastBar \in Nat

NoLabel == "range_unknown"
InSample == {"calm", "stressed"}
None == "none"

VARIABLES rules,     \* the rule set as it is written
          strat,     \* per strategy: label of the stretch, losses in a row, latch
          vols,      \* per key: the samples in call order
          shares,    \* breadth samples <<stamp, share>>: loaded in order, then appended
          bar,       \* the information time of the caller
          verdict,   \* per strategy: the last decision and what it was made from
          feeds

orcVars == <<rules, strat, vols, shares, bar, verdict, feeds>>

(* --- loading the rules ------------------------------------------------------- *)
(* A word of a list is a label, "all", or makes the load fail: an unknown label as    *)
(* well as one of the in-sample model.                                            *)
Readable(raw) ==
  /\ raw.typos = {} /\ raw.losses >= 0 /\ raw.reset /\ raw.multiple >= 0
  /\ raw.window >= 1 /\ raw.minSamples >= 2 /\ raw.tolerance >= 0
  /\ \A v \in DOMAIN raw.allowed : raw.allowed[v] \subseteq Words \cup {NoLabel, "all"}
Parsed(raw) ==
  [raw EXCEPT !.allowed = [v \in DOMAIN raw.allowed |->
     IF "all" \in raw.allowed[v] THEN Words \cup {NoLabel} ELSE raw.allowed[v]]]

Fresh == [label |-> None, losses |-> 0, killed |-> FALSE]
Unasked == [enabled |-> TRUE, why |-> {}, at |-> 0, sample |-> <<>>, median |-> <<>>]

OrcInit ==
  /\ rules \in RawRules
  /\ strat = [v \in Variants |-> Fresh] /\ vols = [v \in Variants |-> <<>>]
  /\ shares = <<>> /\ bar = 1 /\ verdict = [v \in Variants |-> Unasked] /\ feeds = 0

(* Configuration is read before the machine exists: an unusable one ends there. *)
Loaded == Readable(rules)
Feed == Loaded /\ feeds < MaxFeeds /\ feeds' = feeds + 1

(* --- what the machine is told --------------------------------------------------- *)
(* A label other than the present one starts a stretch: the count and the latch go.     *)
Relabelled(s, label) ==
  IF s.label # None /\ s.label # label THEN [Fresh EXCEPT !.label = label]
  ELSE [s EXCEPT !.label = label]

SeeRegime(label) ==
  /\ Feed /\ label \notin InSample
  /\ strat' = [v \in Variants |-> Relabelled(strat[v], label)]
  /\ UNCHANGED <<rules, vols, shares, bar, verdict>>

(* A closed trade, with the label it is attributed to or none.  A win clears the count   *)
(* and not the latch.                                                              *)
IsLoss(pnl) == pnl < rules.threshold
Trips(n) == rules.losses > 0 /\ n >= rules.losses
Counted(s, pnl) ==
  LET n == IF IsLoss(pnl) THEN s.losses + 1 ELSE 0
  IN [s EXCEPT !.losses = n, !.killed = @ \/ Trips(n)]
CountedAnew(s, pnl) ==
  LET n == IF IsLoss(pnl) THEN s.losses + 1 ELSE 0
  IN [s EXCEPT !.losses = n, !.killed = Trips(n)]
After(s, pnl) == Counted(s, pnl)
RecordTrade(v, pnl, label) ==
  /\ Feed /\ label \notin InSample
  /\ strat' = [strat EXCEPT ![v] =
       After(IF label = None THEN @ ELSE Relabelled(@, label), pnl)]
  /\ UNCHANGED <<rules, vols, shares, bar, verdict>>

(* A breadth sample is appended with its own stamp, in whatever order samples come; a      *)
(* cache read is sorted and holds one row per stamp.                                  *)
ObserveBreadth(stamp, share) ==
  /\ Feed /\ shares' = Append(shares, <<stamp, share>>)
  /\ UNCHANGED <<rules, strat, vols, bar, verdict>>
LoadBreadth(newest) ==
  /\ Feed /\ shares' = [stamp \in 1..newest |-> <<stamp, 1>>]
  /\ UNCHANGED <<rules, strat, vols, bar, verdict>>
ObserveVol(v, x) ==
  /\ Feed /\ vols' = [vols EXCEPT ![v] = Append(@, x)]
  /\ UNCHANGED <<rules, strat, shares, bar, verdict>>

(* --- the lookups ------------------------------------------------------------------ *)
(* bisect_right as it runs, on a list that need not be sorted.                          *)
Cut(now) ==
  LET search[between \in (0..Len(shares)) \X (0..Len(shares))] ==
        LET lo == between[1] hi == between[2] mid == (lo + hi) \div 2
        IN IF lo >= hi THEN lo
           ELSE IF now < shares[mid + 1][1] THEN search[<<lo, mid>>] ELSE search[<<mid + 1, hi>>]
  IN search[<<0, Len(shares)>>]
AtOrBefore(now) == Cut(now)
NextOne(now) == IF Cut(now) < Len(shares) THEN Cut(now) + 1 ELSE Cut(now)
Latest(now) == AtOrBefore(now)

(* The sample in force: not older than the tolerance, or exactly of this bar. *)
BreadthAt(now) ==
  LET i == Latest(now)
      near(age) == IF rules.tolerance > 0 THEN age <= rules.tolerance ELSE age = 0
  IN IF i = 0 \/ ~near(now - shares[IF i = 0 THEN 1 ELSE i][1]) THEN <<>> ELSE shares[i]

(* The trailing median (twice its value), of the samples before the present one. *)
Median(v) ==
  LET s == vols[v] n == Len(s) k == IF n < rules.window THEN n ELSE rules.window
      tail == SortSeq(SubSeq(s, n - k + 1, n), <)
  IN IF n < rules.minSamples \/ k < 2 THEN <<>>
     ELSE << tail[(k + 1) \div 2] + tail[k \div 2 + 1] >>

(* --- the four rules ------------------------------------------------------------------ *)
(* A missing label has become "unknown" before the rule sees it: missing_regime_action       *)
(* is never consulted.                                                                  *)
RegimeBlocks(v, label) ==
  IF label = NoLabel THEN rules.unknownDenied
  ELSE IF v \in DOMAIN rules.allowed THEN label \notin Parsed(rules).allowed[v]
  ELSE rules.unlistedDenied
KillBlocks(s) == rules.losses > 0 /\ s.killed
VolBlocks(x, median) ==
  rules.multiple > 0 /\
    IF x = <<>> \/ median = <<>> \/ (median # <<>> /\ median[1] <= 0) THEN rules.missingDenied
    ELSE (2 * x[1] > rules.multiple * median[1]) = rules.highDenied
BreadthBlocks(sample, now) ==
  rules.floor > 0 /\
    IF sample = <<>> THEN rules.missingDenied
    ELSE IF now - sample[1] > rules.staleAfter THEN rules.staleDenied
    ELSE (sample[2] < rules.floor) = rules.lowDenied

(* decide: the label is taken in, the sample of volatility joins its series after the          *)
(* median was taken; every rule that applies is a reason.                                 *)
Decision(v, s, x, now) ==
  LET label == IF s.label = None THEN NoLabel ELSE s.label
      median == Median(v) sample == IF rules.floor > 0 THEN BreadthAt(now) ELSE <<>>
      why == { r \in {"regime", "kill", "vol", "breadth"} :
                 CASE r = "regime" -> RegimeBlocks(v, label)
                   [] r = "kill" -> KillBlocks(s)
                   [] r = "vol" -> VolBlocks(x, median)
                   [] OTHER -> BreadthBlocks(sample, now) }
  IN [enabled |-> why = {}, why |-> why, at |-> now, sample |-> sample, median |-> median]

(* decide_all: one label and one sample for all, each with its own series. *)
DecideAll(label, x) ==
  LET now == [v \in Variants |-> IF label = None THEN strat[v] ELSE Relabelled(strat[v], label)]
  IN /\ Feed /\ label \notin InSample
     /\ IF rules.enabled
        THEN /\ strat' = now
             /\ verdict' = [v \in Variants |-> Decision(v, now[v], x, bar)]
             /\ vols' = [v \in Variants |->
                          IF rules.multiple > 0 THEN vols[v] \o x ELSE vols[v]]
        ELSE verdict' = [v \in Variants |-> Unasked] /\ UNCHANGED <<strat, vols>>
     /\ UNCHANGED <<rules, shares, bar>>

NextBar == bar < LastBar /\ bar' = bar + 1 /\ UNCHANGED <<rules, strat, vols, shares, verdict, feeds>>

OrcNext ==
  \/ NextBar
  \/ \E label \in Words : SeeRegime(label)
  \/ \E v \in Variants, pnl \in {-1, 0}, label \in Words \cup {None} : RecordTrade(v, pnl, label)
  \/ \E stamp \in 1..LastBar, share \in Samples : ObserveBreadth(stamp, share)
  \/ \E newest \in 1..LastBar : LoadBreadth(newest)
  \/ \E v \in Variants, x \in Samples : ObserveVol(v, x)
  \/ \E label \in Words \cup {None}, x \in {<<>>} \cup {<<y>> : y \in Samples} : DecideAll(label, x)

(* The shape of the records the steps rewrite field by field. *)
OrcTypeOK ==
  /\ strat = [v \in Variants |-> [label |-> strat[v].label, losses |-> strat[v].losses,
                                   killed |-> strat[v].killed]]
  /\ \A v \in Variants : strat[v].killed \in BOOLEAN
  /\ verdict = [v \in Variants |-> verdict[v]]

(* --- properties -------------------------------------------------------------------------- *)
(* What three losses in a row stopped stays stopped until the label of the market is          *)
(* another: no win, sample or decision in between lets the strategy in again                *)
(* (orchestrator.py:1081).                                                              *)
KilledUntilTheRegimeTurns ==
  \A v \in Variants : strat[v].killed /\ strat'[v].label = strat[v].label =>
    strat'[v].killed /\ (verdict'[v] # verdict[v] /\ rules.enabled => ~verdict'[v].enabled)

\* Only the rule of losses stops a strategy for longer than one decision.
KilledByLosses == \A v \in Variants : strat[v].killed => rules.losses > 0
OrcInv == OrcTypeOK /\ KilledByLosses

(* A decision never rests on a breadth sample stamped after it, however the samples came      *)
(* in: the bisection runs over a list in the order of arrival (orchestrator.py:948).          *)
BreadthIsNotFromTheFuture ==
  \A v \in Variants : verdict[v].sample # <<>> => verdict[v].sample[1] <= verdict[v].at

\* What the samples in the list and in the decisions are.
OrcSamples ==
  /\ bar \in Nat /\ shares \in Seq(Nat \X (Samples \cup {1}))
  /\ BreadthIsNotFromTheFuture
=============================================================================
