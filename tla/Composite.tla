------------------------------ MODULE Composite ------------------------------
(*************************************************************************)
(* A study of the composite strategy (core/ai/composite.py,              *)
(* core/ai/holdout.py, driven by tools/p7_composite_measure.py):         *)
(* children and weights are chosen on the training window, the arms are  *)
(* folded over the out-of-sample window, the window is claimed in a      *)
(* registry and the artifact written.  A run may die at any point and be *)
(* started again.  A return of a child is a pair of two of its equities, *)
(* empty when they are equal: the weighted mean of the returns is left   *)
(* out, the weights being the same for the curve and for its             *)
(* recomputation.                                                        *)
(*************************************************************************)
EXTENDS Naturals, FiniteSets, Sequences, FiniteSetsExt

CONSTANTS Children,   \* one selected strategy per symbol
          Grid,       \* the last bar of the out-of-sample window; bars are 1..Grid
          Curves,     \* equity curves: sets of points <<bar, equity>>
          TradeLists, \* closed trades: sets of <<opened, closed>>
          LabelAt,    \* the label of the clock symbol, per bar
          MaxRuns     \* bound: runs of the tool

Bars == 1..Grid
(* A child without a curve is refused; a backtest has a point on every bar it saw. *)
StudyAssumption ==
  Grid \in Nat /\ \A curve \in Curves : curve # {} /\ \A p \in curve : p[1] \in Bars
Labels == {LabelAt[t] : t \in Bars}

VARIABLES market,     \* what the engine would return: curve and trades per child
          allowed,    \* the frozen rules: labels in which each child may enter
          arms,       \* what a run has computed and printed, per arm
          stage,      \* where the run is, and whether reuse was allowed
          registry,   \* claims of this window: was the claim a reuse
          artifacts,  \* artifacts written: a recorded reuse? an allowed one?
          looks,      \* runs that have printed out-of-sample numbers
          runs

studyVars == <<market, allowed, arms, stage, registry, artifacts, looks, runs>>

NoArms == [a \in {} |-> {}]
NoRules == [c \in Children |-> {}]
StudyInit ==
  /\ market \in [Children -> [curve : Curves, trades : TradeLists]]
  /\ allowed = NoRules /\ arms = NoArms
  /\ stage = [at |-> "off", reuse |-> FALSE]
  /\ registry = <<>> /\ artifacts = <<>> /\ looks = 0 /\ runs = 0

(* --- the training window ------------------------------------------------------ *)
(* One rule set for the children: one label, the best two of each, all, or none; which    *)
(* one the training trades favour is open.                                          *)
RuleSets == { [c \in Children |-> {l}] : l \in Labels }
            \cup [Children -> {p \in SUBSET Labels : Cardinality(p) = 2}]
            \cup { [c \in Children |-> Labels], [c \in Children |-> {}] }

Start ==
  /\ stage.at = "off" /\ runs < MaxRuns /\ runs' = runs + 1
  /\ \E reuse \in BOOLEAN : stage' = [at |-> "train", reuse |-> reuse]
  /\ UNCHANGED <<market, allowed, arms, registry, artifacts, looks>>

Freeze ==
  /\ stage.at = "train" /\ stage' = [stage EXCEPT !.at = "frozen"]
  /\ allowed' \in RuleSets
  /\ UNCHANGED <<market, arms, registry, artifacts, looks, runs>>

(* --- the curve -------------------------------------------------------------------- *)
(* A refused entry never happens; the rest of the child is untouched.                     *)
Kept(c, gate) == { tr \in market[c].trades : tr[1] \in gate[c] }

Times(c) == { p[1] : p \in market[c].curve }
EquityOn(c, t) == (CHOOSE p \in market[c].curve : p[1] = t)[2]
Until(c, t) == { u \in Times(c) : u <= t }
Before(c, t) == { u \in Times(c) : u < t }
(* Forward filled; before its first point a child has its first equity. *)
ValueAt(c, t) ==
  IF Until(c, t) = {} THEN EquityOn(c, Min(Times(c))) ELSE EquityOn(c, Max(Until(c, t)))

(* In the market from open to close; deployed one bar longer, the bar on which the cash        *)
(* of the close is first seen; flat after the last point of the curve.                     *)
Ended(c, t) == t > Max(Times(c))
Position(kept, c, t) == ~Ended(c, t) /\ \E tr \in kept : tr[1] <= t /\ t <= tr[2]
Deployed(kept, c, t) ==
  ~Ended(c, t) /\ \E tr \in kept : tr[1] <= t /\ t <= tr[2] + 1

Flat == <<>>
Return(after, before) == IF after = before THEN Flat ELSE <<after, before>>
(* The child's own point before this bar, whatever bar that was. *)
PreviousAt(c, t) == Before(c, t)
UpToNow(c, t) == Until(c, t)
Earlier(c, t) == PreviousAt(c, t)
ChildReturn(c, t) ==
  IF Earlier(c, t) = {} THEN Flat
  ELSE Return(ValueAt(c, t), EquityOn(c, Max(Earlier(c, t))))

Fold(gate) ==
  LET kept == [c \in Children |-> Kept(c, gate)]
  IN [gate |-> gate,
      parts |-> [t \in Bars |-> { <<c, ChildReturn(c, t)>> : c \in {d \in Children : Deployed(kept[d], d, t)} }],
      inMarket |-> { t \in Bars : \E c \in Children : Position(kept[c], c, t) }]

(* --- the out-of-sample window ------------------------------------------------------- *)
AlwaysOn == [c \in Children |-> Bars]
Orchestrated == [c \in Children |-> { t \in Bars : LabelAt[t] \in allowed[c] }]
(* Each bar is drawn with the share of bars the rules allow: never at 0, always at 1. *)
RandomGates(c) ==
  IF allowed[c] = {} THEN {{}} ELSE IF allowed[c] = Labels THEN {Bars} ELSE SUBSET Bars

(* Every arm folds the same trades and curves; each is printed as it is done. *)
Look ==
  /\ stage.at = "frozen" /\ stage' = [stage EXCEPT !.at = "looked"]
  /\ \E c \in Children : \E r \in RandomGates(c) :
       arms' = [a \in {"always", "random", "orchestrated"} |->
         Fold(CASE a = "always" -> AlwaysOn
                [] a = "random" -> [AlwaysOn EXCEPT ![c] = r]
                [] OTHER -> Orchestrated)]
  /\ looks' = looks + 1
  /\ UNCHANGED <<market, allowed, registry, artifacts, runs>>

(* What a run has in memory goes with it. *)
End == stage' = [at |-> "off", reuse |-> FALSE] /\ allowed' = NoRules /\ arms' = NoArms

(* claim_holdout: a second claim is refused or recorded as reuse. *)
MayClaim == Len(registry) = 0 \/ stage.reuse
Whoever == TRUE
Admitted == MayClaim
Claim ==
  /\ stage.at = "looked"
  /\ IF Admitted
     THEN /\ registry' = Append(registry, Len(registry) > 0)
          /\ stage' = [stage EXCEPT !.at = "claimed"] /\ UNCHANGED <<allowed, arms>>
     ELSE End /\ UNCHANGED registry
  /\ UNCHANGED <<market, artifacts, looks, runs>>

Publish ==
  /\ stage.at = "claimed" /\ End
  /\ artifacts' = Append(artifacts, [reuse |-> registry[Len(registry)], allowed |-> stage.reuse])
  /\ UNCHANGED <<market, registry, looks, runs>>

Die ==
  /\ stage.at # "off" /\ End
  /\ UNCHANGED <<market, registry, artifacts, looks, runs>>

StudyNext == Start \/ Freeze \/ Look \/ Claim \/ Publish \/ Die

(* --- properties -------------------------------------------------------------------------- *)
(* composite_return: the children's equities on the grid and the flags alone.                  *)
Recomputed(arm, t) ==
  { <<c, Return(ValueAt(c, t), ValueAt(c, t - 1))>> : c \in {d \in Children : Deployed(Kept(d, arm.gate), d, t)} }

(* The curve starts at the initial balance and is reproduced from the children's own        *)
(* curves and flags, whatever bars a child has no point on (composite.py:35).               *)
CurveIsRecomputable ==
  \A a \in DOMAIN arms : \A t \in Bars :
    IF t = 1 THEN \A p \in arms[a].parts[1] : p[2] = Flat
    ELSE arms[a].parts[t] = Recomputed(arms[a], t)

(* Of the artifacts on one window all but one were allowed to reuse it and say so, though     *)
(* runs die between the claim and the artifact and are repeated (holdout.py:26).            *)
OneFirstArtifact ==
  Cardinality({ i \in DOMAIN artifacts : ~(artifacts[i].reuse /\ artifacts[i].allowed) }) <= 1

(* What is kept besides: a claim is the first or says it is none, reuse was allowed then,      *)
(* and no artifact is without a claim of its own.                                        *)
StudyTypeOK ==
  /\ market \in [Children -> [curve : Curves, trades : TradeLists]]
  /\ stage \in [at : {"off", "train", "frozen", "looked", "claimed"}, reuse : BOOLEAN]
  /\ registry \in Seq(BOOLEAN)
  /\ artifacts \in Seq([reuse : BOOLEAN, allowed : BOOLEAN])
Claiming == IF stage.at = "claimed" THEN 1 ELSE 0
ClaimedFirst ==
  /\ \A i \in DOMAIN registry : registry[i] <=> i > 1
  /\ Len(artifacts) + Claiming <= Len(registry)
  /\ stage.at = "claimed" /\ registry[Len(registry)] => stage.reuse
  /\ \A i \in DOMAIN artifacts : i > 1 => artifacts[i].reuse /\ artifacts[i].allowed
StudyInv == StudyTypeOK /\ CurveIsRecomputable /\ ClaimedFirst

(* What the code does not keep: out-of-sample numbers are seen once, unless the registry      *)
(* says how often (holdout.py:27, "a silent second look is impossible").                   *)
NoSilentLook == looks > 1 => Len(registry) + 1 >= looks
=============================================================================
