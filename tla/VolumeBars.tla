------------------------------ MODULE VolumeBars ------------------------------
(*************************************************************************)
(* Activity-clock bars (core/strategy/volume_bars.py): the batch         *)
(* constructors group a frame of prints, the builder takes them one by   *)
(* one and can be saved and restored, and the calendar bars are the      *)
(* control.  A print has a time, a price and a volume; the open, high    *)
(* and low of a print are its price.                                     *)
(*************************************************************************)
EXTENDS Integers, Sequences, FiniteSets, FiniteSetsExt

CONSTANTS Prices, Volumes,
          Threshold,   \* notional of a bar
          Interval,    \* length of a calendar bar
          LastTime,    \* bound: prints are at times 1..LastTime
          MaxPrints    \* bound: prints

VARIABLES prints,      \* the frame, sorted
          builder,     \* VolumeClockBuilder: running total, its value at the last close, open bar
          pushed,      \* prints given to the builder
          streamed,    \* bars it has closed
          saved        \* the last checkpoint and what its owner had done by then

barsVars == <<prints, builder, pushed, streamed, saved>>

NoBar == <<>>
NewBuilder == [cumulative |-> 0, base |-> 0, partial |-> NoBar]
Unsaved == [builder |-> NewBuilder, pushed |-> 0, streamed |-> <<>>]

BarsInit ==
  /\ prints = <<>> /\ builder = NewBuilder /\ pushed = 0 /\ streamed = <<>> /\ saved = Unsaved

Weight(p) == p.price * p.volume

(* A bar is stamped with its last print. *)
Bar(ps) ==
  LET prices == { ps[i].price : i \in DOMAIN ps }
  IN [at |-> ps[Len(ps)].at, open |-> ps[1].price, close |-> ps[Len(ps)].price,
      high |-> Max(prices), low |-> Min(prices),
      volume |-> MapThenSumSet(LAMBDA i : ps[i].volume, DOMAIN ps)]

(* --- batch: the frame is cut by bisection of its running total ---------------------- *)
Total(ps, n) == MapThenSumSet(LAMBDA i : Weight(ps[i]), 1..n)
Crossings(ps, from) ==
  { n \in from..Len(ps) : Total(ps, n) >= Total(ps, from - 1) + Threshold }

(* What is dropped of a bar that has not reached its threshold. *)
DropPartial(ps, from) == <<>>
KeepPartial(ps, from) == IF from > Len(ps) THEN <<>> ELSE <<Bar(SubSeq(ps, from, Len(ps)))>>
Unfinished(ps, from) == DropPartial(ps, from)
ClockBars(ps) ==
  LET cut[from \in 1..(Len(ps) + 1)] ==
        IF Crossings(ps, from) = {} THEN Unfinished(ps, from)
        ELSE LET end == Min(Crossings(ps, from))
             IN <<Bar(SubSeq(ps, from, end))>> \o cut[end + 1]
  IN cut[1]

(* --- calendar bars: closed on the right, the last one provisional -------------------- *)
Bin(p) == (p.at + Interval - 1) \div Interval
TimeBars(ps) ==
  LET bins == { Bin(ps[i]) : i \in DOMAIN ps }
      bar(b) == [Bar(SelectSeq(ps, LAMBDA p : Bin(p) = b)) EXCEPT !.at = b * Interval]
  IN { bar(b) : b \in { c \in bins : c < Max(bins) } }

(* --- streaming ------------------------------------------------------------------------ *)
Extended(bar, p) ==
  IF bar = NoBar THEN Bar(<<p>>)
  ELSE [bar EXCEPT !.at = p.at, !.close = p.price, !.volume = @ + p.volume,
                   !.high = Max({@, p.price}), !.low = Min({@, p.price})]

(* Where the next bar starts counting: what went over the threshold is lost. *)
BaseAfter(cumulative, base) == cumulative
CarryOver(cumulative, base) == base + Threshold
NextBase(cumulative, base) == BaseAfter(cumulative, base)

Push ==
  /\ pushed < Len(prints) /\ pushed' = pushed + 1
  /\ LET p == prints[pushed + 1]
         cumulative == builder.cumulative + Weight(p)
         bar == Extended(builder.partial, p)
     IN IF cumulative >= builder.base + Threshold
        THEN /\ streamed' = Append(streamed, bar)
             /\ builder' = [cumulative |-> cumulative, partial |-> NoBar,
                            base |-> NextBase(cumulative, builder.base)]
        ELSE /\ builder' = [builder EXCEPT !.cumulative = cumulative, !.partial = bar]
             /\ UNCHANGED streamed
  /\ UNCHANGED <<prints, saved>>

(* state and from_state; the owner remembers how far it was. *)
Save ==
  /\ saved' = [builder |-> builder, pushed |-> pushed, streamed |-> streamed]
  /\ UNCHANGED <<prints, builder, pushed, streamed>>
Restored(s) == s.builder
Restore ==
  /\ builder' = Restored(saved) /\ pushed' = saved.pushed /\ streamed' = saved.streamed
  /\ UNCHANGED <<prints, saved>>

(* Prints come in the order of time; two may have one stamp (the cache has twins). *)
Arrive ==
  /\ Len(prints) < MaxPrints
  /\ \E t \in 1..LastTime, x \in Prices, v \in Volumes :
       /\ prints # <<>> => t \in prints[Len(prints)].at..(prints[Len(prints)].at + 2)
       /\ prints' = Append(prints, [at |-> t, price |-> x, volume |-> v])
  /\ UNCHANGED <<builder, pushed, streamed, saved>>

BarsNext == Arrive \/ Push \/ Save \/ Restore

(* --- properties ------------------------------------------------------------------------ *)
(* The builder, however often it was saved and restored, has closed the bars the batch      *)
(* constructor makes of the same prints (volume_bars.py:417).                            *)
StreamEqualsBatch == streamed = ClockBars(SubSeq(prints, 1, pushed))

(* A bar that has been made never changes when more prints come, of the activity clock      *)
(* and of the calendar: bars as of a time are bars of the whole (volume_bars.py:566).      *)
ClosedBarsNeverChange ==
  LET old == ClockBars(prints) new == ClockBars(prints')
  IN /\ Len(old) <= Len(new) /\ \A i \in DOMAIN old : new[i] = old[i]
     /\ TimeBars(prints) \subseteq TimeBars(prints')
=============================================================================
