------------------------------ MODULE Signals -------------------------------
(*************************************************************************)
(* The strategy engine (core/strategy/engine.py) for one symbol: a       *)
(* candle handler, and a forced evaluation of everything after a         *)
(* breaker's recovery or a reload, walk through the strategy table and   *)
(* judge each strategy.  A judgement waits for candles, for those of     *)
(* higher timeframes, and wherever it publishes while the bus is full;   *)
(* the table and the position change meanwhile.                          *)
(*************************************************************************)
EXTENDS FiniteSets, Naturals

CONSTANTS Strategies,
          Verdicts,     \* what the conditions say: the entry's side, the sides to
                        \* leave, and whether to reduce
          MaxReduces,   \* 4: partial exits of a position
          Restored,     \* bound: the positions a start may restore
          MaxChanges    \* bound: changes of the table, and of the position

Walks == {"candle", "forced"}
Sides == {"long", "short"}
NoPosition == [owner |-> "nobody", side |-> "none"]

VARIABLES table,       \* the engine's strategies: "on", "off" or "absent"
          position,    \* the symbol's open position
          reduced,     \* _signal_cache: partial exits counted per strategy and side
          walk,        \* per walk: where it is and what it holds
          wire,        \* the last thing published, and by whom
          changes

signalVars == <<table, position, reduced, walk, wire, changes>>

NoVerdict == [entry |-> "none", leave |-> {}, reduce |-> FALSE]
NoWalk == [pc |-> "idle", publish |-> FALSE, left |-> {}, size |-> 0, view |-> "live",
           strategy |-> "nobody", verdict |-> NoVerdict, held |-> NoPosition, done |-> FALSE]
Silence == [kind |-> "none", strategy |-> "nobody", side |-> "none"]
Present == {s \in Strategies : table[s] # "absent"}

SignalInit ==
  /\ table = [s \in Strategies |-> "on"]
  /\ position \in Restored
  /\ reduced = [s \in Strategies |-> [d \in Sides |-> 0]]
  /\ walk = [w \in Walks |-> NoWalk] /\ wire = Silence /\ changes = 0

Go(w, new) == walk' = [walk EXCEPT ![w] = new]
At(w, pc) == walk[w].pc = pc
Publish(kind, s, side) == wire' = [kind |-> kind, strategy |-> s, side |-> side]
Quiet == wire' = Silence

(* --- what goes on around --------------------------------------------------- *)
(* create, delete and toggle change the table in place; a reload puts a new one   *)
(* there, and a walk goes on through the old one.                                *)
ChangeTable ==
  /\ changes < MaxChanges /\ changes' = changes + 1
  /\ \/ /\ \E s \in Strategies : \E v \in {"on", "off", "absent"} : table' = [table EXCEPT ![s] = v]
        /\ UNCHANGED walk
     \/ /\ table' \in [Strategies -> {"on", "off"}]
        /\ walk' = [w \in Walks |-> IF walk[w].view = "live" /\ ~At(w, "idle")
                                    THEN [walk[w] EXCEPT !.view = "old", !.size = 0] ELSE walk[w]]
  /\ Quiet /\ UNCHANGED <<position, reduced>>

(* Stops, exits and other strategies: any number of them while a walk waits. *)
ChangePosition ==
  /\ changes < MaxChanges /\ changes' = changes + 1
  /\ position' \in ({NoPosition} \cup [owner : Strategies, side : Sides]) \ {position}
  /\ Quiet /\ UNCHANGED <<table, reduced, walk>>

(* --- the walk ------------------------------------------------------------------ *)
(* A candle always publishes; a forced walk does after a recovery.               *)
Start(w) ==
  /\ At(w, "idle")
  /\ \E publish \in BOOLEAN :
       /\ w = "candle" => publish
       /\ Go(w, [NoWalk EXCEPT !.pc = "next", !.publish = publish, !.left = Present,
                               !.size = Cardinality(Present)])
  /\ Quiet /\ UNCHANGED <<table, position, reduced, changes>>

(* The next strategy that is enabled.  A table that has grown or shrunk under the  *)
(* walk raises, and what is left is not judged.                                    *)
Resized(w) == walk[w].view = "live" /\ Cardinality(Present) # walk[w].size
NextStrategy(w) ==
  LET me == walk[w]
  IN /\ At(w, "next")
     /\ \/ (me.left = {} \/ Resized(w)) /\ Go(w, NoWalk)
        \/ /\ ~Resized(w)
           /\ \E s \in me.left :
                Go(w, IF me.view = "live" /\ table[s] # "on" THEN [me EXCEPT !.left = @ \ {s}]
                      ELSE [me EXCEPT !.pc = "judging", !.left = @ \ {s}, !.strategy = s])
     /\ Quiet /\ UNCHANGED <<table, position, reduced, changes>>

(* The candles are there: entry, exit and reduce conditions.  Then the candles of  *)
(* higher timeframes; too few candles end the judgement.                          *)
Judge(w) ==
  /\ At(w, "judging")
  /\ \/ \E v \in Verdicts : Go(w, [walk[w] EXCEPT !.pc = "fusing", !.verdict = v, !.held = position])
     \/ Go(w, [walk[w] EXCEPT !.pc = "next", !.strategy = "nobody"])
  /\ Quiet /\ UNCHANGED <<table, position, reduced, changes>>

HeldNow(w) == position
HeldBefore(w) == walk[w].held
Held(w) == HeldNow(w)

(* An exit of the side it would enter blocks the entry while a position of that    *)
(* side is open; against the trend, the vote of another source or a veto, the      *)
(* score may not suffice.                                                         *)
ExitBlocks(w) ==
  LET v == walk[w].verdict IN v.entry \in v.leave /\ Held(w).side = v.entry
Judged(me) == [me EXCEPT !.pc = "next", !.strategy = "nobody", !.verdict = NoVerdict,
                         !.held = NoPosition, !.done = FALSE]
Fuse(w) ==
  LET me == [walk[w] EXCEPT !.pc = "managing", !.held = Held(w)] v == me.verdict
  IN /\ At(w, "fusing")
     /\ \/ ~me.publish /\ Go(w, Judged(me)) /\ Quiet
        \/ me.publish /\ Go(w, me) /\ Quiet
        \/ /\ me.publish /\ v.entry # "none" /\ ~ExitBlocks(w)
           /\ Publish("entry", me.strategy, v.entry) /\ Go(w, me)
     /\ UNCHANGED <<table, position, reduced, changes>>

(* Reduce conditions come before exits, and only for a position of the strategy's     *)
(* own.  The counter is read here and written when the bus has taken the event.       *)
Owns(w, p) == p.owner = walk[w].strategy
OwnedNow(w) == Owns(w, position)
OwnedThen(w) == Owns(w, walk[w].held)
Mine(w) == OwnedNow(w)

Reduces(w) ==
  position # NoPosition /\ Mine(w) /\ walk[w].verdict.reduce /\ reduced[walk[w].strategy][position.side] < MaxReduces
Reduce(w) ==
  /\ At(w, "managing")
  /\ \/ /\ Reduces(w)
        /\ Publish("reduce", walk[w].strategy, position.side)
        /\ Go(w, [walk[w] EXCEPT !.pc = "counting", !.done = TRUE, !.held = position])
     \/ ~Reduces(w) /\ Go(w, [walk[w] EXCEPT !.pc = "leaving"]) /\ Quiet
  /\ UNCHANGED <<table, position, reduced, changes>>

Count(w) ==
  /\ At(w, "counting")
  /\ reduced' = [reduced EXCEPT ![walk[w].strategy][walk[w].held.side] =
                   IF @ < MaxReduces THEN @ + 1 ELSE @]
  /\ Go(w, [walk[w] EXCEPT !.pc = "leaving"]) /\ Quiet
  /\ UNCHANGED <<table, position, changes>>

(* The exit: of a position that was open when the score was fused, on the side it had    *)
(* then, if it is still this strategy's; the counter starts again.                      *)
Leave(w) ==
  LET me == walk[w] side == me.held.side
      leaves == /\ ~me.done /\ me.held # NoPosition /\ position # NoPosition
                /\ Mine(w) /\ side \in me.verdict.leave
  IN /\ At(w, "leaving") /\ Go(w, Judged(me))
     /\ \/ /\ leaves
           /\ Publish("exit", me.strategy, side)
           /\ reduced' = [reduced EXCEPT ![me.strategy][side] = 0]
        \/ ~leaves /\ Quiet /\ UNCHANGED reduced
     /\ UNCHANGED <<table, position, changes>>

SignalNext ==
  \/ ChangeTable \/ ChangePosition
  \/ \E w \in Walks : Start(w) \/ NextStrategy(w) \/ Judge(w) \/ Fuse(w) \/ Reduce(w) \/ Count(w) \/ Leave(w)

(* One record of the locals for each walk. *)
SigTypeOK == walk = [w \in Walks |-> walk[w]]

(* --- properties ---------------------------------------------------------------- *)
(* A strategy reduces or leaves a position that is its own when it says so, whatever  *)
(* was closed and opened while it judged (engine.py:554, "Only manage positions opened *)
(* by THIS strategy").                                                              *)
ManagesItsOwn ==
  wire'.kind \in {"reduce", "exit"} => position.owner = wire'.strategy

(* An entry is not published into a position of the same side that the strategy's own   *)
(* conditions would leave, as the position is then and not as it was before the wait     *)
(* for higher timeframes (engine.py:413).                                              *)
NoEntryIntoAnExit ==
  \A w \in Walks : At(w, "fusing") /\ walk'[w].pc # "fusing" /\ wire'.kind = "entry" =>
    ~(wire'.side \in walk[w].verdict.leave /\ position.side = wire'.side)
=============================================================================
