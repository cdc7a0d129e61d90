----------------------------- MODULE MCWaiting -----------------------------
(* Who waits for whom: the trade gate, with everything on one event loop as   *)
(* main() runs it or every activation on a loop of its own as the tests do,   *)
(* the callers of the market data cache, and the live order, which waits for  *)
(* an exchange that may have accepted it.  They share nothing, so a behaviour *)
(* is one of the gate, the cache or the order.                                *)
EXTENDS TradeGate, LiveOrder

OneLoop == [a \in Activations |-> CHOOSE l \in Loops : TRUE]

\* A bijection: as many loops as activations.
OwnLoop == CHOOSE f \in [Activations -> Loops] :
             \A a, b \in Activations : f[a] = f[b] => a = b

CONSTANTS Callers, Ttl, NoLock

VARIABLES turn,    \* "gate", "memo" or "live"
          age, lockOf, holder, queue, asks

Cache == INSTANCE Memo

memo == <<age, lockOf, holder, queue, asks>>
waits == <<turn, vars, memo, liveVars>>

WaitInit == turn \in {"gate", "memo", "live"} /\ Init /\ Cache!MemoInit /\ LiveInit

WaitNext ==
  \/ turn = "gate" /\ Next /\ UNCHANGED <<turn, memo, liveVars>>
  \/ turn = "memo" /\ Cache!MemoNext /\ UNCHANGED <<turn, vars, liveVars>>
  \/ turn = "live" /\ LiveNext /\ UNCHANGED <<turn, vars, memo>>

\* The fairness of gate and cache, which asks nothing of the one that has not begun.
WaitSpec == WaitInit /\ [][WaitNext]_waits /\ Fairness /\ Cache!MemoFairness

\* Every request is answered or given up: a caller that fails, is cancelled or takes
\* the lock out of the map never leaves another waiting on it for ever
\* (ttl_cache.py:126, "Dropping it is safe").
CallersAnswered == Cache!CallersAnswered
=============================================================================
