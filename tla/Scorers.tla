------------------------------ MODULE Scorers -------------------------------
(*************************************************************************)
(* How a generation is evaluated (core/ga/fitness.py): the population is *)
(* cut into chunks, each chunk is one engine pass in a process of its    *)
(* own, a chunk that fails or whose process dies is tried once more in   *)
(* the parent, and the workers report progress through a queue the       *)
(* parent empties while it waits.                                        *)
(*                                                                       *)
(* Kept of what the engine finds out about a genome: how many trades it  *)
(* closed, in classes, the sign of its Sharpe ratio, what was charged    *)
(* and whether the volume of its bars is known.  All of it depends on    *)
(* the positions the genome may hold at once, which the engine takes     *)
(* from the number of strategies it is given.  Numbers of the fitness    *)
(* formula are left out.                                                 *)
(*************************************************************************)
EXTENDS Integers, Sequences, FiniteSets, FiniteSetsExt

CONSTANTS Genomes,      \* the population's size
          MaxWorkers,   \* processes asked for
          OpenTrades,   \* max_open_trades of the configuration
          Evidences     \* what engine passes may find out about a genome

\* The positions a genome may be allowed, and what one pass says about it.
Allowances == 1..Max({1, OpenTrades})
Pass == [trades : Nat, sharpe : Int, cost : Nat, impact : Nat, measured : BOOLEAN]

(* Nothing is charged that is not measured in numbers; fewer processes than      *)
(* genomes may be asked for, and more.                                           *)
ScorersAssumption ==
  /\ Genomes \in Nat \ {0} /\ MaxWorkers \in Nat \ {0} /\ OpenTrades \in Nat
  /\ Evidences \subseteq [decodes : BOOLEAN, pass : [Allowances -> Pass]]

VARIABLES evalPhase,    \* "idle", "running", "finished", "aborted"
          evidence,     \* whether a genome's conditions decode, and what passes would find
          threaded,     \* groups run in threads of the parent, not in processes
          listened,     \* a progress callback is registered: there is a queue
          worker,       \* per chunk: the state of its process
          ticks,        \* the progress items in the queue
          doneByChunk, completed,
          results, paths

scoreVars ==
  <<evalPhase, evidence, threaded, listened, worker, ticks, doneByChunk, completed, results, paths>>

Population == 0..(Genomes - 1)
NoResult == [flag |-> "none"]

(* --- chunks -------------------------------------------------------------- *)
(* The remainder is spread over the first groups: 7 over 4 is 2, 2, 2, 1.     *)
Groups == Min({MaxWorkers, Genomes})
SizeOf(w) == (Genomes \div Groups) + (IF w < Genomes % Groups THEN 1 ELSE 0)
StartOf(w) == w * (Genomes \div Groups) + Min({w, Genomes % Groups})
Chunks == 0..(Groups - 1)
MemberAt(w, i) == StartOf(w) + i
MemberLocally(w, i) == i
Member(w, i) == MemberAt(w, i)
GenomesOf(w) == {Member(w, i) : i \in 0..(SizeOf(w) - 1)}

(* --- the score of one genome ---------------------------------------------- *)
Refused == [flag |-> "unevaluable_condition"]
EngineError == [flag |-> "engine_error"]
Failed == [flag |-> "failed"]

(* The impact term replaces what the engine has charged: fees stay, impact is  *)
(* measured again, but only on bars whose volume is known.                     *)
LegacyCost(e) == e.cost - e.impact
Repriced(e) == IF e.measured THEN LegacyCost(e) + e.impact ELSE e.cost
RepricedOnTop(e) == IF e.measured THEN e.cost + e.impact ELSE e.cost
ModelledCost(e) == Repriced(e)

DeflatedSign(e) == IF e.sharpe > 0 /\ e.trades >= 20 THEN "deflated" ELSE "zero"
FlagOf(e) == CASE e.trades = 0 -> "no_trades" [] e.trades \in 1..29 -> "insufficient_trades"
               [] OTHER -> ""
ScoreStats(e, cost) == [flag |-> FlagOf(e), trades |-> e.trades, dsr |-> DeflatedSign(e), cost |-> cost]

(* What the engine is given: a strategy for every genome of the chunk.  One that  *)
(* is refused is replaced by a strategy that never trades and keeps its slot.     *)
Placeholder == -1
ConfigOf(g) == IF evidence[g].decodes THEN g ELSE Placeholder
ConfigsDecoded(w) ==
  SelectSeq([i \in 1..SizeOf(w) |-> ConfigOf(Member(w, i - 1))], LAMBDA c : c # Placeholder)
ChunkConfigs(w) == [i \in 1..SizeOf(w) |-> ConfigOf(Member(w, i - 1))]

(* The engine shares its positions out among the strategies of the pass.          *)
Slots(strategies) == Max({1, OpenTrades \div strategies})

(* What one pass reports of a chunk, and the part that belongs to one genome;     *)
(* a result with a single strategy needs no name.                                 *)
Nothing == [trades |-> 0, sharpe |-> 0, cost |-> 0, impact |-> 0, measured |-> FALSE]
EngineResult(w) ==
  LET configs == ChunkConfigs(w)
  IN [c \in {configs[i] : i \in 1..Len(configs)} |->
        IF c = Placeholder THEN Nothing ELSE evidence[c].pass[Slots(Len(configs))]]
StatsFromEngineResult(result, g) ==
  IF g \notin DOMAIN result /\ Cardinality(DOMAIN result) = 1
  THEN result[CHOOSE h \in DOMAIN result : TRUE] ELSE result[g]

(* _mp_worker and _eval_chunk over a chunk: an engine error is the result of     *)
(* every genome that was not refused.                                            *)
ChunkResults(w, error) ==
  [g \in GenomesOf(w) |->
     CASE ~evidence[g].decodes -> Refused
       [] evidence[g].decodes /\ error -> EngineError
       [] OTHER -> LET e == StatsFromEngineResult(EngineResult(w), g)
                   IN ScoreStats(e, ModelledCost(e))]

(* What a worker has put in the queue when it is through: one item for each     *)
(* genome, or one for all of them when the engine refused.                      *)
TicksOf(w, error) ==
  IF ~listened THEN {}
  ELSE LET scored == {h \in GenomesOf(w) : evidence[h].decodes}
       IN {<<w, 1>> : g \in IF error THEN GenomesOf(w) \ scored ELSE GenomesOf(w)}
          \cup (IF error /\ scored # {} THEN {<<w, Cardinality(scored)>>} ELSE {})

(* --- the evaluation --------------------------------------------------------- *)
ScoreInit ==
  /\ evalPhase = "idle" /\ threaded = FALSE /\ listened = FALSE
  /\ evidence = [g \in Population |-> [decodes |-> TRUE, pass |-> [k \in Allowances |-> Nothing]]]
  /\ worker = [w \in Chunks |-> "none"] /\ ticks = {}
  /\ doneByChunk = [w \in Chunks |-> 0] /\ completed = 0
  /\ results = [g \in Population |-> NoResult] /\ paths = [w \in Chunks |-> "none"]

Evaluate ==
  /\ evalPhase = "idle" /\ evalPhase' = "running"
  /\ evidence' \in [Population -> Evidences] /\ threaded' \in BOOLEAN /\ listened' \in BOOLEAN
  /\ threaded' => ~listened'
  /\ worker' = [w \in Chunks |-> "running"]
  /\ UNCHANGED <<ticks, doneByChunk, completed, results, paths>>

(* Any part of a worker's items may be in the queue before it ends. *)
Tick(w) ==
  /\ worker[w] = "running"
  /\ \E error \in BOOLEAN : ticks' = ticks \cup TicksOf(w, error) /\ ticks' # ticks
  /\ UNCHANGED <<evalPhase, evidence, threaded, listened, worker, doneByChunk, completed, results, paths>>

(* The engine pass ends: with results, with an error in them, or raising. *)
Return(w, how) ==
  /\ worker[w] = "running"
  /\ worker' = [worker EXCEPT ![w] = how]
  /\ ticks' = ticks \cup (IF how = "raised" THEN {} ELSE TicksOf(w, how = "error"))
  /\ UNCHANGED <<evalPhase, evidence, threaded, listened, doneByChunk, completed, results, paths>>

(* A process that dies breaks the pool: every future still out fails. *)
Die(w) ==
  /\ ~threaded /\ worker[w] = "running"
  /\ worker' = [v \in Chunks |-> IF worker[v] = "running" THEN "raised" ELSE worker[v]]
  /\ UNCHANGED <<evalPhase, evidence, threaded, listened, ticks, doneByChunk, completed, results, paths>>

HighestTick(w, items, before) == Max({before} \cup {t[2] : t \in {u \in items : u[1] = w}})
LatestTick(w, items, before) ==
  LET mine == {t[2] : t \in {u \in items : u[1] = w}} IN IF mine = {} THEN before ELSE Max(mine)
Drained(w, items, before) == HighestTick(w, items, before)

Total(byChunk) == MapThenSumSet(LAMBDA w : byChunk[w], Chunks)

(* The parent takes one finished future: its results, or those of one retry in  *)
(* the parent, go to the places their indices name; the chunk counts as done     *)
(* whatever the queue said, and the queue is emptied.                            *)
Settle(w, produced, path, more) ==
  LET byChunk == [doneByChunk EXCEPT ![w] = Max({@, SizeOf(w)})]
      items == ticks \cup more
  IN /\ results' = [g \in Population |-> IF g \in DOMAIN produced THEN produced[g] ELSE results[g]]
     /\ paths' = [paths EXCEPT ![w] = path]
     /\ worker' = [worker EXCEPT ![w] = "settled"]
     /\ ticks' = {}
     /\ doneByChunk' = [v \in Chunks |-> Drained(v, items, byChunk[v])]
     /\ completed' = IF listened THEN Total(doneByChunk') 
                     ELSE completed + Cardinality({g \in DOMAIN produced :
                                                     threaded => produced[g] # EngineError})
     /\ UNCHANGED <<evalPhase, evidence, threaded, listened>>

Collect(w) ==
  \/ worker[w] = "returned" /\ Settle(w, ChunkResults(w, FALSE), "process", {})
  \/ worker[w] = "error" /\ Settle(w, ChunkResults(w, TRUE), "process", {})

(* A group that raises in a thread ends the evaluation once all have ended. *)
Abort ==
  /\ threaded /\ evalPhase = "running"
  /\ \E w \in Chunks : worker[w] = "raised"
  /\ \A w \in Chunks : worker[w] \in {"raised", "settled"}
  /\ evalPhase' = "aborted"
  /\ UNCHANGED <<evidence, threaded, listened, worker, ticks, doneByChunk, completed, results, paths>>

(* _single_worker_retry. *)
Retry(w) ==
  /\ ~threaded /\ worker[w] = "raised"
  /\ \/ \E error \in BOOLEAN :
          Settle(w, ChunkResults(w, error), "retry_single_worker", TicksOf(w, error))
     \/ Settle(w, [g \in GenomesOf(w) |-> Failed], "failed", {})

(* The wait times out after half a second: only the queue is emptied. *)
Poll ==
  /\ evalPhase = "running" /\ ticks # {}
  /\ doneByChunk' = [v \in Chunks |-> Drained(v, ticks, doneByChunk[v])]
  /\ completed' = Total(doneByChunk')
  /\ ticks' = {}
  /\ UNCHANGED <<evalPhase, evidence, threaded, listened, worker, results, paths>>

Conclude ==
  /\ evalPhase = "running" /\ \A w \in Chunks : worker[w] = "settled"
  /\ evalPhase' = "finished"
  /\ results' = [g \in Population |-> IF results[g] = NoResult THEN Failed ELSE results[g]]
  /\ UNCHANGED <<evidence, threaded, listened, worker, ticks, doneByChunk, completed, paths>>

WorkerEnds(w) == \E how \in {"returned", "error", "raised"} : Return(w, how)

ScoreNext ==
  \/ Evaluate \/ Poll \/ Abort \/ Conclude
  \/ \E w \in Chunks : Tick(w) \/ WorkerEnds(w) \/ Die(w) \/ Collect(w) \/ Retry(w)

(* --- what the theorems rest on -------------------------------------------------- *)
ScoreTypeOK ==
  /\ evalPhase \in {"idle", "running", "finished", "aborted"}
  /\ evidence \in [Population -> [decodes : BOOLEAN, pass : [Allowances -> Pass]]]
  /\ {threaded, listened} \subseteq BOOLEAN
  /\ worker \in [Chunks -> {"none", "running", "returned", "error", "raised", "settled"}]
  /\ paths \in [Chunks -> {"none", "process", "retry_single_worker", "failed"}]

(* What genome g of chunk w gets in one undisturbed pass over its whole chunk: its *)
(* share of the positions, and what was charged, once.                             *)
InItsChunk(w, g) ==
  IF ~evidence[g].decodes THEN Refused
  ELSE LET e == evidence[g].pass[Slots(SizeOf(w))] IN ScoreStats(e, e.cost)

(* How genome g of chunk w may have come out. *)
Explained(w, g) ==
  \/ results[g] = InItsChunk(w, g)
  \/ results[g] = EngineError /\ evidence[g].decodes /\ paths[w] # "failed"
  \/ results[g] = Failed /\ paths[w] = "failed"

(* Results are those of chunks that are settled, and nothing settles before the   *)
(* evaluation begins or after it has ended.                                       *)
ScoreInv ==
  /\ ScoreTypeOK
  /\ DOMAIN results = Population
  /\ evalPhase = "idle" => \A w \in Chunks : worker[w] = "none"
  /\ evalPhase = "finished" => \A w \in Chunks : worker[w] = "settled"
  /\ \A w \in Chunks : worker[w] = "settled" => \A g \in GenomesOf(w) : Explained(w, g)

(* --- properties --------------------------------------------------------------- *)
(* A genome's score is the one of its own ledger in one pass over its whole chunk, *)
(* whichever process, thread or retry that pass ran in: no sibling's result, no    *)
(* larger share of the positions because a sibling was refused (fitness.py:154),   *)
(* no cost charged twice; and no failure unless its chunk failed again in the      *)
(* parent or the engine refused the chunk (fitness.py:1721).                       *)
ScoredInItsChunk ==
  evalPhase = "finished" =>
    \A w \in Chunks : \A i \in 0..(SizeOf(w) - 1) : Explained(w, StartOf(w) + i)

(* The reported count of evaluated genomes never goes back and never passes the   *)
(* population, although items of a finished chunk may still be in the queue.       *)
ProgressOnlyGrows ==
  completed' >= completed /\ completed' <= Genomes
=============================================================================
