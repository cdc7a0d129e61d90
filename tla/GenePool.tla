------------------------------ MODULE GenePool ------------------------------
(*************************************************************************)
(* How the optimiser breeds strategies (core/ga/genome.py and the        *)
(* breeding half of core/ga/evolver.py): a genome is encoded from a      *)
(* strategy, bred, mutated, scored and decoded back, and the strategy    *)
(* that is published is decoded a second time, with the job's whitelist, *)
(* from the genome that scored best.  Job and checkpoint may disagree on *)
(* what is allowed.                                                      *)
(*                                                                       *)
(* Kept of a genome: what decides which conditions are traded, on which  *)
(* timeframes and in which regimes.  Left out: the numbers (periods,     *)
(* widths, the size scale), the names, the machine-learning genes, which *)
(* are pinned to no effect, the and/or of the conditions, which is       *)
(* carried through, and one of the two sides, which are treated alike.   *)
(*************************************************************************)
EXTENDS Naturals, FiniteSets

CONSTANTS Intervals,     \* the timeframes of the provider's registry, in minutes
          Conditions,    \* the condition templates in use
          GeneJobs,      \* jobs: the timeframe pool ({}: none) and the regime switch
          GeneSeeds,     \* strategies a population may be seeded with
          MaxBred        \* bound: breeding steps of a run

\* The pool of a job are timeframes in minutes; no condition has the name of the
\* indicator that produces the column of another one.
GenePoolAssumption ==
  /\ GeneJobs \subseteq [pool : SUBSET Nat, switch : BOOLEAN]
  /\ "volume_flow" \notin Conditions
  /\ \A s \in GeneSeeds : "volume_flow" \notin {e[1] : e \in s.entry} \cup s.exit

VARIABLES job,     \* the job that runs
          pop,     \* its population
          bred

geneVars == <<job, pop, bred>>

(* --- the tables --------------------------------------------------------- *)
IndicatorNames == {"rsi", "ema", "obv"}
NoGeneJob == [pool |-> {}, switch |-> TRUE]   \* before the run's job is read
Labels == {"bull", "range"}

(* The columns compute_all adds to every frame, and those of each indicator. *)
AlwaysAvailable == {"close", "volume_ratio", "ema_fast", "sma"}
ColumnsOf(i) ==
  CASE i = "ema" -> {"ema_fast"} [] i = "bollinger" -> {"bollinger_lower"}
    [] i = "volume_flow" -> {"obv_slope"} [] OTHER -> {i}
Produced(indicators) == AlwaysAvailable \cup UNION {ColumnsOf(i) : i \in indicators}

(* What a condition reads, and which indicators the sanitiser wants for it:  *)
(* it looks for column names as substrings, so that obv_slope asks for obv.  *)
Reads(c) ==
  CASE c = "ema" -> {"close", "ema_fast"} [] c = "bollinger" -> {"close", "bollinger_lower"}
    [] c = "sma" -> {"close", "sma"} [] c = "volume" -> {"volume_ratio"}
    [] c = "slope" -> {"obv_slope"} [] OTHER -> {c}
NeedsNoObv(c) ==
  CASE c \in {"sma", "volume", "obv"} -> {} [] c = "slope" -> {"volume_flow"} [] OTHER -> {c}
Needs(c) ==
  CASE c \in {"sma", "volume"} -> {} [] c = "slope" -> {"obv", "volume_flow"} [] OTHER -> {c}
ReadsFlow(c) == "obv_slope" \in Reads(c)

(* --- the whitelist and the regime switch --------------------------------- *)
Shortest(T) == CHOOSE t \in T : \A u \in T : t <= u
Allowed(pool) == IF pool = {} THEN Intervals ELSE pool
TimeframeOptions(pool) ==
  {T \in SUBSET Allowed(pool) : Cardinality(T) = (IF Cardinality(Allowed(pool)) = 1 THEN 1 ELSE 2)}
ConfineTimeframes(T, pool) ==
  CASE pool = {} -> T [] pool # {} /\ T \cap pool # {} -> T \cap pool [] OTHER -> {Shortest(pool)}

ConfineRegime(r, switch) == IF switch THEN r \cap Labels ELSE {}

Unconfined(g, j) == g
Confined(g, j) ==
  [g EXCEPT !.tf = ConfineTimeframes(@, j.pool), !.regime = ConfineRegime(@, j.switch)]

(* --- a genome as a strategy ---------------------------------------------- *)
(* An indicator needs its boolean gene and, but for obv, its continuous ones. *)
Live(g) == {i \in g.on : i \in g.cont \/ i = "obv"}
Fallback(g) == CASE "rsi" \in g.cont -> {"rsi"} [] "rsi" \notin g.cont /\ "ema" \in g.cont -> {"ema"}
                 [] OTHER -> {}
Decoded(g) ==
  (IF Live(g) # {} THEN Live(g) ELSE Fallback(g))
    \cup (IF \E c \in g.entry \cup g.exit : ReadsFlow(c) THEN {"volume_flow"} ELSE {})

Enabled(g) == Decoded(g)

(* _sanitize_conditions: never an empty list. *)
Sanitized(conds, enabled) ==
  LET clean == {c \in conds : Needs(c) \subseteq enabled}
  IN IF clean # {} THEN clean
     ELSE {CASE "ema" \in enabled -> "ema"
             [] "ema" \notin enabled /\ "bollinger" \in enabled -> "bollinger"
             [] OTHER -> "sma"}

(* chromosome_to_strategy; the volume filter wraps every entry condition. *)
Decode(g, j) ==
  [tf |-> ConfineTimeframes(g.tf, j.pool), regime |-> ConfineRegime(g.regime, j.switch),
   indicators |-> Decoded(g),
   entry |-> {<<c, g.rvol>> : c \in Sanitized(g.entry, Enabled(g))},
   exit |-> Sanitized(g.exit, Enabled(g))]

(* strategy_to_chromosome; the wrapped conditions are unwrapped again. *)
Encode(s, j) ==
  [tf |-> ConfineTimeframes(s.tf, j.pool), regime |-> ConfineRegime(s.regime, j.switch),
   on |-> s.indicators \cap IndicatorNames, cont |-> (s.indicators \cap IndicatorNames) \ {"obv"},
   rvol |-> \E e \in s.entry : e[2],
   entry |-> {e[1] : e \in s.entry}, exit |-> s.exit]

(* The fitness path decodes without the pool: it relies on the confinement. *)
ScoredAs(g, j) == Decode(g, [j EXCEPT !.pool = {}])

Evaluable(s) == \A c \in {e[1] : e \in s.entry} \cup s.exit : Reads(c) \subseteq Produced(s.indicators)

(* --- breeding -------------------------------------------------------------- *)
Random(j) ==
  {[tf |-> T, regime |-> r, on |-> on, cont |-> on \ {"obv"}, rvol |-> FALSE,
    entry |-> {c}, exit |-> {"sma"}] :
     T \in TimeframeOptions(j.pool), on \in {{"rsi"}, {"ema", "obv"}}, c \in Conditions,
     r \in IF j.switch THEN {{}, {"bull"}} ELSE {{}}}

(* _crossover: by name, the union of the continuous genes, each other gene   *)
(* from either parent, conditions sampled from the union of the parents'.    *)
Between(a, b) == {S \in SUBSET (a \cup b) : a \cap b \subseteq S}
Children(p, q) ==
  {[tf |-> T, regime |-> r, on |-> on, cont |-> p.cont \cup q.cont, rvol |-> v,
    entry |-> en, exit |-> ex] :
     T \in {p.tf, q.tf}, r \in {p.regime, q.regime}, on \in Between(p.on, q.on),
     v \in {p.rvol, q.rvol},
     en \in (SUBSET (p.entry \cup q.entry)) \ {{}}, ex \in {p.exit, q.exit}}

(* _mutate touches each gene or not; one at a time, the others in later steps.*)
Mutated(g, j) ==
  {Confined(h, j) : h \in
       {[g EXCEPT !.tf = T] : T \in TimeframeOptions(j.pool)}
     \cup {[g EXCEPT !.regime = r] : r \in IF j.switch THEN {{}, {"bull"}} ELSE {g.regime}}
     \cup {[g EXCEPT !.on = (@ \ {i}) \cup ({i} \ @)] : i \in IndicatorNames}
     \cup {[g EXCEPT !.entry = @ \cup {c}] : c \in Conditions}
     \cup {[g EXCEPT !.entry = @ \ {c}] : c \in IF Cardinality(g.entry) > 1 THEN g.entry ELSE {}}
     \cup {[g EXCEPT !.rvol = ~@]}}

GeneInit == job = NoGeneJob /\ pop = {} /\ bred = 0

(* A fresh run seeds or draws its population; a resumed one takes it from a   *)
(* checkpoint that any job may have written.  _evolve_arm confines either.     *)
StartBreeding ==
  /\ job = NoGeneJob /\ job' \in GeneJobs
  /\ \E before \in GeneJobs : \E h \in Random(before) :
       \E g \in Random(before) \cup {Encode(s, job') : s \in GeneSeeds} :
         pop' = {Confined(g, job'), Confined(h, job')}
  /\ UNCHANGED bred

(* _next_generation: an elite stays, the rest are bred or drawn. *)
Breed(elite, child) ==
  /\ bred < MaxBred /\ bred' = bred + 1
  /\ pop' = {elite, child}
  /\ UNCHANGED job

Crossover(p, q) == \E child \in Children(p, q) : Breed(p, child)
Mutate(p) == \E child \in Mutated(p, job) : Breed(p, child)
Immigrate(p) == \E child \in Random(job) : Breed(p, child)

GeneNext == StartBreeding \/ \E p, q \in pop : Crossover(p, q) \/ Mutate(p) \/ Immigrate(p)

(* --- what the theorems rest on ----------------------------------------------- *)
(* Every genome is confined to what its job allows, wherever it came from, and   *)
(* encodes no indicator but those that have a gene.                              *)
GenomeOK(g) ==
  /\ g = [tf |-> g.tf, regime |-> g.regime, on |-> g.on, cont |-> g.cont, rvol |-> g.rvol,
          entry |-> g.entry, exit |-> g.exit]
  /\ g.on \subseteq IndicatorNames /\ g.rvol \in BOOLEAN
  /\ "volume_flow" \notin g.entry \cup g.exit

IsConfined(g, j) ==
  ConfineTimeframes(g.tf, j.pool) = g.tf /\ ConfineRegime(g.regime, j.switch) = g.regime

GenePoolInv ==
  /\ job \in GeneJobs \cup {NoGeneJob}
  /\ \A g \in pop : job \in GeneJobs /\ GenomeOK(g) /\ IsConfined(g, job)

(* --- properties ------------------------------------------------------------ *)
(* What the conditions of a genome read is on the frame it is evaluated on,   *)
(* after any crossover and mutation: a genome is never scored on fewer         *)
(* conditions than it declares (genome.py:1453, "No silent drops").            *)
ConditionsEvaluable == \A g \in pop : Evaluable(ScoredAs(g, job))

(* A genome trades what it was scored as: the decode that publishes it, with   *)
(* the job's pool and switch, changes nothing, and so does a second encode and  *)
(* decode, when it becomes the seed of a later run (genome.py:1170, "Scoring    *)
(* and live entry must agree").                                                 *)
Trades(s) == [s EXCEPT !.indicators = {}]
PublishedAsScored ==
  \A g \in pop : LET s == Decode(g, job)
                 IN s = ScoredAs(g, job) /\ Trades(Decode(Encode(s, job), job)) = Trades(s)
=============================================================================
