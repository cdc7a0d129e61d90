----------------------------- MODULE Lifecycle ------------------------------
(*************************************************************************)
(* The strategy lifecycle (core/ai/strategy_lifecycle.py): an hourly     *)
(* loop generates, retires and optimises strategies, a web route starts  *)
(* the same passes, and the operator edits the strategies meanwhile.     *)
(* Every pass waits for the model or for a backtest between what it read *)
(* and what it writes.                                                   *)
(*                                                                       *)
(* A strategy is kept twice: its file, and the copy the live engine      *)
(* runs.  Of its configuration: who wrote the parameters, the coins it   *)
(* is restricted to (none: every coin) and whether it is enabled.        *)
(*************************************************************************)
EXTENDS FiniteSets, Naturals

CONSTANTS Names,       \* strategy names: those on disk at start and a new one
          Newborn,       \* the name the model gives to a strategy it invents
          Coins,       \* the watchlist
          Losses,      \* the coins a strategy may lose on in a matrix
          MaxEdits,    \* bound: edits of the operator
          MaxRounds    \* bound: intervals that pass

LifecycleAssumption == Newborn \in Names /\ Losses \subseteq SUBSET Coins

Passes == {"loop", "web"}
Jobs == {"generate", "retire", "optimize"}

VARIABLES file, engine,
          aiMode,      \* "suggest" or "auto" (semi_auto and full_auto act alike here)
          due,         \* per job: its interval has passed
          pass,        \* per caller: the pass it is in
          edits, rounds

lifeVars == <<file, engine, aiMode, due, pass, edits, rounds>>

Absent == [by |-> "nobody", coins |-> {}, on |-> FALSE]
OnDisk == {n \in Names : file[n] # Absent}
Trades(c) == IF c.coins = {} THEN Coins ELSE c.coins

NoPass == [pc |-> "idle", todo |-> {}, name |-> Newborn, seen |-> Absent, mode |-> "none",
           losing |-> [n \in Names |-> {}], poor |-> {}, gap |-> {}]

LifeInit ==
  /\ file = [n \in Names |-> IF n = Newborn THEN Absent
                             ELSE [by |-> "operator", coins |-> {}, on |-> TRUE]]
  /\ engine = file
  /\ aiMode = "auto" /\ due = [j \in Jobs |-> TRUE]
  /\ pass = [p \in Passes |-> NoPass]
  /\ edits = 0 /\ rounds = 0

Go(p, new) == pass' = [pass EXCEPT ![p] = new]
At(p, pc) == pass[p].pc = pc
End(p) == Go(p, NoPass)

(* --- the operator ---------------------------------------------------------- *)
Rewrite(n, c, always) ==
  /\ file' = [file EXCEPT ![n] = c]
  /\ engine' = IF always \/ engine[n] # Absent THEN [engine EXCEPT ![n] = c] ELSE engine
Reload == engine' = file /\ UNCHANGED file

Edit(n) ==
  /\ edits < MaxEdits /\ edits' = edits + 1
  /\ \/ file[n] # Absent /\ Rewrite(n, [file[n] EXCEPT !.by = "edited"], TRUE)
     \/ file[n] # Absent /\ Rewrite(n, [file[n] EXCEPT !.on = ~@], FALSE)
     \/ file[n] # Absent /\ \E cs \in SUBSET Coins : Rewrite(n, [file[n] EXCEPT !.coins = cs], FALSE)
     \/ file[n] # Absent /\ Rewrite(n, Absent, TRUE)
     \/ Reload
  /\ UNCHANGED <<aiMode, due, pass, rounds>>

SetMode ==
  /\ edits < MaxEdits /\ edits' = edits + 1
  /\ aiMode' = IF aiMode = "auto" THEN "suggest" ELSE "auto"
  /\ UNCHANGED <<file, engine, due, pass, rounds>>

(* --- the intervals ------------------------------------------------------------ *)
(* The stamp is set before the first wait: who comes later is turned away.        *)
Holding(j) == {p \in Passes : pass[p].pc \in
  (CASE j = "generate" -> {"generating", "filling"} [] j = "retire" -> {"retiring", "judging"}
     [] OTHER -> {"matrix", "removing", "improving", "asking", "testing", "gaps", "filling"})}
Elapse(j) ==
  /\ ~due[j] /\ Holding(j) = {}
  /\ rounds < MaxRounds /\ rounds' = rounds + 1
  /\ due' = [due EXCEPT ![j] = TRUE]
  /\ UNCHANGED <<file, engine, aiMode, pass, edits>>
StampFirst(j) == due[j] /\ due' = [due EXCEPT ![j] = FALSE]
StampAtTheEnd(j) == due[j] /\ UNCHANGED due
Stamp(j) == StampFirst(j)

(* --- generating ----------------------------------------------------------------- *)
Generate(p) ==
  /\ At(p, "idle") /\ Stamp("generate")
  /\ Go(p, [NoPass EXCEPT !.pc = "generating"])
  /\ UNCHANGED <<file, engine, aiMode, edits, rounds>>

Invented(cs) == [by |-> "model", coins |-> cs, on |-> TRUE]

(* The loop drops what comes back; the route saves it and reloads every file. *)
Generated(p) ==
  /\ At(p, "generating") /\ End(p)
  /\ \/ p = "loop" /\ UNCHANGED <<file, engine>>
     \/ /\ p = "web"
        /\ \/ file' = [file EXCEPT ![Newborn] = Invented({})] /\ engine' = file'
           \/ UNCHANGED <<file, engine>>                 \* no answer, or not a strategy
  /\ UNCHANGED <<aiMode, due, edits, rounds>>

(* --- retiring --------------------------------------------------------------------- *)
Retire ==
  /\ At("loop", "idle") /\ Stamp("retire")
  /\ Go("loop", [NoPass EXCEPT !.pc = "retiring", !.todo = OnDisk])
  /\ UNCHANGED <<file, engine, aiMode, edits, rounds>>

(* A strategy deleted under the pass raises, which ends it. *)
Judge ==
  /\ At("loop", "retiring")
  /\ \/ pass["loop"].todo = {} /\ End("loop")
     \/ \E n \in pass["loop"].todo :
          IF file[n] = Absent THEN End("loop")
          ELSE Go("loop", [pass["loop"] EXCEPT !.pc = "judging", !.name = n, !.seen = file[n]])
  /\ UNCHANGED <<file, engine, aiMode, due, edits, rounds>>

(* The file is read again after the backtest: only the switch is thrown.  The        *)
(* engine's copy is left as it is.                                                  *)
SwitchOff(n, seen) == [file EXCEPT ![n] = [file[n] EXCEPT !.on = FALSE]]
SwitchOffAsSeen(n, seen) == [file EXCEPT ![n] = [seen EXCEPT !.on = FALSE]]
RetiredFile(n, seen) == SwitchOff(n, seen)
Judged ==
  LET me == pass["loop"] n == me.name
      next == [me EXCEPT !.pc = "retiring", !.todo = @ \ {n}, !.name = Newborn, !.seen = Absent]
  IN /\ At("loop", "judging")
     /\ \/ Go("loop", next) /\ UNCHANGED file                                 \* it stays
        \/ file[n] = Absent /\ End("loop") /\ UNCHANGED file
        \/ /\ file[n] # Absent /\ Go("loop", next)
           /\ file' = IF aiMode = "auto" THEN RetiredFile(n, me.seen) ELSE file
     /\ UNCHANGED <<engine, aiMode, due, edits, rounds>>

(* --- the matrix pass ---------------------------------------------------------------- *)
Analyse(p) ==
  /\ At(p, "idle") /\ Stamp("optimize")
  /\ IF OnDisk = {} THEN UNCHANGED pass
     ELSE Go(p, [NoPass EXCEPT !.pc = "matrix", !.todo = OnDisk, !.mode = aiMode])
  /\ UNCHANGED <<file, engine, aiMode, edits, rounds>>

(* The backtest of every strategy on every coin: which cells lose, which strategies   *)
(* lose in most of theirs, and the coins no strategy wins on.                         *)
MatrixDone(p) ==
  /\ At(p, "matrix")
  /\ \/ End(p)
     \/ \E losing \in [pass[p].todo -> Losses] :
          LET poor == {n \in pass[p].todo : losing[n] = Coins}
              gap == {c \in Coins : \A n \in pass[p].todo : c \in losing[n]}
          IN Go(p, [pass[p] EXCEPT !.pc = "removing", !.poor = poor, !.gap = gap,
                      !.losing = [n \in Names |-> IF n \in pass[p].todo THEN losing[n] ELSE {}]])
  /\ UNCHANGED <<file, engine, aiMode, due, edits, rounds>>

(* Losing coins leave the strategy's list, which is read and written in one go. *)
Restricted(n, losing) == [file[n] EXCEPT !.coins = Trades(file[n]) \ losing]
Remove(p) ==
  LET me == pass[p]
  IN /\ At(p, "removing")
     /\ IF me.todo = {}
        THEN Go(p, [NoPass EXCEPT !.pc = "improving", !.todo = me.poor, !.mode = me.mode, !.gap = me.gap]) /\ UNCHANGED <<file, engine>>
        ELSE \E n \in me.todo :
               /\ Go(p, [me EXCEPT !.todo = @ \ {n}])
               /\ IF me.mode = "auto" /\ file[n] # Absent /\ me.losing[n] \cap Trades(file[n]) # {}
                  THEN Rewrite(n, Restricted(n, me.losing[n]), FALSE)
                  ELSE UNCHANGED <<file, engine>>
     /\ UNCHANGED <<aiMode, due, edits, rounds>>

(* Asking the model to tune a poor strategy: read, ask, backtest, write. *)
Improve(p) ==
  LET me == pass[p]
  IN /\ At(p, "improving")
     /\ IF me.todo = {} \/ me.mode = "suggest"
        THEN Go(p, [NoPass EXCEPT !.pc = "gaps", !.mode = me.mode, !.gap = me.gap])
        ELSE \E n \in me.todo :
               LET rest == [me EXCEPT !.todo = @ \ {n}, !.name = n, !.seen = file[n]]
               IN Go(p, IF file[n] = Absent THEN rest ELSE [rest EXCEPT !.pc = "asking"])
     /\ UNCHANGED <<file, engine, aiMode, due, edits, rounds>>

\* No answer or one that is no strategy leaves this strategy alone; an answer that is JSON
\* but no object raises, which ends the pass.
Asked(p) ==
  /\ At(p, "asking")
  /\ \/ \E pc \in {"testing", "improving"} : Go(p, [pass[p] EXCEPT !.pc = pc])
     \/ End(p)
  /\ UNCHANGED <<file, engine, aiMode, due, edits, rounds>>

(* The backtest loads the strategy by name, hence the configuration on disk and not    *)
(* the tuned one.  Either way the whole configuration is written from what was read    *)
(* before the wait.                                                                  *)
Tuned(seen, cs) == [seen EXCEPT !.by = "tuned", !.coins = cs]
Tested(p) ==
  LET me == pass[p] n == me.name
      back == Go(p, [me EXCEPT !.pc = "improving", !.name = Newborn, !.seen = Absent])
  IN /\ At(p, "testing")
     /\ \/ back /\ UNCHANGED <<file, engine>>                                  \* an error
        \/ End(p) /\ UNCHANGED <<file, engine>>                                \* it raises
        \/ back /\ \E cs \in {me.seen.coins, {}} : Rewrite(n, Tuned(me.seen, cs), TRUE)
        \/ back /\ Rewrite(n, [me.seen EXCEPT !.on = FALSE], TRUE)
     /\ UNCHANGED <<aiMode, due, edits, rounds>>

(* Coins nobody wins on: a new strategy, if a generation is due. *)
Gaps(p) ==
  LET me == pass[p]
  IN /\ At(p, "gaps")
     /\ \/ me.gap # {} /\ me.mode = "auto" /\ Stamp("generate")
           /\ Go(p, [me EXCEPT !.pc = "filling"])
        \/ (me.gap = {} \/ me.mode = "suggest" \/ ~due["generate"]) /\ End(p) /\ UNCHANGED due
     /\ UNCHANGED <<file, engine, aiMode, edits, rounds>>

Filled(p) ==
  /\ At(p, "filling") /\ End(p)
  /\ \/ file' = [file EXCEPT ![Newborn] = Invented(pass[p].gap)] /\ engine' = file'
     \/ UNCHANGED <<file, engine>>
  /\ UNCHANGED <<aiMode, due, edits, rounds>>

LifeNext ==
  \/ SetMode \/ Retire \/ Judge \/ Judged
  \/ \E n \in Names : Edit(n)
  \/ \E j \in Jobs : Elapse(j)
  \/ \E p \in Passes :
       Generate(p) \/ Generated(p) \/ Analyse(p) \/ MatrixDone(p) \/ Remove(p) \/ Improve(p)
       \/ Asked(p) \/ Tested(p) \/ Gaps(p) \/ Filled(p)

(* --- properties --------------------------------------------------------------------- *)
(* The loop and the route never analyse at the same time, although both may come the    *)
(* moment the interval has passed (strategy_lifecycle.py:291): two passes would retire   *)
(* and rewrite the same strategies on two matrices.                                     *)
OneAnalysisAtATime == Cardinality(Holding("optimize")) <= 1

(* The types, and what the stamp that is set before the first wait keeps. *)
Configs == [by : {"nobody", "operator", "edited", "model", "tuned"}, coins : SUBSET Coins, on : BOOLEAN]
PassType ==
  [pc : {"idle", "generating", "filling", "retiring", "judging", "matrix", "removing", "improving",
         "asking", "testing", "gaps"},
   todo : SUBSET Names, name : Names, seen : Configs, mode : {"none", "auto", "suggest"},
   losing : [Names -> SUBSET Coins], poor : SUBSET Names, gap : SUBSET Coins]
LifeTypeOK ==
  /\ file \in [Names -> Configs] /\ engine \in [Names -> Configs]
  /\ aiMode \in {"auto", "suggest"} /\ due \in [Jobs -> BOOLEAN]
  /\ pass \in [Passes -> PassType]
StampFollows ==
  /\ \A p, q \in Holding("optimize") : p = q
  /\ due["optimize"] => Holding("optimize") = {}
LifeInv == LifeTypeOK /\ StampFollows

(* Retiring throws the switch and nothing else: what the operator wrote during the       *)
(* backtest is not undone (strategy_lifecycle.py:225).                                  *)
RetireKeepsEdits ==
  At("loop", "judging") /\ pass'["loop"].pc = "retiring" =>
    LET n == pass["loop"].name
    IN file'[n].by = file[n].by /\ file'[n].coins = file[n].coins

(* What the code does not keep: a tuned strategy that goes live is what its backtest ran *)
(* (strategy_lifecycle.py:452, "Returns True if the optimized strategy was saved and      *)
(* passes backtest").                                                                  *)
TunedWasTested ==
  [][\A p \in Passes : At(p, "testing") =>
       LET n == pass[p].name
       IN engine'[n] # engine[n] /\ engine'[n].by = "tuned" => engine'[n] = file[n]]_lifeVars
=============================================================================
