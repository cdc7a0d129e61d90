------------------------------- MODULE GaRun -------------------------------
(*************************************************************************)
(* The genetic optimiser as processes that share files: a worker         *)
(* (scripts/ga_worker.py) evolves one population per arm and window      *)
(* (core/ga/evolver.py, core/ga/walkforward.py), and what survives it is *)
(* the checkpoint, the trial ledger, the walk-forward state and the      *)
(* champions it has published.  The web server that starts, watches and  *)
(* kills the workers is GaDesk.                                          *)
(*                                                                       *)
(* A population is abstracted to what the properties tell apart: the     *)
(* window and the arm its genomes were scored on (`on`) and whether a    *)
(* generation brought a better head.  Fitness values, genes and the      *)
(* engine are left out (see GenePool and Backtest).                      *)
(*************************************************************************)
EXTENDS Naturals, Sequences, FiniteSets

CONSTANTS Jobs,         \* the jobs an operator may submit
          Dates, Coins, \* the windows and the symbols they are made of
          MaxLaunches,  \* bound: processes started, numbered in their order
          Population,   \* genomes per generation: the trials it performs
          EarlyStop     \* generations without improvement that end an arm

Kinds == {"ga", "wf"}
Modes == {"pooled", "per_symbol"}
SomeOf(S) == Seq(S) \ {<<>>}

ASSUME GaRunAssumption ==
  /\ MaxLaunches \in Nat /\ Population \in Nat \ {0} /\ EarlyStop \in Nat \ {0}
  /\ Jobs \subseteq [kind : Kinds, windows : SomeOf(Dates), mode : Modes,
                     symbols : SomeOf(Coins), keep : BOOLEAN, generations : Nat]

Workers == 1..MaxLaunches

VARIABLES wk,        \* the processes: memory and program counter
          ckpt,      \* data/ga_checkpoint.pkl
          ledger,    \* data/ga_trials.json
          wfState,   \* data/ga_wf_state.json: windows completed, or Missing
          champions  \* the strategies last published, with their provenance

runVars == <<wk, ckpt, ledger, wfState, champions>>

Missing == [file |-> "missing"]
Torn == [file |-> "torn"]        \* a file that was being written when its writer died
NoOne == [on |-> <<>>]           \* no champion yet
Larger(a, b) == IF a >= b THEN a ELSE b

Idle == [pc |-> "off"]
Alive(w) == wk[w].pc \notin {"off", "dead", "exited"}
Exited(m, out) == [pc |-> "exited", job |-> m.job, rows |-> m.rows, out |-> out]

(* --- what a job asks for ------------------------------------------------ *)
Arms(job) == IF job.mode = "per_symbol" THEN [i \in 1..Len(job.symbols) |-> <<job.symbols[i]>>]
             ELSE <<job.symbols>>
ArmTag(job, arm) == IF job.mode = "per_symbol" THEN arm ELSE <<>>
Window(m) == m.job.windows[m.win]
Arm(m) == Arms(m.job)[m.arm]

(* --- the trial ledger ---------------------------------------------------- *)
(* A ledger that is missing or cannot be read counts as zero trials.        *)
Unreadable == 0
LoadTrials == ledger
LedgerTrials(prior, total, mine) == total
DsrTrials(prior, total, mine) == Larger(total, prior + mine)

(* --- the checkpoint ------------------------------------------------------ *)
Readable(c) == c # Missing /\ c # Torn
NoMismatch(c, m) == FALSE
WindowMismatch(c, m) == Readable(c) /\ c.window # Window(m)
ModeMismatch(c, m) == Readable(c) /\ c.mode # m.job.mode
Refused(c, m) == WindowMismatch(c, m) \/ ModeMismatch(c, m)

(* _save_checkpoint: taken before the generation's head is compared with    *)
(* the best so far, so it may hold the best of the generation before.       *)
Snapshot(m) ==
  [file |-> "whole", window |-> Window(m), mode |-> m.job.mode,
   tag |-> ArmTag(m.job, Arm(m)), gen |-> m.gen, pop |-> m.pop, best |-> m.best,
   trials |-> m.prior + m.mine, history |-> m.history]

(* --- the states of a process --------------------------------------------- *)
(* main and run_ga/run_walkforward: the job is read, the ledger is not yet.  *)
(* A walk-forward run that resumes goes on after the windows it has recorded.*)
WindowAfterNext == wfState.done + 2
NextWindow == wfState.done + 1
Continues(job, resume) == job.kind = "wf" /\ resume /\ Readable(wfState)
Started(job, resume) ==
  LET at == IF Continues(job, resume) THEN NextWindow ELSE 1
  IN [pc |-> "window", job |-> job, resume |-> resume, win |-> at, first |-> at,
      rows |-> IF Continues(job, resume) THEN wfState.rows ELSE <<>>]

(* _evolve_arm's reset of the per-arm state. *)
FreshArm(m) ==
  [m EXCEPT !.pc = "generation", !.gen = 0, !.pop = <<>>, !.best = NoOne, !.stale = 0,
            !.history = <<>>]

(* _restore_checkpoint and the trial floor a resumed arm takes from it. *)
Carried(m, c, gen) ==
  [m EXCEPT !.pc = "generation", !.gen = gen, !.pop = c.pop, !.best = c.best, !.stale = 0,
            !.history = c.history, !.prior = Larger(m.prior, c.trials)]
RestoredFromStart(m, c) == Carried(m, c, 0)
Restored(m, c) == Carried(m, c, c.gen)

(* --- evolve: one call per window ----------------------------------------- *)
Failed(m) == Exited(m, "error")

(* A walk-forward run writes its state before each window. *)
EnterWindow(m) == IF m.job.kind = "wf"
                  THEN [file |-> "whole", done |-> m.win - 1, rows |-> m.rows] ELSE wfState

(* Only the first window of a walk-forward run may resume its population. *)
MayResume(m) == m.resume /\ (m.job.kind = "ga" \/ m.win = m.first)

Evolve(w) ==
  LET m == wk[w]
      fresh == [pc |-> "arm", job |-> m.job, resume |-> m.resume, win |-> m.win,
                first |-> m.first, rows |-> m.rows, arm |-> 1,
                again |-> MayResume(m), pending |-> Missing, prior |-> LoadTrials, mine |-> 0,
                runs |-> <<>>, gen |-> 0, pop |-> <<>>, best |-> NoOne, stale |-> 0,
                history |-> <<>>, read |-> 0]
      reads == fresh.again /\ m.job.mode = "per_symbol"
  IN /\ m.pc = "window" /\ m.win <= Len(m.job.windows)
     /\ wfState' = EnterWindow(m)
     /\ \/ /\ ~reads
           /\ wk' = [wk EXCEPT ![w] = fresh]
        \/ /\ reads /\ ~Refused(ckpt, fresh)
           /\ wk' = [wk EXCEPT ![w] = [fresh EXCEPT !.pending = IF Readable(ckpt) THEN ckpt
                                                                ELSE Missing]]
        \/ /\ reads /\ Refused(ckpt, fresh)
           /\ wk' = [wk EXCEPT ![w] = IF m.job.kind = "wf" THEN [fresh EXCEPT !.again = FALSE]
                                      ELSE Failed(fresh)]
     /\ UNCHANGED <<ckpt, ledger, champions>>

(* _evolve_arm: continue the arm the checkpoint belongs to, or start anew. *)
OwnTag(c, m) == c.tag = ArmTag(m.job, Arm(m))

StartArm(w) ==
  LET m == wk[w]
      source == IF Readable(m.pending) THEN m.pending ELSE ckpt
      refused == m.again /\ ~Readable(m.pending) /\ Refused(ckpt, m)
      resumes == m.again /\ Readable(source) /\ OwnTag(source, m)
  IN /\ m.pc = "arm"
     /\ \/ /\ ~refused
           /\ wk' = [wk EXCEPT ![w] = IF resumes THEN Restored(m, source) ELSE FreshArm(m)]
        \/ /\ refused
           /\ wk' = [wk EXCEPT ![w] = IF m.job.kind = "wf"
                                      THEN [m EXCEPT !.pc = "window", !.resume = FALSE]
                                      ELSE Failed(m)]
     /\ UNCHANGED <<ckpt, ledger, wfState, champions>>

(* One generation is scored on the arm's symbols over the window; then its  *)
(* trials go to the ledger, which is read, truncated and written without a  *)
(* lock that another process would see.                                     *)
Score(w) ==
  LET m == wk[w] IN
  /\ m.pc = "generation" /\ m.gen < m.job.generations
  /\ wk' = [wk EXCEPT ![w] = [m EXCEPT !.pc = "recording", !.gen = m.gen + 1,
                                       !.pop = <<Window(m), Arm(m)>>,
                                       !.read = LoadTrials]]
  /\ ledger' = Unreadable
  /\ UNCHANGED <<ckpt, wfState, champions>>

Record(w) ==
  LET m == wk[w] IN
  /\ m.pc = "recording"
  /\ ledger' = m.read + Population
  /\ wk' = [wk EXCEPT ![w] = [m EXCEPT !.pc = "save", !.read = 0, !.mine = m.mine + Population,
                                       !.history = Append(m.history, m.gen)]]
  /\ UNCHANGED <<ckpt, wfState, champions>>

SaveOpen(w) ==
  /\ wk[w].pc = "save"
  /\ wk' = [wk EXCEPT ![w].pc = "saving"]
  /\ ckpt' = Torn
  /\ UNCHANGED <<ledger, wfState, champions>>

(* The checkpoint is complete; then the best so far, the early stop and the *)
(* next generation.  Before anything has scored, a generation may fail to   *)
(* bring a champion at all.                                                 *)
Save(w) ==
  LET m == wk[w] IN
  /\ m.pc = "saving"
  /\ ckpt' = Snapshot(m)
  /\ \E better \in BOOLEAN :
       LET n == [m EXCEPT !.best = IF better THEN [on |-> m.pop] ELSE m.best,
                          !.stale = IF better THEN 0 ELSE m.stale + 1]
       IN wk' = [wk EXCEPT ![w] = [n EXCEPT !.pc = IF n.stale >= EarlyStop THEN "armdone"
                                                   ELSE "generation"]]
  /\ UNCHANGED <<ledger, wfState, champions>>

(* The arm is over: its checkpoint is kept or cleared, and the next arm     *)
(* starts.  Champions wait until every arm of the run has been scored.      *)
EndArm(w) ==
  LET m == wk[w]
      result == [best |-> m.best, arm |-> Arm(m), gen |-> m.gen, history |-> m.history]
      clears == m.best # NoOne /\ ~m.job.keep
  IN /\ \/ m.pc = "armdone"
        \/ m.pc = "generation" /\ m.gen >= m.job.generations
     /\ ckpt' = IF clears THEN Missing ELSE ckpt
     /\ wk' = [wk EXCEPT ![w] =
                [m EXCEPT !.runs = Append(m.runs, result),
                          !.arm = IF m.arm < Len(Arms(m.job)) THEN m.arm + 1 ELSE m.arm,
                          !.pc = IF m.arm < Len(Arms(m.job)) THEN "arm" ELSE "publish"]]
     /\ UNCHANGED <<ledger, wfState, champions>>

(* _publish_arm for every arm: the count the champion is deflated by is     *)
(* taken once, after the last arm.  A walk-forward run records the window.  *)
Published(m, r, n) ==
  [on |-> r.best.on, window |-> Window(m), mode |-> m.job.mode, arm |-> r.arm, trials |-> n,
   history |-> r.history, gen |-> r.gen]

Publish(w) ==
  LET m == wk[w]
      n == DsrTrials(m.prior, LoadTrials, m.mine)
      scored == {i \in 1..Len(m.runs) : m.runs[i].best # NoOne}
      rows == Append(m.rows, m.win)
  IN /\ m.pc = "publish"
     /\ champions' = {Published(m, m.runs[i], n) : i \in scored}
     /\ \/ /\ m.job.kind = "ga"
           /\ wk' = [wk EXCEPT ![w] = Exited(m, IF scored = {} THEN "error" ELSE "result")]
           /\ UNCHANGED wfState
        \/ /\ m.job.kind = "wf"
           /\ wfState' = [file |-> "whole", done |-> m.win, rows |-> rows]
           /\ wk' = [wk EXCEPT ![w] = [m EXCEPT !.pc = "window", !.win = m.win + 1,
                                                !.rows = rows]]
     /\ UNCHANGED <<ckpt, ledger>>

(* The last window is done: the state file goes and the report is written. *)
Report(w) ==
  LET m == wk[w] IN
  /\ m.pc = "window" /\ m.win > Len(m.job.windows)
  /\ wfState' = Missing
  /\ wk' = [wk EXCEPT ![w] = Exited(m, "result")]
  /\ UNCHANGED <<ckpt, ledger, champions>>

(* A process that is killed or crashes takes its memory with it. *)
Killed(w) == [pc |-> "dead", job |-> [kind |-> wk[w].job.kind]]

Work(w) == \/ Evolve(w) \/ StartArm(w) \/ Score(w) \/ Record(w) \/ SaveOpen(w) \/ Save(w) \/ EndArm(w) \/ Publish(w) \/ Report(w)

RunInit == /\ wk = [w \in Workers |-> Idle]
           /\ ckpt = Missing /\ ledger = 0 /\ wfState = Missing /\ champions = {}

(* --- properties ----------------------------------------------------------- *)
Trials(generations) == Population * generations

(* The deflated Sharpe ratio of a champion counts every generation that led  *)
(* to it, those before a resume included, even if the ledger was lost or     *)
(* another process wrote over it (the floor a resumed arm takes from its     *)
(* checkpoint, evolver.py:581, and dsr_trial_counts).  A generation that was *)
(* scored twice is another matter: EveryTrialCounts, GaDesk.                 *)
GenerationsAreCounted == \A c \in champions : c.trials >= Trials(c.gen)

(* A champion's training numbers were measured on the window and, when every *)
(* symbol has a population of its own, on the symbol it is published for: a  *)
(* checkpoint never carries a population over to another search              *)
(* (evolver.py:41, "must never silently evolve a population on a window it   *)
(* was never scored on").                                                    *)
ScoredOn(on, window, mode, arm) == on[1] = window /\ (mode = "per_symbol" => on[2] = arm)

ScoredWhereItTrades == \A c \in champions : ScoredOn(c.on, c.window, c.mode, c.arm)

(* The comment at evolver.py:890 claims more: evaluation and execution agree *)
(* on the basket as well.  Nothing compares the basket on a resume.          *)
ScoredOnItsBasket == \A c \in champions : c.on[2] = c.arm

(* A search is one unbroken sequence of generations, numbered from one: none *)
(* is skipped and none is entered twice over a kill and a resume.            *)
UpTo(n) == [i \in 1..n |-> i]

HistoryIsUnbroken == \A c \in champions : c.history = UpTo(c.gen)

(* A walk-forward report has each of its windows once and in order, also     *)
(* when it was killed between two of them.                                   *)
WindowsOnceInOrder ==
  \A w \in Workers : wk[w].pc = "exited" /\ wk[w].job.kind = "wf" /\ wk[w].out = "result"
    => wk[w].rows = UpTo(Len(wk[w].job.windows))

(* What is reported was searched in order: generations and windows. *)
SearchesInOrder == HistoryIsUnbroken /\ WindowsOnceInOrder

(* The state of a walk-forward run does not say which run it is of: one that *)
(* resumes has to be asked for a walk of as many windows.                    *)
OneWalk ==
  \A j, k \in Jobs : j.kind = "wf" /\ k.kind = "wf" => Len(j.windows) = Len(k.windows)

(* --- types ----------------------------------------------------------------- *)
Scoring == Dates \X Seq(Coins)
Best == [on : Scoring \cup {<<>>}]

Checkpoint ==
  [file : {"whole"}, window : Dates, mode : Modes, tag : Seq(Coins), gen : Nat,
   pop : Scoring \cup {<<>>}, best : Best, trials : Nat, history : Seq(Nat)]

Walk == [file : {"whole"}, done : Nat, rows : Seq(Nat)]

ArmRun == [best : Best, arm : Seq(Coins), gen : Nat, history : Seq(Nat)]

Champion ==
  [on : Scoring, window : Dates, mode : Modes, arm : Seq(Coins), trials : Nat,
   history : Seq(Nat), gen : Nat]

Between ==
  [pc : {"window"}, job : Jobs, resume : BOOLEAN, win : Nat \ {0}, first : Nat, rows : Seq(Nat)]

Busy ==
  [pc : {"window", "arm", "generation", "recording", "save", "saving", "armdone", "publish"},
   job : Jobs, resume : BOOLEAN, win : Nat \ {0}, first : Nat, rows : Seq(Nat), arm : Nat,
   again : BOOLEAN, pending : Checkpoint \cup {Missing}, prior : Nat, mine : Nat,
   runs : Seq(ArmRun), gen : Nat, pop : Scoring \cup {<<>>}, best : Best, stale : Nat,
   history : Seq(Nat), read : Nat]

Gone ==
  [pc : {"exited"}, job : Jobs, rows : Seq(Nat), out : {"result", "error"}]
  \cup [pc : {"dead"}, job : [kind : Kinds]]

(* Processes, files and published strategies keep their types. *)
RunTypeOK ==
  /\ wk \in [Workers -> {Idle} \cup Between \cup Busy \cup Gone]
  /\ ckpt \in Checkpoint \cup {Missing, Torn}
  /\ ledger \in Nat
  /\ wfState \in Walk \cup {Missing}
  /\ champions \subseteq Champion

(* --- the inductive invariant ------------------------------------------------ *)
(* A head that was scored, its history and its share of the trials.            *)
HeadSound(best, window, mode, arm) == best # NoOne => ScoredOn(best.on, window, mode, arm)

CheckpointSound(c) ==
  /\ Trials(c.gen) <= c.trials /\ c.history = UpTo(c.gen)
  /\ HeadSound(c.best, c.window, c.mode, c.tag)

Counted(m) == m.prior + m.mine

RunsSound(m) ==
  \A i \in 1..Len(m.runs) :
    /\ Trials(m.runs[i].gen) <= Counted(m) /\ m.runs[i].history = UpTo(m.runs[i].gen)
    /\ HeadSound(m.runs[i].best, Window(m), m.job.mode, m.runs[i].arm)

Evolving == {"arm", "generation", "recording", "save", "saving", "armdone", "publish"}

(* Inside evolve: the arm and the window exist, what was read of the          *)
(* checkpoint fits them, and the arms that are over were sound.               *)
InEvolve(m) ==
  m.pc \in Evolving =>
    /\ m.win <= Len(m.job.windows) /\ m.arm \in 1..Len(Arms(m.job))
    /\ m.pending # Missing =>
         CheckpointSound(m.pending) /\ ~Refused(m.pending, m)
    /\ RunsSound(m)

(* Inside an arm: what has been searched so far.  A generation that is being  *)
(* recorded is not in the history yet and not counted yet.                    *)
InArm(m) ==
  /\ m.pc \in {"generation", "save", "saving", "armdone"} =>
       m.history = UpTo(m.gen) /\ Trials(m.gen) <= Counted(m)
  /\ m.pc = "recording" =>
       m.gen > 0 /\ m.history = UpTo(m.gen - 1) /\ Trials(m.gen) <= Counted(m) + Population
  /\ m.pc \in {"generation", "recording", "save", "saving", "armdone"} =>
       HeadSound(m.best, Window(m), m.job.mode, Arm(m))
  /\ m.pc \in {"recording", "save", "saving"} => m.pop = <<Window(m), Arm(m)>>

(* The windows recorded by a walk-forward run, while it runs and after.       *)
InWalk(m) ==
  /\ m.pc \in Evolving \cup {"window"} /\ m.job.kind = "wf" => m.rows = UpTo(m.win - 1)
  /\ m.pc = "exited" /\ m.job.kind = "wf" /\ m.out = "result" =>
       m.rows = UpTo(Len(m.rows)) /\ Len(m.rows) >= Len(m.job.windows)

FilesSound ==
  /\ Readable(ckpt) => CheckpointSound(ckpt)
  /\ Readable(wfState) => wfState.rows = UpTo(wfState.done)

ChampionsSound ==
  \A c \in champions :
    /\ c.trials >= Trials(c.gen) /\ c.history = UpTo(c.gen)
    /\ ScoredOn(c.on, c.window, c.mode, c.arm)

RunInv ==
  /\ RunTypeOK /\ FilesSound /\ ChampionsSound
  /\ \A w \in Workers : InEvolve(wk[w]) /\ InArm(wk[w]) /\ InWalk(wk[w])

(* Nobody is beyond the end of a walk, if all walks are of one length.         *)
WithinWalk ==
  /\ \A j \in Jobs : j.kind = "wf" /\ Readable(wfState) => wfState.done <= Len(j.windows)
  /\ \A w \in Workers :
       /\ wk[w].pc = "window" /\ wk[w].job.kind = "wf" =>
            wk[w].win <= Len(wk[w].job.windows) + 1
       /\ wk[w].pc = "exited" /\ wk[w].job.kind = "wf" /\ wk[w].out = "result" =>
            Len(wk[w].rows) <= Len(wk[w].job.windows)
=============================================================================
