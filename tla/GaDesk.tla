------------------------------- MODULE GaDesk -------------------------------
(*************************************************************************)
(* The web server's side of the optimiser (web/routes/ga.py): it writes  *)
(* a job, kills the worker it still holds a handle of, starts another    *)
(* and watches it from a background task that shares one status record   *)
(* and one handle per kind of job with the task of every earlier worker. *)
(*************************************************************************)
EXTENDS GaRun

CONSTANTS Nobody,     \* no process
          MaxFaults,  \* bound: workers that die of themselves and restarts of the server
          MaxTried    \* bound: trials the history goes up to (0: it is not kept)

VARIABLES handle,    \* app.state._ga_process and _wf_process
          running,   \* the flag of _ga_state and _wf_state
          watch,     \* the monitor task of each worker: "off", "on"
          faults,
          tried,     \* history: the genomes scored since the population was seeded
          owed       \* history: the same, when the champions were published

vars == <<runVars, handle, running, watch, faults>>

Init == /\ RunInit
        /\ handle = [k \in Kinds |-> Nobody]
        /\ running = [k \in Kinds |-> FALSE]
        /\ watch = [w \in Workers |-> "off"]
        /\ faults = 0

(* /api/ga/evolve and /api/ga/walkforward: both kill both workers. *)
Held(w) == \E k \in Kinds : handle[k] = w

Launch(w, job, resume) ==
  /\ wk[w] = Idle /\ \A v \in 1..(w - 1) : wk[v] # Idle
  /\ wk' = [v \in Workers |-> IF v = w THEN Started(job, resume)
                              ELSE IF Alive(v) /\ Held(v) THEN Killed(v) ELSE wk[v]]
  /\ handle' = [handle EXCEPT ![job.kind] = w]
  /\ running' = [running EXCEPT ![job.kind] = TRUE]
  /\ watch' = [watch EXCEPT ![w] = "on"]
  /\ UNCHANGED <<ckpt, ledger, wfState, champions, faults>>

LaunchGa(w, job, resume) == job.kind = "ga" /\ Launch(w, job, resume)
LaunchWf(w, job, resume) == job.kind = "wf" /\ Launch(w, job, resume)

(* /api/ga/stop terminates the process: there is no graceful stop. *)
Stop ==
  LET w == handle["ga"] IN
  /\ w # Nobody /\ Alive(w)
  /\ wk' = [wk EXCEPT ![w] = Killed(w)]
  /\ UNCHANGED <<ckpt, ledger, wfState, champions, handle, running, watch, faults>>

(* _monitor_ga and _monitor_wf: every second, the process first, then the   *)
(* shared flag.  Whoever leaves the loop clears the handle.                 *)
SettledByResult(w, k) == wk[w].pc = "exited"
Settled(w, k) == ~Alive(w)

Leaves(w, k) == ~Alive(w) \/ ~running[k]

Monitor(w) ==
  /\ watch[w] = "on"
  /\ LET k == wk[w].job.kind IN
       /\ Leaves(w, k)
       /\ running' = [running EXCEPT ![k] = @ /\ ~Settled(w, k)]
       /\ handle' = [handle EXCEPT ![k] = Nobody]
       /\ watch' = [watch EXCEPT ![w] = "off"]
  /\ UNCHANGED <<runVars, faults>>

MonitorGa(w) == wk[w] # Idle /\ wk[w].job.kind = "ga" /\ Monitor(w)
MonitorWf(w) == wk[w] # Idle /\ wk[w].job.kind = "wf" /\ Monitor(w)

Crash(w) ==
  /\ Alive(w) /\ faults < MaxFaults
  /\ faults' = faults + 1
  /\ wk' = [wk EXCEPT ![w] = Killed(w)]
  /\ UNCHANGED <<ckpt, ledger, wfState, champions, handle, running, watch>>

(* The server restarts: handles, flags and monitors go, the workers stay. *)
Reboot ==
  /\ faults < MaxFaults /\ faults' = faults + 1
  /\ handle' = [k \in Kinds |-> Nobody]
  /\ running' = [k \in Kinds |-> FALSE]
  /\ watch' = [w \in Workers |-> "off"]
  /\ UNCHANGED runVars

WorkStep(w) == Work(w) /\ UNCHANGED <<handle, running, watch, faults>>

Next == \/ Stop \/ Reboot
        \/ \E w \in Workers : \/ WorkStep(w) \/ MonitorGa(w) \/ MonitorWf(w) \/ Crash(w)
                              \/ \E job \in Jobs, resume \in BOOLEAN :
                                   LaunchGa(w, job, resume) \/ LaunchWf(w, job, resume)

(* A process runs and a monitor wakes again; operators need not come back. *)
Fairness == \A w \in Workers : WF_vars(WorkStep(w)) /\ WF_vars(Monitor(w))
Spec == Init /\ [][Next]_vars /\ Fairness

(* A job that is shown as running ends in a result or in an error, also when *)
(* its worker dies without a word (ga.py:458, the monitor).                  *)
JobSettles == \A k \in Kinds : running[k] ~> ~running[k]

(* "Kill previous worker if running" (ga.py:400): one worker at a time. *)
OneWorker == \A v, w \in Workers : Alive(v) /\ Alive(w) => v = w

(* --- the trials a search has really performed ---------------------------------- *)
(* A history beside Spec: no guard reads it, and neither a kill nor a resume takes  *)
(* it back.  It means something for jobs of one arm, of which one worker runs at a  *)
(* time: a population is seeded when the arm starts anew, a resumed one goes on.    *)
Seeds(w) == wk[w].pc = "arm" /\ wk'[w].pc = "generation" /\ wk'[w].gen = 0
Scores(w) == wk[w].pc = "generation" /\ wk'[w].pc = "recording"
Publishes(w) == wk[w].pc = "publish" /\ wk'[w].pc \notin {"publish", "dead"}

Remember ==
  /\ tried' = CASE \E w \in Workers : Seeds(w) -> 0
                [] \E w \in Workers : Scores(w) ->
                     IF tried + Population <= MaxTried THEN tried + Population ELSE tried
                [] OTHER -> tried
  /\ owed' = IF \E w \in Workers : Publishes(w) THEN tried ELSE owed

RememberingInit == Init /\ tried = 0 /\ owed = 0
RememberingNext == Next /\ Remember
RememberingSpec == RememberingInit /\ [][RememberingNext]_<<vars, tried, owed>> /\ Fairness

(* The count a champion is deflated by is "the number of trials actually performed" *)
(* (evolver.py:184).  A generation that was scored when its worker was killed,      *)
(* before its checkpoint was complete, is scored again on a resume: it was          *)
(* performed twice and is counted once.                                             *)
EveryTrialCounts == \A c \in champions : c.trials >= owed

(* --- the jobs of the runs: one window or two, one symbol or two --------------- *)
Job(kind, windows, mode, symbols, generations, keep) ==
  [kind |-> kind, windows |-> windows, mode |-> mode, symbols |-> symbols, keep |-> keep,
   generations |-> generations]
AB == <<"A", "B">>
SomeJobs == {Job("ga", <<"W1">>, "per_symbol", AB, 1, TRUE),
             Job("ga", <<"W2">>, "pooled", <<"A">>, 2, TRUE),
             Job("wf", <<"W1", "W2">>, "pooled", <<"A">>, 1, FALSE)}

\* One search of two generations, that can be stopped inside the second and resumed.
LongJob == {Job("ga", <<"W2">>, "pooled", <<"A">>, 2, TRUE)}

\* Two jobs of one window and mode on other baskets: with these a checkpoint is resumed
\* on symbols it was not scored on (ScoredOnItsBasket is violated).
Baskets == {Job("ga", <<"W1">>, "pooled", AB, 2, TRUE), Job("ga", <<"W1">>, "pooled", <<"A">>, 2, TRUE)}
=============================================================================
