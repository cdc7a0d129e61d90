----------------------------- MODULE Predictor -----------------------------
(* The direction model in use: core/ml/predictor.py (training, the gate,  *)
(* installing, the verdict of a bar), core/ml/trainer.py (the pickle and  *)
(* its sidecar) and the preload of a backtest thread                      *)
(* (core/backtest/engine.py, _verify_ml_model_sidecar), one symbol and    *)
(* interval.                                                              *)
(*                                                                        *)
(* A training is a number; what came of it (the gate's answer, the side   *)
(* and threshold, the feature contract it was written under) is in        *)
(* "trained".  The event loop writes the pickle, then the sidecar, then   *)
(* installs, without giving up control, but a backtest thread may read    *)
(* between two writes and the process may die there.  Probabilities are   *)
(* tenths; what a bar's features say is whether they were computed from   *)
(* its closing values.                                                    *)
EXTENDS Integers, FiniteSets

CONSTANTS
  MaxTrainings, MaxBars, MaxCrashes,
  Contracts,      \* feature contracts a start may be configured with
  Bases,          \* training base rates, in tenths
  Thresholds,     \* decision thresholds, in tenths
  Probabilities   \* answers of a model

PredictorAssumption ==
  /\ {MaxTrainings, MaxBars, MaxCrashes} \subseteq Nat
  /\ Bases \cup Thresholds \cup Probabilities \subseteq 0..10

VARIABLES
  trained,    \* what became of each training
  disk,       \* the trainings the pickle and the sidecar are of, 0 for none
  step,       \* what the event loop has left to do for the last training
  live,       \* the trainings model and metadata in use are of
  contract,   \* the contract of this process
  last,       \* the last row of the frame: its label, and whether it closed
  queued,     \* closing ticks published and not handled
  cached,     \* the feature matrix kept, by the label of its last row
  verdict,    \* the prediction last published
  reader,     \* the backtest thread
  crashes

predVars == <<trained, disk, step, live, contract, last, queued, cached, verdict,
              reader, crashes>>

Trainings == 1..MaxTrainings
Outcomes == [allowed : BOOLEAN, side : {1, -1}, at : Thresholds, base : Bases,
             contract : Contracts]

None == [model |-> 0, meta |-> 0]
NoFeatures == [label |-> 0, closed |-> FALSE]
Silent == [score |-> 0, model |-> 0, of |-> NoFeatures]
Idle == [at |-> "idle", meta |-> 0, model |-> 0]

PredInit ==
  /\ trained = << >>
  /\ disk = [pickle |-> 0, meta |-> 0]
  /\ step = "none"
  /\ live = None
  /\ contract \in Contracts
  /\ last = [label |-> 1, closed |-> TRUE]
  /\ queued = 0
  /\ cached = NoFeatures
  /\ verdict = Silent
  /\ reader = Idle
  /\ crashes = 0

Newest == Cardinality(DOMAIN trained)

(* ------------------------------ training ------------------------------ *)

\* Fit and gate; the pickle is written whatever the gate said.
Train ==
  /\ step = "none"
  /\ Newest < MaxTrainings
  /\ \E o \in Outcomes :
       /\ o.contract = contract
       /\ trained' = [k \in 1..Newest + 1 |-> IF k <= Newest THEN trained[k] ELSE o]
  /\ disk' = [disk EXCEPT !.pickle = Newest + 1]
  /\ step' = "meta"
  /\ UNCHANGED <<live, contract, last, queued, cached, verdict, reader, crashes>>

SaveMeta ==
  /\ step = "meta"
  /\ disk' = [disk EXCEPT !.meta = Newest]
  /\ step' = "install"
  /\ UNCHANGED <<trained, live, contract, last, queued, cached, verdict, reader, crashes>>

\* The sidecar proves the gate and the contract of this process.
Admitted(meta) == meta # 0 /\ trained[meta].allowed /\ trained[meta].contract = contract

\* A refusal leaves the model installed before in use.
Install ==
  /\ step = "install"
  /\ live' = IF trained[Newest].allowed /\ Admitted(disk.meta)
             THEN [model |-> disk.pickle, meta |-> disk.meta] ELSE live
  /\ step' = "none"
  /\ UNCHANGED <<trained, disk, contract, last, queued, cached, verdict, reader, crashes>>

(* ------------------------------ the bars ------------------------------ *)

\* The REST fallback brings the bar that is still forming, and publishes a tick
\* with the closed bar before it.
Poll ==
  /\ last.closed /\ last.label < MaxBars
  /\ last' = [label |-> last.label + 1, closed |-> FALSE]
  /\ queued' = queued + 1
  /\ UNCHANGED <<trained, disk, step, live, contract, cached, verdict, reader, crashes>>

\* The closing tick of the forming bar, or of one not seen before.
Close ==
  /\ ~last.closed \/ last.label < MaxBars
  /\ last' = [label |-> IF last.closed THEN last.label + 1 ELSE last.label, closed |-> TRUE]
  /\ queued' = queued + 1
  /\ UNCHANGED <<trained, disk, step, live, contract, cached, verdict, reader, crashes>>

\* Features are recomputed when the label of the last row is a new one.
Features == IF cached # NoFeatures /\ cached.label = last.label THEN cached ELSE last

\* Changed definition: a threshold on the wrong side of the base rate is kept.
TakenAtItsWord(o) == o.at = o.base

\* A threshold that does not keep the call apart from the base rate decides nothing.
Degenerate(o) == IF o.side = 1 THEN o.at <= o.base ELSE o.at >= o.base
Outside(o, p) == IF o.side = 1 THEN p < o.at ELSE p > o.at
Sign(n) == IF n > 0 THEN 1 ELSE IF n < 0 THEN -1 ELSE 0

Score(p) ==
  IF live.model = 0 THEN 0
  ELSE LET o == trained[live.meta]
       IN  IF Degenerate(o) \/ Outside(o, p) THEN 0 ELSE Sign(p - o.base)

OnKline ==
  /\ step = "none" /\ queued > 0
  /\ queued' = queued - 1
  /\ cached' = Features
  /\ \E p \in Probabilities :
       verdict' = [score |-> Score(p), model |-> live.model, of |-> Features]
  /\ UNCHANGED <<trained, disk, step, live, contract, last, reader, crashes>>

(* -------------------- the backtest thread, and a crash ---------------- *)

Verify ==
  /\ reader.at = "idle" /\ disk.pickle # 0
  /\ Admitted(disk.meta)
  /\ reader' = [at |-> "verified", meta |-> disk.meta, model |-> 0]
  /\ UNCHANGED <<trained, disk, step, live, contract, last, queued, cached, verdict, crashes>>

LoadPickle ==
  /\ reader.at = "verified"
  /\ reader' = [reader EXCEPT !.at = "loaded", !.model = disk.pickle]
  /\ UNCHANGED <<trained, disk, step, live, contract, last, queued, cached, verdict, crashes>>

Leave ==
  /\ reader.at = "loaded"
  /\ reader' = Idle
  /\ UNCHANGED <<trained, disk, step, live, contract, last, queued, cached, verdict, crashes>>

\* Everything but the files is gone; the new process may use another contract.
Crash ==
  /\ crashes < MaxCrashes
  /\ crashes' = crashes + 1
  /\ contract' \in Contracts
  /\ step' = "none" /\ live' = None /\ queued' = 0
  /\ cached' = NoFeatures /\ verdict' = Silent /\ reader' = Idle
  /\ UNCHANGED <<trained, disk, last>>

PredNext ==
  \/ Train \/ SaveMeta \/ Install \/ Poll \/ Close \/ OnKline
  \/ Verify \/ LoadPickle \/ Leave \/ Crash

(* ------------------------------ properties ---------------------------- *)

\* A directional score is published only for a call the gate vouched for: the
\* model in use passed it under the contract of this process, was not replaced
\* in part by a later training, and the score points to the side the gate
\* chose, however little the threshold says about that side.
ScoreIsAGatedCall ==
  /\ live.model = live.meta
  /\ verdict.score # 0 =>
       LET o == trained[verdict.model]
       IN  o.allowed /\ o.contract = contract /\ verdict.score = o.side

\* A model the gate let pass under the contract of this process.
Vouched(k) == k \in 1..Newest /\ trained[k].allowed /\ trained[k].contract = contract

\* The model in use is vouched for, and so is the one the last score came from; what a
\* training has yet to install is what its files hold.
PredInv ==
  /\ Newest \in 0..MaxTrainings /\ trained \in [1..Newest -> Outcomes]
  /\ disk \in [pickle : 0..Newest, meta : 0..Newest]
  /\ step \in {"none", "meta", "install"}
  /\ step = "meta" => disk.pickle = Newest
  /\ step = "install" => disk.pickle = Newest /\ disk.meta = Newest
  /\ live.model = live.meta /\ (live.model # 0 => Vouched(live.model))
  /\ verdict.score # 0 => Vouched(verdict.model) /\ verdict.score = trained[verdict.model].side

\* "the feature pipeline ... is recomputed only when a new closed bar actually
\* arrives" (predictor.py:190-192): what a closing tick publishes is computed
\* from closed bars, unless a forming bar is already behind the last close.
VerdictIsOfAClosedBar ==
  [][queued' < queued /\ crashes' = crashes /\ last.closed => verdict'.of.closed]_predVars

\* "Whatever fails is refused and logged, never loaded" (engine.py:656): a
\* model a backtest scores with is one whose own gate passed.
PreloadIsGated == reader.at = "loaded" => trained[reader.model].allowed
=============================================================================
