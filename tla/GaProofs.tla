------------------------------- MODULE GaProofs -------------------------------
(*************************************************************************)
(* TLAPS proofs about the optimiser's processes and files (GaRun, driven *)
(* by GaDesk), for any jobs, number of processes, population size and    *)
(* number of faults: a published champion counts every generation that   *)
(* led to it, was scored where it is published, and is the end of an     *)
(* unbroken search, however often workers are killed and resumed and     *)
(* whichever of the files another process has left behind.               *)
(*************************************************************************)
EXTENDS GaDesk, SequenceTheorems, TLAPS

USE GaRunAssumption

----------------------------------------------------------------------------
(* Sequences, jobs and arms *)

LEMMA UpToIsSeq ==
  ASSUME NEW n \in Nat
  PROVE  /\ UpTo(n) \in Seq(Nat) /\ Len(UpTo(n)) = n
         /\ Append(UpTo(n), n + 1) = UpTo(n + 1)
<1>1. UpTo(n) \in [1..n -> Nat]
  BY DEF UpTo
<1>2. UpTo(n) \in Seq(Nat) /\ Len(UpTo(n)) = n
  BY <1>1, SeqDef DEF UpTo
<1>3. Append(UpTo(n), n + 1) = UpTo(n + 1)
  BY <1>2 DEF UpTo
<1> QED BY <1>2, <1>3

LEMMA JobFields ==
  ASSUME NEW job \in Jobs
  PROVE  /\ job.kind \in Kinds /\ job.windows \in SomeOf(Dates) /\ job.mode \in Modes
         /\ job.symbols \in SomeOf(Coins) /\ job.keep \in BOOLEAN /\ job.generations \in Nat
BY DEF SomeOf

LEMMA TrialsAddUp ==
  /\ Trials(0) = 0
  /\ \A g \in Nat : Trials(g) \in Nat /\ Trials(g + 1) = Trials(g) + Population
BY DEF Trials

LEMMA ArmsOfJob ==
  ASSUME NEW job \in Jobs
  PROVE  Arms(job) \in Seq(Seq(Coins)) /\ Len(Arms(job)) >= 1
<1>1. job.symbols \in Seq(Coins) /\ Len(job.symbols) \in Nat \ {0}
  BY JobFields DEF SomeOf
<1>2. \A i \in 1..Len(job.symbols) : <<job.symbols[i]>> \in Seq(Coins)
  BY <1>1
<1>3. CASE job.mode = "per_symbol"
  <2>1. Arms(job) = [i \in 1..Len(job.symbols) |-> <<job.symbols[i]>>]
    BY <1>3 DEF Arms
  <2>2. Arms(job) \in [1..Len(job.symbols) -> Seq(Coins)]
    BY <1>2, <2>1
  <2> QED BY <1>1, <2>2, SeqDef
<1>4. CASE job.mode # "per_symbol"
  BY <1>1, <1>4 DEF Arms
<1> QED BY <1>3, <1>4

LEMMA TagOfArm ==
  ASSUME NEW job \in Jobs, NEW arm \in Seq(Coins)
  PROVE  ArmTag(job, arm) \in Seq(Coins) /\ (job.mode = "per_symbol" => ArmTag(job, arm) = arm)
BY DEF ArmTag

----------------------------------------------------------------------------
(* Processes *)

Memory == {Idle} \cup Between \cup Busy \cup Gone

Sound(m) == InEvolve(m) /\ InArm(m) /\ InWalk(m)

\* The fields of a process that evolves.
LEMMA BusyFields ==
  ASSUME NEW m \in Busy
  PROVE  /\ m.job \in Jobs /\ m.resume \in BOOLEAN /\ m.win \in Nat \ {0} /\ m.first \in Nat
         /\ m.rows \in Seq(Nat) /\ m.arm \in Nat /\ m.again \in BOOLEAN
         /\ m.pending \in Checkpoint \cup {Missing} /\ m.prior \in Nat /\ m.mine \in Nat
         /\ m.runs \in Seq(ArmRun) /\ m.gen \in Nat /\ m.pop \in Scoring \cup {<<>>}
         /\ m.best \in Best /\ m.stale \in Nat /\ m.history \in Seq(Nat)
         /\ m.read \in Nat
BY DEF Busy

\* Only a process that evolves has one of its program counters.
LEMMA IsBusy ==
  ASSUME NEW m \in Memory, m.pc \in Evolving
  PROVE  m \in Busy
BY DEF Memory, Idle, Between, Busy, Gone, Evolving

LEMMA Readables ==
  /\ \A c \in Checkpoint : Readable(c) /\ c # Missing /\ c # Torn
  /\ ~Readable(Missing) /\ ~Readable(Torn)
  /\ \A s \in Walk : Readable(s)
BY DEF Checkpoint, Walk, Readable, Missing, Torn

\* The window and the arm of a process that evolves.
LEMMA WhereItScores ==
  ASSUME NEW m \in Busy, m.win <= Len(m.job.windows), m.arm \in 1..Len(Arms(m.job))
  PROVE  Window(m) \in Dates /\ Arm(m) \in Seq(Coins)
<1>1. m.job \in Jobs /\ m.job.windows \in Seq(Dates) /\ m.win \in 1..Len(m.job.windows)
  BY BusyFields, JobFields DEF SomeOf
<1> QED BY <1>1, ArmsOfJob DEF Window, Arm

\* One process moves: its memory, and the files and champions it leaves, are what
\* has to be shown sound.
LEMMA OneMoves ==
  ASSUME RunInv, NEW w \in Workers, NEW n \in Memory, wk' = [wk EXCEPT ![w] = n], Sound(n),
         ckpt' \in Checkpoint \cup {Missing, Torn}, ledger' \in Nat,
         wfState' \in Walk \cup {Missing}, champions' \subseteq Champion,
         FilesSound', ChampionsSound'
  PROVE  RunInv'
<1>1. wk' \in [Workers -> Memory]
  BY DEF RunInv, RunTypeOK, Memory
<1>2. RunTypeOK'
  BY <1>1 DEF RunTypeOK, Memory
<1>3. \A v \in Workers : wk'[v] = IF v = w THEN n ELSE wk[v]
  BY DEF RunInv, RunTypeOK
<1>4. \A v \in Workers : Sound(wk'[v])
  BY <1>3 DEF RunInv, Sound
<1> QED BY <1>2, <1>4 DEF RunInv, Sound

\* A process between two windows.
LEMMA AtWindow ==
  ASSUME RunInv, NEW w \in Workers, wk[w].pc = "window"
  PROVE  /\ wk[w].job \in Jobs /\ wk[w].resume \in BOOLEAN /\ wk[w].win \in Nat \ {0}
         /\ wk[w].first \in Nat /\ wk[w].rows \in Seq(Nat)
         /\ wk[w].job.kind = "wf" => wk[w].rows = UpTo(wk[w].win - 1)
<1>1. wk[w] \in Memory
  BY DEF RunInv, RunTypeOK, Memory
<1>2. wk[w] \in Between \cup Busy
  BY <1>1 DEF Memory, Idle, Gone
<1> QED BY <1>2 DEF RunInv, InWalk, Between, Busy

\* A process inside evolve.
LEMMA AtWork ==
  ASSUME RunInv, NEW w \in Workers, wk[w].pc \in Evolving
  PROVE  wk[w] \in Busy /\ Sound(wk[w])
BY IsBusy DEF RunInv, RunTypeOK, Memory, Sound

LEMMA EvolveStep ==
  ASSUME RunInv, NEW w \in Workers, Evolve(w)
  PROVE  RunInv'
<1> DEFINE m == wk[w]
           fresh == [pc |-> "arm", job |-> m.job, resume |-> m.resume, win |-> m.win,
             first |-> m.first, rows |-> m.rows, arm |-> 1,
             again |-> MayResume(m), pending |-> Missing, prior |-> LoadTrials, mine |-> 0,
             runs |-> <<>>, gen |-> 0, pop |-> <<>>, best |-> NoOne, stale |-> 0,
             history |-> <<>>, read |-> 0]
           kept == [fresh EXCEPT !.pending = IF Readable(ckpt) THEN ckpt ELSE Missing]
           anew == [fresh EXCEPT !.again = FALSE]
<1>1. /\ m.pc = "window" /\ m.win <= Len(m.job.windows)
      /\ wfState' = EnterWindow(m) /\ UNCHANGED <<ckpt, ledger, champions>>
      /\ \/ wk' = [wk EXCEPT ![w] = fresh]
         \/ ~Refused(ckpt, fresh) /\ wk' = [wk EXCEPT ![w] = kept]
         \/ wk' = [wk EXCEPT ![w] = anew]
         \/ wk' = [wk EXCEPT ![w] = Failed(fresh)]
  BY DEF Evolve
<1>2. /\ m.job \in Jobs /\ m.resume \in BOOLEAN /\ m.win \in Nat \ {0}
      /\ m.first \in Nat /\ m.rows \in Seq(Nat)
      /\ m.job.kind = "wf" => m.rows = UpTo(m.win - 1)
  BY <1>1, AtWindow
<1>3. LoadTrials \in Nat /\ ckpt \in Checkpoint \cup {Missing, Torn}
  BY DEF RunInv, RunTypeOK, LoadTrials
<1>4. MayResume(m) \in BOOLEAN
  BY <1>2 DEF MayResume
<1>5. fresh \in Busy
  BY <1>2, <1>3, <1>4 DEF Busy, Best, NoOne
<1>6. 1 \in 1..Len(Arms(m.job))
  BY <1>2, ArmsOfJob
<1>7. Sound(fresh)
  BY <1>1, <1>2, <1>6 DEF Sound, InEvolve, InArm, InWalk, RunsSound
<1>8. kept \in Busy /\ anew \in Busy
  <2>1. (IF Readable(ckpt) THEN ckpt ELSE Missing) \in Checkpoint \cup {Missing}
    BY <1>3 DEF Readable
  <2>2. kept \in Busy
    <3> HIDE DEF fresh
    <3> QED BY <1>5, <2>1 DEF Busy
  <2>3. anew \in Busy
    BY <1>5 DEF Busy
  <2> QED BY <2>2, <2>3
<1>9. Sound(anew)
  BY <1>7 DEF Sound, InEvolve, InArm, InWalk, RunsSound, Window, Counted, HeadSound, ScoredOn,
              Refused, WindowMismatch, ModeMismatch
<1>10. ~Refused(ckpt, fresh) => Sound(kept)
  <2>1. Readable(ckpt) => CheckpointSound(ckpt)
    BY DEF RunInv, FilesSound
  <2>2. /\ kept.pc = "arm" /\ kept.win = m.win /\ kept.arm = 1 /\ kept.job = m.job
        /\ kept.runs = <<>> /\ kept.rows = m.rows
        /\ kept.pending = IF Readable(ckpt) THEN ckpt ELSE Missing
    OBVIOUS
  <2>3. ~Refused(ckpt, fresh) => ~Refused(ckpt, kept)
    BY <2>2 DEF Refused, WindowMismatch, ModeMismatch, Window
  <2> HIDE DEF kept, fresh
  <2> QED BY <1>1, <1>2, <1>6, <2>1, <2>2, <2>3 DEF Sound, InEvolve, InArm, InWalk, RunsSound
<1>11. Failed(fresh) \in Memory /\ Sound(Failed(fresh))
  BY <1>2 DEF Failed, Exited, Memory, Gone, Sound, InEvolve, InArm, InWalk, Evolving
<1>12. wfState' \in Walk \cup {Missing} /\ (Readable(wfState') => wfState'.rows = UpTo(wfState'.done))
  BY <1>1, <1>2, Readables DEF RunInv, RunTypeOK, FilesSound, EnterWindow, Walk
<1>13. /\ ckpt' \in Checkpoint \cup {Missing, Torn} /\ ledger' \in Nat
       /\ champions' \subseteq Champion /\ FilesSound' /\ ChampionsSound'
  BY <1>1, <1>12 DEF RunInv, RunTypeOK, FilesSound, ChampionsSound
<1> HIDE DEF fresh, kept, anew, m
<1>14. fresh \in Memory /\ kept \in Memory /\ anew \in Memory
  BY <1>5, <1>8 DEF Memory
<1> QED BY <1>1, <1>7, <1>9, <1>10, <1>11, <1>12, <1>13, <1>14, OneMoves

\* What a process is about inside evolve: its job, its window, the arms that are over.
SameEvolve(n, m) ==
  /\ n.job = m.job /\ n.win = m.win /\ n.rows = m.rows /\ n.pending = m.pending

\* Sound again, if nothing counted is lost.
LEMMA StaysInEvolve ==
  ASSUME NEW m \in Busy, Sound(m), m.pc \in Evolving, NEW n \in Busy, n.pc \in Evolving,
         SameEvolve(n, m), n.arm \in 1..Len(Arms(m.job)), n.runs = m.runs,
         Counted(n) >= Counted(m)
  PROVE  InEvolve(n) /\ InWalk(n) /\ Window(n) = Window(m)
<1>1. Window(n) = Window(m)
  BY DEF SameEvolve, Window
<1>2. n.pending # Missing => CheckpointSound(n.pending) /\ ~Refused(n.pending, n)
  BY <1>1 DEF SameEvolve, Sound, InEvolve, Refused, WindowMismatch, ModeMismatch
<1>3. RunsSound(n)
  <2>1. Counted(m) \in Nat /\ Counted(n) \in Nat
    BY BusyFields DEF Counted
  <2>2. m.runs \in Seq(ArmRun)
    BY BusyFields
  <2>3. \A i \in 1..Len(m.runs) : Trials(m.runs[i].gen) \in Nat
    <3>1. \A i \in 1..Len(m.runs) : m.runs[i] \in ArmRun
      BY <2>2
    <3>2. \A r \in ArmRun : r.gen \in Nat
      BY DEF ArmRun
    <3> QED BY <3>1, <3>2, TrialsAddUp
  <2> QED BY <1>1, <2>1, <2>3 DEF Sound, InEvolve, RunsSound, SameEvolve
<1>4. InWalk(n)
  BY DEF SameEvolve, Sound, InWalk, Evolving
<1> QED BY <1>1, <1>2, <1>3, <1>4 DEF SameEvolve, Sound, InEvolve

\* A checkpoint that is not refused and is of this arm can be continued.
LEMMA Restores ==
  ASSUME NEW m \in Busy, Sound(m), m.pc = "arm", NEW c \in Checkpoint, CheckpointSound(c),
         ~Refused(c, m), OwnTag(c, m)
  PROVE  Restored(m, c) \in Memory /\ Sound(Restored(m, c))
<1> DEFINE n == Restored(m, c)
<1>1. /\ c.gen \in Nat /\ c.pop \in Scoring \cup {<<>>} /\ c.best \in Best /\ c.trials \in Nat
      /\ c.history \in Seq(Nat)
  BY DEF Checkpoint
<1>2. Larger(m.prior, c.trials) \in Nat /\ Larger(m.prior, c.trials) >= m.prior
      /\ Larger(m.prior, c.trials) >= c.trials
  BY <1>1, BusyFields DEF Larger
<1>3. n \in Busy
  BY <1>1, <1>2 DEF Restored, Carried, Busy
<1>4. /\ n.pc = "generation" /\ n.gen = c.gen /\ n.best = c.best /\ n.history = c.history
      /\ n.prior = Larger(m.prior, c.trials) /\ n.mine = m.mine
      /\ n.arm = m.arm /\ n.runs = m.runs /\ SameEvolve(n, m)
  BY DEF Restored, Carried, Busy, SameEvolve
<1> HIDE DEF n
<1>5. Counted(n) >= Counted(m) /\ Counted(n) >= c.trials
  BY <1>1, <1>2, <1>4, BusyFields DEF Counted
<1>6. m.win <= Len(m.job.windows) /\ m.arm \in 1..Len(Arms(m.job))
  BY DEF Sound, InEvolve, Evolving
<1>7. InEvolve(n) /\ InWalk(n) /\ Window(n) = Window(m)
  BY <1>3, <1>4, <1>5, <1>6, StaysInEvolve DEF Evolving
<1>8. Arm(n) = Arm(m) /\ Arm(m) \in Seq(Coins) /\ m.job \in Jobs
  BY <1>4, <1>6, WhereItScores, BusyFields DEF Arm, SameEvolve
<1>9. c.window = Window(m) /\ c.mode = m.job.mode /\ (m.job.mode = "per_symbol" => c.tag = Arm(m))
  BY <1>8, Readables, TagOfArm DEF Refused, WindowMismatch, ModeMismatch, OwnTag
<1>10. HeadSound(n.best, Window(n), n.job.mode, Arm(n))
  BY <1>4, <1>7, <1>8, <1>9 DEF CheckpointSound, HeadSound, ScoredOn, SameEvolve
<1>11. n.history = UpTo(n.gen) /\ Trials(n.gen) <= Counted(n)
  <2>1. Counted(n) \in Nat
    BY <1>2, <1>4, BusyFields DEF Counted
  <2>2. Trials(c.gen) \in Nat /\ Trials(c.gen) <= c.trials /\ c.history = UpTo(c.gen)
    BY <1>1, TrialsAddUp DEF CheckpointSound
  <2> QED BY <1>1, <1>4, <1>5, <2>1, <2>2
<1>12. InArm(n)
  BY <1>4, <1>10, <1>11 DEF InArm
<1> QED BY <1>3, <1>7, <1>12 DEF Sound, Memory, n

LEMMA Anew ==
  ASSUME NEW m \in Busy, Sound(m), m.pc = "arm"
  PROVE  FreshArm(m) \in Memory /\ Sound(FreshArm(m))
<1> DEFINE n == FreshArm(m)
<1>1. n \in Busy
  <2>1. NoOne \in Best /\ <<>> \in Seq(Nat)
    BY DEF Best, NoOne
  <2> QED BY <2>1 DEF FreshArm, Busy
<1>2. /\ n.pc = "generation" /\ n.gen = 0 /\ n.best = NoOne /\ n.history = <<>>
      /\ n.prior = m.prior /\ n.mine = m.mine
      /\ n.arm = m.arm /\ n.runs = m.runs /\ SameEvolve(n, m)
  BY DEF FreshArm, Busy, SameEvolve
<1> HIDE DEF n
<1>3. Counted(n) = Counted(m) /\ Counted(n) \in Nat
  BY <1>2, BusyFields DEF Counted
<1>4. m.arm \in 1..Len(Arms(m.job))
  BY DEF Sound, InEvolve, Evolving
<1>5. InEvolve(n) /\ InWalk(n)
  BY <1>1, <1>2, <1>3, <1>4, StaysInEvolve DEF Evolving
<1>6. InArm(n)
  BY <1>2, <1>3, TrialsAddUp DEF InArm, HeadSound, UpTo
<1> QED BY <1>1, <1>5, <1>6 DEF Sound, Memory, n

\* The run that is given up for another try at its window.
LEMMA Again ==
  ASSUME NEW m \in Busy, Sound(m), m.pc = "arm"
  PROVE  LET n == [m EXCEPT !.pc = "window", !.resume = FALSE] IN n \in Memory /\ Sound(n)
<1> DEFINE n == [m EXCEPT !.pc = "window", !.resume = FALSE]
<1>1. n \in Busy
  BY DEF Busy
<1>2. n.pc = "window" /\ n.job = m.job /\ n.rows = m.rows /\ n.win = m.win
  BY DEF Busy
<1> HIDE DEF n
<1>3. Sound(n)
  BY <1>2 DEF Sound, InEvolve, InArm, InWalk, Evolving
<1> QED BY <1>1, <1>3 DEF Memory, n

LEMMA Fails ==
  ASSUME NEW m, m.job \in Jobs, m.rows \in Seq(Nat)
  PROVE  Failed(m) \in Memory /\ Sound(Failed(m))
BY DEF Failed, Exited, Memory, Gone, Sound, InEvolve, InArm, InWalk, Evolving

LEMMA StartArmStep ==
  ASSUME RunInv, NEW w \in Workers, StartArm(w)
  PROVE  RunInv'
<1> DEFINE m == wk[w]
<1>1. m.pc = "arm" /\ UNCHANGED <<ckpt, ledger, wfState, champions>>
  BY DEF StartArm
<1>2. m \in Busy /\ Sound(m)
  BY <1>1, AtWork DEF Evolving
<1>3. /\ ckpt' \in Checkpoint \cup {Missing, Torn} /\ ledger' \in Nat
      /\ wfState' \in Walk \cup {Missing} /\ champions' \subseteq Champion
      /\ FilesSound' /\ ChampionsSound'
  BY <1>1 DEF RunInv, RunTypeOK, FilesSound, ChampionsSound
<1>4. SUFFICES \E n \in Memory : wk' = [wk EXCEPT ![w] = n] /\ Sound(n)
  BY <1>3, OneMoves
<1>5. CASE wk' = [wk EXCEPT ![w] = FreshArm(m)]
  BY <1>1, <1>2, <1>5, Anew
<1>6. ASSUME Readable(m.pending), OwnTag(m.pending, m),
             wk' = [wk EXCEPT ![w] = Restored(m, m.pending)]
      PROVE  \E n \in Memory : wk' = [wk EXCEPT ![w] = n] /\ Sound(n)
  <2>1. m.pending \in Checkpoint
    BY <1>2, <1>6, BusyFields, Readables
  <2>2. CheckpointSound(m.pending) /\ ~Refused(m.pending, m)
    BY <1>1, <1>2, <2>1, Readables DEF Sound, InEvolve, Evolving
  <2> QED BY <1>1, <1>2, <1>6, <2>1, <2>2, Restores
<1>7. ASSUME Readable(ckpt), OwnTag(ckpt, m), ~Refused(ckpt, m),
             wk' = [wk EXCEPT ![w] = Restored(m, ckpt)]
      PROVE  \E n \in Memory : wk' = [wk EXCEPT ![w] = n] /\ Sound(n)
  <2>1. ckpt \in Checkpoint /\ CheckpointSound(ckpt)
    BY <1>7, Readables DEF RunInv, RunTypeOK, FilesSound
  <2> QED BY <1>1, <1>2, <1>7, <2>1, Restores
<1>8. CASE wk' = [wk EXCEPT ![w] = [m EXCEPT !.pc = "window", !.resume = FALSE]]
  BY <1>1, <1>2, <1>8, Again
<1>9. CASE wk' = [wk EXCEPT ![w] = Failed(m)]
  BY <1>2, <1>9, BusyFields, Fails
<1> QED BY <1>5, <1>6, <1>7, <1>8, <1>9 DEF StartArm

LEMMA ScoreStep ==
  ASSUME RunInv, NEW w \in Workers, Score(w)
  PROVE  RunInv'
<1> DEFINE m == wk[w]
           n == [m EXCEPT !.pc = "recording", !.gen = m.gen + 1, !.pop = <<Window(m), Arm(m)>>,
                          !.read = LoadTrials]
<1>1. /\ m.pc = "generation" /\ wk' = [wk EXCEPT ![w] = n] /\ ledger' = 0
      /\ UNCHANGED <<ckpt, wfState, champions>>
  BY DEF Score, Unreadable
<1>2. m \in Busy /\ Sound(m)
  BY <1>1, AtWork DEF Evolving
<1>3. m.win <= Len(m.job.windows) /\ m.arm \in 1..Len(Arms(m.job))
  BY <1>1, <1>2 DEF Sound, InEvolve, Evolving
<1>4. Window(m) \in Dates /\ Arm(m) \in Seq(Coins)
  BY <1>2, <1>3, WhereItScores
<1>5. LoadTrials \in Nat
  BY DEF RunInv, RunTypeOK, LoadTrials
<1>6. n \in Busy
  <2>1. m.gen + 1 \in Nat
    BY <1>2, BusyFields
  <2>2. <<Window(m), Arm(m)>> \in Scoring
    BY <1>4 DEF Scoring
  <2>3. \A g \in Nat, p \in Scoring, r \in Nat :
          [m EXCEPT !.pc = "recording", !.gen = g, !.pop = p, !.read = r] \in Busy
    BY <1>2 DEF Busy
  <2> QED BY <1>5, <2>1, <2>2, <2>3
<1>7. /\ n.pc = "recording" /\ n.gen = m.gen + 1 /\ n.pop = <<Window(m), Arm(m)>>
      /\ n.best = m.best /\ n.history = m.history
      /\ n.prior = m.prior /\ n.mine = m.mine /\ n.arm = m.arm /\ n.runs = m.runs
      /\ SameEvolve(n, m)
  BY <1>2 DEF Busy, SameEvolve
<1> HIDE DEF n
<1>8. Counted(n) = Counted(m) /\ Counted(n) \in Nat
  BY <1>2, <1>7, BusyFields DEF Counted
<1>9. InEvolve(n) /\ InWalk(n) /\ Window(n) = Window(m)
  BY <1>1, <1>2, <1>3, <1>6, <1>7, <1>8, StaysInEvolve DEF Evolving
<1>10. Arm(n) = Arm(m)
  BY <1>7 DEF Arm, SameEvolve
<1>11. m.history = UpTo(m.gen) /\ Trials(m.gen) <= Counted(m) /\ HeadSound(m.best, Window(m), m.job.mode, Arm(m))
  BY <1>1, <1>2 DEF Sound, InArm
<1>12. n.gen > 0 /\ n.history = UpTo(n.gen - 1) /\ Trials(n.gen) <= Counted(n) + Population
  <2>1. m.gen \in Nat /\ Population \in Nat
    BY <1>2, BusyFields
  <2>2. n.gen > 0 /\ n.gen - 1 = m.gen
    BY <1>7, <2>1
  <2>3. Trials(n.gen) <= Counted(n) + Population
    BY <1>7, <1>8, <1>11, <2>1, TrialsAddUp
  <2> QED BY <1>7, <1>11, <2>2, <2>3
<1>13. InArm(n)
  BY <1>7, <1>9, <1>10, <1>11, <1>12 DEF InArm, SameEvolve
<1>14. FilesSound' /\ ChampionsSound' /\ ckpt' \in Checkpoint \cup {Missing, Torn}
       /\ ledger' \in Nat /\ wfState' \in Walk \cup {Missing} /\ champions' \subseteq Champion
  BY <1>1 DEF RunInv, RunTypeOK, FilesSound, ChampionsSound
<1> QED BY <1>1, <1>6, <1>9, <1>13, <1>14, OneMoves DEF Sound, Memory

LEMMA RecordStep ==
  ASSUME RunInv, NEW w \in Workers, Record(w)
  PROVE  RunInv'
<1> DEFINE m == wk[w]
           n == [m EXCEPT !.pc = "save", !.read = 0, !.mine = m.mine + Population,
                          !.history = Append(m.history, m.gen)]
<1>1. /\ m.pc = "recording" /\ wk' = [wk EXCEPT ![w] = n] /\ ledger' = m.read + Population
      /\ UNCHANGED <<ckpt, wfState, champions>>
  BY DEF Record
<1>2. m \in Busy /\ Sound(m)
  BY <1>1, AtWork DEF Evolving
<1>3. m.arm \in 1..Len(Arms(m.job))
  BY <1>1, <1>2 DEF Sound, InEvolve, Evolving
<1>4. Append(m.history, m.gen) \in Seq(Nat)
  BY <1>2, BusyFields
<1>5. n \in Busy
  <2>1. m.mine + Population \in Nat
    BY <1>2, BusyFields
  <2>2. \A k \in Nat, h \in Seq(Nat) :
          [m EXCEPT !.pc = "save", !.read = 0, !.mine = k, !.history = h] \in Busy
    BY <1>2 DEF Busy
  <2> QED BY <1>4, <2>1, <2>2
<1>6. /\ n.pc = "save" /\ n.gen = m.gen /\ n.pop = m.pop
      /\ n.best = m.best /\ n.history = Append(m.history, m.gen)
      /\ n.prior = m.prior /\ n.mine = m.mine + Population /\ n.arm = m.arm /\ n.runs = m.runs
      /\ SameEvolve(n, m)
  BY <1>2 DEF Busy, SameEvolve
<1> HIDE DEF n
<1>7. Counted(n) = Counted(m) + Population /\ Counted(m) \in Nat
  BY <1>2, <1>6, BusyFields DEF Counted
<1>8. InEvolve(n) /\ InWalk(n) /\ Window(n) = Window(m)
  <2>1. Counted(n) >= Counted(m)
    BY <1>7
  <2>2. n.pc \in Evolving /\ m.pc \in Evolving /\ n.arm \in 1..Len(Arms(m.job))
    BY <1>1, <1>3, <1>6 DEF Evolving
  <2> QED BY <1>2, <1>5, <1>6, <2>1, <2>2, StaysInEvolve
<1>9. Arm(n) = Arm(m)
  BY <1>6 DEF Arm, SameEvolve
<1>10. /\ m.gen > 0 /\ m.history = UpTo(m.gen - 1) /\ Trials(m.gen) <= Counted(m) + Population
       /\ HeadSound(m.best, Window(m), m.job.mode, Arm(m)) /\ m.pop = <<Window(m), Arm(m)>>
  BY <1>1, <1>2 DEF Sound, InArm
<1>11. n.history = UpTo(n.gen)
  <2>1. m.gen - 1 \in Nat /\ (m.gen - 1) + 1 = m.gen
    BY <1>2, <1>10, BusyFields
  <2> QED BY <1>6, <1>10, <2>1, UpToIsSeq
<1>12. InArm(n)
  BY <1>6, <1>7, <1>8, <1>9, <1>10, <1>11 DEF InArm, SameEvolve
<1>13. FilesSound' /\ ChampionsSound' /\ ckpt' \in Checkpoint \cup {Missing, Torn}
       /\ wfState' \in Walk \cup {Missing} /\ champions' \subseteq Champion
  BY <1>1 DEF RunInv, RunTypeOK, FilesSound, ChampionsSound
<1>14. ledger' \in Nat
  BY <1>1, <1>2, BusyFields
<1> QED BY <1>1, <1>5, <1>8, <1>12, <1>13, <1>14, OneMoves DEF Sound, Memory

LEMMA SaveOpenStep ==
  ASSUME RunInv, NEW w \in Workers, SaveOpen(w)
  PROVE  RunInv'
<1> DEFINE m == wk[w]
           n == [m EXCEPT !.pc = "saving"]
<1>1. /\ m.pc = "save" /\ wk' = [wk EXCEPT ![w] = n] /\ ckpt' = Torn
      /\ UNCHANGED <<ledger, wfState, champions>>
  BY DEF SaveOpen
<1>2. m \in Busy /\ Sound(m)
  BY <1>1, AtWork DEF Evolving
<1>3. n \in Busy
  BY <1>2 DEF Busy
<1>4. /\ n.pc = "saving" /\ n.gen = m.gen /\ n.pop = m.pop
      /\ n.best = m.best /\ n.history = m.history
      /\ n.prior = m.prior /\ n.mine = m.mine /\ n.arm = m.arm /\ n.runs = m.runs
      /\ SameEvolve(n, m)
  BY <1>2 DEF Busy, SameEvolve
<1> HIDE DEF n
<1>5. Counted(n) = Counted(m) /\ Counted(n) \in Nat
  BY <1>2, <1>4, BusyFields DEF Counted
<1>6. m.arm \in 1..Len(Arms(m.job))
  BY <1>1, <1>2 DEF Sound, InEvolve, Evolving
<1>7. InEvolve(n) /\ InWalk(n) /\ Window(n) = Window(m)
  BY <1>1, <1>2, <1>3, <1>4, <1>5, <1>6, StaysInEvolve DEF Evolving
<1>8. Arm(n) = Arm(m)
  BY <1>4 DEF Arm, SameEvolve
<1>9. InArm(n)
  BY <1>1, <1>2, <1>4, <1>5, <1>7, <1>8 DEF Sound, InArm, SameEvolve
<1>10. /\ FilesSound' /\ ChampionsSound' /\ ckpt' \in Checkpoint \cup {Missing, Torn}
       /\ ledger' \in Nat /\ wfState' \in Walk \cup {Missing} /\ champions' \subseteq Champion
  BY <1>1, Readables DEF RunInv, RunTypeOK, FilesSound, ChampionsSound
<1> QED BY <1>1, <1>3, <1>7, <1>9, <1>10, OneMoves DEF Sound, Memory

\* What is saved can be trusted by whoever reads it.
LEMMA SnapshotSound ==
  ASSUME NEW m \in Busy, Sound(m), m.pc = "saving"
  PROVE  Snapshot(m) \in Checkpoint /\ CheckpointSound(Snapshot(m))
<1>1. /\ m.history = UpTo(m.gen) /\ Trials(m.gen) <= Counted(m)
      /\ HeadSound(m.best, Window(m), m.job.mode, Arm(m))
  BY DEF Sound, InArm
<1>2. m.win <= Len(m.job.windows) /\ m.arm \in 1..Len(Arms(m.job))
  BY DEF Sound, InEvolve, Evolving
<1>3. /\ Window(m) \in Dates /\ Arm(m) \in Seq(Coins) /\ m.job.mode \in Modes /\ m.job \in Jobs
  BY <1>2, WhereItScores, BusyFields, JobFields
<1>4. /\ ArmTag(m.job, Arm(m)) \in Seq(Coins)
      /\ m.job.mode = "per_symbol" => ArmTag(m.job, Arm(m)) = Arm(m)
  BY <1>3, TagOfArm
<1>5. m.prior + m.mine \in Nat
  BY BusyFields
<1>6. Snapshot(m) \in Checkpoint
  BY <1>3, <1>4, <1>5, BusyFields DEF Snapshot, Checkpoint
<1>7. CheckpointSound(Snapshot(m))
  BY <1>1, <1>4 DEF Snapshot, CheckpointSound, Counted, HeadSound, ScoredOn
<1> QED BY <1>6, <1>7

LEMMA SaveStep ==
  ASSUME RunInv, NEW w \in Workers, Save(w)
  PROVE  RunInv'
<1> DEFINE m == wk[w]
<1>1. m.pc = "saving" /\ ckpt' = Snapshot(m) /\ UNCHANGED <<ledger, wfState, champions>>
  BY DEF Save
<1>2. m \in Busy /\ Sound(m)
  BY <1>1, AtWork DEF Evolving
<1>3. PICK best, stale, pc :
        /\ best \in {[on |-> m.pop], m.best} /\ stale \in {0, m.stale + 1}
        /\ pc \in {"armdone", "generation"}
        /\ wk' = [wk EXCEPT ![w] = [m EXCEPT !.best = best, !.stale = stale, !.pc = pc]]
  <2>1. PICK better \in BOOLEAN :
          LET n == [m EXCEPT !.best = IF better THEN [on |-> m.pop] ELSE m.best,
                             !.stale = IF better THEN 0 ELSE m.stale + 1]
          IN wk' = [wk EXCEPT ![w] = [n EXCEPT !.pc = IF n.stale >= EarlyStop THEN "armdone"
                                                      ELSE "generation"]]
    BY DEF Save
  <2> DEFINE b == IF better THEN [on |-> m.pop] ELSE m.best
             s == IF better THEN 0 ELSE m.stale + 1
             n == [m EXCEPT !.best = b, !.stale = s]
             p == IF n.stale >= EarlyStop THEN "armdone" ELSE "generation"
  <2>2. wk' = [wk EXCEPT ![w] = [n EXCEPT !.pc = p]]
    BY <2>1
  <2>3. b \in {[on |-> m.pop], m.best} /\ s \in {0, m.stale + 1} /\ p \in {"armdone", "generation"}
    OBVIOUS
  <2>4. [n EXCEPT !.pc = p] = [m EXCEPT !.best = b, !.stale = s, !.pc = p]
    <3> HIDE DEF b, s, p
    <3> QED BY <1>2 DEF Busy
  <2> HIDE DEF b, s, p, n
  <2> QED BY <2>2, <2>3, <2>4
<1> DEFINE n == [m EXCEPT !.best = best, !.stale = stale, !.pc = pc]
<1>4. m.pop \in Scoring \cup {<<>>} /\ m.best \in Best /\ m.stale \in Nat
  BY <1>2, BusyFields
<1>5. best \in Best /\ stale \in Nat
  BY <1>3, <1>4 DEF Best
<1>6. n \in Busy
  BY <1>2, <1>3, <1>5 DEF Busy
<1>7. /\ n.pc = pc /\ n.gen = m.gen /\ n.best = best
      /\ n.history = m.history /\ n.prior = m.prior /\ n.mine = m.mine /\ n.arm = m.arm
      /\ n.runs = m.runs /\ SameEvolve(n, m)
  BY <1>2 DEF Busy, SameEvolve
<1>8. wk' = [wk EXCEPT ![w] = n]
  BY <1>3
<1> HIDE DEF n
<1>9. Counted(n) = Counted(m) /\ Counted(n) \in Nat
  BY <1>2, <1>7, BusyFields DEF Counted
<1>10. m.arm \in 1..Len(Arms(m.job))
  BY <1>1, <1>2 DEF Sound, InEvolve, Evolving
<1>11. InEvolve(n) /\ InWalk(n) /\ Window(n) = Window(m)
  BY <1>1, <1>2, <1>3, <1>6, <1>7, <1>9, <1>10, StaysInEvolve DEF Evolving
<1>12. Arm(n) = Arm(m)
  BY <1>7 DEF Arm, SameEvolve
<1>13. /\ m.history = UpTo(m.gen) /\ Trials(m.gen) <= Counted(m) /\ m.pop = <<Window(m), Arm(m)>>
       /\ HeadSound(m.best, Window(m), m.job.mode, Arm(m))
  BY <1>1, <1>2 DEF Sound, InArm
<1>14. HeadSound(best, Window(m), m.job.mode, Arm(m))
  BY <1>3, <1>13 DEF HeadSound, ScoredOn
<1>15. InArm(n)
  BY <1>3, <1>7, <1>9, <1>11, <1>12, <1>13, <1>14 DEF InArm, SameEvolve
<1>16. ckpt' \in Checkpoint /\ CheckpointSound(ckpt')
  BY <1>1, <1>2, SnapshotSound
<1>17. /\ FilesSound' /\ ChampionsSound'
       /\ ledger' \in Nat /\ wfState' \in Walk \cup {Missing} /\ champions' \subseteq Champion
  BY <1>1, <1>16 DEF RunInv, RunTypeOK, FilesSound, ChampionsSound
<1> QED BY <1>6, <1>8, <1>11, <1>15, <1>16, <1>17, OneMoves DEF Sound, Memory

LEMMA EndArmStep ==
  ASSUME RunInv, NEW w \in Workers, EndArm(w)
  PROVE  RunInv'
<1> DEFINE m == wk[w]
           result == [best |-> m.best, arm |-> Arm(m), gen |-> m.gen, history |-> m.history]
           arm == IF m.arm < Len(Arms(m.job)) THEN m.arm + 1 ELSE m.arm
           pc == IF m.arm < Len(Arms(m.job)) THEN "arm" ELSE "publish"
           n == [m EXCEPT !.runs = Append(m.runs, result), !.arm = arm, !.pc = pc]
<1>1. /\ m.pc \in {"armdone", "generation"} /\ wk' = [wk EXCEPT ![w] = n]
      /\ ckpt' \in {ckpt, Missing} /\ UNCHANGED <<ledger, wfState, champions>>
  BY DEF EndArm
<1>2. m \in Busy /\ Sound(m)
  BY <1>1, AtWork DEF Evolving
<1>3. m.win <= Len(m.job.windows) /\ m.arm \in 1..Len(Arms(m.job)) /\ RunsSound(m)
  BY <1>1, <1>2 DEF Sound, InEvolve, Evolving
<1>4. Window(m) \in Dates /\ Arm(m) \in Seq(Coins) /\ m.job \in Jobs
  BY <1>2, <1>3, WhereItScores, BusyFields
<1>5. result \in ArmRun
  BY <1>2, <1>4, BusyFields DEF ArmRun
<1>6. arm \in 1..Len(Arms(m.job)) /\ pc \in {"arm", "publish"}
  <2>1. Len(Arms(m.job)) \in Nat
    BY <1>4, ArmsOfJob
  <2> QED BY <1>3, <2>1
<1>7. m.runs \in Seq(ArmRun)
  BY <1>2, BusyFields
<1>8. n \in Busy
  <2>1. Append(m.runs, result) \in Seq(ArmRun) /\ arm \in Nat
    <3> HIDE DEF result, arm
    <3> QED BY <1>5, <1>6, <1>7
  <2>2. \A r \in Seq(ArmRun), a \in Nat, p \in {"arm", "publish"} :
          [m EXCEPT !.runs = r, !.arm = a, !.pc = p] \in Busy
    BY <1>2 DEF Busy
  <2> HIDE DEF result, arm, pc
  <2> QED BY <1>6, <2>1, <2>2
<1>9. /\ n.pc = pc /\ n.prior = m.prior /\ n.mine = m.mine /\ n.arm = arm
      /\ n.runs = Append(m.runs, result) /\ SameEvolve(n, m)
  <2> HIDE DEF result, arm, pc
  <2> QED BY <1>2 DEF Busy, SameEvolve
<1>10. /\ m.history = UpTo(m.gen) /\ Trials(m.gen) <= Counted(m)
       /\ HeadSound(m.best, Window(m), m.job.mode, Arm(m))
  BY <1>1, <1>2 DEF Sound, InArm
<1>11. /\ result.best = m.best /\ result.arm = Arm(m) /\ result.gen = m.gen
       /\ result.history = m.history
  OBVIOUS
<1> HIDE DEF n, result, arm, pc
<1>12. Window(n) = Window(m) /\ Counted(n) = Counted(m)
  BY <1>9 DEF SameEvolve, Window, Counted
<1>13. RunsSound(n)
  <2> SUFFICES ASSUME NEW i \in 1..Len(n.runs)
               PROVE  /\ Trials(n.runs[i].gen) <= Counted(n) /\ n.runs[i].history = UpTo(n.runs[i].gen)
                      /\ HeadSound(n.runs[i].best, Window(n), n.job.mode, n.runs[i].arm)
    BY DEF RunsSound
  <2>1. CASE i \in 1..Len(m.runs)
    <3>1. n.runs[i] = m.runs[i]
      BY <1>5, <1>7, <1>9, <2>1
    <3> QED BY <1>3, <1>9, <1>12, <2>1, <3>1 DEF RunsSound, SameEvolve
  <2>2. CASE i = Len(m.runs) + 1
    <3>1. n.runs[i] = result
      BY <1>5, <1>7, <1>9, <2>2
    <3> QED BY <1>9, <1>10, <1>11, <1>12, <3>1 DEF SameEvolve
  <2>3. i \in 1..Len(m.runs) \/ i = Len(m.runs) + 1
    BY <1>5, <1>7, <1>9
  <2> QED BY <2>1, <2>2, <2>3
<1>14. InEvolve(n)
  <2>1. n.pending # Missing => CheckpointSound(n.pending) /\ ~Refused(n.pending, n)
    BY <1>1, <1>2, <1>9, <1>12
       DEF SameEvolve, Sound, InEvolve, Evolving, Refused, WindowMismatch, ModeMismatch
  <2> QED BY <1>3, <1>6, <1>9, <1>13, <2>1 DEF InEvolve, SameEvolve
<1>15. InArm(n) /\ InWalk(n)
  BY <1>1, <1>2, <1>6, <1>9 DEF InArm, InWalk, SameEvolve, Sound, Evolving
<1>16. /\ FilesSound' /\ ChampionsSound' /\ ckpt' \in Checkpoint \cup {Missing, Torn}
       /\ ledger' \in Nat /\ wfState' \in Walk \cup {Missing} /\ champions' \subseteq Champion
  BY <1>1, Readables DEF RunInv, RunTypeOK, FilesSound, ChampionsSound
<1> QED BY <1>1, <1>8, <1>14, <1>15, <1>16, OneMoves DEF Sound, Memory

\* A published arm.
LEMMA PublishedSound ==
  ASSUME NEW m \in Busy, Sound(m), m.pc = "publish", NEW i \in 1..Len(m.runs),
         m.runs[i].best # NoOne, NEW n \in Nat, n >= Counted(m)
  PROVE  LET c == Published(m, m.runs[i], n) IN
         /\ c \in Champion /\ c.trials >= Trials(c.gen) /\ c.history = UpTo(c.gen)
         /\ ScoredOn(c.on, c.window, c.mode, c.arm)
<1> DEFINE r == m.runs[i]
           c == Published(m, r, n)
<1>1. m.win <= Len(m.job.windows) /\ m.arm \in 1..Len(Arms(m.job)) /\ RunsSound(m)
  BY DEF Sound, InEvolve, Evolving
<1>2. Window(m) \in Dates /\ m.job.mode \in Modes
  BY <1>1, WhereItScores, BusyFields, JobFields
<1>3. r \in ArmRun
  BY BusyFields
<1>4. /\ Trials(r.gen) <= Counted(m) /\ r.history = UpTo(r.gen)
      /\ HeadSound(r.best, Window(m), m.job.mode, r.arm)
  BY <1>1 DEF RunsSound
<1>5. Counted(m) \in Nat
  BY BusyFields DEF Counted
<1> HIDE DEF r
<1>6. /\ r.best \in Best /\ r.arm \in Seq(Coins) /\ r.gen \in Nat /\ r.history \in Seq(Nat)
  BY <1>3 DEF ArmRun
<1>7. r.best.on \in Scoring
  BY <1>6 DEF Best, NoOne, r
<1>8. c \in Champion
  BY <1>2, <1>6, <1>7 DEF Published, Champion
<1>9. /\ c.on = r.best.on /\ c.window = Window(m) /\ c.mode = m.job.mode /\ c.arm = r.arm
      /\ c.trials = n /\ c.history = r.history /\ c.gen = r.gen
  BY DEF Published
<1>10. r.best # NoOne
  BY DEF r
<1> HIDE DEF c
<1>11. c.trials >= Trials(c.gen) /\ c.history = UpTo(c.gen) /\ ScoredOn(c.on, c.window, c.mode, c.arm)
  <2>1. Trials(r.gen) \in Nat
    BY <1>6, TrialsAddUp
  <2> QED BY <1>4, <1>5, <1>9, <1>10, <2>1 DEF HeadSound
<1> QED BY <1>8, <1>11 DEF c, r

LEMMA PublishStep ==
  ASSUME RunInv, NEW w \in Workers, Publish(w)
  PROVE  RunInv'
<1> DEFINE m == wk[w]
           n == DsrTrials(m.prior, LoadTrials, m.mine)
           scored == {i \in 1..Len(m.runs) : m.runs[i].best # NoOne}
           rows == Append(m.rows, m.win)
           next == [m EXCEPT !.pc = "window", !.win = m.win + 1, !.rows = rows]
           over == Exited(m, IF scored = {} THEN "error" ELSE "result")
<1>1. /\ m.pc = "publish" /\ champions' = {Published(m, m.runs[i], n) : i \in scored}
      /\ UNCHANGED <<ckpt, ledger>>
      /\ \/ m.job.kind = "ga" /\ wk' = [wk EXCEPT ![w] = over] /\ UNCHANGED wfState
         \/ /\ m.job.kind = "wf" /\ wfState' = [file |-> "whole", done |-> m.win, rows |-> rows]
            /\ wk' = [wk EXCEPT ![w] = next]
  BY DEF Publish
<1>2. m \in Busy /\ Sound(m)
  BY <1>1, AtWork DEF Evolving
<1>3. n \in Nat /\ n >= Counted(m)
  BY <1>2, BusyFields DEF DsrTrials, Larger, LoadTrials, Counted, RunInv, RunTypeOK
<1>4. champions' \subseteq Champion /\ ChampionsSound'
  <2>1. \A i \in scored :
          LET c == Published(m, m.runs[i], n) IN
          /\ c \in Champion /\ c.trials >= Trials(c.gen) /\ c.history = UpTo(c.gen)
          /\ ScoredOn(c.on, c.window, c.mode, c.arm)
    <3> HIDE DEF n
    <3> QED BY <1>1, <1>2, <1>3, PublishedSound
  <2> HIDE DEF n, scored, m
  <2> QED BY <1>1, <2>1 DEF ChampionsSound
<1>5. /\ ckpt' \in Checkpoint \cup {Missing, Torn} /\ ledger' \in Nat
      /\ Readable(ckpt') => CheckpointSound(ckpt')
  BY <1>1 DEF RunInv, RunTypeOK, FilesSound
<1>6. CASE m.job.kind = "ga"
  <2>1. over \in Memory /\ Sound(over)
    BY <1>2, <1>6, BusyFields
       DEF Exited, Memory, Gone, Sound, InEvolve, InArm, InWalk, Evolving
  <2>2. wfState' \in Walk \cup {Missing} /\ FilesSound'
    BY <1>1, <1>5, <1>6 DEF RunInv, RunTypeOK, FilesSound
  <2> HIDE DEF over
  <2> QED BY <1>1, <1>4, <1>5, <1>6, <2>1, <2>2, OneMoves
<1>7. CASE m.job.kind = "wf"
  <2>1. m.win \in Nat \ {0} /\ m.rows \in Seq(Nat) /\ m.rows = UpTo(m.win - 1)
    BY <1>1, <1>2, <1>7, BusyFields DEF Sound, InWalk, Evolving
  <2>2. rows \in Seq(Nat) /\ rows = UpTo(m.win)
    <3>1. m.win - 1 \in Nat /\ (m.win - 1) + 1 = m.win
      BY <2>1
    <3> QED BY <2>1, <3>1, UpToIsSeq
  <2> HIDE DEF rows
  <2>3. next \in Busy
    <3>1. m.win + 1 \in Nat \ {0}
      BY <2>1
    <3>2. \A k \in Nat \ {0}, r \in Seq(Nat) : [m EXCEPT !.pc = "window", !.win = k, !.rows = r] \in Busy
      BY <1>2 DEF Busy
    <3> QED BY <2>2, <3>1, <3>2
  <2>4. next.pc = "window" /\ next.win = m.win + 1 /\ next.rows = rows /\ next.job = m.job
    BY <1>2 DEF Busy
  <2>5. wfState' = [file |-> "whole", done |-> m.win, rows |-> rows] /\ wk' = [wk EXCEPT ![w] = next]
    BY <1>1, <1>7
  <2> HIDE DEF next
  <2>6. Sound(next)
    <3>1. next.win - 1 = m.win
      BY <2>1, <2>4
    <3> QED BY <2>2, <2>4, <3>1 DEF Sound, InEvolve, InArm, InWalk, Evolving
  <2>7. wfState' \in Walk /\ FilesSound'
    BY <1>5, <2>1, <2>2, <2>5 DEF FilesSound, Walk
  <2> QED BY <1>4, <1>5, <2>3, <2>5, <2>6, <2>7, OneMoves DEF Memory
<1> QED BY <1>1, <1>6, <1>7

LEMMA ReportStep ==
  ASSUME RunInv, NEW w \in Workers, Report(w)
  PROVE  RunInv'
<1> DEFINE m == wk[w]
           n == Exited(m, "result")
<1>1. /\ m.pc = "window" /\ m.win > Len(m.job.windows) /\ wfState' = Missing
      /\ wk' = [wk EXCEPT ![w] = n] /\ UNCHANGED <<ckpt, ledger, champions>>
  BY DEF Report
<1>2. /\ m.job \in Jobs /\ m.win \in Nat \ {0} /\ m.rows \in Seq(Nat)
      /\ m.job.kind = "wf" => m.rows = UpTo(m.win - 1)
  BY <1>1, AtWindow
<1>3. Len(m.job.windows) \in Nat
  BY <1>2, JobFields DEF SomeOf
<1>4. m.job.kind = "wf" => m.rows = UpTo(Len(m.rows)) /\ Len(m.rows) >= Len(m.job.windows)
  <2>1. m.win - 1 \in Nat /\ m.win - 1 >= Len(m.job.windows)
    BY <1>1, <1>2, <1>3
  <2> QED BY <1>2, <2>1, UpToIsSeq
<1>5. n \in Memory /\ Sound(n)
  BY <1>2, <1>4 DEF Exited, Memory, Gone, Sound, InEvolve, InArm, InWalk, Evolving
<1>6. /\ FilesSound' /\ ChampionsSound' /\ ckpt' \in Checkpoint \cup {Missing, Torn}
      /\ ledger' \in Nat /\ wfState' \in Walk \cup {Missing} /\ champions' \subseteq Champion
  BY <1>1, Readables DEF RunInv, RunTypeOK, FilesSound, ChampionsSound
<1> HIDE DEF n
<1> QED BY <1>1, <1>5, <1>6, OneMoves

LEMMA WorkStepSound ==
  ASSUME RunInv, NEW w \in Workers, Work(w)
  PROVE  RunInv'
BY EvolveStep, StartArmStep, ScoreStep, RecordStep, SaveOpenStep, SaveStep, EndArmStep,
   PublishStep, ReportStep DEF Work

----------------------------------------------------------------------------
(* The web server *)

\* What a killed process leaves in the list of processes.
LEMMA KilledSound ==
  ASSUME RunInv, NEW w \in Workers, Alive(w)
  PROVE  Killed(w) \in Memory /\ Sound(Killed(w))
<1>1. wk[w] \in Between \cup Busy
  BY DEF RunInv, RunTypeOK, Alive, Idle, Gone
<1>2. wk[w].job \in Jobs
  BY <1>1 DEF Between, Busy
<1>3. wk[w].job.kind \in Kinds
  BY <1>2, JobFields
<1> QED BY <1>3 DEF Killed, Memory, Gone, Sound, InEvolve, InArm, InWalk, Evolving

LEMMA KillStep ==
  ASSUME RunInv, NEW w \in Workers, Alive(w), wk' = [wk EXCEPT ![w] = Killed(w)],
         UNCHANGED <<ckpt, ledger, wfState, champions>>
  PROVE  RunInv'
BY KilledSound, OneMoves DEF RunInv, RunTypeOK, FilesSound, ChampionsSound

\* A process that has just been started.
LEMMA StartedSound ==
  ASSUME RunInv, NEW job \in Jobs, NEW resume \in BOOLEAN
  PROVE  Started(job, resume) \in Memory /\ Sound(Started(job, resume))
<1> DEFINE n == Started(job, resume)
<1>1. CASE Continues(job, resume)
  <2>1. wfState \in Walk /\ wfState.rows = UpTo(wfState.done)
    BY <1>1, Readables DEF Continues, RunInv, RunTypeOK, FilesSound
  <2>2. wfState.done \in Nat /\ wfState.rows \in Seq(Nat)
    BY <2>1 DEF Walk
  <2>3. n = [pc |-> "window", job |-> job, resume |-> resume, win |-> wfState.done + 1,
             first |-> wfState.done + 1, rows |-> wfState.rows]
    BY <1>1 DEF Started, NextWindow
  <2>4. wfState.done + 1 \in Nat \ {0} /\ (wfState.done + 1) - 1 = wfState.done
    BY <2>2
  <2> HIDE DEF n
  <2> QED BY <2>1, <2>2, <2>3, <2>4 DEF Memory, Between, Sound, InEvolve, InArm, InWalk, Evolving, n
<1>2. CASE ~Continues(job, resume)
  <2>1. n = [pc |-> "window", job |-> job, resume |-> resume, win |-> 1, first |-> 1, rows |-> <<>>]
    BY <1>2 DEF Started
  <2>2. <<>> \in Seq(Nat) /\ <<>> = UpTo(0)
    BY DEF UpTo
  <2> HIDE DEF n
  <2> QED BY <2>1, <2>2 DEF Memory, Between, Sound, InEvolve, InArm, InWalk, Evolving, n
<1> QED BY <1>1, <1>2

LEMMA LaunchStep ==
  ASSUME RunInv, NEW w \in Workers, NEW job \in Jobs, NEW resume \in BOOLEAN,
         Launch(w, job, resume)
  PROVE  RunInv'
<1>1. /\ wk' = [v \in Workers |-> IF v = w THEN Started(job, resume)
                                  ELSE IF Alive(v) /\ Held(v) THEN Killed(v) ELSE wk[v]]
      /\ UNCHANGED <<ckpt, ledger, wfState, champions>>
  BY DEF Launch
<1>2. \A v \in Workers : wk'[v] \in Memory /\ Sound(wk'[v])
  <2> SUFFICES ASSUME NEW v \in Workers PROVE wk'[v] \in Memory /\ Sound(wk'[v])
    OBVIOUS
  <2>1. wk[v] \in Memory /\ Sound(wk[v])
    BY DEF RunInv, RunTypeOK, Memory, Sound
  <2> QED BY <1>1, <2>1, KilledSound, StartedSound
<1>3. wk' \in [Workers -> Memory]
  BY <1>1, <1>2
<1> QED BY <1>1, <1>2, <1>3 DEF RunInv, RunTypeOK, FilesSound, ChampionsSound, Memory, Sound

LEMMA RunInvInit == Init => RunInv
<1> SUFFICES ASSUME Init PROVE RunInv
  OBVIOUS
<1>1. \A w \in Workers : wk[w] = Idle
  BY DEF Init, RunInit
<1>2. \A w \in Workers : Sound(wk[w])
  BY <1>1 DEF Sound, InEvolve, InArm, InWalk, Idle, Evolving
<1>3. RunTypeOK /\ FilesSound /\ ChampionsSound
  BY Readables DEF Init, RunInit, RunTypeOK, FilesSound, ChampionsSound
<1> QED BY <1>2, <1>3 DEF RunInv, Sound

LEMMA RunInvStep ==
  ASSUME RunInv, [Next]_vars
  PROVE  RunInv'
<1>1. CASE UNCHANGED runVars
  BY <1>1 DEF runVars, RunInv, RunTypeOK, FilesSound, ChampionsSound
<1>2. ASSUME NEW w \in Workers, WorkStep(w) PROVE RunInv'
  BY <1>2, WorkStepSound DEF WorkStep
<1>3. ASSUME NEW w \in Workers, Crash(w) PROVE RunInv'
  BY <1>3, KillStep DEF Crash
<1>4. ASSUME NEW w \in Workers, MonitorGa(w) \/ MonitorWf(w) PROVE RunInv'
  BY <1>1, <1>4 DEF MonitorGa, MonitorWf, Monitor
<1>5. ASSUME NEW w \in Workers, NEW job \in Jobs, NEW resume \in BOOLEAN,
             LaunchGa(w, job, resume) \/ LaunchWf(w, job, resume)
      PROVE  RunInv'
  BY <1>5, LaunchStep DEF LaunchGa, LaunchWf
<1>6. CASE Stop
  <2> DEFINE w == handle["ga"]
  <2>1. /\ Alive(w) /\ wk' = [wk EXCEPT ![w] = Killed(w)]
        /\ UNCHANGED <<ckpt, ledger, wfState, champions>>
    BY <1>6 DEF Stop
  <2>2. CASE w \in Workers
    BY <2>1, <2>2, KillStep
  <2>3. CASE w \notin Workers
    <3>1. wk' = wk
      BY <2>1, <2>3 DEF RunInv, RunTypeOK
    <3> QED BY <1>1, <2>1, <3>1 DEF runVars
  <2> QED BY <2>2, <2>3
<1>7. CASE Reboot
  BY <1>1, <1>7 DEF Reboot
<1>8. CASE UNCHANGED vars
  BY <1>1, <1>8 DEF vars
<1> QED BY <1>2, <1>3, <1>4, <1>5, <1>6, <1>7, <1>8 DEF Next

----------------------------------------------------------------------------
(* Walks of one length *)

Inside(m) ==
  /\ m.pc = "window" /\ m.job.kind = "wf" => m.win <= Len(m.job.windows) + 1
  /\ m.pc = "exited" /\ m.job.kind = "wf" /\ m.out = "result" =>
       Len(m.rows) <= Len(m.job.windows)

RecordsInside(state) ==
  \A j \in Jobs : j.kind = "wf" /\ Readable(state) => state.done <= Len(j.windows)

LEMMA OneStaysInside ==
  ASSUME RunInv, WithinWalk, NEW w \in Workers, NEW n, wk' = [wk EXCEPT ![w] = n], Inside(n),
         RecordsInside(wfState')
  PROVE  WithinWalk'
<1>1. \A v \in Workers : Inside(wk'[v])
  BY DEF RunInv, RunTypeOK, WithinWalk, Inside
<1> QED BY <1>1 DEF WithinWalk, Inside, RecordsInside

LEMMA WithinWalkWork ==
  ASSUME OneWalk, RunInv, WithinWalk, NEW w \in Workers, Work(w)
  PROVE  WithinWalk'
<1> DEFINE m == wk[w]
<1>0. RecordsInside(wfState)
  BY DEF WithinWalk, RecordsInside
<1>1. CASE Evolve(w)
  <2>1. m.pc = "window" /\ m.win <= Len(m.job.windows) /\ wfState' = EnterWindow(m)
    BY <1>1 DEF Evolve
  <2>2. m.job \in Jobs /\ m.win \in Nat \ {0}
    BY <2>1, AtWindow
  <2>3. Len(m.job.windows) \in Nat
    BY <2>2, JobFields DEF SomeOf
  <2>4. RecordsInside(wfState')
    <3>1. CASE m.job.kind = "wf"
      <4>1. wfState'.done = m.win - 1 /\ m.win - 1 <= Len(m.job.windows)
        BY <2>1, <2>2, <2>3, <3>1 DEF EnterWindow
      <4> QED BY <2>2, <3>1, <4>1 DEF OneWalk, RecordsInside
    <3>2. CASE m.job.kind # "wf"
      BY <1>0, <2>1, <3>2 DEF EnterWindow
    <3> QED BY <3>1, <3>2
  <2>5. PICK n : wk' = [wk EXCEPT ![w] = n] /\ (n.pc = "arm" \/ (n.pc = "exited" /\ n.out = "error"))
    BY <1>1 DEF Evolve, Failed, Exited
  <2>6. Inside(n)
    BY <2>5 DEF Inside
  <2> QED BY <2>4, <2>5, <2>6, OneStaysInside
<1>2. CASE StartArm(w)
  <2>1. m.pc = "arm" /\ wfState' = wfState
    BY <1>2 DEF StartArm
  <2>2. m \in Busy /\ m.win <= Len(m.job.windows) /\ m.win \in Nat /\ Len(m.job.windows) \in Nat
    BY <2>1, AtWork, BusyFields, JobFields DEF Sound, InEvolve, Evolving, SomeOf
  <2>3. PICK n : /\ wk' = [wk EXCEPT ![w] = n]
                 /\ \/ n = FreshArm(m) \/ n = Restored(m, m.pending) \/ n = Restored(m, ckpt)
                    \/ n = [m EXCEPT !.pc = "window", !.resume = FALSE] \/ n = Failed(m)
    BY <1>2 DEF StartArm
  <2>4. FreshArm(m).pc = "generation" /\ \A c : Restored(m, c).pc = "generation"
    BY <2>2 DEF FreshArm, Restored, Carried, Busy
  <2>5. LET a == [m EXCEPT !.pc = "window", !.resume = FALSE] IN
        a.pc = "window" /\ a.win = m.win /\ a.job = m.job
    BY <2>2 DEF Busy
  <2>6. Failed(m).pc = "exited" /\ Failed(m).out = "error"
    BY DEF Failed, Exited
  <2>7. m.win <= Len(m.job.windows) + 1
    BY <2>2
  <2>8. Inside(n)
    BY <2>3, <2>4, <2>5, <2>6, <2>7 DEF Inside
  <2> QED BY <1>0, <2>1, <2>3, <2>8, OneStaysInside
<1>3. ASSUME Score(w) \/ Record(w) \/ SaveOpen(w) \/ Save(w) \/ EndArm(w) PROVE WithinWalk'
  <2>1. m.pc \in Evolving /\ wfState' = wfState
    BY <1>3 DEF Score, Record, SaveOpen, Save, EndArm, Evolving
  <2>2. m \in Busy
    BY <2>1, AtWork
  <2>3. PICK n : wk' = [wk EXCEPT ![w] = n] /\ n.pc \in Evolving
    <3>1. "pc" \in DOMAIN m
      BY <2>2 DEF Busy
    <3>2. CASE Score(w)
      <4> DEFINE n == [m EXCEPT !.pc = "recording", !.gen = m.gen + 1,
                                !.pop = <<Window(m), Arm(m)>>, !.read = LoadTrials]
      <4>1. wk' = [wk EXCEPT ![w] = n]
        BY <3>2 DEF Score
      <4>2. n.pc = "recording"
        BY <3>1
      <4> HIDE DEF n
      <4> QED BY <4>1, <4>2 DEF Evolving
    <3>3. CASE Record(w)
      <4> DEFINE n == [m EXCEPT !.pc = "save", !.read = 0, !.mine = m.mine + Population,
                                !.history = Append(m.history, m.gen)]
      <4>1. wk' = [wk EXCEPT ![w] = n]
        BY <3>3 DEF Record
      <4>2. n.pc = "save"
        BY <3>1
      <4> HIDE DEF n
      <4> QED BY <4>1, <4>2 DEF Evolving
    <3>4. CASE SaveOpen(w)
      <4> DEFINE n == [m EXCEPT !.pc = "saving"]
      <4>1. wk' = [wk EXCEPT ![w] = n]
        BY <3>4 DEF SaveOpen
      <4>2. n.pc = "saving"
        BY <3>1
      <4> HIDE DEF n
      <4> QED BY <4>1, <4>2 DEF Evolving
    <3>5. CASE EndArm(w)
      <4> DEFINE r == [best |-> m.best, arm |-> Arm(m), gen |-> m.gen, history |-> m.history]
                 p == IF m.arm < Len(Arms(m.job)) THEN "arm" ELSE "publish"
                 n == [m EXCEPT !.runs = Append(m.runs, r),
                         !.arm = IF m.arm < Len(Arms(m.job)) THEN m.arm + 1 ELSE m.arm,
                         !.pc = p]
      <4>1. wk' = [wk EXCEPT ![w] = n]
        BY <3>5 DEF EndArm
      <4>2. n.pc = p
        BY <3>1
      <4>3. p \in Evolving
        BY DEF Evolving
      <4> HIDE DEF n, p
      <4> QED BY <4>1, <4>2, <4>3
    <3>6. CASE Save(w)
      <4>1. PICK better \in BOOLEAN :
              LET k == [m EXCEPT !.best = IF better THEN [on |-> m.pop] ELSE m.best,
                                 !.stale = IF better THEN 0 ELSE m.stale + 1]
              IN wk' = [wk EXCEPT ![w] = [k EXCEPT !.pc = IF k.stale >= EarlyStop THEN "armdone"
                                                          ELSE "generation"]]
        BY <3>6 DEF Save
      <4> DEFINE k == [m EXCEPT !.best = IF better THEN [on |-> m.pop] ELSE m.best,
                                !.stale = IF better THEN 0 ELSE m.stale + 1]
                 p == IF k.stale >= EarlyStop THEN "armdone" ELSE "generation"
                 n == [k EXCEPT !.pc = p]
      <4>2. wk' = [wk EXCEPT ![w] = n]
        BY <4>1
      <4>3. "pc" \in DOMAIN k
        BY <3>1
      <4>4. p \in Evolving
        BY DEF Evolving
      <4>5. n.pc = p
        <5> HIDE DEF k, p
        <5> QED BY <4>3
      <4> HIDE DEF n, p, k
      <4> QED BY <4>2, <4>4, <4>5
    <3> QED BY <1>3, <3>2, <3>3, <3>4, <3>5, <3>6
  <2>4. Inside(n)
    BY <2>3 DEF Inside, Evolving
  <2> QED BY <1>0, <2>1, <2>3, <2>4, OneStaysInside
<1>4. CASE Publish(w)
  <2>1. m.pc = "publish"
    BY <1>4 DEF Publish
  <2>2. m \in Busy /\ m.win <= Len(m.job.windows) /\ m.win \in Nat /\ m.job \in Jobs
    BY <2>1, AtWork, BusyFields DEF Sound, InEvolve, Evolving
  <2>3. Len(m.job.windows) \in Nat
    BY <2>2, JobFields DEF SomeOf
  <2>4. CASE m.job.kind = "ga"
    <3>1. PICK n : wk' = [wk EXCEPT ![w] = n] /\ n.pc = "exited" /\ n.job = m.job
      BY <1>4, <2>4 DEF Publish, Exited
    <3>2. Inside(n)
      BY <2>4, <3>1 DEF Inside
    <3>3. wfState' = wfState
      BY <1>4, <2>4 DEF Publish
    <3> QED BY <1>0, <3>1, <3>2, <3>3, OneStaysInside
  <2>5. CASE m.job.kind = "wf"
    <3>1. PICK n : /\ wk' = [wk EXCEPT ![w] = n] /\ n.pc = "window" /\ n.win = m.win + 1
                   /\ n.job = m.job
      BY <1>4, <2>2, <2>5 DEF Publish, Busy
    <3>2. m.win + 1 <= Len(m.job.windows) + 1
      BY <2>2, <2>3
    <3>3. Inside(n)
      BY <3>1, <3>2 DEF Inside
    <3>4. wfState'.done = m.win
      BY <1>4, <2>5 DEF Publish
    <3>5. RecordsInside(wfState')
      BY <2>2, <2>5, <3>4 DEF OneWalk, RecordsInside
    <3> QED BY <3>1, <3>3, <3>5, OneStaysInside
  <2> QED BY <2>2, <2>4, <2>5, JobFields DEF Kinds
<1>5. CASE Report(w)
  <2>1. m.pc = "window" /\ wfState' = Missing /\ wk' = [wk EXCEPT ![w] = Exited(m, "result")]
    BY <1>5 DEF Report
  <2>2. /\ m.job \in Jobs /\ m.win \in Nat \ {0}
        /\ m.job.kind = "wf" => m.rows = UpTo(m.win - 1)
    BY <2>1, AtWindow
  <2>3. Len(m.job.windows) \in Nat
    BY <2>2, JobFields DEF SomeOf
  <2>4. m.job.kind = "wf" => Len(m.rows) <= Len(m.job.windows)
    <3>1. m.job.kind = "wf" => m.win <= Len(m.job.windows) + 1
      BY <2>1 DEF WithinWalk
    <3>2. m.win - 1 \in Nat
      BY <2>2
    <3>3. Len(UpTo(m.win - 1)) = m.win - 1
      BY <3>2, UpToIsSeq
    <3> QED BY <2>2, <2>3, <3>1, <3>2, <3>3
  <2>5. Inside(Exited(m, "result"))
    BY <2>4 DEF Inside, Exited
  <2>6. RecordsInside(wfState')
    BY <2>1, Readables DEF RecordsInside
  <2> QED BY <2>1, <2>5, <2>6, OneStaysInside
<1> QED BY <1>1, <1>2, <1>3, <1>4, <1>5 DEF Work

LEMMA WithinWalkStep ==
  ASSUME OneWalk, RunInv, WithinWalk, [Next]_vars
  PROVE  WithinWalk'
<1>0. RecordsInside(wfState)
  BY DEF WithinWalk, RecordsInside
<1>1. ASSUME UNCHANGED <<wk, wfState>> PROVE WithinWalk'
  BY <1>1 DEF WithinWalk
<1>2. ASSUME NEW w \in Workers, wk' = [wk EXCEPT ![w] = Killed(w)], wfState' = wfState
      PROVE  WithinWalk'
  <2>1. Inside(Killed(w))
    BY DEF Inside, Killed
  <2> QED BY <1>0, <1>2, <2>1, OneStaysInside
<1>3. ASSUME NEW w \in Workers, WorkStep(w) PROVE WithinWalk'
  BY <1>3, WithinWalkWork DEF WorkStep
<1>4. ASSUME NEW w \in Workers, Crash(w) PROVE WithinWalk'
  BY <1>2, <1>4 DEF Crash
<1>5. ASSUME NEW w \in Workers, MonitorGa(w) \/ MonitorWf(w) PROVE WithinWalk'
  BY <1>1, <1>5 DEF MonitorGa, MonitorWf, Monitor, runVars
<1>6. ASSUME NEW w \in Workers, NEW job \in Jobs, NEW resume \in BOOLEAN, Launch(w, job, resume)
      PROVE  WithinWalk'
  <2>1. /\ wk' = [v \in Workers |-> IF v = w THEN Started(job, resume)
                                    ELSE IF Alive(v) /\ Held(v) THEN Killed(v) ELSE wk[v]]
        /\ wfState' = wfState
    BY <1>6 DEF Launch
  <2>2. Inside(Started(job, resume))
    <3>1. /\ Started(job, resume).pc = "window" /\ Started(job, resume).job = job
          /\ Started(job, resume).win = IF Continues(job, resume) THEN wfState.done + 1 ELSE 1
      BY DEF Started, NextWindow
    <3>2. Len(job.windows) \in Nat
      BY JobFields DEF SomeOf
    <3>3. Continues(job, resume) => wfState.done \in Nat /\ wfState.done <= Len(job.windows)
      BY <1>0, Readables DEF Continues, RecordsInside, RunInv, RunTypeOK, Walk
    <3> QED BY <3>1, <3>2, <3>3 DEF Inside
  <2>3. \A v \in Workers : Inside(wk'[v])
    <3>1. \A v \in Workers : Inside(Killed(v)) /\ Inside(wk[v])
      BY DEF Inside, Killed, WithinWalk
    <3> QED BY <2>1, <2>2, <3>1
  <2> QED BY <1>0, <2>1, <2>3 DEF WithinWalk, Inside, RecordsInside
<1>7. CASE Stop
  <2> DEFINE w == handle["ga"]
  <2>1. wk' = [wk EXCEPT ![w] = Killed(w)] /\ wfState' = wfState
    BY <1>7 DEF Stop
  <2>2. w \notin Workers => wk' = wk
    BY <2>1 DEF RunInv, RunTypeOK
  <2> QED BY <1>1, <1>2, <2>1, <2>2
<1>8. CASE Reboot
  BY <1>1, <1>8 DEF Reboot, runVars
<1>9. CASE UNCHANGED vars
  BY <1>1, <1>9 DEF vars, runVars
<1> QED BY <1>3, <1>4, <1>5, <1>6, <1>7, <1>8, <1>9 DEF Next, LaunchGa, LaunchWf

----------------------------------------------------------------------------
(* The theorems *)

LEMMA RunIsSound == Spec => []RunInv
<1>1. Init => RunInv
  BY RunInvInit
<1>2. RunInv /\ [Next]_vars => RunInv'
  BY RunInvStep
<1> QED BY <1>1, <1>2, PTL DEF Spec

\* The memory of every process and every file it shares keep their types,
\* whichever process writes over whose file and wherever one is killed.
THEOREM TypesKept == Spec => []RunTypeOK
<1>1. RunInv => RunTypeOK
  BY DEF RunInv
<1> QED BY <1>1, RunIsSound, PTL

\* The trial floor of a resumed arm and dsr_trial_counts: no champion is deflated by
\* fewer trials than the generations that led to it, before a resume and after, also
\* when the ledger was lost or overwritten.  What was scored and lost in a kill is not
\* in the count (GaDesk!EveryTrialCounts).
THEOREM TrialsCounted == Spec => []GenerationsAreCounted
<1>1. RunInv => GenerationsAreCounted
  BY DEF RunInv, ChampionsSound, GenerationsAreCounted
<1> QED BY <1>1, RunIsSound, PTL

\* _read_checkpoint and _restore_checkpoint: no champion was scored on another
\* window, nor, with a population per symbol, on another symbol.
THEOREM NeverElsewhere == Spec => []ScoredWhereItTrades
<1>1. RunInv => ScoredWhereItTrades
  BY DEF RunInv, ChampionsSound, ScoredWhereItTrades
<1> QED BY <1>1, RunIsSound, PTL

\* Nothing is skipped and nothing done twice: the generations of a search, and,
\* when all walk-forward jobs have as many windows, the windows of a report.
THEOREM NothingSkipped == OneWalk => (Spec => []SearchesInOrder)
<1> SUFFICES ASSUME OneWalk PROVE Spec => []SearchesInOrder
  OBVIOUS
<1>1. Init => WithinWalk
  <2>1. Init => (\A w \in Workers : wk[w].pc = "off") /\ wfState = Missing
    BY DEF Init, RunInit, Idle
  <2> QED BY <2>1, Readables DEF WithinWalk
<1>2. RunInv /\ WithinWalk /\ [Next]_vars => WithinWalk'
  BY WithinWalkStep
<1>3. RunInv /\ WithinWalk => SearchesInOrder
  <2> SUFFICES ASSUME RunInv, WithinWalk PROVE SearchesInOrder
    OBVIOUS
  <2>1. HistoryIsUnbroken
    BY DEF RunInv, ChampionsSound, HistoryIsUnbroken
  <2>2. ASSUME NEW w \in Workers, wk[w].pc = "exited", wk[w].job.kind = "wf", wk[w].out = "result"
        PROVE  wk[w].rows = UpTo(Len(wk[w].job.windows))
    <3>1. wk[w] \in Memory
      BY DEF RunInv, RunTypeOK, Memory
    <3>2. wk[w].job \in Jobs /\ wk[w].rows \in Seq(Nat)
      BY <2>2, <3>1 DEF Memory, Idle, Between, Busy, Gone
    <3>3. Len(wk[w].job.windows) \in Nat /\ Len(wk[w].rows) \in Nat
      BY <3>2, JobFields DEF SomeOf
    <3>4. Len(wk[w].rows) = Len(wk[w].job.windows)
      BY <2>2, <3>3 DEF RunInv, InWalk, WithinWalk
    <3> QED BY <2>2, <3>4 DEF RunInv, InWalk
  <2> QED BY <2>1, <2>2 DEF SearchesInOrder, WindowsOnceInOrder
<1> QED BY <1>1, <1>2, <1>3, RunIsSound, PTL DEF Spec
=============================================================================
