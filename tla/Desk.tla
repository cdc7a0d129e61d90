-------------------------------- MODULE Desk --------------------------------
(*************************************************************************)
(* The backtest page (web/routes/backtest.py): runs a browser posts, the *)
(* registry they are polled in, the one engine object that carries out   *)
(* all of them - each in a thread of its own, with its figures in        *)
(* attributes of that object - and the records and result files a run    *)
(* leaves when its result is fetched.                                    *)
(*                                                                       *)
(* The default fill convention keeps runs off the hybrid engine, so what *)
(* that one does to the configuration is left out.  Figures stand for    *)
(* the run they were resolved for, 0 for none yet.                       *)
(*************************************************************************)
EXTENDS Integers, Sequences, FiniteSets, FiniteSetsExt

CONSTANTS
  Browsers,
  Fees,            \* taker_fee_pct, as posted
  StoredFee,       \* the one of the configuration file
  Keep,            \* how long a finished run is kept for a browser to fetch
  MaxRuns,         \* bound: runs posted
  LastTime,        \* bound: last hour
  MaxActs          \* bound: page loads, deletions and restarts

VARIABLES
  runs,      \* runs[r]: the r-th run, its entry of _bt_runs and its thread
  engine,    \* whose spreads and whose data the engine's attributes hold
  fee,       \* config.backtest_taker_fee_pct
  tabs,      \* tabs[b]: the cookie, the run polled, the request under way
  records,   \* records[id]: the run a row of backtest_records is of
  files,     \* files[id]: the run whose result <id>.json holds
  lastId,    \* sqlite_sequence: the last id given out
  now, acts

deskVars == <<runs, engine, fee, tabs, records, files, lastId, now, acts>>

Idle == [at |-> "idle", run |-> 0, id |-> 0]
NoTab == [cookie |-> 0, polls |-> 0, request |-> Idle]

DeskInit ==
  /\ runs = <<>>
  /\ engine = [spreads |-> 0, feeder |-> 0]
  /\ fee = StoredFee
  /\ tabs = [b \in Browsers |-> NoTab]
  /\ records = [i \in {} |-> 0]
  /\ files = [i \in {} |-> 0]
  /\ lastId = 0
  /\ now = 0
  /\ acts = 0

Ids == DOMAIN runs
Done(r) == runs[r].stage \in {"finished", "failed", "dead"}
Live == {r \in Ids : ~Done(r)}
Listed == {r \in Ids : runs[r].listed}

With(table, id, run) == [i \in DOMAIN table \cup {id} |-> IF i = id THEN run ELSE table[i]]

----------------------------------------------------------------------------
(* Posting a run *)

\* Mutant of Outdated: whatever started long ago goes, also when it still runs.
OutdatedByAge(r) == now - runs[r].started > Keep

\* "Cleanup old completed runs": their age counts from their start.
Outdated(r) == runs[r].listed /\ Done(r) /\ now - runs[r].started > Keep

\* The fee of the form goes to the configuration every run reads.
Post(b) ==
  \E f \in Fees :
    /\ Len(runs) < MaxRuns
    /\ LET kept == [r \in Ids |-> [runs[r] EXCEPT !.listed = @ /\ ~Outdated(r),
                                                  !.alone = @ /\ Done(r)]]
           new == [stage |-> "queued", listed |-> TRUE, started |-> now, fee |-> f,
                   charged |-> {}, alone |-> Live = {}]
       IN runs' = Append(kept, new)
    /\ fee' = f
    /\ tabs' = [tabs EXCEPT ![b].cookie = Len(runs) + 1, ![b].polls = Len(runs) + 1]
    /\ UNCHANGED <<engine, records, files, lastId, now, acts>>

----------------------------------------------------------------------------
(* The thread of a run *)

Stage(r, from, to) == runs[r].stage = from /\ runs' = [runs EXCEPT ![r].stage = to]
desk == <<fee, tabs, records, files, lastId, now, acts>>

\* A fresh _run_state replaces the one of whatever run was before.
Begin(r) ==
  /\ Stage(r, "queued", "begun")
  /\ engine' = [engine EXCEPT !.spreads = 0]
  /\ UNCHANGED desk

\* The spreads come over the network, and go into the state that is there then.
Resolve(r) ==
  /\ Stage(r, "begun", "priced")
  /\ engine' = [engine EXCEPT !.spreads = r]
  /\ UNCHANGED desk

\* Mutant of Feed: data already loaded is not loaded again.
FeedOnce(r) ==
  /\ Stage(r, "priced", "trading")
  /\ engine' = [engine EXCEPT !.feeder = IF @ = 0 THEN r ELSE @]
  /\ UNCHANGED desk

Feed(r) ==
  /\ Stage(r, "priced", "trading")
  /\ engine' = [engine EXCEPT !.feeder = r]
  /\ UNCHANGED desk

\* Closing a position costs what the engine and the configuration say now.
Charge(r) ==
  /\ runs[r].stage = "trading"
  /\ LET figures == [spreads |-> engine.spreads, feeder |-> engine.feeder, fee |-> fee]
     IN runs' = [runs EXCEPT ![r].charged = @ \cup {figures}]
  /\ runs' # runs
  /\ UNCHANGED <<engine, desk>>

\* The result is stored, and only then the run is done.
Finish(r) ==
  /\ Stage(r, "trading", "finished")
  /\ UNCHANGED <<engine, desk>>

\* An exception anywhere in the run becomes its result.
Fail(r) ==
  /\ r \in Live
  /\ runs' = [runs EXCEPT ![r].stage = "failed"]
  /\ UNCHANGED <<engine, desk>>

----------------------------------------------------------------------------
(* The pages *)

thread == <<engine, fee, now>>

\* /partials/backtest-active: the run of the cookie, else the first that still runs.
Active(b) ==
  LET running == Listed \cap Live
  IN IF tabs[b].cookie \in running THEN tabs[b].cookie
     ELSE IF running = {} THEN 0 ELSE Min(running)

\* A page is loaded, or reconnects to a run whose id somebody typed.
Load(b) ==
  /\ acts < MaxActs /\ acts' = acts + 1
  /\ tabs[b].request = Idle
  /\ \E r \in {Active(b)} \cup Listed : tabs' = [tabs EXCEPT ![b].polls = r]
  /\ UNCHANGED <<thread, runs, records, files, lastId>>

\* The progress of a listed run says done: the page stops polling and asks for the
\* result.  A run no longer listed never says so.
Poll(b) ==
  /\ tabs[b].polls \in {r \in Listed : Done(r)}
  /\ tabs[b].request = Idle
  /\ tabs' = [tabs EXCEPT ![b].request = [at |-> "asked", run |-> tabs[b].polls, id |-> 0],
                          ![b].polls = 0]
  /\ UNCHANGED <<thread, runs, records, files, lastId, acts>>

At(b, point) == tabs[b].request.at = point
Run(b) == tabs[b].request.run
Go(b, point, id) ==
  tabs' = [tabs EXCEPT ![b].request = [@ EXCEPT !.at = point, !.id = id]]

\* An error is shown and the run stays listed; so is "Still running" of a run that
\* another page has fetched meanwhile.
Answer(b) ==
  /\ At(b, "asked")
  /\ IF Run(b) \in Listed /\ runs[Run(b)].stage = "finished"
       THEN Go(b, "insert", 0)
       ELSE tabs' = [tabs EXCEPT ![b].request = Idle]
  /\ UNCHANGED <<thread, runs, records, files, lastId, acts>>

\* Mutant of NextId: the id of a row is one more than the largest present.
NextIdOfRows == 1 + Max({0} \cup DOMAIN records)

\* AUTOINCREMENT: an id is never given twice.
NextId == lastId + 1

\* The row is committed; closing the connection gives way once more.
Insert(b) ==
  /\ At(b, "insert")
  /\ records' = With(records, NextId, Run(b))
  /\ lastId' = Max({lastId, NextId})
  /\ Go(b, "write", NextId)
  /\ UNCHANGED <<thread, runs, files, acts>>

\* The run leaves the registry and the browser its cookie.
Delivered(b) ==
  /\ runs' = [runs EXCEPT ![Run(b)].listed = FALSE]
  /\ tabs' = [tabs EXCEPT ![b].request = Idle, ![b].cookie = 0]

Write(b) ==
  /\ At(b, "write")
  /\ files' = With(files, tabs[b].request.id, Run(b))
  /\ Delivered(b)
  /\ UNCHANGED <<thread, records, lastId, acts>>

\* A failing insert or file is passed over in silence.
LosesIt(b) ==
  /\ At(b, "insert") \/ At(b, "write")
  /\ Delivered(b)
  /\ UNCHANGED <<thread, records, files, lastId, acts>>

\* Only the row goes.
Delete(id) ==
  /\ acts < MaxActs /\ acts' = acts + 1
  /\ records' = [i \in DOMAIN records \ {id} |-> records[i]]
  /\ UNCHANGED <<thread, runs, tabs, files, lastId>>

Tick ==
  /\ now < LastTime /\ now' = now + 1
  /\ UNCHANGED <<runs, engine, fee, tabs, records, files, lastId, acts>>

\* The registry and the threads go with the process, cookies and files stay.
Restart ==
  /\ acts < MaxActs /\ acts' = acts + 1
  /\ runs' = [r \in Ids |-> [runs[r] EXCEPT !.listed = FALSE,
                                           !.stage = IF Done(r) THEN @ ELSE "dead"]]
  /\ engine' = [spreads |-> 0, feeder |-> 0]
  /\ fee' = StoredFee
  /\ tabs' = [b \in Browsers |-> [NoTab EXCEPT !.cookie = tabs[b].cookie]]
  /\ UNCHANGED <<records, files, lastId, now>>

ThreadStep(r) ==
  Begin(r) \/ Resolve(r) \/ Feed(r) \/ Charge(r) \/ Finish(r) \/ Fail(r)
TabStep(b) ==
  \/ Post(b) \/ Load(b) \/ Poll(b)
  \/ Answer(b) \/ Insert(b) \/ Write(b) \/ LosesIt(b)

DeskNext ==
  \/ \E r \in Ids : ThreadStep(r)
  \/ \E b \in Browsers : TabStep(b)
  \/ \E id \in DOMAIN records : Delete(id)
  \/ Tick \/ Restart

DeskSpec == DeskInit /\ [][DeskNext]_deskVars

----------------------------------------------------------------------------
(* Properties *)

Stages == {"queued", "begun", "priced", "trading", "finished", "failed", "dead"}
Figures == [spreads : Nat, feeder : Nat, fee : Fees \cup {StoredFee}]
RunRecords ==
  [stage : Stages, listed : BOOLEAN, started : Int, fee : Fees, charged : SUBSET Figures,
   alone : BOOLEAN]
Requests == [at : {"idle", "asked", "insert", "write"}, run : Nat, id : Nat]

\* Every variable keeps its type.
DeskTypeOK ==
  /\ runs \in Seq(RunRecords)
  /\ engine \in [spreads : 0 .. Len(runs), feeder : 0 .. Len(runs)]
  /\ fee \in Fees \cup {StoredFee}
  /\ tabs \in [Browsers -> [cookie : Nat, polls : Nat, request : Requests]]
  /\ records \in [DOMAIN records -> Ids] /\ files \in [DOMAIN files -> Ids]
  /\ lastId \in Nat /\ DOMAIN records \cup DOMAIN files \subseteq 1 .. lastId
  /\ now \in Int /\ acts \in Nat

\* A stored result is shown for its own record, whatever was deleted, lost or cut
\* short in between: GET prefers the file of the id to the row of the id.
FileIsOfItsRecord == \A i \in DOMAIN records \cap DOMAIN files : files[i] = records[i]

\* A run that no other one overlapped was priced with its own spreads, its own data
\* and the fee of its own form, although all of them live in shared attributes.
AloneIsItsOwn ==
  \A r \in Ids : runs[r].alone =>
    runs[r].charged \subseteq {[spreads |-> r, feeder |-> r, fee |-> runs[r].fee]}

\* No clean-up and no fetching takes a run off the registry while its thread still
\* writes its progress there.
RunningIsListed == Live \subseteq Listed

\* A run leaves one record.
RecordedOnce ==
  \A i, j \in DOMAIN records : records[i] = records[j] => i = j

\* A request under way is about a run there is, one that has finished once it stores it.
AsksForARun ==
  \A b \in Browsers :
    /\ ~At(b, "idle") => Run(b) \in Ids
    /\ At(b, "insert") \/ At(b, "write") => runs[Run(b)].stage = "finished"

\* A file about to be written has its id to itself, and the row of that id, if it is
\* still there, is of the same run.
Writing(b) == tabs[b].request.id
WritesItsOwn ==
  /\ \A b \in Browsers : At(b, "write") =>
       /\ Writing(b) \in 1 .. lastId \ DOMAIN files
       /\ Writing(b) \in DOMAIN records => records[Writing(b)] = Run(b)
  /\ \A b, c \in Browsers :
       At(b, "write") /\ At(c, "write") /\ Writing(b) = Writing(c) => b = c

\* What a run alone finds in the shared attributes while it runs.
AloneFindsItsOwn ==
  \A r \in Ids : runs[r].alone /\ r \in Live =>
    /\ Live = {r} /\ fee = runs[r].fee
    /\ runs[r].stage \in {"priced", "trading"} => engine.spreads = r
    /\ runs[r].stage = "trading" => engine.feeder = r

\* What every step keeps (Parts proves it).
DeskInv ==
  /\ DeskTypeOK /\ AsksForARun /\ WritesItsOwn /\ AloneFindsItsOwn
  /\ FileIsOfItsRecord /\ AloneIsItsOwn /\ RunningIsListed
=============================================================================
