------------------------------- MODULE Breadth -------------------------------
(*************************************************************************)
(* Market breadth (core/market_data/breadth.py): the all-symbol ticker   *)
(* is asked for with retries, turned into one labelled observation, and  *)
(* appended to a JSON-lines file that is trimmed when it grows.  A       *)
(* process may die at any step; other processes only read, each through  *)
(* its own remembered copy of the file.                                  *)
(*************************************************************************)
EXTENDS Integers, Sequences, FiniteSets, FiniteSetsExt, SequencesExt

CONSTANTS Readers, Recorder,   \* processes; only the recorder refreshes
          Payloads,            \* what the endpoint serves: sets of ticker rows
          Ttl, MaxLines, Attempts,
          LastTime,            \* bound: clock
          MaxDeaths            \* bound: deaths of the recorder

VARIABLES now, file,           \* lines, and whether the last one lacks its line end
          memo,                \* process -> Unread, or the one copy it remembers of the file
          task,                \* the recorder's refresh
          told,                \* what the last refresh returned
          deaths, seen         \* history: the observations that were received

breadthVars == <<now, file, memo, task, told, deaths, seen>>

Processes == Readers \cup {Recorder}
Unread == <<>>
NoValue == <<>>
Bad == <<>>
Idle == [pc |-> "idle", started |-> 0, tries |-> 0, observation |-> NoValue, keep |-> <<>>]

BreadthInit ==
  /\ now = 0 /\ file = [lines |-> <<>>, torn |-> FALSE]
  /\ memo = [p \in Processes |-> Unread] /\ task = Idle
  /\ told = [value |-> NoValue, status |-> "none"] /\ deaths = 0 /\ seen = {}

(* --- one observation ------------------------------------------------------------- *)
Pairs(rows) == { r \in rows : r.usdt }
Traded(rows) == { r \in Pairs(rows) : r.volume > 0 }
Usable(rows) == Traded(rows)
Aggregate(rows, started) ==
  LET usable == Usable(rows)
      count(S) == Cardinality(S)
      total == MapThenSumSet(LAMBDA r : r.volume, usable)
  IN IF usable = {} THEN NoValue
     ELSE [at |-> now, started |-> started, pairs |-> count(Pairs(rows)),
           usable |-> count(usable), total |-> total,
           up |-> count({ r \in usable : r.change > 0 }),
           down |-> count({ r \in usable : r.change < 0 }),
           hhi |-> MapThenSumSet(LAMBDA r : (100 * r.volume) \div total, usable)]

(* --- the file -------------------------------------------------------------------- *)
Readable(lines) == SelectSeq(lines, LAMBDA x : x # Bad)
Load(p) == IF memo[p] = Unread THEN Readable(file.lines) ELSE memo[p][1]
Latest(p) == IF Load(p) = <<>> THEN NoValue ELSE Last(Load(p))
IsFresh(o) == o # NoValue /\ now - o.at <= Ttl
(* A line that is written after a torn one is glued to it: neither can be read. *)
Written(x) ==
  IF file.torn THEN [lines |-> Append(Front(file.lines), Bad), torn |-> FALSE]
  ELSE [lines |-> Append(file.lines, x), torn |-> FALSE]
Newest(lines) == SubSeq(lines, Len(lines) - MaxLines + 1, Len(lines))
Oldest(lines) == SubSeq(lines, 1, MaxLines)
Kept(lines) == Newest(lines)

Read(p) ==
  /\ p \in Readers
  /\ memo' = [memo EXCEPT ![p] = <<Load(p)>>]
  /\ UNCHANGED <<now, file, task, told, deaths, seen>>
Reopen(p) ==
  /\ p \in Readers /\ memo[p] # Unread
  /\ memo' = [memo EXCEPT ![p] = Unread]
  /\ UNCHANGED <<now, file, task, told, deaths, seen>>

(* --- refresh --------------------------------------------------------------------- *)
Refresh(force) ==
  /\ task = Idle
  /\ memo' = [memo EXCEPT ![Recorder] = <<Load(Recorder)>>]
  /\ IF IsFresh(Latest(Recorder)) /\ ~force
     THEN /\ told' = [value |-> Latest(Recorder), status |-> "fresh-cache"]
          /\ UNCHANGED task
     ELSE /\ task' = [Idle EXCEPT !.pc = "ask", !.started = now]
          /\ UNCHANGED told
  /\ UNCHANGED <<now, file, deaths, seen>>

FallBack ==
  /\ told' = [value |-> Latest(Recorder),
              status |-> IF Latest(Recorder) = NoValue THEN "unavailable" ELSE "stale-cache"]
  /\ memo' = [memo EXCEPT ![Recorder] = <<Load(Recorder)>>]
  /\ task' = Idle

(* A socket error, an undecodable body and a body that is no list are all retried. *)
NoAnswer ==
  /\ task.pc = "ask"
  /\ IF task.tries + 1 < Attempts
     THEN task' = [task EXCEPT !.tries = @ + 1] /\ UNCHANGED <<told, memo>>
     ELSE FallBack
  /\ UNCHANGED <<now, file, deaths, seen>>

Answer ==
  /\ task.pc = "ask"
  /\ \E rows \in Payloads :
       LET o == Aggregate(rows, task.started)
       IN IF o = NoValue THEN FallBack /\ UNCHANGED seen
          ELSE /\ task' = [task EXCEPT !.pc = "append", !.observation = o]
               /\ seen' = seen \cup {o} /\ UNCHANGED <<told, memo>>
  /\ UNCHANGED <<now, file, deaths>>

(* What an append leaves of the writer's own copy. *)
Invalid(copy) == Unread
Unchanged(copy) == copy
Dropped(copy) == Invalid(copy)
AppendLine ==
  /\ task.pc = "append" /\ file' = Written(task.observation)
  /\ memo' = [memo EXCEPT ![Recorder] = Dropped(@)]
  /\ IF Len(file'.lines) <= MaxLines
     THEN /\ told' = [value |-> task.observation, status |-> "live"] /\ task' = Idle
     ELSE /\ task' = [task EXCEPT !.pc = "trim", !.keep = Kept(file'.lines)]
          /\ UNCHANGED told
  /\ UNCHANGED <<now, deaths, seen>>

(* The temporary file is written first, then takes the place of the file. *)
Trim ==
  /\ task.pc = "trim" /\ file' = [lines |-> task.keep, torn |-> FALSE]
  /\ told' = [value |-> task.observation, status |-> "live"] /\ task' = Idle
  /\ UNCHANGED <<now, memo, deaths, seen>>

(* The recorder dies; in the middle of an append a part of the line is left. *)
Die ==
  /\ task # Idle /\ deaths < MaxDeaths /\ deaths' = deaths + 1
  /\ task' = Idle /\ memo' = [memo EXCEPT ![Recorder] = Unread]
  /\ \/ UNCHANGED file
     \/ task.pc = "append"
        /\ file' = [lines |-> Written(Bad).lines, torn |-> TRUE]
  /\ UNCHANGED <<now, told, seen>>

Tick == now < LastTime /\ now' = now + 1
        /\ UNCHANGED <<file, memo, task, told, deaths, seen>>

BreadthNext ==
  \/ \E p \in Readers : Read(p) \/ Reopen(p)
  \/ \E force \in BOOLEAN : Refresh(force)
  \/ NoAnswer \/ Answer \/ AppendLine \/ Trim \/ Die \/ Tick

(* --- properties -------------------------------------------------------------------- *)
(* Deaths and trims take no observation that can be read, unless MaxLines newer lines     *)
(* have followed it (breadth.py:77).                                                     *)
EarlierLinesStay ==
  \A i \in DOMAIN file.lines :
    LET o == file.lines[i]
    IN o # Bad /\ o \notin ToSet(file'.lines) => Len(file.lines) - i >= MaxLines

(* What is on file or remembered was really received, in the order of its labels, none      *)
(* labelled before it was asked for, and counts only pairs that traded; and the recorder    *)
(* sees what it wrote, whoever else reads the file (breadth.py:590, 705).                  *)
OnlyWhatWasSeen ==
  /\ \A p \in Processes :
       LET os == Load(p)
       IN /\ ToSet(os) \subseteq seen
          /\ \A i, j \in DOMAIN os : i < j => os[i].at <= os[j].at
          /\ \A i \in DOMAIN os : os[i].started <= os[i].at /\ os[i].total >= os[i].usable
  /\ task = Idle => Load(Recorder) = Readable(file.lines)
  /\ told.status = "live" => told.value \in seen
=============================================================================
