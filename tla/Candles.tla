------------------------------ MODULE Candles -------------------------------
(*************************************************************************)
(* The candle store of one symbol and interval: the parquet file, the    *)
(* frame the service keeps in memory, and everyone who writes them       *)
(* (core/ market_data/ohlcv_cache.py and provider.py,                    *)
(* scripts/download_history.py).                                         *)
(*                                                                       *)
(* A row is a bar under one of the two time-stamp conventions a file can *)
(* hold, with final values or with those of a bar still forming.         *)
(* Prices, columns and paging are left out; reading and writing the file *)
(* in one save or one script is one step.                                *)
(*************************************************************************)
EXTENDS Naturals, FiniteSets, FiniteSetsExt

CONSTANTS LastBar,      \* bound: bars that close in a run
          Page,         \* closed bars in one answer of the exchange
          MinCandles,   \* bars on disk that make the prefetch unnecessary
          Files,        \* files the service may find
          Backfills     \* bound: backfill runs

VARIABLES closed,      \* bars the exchange has closed; the next one is forming
          disk, mem, loaded, dirty,
          stream,      \* bars closed and not yet delivered by the stream
          live,        \* the prefetch is over, the stream task runs
          answer,      \* an answer of the exchange on its way to the service
          backfill,    \* what a backfill has read, if one runs
          backfills,
          writer,      \* history: who wrote the file last
          shrunk       \* history: a row was taken out of the file since a backfill has read it

history == <<writer, shrunk>>
candleVars ==
  <<closed, disk, mem, loaded, dirty, stream, live, answer, backfill, backfills, history>>

NoAnswer == [kind |-> "none", had |-> {}, rows |-> {}]
NoBackfill == [on |-> FALSE, had |-> {}]
Row(bar, conv, final) == [bar |-> bar, conv |-> conv, final |-> final]

(* --- unions ---------------------------------------------------------------- *)
Bars(rows) == {r.bar : r \in rows}
OneRowEach(rows) == Cardinality(rows) = Cardinality(Bars(rows))
Of(rows, bar) == {r \in rows : r.bar = bar}

(* The convention of most rows; a tie goes to that of the newest stamp, and a  *)
(* bar's close is newer than its open.                                         *)
Count(rows, conv) == Cardinality({r \in rows : r.conv = conv})
Newest(rows) ==
  CHOOSE r \in rows : \A s \in rows : s.bar < r.bar \/ (s.bar = r.bar /\ (s.conv = r.conv \/ r.conv = "close"))
Dominant(rows) ==
  CASE Count(rows, "open") > Count(rows, "close") -> "open"
    [] Count(rows, "open") < Count(rows, "close") -> "close"
    [] OTHER -> Newest(rows).conv

(* Exact stamps: the rows of one bar under two conventions both stay. *)
ByStamp(old, new) ==
  {r \in old : ~\E n \in new : n.bar = r.bar /\ n.conv = r.conv} \cup new

(* Within a bar the incoming row wins, and within one frame the later stamp. *)
Winner(old, new, bar) ==
  LET mine == IF Of(new, bar) # {} THEN Of(new, bar) ELSE Of(old, bar)
  IN CHOOSE r \in mine : \A s \in mine : r.conv = "close" \/ s.conv = "open"
ByBar(old, new) ==
  {LET r == Winner(old, new, bar)
   IN IF Cardinality(Of(old, bar)) + Cardinality(Of(new, bar)) > 1
      THEN [r EXCEPT !.conv = Dominant(old)] ELSE r : bar \in Bars(old \cup new)}

(* merge_bars of the script: the survivor keeps its own stamp. *)
MergeBars(old, new) == {Winner(old, new, bar) : bar \in Bars(old \cup new)}

IncomingWindow(old, new) == MergeBars({}, IF new = {} THEN old ELSE new)
ByExactStamp(old, new) == IF old = {} THEN new ELSE IF new = {} THEN old ELSE ByStamp(old, new)
MergeHistory(old, new) == IF old = {} THEN new ELSE IF new = {} THEN old ELSE ByBar(old, new)

(* What the exchange answers: the last closed bars and the one that is forming. *)
Klines(n) ==
  {Row(b, "close", TRUE) : b \in {c \in 1..closed : c + n > closed}}
    \cup {Row(b, "close", FALSE) : b \in {c \in {closed + 1} : c <= LastBar}}

(* --- the cache ------------------------------------------------------------- *)
Got == IF loaded THEN mem ELSE disk                  \* get: read once, then kept
Wrote(rows, who) ==
  /\ disk' = rows /\ writer' = who
  /\ shrunk' = (shrunk \/ \E r \in disk : ~\E n \in rows : n.bar = r.bar /\ n.conv = r.conv)
Stored(frame, who) == Wrote(frame, who) /\ mem' = frame /\ dirty' = FALSE /\ loaded' = TRUE

Unite(frame) == Stored(MergeHistory(disk, frame), "cache")

\* _read_disk takes a file that cannot be read, because another process is writing it
\* say, for one that is not there: the frame is written alone.
WriteAlone(frame) == disk # {} /\ Stored(frame, "alone")

Save(frame) == Unite(frame) \/ WriteAlone(frame)

CandleInit ==
  /\ closed = 2 /\ disk = {} /\ mem = {} /\ loaded = FALSE /\ dirty = FALSE
  /\ stream = {} /\ live = FALSE /\ answer = NoAnswer
  /\ backfill = NoBackfill /\ backfills = 0 /\ writer = "nobody" /\ shrunk = FALSE

(* A file left by an earlier writer. *)
FindFile ==
  /\ closed = 2 /\ disk = {} /\ ~loaded /\ answer = NoAnswer /\ ~live
  /\ disk' \in Files \ {{}}
  /\ UNCHANGED <<closed, mem, loaded, dirty, stream, live, answer, backfill, backfills, history>>

(* _prefetch_history: skipped when the file has enough. *)
Prefetch ==
  /\ ~live /\ answer = NoAnswer
  /\ mem' = Got /\ loaded' = (Got # {})
  /\ IF Cardinality(Got) >= MinCandles
     THEN live' = TRUE /\ UNCHANGED answer
     ELSE answer' = [kind |-> "prefetch", had |-> Got, rows |-> Klines(Page)] /\ UNCHANGED live
  /\ UNCHANGED <<closed, disk, dirty, stream, backfill, backfills, history>>

EndPrefetch ==
  /\ answer.kind = "prefetch"
  /\ live' = TRUE /\ answer' = NoAnswer
  /\ \/ Save(MergeHistory(answer.had, answer.rows))
     \/ UNCHANGED <<disk, mem, loaded, dirty, history>>       \* the request failed
  /\ UNCHANGED <<closed, stream, backfill, backfills>>

(* A bar closes; while the stream is down its candle never comes. *)
CloseBar ==
  /\ closed < LastBar /\ closed' = closed + 1
  /\ \E up \in BOOLEAN : stream' = IF live /\ up THEN stream \cup {closed + 1} ELSE stream
  /\ UNCHANGED <<disk, mem, loaded, dirty, live, answer, backfill, backfills, history>>

(* append_candle: into whatever frame is in memory, the file is not read. *)
Candle ==
  /\ stream # {}
  /\ stream' = stream \ {Min(stream)}
  /\ mem' = ByStamp(mem, {Row(Min(stream), "close", TRUE)}) /\ loaded' = TRUE /\ dirty' = TRUE
  /\ UNCHANGED <<closed, disk, live, answer, backfill, backfills, history>>

(* get_historical: enough in memory, or a request whose answer replaces the      *)
(* frame in memory and is saved.                                                *)
Historical ==
  /\ live /\ answer = NoAnswer /\ Cardinality(Got) < Page
  /\ mem' = Got /\ loaded' = (Got # {})
  /\ answer' = [kind |-> "historical", had |-> {}, rows |-> Klines(Page)]
  /\ UNCHANGED <<closed, disk, dirty, stream, live, backfill, backfills, history>>

EndHistorical ==
  /\ answer.kind = "historical"
  /\ answer' = NoAnswer
  /\ \/ Save(answer.rows)
     \/ UNCHANGED <<disk, mem, loaded, dirty, history>>       \* the request failed
  /\ UNCHANGED <<closed, stream, live, backfill, backfills>>

(* flush_all: a dirty frame is saved, any other frame in memory is united with   *)
(* the file, which is written only if that changes it and if it can be read.     *)
Flush ==
  /\ live /\ loaded
  /\ \/ dirty /\ Save(mem)
     \/ ~dirty /\ disk # {} /\ Unite(mem)
     \/ ~dirty /\ UNCHANGED <<disk, mem, loaded, dirty, history>>
  /\ UNCHANGED <<closed, stream, live, answer, backfill, backfills>>

(* The service stops; what is only in memory is gone. *)
Restart ==
  /\ live /\ live' = FALSE
  /\ mem' = {} /\ loaded' = FALSE /\ dirty' = FALSE /\ stream' = {} /\ answer' = NoAnswer
  /\ UNCHANGED <<closed, disk, backfill, backfills, history>>

(* --- the download script, in a process of its own ----------------------------- *)
(* Without --merge the file is replaced by what was downloaded, and so it is when *)
(* the merge raises.                                                              *)
Repair ==
  /\ \E from \in 1..closed, merges \in BOOLEAN :
       LET rows == {r \in Klines(LastBar) : r.bar >= from}
       IN IF merges THEN Wrote(MergeBars(disk, rows), "merge") ELSE Wrote(rows, "replace")
  /\ disk' # disk
  /\ UNCHANGED <<closed, mem, loaded, dirty, stream, live, answer, backfill, backfills>>

StartBackfill ==
  /\ ~backfill.on /\ backfills < Backfills /\ disk # {}
  /\ backfill' = [on |-> TRUE, had |-> disk] /\ backfills' = backfills + 1 /\ shrunk' = FALSE
  /\ UNCHANGED <<closed, disk, mem, loaded, dirty, stream, live, answer, writer>>

(* It adds columns to what it has read and writes that back, unless the number   *)
(* of rows or the last stamp has changed meanwhile.                             *)
Moved(had) == LET a == Newest(disk) b == Newest(had)
              IN Cardinality(disk) # Cardinality(had) \/ a.bar # b.bar \/ a.conv # b.conv
EndBackfill ==
  /\ backfill.on /\ backfill' = NoBackfill
  /\ IF Moved(backfill.had) THEN UNCHANGED <<disk, history>>
     ELSE Wrote(MergeBars(backfill.had, backfill.had), "backfill")
  /\ UNCHANGED <<closed, mem, loaded, dirty, stream, live, answer, backfills>>

CandleNext ==
  \/ FindFile \/ Prefetch \/ EndPrefetch \/ CloseBar \/ Candle \/ Historical \/ EndHistorical
  \/ Flush \/ Restart \/ Repair \/ StartBackfill \/ EndBackfill

(* --- properties ------------------------------------------------------------------ *)
(* Whoever unites what it knows with the file takes no bar out of it, however short   *)
(* the window is: the cache with the answer of one request or with the frame it       *)
(* loaded before a repair (ohlcv_cache.py:6), the script with --merge; nor does a     *)
(* backfill with the rows it read before, if no row was taken out of the file         *)
(* meanwhile (download_history.py:563).                                               *)
TakesNone == Bars(disk) \subseteq Bars(disk')
HistoryIsNeverTruncated ==
  writer' \in {"cache", "merge"} \/ (writer' = "backfill" /\ ~shrunk) => TakesNone

(* The same without those conditions.  Of the cache: every write is the union of the   *)
(* file and the frame, "so a writer that only knows a shorter window can never         *)
(* truncate a longer history" (ohlcv_cache.py:6).  Of a backfill: it "never truncates" *)
(* and "refuses a moved file" (download_history.py:563), here one that ends after a    *)
(* download has merged what it found missing.                                          *)
CacheNeverTruncates == [][writer' \in {"cache", "alone"} => TakesNone]_candleVars
BackfillNeverTruncates ==
  [][writer = "merge" /\ writer' = "backfill" => TakesNone]_candleVars

(* After a save or a flush that has read it the file has one row for each bar,         *)
(* whatever mixture of conventions it was found with.                                  *)
OneRowPerBar == writer = "cache" => OneRowEach(disk)

(* The values of a bar that has closed are never replaced by those of the bar while    *)
(* it was forming (ohlcv_cache.py:397, "the fresher row wins").                        *)
FinalIn(rows, bar) == \E r \in rows : r.bar = bar /\ r.final
FresherRowWins ==
  [][\A bar \in Bars(mem) : FinalIn(mem, bar) /\ bar \in Bars(mem') => FinalIn(mem', bar)]_mem
=============================================================================
