------------------------------- MODULE Screener -------------------------------
(*************************************************************************)
(* The token screen (core/market_data/screener.py): a cache and the      *)
(* locks that keep one crawl per key in flight, and what a crawl makes   *)
(* of a symbol: five sources of metrics, each of which may fail, a       *)
(* budget of time, a score and flags.  One symbol stands for the sample; *)
(* how long it waits for the semaphore behind the others is open.        *)
(*************************************************************************)
EXTENDS Integers, Sequences, FiniteSets, SequencesExt, FiniteSetsExt, Functions

CONSTANTS Callers,     \* requests in flight
          Markets,     \* what the sources would say: fine, bad or thin
          Failures,    \* the sets of sources that may fail together
          MaxLocks, MaxEntries,   \* bounds of the two maps
          Ttl,         \* lifetime of a result
          Budget,      \* time a crawl may take to start a request
          LastTime,    \* bound: the clock
          NoLock

Sources == {"ticker", "depth", "hourly", "daily", "listing"}
Keys == {"screen", "detail"}

VARIABLES market,
          cache,       \* least recently used first: <<key, time, what each source said>>
          locks,       \* oldest first: <<key, lock>>; a lock is named by the caller who made it
          holder, queue,   \* per lock
          asks,        \* per caller: where it is, its key, its lock, since when it crawls
          clock,
          doubtful     \* keys whose crawl failed, or that a full map gave up

scrVars == <<market, cache, locks, holder, queue, asks, clock, doubtful>>

Idle == [pc |-> "idle", key |-> "screen", lock |-> NoLock, since |-> 0]

ScrInit ==
  /\ market \in Markets /\ cache = <<>> /\ locks = <<>>
  /\ holder = [c \in Callers |-> NoLock] /\ queue = [c \in Callers |-> <<>>]
  /\ asks = [c \in Callers |-> Idle] /\ clock = 0 /\ doubtful = {}

(* --- the two maps ------------------------------------------------------------- *)
Without(map, key) == SelectSeq(map, LAMBDA e : e[1] # key)
Entry(map, key) == SelectSeq(map, LAMBDA e : e[1] = key)
Fresh(key) == Entry(cache, key) # <<>> /\ clock - Entry(cache, key)[1][2] < Ttl

Written(key, payload) ==
  LET all == Append(Without(cache, key), <<key, clock, payload>>)
  IN IF Len(all) > MaxEntries THEN Tail(all) ELSE all

(* A map over its bound gives up the locks nobody holds, oldest first, the new one          *)
(* among them; then, if it must, one that is held.                                       *)
Pruned(map) ==
  LET over == Len(map) - MaxLocks
      unheld == { i \in DOMAIN map : holder[map[i][2]] = NoLock }
      first == { i \in unheld : Cardinality({ j \in unheld : j < i }) < over }
      kept == SelectSeq([ i \in DOMAIN map |-> <<i, map[i]>> ], LAMBDA e : e[1] \notin first)
  IN IF over <= 0 THEN map
     ELSE SubSeq([ i \in DOMAIN kept |-> kept[i][2] ], Max({1, Len(kept) - MaxLocks + 1}), Len(kept))

(* The map forgets a key when a caller is through with it, unless its lock is held. *)
Unlocked(key, held) == IF \E e \in ToSet(locks) : e[1] = key /\ held[e[2]] = NoLock
                       THEN Without(locks, key) ELSE locks
Forgotten(key, held) == Without(locks, key)
Dropped(key, held) == Unlocked(key, held)

(* --- a caller ------------------------------------------------------------------ *)
Free(l) == holder[l] = NoLock /\ queue[l] = <<>> /\ \A d \in Callers : asks[d].lock # l

Hit(key) == /\ Fresh(key)
            /\ cache' = Append(Without(cache, key), Entry(cache, key)[1])
            /\ UNCHANGED <<market, locks, holder, queue, asks, clock, doubtful>>

(* A free lock is taken at once. *)
Ask(c, key) ==
  /\ asks[c].pc = "idle" /\ ~Fresh(key)
  /\ \E l \in Callers :
       /\ IF Entry(locks, key) # <<>>
          THEN l = Entry(locks, key)[1][2] /\ UNCHANGED <<locks, doubtful>>
          ELSE /\ Free(l) /\ (\A e \in ToSet(locks) : e[2] # l)
               /\ locks' = Pruned(Append(locks, <<key, l>>))
               /\ doubtful' = doubtful \cup { k \in {key} \cup { e[1] : e \in ToSet(locks) } :
                                              \A e \in ToSet(locks') : e[1] # k }
       /\ IF holder[l] = NoLock /\ queue[l] = <<>>
          THEN /\ holder' = [holder EXCEPT ![l] = c] /\ UNCHANGED queue
               /\ asks' = [asks EXCEPT ![c] = [pc |-> "crawl", key |-> key, lock |-> l, since |-> clock]]
          ELSE /\ queue' = [queue EXCEPT ![l] = Append(@, c)] /\ UNCHANGED holder
               /\ asks' = [asks EXCEPT ![c] = [pc |-> "wait", key |-> key, lock |-> l, since |-> 0]]
  /\ UNCHANGED <<market, cache, clock>>

(* Out of the lock: the next in the queue is only woken, so nobody holds it now. *)
Leave(c) ==
  /\ holder' = [holder EXCEPT ![asks[c].lock] = IF @ = c THEN NoLock ELSE @]
  /\ locks' = Dropped(asks[c].key, holder')
  /\ asks' = [asks EXCEPT ![c] = Idle]

(* Another request may have filled the cache during the wait. *)
Enter(c) ==
  LET l == asks[c].lock key == asks[c].key
  IN /\ asks[c].pc = "wait" /\ holder[l] = NoLock /\ Head(queue[l]) = c
     /\ queue' = [queue EXCEPT ![l] = Tail(@)]
     /\ IF Fresh(key)
        THEN /\ cache' = Append(Without(cache, key), Entry(cache, key)[1]) /\ Leave(c)
        ELSE /\ holder' = [holder EXCEPT ![l] = c]
             /\ asks' = [asks EXCEPT ![c].pc = "crawl", ![c].since = clock]
             /\ UNCHANGED <<cache, locks>>
     /\ UNCHANGED <<market, clock, doubtful>>

(* The symbol has its turn and the sources answer or fail; after the budget none of         *)
(* them is asked.  Without the ticker there is no sample, but a detail all the same.        *)
Answer(failed) == [s \in Sources |-> IF s \in failed THEN "failed" ELSE market[s]]
Late(c) == clock - asks[c].since > Budget
Crawled(c) ==
  /\ asks[c].pc = "crawl"
  /\ \E f \in Failures :
       LET failed == f \cup (IF Late(c) THEN Sources \ {"ticker"} ELSE {})
       IN IF asks[c].key = "screen" /\ "ticker" \in failed
          THEN doubtful' = doubtful \cup {asks[c].key} /\ UNCHANGED cache
          ELSE /\ cache' = Written(asks[c].key, Answer(failed))
               /\ doubtful' = doubtful \cup { k \in Keys : Entry(cache, k) # <<>> /\ Entry(cache', k) = <<>> }
  /\ Leave(c)
  /\ UNCHANGED <<market, queue, clock>>

(* The route gives up after its own timeout, or the client has gone. *)
Cancel(c) ==
  /\ asks[c].pc # "idle"
  /\ queue' = [queue EXCEPT ![asks[c].lock] = SelectSeq(@, LAMBDA d : d # c)]
  /\ doubtful' = IF asks[c].pc = "crawl" THEN doubtful \cup {asks[c].key} ELSE doubtful
  /\ Leave(c)
  /\ UNCHANGED <<market, cache, clock>>

(* A waiter that was woken runs before the next tick. *)
Tick ==
  /\ clock < LastTime /\ clock' = clock + 1
  /\ \A c \in Callers : asks[c].pc = "wait" => holder[asks[c].lock] # NoLock
  /\ UNCHANGED <<market, cache, locks, holder, queue, asks, doubtful>>

ScrNext ==
  \/ Tick
  \/ \E key \in Keys : Hit(key)
  \/ \E c \in Callers : Enter(c) \/ Crawled(c) \/ Cancel(c) \/ \E key \in Keys : Ask(c, key)

(* --- score and flags --------------------------------------------------------------- *)
(* The penalties of the dimensions a source feeds, and how many of the eleven it feeds.     *)
Penalty == [ticker |-> 30, depth |-> 25, hourly |-> 40, daily |-> 10, listing |-> 8]
Feeds == [ticker |-> 2, depth |-> 2, hourly |-> 5, daily |-> 1, listing |-> 1]
Bad(said) == { s \in Sources : said[s] = "bad" }
Unknown(said) == { s \in Sources : said[s] \in {"failed", "thin"} }
Weighed(f, ss) == MapThenSumSet(LAMBDA s : f[s], ss)

Score(said) == Max({0, 100 - Weighed(Penalty, Bad(said))})
Rated(said) ==
  IF Score(said) < 35 THEN "high"
  ELSE IF Score(said) < 60 \/ said["listing"] = "bad" THEN "medium" ELSE "low"
Errors(said) == { s \in Sources : said[s] = "failed" }
Unnoted(said) == {}
FetchErrors(said) == Errors(said)
Flags(said) ==
  Bad(said) \cup (IF 5 * Weighed(Feeds, Unknown(said)) > 11 THEN {"insufficient"} ELSE {})
  \cup (IF FetchErrors(said) # {} THEN {"fetch error"} ELSE {})

(* --- properties ------------------------------------------------------------------------ *)
(* One crawl of a key is in flight at most, as long as none of it has failed and the map       *)
(* of locks was large enough, whoever leaves the queue meanwhile (screener.py:732).         *)
OneCrawlPerKey ==
  \A key \in Keys \ doubtful :
    Cardinality({ c \in Callers : asks[c].pc = "crawl" /\ asks[c].key = key }) <= 1

(* A result that is served as low risk without a flag was made from answers of every            *)
(* source, nine of the eleven measured, and no young listing (screener.py:386).              *)
CleanMeansMeasured ==
  \A e \in ToSet(cache) : Rated(e[3]) = "low" /\ Flags(e[3]) = {} =>
    /\ \A s \in Sources : e[3][s] # "failed"
    /\ Weighed(Feeds, Sources \ Unknown(e[3])) >= 9 /\ e[3]["listing"] # "bad"

(* What the code does not keep: a young listing is not rated low (screener.py:389, "a              *)
(* listing younger than AGE_NEW_DAYS is never labelled low"); its date may fail to load.       *)
NewIsNeverLow == \A e \in ToSet(cache) : market["listing"] = "bad" => Rated(e[3]) # "low"
=============================================================================
