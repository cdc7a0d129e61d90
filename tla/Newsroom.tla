------------------------------- MODULE Newsroom -------------------------------
(*************************************************************************)
(* News and alerts (core/news, alerts): two tasks of the analyzer fetch  *)
(* articles, have them judged and average the judgements per coin; what  *)
(* they publish reaches the strategy engine and the alert rules through  *)
(* the bus, one event at a time. An average is the sequence of the       *)
(* judgements in it; rules are told apart by id, and the list is walked  *)
(* by position, as Python walks it, while routes change it.              *)
(*************************************************************************)
EXTENDS Integers, Sequences, FiniteSets, FiniteSetsExt, SequencesExt

CONSTANTS Symbols,      \* a sequence: the watched coins, in order
          Votes,        \* what the model answers for an article
          Rules,        \* a sequence of alert rules
          NewRule,      \* the rule an operator adds
          Cooldown,     \* of an emergency fetch
          MaxBatch, MaxArticles, MaxEdits, LastTime    \* bounds

RuleIds == { Rules[i].id : i \in DOMAIN Rules } \cup {NewRule.id}
Rule == [id : RuleIds, kind : {"any", "update", "alert"}, cooldown : Nat, enabled : BOOLEAN,
         broken : BOOLEAN, fired : Int]

NewsroomAssumption ==
  /\ {MaxBatch, MaxArticles, MaxEdits, LastTime, Cooldown} \subseteq Nat
  /\ Symbols \in Seq(ToSet(Symbols))
  /\ Rules \in Seq(Rule) /\ NewRule \in Rule

VARIABLES tasks,        \* tasks[t]: what the task t awaits
          fetchedAt,    \* _last_fetch_time
          ema,          \* _sentiment_ema
          judged,       \* history: judgements of a coin in the order they came
          unsaid,       \* history: coins whose last judgement was not published
          queue,        \* the bus
          seen,         \* the engine's _news_sentiment
          rules, file,  \* the alert rules, and their file ("none": never saved)
          walk,         \* the event whose rules are being walked
          now, articles, edits

newsVars == <<tasks, fetchedAt, ema, judged, unsaid, queue, seen, rules, file, walk, now,
              articles, edits>>
newsOnly == <<tasks, fetchedAt, ema, judged, unsaid, articles>>
alertOnly == <<seen, rules, file, walk, edits>>

Coins == ToSet(Symbols)
Tasks == {"periodic", "monitor"}
Idle == [at |-> "idle", coins |-> <<>>, left |-> 0, old |-> <<>>]
NoWalk == [on |-> FALSE, event |-> <<>>, next |-> 0, present |-> {}, asked |-> {}, cut |-> FALSE,
           missed |-> {}]
Never == -LastTime - 100

Loaded(saved) == [i \in DOMAIN saved |-> [saved[i] EXCEPT !.fired = Never]]

NewsInit ==
  /\ tasks = [t \in Tasks |-> Idle]
  /\ fetchedAt = [s \in Coins |-> Never]
  /\ ema = [s \in Coins |-> <<>>] /\ judged = ema /\ seen = ema /\ unsaid = {}
  /\ queue = <<>>
  /\ rules = Loaded(Rules) /\ file = <<>> /\ walk = NoWalk
  /\ now = 0 /\ articles = 0 /\ edits = 0

Update(s, value) == [kind |-> "update", symbol |-> s, value |-> value]
Alert(s) == [kind |-> "alert", symbol |-> s, value |-> <<>>]

(* --- the two tasks of the analyzer ---------------------------------------------------- *)
At(t, where) == tasks[t].at = where
Goes(t, task) == tasks' = [tasks EXCEPT ![t] = task]
Onward(task) ==
  IF Len(task.coins) = 1 THEN Idle
  ELSE [task EXCEPT !.coins = Tail(@), !.left = 0]

(* The sources are read: an error ends the round, and none of them means momentum. *)
PeriodicRound ==
  /\ At("periodic", "idle") /\ Symbols # <<>>
  /\ \E where \in {"fetch", "momentum"} :
       Goes("periodic", [at |-> where, coins |-> Symbols, left |-> 0, old |-> <<>>])
  /\ UNCHANGED <<fetchedAt, ema, judged, unsaid, queue, now, articles>> /\ UNCHANGED alertOnly

(* A coin that moved is fetched unless it was within the cooldown. *)
Anomaly ==
  /\ At("monitor", "idle")
  /\ \E s \in Coins :
       /\ now - fetchedAt[s] >= Cooldown
       /\ fetchedAt' = [fetchedAt EXCEPT ![s] = now]
       /\ Goes("monitor", [at |-> "fetch", coins |-> <<s>>, left |-> 0, old |-> <<>>])
  /\ UNCHANGED <<ema, judged, unsaid, queue, now, articles>> /\ UNCHANGED alertOnly

(* What a task does once the last article of a coin is saved. *)
Finish(t, task, events) ==
  /\ Goes(t, Onward(task))
  /\ queue' = queue \o events \o IF t = "monitor" THEN <<Alert(Head(task.coins))>> ELSE <<>>

Fetch(t) ==
  /\ At(t, "fetch")
  /\ \E n \in 0..Min({MaxBatch, MaxArticles - articles}) :
       /\ articles' = articles + n
       /\ IF n = 0 THEN Finish(t, tasks[t], <<>>)
          ELSE /\ Goes(t, [tasks[t] EXCEPT !.at = "judge", !.left = n,
                                           !.old = ema[Head(tasks[t].coins)]])
               /\ UNCHANGED queue
  /\ UNCHANGED <<fetchedAt, ema, judged, unsaid, now>> /\ UNCHANGED alertOnly

(* The average a judgement is added to: the one of the moment it arrives. *)
Current(t, s) == ema[s]
AsAsked(t, s) == tasks[t].old
Averaged(t, s) == Current(t, s)

(* The answer arrives (no client, an error or no number: zero); the average and its event. *)
Judged(t) ==
  /\ At(t, "judge")
  /\ \E v \in Votes \cup {0} :
       LET s == Head(tasks[t].coins)
           value == Append(Averaged(t, s), v)
       IN /\ ema' = [ema EXCEPT ![s] = value]
          /\ judged' = [judged EXCEPT ![s] = Append(@, v)]
          /\ unsaid' = unsaid \ {s}
          /\ IF tasks[t].left = 1
             THEN Finish(t, [tasks[t] EXCEPT !.at = "fetch"], <<Update(s, value)>>)
             ELSE /\ Goes(t, [tasks[t] EXCEPT !.left = @ - 1, !.old = value])
                  /\ queue' = Append(queue, Update(s, value))
  /\ UNCHANGED <<fetchedAt, now, articles>> /\ UNCHANGED alertOnly

(* Momentum of a coin: with under 3 candles nothing; with under 13 and a change the title   *)
(* cannot be written, after the average has moved and before its event.                     *)
Momentum ==
  /\ At("periodic", "momentum") /\ articles < MaxArticles
  /\ Goes("periodic", Onward(tasks["periodic"]))
  /\ LET s == Head(tasks["periodic"].coins)
     IN \/ UNCHANGED <<ema, judged, unsaid, queue, articles>>
        \/ \E v \in Votes, titled \in BOOLEAN :
             /\ articles' = articles + 1
             /\ ema' = [ema EXCEPT ![s] = Append(@, v)]
             /\ judged' = [judged EXCEPT ![s] = Append(@, v)]
             /\ IF titled THEN queue' = Append(queue, Update(s, ema'[s])) /\ unsaid' = unsaid \ {s}
                ELSE UNCHANGED queue /\ unsaid' = unsaid \cup {s}
  /\ UNCHANGED <<fetchedAt, now>> /\ UNCHANGED alertOnly

(* --- the alert rules -------------------------------------------------------------------- *)
Concerns(r, e) == r.enabled /\ r.kind \in {"any", e.kind}
(* A condition that cannot be evaluated raises, if the rule gets so far. *)
Raises(r, e) == Concerns(r, e) /\ r.broken
Fires(r, e) == Concerns(r, e) /\ ~r.broken /\ now - r.fired >= r.cooldown

(* The walk goes on past a rule that raises. *)
Caught(r, e) == TRUE
Uncaught(r, e) == ~Raises(r, e)
GoesOn(r, e) == Caught(r, e)

(* From position i: to the first rule that fires, and waits for its row, or to the end. *)
Walked(w, i) ==
  LET stop == { j \in i..Len(rules) : Fires(rules[j], w.event) \/ ~GoesOn(rules[j], w.event) }
      last == IF stop = {} THEN Len(rules) ELSE Min(stop)
      passed == { rules[j].id : j \in i..last }
  IN IF stop = {} \/ ~Fires(rules[last], w.event)
     THEN [NoWalk EXCEPT !.missed = IF w.cut THEN {} ELSE
             (w.present \cap { rules[j].id : j \in DOMAIN rules }) \ (w.asked \cup passed)]
     ELSE [w EXCEPT !.on = TRUE, !.asked = @ \cup passed, !.next = last]
Stamped(w) == IF w.on THEN [rules EXCEPT ![w.next].fired = now] ELSE rules

(* The bus hands an event to the engine and to the rules, and waits for both. *)
Deliver ==
  /\ ~walk.on /\ queue # <<>>
  /\ LET e == Head(queue)
         w == Walked([NoWalk EXCEPT !.event = e, !.present = { rules[j].id : j \in DOMAIN rules }], 1)
     IN /\ queue' = Tail(queue) /\ walk' = w /\ rules' = Stamped(w)
        /\ seen' = IF e.kind = "update" THEN [seen EXCEPT ![e.symbol] = e.value] ELSE seen
  /\ UNCHANGED newsOnly /\ UNCHANGED <<file, now, edits>>

(* The row is written, or is not, and the clients told; then the rules after this position. *)
Fired ==
  /\ walk.on
  /\ LET w == Walked(walk, walk.next + 1) IN walk' = w /\ rules' = Stamped(w)
  /\ UNCHANGED newsOnly /\ UNCHANGED <<queue, seen, file, now, edits>>

(* The routes change the list by position and save it at once. *)
Saved(list) ==
  /\ edits < MaxEdits /\ edits' = edits + 1
  /\ rules' = list /\ file' = list
  /\ UNCHANGED newsOnly /\ UNCHANGED <<queue, seen, now>>
ToggleRule == UNCHANGED walk /\ \E i \in DOMAIN rules : Saved([rules EXCEPT ![i].enabled = ~@])
RemoveRule == walk' = [walk EXCEPT !.cut = @ \/ walk.on] /\ \E i \in DOMAIN rules : Saved(RemoveAt(rules, i))
AddRule == UNCHANGED walk /\ Saved(Append(rules, [NewRule EXCEPT !.fired = Never]))

Tick ==
  /\ now < LastTime /\ now' = now + 1
  /\ UNCHANGED newsOnly /\ UNCHANGED alertOnly /\ UNCHANGED queue

(* A restart: averages, cooldowns and what was queued are gone; the file is read, if there. *)
Restart ==
  /\ edits < MaxEdits /\ edits' = edits + 1
  /\ tasks' = [t \in Tasks |-> Idle] /\ fetchedAt' = [s \in Coins |-> Never]
  /\ ema' = [s \in Coins |-> <<>>] /\ judged' = ema' /\ seen' = ema' /\ unsaid' = {}
  /\ queue' = <<>> /\ walk' = NoWalk
  /\ rules' = Loaded(IF file = <<>> THEN Rules ELSE file)
  /\ UNCHANGED <<file, now, articles>>

NewsNext ==
  \/ PeriodicRound \/ Anomaly \/ Momentum \/ Deliver \/ Fired \/ ToggleRule \/ RemoveRule \/ AddRule \/ Tick \/ Restart
  \/ \E t \in Tasks : Fetch(t) \/ Judged(t)

(* --- what the theorems rest on ---------------------------------------------------------------- *)
Averages == Seq(Votes \cup {0})
Event == [kind : {"update", "alert"}, symbol : Coins, value : Averages]
NewsTypeOK ==
  /\ tasks \in [Tasks -> [at : {"idle", "fetch", "judge", "momentum"}, coins : Seq(Coins), left : Int,
                          old : Averages]]
  /\ \A t \in Tasks : At(t, "idle") \/ tasks[t].coins # <<>>
  /\ {ema, judged, seen} \subseteq [Coins -> Averages]
  /\ queue \in Seq(Event) /\ rules \in Seq(Rule) /\ file \in Seq(Rule) /\ {now, articles} \subseteq Nat
  /\ walk \in [on : BOOLEAN, event : Event \cup {<<>>}, next : Nat, present : SUBSET RuleIds,
               asked : SUBSET RuleIds, cut : BOOLEAN, missed : SUBSET RuleIds]

Begins(a, b) == Len(a) <= Len(b) /\ \A i \in 1..Len(a) : a[i] = b[i]

(* What was published of a coin are beginnings of its judgements, each longer than the one     *)
(* before, and the last is all of them, unless a round without a title was.                   *)
PublishedInOrder ==
  /\ \A s \in Coins : Begins(seen[s], judged[s])
  /\ \A i \in DOMAIN queue : LET e == queue[i] IN e.kind = "update" =>
       /\ Begins(e.value, judged[e.symbol]) /\ Len(seen[e.symbol]) < Len(e.value)
       /\ \A j \in DOMAIN queue : i < j /\ queue[j].kind = "update" /\ queue[j].symbol = e.symbol =>
            Len(e.value) < Len(queue[j].value)
  /\ \A s \in Coins \ unsaid :
       seen[s] = judged[s] \/ \E i \in DOMAIN queue : queue[i] = Update(s, judged[s])

(* Of the rules an event met, those not asked yet are further down the list. *)
RestIsAhead ==
  walk.on /\ ~walk.cut =>
    /\ walk.next \in DOMAIN rules
    /\ \A i \in DOMAIN rules : rules[i].id \in walk.present =>
         rules[i].id \in walk.asked \/ \E j \in DOMAIN rules : j > walk.next /\ rules[j].id = rules[i].id

NewsInv ==
  /\ NewsTypeOK /\ PublishedInOrder /\ RestIsAhead
  /\ ema = judged /\ walk.missed = {}

(* --- properties ---------------------------------------------------------------------------- *)
(* Every judgement of a coin is in its average, in the order they came, whichever task had     *)
(* asked for it and however long the model took (analyzer.py:201).                           *)
EveryJudgementCounts == \A s \in Coins : ema[s] = judged[s]

(* What the engine trades on is an average the analyzer has had, never an older one than       *)
(* before, and once the bus is empty the present one, but for a round without a title          *)
(* (analyzer.py:113, event_bus.py:96).                                                   *)
EngineFollows ==
  /\ \A s \in Coins : IsPrefix(seen[s], judged[s])
  /\ queue = <<>> => \A s \in Coins : seen[s] = ema[s] \/ s \in unsaid
  /\ \A i, j \in DOMAIN queue :
       i < j /\ queue[i].symbol = queue[j].symbol /\ queue[i].kind = "update" /\ queue[j].kind = "update"
         => Len(seen[queue[i].symbol]) < Len(queue[i].value) /\ Len(queue[i].value) < Len(queue[j].value)

(* Every rule that was there when an event came and still is at the end has been asked about    *)
(* it, unless one was removed on the way: "a broken rule must not silently disable alerting"  *)
(* (alerts/manager.py:39).                                                                *)
BrokenRuleSilencesNobody == walk.missed = {}
=============================================================================
