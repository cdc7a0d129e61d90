------------------------------ MODULE TradePage ------------------------------
(*************************************************************************)
(* The browser side of the trade page (web/templates/trade.html): one    *)
(* thread of handlers that send requests and render the answers.         *)
(* Answers come in any order, fail or time out; the user switches the    *)
(* symbol and the interval, edits the order form and types in the symbol *)
(* search meanwhile.                                                     *)
(*************************************************************************)
EXTENDS Integers, FiniteSets

CONSTANTS Symbols, First,      \* the symbol the page opens with
          Intervals, Initial, Queries,
          MaxFlights,          \* bound: requests under way
          MaxSent,             \* bound: numbered requests of a tag
          MaxActs              \* bound: what the user does

VARIABLES symbol, interval,
          shown,               \* panel -> what its content was fetched for, Blank
          form,                \* side, and whether the amount is valid
          estimate,            \* timer armed, lastKey, content of the cost panel
          search,              \* query on screen, symSeq, symLoading, query of the list
          sequence,            \* apiSeq: tag -> number of the last request
          flights,             \* requests under way
          posting,             \* orders under way
          hidden, acts

pageVars == <<symbol, interval, shown, form, estimate, search, sequence, flights, posting,
              hidden, acts>>

Blank == <<>>
Tags == {"kline", "feeEst"}
Panels == {"ticker", "kline"}     \* the ticker stands for the book and the trades too

PageInit ==
  /\ symbol = First /\ interval = Initial /\ shown = [p \in Panels |-> Blank]
  /\ form = [side |-> "long", valid |-> FALSE]
  /\ estimate = [armed |-> FALSE, key |-> Blank, content |-> Blank]
  /\ search = [typed |-> "", due |-> FALSE, number |-> 0, loading |-> FALSE, found |-> Blank]
  /\ sequence = [t \in Tags |-> 0] /\ flights = {} /\ posting = 0 /\ hidden = FALSE /\ acts = 0

(* --- apiGet ------------------------------------------------------------------------- *)
(* A tagged request has a key of its own; one without a tag is known by its address.       *)
Numbered(kind) == sequence[kind] + 1
NotNumbered(kind) == 0
Number(kind) == IF kind \in Tags THEN Numbered(kind) ELSE NotNumbered(kind)
Request(kind, what) == [kind |-> kind, what |-> what, number |-> Number(kind)]
Busy(r) == \E q \in flights : q.kind = r.kind /\ q.what = r.what /\ q.number = r.number
Sent(r) == IF Busy(r) THEN flights ELSE flights \cup {r}
Counted(kind) == [sequence EXCEPT ![kind] = @ + 1]
Superseded(r) == r.kind \in Tags /\ sequence[r.kind] # r.number
Accepted(r) == FALSE
Late(r) == Superseded(r)

User == acts < MaxActs /\ acts' = acts + 1
Room == Cardinality(flights) < MaxFlights

(* --- market panels ------------------------------------------------------------------ *)
Ticker == Request("ticker", <<symbol>>)
Chart(s, i) == Request("kline", <<s, i>>)

(* Every panel is polled while the page is visible. *)
Poll(kind) ==
  /\ ~hidden /\ Room
  /\ IF kind = "ticker" THEN flights' = Sent(Ticker) /\ UNCHANGED sequence
     ELSE /\ flights' = Sent(Chart(symbol, interval)) /\ sequence' = Counted("kline")
          /\ sequence["kline"] < MaxSent
  /\ UNCHANGED <<symbol, interval, shown, form, estimate, search, posting, hidden, acts>>

(* pickSymbol: the chart and the price are blanked and everything is asked for anew. *)
Pick(s) ==
  /\ User /\ s # symbol /\ symbol' = s
  /\ shown' = [shown EXCEPT !["kline"] = Blank, !["ticker"] = Blank]
  /\ flights' = flights \cup {Request("ticker", <<s>>), Chart(s, interval)}
  /\ sequence' = Counted("kline")
  /\ estimate' = [estimate EXCEPT !.armed = TRUE]
  /\ UNCHANGED <<interval, form, search, posting, hidden>>

Switch(i) ==
  /\ User /\ i # interval /\ interval' = i
  /\ shown' = [shown EXCEPT !["kline"] = Blank]
  /\ flights' = flights \cup {Chart(symbol, i)} /\ sequence' = Counted("kline")
  /\ UNCHANGED <<symbol, form, estimate, search, posting, hidden>>

(* The chart is emptied by a failure; the strip keeps the last price and says why. *)
Drawn(r) ==
  /\ r.kind \in Panels
  /\ IF Late(r) THEN UNCHANGED <<shown, estimate>>
     ELSE \/ /\ shown' = [shown EXCEPT ![r.kind] = r.what]
             /\ estimate' = [estimate EXCEPT !.armed = @ \/ r.kind = "ticker"]
          \/ /\ shown' = [shown EXCEPT ![r.kind] = IF r.kind = "kline" THEN Blank ELSE @]
             /\ UNCHANGED estimate
  /\ UNCHANGED <<search, posting>>

(* --- order form --------------------------------------------------------------------- *)
Edit ==
  /\ User /\ \E side \in {"long", "short"}, valid \in BOOLEAN :
                form' = [side |-> side, valid |-> valid]
  /\ form' # form /\ estimate' = [estimate EXCEPT !.armed = TRUE]
  /\ UNCHANGED <<symbol, interval, shown, search, sequence, flights, posting, hidden>>

(* loadEstimate, when the timer has run out: the price is the one in the strip. *)
FormKey == <<symbol, form.side, form.valid, shown["ticker"]>>
Estimable == form.valid /\ shown["ticker"] # Blank
Estimate ==
  /\ estimate.armed /\ Room
  /\ IF FormKey = estimate.key
     THEN estimate' = [estimate EXCEPT !.armed = FALSE] /\ UNCHANGED <<sequence, flights>>
     ELSE IF ~Estimable
     THEN /\ estimate' = [armed |-> FALSE, key |-> FormKey, content |-> Blank]
          /\ UNCHANGED <<sequence, flights>>
     ELSE /\ estimate' = [estimate EXCEPT !.armed = FALSE, !.key = FormKey]
          /\ flights' = Sent(Request("feeEst", FormKey)) /\ sequence' = Counted("feeEst")
  /\ UNCHANGED <<symbol, interval, shown, form, search, posting, hidden, acts>>

(* Without an answer the page makes an estimate of its own, of the same inputs. *)
Estimated(r) ==
  /\ r.kind = "feeEst"
  /\ estimate' = IF Late(r) THEN estimate ELSE [estimate EXCEPT !.content = r.what]
  /\ UNCHANGED <<shown, search, posting>>

(* submitOrder: the button is dead until the answer. *)
Submit ==
  /\ User /\ form.valid /\ posting = 0 /\ posting' = posting + 1
  /\ flights' = flights \cup {[kind |-> "order", what |-> <<symbol, form.side>>, number |-> 0]}
  /\ UNCHANGED <<symbol, interval, shown, form, estimate, search, sequence, hidden>>
Ordered(r) ==
  /\ r.kind = "order" /\ posting' = posting - 1
  /\ UNCHANGED <<shown, estimate, search>>

(* --- symbol search ------------------------------------------------------------------- *)
Type(q) ==
  /\ User /\ q # search.typed /\ search' = [search EXCEPT !.typed = q, !.due = TRUE]
  /\ UNCHANGED <<symbol, interval, shown, form, estimate, sequence, flights, posting, hidden>>
(* The debounced search: no tag, so the same query under way swallows it. *)
Search ==
  /\ search.due /\ Room
  /\ search' = [search EXCEPT !.due = FALSE, !.number = @ + 1, !.loading = TRUE]
  /\ flights' =
       IF \E r \in flights : r.kind = "symbols" /\ r.what = <<search.typed>> THEN flights
       ELSE flights \cup {[kind |-> "symbols", what |-> <<search.typed>>,
                           number |-> search.number + 1]}
  /\ UNCHANGED <<symbol, interval, shown, form, estimate, sequence, posting, hidden, acts>>
Found(r) ==
  /\ r.kind = "symbols"
  /\ search' = IF r.number # search.number THEN search
               ELSE [search EXCEPT !.loading = FALSE, !.found = r.what]
  /\ UNCHANGED <<shown, estimate, posting>>

(* An answer, an error, or the time limit of a request. *)
Answer(r) ==
  /\ r \in flights /\ flights' = flights \ {r}
  /\ Drawn(r) \/ Estimated(r) \/ Ordered(r) \/ Found(r)
  /\ UNCHANGED <<symbol, interval, form, sequence, hidden, acts>>

(* A hidden page stops its timers, and asks for everything when it is shown again. *)
Visibility ==
  /\ User /\ hidden' = ~hidden
  /\ IF hidden
     THEN /\ flights' = Sent(Ticker) \cup Sent(Chart(symbol, interval))
          /\ sequence' = Counted("kline")
     ELSE UNCHANGED <<flights, sequence>>
  /\ UNCHANGED <<symbol, interval, shown, form, estimate, search, posting>>

PageNext ==
  \/ \E kind \in Panels : Poll(kind)
  \/ \E s \in Symbols : Pick(s)
  \/ \E i \in Intervals : Switch(i)
  \/ \E q \in Queries : Type(q)
  \/ \E r \in flights : Answer(r)
  \/ Edit \/ Estimate \/ Submit \/ Search \/ Visibility

(* --- what the theorems rest on ------------------------------------------------------------ *)
(* A chart under way is of what is chosen, unless a later one was asked for.                 *)
PageInv ==
  /\ DOMAIN sequence = Tags /\ sequence["kline"] \in Nat /\ DOMAIN shown = Panels
  /\ shown["kline"] \in {Blank, <<symbol, interval>>}
  /\ \A r \in flights : r.kind = "kline" =>
       /\ r.number \in Nat /\ r.number <= sequence["kline"]
       /\ r.number = sequence["kline"] => r.what = <<symbol, interval>>

(* --- properties ------------------------------------------------------------------------ *)
(* The chart shows candles of the symbol and the interval that are chosen, or none: an      *)
(* answer that was overtaken by a switch is dropped (trade.html:496, 1029).                *)
ChartIsOfTheSymbol == shown["kline"] \in {Blank, <<symbol, interval>>}

(* The cost panel is blank or shows the cost of the order in the form, once the timer has    *)
(* run and its answer is in (trade.html:1455: never a blank or stale panel).               *)
EstimateIsOfTheForm ==
  ~estimate.armed /\ (\A r \in flights : r.kind # "feeEst")
    => estimate.content \in {Blank, estimate.key}

(* The search says that it is loading only while a request can still end it                 *)
(* (trade.html:500: no request can hang the page for ever).                                *)
LoadingEnds ==
  search.loading => search.due \/ \E r \in flights : r.kind = "symbols" /\ r.number = search.number

(* A tick is skipped while the request of the one before is running (trade.html:379). *)
TickIsSkipped ==
  \A r, q \in flights : r.kind = q.kind /\ r.what = q.what => r = q

(* The ticker strip, the reference price of a market order, is of the chosen symbol. *)
PriceIsOfTheSymbol == shown["ticker"] \in {Blank, <<symbol>>}
=============================================================================
