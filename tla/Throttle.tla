------------------------------- MODULE Throttle -------------------------------
(*************************************************************************)
(* The request budgets of the routes that fan out to the exchange        *)
(* (web/routes/audit.py): each request charges the budget of its family  *)
(* and then the aggregate of that family.  A bucket keeps the times of   *)
(* the last window; here it keeps the charges themselves, told apart by  *)
(* a number where several fall on one moment.                            *)
(*************************************************************************)
EXTENDS Integers, FiniteSets

CONSTANTS Users,       \* sessions, or addresses without one
          Families, Aggregate,     \* families of endpoints and the bucket they share
          Limits,      \* per bucket
          Window,
          MaxUsers,    \* buckets kept before stale ones are pruned
          LastTime     \* bound: the clock

VARIABLES hits,        \* per bucket and user, the charges kept
          clock,
          charged,     \* history: every charge of a family
          served       \* history: those whose request was served

thrVars == <<hits, clock, charged, served>>

Buckets == Families \cup {Aggregate}
NoHits == [b \in {} |-> {}]

ThrottleAssumption == Window \in Nat \ {0} /\ Limits \in [Buckets -> Nat]

ThrInit == hits = NoHits /\ clock = 1 /\ charged = {} /\ served = {}

Recent(h, key) == IF key \in DOMAIN h THEN { c \in h[key] : clock - c.at < Window } ELSE {}
With(h, key, kept) == [k \in DOMAIN h \cup {key} |-> IF k = key THEN kept ELSE h[k]]

(* One bucket is charged: whether it is over its limit, and what is kept. *)
Over(h, key) == Cardinality(Recent(h, key)) >= Limits[key[1]]
Spent(h, key, c) == With(h, key, Recent(h, key) \cup IF Over(h, key) THEN {} ELSE {c})

(* Too many buckets: those without a request in the window go, when a request is admitted. *)
IsStale(h, key) == \A c \in h[key] : clock - c.at >= Window
StaleSince(h, key) == h[key] = {} \/ \E c \in h[key] : clock - c.at >= Window - 1
Stale(h, key) == IsStale(h, key)
Pruned(h) ==
  IF Cardinality(DOMAIN h) <= MaxUsers THEN h
  ELSE [k \in { j \in DOMAIN h : ~Stale(h, j) } |-> h[k]]

NewCharge(u, f) ==
  [user |-> u, family |-> f, at |-> clock,
   nth |-> 1 + Cardinality({ c \in charged : c.user = u /\ c.family = f /\ c.at = clock })]

(* A request refused by the aggregate has been charged to its family all the same. *)
Request(u, f) ==
  LET family == <<f, u>> shared == <<Aggregate, u>> c == NewCharge(u, f)
      once == Spent(hits, family, c) twice == Spent(once, shared, c)
  IN /\ IF Over(hits, family) THEN hits' = once /\ UNCHANGED <<charged, served>>
        ELSE /\ charged' = charged \cup {c}
             /\ IF f # Aggregate /\ Over(once, shared) THEN hits' = twice /\ UNCHANGED served
                ELSE /\ hits' = Pruned(IF f = Aggregate THEN once ELSE twice)
                     /\ served' = served \cup {c}
     /\ UNCHANGED clock

Pass == clock < LastTime /\ clock' = clock + 1 /\ UNCHANGED <<hits, charged, served>>

ThrNext == Pass \/ \E u \in Users, f \in Buckets : Request(u, f)

(* --- properties ---------------------------------------------------------------- *)
(* In no stretch of a window's length is a user served more than a family's budget, nor     *)
(* more than the aggregate over all of its families, whatever is pruned for other users      *)
(* in between (audit.py:52).                                                           *)
Counted(u, b, t) ==
  { c \in served : c.user = u /\ b \in {Aggregate, c.family} /\ t <= c.at /\ c.at < t + Window }
BudgetsHold ==
  \A u \in Users, b \in Buckets, t \in 1..LastTime : Cardinality(Counted(u, b, t)) <= Limits[b]

(* --- the inductive invariant ------------------------------------------------------ *)
(* A request served in the last window is still charged to both of its buckets.             *)
Charges(key) == IF key \in DOMAIN hits THEN hits[key] ELSE {}
StillCharged ==
  \A c \in served : clock - c.at < Window =>
    c \in Charges(<<c.family, c.user>>) /\ c \in Charges(<<Aggregate, c.user>>)
(* Charges are of the past, and only what was charged is kept or served. *)
ThrTypeOK ==
  /\ clock \in Nat /\ IsFiniteSet(charged) /\ served \subseteq charged
  /\ \A c \in charged : c.at \in Nat /\ c.at <= clock
  /\ \A key \in DOMAIN hits : hits[key] \subseteq charged
ThrInv == ThrTypeOK /\ StillCharged /\ BudgetsHold
=============================================================================
