-------------------------------- MODULE Memo --------------------------------
(*************************************************************************)
(* The cache in front of the market data host                            *)
(* (core/market_data/ttl_cache.py): one value with an age, and a lock    *)
(* for the fetch in flight, which the map forgets as soon as any caller  *)
(* is through.  Bounds of the two maps, and keys other than one, are     *)
(* left out.                                                             *)
(*************************************************************************)
EXTENDS Naturals, Sequences, FiniteSets

CONSTANTS Callers,    \* requests in flight
          Ttl,        \* age at which a value is no longer served
          NoLock

VARIABLES age,        \* the age of the cached value, Ttl when there is none
          lockOf,     \* the lock the map holds, named by the caller who made it
          holder,     \* per lock: who holds it
          queue,      \* per lock: who waits for it, in the order of arrival
          asks        \* per caller: where it is, the lock it uses

memoVars == <<age, lockOf, holder, queue, asks>>

Idle == [pc |-> "idle", lock |-> NoLock]

MemoInit ==
  /\ age = Ttl /\ lockOf = NoLock
  /\ holder = [c \in Callers |-> NoLock] /\ queue = [c \in Callers |-> <<>>]
  /\ asks = [c \in Callers |-> Idle]

Fresh == age < Ttl

(* A lock object nobody uses any more may be made again under the same name. *)
Free(l) == holder[l] = NoLock /\ queue[l] = <<>>

(* get: a hit needs no lock; otherwise the lock of the map, or a new one. *)
Ask(c) ==
  /\ asks[c].pc = "idle" /\ ~Fresh
  /\ \/ lockOf # NoLock /\ UNCHANGED lockOf
     \/ lockOf = NoLock /\ \E l \in Callers : Free(l) /\ (\A d \in Callers : asks[d].lock # l) /\ lockOf' = l
  /\ asks' = [asks EXCEPT ![c] = [pc |-> "waiting", lock |-> lockOf']]
  /\ queue' = [queue EXCEPT ![lockOf'] = Append(@, c)]
  /\ UNCHANGED <<age, holder>>

(* Leaving, on whatever path: the lock is released and the map forgets the key. *)
Leave(c) ==
  /\ holder' = [holder EXCEPT ![asks[c].lock] = NoLock]
  /\ lockOf' = NoLock
  /\ asks' = [asks EXCEPT ![c] = Idle]
LeaveOnSuccess(c, ok) ==
  /\ holder' = [holder EXCEPT ![asks[c].lock] = IF ok THEN NoLock ELSE @]
  /\ lockOf' = NoLock
  /\ asks' = [asks EXCEPT ![c] = Idle]
Left(c, ok) == Leave(c)

(* The first in the queue gets a free lock. *)
Enter(c) ==
  LET l == asks[c].lock
  IN /\ asks[c].pc = "waiting" /\ holder[l] = NoLock /\ Head(queue[l]) = c
     /\ queue' = [queue EXCEPT ![l] = Tail(@)]
     /\ holder' = [holder EXCEPT ![l] = c]
     /\ asks' = [asks EXCEPT ![c].pc = IF Fresh THEN "hit" ELSE "fetching"]
     /\ UNCHANGED <<age, lockOf>>

(* Another request may have refreshed while this one waited. *)
Hit(c) == asks[c].pc = "hit" /\ Left(c, TRUE) /\ UNCHANGED <<age, queue>>

(* The host answers, or the request times out: an error is not remembered. *)
Fetched(c) ==
  /\ asks[c].pc = "fetching"
  /\ \E ok \in BOOLEAN :
       /\ age' = IF ok THEN 0 ELSE age
       /\ Left(c, ok)
  /\ UNCHANGED queue

(* The caller is cancelled: its client has gone. *)
Cancel(c) ==
  /\ asks[c].pc \in {"waiting", "fetching"}
  /\ queue' = [queue EXCEPT ![asks[c].lock] = SelectSeq(@, LAMBDA d : d # c)]
  /\ holder' = [holder EXCEPT ![asks[c].lock] = IF @ = c THEN NoLock ELSE @]
  /\ lockOf' = NoLock
  /\ asks' = [asks EXCEPT ![c] = Idle]
  /\ UNCHANGED age

Age == Fresh /\ age' = age + 1 /\ UNCHANGED <<lockOf, holder, queue, asks>>

MemoNext == Age \/ \E c \in Callers : Ask(c) \/ Enter(c) \/ Hit(c) \/ Fetched(c) \/ Cancel(c)

(* asyncio runs what is ready, and a request of the host ends by its timeout. *)
MemoFairness == \A c \in Callers : WF_memoVars(Enter(c)) /\ WF_memoVars(Hit(c)) /\ WF_memoVars(Fetched(c))

(* --- properties ------------------------------------------------------------------ *)
(* Every request is answered or given up: a caller that fails, is cancelled or takes  *)
(* the lock out of the map never leaves another waiting on it for ever                *)
(* (ttl_cache.py:126, "Dropping it is safe").                                        *)
CallersAnswered == \A c \in Callers : asks[c].pc = "waiting" ~> asks[c].pc # "waiting"
=============================================================================
