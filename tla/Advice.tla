------------------------------- MODULE Advice -------------------------------
(*************************************************************************)
(* What the model advises (core/ai/deepseek_ctl.py) and what becomes of  *)
(* it (web/routes/ai.py): two loops ask for coins and for risk           *)
(* parameters, keep each answer as a row, and in full_auto apply it;     *)
(* otherwise the operator approves or rejects the row.  Every database   *)
(* access is a wait in which the operator may change the mode or the     *)
(* settings.                                                             *)
(*************************************************************************)
EXTENDS FiniteSets, Naturals, Sequences

CONSTANTS Picks,       \* answers of the coin loop: sets of coins
          Params,      \* answers of the risk loop, one of them not numbers
          NoNumbers, Reckless,
          Tradable,    \* what the universe knows as trading
          Default,     \* the watchlist at start
          MaxRows,     \* bound: rows of ai_suggestions
          MaxTouches   \* bound: what the operator does

AdviceAssumption == Default # {}

Loops == {"coin_selection", "risk_adjustment"}
Answers(l) == IF l = "risk_adjustment" THEN Params ELSE Picks

VARIABLES autonomy,    \* config.ai_mode: "suggest" or "full_auto"
          knows,       \* the coin universe is loaded
          params,      \* the soft risk parameters in force
          watch,       \* the persisted watchlist
          rows,        \* ai_suggestions: category, content, status, still in the window
          asking,      \* per loop: where it is
          review,      \* the operator's request on a row
          touches

adviceVars == <<autonomy, knows, params, watch, rows, asking, review, touches>>

Unasked == [pc |-> "idle", content |-> {}, status |-> "none"]
NoReview == [pc |-> "idle", id |-> 0]

AdviceInit ==
  /\ autonomy = "full_auto" /\ knows = FALSE
  /\ params = "operator" /\ watch = Default /\ rows = <<>>
  /\ asking = [l \in Loops |-> Unasked] /\ review = NoReview /\ touches = 0

Step(l, new) == asking' = [asking EXCEPT ![l] = new]
Here(l, pc) == asking[l].pc = pc

(* --- the loops ---------------------------------------------------------------- *)
(* The answer, unless the call failed or it is no JSON; the row's status is what the  *)
(* mode makes it now.                                                              *)
Answer(l) ==
  /\ Here(l, "idle")
  /\ \E a \in Answers(l) :
       Step(l, [pc |-> "saving", content |-> a,
                status |-> IF autonomy = "full_auto" THEN "applied" ELSE "pending"])
  /\ UNCHANGED <<autonomy, knows, params, watch, rows, review, touches>>

(* The same advice within ten minutes is not written again; a database error is         *)
(* logged and the advice goes on without a row.                                       *)
Repeated(l) == \E i \in DOMAIN rows :
  rows[i].category = l /\ rows[i].content = asking[l].content /\ rows[i].recent
Save(l) ==
  LET me == asking[l]
  IN /\ Here(l, "saving") /\ Step(l, [me EXCEPT !.pc = "acting"])
     /\ \/ /\ ~Repeated(l) /\ Len(rows) < MaxRows
           /\ rows' = Append(rows, [category |-> l, content |-> me.content,
                                    status |-> me.status, recent |-> TRUE])
        \/ UNCHANGED rows
     /\ UNCHANGED <<autonomy, knows, params, watch, review, touches>>

(* Size, stop and leverage are brought between their floors and ceilings. *)
Clamped(p) == IF p = Reckless THEN "capped" ELSE p

(* The mode is read again after the wait; text where a number belongs raises. *)
ByMode(l) == autonomy = "full_auto"
ByStatus(l) == asking[l].status = "applied"
MayAct(l) == ByMode(l)

ActOnRisk ==
  LET l == "risk_adjustment"
  IN /\ Here(l, "acting") /\ Step(l, Unasked)
     /\ params' = IF MayAct(l) /\ asking[l].content # NoNumbers THEN Clamped(asking[l].content)
                  ELSE params
     /\ UNCHANGED <<autonomy, knows, watch, rows, review, touches>>

(* Coins the universe does not know as trading are left out; without a universe every    *)
(* coin passes.  Nothing usable: the watchlist stays.                                   *)
Usable(picks) == IF knows THEN picks \cap Tradable ELSE picks
IfAny(accepted) == accepted # {}
Whatever(accepted) == TRUE
Writes(accepted) == IfAny(accepted)

ActOnCoins ==
  LET l == "coin_selection" accepted == Usable(asking[l].content)
  IN /\ Here(l, "acting")
     /\ Step(l, IF MayAct(l) /\ Writes(accepted)
                THEN [asking[l] EXCEPT !.pc = "storing", !.content = accepted] ELSE Unasked)
     /\ UNCHANGED <<autonomy, knows, params, watch, rows, review, touches>>

(* The present list is read and, if it differs, replaced; the write may fail. *)
StoreCoins ==
  LET l == "coin_selection"
  IN /\ Here(l, "storing") /\ Step(l, Unasked)
     /\ watch' \in {watch, asking[l].content}
     /\ UNCHANGED <<autonomy, knows, params, rows, review, touches>>

(* --- the operator --------------------------------------------------------------- *)
(* A route on a row, whatever its status: read, act, write.                          *)
Review(i) ==
  /\ review = NoReview /\ touches < MaxTouches /\ touches' = touches + 1
  /\ \E pc \in {"approving", "rejecting"} : review' = [pc |-> pc, id |-> i]
  /\ UNCHANGED <<autonomy, knows, params, watch, rows, asking>>

Applicable(r) == ~(r.category = "risk_adjustment" /\ r.content = NoNumbers)
Approve ==
  LET r == rows[review.id]
  IN /\ review.pc = "approving"
     /\ params' = IF r.category = "risk_adjustment" /\ Applicable(r) THEN Clamped(r.content) ELSE params
     /\ rows' = [rows EXCEPT ![review.id].status = IF Applicable(r) THEN "applied" ELSE "approved"]
     /\ review' = NoReview
     /\ UNCHANGED <<autonomy, knows, watch, asking, touches>>

Reject ==
  /\ review.pc = "rejecting" /\ review' = NoReview
  /\ rows' = [rows EXCEPT ![review.id].status = "rejected"]
  /\ UNCHANGED <<autonomy, knows, params, watch, asking, touches>>

Touches == touches < MaxTouches /\ touches' = touches + 1
SetMode ==
  /\ Touches /\ autonomy' \in {"suggest", "full_auto"} \ {autonomy}
  /\ UNCHANGED <<knows, params, watch, rows, asking, review>>
SetParams ==
  /\ Touches /\ params' = "operator"
  /\ UNCHANGED <<autonomy, knows, watch, rows, asking, review>>

(* The universe is asked for first; all the coins are accepted or none. *)
SetWatchlist ==
  /\ Touches /\ knows' \in {knows, TRUE}
  /\ \E coins \in SUBSET (Tradable \cup UNION Picks) :
       /\ coins # {} /\ (knows' => coins \subseteq Tradable)
       /\ watch' \in {watch, coins}
  /\ UNCHANGED <<autonomy, params, rows, asking, review>>

UniverseLoads == ~knows /\ knows' = TRUE
  /\ UNCHANGED <<autonomy, params, watch, rows, asking, review, touches>>

WindowPasses ==
  /\ \E i \in DOMAIN rows : rows[i].recent /\ rows' = [rows EXCEPT ![i].recent = FALSE]
  /\ UNCHANGED <<autonomy, knows, params, watch, asking, review, touches>>

AdviceNext ==
  \/ ActOnRisk \/ ActOnCoins \/ StoreCoins \/ Approve \/ Reject \/ UniverseLoads \/ WindowPasses
  \/ SetMode \/ SetParams \/ SetWatchlist
  \/ \E l \in Loops : Answer(l) \/ Save(l)
  \/ \E i \in DOMAIN rows : Review(i)

(* What the bound of the operator's acts counts. *)
AdvTypeOK == touches \in Nat

(* A list on its way to be stored has coins, as the one stored. *)
ListsAreFull ==
  /\ DOMAIN asking = Loops /\ watch # {}
  /\ Here("coin_selection", "storing") => asking["coin_selection"].content # {}
AdvInv == AdvTypeOK /\ ListsAreFull

(* --- properties -------------------------------------------------------------------- *)
(* The parameters change only in full_auto, as the mode is at that moment, or by a hand:  *)
(* an operator who takes the autonomy back while an answer is on its way is obeyed         *)
(* (deepseek_ctl.py:407).                                                              *)
NoUnapprovedChange ==
  params' # params => autonomy = "full_auto" \/ review # NoReview \/ touches' # touches

(* A failing or useless answer never leaves the watchlist empty (deepseek_ctl.py:115). *)
WatchlistNeverEmptied == watch # {}

(* What the code does not keep: a row is marked applied only when its advice is in force    *)
(* by then (ai.py:170, "`applied` records that the action really ran").                   *)
AppliedMeansRan ==
  [][review.pc = "approving" /\ rows'[review.id].status = "applied" =>
       \/ rows[review.id].category = "risk_adjustment"
       \/ watch' = rows[review.id].content]_adviceVars
=============================================================================
