-------------------------------- MODULE Ledger --------------------------------
(*************************************************************************)
(* What the simulated account promises, with every operation as one      *)
(* step: an open moves its basis from the wallet into the book, a close  *)
(* or a reduce moves basis back and adds its profit, an open whose       *)
(* payment failed is withdrawn, and a reset starts the account over.     *)
(* The wallet here is the cash the committed rows imply, so it never     *)
(* lags a row.                                                           *)
(*                                                                       *)
(* SimLedger, where the row, the in-memory position and the cash move in *)
(* separate steps of several tasks, implements this.                     *)
(*************************************************************************)
EXTENDS Sums

CONSTANTS
  Rows,            \* the open rows the account may ever have
  InitialBalance   \* db.database.DEFAULT_BALANCE

VARIABLES
  wallet,          \* the cash the committed rows imply
  book,            \* book[r]: cash basis still invested in row r, 0 if not open
  realised         \* sum of the pnl of the close and reduce rows

ledgerVars == <<wallet, book, realised>>

Fresh == [r \in Rows |-> 0]

LedgerInit ==
  /\ wallet = InitialBalance
  /\ book = Fresh
  /\ realised = 0

\* Only row r of the book changes in this step.
OnlyRow(r) == book' = [book EXCEPT ![r] = book'[r]]

\* Cash goes into row r, which was not open.
Invest(r) ==
  /\ book[r] = 0
  /\ book'[r] > 0
  /\ OnlyRow(r)
  /\ wallet' = wallet - book'[r]
  /\ UNCHANGED realised

\* An open whose payment failed is undone: the whole basis comes back.
Withdraw(r) ==
  /\ book[r] > 0
  /\ book'[r] = 0
  /\ OnlyRow(r)
  /\ wallet' = wallet + book[r]
  /\ UNCHANGED realised

\* Part of the basis of row r comes back, and some profit or loss with it.
\* No row ever gives back more than is still in it.
Settle(r) ==
  /\ 0 <= book'[r] /\ book'[r] < book[r]
  /\ OnlyRow(r)
  /\ wallet' = wallet + (book[r] - book'[r]) + (realised' - realised)

\* reset-sim: no rows, no realised profit, the initial balance.
StartOver ==
  /\ wallet' = InitialBalance
  /\ book' = Fresh
  /\ realised' = 0

LedgerNext ==
  \/ \E r \in Rows : Invest(r) \/ Withdraw(r) \/ Settle(r)
  \/ StartOver

LedgerSpec == LedgerInit /\ [][LedgerNext]_ledgerVars

\* Money is conserved: what is not in the wallet is invested, except for what
\* trading has won or lost.
Conserved == wallet + Total(book) = InitialBalance + realised
=============================================================================
