------------------------------- MODULE Wallet -------------------------------
(***************************************************************************)
(* WalletTransactionService (apps/accounts/service.py): one wallet row,    *)
(* and the web and Celery workers that run its five operations.  Every     *)
(* operation is a transaction.atomic block that                            *)
(*                                                                         *)
(*   - takes the row with select_for_update().get(), which blocks while    *)
(*     another transaction holds it and returns the committed values,      *)
(*   - checks its guard and computes on that copy of the row in memory,    *)
(*   - saves the columns it names in update_fields, creates one            *)
(*     CreditLedger row, and commits.                                      *)
(*                                                                         *)
(* Nothing of a transaction is visible to the others before it commits, so *)
(* the two writes are part of the Commit action; a crash or an exception   *)
(* before it (also one of the caller, when the operation is nested in the  *)
(* caller's atomic block) rolls back and frees the row.                    *)
(***************************************************************************)
EXTENDS Integers

CONSTANTS
  Worker,            \* processes that call the service
  Amount,            \* the amounts they ask for
  NoWorker           \* the row is not locked

ASSUME AmountAssumption == Amount \subseteq Nat
ASSUME NoWorkerAssumption == NoWorker \notin Worker

VARIABLES
  exists,            \* the user has a Wallet row
  balance,           \* Wallet.balance, as committed
  reserved,          \* Wallet.reserved, as committed
  booked,            \* sum of CreditLedger.amount per entry type
  lock,              \* the worker whose transaction holds the row
  txn                \* what each worker is doing

vars == <<exists, balance, reserved, booked, lock, txn>>

EntryType == {"top_up", "reservation", "debit", "refund", "adjustment"}

\* The operations, named after the ledger entry they book.
Operation == EntryType

Phase == {"idle", "waiting", "holding"}

Txn == [phase : Phase, op : Operation, amount : Amount \cup {0},
        balance : Int, reserved : Int]

Idle == [phase |-> "idle", op |-> "top_up", amount |-> 0, balance |-> 0, reserved |-> 0]

Init ==
  /\ exists \in BOOLEAN
  /\ balance = 0
  /\ reserved = 0
  /\ booked = [type \in EntryType |-> 0]
  /\ lock = NoWorker
  /\ txn = [w \in Worker |-> Idle]

\* register_user and the Shopify sign-in create the row.
CreateWallet ==
  /\ ~exists
  /\ exists' = TRUE
  /\ UNCHANGED <<balance, reserved, booked, lock, txn>>

\* A worker calls one of the operations: it now waits for the row.
Call(w, op, amount) ==
  /\ txn[w].phase = "idle"
  /\ txn' = [txn EXCEPT ![w].phase = "waiting", ![w].op = op, ![w].amount = amount]
  /\ UNCHANGED <<exists, balance, reserved, booked, lock>>

\* Wallet.DoesNotExist: the operation returns an error (release_reservation
\* raises it); nothing is locked.
NoWallet(w) ==
  /\ txn[w].phase = "waiting"
  /\ ~exists
  /\ txn' = [txn EXCEPT ![w].phase = "idle"]
  /\ UNCHANGED <<exists, balance, reserved, booked, lock>>

RowIsFreeWithoutForUpdate == TRUE             \* fault: get() without select_for_update()

RowIsFree == lock = NoWorker

\* select_for_update().get(): the lock and the committed row, in one step.
Acquire(w) ==
  /\ txn[w].phase = "waiting"
  /\ exists
  /\ RowIsFree
  /\ lock' = w
  /\ txn' = [txn EXCEPT ![w].phase = "holding",
                        ![w].balance = balance, ![w].reserved = reserved]
  /\ UNCHANGED <<exists, balance, reserved, booked>>

\* Faults: reserve_funds compares with the balance, not with what is left of it;
\* debit_funds does not check.
AllowedOnWholeBalance(t) == t.op = "reservation" => t.balance >= t.amount
AllowedUncheckedDebit(t) == t.op = "reservation" => t.balance - t.reserved >= t.amount

\* The guards, evaluated on the copy the transaction has read.
Allowed(t) ==
  CASE t.op = "reservation" -> t.balance - t.reserved >= t.amount
    [] t.op = "debit"       -> t.reserved >= t.amount
    [] OTHER                -> TRUE

\* The columns after the operation, computed from the copy.
NewBalance(t) ==
  CASE t.op \in {"top_up", "refund"} -> t.balance + t.amount
    [] t.op = "debit"                -> t.balance - t.amount
    [] OTHER                         -> t.balance

NewReserved(t) ==
  CASE t.op = "reservation"            -> t.reserved + t.amount
    [] t.op \in {"debit", "adjustment"} -> t.reserved - t.amount
    [] OTHER                           -> t.reserved

\* save(update_fields=...) writes only the columns the operation changes.
WritesBalance(op) == op \in {"top_up", "refund", "debit"}
WritesReserved(op) == op \in {"reservation", "debit", "adjustment"}

\* Fault: the transaction is left open, its lock with it.
FreeKeepsLock(w) ==
  /\ lock' = lock
  /\ txn' = [txn EXCEPT ![w].phase = "idle"]

Free(w) ==
  /\ lock' = IF lock = w THEN NoWorker ELSE lock
  /\ txn' = [txn EXCEPT ![w].phase = "idle"]

Commit(w) ==
  LET t == txn[w] IN
  /\ t.phase = "holding"
  /\ Allowed(t)
  /\ balance' = IF WritesBalance(t.op) THEN NewBalance(t) ELSE balance
  /\ reserved' = IF WritesReserved(t.op) THEN NewReserved(t) ELSE reserved
  /\ booked' = [booked EXCEPT ![t.op] = @ + t.amount]
  /\ Free(w)
  /\ UNCHANGED exists

\* `return InsufficientBalanceError(...)`: the block ends with nothing written.
Refuse(w) ==
  /\ txn[w].phase = "holding"
  /\ ~Allowed(txn[w])
  /\ Free(w)
  /\ UNCHANGED <<exists, balance, reserved, booked>>

\* A crash, or an exception in the enclosing atomic block, before the commit.
Rollback(w) ==
  /\ txn[w].phase = "holding"
  /\ Free(w)
  /\ UNCHANGED <<exists, balance, reserved, booked>>

Finish(w) == Commit(w) \/ Refuse(w) \/ Rollback(w)

Next ==
  \/ CreateWallet
  \/ \E w \in Worker :
       \/ \E op \in Operation, amount \in Amount : Call(w, op, amount)
       \/ NoWallet(w)
       \/ Acquire(w)
       \/ Finish(w)

Spec == Init /\ [][Next]_vars

(***************************************************************************)
(* A transaction ends: the workers run no I/O while they hold the row, and *)
(* PostgreSQL frees it when a connection dies (weak fairness).  Waiters    *)
(* are queued on the row lock, so one that waits is not passed over for    *)
(* ever (strong fairness).                                                 *)
(***************************************************************************)
Fairness ==
  \A w \in Worker :
    /\ WF_vars(NoWallet(w))
    /\ SF_vars(Acquire(w))
    /\ WF_vars(Finish(w))

FairSpec == Spec /\ Fairness

-----------------------------------------------------------------------------
(* Properties *)

\* The balance is never negative; the columns and the copies are numbers.
TypeOK ==
  /\ exists \in BOOLEAN
  /\ balance \in Nat
  /\ reserved \in Int
  /\ booked \in [EntryType -> Nat]
  /\ lock \in Worker \cup {NoWorker}
  /\ txn \in [Worker -> Txn]
  /\ \A w \in Worker : txn[w].phase # "idle" => txn[w].amount \in Amount

\* The wallet is the sum of its ledger: no interleaving of two operations loses
\* an update of the row or books an entry the row does not show.
LedgerAgrees ==
  /\ balance = booked["top_up"] + booked["refund"] - booked["debit"]
  /\ reserved = booked["reservation"] - booked["debit"] - booked["adjustment"]

\* Nobody reserves or spends credits that are not there, also when callers
\* release more than they reserved and drive `reserved` below zero.
Solvent ==
  /\ balance >= 0
  /\ reserved <= balance

\* While a transaction holds the row, the copy it computes on is the committed
\* row: what select_for_update is for.
CopyIsRow ==
  \A w \in Worker :
    txn[w].phase = "holding" =>
      /\ lock = w
      /\ txn[w].balance = balance
      /\ txn[w].reserved = reserved

\* The operations, as concurrent transactions, are the atomic account.
Account == INSTANCE CreditAccount
AccountSpec == Account!Spec

\* A call that waits for the row returns, whatever the others do.
CallsReturn ==
  \A w \in Worker : txn[w].phase = "waiting" ~> txn[w].phase = "idle"
=============================================================================
