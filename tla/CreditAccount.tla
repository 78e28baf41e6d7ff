---------------------------- MODULE CreditAccount ----------------------------
(***************************************************************************)
(* What WalletTransactionService promises its callers: a prepaid account   *)
(* with a balance, an earmarked part of it, and a ledger, whose operations *)
(* take effect one at a time.  The ledger is kept as the total booked per  *)
(* CreditLedger.entry_type.  Wallet.tla shows that the row-locking code    *)
(* implements this account, BulkSend.tla and its tasks are checked to use  *)
(* it only through these operations.                                       *)
(***************************************************************************)
EXTENDS Integers

CONSTANT Amount      \* the amounts a caller may ask for

VARIABLES
  balance,           \* Wallet.balance
  reserved,          \* Wallet.reserved
  booked             \* sum of CreditLedger.amount, per entry type

accountVars == <<balance, reserved, booked>>

EntryType == {"top_up", "reservation", "debit", "refund", "adjustment"}

Book(type, amount) == booked' = [booked EXCEPT ![type] = @ + amount]

\* An account opens with some balance and a ledger that explains it.
Init ==
  /\ balance \in Nat
  /\ reserved = 0
  /\ booked = [type \in EntryType |-> IF type = "top_up" THEN balance ELSE 0]

TopUp(amount) ==
  /\ balance' = balance + amount
  /\ Book("top_up", amount)
  /\ UNCHANGED reserved

Reserve(amount) ==
  /\ balance - reserved >= amount
  /\ reserved' = reserved + amount
  /\ Book("reservation", amount)
  /\ UNCHANGED balance

\* Releasing is not bounded by what is reserved: the code does not check.
Release(amount) ==
  /\ reserved' = reserved - amount
  /\ Book("adjustment", amount)
  /\ UNCHANGED balance

Debit(amount) ==
  /\ reserved >= amount
  /\ reserved' = reserved - amount
  /\ balance' = balance - amount
  /\ Book("debit", amount)

Refund(amount) ==
  /\ balance' = balance + amount
  /\ Book("refund", amount)
  /\ UNCHANGED reserved

Next ==
  \E amount \in Amount :
    \/ TopUp(amount)
    \/ Reserve(amount)
    \/ Release(amount)
    \/ Debit(amount)
    \/ Refund(amount)

Spec == Init /\ [][Next]_accountVars
=============================================================================
