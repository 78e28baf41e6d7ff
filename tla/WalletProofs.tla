---------------------------- MODULE WalletProofs ----------------------------
(***************************************************************************)
(* The properties of Wallet for every set of workers and amounts, and that *)
(* the locking code implements the atomic account.  The inductive          *)
(* invariant is TypeOK together with CopyIsRow (the lock makes the copy    *)
(* the committed row) and what follows from it for the committed columns.  *)
(***************************************************************************)
EXTENDS Wallet, TLAPS

IInv == TypeOK /\ CopyIsRow /\ LedgerAgrees /\ Solvent

USE AmountAssumption, NoWorkerAssumption

\* The four ways a step changes nothing but the lock and the workers.
Quiet(w) == NoWallet(w) \/ Acquire(w) \/ Refuse(w) \/ Rollback(w)

-----------------------------------------------------------------------------
\* The wallet opens with an empty ledger and nobody in a transaction.
LEMMA InitIInv == Init => IInv
  BY DEF Init, IInv, TypeOK, CopyIsRow, LedgerAgrees, Solvent, Txn, Idle, Phase,
         Operation, EntryType

\* At most one worker holds the row, so freeing it disturbs no other copy.
LEMMA OneHolder ==
  ASSUME CopyIsRow, NEW w \in Worker, NEW v \in Worker,
         txn[w].phase = "holding", txn[v].phase = "holding"
  PROVE  w = v
  BY DEF CopyIsRow

\* A commit writes, column by column, what its operation does to the committed row.
LEMMA CommitOnRow ==
  ASSUME TypeOK, CopyIsRow, NEW w \in Worker, Commit(w)
  PROVE  LET t == txn[w] IN
         /\ t.op \in EntryType
         /\ t.amount \in Nat
         /\ booked' = [booked EXCEPT ![t.op] = @ + t.amount]
         /\ t.op \in {"top_up", "refund"} =>
              balance' = balance + t.amount /\ reserved' = reserved
         /\ t.op = "reservation" =>
              /\ balance - reserved >= t.amount
              /\ balance' = balance /\ reserved' = reserved + t.amount
         /\ t.op = "adjustment" =>
              balance' = balance /\ reserved' = reserved - t.amount
         /\ t.op = "debit" =>
              /\ reserved >= t.amount
              /\ balance' = balance - t.amount /\ reserved' = reserved - t.amount
  BY DEF TypeOK, CopyIsRow, Commit, Txn, Allowed, NewBalance, NewReserved,
         WritesBalance, WritesReserved, Operation, EntryType

\* Type correctness of one step.
LEMMA TypeStep == IInv /\ [Next]_vars => TypeOK'
<1> SUFFICES ASSUME IInv, [Next]_vars PROVE TypeOK'
  OBVIOUS
<1> USE DEF IInv, TypeOK
<1>1. CASE CreateWallet
  BY <1>1 DEF CreateWallet
<1>2. ASSUME NEW w \in Worker, NEW op \in Operation, NEW amount \in Amount, Call(w, op, amount)
      PROVE  TypeOK'
  BY <1>2 DEF Call, Txn, Phase
<1>3. ASSUME NEW w \in Worker, Quiet(w)
      PROVE  TypeOK'
  BY <1>3 DEF Quiet, NoWallet, Acquire, Refuse, Rollback, Free, Txn, Phase
<1>4. ASSUME NEW w \in Worker, Commit(w)
      PROVE  TypeOK'
  <2>1. balance' \in Nat /\ reserved' \in Int
    BY <1>4, CommitOnRow DEF Solvent, EntryType
  <2>2. booked' \in [EntryType -> Nat]
    BY <1>4, CommitOnRow
  <2>3. exists' \in BOOLEAN /\ lock' \in Worker \cup {NoWorker}
    BY <1>4 DEF Commit, Free
  <2>4. txn' \in [Worker -> Txn]
    BY <1>4 DEF Commit, Free, Txn, Phase
  <2>5. \A v \in Worker : txn'[v].phase # "idle" => txn'[v].amount \in Amount
    BY <1>4 DEF Commit, Free, Txn, Phase
  <2> QED
    BY <2>1, <2>2, <2>3, <2>4, <2>5
<1>5. CASE UNCHANGED vars
  BY <1>5 DEF vars
<1> QED
  BY <1>1, <1>2, <1>3, <1>4, <1>5 DEF Next, Quiet, Finish

\* The lock keeps every copy equal to the row.
LEMMA CopyStep == IInv /\ [Next]_vars => CopyIsRow'
<1> SUFFICES ASSUME IInv, [Next]_vars,
                    NEW v \in Worker, txn'[v].phase = "holding"
             PROVE  lock' = v /\ txn'[v].balance = balance' /\ txn'[v].reserved = reserved'
  BY DEF CopyIsRow
<1> USE DEF IInv, TypeOK, Txn, Phase
<1>1. CASE CreateWallet
  BY <1>1 DEF CreateWallet, CopyIsRow
<1>2. ASSUME NEW w \in Worker, NEW op \in Operation, NEW amount \in Amount, Call(w, op, amount)
      PROVE  lock' = v /\ txn'[v].balance = balance' /\ txn'[v].reserved = reserved'
  BY <1>2 DEF Call, CopyIsRow
<1>3. ASSUME NEW w \in Worker, NoWallet(w)
      PROVE  lock' = v /\ txn'[v].balance = balance' /\ txn'[v].reserved = reserved'
  BY <1>3 DEF NoWallet, CopyIsRow
<1>4. ASSUME NEW w \in Worker, Acquire(w)
      PROVE  lock' = v /\ txn'[v].balance = balance' /\ txn'[v].reserved = reserved'
  BY <1>4 DEF Acquire, RowIsFree, CopyIsRow
<1>5. ASSUME NEW w \in Worker, Finish(w)
      PROVE  FALSE
  <2>1. txn[w].phase = "holding" /\ Free(w)
    BY <1>5 DEF Finish, Commit, Refuse, Rollback
  <2>2. v # w /\ txn[v].phase = "holding"
    BY <2>1 DEF Free
  <2> QED
    BY <2>1, <2>2, OneHolder
<1>6. CASE UNCHANGED vars
  BY <1>6 DEF vars, CopyIsRow
<1> QED
  BY <1>1, <1>2, <1>3, <1>4, <1>5, <1>6 DEF Next

\* Ledger and solvency of one step: only a commit touches them.
LEMMA MoneyStep == IInv /\ [Next]_vars => LedgerAgrees' /\ Solvent'
<1> SUFFICES ASSUME IInv, [Next]_vars PROVE LedgerAgrees' /\ Solvent'
  OBVIOUS
<1>1. ASSUME NEW w \in Worker, Commit(w)
      PROVE  LedgerAgrees' /\ Solvent'
  <2>1. CASE txn[w].op \in {"top_up", "refund"}
    BY <1>1, <2>1, CommitOnRow DEF IInv, TypeOK, LedgerAgrees, Solvent, EntryType
  <2>2. CASE txn[w].op = "reservation"
    BY <1>1, <2>2, CommitOnRow DEF IInv, TypeOK, LedgerAgrees, Solvent, EntryType
  <2>3. CASE txn[w].op = "adjustment"
    BY <1>1, <2>3, CommitOnRow DEF IInv, TypeOK, LedgerAgrees, Solvent, EntryType
  <2>4. CASE txn[w].op = "debit"
    BY <1>1, <2>4, CommitOnRow DEF IInv, TypeOK, LedgerAgrees, Solvent, EntryType
  <2> QED
    BY <1>1, <2>1, <2>2, <2>3, <2>4, CommitOnRow DEF IInv, EntryType
<1>2. CASE UNCHANGED <<balance, reserved, booked>>
  BY <1>2 DEF IInv, LedgerAgrees, Solvent
<1> QED
  BY <1>1, <1>2 DEF Next, Finish, CreateWallet, Call, NoWallet, Acquire, Refuse, Rollback, vars

\* Type correctness, the copies, the ledger and solvency hold in every reachable
\* state, for any number of workers and any amounts.
THEOREM Invariance == Spec => []IInv
<1>1. IInv /\ [Next]_vars => IInv'
  BY TypeStep, CopyStep, MoneyStep DEF IInv
<1> QED
  BY <1>1, InitIInv, PTL DEF Spec

\* Every variable keeps its type; in particular Wallet.balance stays natural.
THEOREM TypeCorrect == Spec => []TypeOK
  BY Invariance, PTL DEF IInv

\* The row is the sum of its ledger (top_up_wallet .. refund_funds).
THEOREM LedgerCorrect == Spec => []LedgerAgrees
  BY Invariance, PTL DEF IInv

\* No interleaving of reservations, debits and releases overdraws the wallet.
THEOREM Solvency == Spec => []Solvent
  BY Invariance, PTL DEF IInv

-----------------------------------------------------------------------------
\* A new wallet is an account with nothing in it.
LEMMA AccountInit == Init => Account!Init
  BY DEF Init, Account!Init, EntryType, Account!EntryType

\* Every step is one operation of the account, or changes nothing of it.
LEMMA AccountStep == IInv /\ [Next]_vars => [Account!Next]_Account!accountVars
<1> SUFFICES ASSUME IInv, [Next]_vars PROVE [Account!Next]_Account!accountVars
  OBVIOUS
<1>1. ASSUME NEW w \in Worker, Commit(w)
      PROVE  Account!Next
  <2> DEFINE amount == txn[w].amount
  <2> SUFFICES \/ Account!TopUp(amount) \/ Account!Refund(amount)
               \/ Account!Reserve(amount) \/ Account!Release(amount)
               \/ Account!Debit(amount)
    BY <1>1 DEF IInv, TypeOK, Commit, Account!Next
  <2> USE <1>1, CommitOnRow DEF IInv, EntryType, Account!Book
  <2>1. CASE txn[w].op = "top_up"
    BY <2>1 DEF Account!TopUp
  <2>2. CASE txn[w].op = "refund"
    BY <2>2 DEF Account!Refund
  <2>3. CASE txn[w].op = "reservation"
    BY <2>3 DEF Account!Reserve
  <2>4. CASE txn[w].op = "adjustment"
    BY <2>4 DEF Account!Release
  <2>5. CASE txn[w].op = "debit"
    BY <2>5 DEF Account!Debit
  <2> QED
    BY <2>1, <2>2, <2>3, <2>4, <2>5
<1>2. CASE UNCHANGED <<balance, reserved, booked>>
  BY <1>2 DEF Account!accountVars
<1> QED
  BY <1>1, <1>2 DEF Next, Finish, CreateWallet, Call, NoWallet, Acquire, Refuse, Rollback, vars

\* WalletTransactionService, run by any number of workers, is the atomic account.
THEOREM WalletIsAccount == Spec => AccountSpec
  BY Invariance, AccountInit, AccountStep, PTL DEF Spec, AccountSpec, Account!Spec
=============================================================================
