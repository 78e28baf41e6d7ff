------------------------------ MODULE MCWallet ------------------------------
(***************************************************************************)
(* Wallet for TLC.  The ledger totals grow without limit, so calls stop    *)
(* once some entry type has booked more than MaxBooked; what is in flight  *)
(* still finishes.                                                         *)
(***************************************************************************)
EXTENDS Wallet

CONSTANT MaxBooked

Full == \E type \in EntryType : booked[type] > MaxBooked

Calls == \E w \in Worker : txn[w].phase = "idle" /\ txn'[w].phase = "waiting"

\* Where the bound, and nothing else, has stopped the workers.
AllReturned ==
  /\ Full
  /\ \A w \in Worker : txn[w].phase = "idle"
  /\ UNCHANGED vars

MCNext == (Next /\ (Full => ~Calls)) \/ AllReturned

MCSpec == Init /\ [][MCNext]_vars
MCFairSpec == MCSpec /\ Fairness
=============================================================================
