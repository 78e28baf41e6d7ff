---------------------------- MODULE MCCustomers ----------------------------
(***************************************************************************)
(* Customers for TLC: two customers on the first of two pages, so that     *)
(* what the import has fetched of them ages while it fetches the second.   *)
(***************************************************************************)
EXTENDS Customers, TLC

OnFirstPage == [k \in Customer |-> 1]

\* Nobody has to do anything more, or there are too few keys left; any other state without
\* a successor is a request that waits for ever.
AllStopped ==
  /\ (\A w \in Worker : Free(w)) \/ Cardinality(Contact \ born) < Cardinality(Phone)
  /\ UNCHANGED vars

MCNext == CustomersNext \/ AllStopped
MCSpec == CustomersInit /\ [][MCNext]_vars

\* What has a name only is interchangeable.
NameSymmetry ==
  Permutations(Contact) \cup Permutations(Phone) \cup Permutations(Segment)
    \cup Permutations(Worker) \cup Permutations(Customer)
=============================================================================
