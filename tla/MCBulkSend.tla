----------------------------- MODULE MCBulkSend -----------------------------
(***************************************************************************)
(* BulkSend for TLC.  A send really ends, so a state in which every task   *)
(* has ended may stutter; any other state without a successor is a task    *)
(* that is stuck, and TLC reports it as a deadlock.                        *)
(***************************************************************************)
EXTENDS BulkSend, TLC

AllStopped == TasksEnded /\ UNCHANGED vars

MCNext == Next \/ AllStopped
MCSpec == Init /\ [][MCNext]_vars
MCFairSpec == MCSpec /\ Fairness

\* Contacts that are neither blocked nor new are interchangeable, and so are the
\* dispatch tasks.
TaskSymmetry ==
  Permutations(Phone \ (Blocked \cup Joining)) \cup Permutations(Dispatch)
=============================================================================
