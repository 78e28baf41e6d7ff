----------------------------- MODULE MCPayment -----------------------------
(***************************************************************************)
(* Payment for TLC.  The orders, the events and the faults are bounded by  *)
(* the constants; the billing check and a changing plan keep the system    *)
(* moving for ever, so no run of it ends.  The configuration gives one     *)
(* order, three events and two workers: an event that settles, one that    *)
(* overwrites, one that settles again, with two deliveries at a time.      *)
(* Without symmetry: the run checks liveness.                              *)
(***************************************************************************)
EXTENDS Payment
=============================================================================
