----------------------------- MODULE MCDelivery -----------------------------
(* Delivery for TLC. *)
EXTENDS Delivery, TLC

\* A patch of a column that plays no part here, or of some that do.
ClientPatches ==
  {[x \in {} |-> None], [status |-> "sent"], [status |-> "pending", known |-> FALSE],
   [delivered |-> FALSE, opened |-> FALSE]}

NameSymmetry == Permutations(Handler)
=============================================================================
