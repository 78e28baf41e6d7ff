----------------------------- MODULE MCCatalog -----------------------------
(***************************************************************************)
(* Catalog for TLC: one product, on the first of two pages, so that what   *)
(* the import has fetched of it ages while the second page is fetched.     *)
(* Products meet only in an import, which treats each alike.               *)
(***************************************************************************)
EXTENDS Catalog

OnFirstPage == [p \in Product |-> 1]
=============================================================================
