--------------------------- MODULE MCCatalogSync ---------------------------
(***************************************************************************)
(* A small instance of CatalogSync: two interchangeable processes and      *)
(* three test ids.  The source lists two of them, one twice, before the    *)
(* third, which is beyond the limit.                                       *)
(***************************************************************************)
EXTENDS CatalogSync

CONSTANTS p, q, r

Processes == Permutations(Worker)

MCListings == {<<p, q, p, r>>}
=============================================================================
