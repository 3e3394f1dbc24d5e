---------------------------- MODULE MCValidation ----------------------------
(***************************************************************************)
(* A small instance of Validation.  Today is before the hour the tools     *)
(* have fixed their clocks to, or after it.                                *)
(***************************************************************************)
EXTENDS Validation

MCCatalogClock == {0, 7200}
=============================================================================
