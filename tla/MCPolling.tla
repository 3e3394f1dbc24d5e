----------------------------- MODULE MCPolling -----------------------------
(***************************************************************************)
(* A small instance of Polling on its own, without recovery.               *)
(***************************************************************************)
EXTENDS Polling

MCInterval == [m \in Mapping |-> m]
=============================================================================
