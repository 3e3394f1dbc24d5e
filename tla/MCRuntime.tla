------------------------------ MODULE MCRuntime ------------------------------
(***************************************************************************)
(* Small instances of Runtime: two processes, of which the configuration   *)
(* says which have a loop and recover; the others are started by cron.     *)
(* Mapping 1 and 2 are pollable, mapping 3 has no valid interval.          *)
(***************************************************************************)
EXTENDS Runtime

MCInterval == [m \in Mapping |-> IF m = 3 THEN 0 ELSE m]
=============================================================================
