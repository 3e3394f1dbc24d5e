----------------------------- MODULE MCReaders -----------------------------
(***************************************************************************)
(* A small instance of Readers.  Mappings 1 and 2 are due again after each *)
(* cycle and would fill it, 3 is polled less often, 4 has no valid         *)
(* interval and stays first.  A discovery endpoint lists a test id twice,  *)
(* or other test ids; an unanswered one lists none.                        *)
(***************************************************************************)
EXTENDS Readers

MCInterval == [m \in Mapping |-> CASE m = 4 -> 0 [] m = 3 -> 3 [] m < 3 -> 1]

MCListings == {<<1, 1, 2>>, <<2, 3>>}

MCPlannedIds == <<3, 1, 3>>

MCMaxRequests == [program \in {"baseline", "freshness"} |->
                     IF program = "baseline" THEN 7 ELSE 9]
=============================================================================
