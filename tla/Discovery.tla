----------------------------- MODULE Discovery -----------------------------
(***************************************************************************)
(* aggregateDiscoveryEvidence and the selection of what a catalog          *)
(* synchronization persists.  The evidence is the sequence of records the  *)
(* source listed, those of /contest/nearest followed by those of           *)
(* /contest/month; a record is represented by its test id, the only thing  *)
(* that identifies a contest.                                              *)
(***************************************************************************)
EXTENDS SequencesExt

\* A Map keyed by test id, in the order of insertion.
Aggregate(evidence) ==
    FoldLeft(LAMBDA contests, t : IF Contains(contests, t) THEN contests
                                  ELSE Append(contests, t),
             <<>>, evidence)

\* Slip: records of one test id are not merged.
SelectionAsListed(evidence, maximum) ==
    SubSeq(evidence, 1, IF Len(evidence) < maximum THEN Len(evidence) ELSE maximum)

\* discovery.contests.slice(0, maximum)
Selection(evidence, maximum) ==
    LET contests == Aggregate(evidence)
    IN  SubSeq(contests, 1, IF Len(contests) < maximum THEN Len(contests) ELSE maximum)
------------------------------------------------------------------------------
\* Reference: a test id is selected when fewer than maximum other ones are
\* listed for the first time before it.
FirstAt(evidence, t) ==
    CHOOSE i \in DOMAIN evidence :
        evidence[i] = t /\ \A j \in 1 .. i - 1 : evidence[j] # t

Listed(evidence, maximum) ==
    {t \in ToSet(evidence) :
        Cardinality({u \in ToSet(evidence) : FirstAt(evidence, u) < FirstAt(evidence, t)})
            < maximum}
=============================================================================
