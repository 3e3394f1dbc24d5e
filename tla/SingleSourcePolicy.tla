------------------------- MODULE SingleSourcePolicy -------------------------
(***************************************************************************)
(* The Phase 2D canonical policy: what the reconciliation of one accepted  *)
(* snapshot decides, given the canonical row its entry already has.  It is *)
(* a pure function of its two arguments and exists twice in the code, as   *)
(* decideSingleSourceSequence (TypeScript) and SingleSourcePolicy::decide  *)
(* (PHP); both are translated here by the one operator Decide.             *)
(*                                                                         *)
(* A candidate is a row of score_snapshots.  Confirmed UTC timestamps are  *)
(* compared as microsecond counts, so a timestamp is a natural number.     *)
(* The row read from current_scores is optional and is passed as the       *)
(* result set of the query: {} or a singleton.                             *)
(***************************************************************************)
EXTENDS Naturals

CONSTANT NoTimestamp      \* source_timestamp IS NULL

ASSUME NoTimestampAssumption == NoTimestamp \notin Nat

\* acceptance_status and source_timestamp_quality as far as the policy can
\* tell them apart: ACCEPTED or anything else, CONFIRMED_UTC or anything else.
Statuses  == {"ACCEPTED", "OTHER"}
Qualities == {"CONFIRMED_UTC", "UNZONED_SOURCE_TEXT"}

CanonicalDecisions == {"CANONICAL_INITIAL", "CANONICAL_ADVANCED"}

Decisions == CanonicalDecisions \cup
             {"OUT_OF_ORDER", "DEFERRED_CROSS_SOURCE_POLICY",
              "INELIGIBLE_TIMESTAMP"}

\* Only an accepted snapshot whose source gave it a confirmed UTC time can
\* take part in the canonical sequence.
Eligible(candidate) ==
    /\ candidate.status = "ACCEPTED"
    /\ candidate.at # NoTimestamp
    /\ candidate.quality = "CONFIRMED_UTC"

\* Slips a change of the policy could make, for the configurations that check
\* that the properties notice them: no comparison of the sources; a tie of
\* effective times taken for a late snapshot.
DecideAcrossSources(candidate, rows) ==
    IF ~Eligible(candidate) THEN "INELIGIBLE_TIMESTAMP"
    ELSE IF rows = {} THEN "CANONICAL_INITIAL"
    ELSE IF \E row \in rows : candidate.at < row.at THEN "OUT_OF_ORDER"
    ELSE "CANONICAL_ADVANCED"

DecideTiesAreLate(candidate, rows) ==
    IF ~Eligible(candidate) THEN "INELIGIBLE_TIMESTAMP"
    ELSE IF rows = {} THEN "CANONICAL_INITIAL"
    ELSE IF \E row \in rows : row.source # candidate.source
         THEN "DEFERRED_CROSS_SOURCE_POLICY"
    ELSE IF \E row \in rows : candidate.at <= row.at THEN "OUT_OF_ORDER"
    ELSE "CANONICAL_ADVANCED"

Decide(candidate, rows) ==
    IF ~Eligible(candidate) THEN "INELIGIBLE_TIMESTAMP"
    ELSE IF rows = {} THEN "CANONICAL_INITIAL"
    ELSE IF \E row \in rows : row.source # candidate.source
         THEN "DEFERRED_CROSS_SOURCE_POLICY"
    ELSE IF \E row \in rows : candidate.at < row.at THEN "OUT_OF_ORDER"
    ELSE "CANONICAL_ADVANCED"
=============================================================================
