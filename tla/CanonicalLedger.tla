--------------------------- MODULE CanonicalLedger ---------------------------
(***************************************************************************)
(* What the canonical score of an entry promises to its readers (the       *)
(* analytics that read canonical_score_events and the scoreboard that      *)
(* marks what current_scores names): per entry an append-only timeline of  *)
(* snapshots, extended by one indivisible decision at a time.  The         *)
(* decision is made against the last snapshot of the timeline itself;      *)
(* there are no transactions, locks or read views here.                    *)
(***************************************************************************)
EXTENDS SingleSourcePolicy, Sequences

CONSTANTS Entry, Snapshot, Observed

VARIABLES timeline,     \* [Entry -> Seq(Snapshot)]
          late          \* the snapshots diagnosed OUT_OF_ORDER

ledgerVars == <<timeline, late>>

\* The last row of an entry's timeline, as the policy wants it.
LastOf(e) ==
    IF Len(timeline[e]) = 0 THEN {}
    ELSE {Observed[timeline[e][Len(timeline[e])]]}

Verdict(s) == Decide(Observed[s], LastOf(Observed[s].entry))

OnTimeline(s) ==
    \E i \in DOMAIN timeline[Observed[s].entry] : timeline[Observed[s].entry][i] = s

\* The two writes a decision can call for.
AppendEvent(s) ==
    /\ ~OnTimeline(s)
    /\ timeline' = [timeline EXCEPT ![Observed[s].entry] = Append(@, s)]
    /\ UNCHANGED late

FlagLate(s) == late' = late \cup {s} /\ UNCHANGED timeline

Extend(s)   == Verdict(s) \in CanonicalDecisions /\ AppendEvent(s)
Diagnose(s) == Verdict(s) = "OUT_OF_ORDER" /\ FlagLate(s)

LedgerInit ==
    /\ timeline = [e \in Entry |-> <<>>]
    /\ late = {}

LedgerNext == \E s \in Snapshot : Extend(s) \/ Diagnose(s)

LedgerSpec == LedgerInit /\ [][LedgerNext]_ledgerVars
=============================================================================
