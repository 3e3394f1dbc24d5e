---------------------------- MODULE TestDatabase ----------------------------
(***************************************************************************)
(* The schema as the validation tools meet it: which tables there are and  *)
(* which foreign keys restrict a DELETE.  The rows of one fixture are      *)
(* represented by the set of tables that have any, because every tool      *)
(* deletes all the rows its fixture has in a table with one statement.     *)
(***************************************************************************)
EXTENDS Naturals, SequencesExt

Table == {"sources", "contests", "contest_external_ids", "contest_categories",
          "contest_category_external_ids", "entries", "raw_messages",
          "score_snapshots", "band_snapshots", "score_snapshot_flags",
          "canonical_score_events", "current_scores",
          "collector_source_contests", "collector_runs"}

\* <<child, parent>>.
ForeignKeys == {
    <<"contest_external_ids", "contests">>, <<"contest_external_ids", "sources">>,
    <<"contest_categories", "contests">>,
    <<"contest_category_external_ids", "contests">>,
    <<"contest_category_external_ids", "contest_categories">>,
    <<"contest_category_external_ids", "contest_external_ids">>,
    <<"entries", "contests">>, <<"entries", "contest_categories">>,
    <<"collector_source_contests", "sources">>,
    <<"collector_source_contests", "contests">>,
    <<"collector_source_contests", "contest_external_ids">>,
    <<"collector_runs", "collector_source_contests">>, <<"collector_runs", "sources">>,
    <<"raw_messages", "sources">>, <<"raw_messages", "contests">>,
    <<"raw_messages", "collector_source_contests">>, <<"raw_messages", "collector_runs">>,
    <<"score_snapshots", "entries">>, <<"score_snapshots", "sources">>,
    <<"score_snapshots", "raw_messages">>, <<"score_snapshots", "contest_categories">>,
    <<"band_snapshots", "score_snapshots">>, <<"score_snapshot_flags", "score_snapshots">>,
    <<"canonical_score_events", "score_snapshots">>,
    <<"current_scores", "canonical_score_events">>}

\* Those whose columns may be null.
Optional == {
    <<"entries", "contest_categories">>,
    <<"collector_source_contests", "contest_external_ids">>,
    <<"collector_runs", "collector_source_contests">>,
    <<"raw_messages", "contests">>, <<"raw_messages", "collector_source_contests">>,
    <<"raw_messages", "collector_runs">>, <<"score_snapshots", "contest_categories">>}

ReferentialIntegrity(rows) ==
    \A key \in ForeignKeys \ Optional : key[1] \in rows => key[2] \in rows

\* ON DELETE RESTRICT, for every key.
Restricted(rows, table) ==
    \E key \in ForeignKeys : key[2] = table /\ key[1] \in rows

\* Whether one of a sequence of DELETE statements is rejected.
Rejected(rows, order) ==
    \E i \in DOMAIN order :
        /\ order[i] \in rows
        /\ Restricted(rows \ {order[j] : j \in 1 .. i - 1}, order[i])

\* What they leave when none is.
Deleted(rows, order) == rows \ {order[i] : i \in DOMAIN order}
=============================================================================
