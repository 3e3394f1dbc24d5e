-------------------------- MODULE ValidationTools --------------------------
(***************************************************************************)
(* What the validation tools of tools/percona57-validation do, as data: the *)
(* rows each one seeds, the steps of its scenario with what it asserts of  *)
(* them, the order of its DELETE statements, and the tables it counts      *)
(* before it reports PASS.  Validation runs them.                          *)
(*                                                                         *)
(* Times are seconds after 11:00:00 of the day the tools have fixed their  *)
(* clocks to.  A mapping polled by a scenario has an interval of a minute. *)
(***************************************************************************)
EXTENDS TestDatabase, SingleSourcePolicy

CONSTANT Null       \* no next_poll_at, no mapping

\* Steps: an assertion about something read that nothing here changes; own
\* rows inserted; a request to the source; an observation ingested; own
\* RUNNING run; a polling cycle; a catalog synchronization, of which the first
\* needs the source; a recovery; an advisory lock taken and given back.
Check                == [op |-> "check"]
Empty                == [op |-> "empty"]
Malformed            == [op |-> "malformed"]
Insert(tables)       == [op |-> "insert", tables |-> tables]
Fetch                == [op |-> "fetch"]
Sync(tables)         == [op |-> "sync", tables |-> tables]
Ingest(entry, at, x) == [op |-> "ingest", entry |-> entry, at |-> at, expect |-> x]
StaleRun(at)         == [op |-> "stale", at |-> at]
Poll(at, x)          == [op |-> "poll", at |-> at, expect |-> x]
Recover(at, age, x)  == [op |-> "recover", at |-> at, age |-> age, expect |-> x]
Enable(interval)     == [op |-> "enable", interval |-> interval]
Hold                 == [op |-> "hold"]
Release              == [op |-> "release"]

NoMapping            == [enabled |-> FALSE, interval |-> Null, next |-> Null]
Every(interval)      == [enabled |-> TRUE, interval |-> interval, next |-> Null]

\* What one polled or ingested display score is stored in.
ScoreTables == {"raw_messages", "entries", "score_snapshots", "band_snapshots"}
Canonical   == {"canonical_score_events", "current_scores"}
Identified  == {"sources", "contests", "contest_external_ids", "collector_source_contests"}

\* Children of the entries of a contest, first what refers to their snapshots.
ScoreOrder == <<"current_scores", "score_snapshot_flags", "canonical_score_events",
                "band_snapshots", "score_snapshots">>

------------------------------------------------------------------------------
\* collector-polling-integration
Noon == 3600
Contention == 3720

PollingSeed == [rows |-> Identified, mapping |-> Every(60)]

CyclesOfOneMapping == <<Poll(Noon, "own"), Poll(Noon, "none")>>
CycleUnderContention == <<Hold, Poll(Contention, "locked"), Release>>

PollingSteps == CyclesOfOneMapping \o CycleUnderContention \o <<Check>>

PollingCleanup == ScoreOrder \o
    <<"raw_messages", "collector_runs", "collector_source_contests",
      "contest_category_external_ids", "entries", "contest_categories",
      "contest_external_ids", "contests", "sources">>

PollingCounts == {"sources", "contests", "contest_external_ids",
                  "collector_source_contests", "collector_runs", "raw_messages",
                  "score_snapshots"}
------------------------------------------------------------------------------
\* collector-runtime-integration: the stale run of 11:00 is recovered, the one
\* of 11:50 is behind a held lock, and a runtime of one cycle follows.
RuntimeStart == 3660
ThirtyDays == 2592000

RuntimeSeed == [rows |-> Identified, mapping |-> Every(60)]

AbandonedRun  == <<StaleRun(0), Recover(Noon, 60, "recovered"), Check>>
RunBehindLock == <<StaleRun(3000), Hold, Recover(Noon, 60, "skipped"), Release>>
FiniteRuntime == <<Recover(Noon, ThirtyDays, "any"), Poll(RuntimeStart, "any"), Check>>

RuntimeSteps == AbandonedRun \o RunBehindLock \o FiniteRuntime

RuntimeCleanup == ScoreOrder \o
    <<"raw_messages", "collector_runs", "collector_source_contests",
      "contest_category_external_ids", "entries", "contest_categories",
      "contest_external_ids", "contests", "sources">>

RuntimeCounts == {"sources", "contests", "collector_runs", "raw_messages",
                  "score_snapshots"}
------------------------------------------------------------------------------
\* contest-run-catalog-integration: two synchronizations, an operator's change
\* in between, and one that finds the discovery lock taken.
CatalogSeed == [rows |-> {"sources"}, mapping |-> NoMapping]

CatalogSteps ==
    <<Fetch, Sync({"contests", "contest_external_ids", "collector_source_contests"}),
      Enable(123), Sync({}), Hold, Check, Release, Check, Check>>

\* Slip: the contests of the fixture, which are not counted, are forgotten.
CatalogCleanupKeepsContests ==
    <<"collector_runs", "collector_source_contests", "contest_external_ids", "sources">>

CatalogCleanup ==
    <<"collector_runs", "collector_source_contests", "contest_external_ids",
      "contests", "sources">>

CatalogCounts == {"sources", "contest_external_ids", "collector_source_contests",
                  "collector_runs"}
------------------------------------------------------------------------------
\* contest-run-ingestion-integration: the same display score twice.
DisplayScoreSeed ==
    [rows |-> Identified, mapping |-> NoMapping]

FirstReceipt   == <<Fetch, Check, Insert(ScoreTables)>>
SecondReceipt  == <<Fetch, Check, Insert(ScoreTables), Check>>
ReceiptChecks  == <<Check>>
EvidenceChecks == <<Check>>

DisplayScoreSteps == FirstReceipt \o ReceiptChecks \o SecondReceipt \o ReceiptChecks
                     \o EvidenceChecks

DisplayScoreCleanup == ScoreOrder \o
    <<"raw_messages", "collector_runs", "collector_source_contests",
      "contest_category_external_ids", "entries", "contest_categories",
      "contest_external_ids", "contests", "sources">>

DisplayScoreCounts == {"sources", "contests", "contest_external_ids",
                       "collector_source_contests", "contest_categories", "entries",
                       "raw_messages", "score_snapshots", "collector_runs"}
------------------------------------------------------------------------------
\* collector-ingestion-integration: a receipt that cannot be parsed, then six
\* observations of two stations, seconds after 12:00:00.
IngestionSeed ==
    [rows |-> {"sources", "contests", "contest_categories"}, mapping |-> NoMapping]

FailedReceipt  == <<Insert({"raw_messages"}), Check>>
GrowingStation == <<Ingest("TEST1", 0, "CANONICAL_INITIAL"),
                    Ingest("TEST1", 60, "CANONICAL_ADVANCED"),
                    Ingest("TEST1", 60, "DUPLICATE")>>
ResetStation   == <<Ingest("DM7EE_TEST", 120, "CANONICAL_INITIAL"),
                    Ingest("DM7EE_TEST", 180, "CANONICAL_ADVANCED"),
                    Ingest("DM7EE_TEST", 150, "OUT_OF_ORDER")>>

IngestionSteps == FailedReceipt \o GrowingStation \o ResetStation

\* Slip: the raw messages go before the snapshots made of them.
IngestionCleanupRawFirst ==
    <<"raw_messages">> \o ScoreOrder \o
    <<"entries", "contest_categories", "contests", "sources">>

IngestionCleanup == ScoreOrder \o
    <<"raw_messages", "entries", "contest_categories", "contests", "sources">>

IngestionCounts == {"sources", "contests", "contest_categories", "entries",
                    "raw_messages", "score_snapshots"}
------------------------------------------------------------------------------
\* integration: its rows have fixed ids, need an empty database and stay.
ReferenceData ==
    <<Empty, Insert({"sources"}), Insert({"contests"}), Insert({"contest_categories"}),
      Insert({"entries"}), Insert({"raw_messages"})>>

SessionAndSchema == <<Check, Check>>
EntryCases       == <<Check, Check, Check>>
SnapshotCases    == <<Insert({"score_snapshots", "band_snapshots"}), Check, Check,
                      Insert({"score_snapshot_flags"})>>

\* The first statement of case J has a placeholder between quotes, so that it is
\* always rejected.
CanonicalCases   == <<Malformed, Insert(Canonical), Check>>
DeletionCase     == <<Check>>
LockCase         == <<Hold, Release>>
BatchCase        == <<Check>>

BehaviourSteps ==
    SessionAndSchema \o ReferenceData \o EntryCases \o SnapshotCases
    \o CanonicalCases \o DeletionCase \o LockCase \o BatchCase

\* preflight and index read; application-connectivity passes a lock from one of
\* its sessions to the other.
PreflightSteps    == <<Check, Check>>
SchemaSteps       == <<Check, Check>>
ConnectivitySteps == <<Check, Check, Hold, Check, Release, Hold, Release>>
=============================================================================
