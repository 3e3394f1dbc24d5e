------------------------- MODULE Validation_proofs -------------------------
(***************************************************************************)
(* Theorems about the validation tools, for every number of faults and of  *)
(* kills and every clock of the catalog synchronization.                   *)
(*                                                                         *)
(* CleanInv carries the first: each cleanup lists every table that the     *)
(* seed and the steps of its tool write (SeedsCovered, StepsCovered), and  *)
(* what it has not deleted yet it still will, so that "cleaned" means      *)
(* empty.  SafeInv adds what the others need: no DELETE of a cleanup is    *)
(* rejected, because the tables are listed in the order of Rank, and a     *)
(* tool that is alone and undisturbed is on its plan, that is, its         *)
(* mapping, its runs and its timelines are what the next assertion of its  *)
(* scenario says.                                                          *)
(***************************************************************************)
EXTENDS Validation, FiniteSetTheorems, TLAPS

\* The fields of the tool, of a fixture.
Fields == {"name", "pc", "step", "own", "held", "cleaned", "on", "recovered", "shown",
           "todo", "passes", "lost", "result", "alone", "hits"}

FixtureFields == {"rows", "enabled", "interval", "next", "running", "discovery"}

\* The type of the variables, as far as what follows needs it.
Formed ==
    /\ DOMAIN tool = Fields
    /\ fixtures \in Seq(ToSet(fixtures))
    /\ \A k \in DOMAIN fixtures : DOMAIN fixtures[k] = FixtureFields
    /\ tool.step \in Nat \ {0}
    /\ tool.name \in Tools \cup {Null}
    /\ tool.own # Null => tool.own \in DOMAIN fixtures

\* What a step of a scenario does to the tool: it goes on to its next step or
\* leaves the scenario.
Goes(t) ==
    /\ DOMAIN t = Fields
    /\ t.name = tool.name /\ t.own = tool.own /\ t.cleaned = tool.cleaned
    /\ t.passes = tool.passes /\ t.result = tool.result

\* Going on to the next step leaves the tool what it owns.
LEMMA NextGoes ==
    ASSUME Formed, NEW t, Goes(t), t.step = tool.step
    PROVE  /\ Goes(NextStep(t)) /\ NextStep(t).pc = "scenario"
           /\ NextStep(t).step = tool.step + 1
BY DEF Goes, NextStep, Fields, Formed

\* So does an assertion, whether it holds or throws.
LEMMA ClaimGoes ==
    ASSUME Formed, NEW t, Goes(t), t.step = tool.step, NEW condition
    PROVE  /\ Goes(Claim(condition, t)) /\ Claim(condition, t).step \in Nat \ {0}
           /\ Claim(condition, t).pc \in {"scenario", "unlock"}
<1>1. tool.step \in Nat \ {0}
  BY DEF Formed
<1>2. CASE condition
  <2>1. Claim(condition, t) = NextStep(t)
    BY <1>2 DEF Claim
  <2> QED  BY <1>1, <2>1, NextGoes
<1>3. CASE ~condition
  <2>1. Claim(condition, t) = [t EXCEPT !.pc = "unlock"]
    BY <1>3 DEF Claim
  <2> QED  BY <1>1, <2>1 DEF Goes, Fields
<1> QED  BY <1>2, <1>3

\* A function on 1 .. n with values in S is a sequence of members of S.
LEMMA FunctionIsList ==
    ASSUME NEW S, NEW n \in Nat, NEW f \in [1 .. n -> S]
    PROVE  f \in Seq(S)
OBVIOUS

\* UPDATE of one fixture
LEMMA Updated ==
    ASSUME Formed, NEW k, NEW f, DOMAIN f = FixtureFields,
           fixtures' = [fixtures EXCEPT ![k] = f]
    PROVE  /\ DOMAIN fixtures' = DOMAIN fixtures
           /\ fixtures' \in Seq(ToSet(fixtures'))
           /\ \A j \in DOMAIN fixtures' : DOMAIN fixtures'[j] = FixtureFields
           /\ \A j \in DOMAIN fixtures : j # k => fixtures'[j] = fixtures[j]
           /\ k \in DOMAIN fixtures => fixtures'[k] = f
<1>1. /\ DOMAIN fixtures' = DOMAIN fixtures
      /\ \A j \in DOMAIN fixtures : j # k => fixtures'[j] = fixtures[j]
      /\ k \in DOMAIN fixtures => fixtures'[k] = f
  BY DEF Formed
<1>2. DOMAIN fixtures = 1 .. Len(fixtures) /\ Len(fixtures) \in Nat
  BY DEF Formed
<1>3. fixtures' \in Seq(ToSet(fixtures'))
  <2>1. PICK S : S = ToSet(fixtures')
    OBVIOUS
  <2>2. \A j \in 1 .. Len(fixtures) : fixtures'[j] \in S
    BY <1>1, <1>2, <2>1 DEF ToSet
  <2>3. fixtures' \in [1 .. Len(fixtures) -> S]
    BY <1>1, <1>2, <2>2
  <2>4. fixtures' \in Seq(S)
    BY <1>2, <2>3, FunctionIsList
  <2> QED  BY <2>1, <2>4
<1>4. \A j \in DOMAIN fixtures' : DOMAIN fixtures'[j] = FixtureFields
  <2> SUFFICES ASSUME NEW j \in DOMAIN fixtures PROVE DOMAIN fixtures'[j] = FixtureFields
    BY <1>1
  <2> QED  BY <1>1 DEF Formed
<1> QED  BY <1>1, <1>3, <1>4

\* The fixtures are the same and gain at most the tables X.
Grow(X) ==
    /\ DOMAIN fixtures' = DOMAIN fixtures
    /\ fixtures' \in Seq(ToSet(fixtures'))
    /\ \A j \in DOMAIN fixtures : DOMAIN fixtures'[j] = FixtureFields
    /\ \A j \in DOMAIN fixtures : fixtures'[j].rows \subseteq fixtures[j].rows \cup X

\* A step that leaves the fixtures alone.
LEMMA NothingGrows ==
    ASSUME Formed, UNCHANGED fixtures, NEW X
    PROVE  Grow(X)
BY DEF Formed, Grow

\* A step that adds rows to one fixture, or to none when there is no such fixture.
LEMMA UpdateGrows ==
    ASSUME Formed, NEW k, NEW X, NEW f, fixtures' = [fixtures EXCEPT ![k] = f],
           k \in DOMAIN fixtures =>
              DOMAIN f = FixtureFields /\ f.rows \subseteq fixtures[k].rows \cup X
    PROVE  Grow(X)
<1>1. CASE k \in DOMAIN fixtures
  <2>1. /\ DOMAIN fixtures' = DOMAIN fixtures
        /\ fixtures' \in Seq(ToSet(fixtures'))
        /\ \A j \in DOMAIN fixtures' : DOMAIN fixtures'[j] = FixtureFields
    BY <1>1, Updated
  <2>2. ASSUME NEW j \in DOMAIN fixtures PROVE fixtures'[j].rows \subseteq fixtures[j].rows \cup X
    <3>1. CASE j = k
      <4>1. fixtures'[j] = f
        BY <1>1, <3>1, Updated
      <4> QED  BY <1>1, <3>1, <4>1
    <3>2. CASE j # k
      <4>1. fixtures'[j] = fixtures[j]
        BY <1>1, <3>2, Updated
      <4> QED  BY <4>1
    <3> QED  BY <3>1, <3>2
  <2> QED  BY <2>1, <2>2 DEF Grow
<1>2. CASE k \notin DOMAIN fixtures
  <2>1. fixtures' = fixtures
    BY <1>2 DEF Formed
  <2> QED  BY <2>1, NothingGrows
<1> QED  BY <1>1, <1>2

\* The INSERT of a RUNNING run adds a row to collector_runs only.
LEMMA RunStartsGrows ==
    ASSUME Formed, NEW k, NEW at, RunStarts(k, at)
    PROVE  Grow({"collector_runs"})
<1> DEFINE f == [fixtures[k] EXCEPT !.rows = @ \cup {"collector_runs"}, !.running = @ \cup {at}]
<1>1. fixtures' = [fixtures EXCEPT ![k] = f]
  BY DEF RunStarts
<1>2. k \in DOMAIN fixtures =>
         DOMAIN f = FixtureFields /\ f.rows = fixtures[k].rows \cup {"collector_runs"}
  BY DEF Formed, FixtureFields
<1> HIDE DEF f
<1> QED  BY <1>1, <1>2, UpdateGrows

\* Finalizing a run adds rows to the tables given.
LEMMA EndsGrows ==
    ASSUME Formed, NEW k, NEW at, NEW tables, NEW next, Ends(k, at, tables, next)
    PROVE  Grow(tables)
<1> DEFINE f == [fixtures[k] EXCEPT !.rows = @ \cup tables, !.running = @ \ {at},
                                    !.discovery = @ \ {at}, !.next = next]
<1>1. fixtures' = [fixtures EXCEPT ![k] = f]
  BY DEF Ends
<1>2. k \in DOMAIN fixtures =>
         DOMAIN f = FixtureFields /\ f.rows = fixtures[k].rows \cup tables
  BY DEF Formed, FixtureFields
<1> HIDE DEF f
<1> QED  BY <1>1, <1>2, UpdateGrows
------------------------------------------------------------------------------
\* The tables a step of a scenario may write.
Writes(s) ==
    CASE s.op = "insert" -> s.tables
      [] s.op = "sync"   -> s.tables \cup {"collector_runs"}
      [] s.op = "poll"   -> ScoreTables \cup {"collector_runs"}
      [] s.op = "stale"  -> {"collector_runs"}
      [] s.op = "ingest" -> ScoreTables \cup {"score_snapshot_flags"} \cup Canonical
      [] OTHER           -> {}

\* Two lists together have the members of both.
LEMMA Covers ==
    ASSUME NEW S, NEW T, NEW first, NEW second, S \subseteq ToSet(first), T \subseteq ToSet(second),
           first \in Seq(S), second \in Seq(T)
    PROVE  ToSet(first \o second) = S \cup T
<1>1. first \o second \in Seq(S \cup T)
  OBVIOUS
<1>2. Len(first) \in Nat /\ Len(second) \in Nat /\ Len(first \o second) = Len(first) + Len(second)
  OBVIOUS
<1>3. ASSUME NEW x \in S PROVE x \in ToSet(first \o second)
  <2>1. PICK i \in 1 .. Len(first) : x = first[i]
    BY <1>3 DEF ToSet
  <2>2. (first \o second)[i] = x /\ i \in DOMAIN (first \o second)
    BY <2>1
  <2> QED  BY <2>2 DEF ToSet
<1>4. ASSUME NEW x \in T PROVE x \in ToSet(first \o second)
  <2>1. PICK i \in 1 .. Len(second) : x = second[i]
    BY <1>4 DEF ToSet
  <2>2. Len(first) + i \in 1 .. Len(first) + Len(second) /\ ~(Len(first) + i <= Len(first))
        /\ Len(first) + i - Len(first) = i
    BY <1>2
  <2>3. (first \o second)[Len(first) + i] = x /\ Len(first) + i \in DOMAIN (first \o second)
    BY <1>2, <2>1, <2>2
  <2> QED  BY <2>3 DEF ToSet
<1>5. ToSet(first \o second) \subseteq S \cup T
  BY <1>1 DEF ToSet
<1> QED  BY <1>3, <1>4, <1>5

\* What depends on a snapshot, and the snapshots.
Scores == {"current_scores", "score_snapshot_flags", "canonical_score_events",
           "band_snapshots", "score_snapshots"}

\* The first five DELETEs are those of the tables that depend on a snapshot.
LEMMA ScoreOrderCovers == ScoreOrder \in Seq(Scores) /\ Scores \subseteq ToSet(ScoreOrder)
BY DEF ScoreOrder, Scores, ToSet

\* The long cleanup deletes whatever a polling cycle may write.
LEMMA PollingCovers ==
    /\ ToSet(PollingCleanup) = Table \cap ToSet(PollingCleanup)
    /\ ScoreTables \cup Canonical \cup {"score_snapshot_flags", "collector_runs"}
          \cup Identified \subseteq ToSet(PollingCleanup)
<1> DEFINE rest == <<"raw_messages", "collector_runs", "collector_source_contests",
      "contest_category_external_ids", "entries", "contest_categories",
      "contest_external_ids", "contests", "sources">>
     R == {"raw_messages", "collector_runs", "collector_source_contests",
      "contest_category_external_ids", "entries", "contest_categories",
      "contest_external_ids", "contests", "sources"}
<1>1. rest \in Seq(R) /\ R \subseteq ToSet(rest)
  BY DEF ToSet
<1>2. ToSet(ScoreOrder \o rest) = Scores \cup R
  <2> HIDE DEF rest, R
  <2> QED  BY <1>1, ScoreOrderCovers, Covers
<1>3. PollingCleanup = ScoreOrder \o rest
  BY DEF PollingCleanup
<1> HIDE DEF rest
<1> QED  BY <1>2, <1>3 DEF Scores, Table, ScoreTables, Canonical, Identified

\* The tables that the cleanup of the catalog tool deletes.
LEMMA CatalogCovers ==
    ToSet(CatalogCleanup) = {"collector_runs", "collector_source_contests",
                             "contest_external_ids", "contests", "sources"}
BY DEF CatalogCleanup, ToSet

\* The cleanup of the ingestion tool deletes whatever an ingestion may write.
LEMMA IngestionCovers ==
    /\ ToSet(IngestionCleanup) \subseteq Table
    /\ ScoreTables \cup Canonical \cup {"score_snapshot_flags", "sources", "contests",
                                        "contest_categories"}
          \subseteq ToSet(IngestionCleanup)
<1> DEFINE rest == <<"raw_messages", "entries", "contest_categories", "contests", "sources">>
           R == {"raw_messages", "entries", "contest_categories", "contests", "sources"}
<1>1. rest \in Seq(R) /\ R \subseteq ToSet(rest)
  BY DEF ToSet
<1>2. ToSet(ScoreOrder \o rest) = Scores \cup R
  <2> HIDE DEF rest, R
  <2> QED  BY <1>1, ScoreOrderCovers, Covers
<1>3. IngestionCleanup = ScoreOrder \o rest
  BY DEF IngestionCleanup
<1> HIDE DEF rest
<1> QED  BY <1>2, <1>3 DEF Scores, Table, ScoreTables, Canonical

\* Nothing a tool writes in its seed is left out.
LEMMA SeedsCovered ==
    ASSUME NEW name \in Seeded
    PROVE  Seed[name].rows \subseteq ToSet(Cleanup[name])
<1>1. Identified \subseteq ToSet(PollingCleanup)
  BY PollingCovers
<1>2. RuntimeCleanup = PollingCleanup /\ DisplayScoreCleanup = PollingCleanup
  BY DEF RuntimeCleanup, PollingCleanup, DisplayScoreCleanup
<1>3. {"sources"} \subseteq ToSet(CatalogCleanup)
  BY CatalogCovers
<1>4. {"sources", "contests", "contest_categories"} \subseteq ToSet(IngestionCleanup)
  BY IngestionCovers
<1>5. /\ PollingSeed.rows = Identified /\ RuntimeSeed.rows = Identified
      /\ CatalogSeed.rows = {"sources"} /\ DisplayScoreSeed.rows = Identified
      /\ IngestionSeed.rows = {"sources", "contests", "contest_categories"}
  BY DEF PollingSeed, RuntimeSeed, CatalogSeed, DisplayScoreSeed, IngestionSeed
<1> QED  BY <1>1, <1>2, <1>3, <1>4, <1>5 DEF Seeded, Seed, Cleanup

\* What holds of the steps a list is made of holds of the list.
LEMMA ListWrites ==
    ASSUME NEW S, NEW list \in Seq(S), NEW X, \A s \in S : Writes(s) \subseteq X
    PROVE  /\ Len(list) \in Nat
           /\ \A i \in 1 .. Len(list) : Writes(list[i]) \subseteq X
OBVIOUS

\* collector-polling-integration deletes what its cycles write.
LEMMA PollingWrites ==
    /\ Len(PollingSteps) \in Nat
    /\ \A i \in 1 .. Len(PollingSteps) : Writes(PollingSteps[i]) \subseteq ToSet(PollingCleanup)
<1> DEFINE S == {Poll(Noon, "own"), Poll(Noon, "none"), Hold, Poll(Contention, "locked"), Release,
                 Check}
<1>1. PollingSteps \in Seq(S)
  BY DEF PollingSteps, CyclesOfOneMapping, CycleUnderContention
<1>2. \A s \in S : s.op \in {"poll", "hold", "release", "check"}
  BY DEF Poll, Hold, Release, Check
<1>3. \A s \in S : Writes(s) \subseteq ScoreTables \cup {"collector_runs"}
  BY <1>2 DEF Writes
<1> HIDE DEF S
<1> QED  BY <1>1, <1>3, PollingCovers, ListWrites

\* collector-runtime-integration deletes what its recoveries and its cycle write.
LEMMA RuntimeWrites ==
    /\ Len(RuntimeSteps) \in Nat
    /\ \A i \in 1 .. Len(RuntimeSteps) : Writes(RuntimeSteps[i]) \subseteq ToSet(RuntimeCleanup)
<1> DEFINE S == {StaleRun(0), Recover(Noon, 60, "recovered"), Check, StaleRun(3000), Hold,
                 Recover(Noon, 60, "skipped"), Release, Recover(Noon, ThirtyDays, "any"),
                 Poll(RuntimeStart, "any")}
<1>1. RuntimeSteps \in Seq(S)
  BY DEF RuntimeSteps, AbandonedRun, RunBehindLock, FiniteRuntime
<1>2. \A s \in S : s.op \in {"poll", "hold", "release", "check", "stale", "recover"}
  BY DEF Poll, Hold, Release, Check, StaleRun, Recover
<1>3. \A s \in S : Writes(s) \subseteq ScoreTables \cup {"collector_runs"}
  BY <1>2 DEF Writes
<1>4. RuntimeCleanup = PollingCleanup
  BY DEF RuntimeCleanup, PollingCleanup
<1> HIDE DEF S
<1> QED  BY <1>1, <1>3, <1>4, PollingCovers, ListWrites

\* contest-run-catalog-integration deletes what its synchronizations write.
LEMMA CatalogWrites ==
    /\ Len(CatalogSteps) \in Nat
    /\ \A i \in 1 .. Len(CatalogSteps) : Writes(CatalogSteps[i]) \subseteq ToSet(CatalogCleanup)
<1> DEFINE S == {Fetch, Sync({"contests", "contest_external_ids", "collector_source_contests"}),
                 Enable(123), Sync({}), Hold, Check, Release}
<1>1. CatalogSteps \in Seq(S)
  BY DEF CatalogSteps
<1>2. \A s \in S : \/ s.op \in {"fetch", "enable", "hold", "release", "check"}
                   \/ s.op = "sync" /\ s.tables \subseteq {"contests", "contest_external_ids",
                                                           "collector_source_contests"}
  BY DEF Fetch, Sync, Enable, Hold, Release, Check
<1>3. \A s \in S : Writes(s) \subseteq {"contests", "contest_external_ids",
                                        "collector_source_contests", "collector_runs"}
  BY <1>2 DEF Writes
<1> HIDE DEF S
<1> QED  BY <1>1, <1>3, CatalogCovers, ListWrites

\* contest-run-ingestion-integration deletes what its two receipts write.
LEMMA DisplayScoreWrites ==
    /\ Len(DisplayScoreSteps) \in Nat
    /\ \A i \in 1 .. Len(DisplayScoreSteps) :
           Writes(DisplayScoreSteps[i]) \subseteq ToSet(DisplayScoreCleanup)
<1> DEFINE S == {Fetch, Check, Insert(ScoreTables)}
<1>1. DisplayScoreSteps \in Seq(S)
  BY DEF DisplayScoreSteps, FirstReceipt, SecondReceipt, ReceiptChecks, EvidenceChecks
<1>2. \A s \in S : \/ s.op \in {"fetch", "check"}
                   \/ s.op = "insert" /\ s.tables = ScoreTables
  BY DEF Fetch, Check, Insert
<1>3. \A s \in S : Writes(s) \subseteq ScoreTables
  BY <1>2 DEF Writes
<1>4. DisplayScoreCleanup = PollingCleanup
  BY DEF DisplayScoreCleanup, PollingCleanup
<1> HIDE DEF S
<1> QED  BY <1>1, <1>3, <1>4, PollingCovers, ListWrites

\* collector-ingestion-integration deletes what its receipts write.
LEMMA IngestionWrites ==
    /\ Len(IngestionSteps) \in Nat
    /\ \A i \in 1 .. Len(IngestionSteps) :
           Writes(IngestionSteps[i]) \subseteq ToSet(IngestionCleanup)
<1> DEFINE S == {Insert({"raw_messages"}), Check,
                 Ingest("TEST1", 0, "CANONICAL_INITIAL"),
                 Ingest("TEST1", 60, "CANONICAL_ADVANCED"),
                 Ingest("TEST1", 60, "DUPLICATE"),
                 Ingest("DM7EE_TEST", 120, "CANONICAL_INITIAL"),
                 Ingest("DM7EE_TEST", 180, "CANONICAL_ADVANCED"),
                 Ingest("DM7EE_TEST", 150, "OUT_OF_ORDER")}
<1>1. IngestionSteps \in Seq(S)
  BY DEF IngestionSteps, FailedReceipt, GrowingStation, ResetStation
<1>2. \A s \in S : \/ s.op \in {"check", "ingest"}
                   \/ s.op = "insert" /\ s.tables = {"raw_messages"}
  BY DEF Ingest, Check, Insert
<1>3. \A s \in S : Writes(s) \subseteq ScoreTables \cup {"score_snapshot_flags"} \cup Canonical
  BY <1>2 DEF Writes, ScoreTables
<1> HIDE DEF S
<1> QED  BY <1>1, <1>3, IngestionCovers, ListWrites

\* Nothing a tool writes is left out by its cleanup.
LEMMA StepsCovered ==
    ASSUME NEW name \in Seeded
    PROVE  /\ Len(Steps[name]) \in Nat
           /\ \A i \in 1 .. Len(Steps[name]) : Writes(Steps[name][i]) \subseteq ToSet(Cleanup[name])
BY PollingWrites, RuntimeWrites, CatalogWrites, DisplayScoreWrites, IngestionWrites
   DEF Seeded, Steps, Cleanup
-----------------------------------------------------------------------------
\* Before the last statement of the cleanup: there may be rows.
Early == {"seed", "scenario", "polling", "syncing", "cleanup", "retry"}

\* The fixture of a tool has rows only in tables its cleanup deletes.
RowsCovered == tool.name \in Seeded => Rows \subseteq ToSet(Cleanup[tool.name])

\* A cycle and a synchronization are those of the step the tool is at.
InsideStep ==
    /\ tool.pc = "polling" => tool.step <= Len(Steps[tool.name]) /\ Step.op = "poll"
    /\ tool.pc = "syncing" => tool.step <= Len(Steps[tool.name]) /\ Step.op = "sync"

\* An order of the tables in which no one comes before a table that refers to it.
Rank == [current_scores |-> 1, score_snapshot_flags |-> 2, canonical_score_events |-> 3,
         band_snapshots |-> 4, score_snapshots |-> 5, raw_messages |-> 6,
         collector_runs |-> 7, collector_source_contests |-> 8,
         contest_category_external_ids |-> 9, entries |-> 10, contest_categories |-> 11,
         contest_external_ids |-> 12, contests |-> 13, sources |-> 14]

\* No statement of the list deletes from a table ranked after that of a later one.
Ascending(list) == \A i, j \in DOMAIN list : i <= j => Rank[list[i]] <= Rank[list[j]]

\* What a cleanup has not deleted yet, it still will, children first.
CleanupCovers ==
    tool.pc \in {"cleanup", "retry"} =>
        /\ tool.name \in Seeded
        /\ tool.todo \in Seq(Table)
        /\ Ascending(tool.todo)
        /\ Rows \subseteq ToSet(tool.todo)

\* Once cleaned is set, there are no rows and none are written any more.
CleanedIsEmpty == tool.cleaned => Rows = {} /\ tool.pc \notin Early

\* A tool can only pass after its cleanup.
PassIsClean ==
    /\ tool.pc = "verify" => tool.cleaned
    /\ tool.passes => /\ tool.pc \notin Early \cup {"verify"}
                      /\ tool.name \in Seeded => tool.cleaned

\* The inductive invariant of the first theorem.
CleanInv ==
    /\ Formed /\ RowsCovered /\ InsideStep
    /\ CleanupCovers /\ CleanedIsEmpty /\ PassIsClean /\ PassLeavesNothing

\* What a step of the scenario writes, the cleanup deletes.
LEMMA StepCovered ==
    ASSUME Formed, tool.step <= Len(Steps[tool.name]), tool.name \in Seeded
    PROVE  Writes(Step) \subseteq ToSet(Cleanup[tool.name])
<1>1. Len(Steps[tool.name]) \in Nat
  BY StepsCovered
<1>2. tool.step \in Nat \ {0}
  BY DEF Formed
<1>3. tool.step \in 1 .. Len(Steps[tool.name])
  BY <1>1, <1>2
<1> QED  BY <1>3, StepsCovered DEF Step

\* A step that leaves the tool its fixture and writes only what the cleanup deletes.
LEMMA StaysCovered ==
    ASSUME CleanInv, NEW X, Grow(X), Goes(tool'), tool'.step \in Nat \ {0},
           tool.name \in Seeded => X \subseteq ToSet(Cleanup[tool.name])
    PROVE  Formed' /\ RowsCovered'
<1>1. /\ DOMAIN tool' = Fields
      /\ tool'.name = tool.name /\ tool'.own = tool.own
  BY DEF Goes
<1>2. Formed
  BY DEF CleanInv
<1>3. Formed'
  BY <1>1, <1>2 DEF Formed, Grow
<1>4. RowsCovered'
  <2> SUFFICES ASSUME tool.name \in Seeded, tool.own # Null
               PROVE  fixtures'[tool.own].rows \subseteq ToSet(Cleanup[tool.name])
    BY <1>1 DEF RowsCovered, Rows, Own
  <2>1. fixtures[tool.own].rows \subseteq ToSet(Cleanup[tool.name])
    BY DEF CleanInv, RowsCovered, Rows, Own
  <2>2. tool.own \in DOMAIN fixtures
    BY <1>2 DEF Formed
  <2> QED  BY <2>1, <2>2 DEF Grow
<1> QED  BY <1>3, <1>4

\* A step of the scenario after which the tool is at another step, or gives up.
LEMMA ScenarioKeeps ==
    ASSUME CleanInv, NEW X, Grow(X), Goes(tool'), tool'.step \in Nat \ {0},
           tool.pc \in {"scenario", "polling", "syncing"},
           tool.name \in Seeded => X \subseteq ToSet(Cleanup[tool.name]),
           tool'.pc \in {"polling", "syncing"} => InsideStep',
           tool'.pc \in {"scenario", "unlock", "polling", "syncing"}
    PROVE  CleanInv'
<1>1. Formed' /\ RowsCovered'
  BY StaysCovered
<1>2. InsideStep'
  BY DEF InsideStep
<1>3. CleanupCovers'
  BY DEF CleanupCovers
<1>4. ~tool.cleaned /\ ~tool.passes
  BY DEF CleanInv, CleanedIsEmpty, PassIsClean, Early
<1>5. CleanedIsEmpty' /\ PassIsClean'
  BY <1>4 DEF CleanedIsEmpty, PassIsClean, Goes
<1>6. PassLeavesNothing'
  BY DEF PassLeavesNothing, Ended, At
<1> QED  BY <1>1, <1>2, <1>3, <1>5, <1>6 DEF CleanInv

\* A step that goes on to the next one.
LEMMA NextKeeps ==
    ASSUME CleanInv, NEW X, Grow(X), NEW t, Goes(t), t.step = tool.step, tool' = NextStep(t),
           tool.pc \in {"scenario", "polling", "syncing"},
           tool.name \in Seeded => X \subseteq ToSet(Cleanup[tool.name])
    PROVE  CleanInv'
<1>1. Formed
  BY DEF CleanInv
<1>2. Goes(tool') /\ tool'.pc = "scenario" /\ tool'.step = tool.step + 1
  BY <1>1, NextGoes
<1>3. tool'.step \in Nat \ {0}
  BY <1>1, <1>2 DEF Formed
<1> QED  BY <1>2, <1>3, ScenarioKeeps

\* A step with an assertion.
LEMMA ClaimKeeps ==
    ASSUME CleanInv, NEW X, Grow(X), NEW t, Goes(t), t.step = tool.step,
           NEW condition, tool' = Claim(condition, t),
           tool.pc \in {"scenario", "polling", "syncing"},
           tool.name \in Seeded => X \subseteq ToSet(Cleanup[tool.name])
    PROVE  CleanInv'
<1>1. Formed
  BY DEF CleanInv
<1>2. Goes(tool') /\ tool'.pc \in {"scenario", "unlock"} /\ tool'.step \in Nat \ {0}
  BY <1>1, ClaimGoes
<1> QED  BY <1>2, ScenarioKeeps

\* The tool as it is meets the condition of the two lemmas above.
LEMMA SelfGoes ==
    ASSUME Formed
    PROVE  Goes(tool)
BY DEF Formed, Goes
-----------------------------------------------------------------------------
\* A step that writes nothing writes nothing that would be left out.
LEMMA NothingWritten ==
    ASSUME Formed, UNCHANGED fixtures
    PROVE  Grow({}) /\ (tool.name \in Seeded => {} \subseteq ToSet(Cleanup[tool.name]))
BY NothingGrows

\* An assertion about what nothing here changes.
LEMMA CheckHoldsKeeps == ASSUME CleanInv, CheckHolds PROVE CleanInv'
<1>1. Formed
  BY DEF CleanInv
<1>2. tool.pc = "scenario" /\ tool' = NextStep(tool) /\ UNCHANGED fixtures
  BY DEF CheckHolds, Doing, At
<1> QED  BY <1>1, <1>2, NothingWritten, SelfGoes, NextKeeps

\* The precondition that there are no sources.
LEMMA CheckEmptyKeeps == ASSUME CleanInv, CheckEmpty PROVE CleanInv'
<1>1. Formed
  BY DEF CleanInv
<1> DEFINE condition == \A f \in ToSet(fixtures) : "sources" \notin f.rows
<1>2. tool.pc = "scenario" /\ tool' = Claim(condition, tool) /\ UNCHANGED fixtures
  BY DEF CheckEmpty, Doing, At
<1> HIDE DEF condition
<1> QED  BY <1>1, <1>2, NothingWritten, SelfGoes, ClaimKeeps

\* The statement that is always rejected.
LEMMA RejectMalformedKeeps == ASSUME CleanInv, RejectMalformed PROVE CleanInv'
<1>1. Formed
  BY DEF CleanInv
<1>2. /\ tool.pc = "scenario" /\ UNCHANGED fixtures
      /\ tool' = [tool EXCEPT !.pc = "unlock"]
  BY DEF RejectMalformed, Doing, At
<1>3. Goes(tool') /\ tool'.pc = "unlock" /\ tool'.step \in Nat \ {0}
  BY <1>1, <1>2 DEF Formed, Goes, Fields
<1> QED  BY <1>1, <1>2, <1>3, NothingWritten, ScenarioKeeps

\* An observation writes a subset of what the ingestion cleanup deletes.
LEMMA IngestObservationKeeps == ASSUME CleanInv, IngestObservation PROVE CleanInv'
<1>1. Formed
  BY DEF CleanInv
<1>2. tool.pc = "scenario" /\ tool.step <= Len(Steps[tool.name]) /\ Step.op = "ingest"
  BY DEF IngestObservation, Doing, At
<1>3. PICK answer, shown :
         /\ fixtures' = [fixtures EXCEPT ![tool.own].rows = @ \cup StoredIn(answer)]
         /\ tool' = Claim(answer = Step.expect, [tool EXCEPT !.shown = shown])
  BY DEF IngestObservation
<1> DEFINE X == ScoreTables \cup {"score_snapshot_flags"} \cup Canonical
<1>4. StoredIn(answer) \subseteq X
  BY DEF StoredIn, ScoreTables
<1>5. Writes(Step) = X
  BY <1>2 DEF Writes
<1> HIDE DEF X
<1>6. Grow(X)
  <2> DEFINE k == tool.own
             f == [fixtures[k] EXCEPT !.rows = @ \cup StoredIn(answer)]
  <2>1. fixtures' = [fixtures EXCEPT ![k] = f]
    BY <1>3
  <2>2. k \in DOMAIN fixtures =>
           DOMAIN f = FixtureFields /\ f.rows = fixtures[k].rows \cup StoredIn(answer)
    BY <1>1 DEF Formed, FixtureFields
  <2> HIDE DEF f, k
  <2> QED  BY <1>1, <1>4, <2>1, <2>2, UpdateGrows
<1>7. tool.name \in Seeded => X \subseteq ToSet(Cleanup[tool.name])
  BY <1>1, <1>2, <1>5, StepCovered
<1> DEFINE t == [tool EXCEPT !.shown = shown]
<1>8. Goes(t) /\ t.step = tool.step
  BY <1>1 DEF Formed, Goes, Fields
<1> DEFINE condition == answer = Step.expect
<1>9. tool' = Claim(condition, t)
  BY <1>3
<1> HIDE DEF t, condition
<1> QED  BY <1>2, <1>6, <1>7, <1>8, <1>9, ClaimKeeps

\* A polling cycle that has nothing to poll.
LEMMA CycleWithoutPollKeeps == ASSUME CleanInv, CycleWithoutPoll PROVE CleanInv'
<1>1. Formed
  BY DEF CleanInv
<1>2. PICK condition : /\ tool.pc = "scenario" /\ UNCHANGED fixtures
                       /\ tool' = Claim(condition, tool)
  BY DEF CycleWithoutPoll, Doing, At
<1> QED  BY <1>1, <1>2, NothingWritten, SelfGoes, ClaimKeeps

\* A run of a step that is allowed to write runs.
LEMMA RunsCovered ==
    ASSUME Formed, tool.step <= Len(Steps[tool.name]), Step.op \in {"poll", "sync", "stale"},
           tool.name \in Seeded
    PROVE  {"collector_runs"} \subseteq ToSet(Cleanup[tool.name])
<1>1. {"collector_runs"} \subseteq Writes(Step)
  BY DEF Writes
<1> QED  BY <1>1, StepCovered

\* A polling cycle starts its run, perhaps of the mapping of another fixture.
LEMMA CyclePollsKeeps == ASSUME CleanInv, CyclePolls PROVE CleanInv'
<1>1. Formed
  BY DEF CleanInv
<1>2. tool.pc = "scenario" /\ tool.step <= Len(Steps[tool.name]) /\ Step.op = "poll"
  BY DEF CyclePolls, Doing, At
<1>3. PICK k : RunStarts(k, Step.at) /\ tool' = [tool EXCEPT !.pc = "polling", !.on = k]
  BY DEF CyclePolls
<1>4. Grow({"collector_runs"})
  BY <1>1, <1>3, RunStartsGrows
<1>5. Goes(tool') /\ tool'.pc = "polling" /\ tool'.step = tool.step
  BY <1>1, <1>3 DEF Formed, Goes, Fields
<1>6. InsideStep'
  BY <1>2, <1>5 DEF InsideStep, Step, Goes
<1>7. tool'.step \in Nat \ {0}
  BY <1>1, <1>5 DEF Formed
<1>8. tool.name \in Seeded => {"collector_runs"} \subseteq ToSet(Cleanup[tool.name])
  BY <1>1, <1>2, RunsCovered
<1> QED  BY <1>2, <1>4, <1>5, <1>6, <1>7, <1>8, ScenarioKeeps

\* A polling cycle stores one display score.
LEMMA PollSucceedsKeeps == ASSUME CleanInv, PollSucceeds PROVE CleanInv'
<1>1. Formed
  BY DEF CleanInv
<1>2. tool.pc = "polling" /\ tool.step <= Len(Steps[tool.name]) /\ Step.op = "poll"
  BY DEF PollSucceeds, At, CleanInv, InsideStep
<1>3. PICK next, condition :
         /\ Ends(tool.on, Step.at, ScoreTables, next)
         /\ tool' = Claim(condition, tool)
  BY DEF PollSucceeds
<1>4. Grow(ScoreTables)
  BY <1>1, <1>3, EndsGrows
<1>5. tool.name \in Seeded => ScoreTables \subseteq ToSet(Cleanup[tool.name])
  <2>1. ScoreTables \subseteq Writes(Step)
    BY <1>2 DEF Writes
  <2> QED  BY <1>1, <1>2, <2>1, StepCovered
<1> QED  BY <1>1, <1>2, <1>3, <1>4, <1>5, SelfGoes, ClaimKeeps

\* A polling cycle fails.
LEMMA PollFailsKeeps == ASSUME CleanInv, PollFails PROVE CleanInv'
<1>1. Formed
  BY DEF CleanInv
<1> DEFINE t == [tool EXCEPT !.hits = @ + 1]
<1>2. PICK condition : tool.pc = "polling" /\ tool' = Claim(condition, t)
  BY DEF PollFails, At
<1>3. Grow({})
  <2>1. (\E next : Ends(tool.on, Step.at, {}, next)) \/ UNCHANGED fixtures
    BY DEF PollFails
  <2> QED  BY <1>1, <2>1, EndsGrows, NothingGrows
<1>4. Goes(t) /\ t.step = tool.step
  BY <1>1 DEF Formed, Goes, Fields
<1> HIDE DEF t
<1> QED  BY <1>2, <1>3, <1>4, ClaimKeeps

\* The tool inserts a RUNNING run of its own.
LEMMA InsertStaleRunKeeps == ASSUME CleanInv, InsertStaleRun PROVE CleanInv'
<1>1. Formed
  BY DEF CleanInv
<1>2. /\ tool.pc = "scenario" /\ tool.step <= Len(Steps[tool.name]) /\ Step.op = "stale"
      /\ RunStarts(tool.own, Step.at) /\ tool' = NextStep(tool)
  BY DEF InsertStaleRun, Doing, At
<1>3. Grow({"collector_runs"})
  BY <1>1, <1>2, RunStartsGrows
<1>4. tool.name \in Seeded => {"collector_runs"} \subseteq ToSet(Cleanup[tool.name])
  BY <1>1, <1>2, RunsCovered
<1> QED  BY <1>1, <1>2, <1>3, <1>4, SelfGoes, NextKeeps

\* A recovery finalizes a run, perhaps that of another fixture.
LEMMA RecoverRunKeeps == ASSUME CleanInv, RecoverRun PROVE CleanInv'
<1>1. Formed
  BY DEF CleanInv
<1>2. tool.pc = "scenario" /\ tool' = [tool EXCEPT !.recovered = @ + 1]
  BY DEF RecoverRun, Doing, At
<1>3. PICK k, at, next : Ends(k, at, {}, next)
  BY DEF RecoverRun
<1>4. Grow({})
  BY <1>1, <1>3, EndsGrows
<1>5. Goes(tool') /\ tool'.pc = "scenario" /\ tool'.step \in Nat \ {0}
  BY <1>1, <1>2 DEF Formed, Goes, Fields
<1> QED  BY <1>2, <1>4, <1>5, ScenarioKeeps

\* A recovery is over and what it did is asserted.
LEMMA RecoveryEndsKeeps == ASSUME CleanInv, RecoveryEnds PROVE CleanInv'
<1>1. Formed
  BY DEF CleanInv
<1> DEFINE t == [tool EXCEPT !.recovered = 0]
<1>2. PICK condition : /\ tool.pc = "scenario" /\ UNCHANGED fixtures
                       /\ tool' = Claim(condition, t)
  BY DEF RecoveryEnds, Doing, At
<1>3. Goes(t) /\ t.step = tool.step
  BY <1>1 DEF Formed, Goes, Fields
<1> HIDE DEF t
<1> QED  BY <1>1, <1>2, <1>3, NothingWritten, ClaimKeeps

\* A synchronization starts its run.
LEMMA SyncStartsKeeps == ASSUME CleanInv, SyncStarts PROVE CleanInv'
<1>1. Formed
  BY DEF CleanInv
<1>2. /\ tool.pc = "scenario" /\ tool.step <= Len(Steps[tool.name]) /\ Step.op = "sync"
      /\ tool' = [tool EXCEPT !.pc = "syncing"]
  BY DEF SyncStarts, Doing, At
<1>4. Grow({"collector_runs"})
  <2> DEFINE k == tool.own
  <2>1. PICK at : fixtures' = [fixtures EXCEPT ![k].rows = @ \cup {"collector_runs"},
                                               ![k].running = @ \cup {at},
                                               ![k].discovery = {at}]
    BY DEF SyncStarts
  <2> DEFINE f == [fixtures[k] EXCEPT !.rows = @ \cup {"collector_runs"},
                                      !.running = @ \cup {at}, !.discovery = {at}]
  <2>2. fixtures' = [fixtures EXCEPT ![k] = f]
    BY <2>1
  <2>3. k \in DOMAIN fixtures =>
           DOMAIN f = FixtureFields /\ f.rows = fixtures[k].rows \cup {"collector_runs"}
    BY <1>1 DEF Formed, FixtureFields
  <2> HIDE DEF f, k
  <2> QED  BY <1>1, <2>2, <2>3, UpdateGrows
<1>5. Goes(tool') /\ tool'.pc = "syncing" /\ tool'.step = tool.step
  BY <1>1, <1>2 DEF Formed, Goes, Fields
<1>6. InsideStep'
  BY <1>2, <1>5 DEF InsideStep, Step, Goes
<1>7. tool'.step \in Nat \ {0}
  BY <1>1, <1>5 DEF Formed
<1>8. tool.name \in Seeded => {"collector_runs"} \subseteq ToSet(Cleanup[tool.name])
  BY <1>1, <1>2, RunsCovered
<1> QED  BY <1>2, <1>4, <1>5, <1>6, <1>7, <1>8, ScenarioKeeps

\* A synchronization writes the catalog.
LEMMA SyncEndsKeeps == ASSUME CleanInv, SyncEnds PROVE CleanInv'
<1>1. Formed
  BY DEF CleanInv
<1>2. /\ tool.pc = "syncing" /\ tool.step <= Len(Steps[tool.name]) /\ Step.op = "sync"
      /\ tool' = NextStep(tool)
  BY DEF SyncEnds, At, CleanInv, InsideStep
<1>3. Grow(Step.tables)
  <2> DEFINE k == tool.own
             f == [fixtures[k] EXCEPT !.rows = @ \cup Step.tables, !.running = {},
                                      !.discovery = {}]
  <2>1. fixtures' = [fixtures EXCEPT ![k] = f]
    BY DEF SyncEnds
  <2>2. k \in DOMAIN fixtures =>
           DOMAIN f = FixtureFields /\ f.rows = fixtures[k].rows \cup Step.tables
    BY <1>1 DEF Formed, FixtureFields
  <2> HIDE DEF f, k
  <2> QED  BY <1>1, <2>1, <2>2, UpdateGrows
<1>4. tool.name \in Seeded => Step.tables \subseteq ToSet(Cleanup[tool.name])
  <2>1. Step.tables \subseteq Writes(Step)
    BY <1>2 DEF Writes
  <2> QED  BY <1>1, <1>2, <2>1, StepCovered
<1> QED  BY <1>1, <1>2, <1>3, <1>4, SelfGoes, NextKeeps

\* An operator enables the mapping.
LEMMA EnableMappingKeeps == ASSUME CleanInv, EnableMapping PROVE CleanInv'
<1>1. Formed
  BY DEF CleanInv
<1>2. tool.pc = "scenario" /\ tool' = NextStep(tool)
  BY DEF EnableMapping, Doing, At
<1>3. Grow({})
  <2> DEFINE k == tool.own
             f == [fixtures[k] EXCEPT !.enabled = TRUE, !.interval = Step.interval]
  <2>1. fixtures' = [fixtures EXCEPT ![k] = f]
    BY DEF EnableMapping
  <2>2. k \in DOMAIN fixtures => DOMAIN f = FixtureFields /\ f.rows = fixtures[k].rows
    BY <1>1 DEF Formed, FixtureFields
  <2> HIDE DEF f, k
  <2> QED  BY <1>1, <2>1, <2>2, UpdateGrows
<1> QED  BY <1>1, <1>2, <1>3, SelfGoes, NextKeeps

\* The lock of the scenario is taken or given back.
LEMMA LockKeeps == ASSUME CleanInv, HoldLock \/ ReleaseLock PROVE CleanInv'
<1>1. Formed
  BY DEF CleanInv
<1>2. /\ tool.pc = "scenario" /\ UNCHANGED fixtures
      /\ \E held : tool' = [NextStep(tool) EXCEPT !.held = held]
  BY DEF HoldLock, ReleaseLock, Doing, At
<1>3. Goes(NextStep(tool)) /\ NextStep(tool).pc = "scenario" /\ NextStep(tool).step = tool.step + 1
  BY <1>1, SelfGoes, NextGoes
<1>4. Goes(tool') /\ tool'.pc = "scenario" /\ tool'.step = tool.step + 1
  BY <1>2, <1>3 DEF Goes, Fields
<1>5. tool'.step \in Nat \ {0}
  BY <1>1, <1>4 DEF Formed
<1> QED  BY <1>1, <1>2, <1>4, <1>5, NothingWritten, ScenarioKeeps
-----------------------------------------------------------------------------
\* INSERT of a fixture
LEMMA Appended ==
    ASSUME Formed, NEW f, DOMAIN f = FixtureFields, fixtures' = Append(fixtures, f)
    PROVE  /\ Len(fixtures) \in Nat
           /\ DOMAIN fixtures' = 1 .. Len(fixtures) + 1
           /\ fixtures' \in Seq(ToSet(fixtures'))
           /\ \A k \in DOMAIN fixtures' : DOMAIN fixtures'[k] = FixtureFields
           /\ \A k \in DOMAIN fixtures : k \in DOMAIN fixtures' /\ fixtures'[k] = fixtures[k]
           /\ fixtures'[Len(fixtures) + 1] = f
<1>1. fixtures \in Seq(ToSet(fixtures))
  BY DEF Formed
<1>2. Len(fixtures) \in Nat /\ DOMAIN fixtures = 1 .. Len(fixtures)
  BY <1>1
<1>3. PICK S : S = ToSet(fixtures) \cup {f}
  OBVIOUS
<1>4. fixtures \in Seq(S) /\ f \in S
  BY <1>1, <1>3
<1>5. /\ DOMAIN fixtures' = 1 .. Len(fixtures) + 1
      /\ \A k \in DOMAIN fixtures : k \in DOMAIN fixtures' /\ fixtures'[k] = fixtures[k]
      /\ fixtures'[Len(fixtures) + 1] = f
  BY <1>2, <1>4
<1>6. ASSUME NEW k \in DOMAIN fixtures'
      PROVE  DOMAIN fixtures'[k] = FixtureFields
  <2>1. k = Len(fixtures) + 1 \/ k \in DOMAIN fixtures
    BY <1>2, <1>5
  <2> QED  BY <1>5, <2>1 DEF Formed
<1>7. fixtures' \in Seq(ToSet(fixtures'))
  <2>1. PICK T : T = ToSet(fixtures')
    OBVIOUS
  <2>2. PICK n \in Nat : n = Len(fixtures) + 1
    BY <1>2
  <2>3. \A k \in 1 .. n : fixtures'[k] \in T
    BY <1>5, <2>1, <2>2 DEF ToSet
  <2>4. PICK g : g = fixtures'
    OBVIOUS
  <2>5. g \in Seq(S) /\ DOMAIN g = 1 .. n /\ \A k \in 1 .. n : g[k] \in T
    BY <1>4, <1>5, <2>2, <2>3, <2>4
  <2>6. g \in [1 .. n -> T]
    <3>1. g = [k \in 1 .. n |-> g[k]]
      BY <2>5
    <3> QED  BY <2>5, <3>1
  <2>7. g \in Seq(T)
    BY <2>2, <2>6, FunctionIsList
  <2> QED  BY <2>1, <2>4, <2>7
<1> QED  BY <1>2, <1>5, <1>6, <1>7

\* The new fixture is the tool's own, or one it does not know of.
LEMMA AppendKeeps ==
    ASSUME CleanInv, NEW f, DOMAIN f = FixtureFields, fixtures' = Append(fixtures, f),
           tool.pc \in {"seed", "scenario"}, tool'.pc \in {"scenario", "unlock"},
           DOMAIN tool' = Fields, tool'.step \in Nat \ {0},
           tool'.name = tool.name, tool'.cleaned = tool.cleaned, tool'.passes = tool.passes,
           tool'.own \in {tool.own, Len(fixtures) + 1},
           tool.name \in Seeded => f.rows \subseteq ToSet(Cleanup[tool.name])
    PROVE  CleanInv'
<1>1. Formed
  BY DEF CleanInv
<1>2. /\ Len(fixtures) \in Nat
      /\ DOMAIN fixtures' = 1 .. Len(fixtures) + 1
      /\ fixtures' \in Seq(ToSet(fixtures'))
      /\ \A k \in DOMAIN fixtures' : DOMAIN fixtures'[k] = FixtureFields
      /\ \A k \in DOMAIN fixtures : k \in DOMAIN fixtures' /\ fixtures'[k] = fixtures[k]
      /\ fixtures'[Len(fixtures) + 1] = f
  BY <1>1, Appended
<1>3. tool'.own # Null => tool'.own \in DOMAIN fixtures'
  <2>1. CASE tool'.own = tool.own
    BY <1>1, <1>2, <2>1 DEF Formed
  <2>2. CASE tool'.own = Len(fixtures) + 1
    BY <1>2, <2>2
  <2> QED  BY <2>1, <2>2
<1>4. Formed'
  BY <1>1, <1>2, <1>3 DEF Formed
<1>5. RowsCovered'
  <2> SUFFICES ASSUME tool.name \in Seeded, tool'.own # Null
               PROVE  fixtures'[tool'.own].rows \subseteq ToSet(Cleanup[tool.name])
    BY DEF RowsCovered, Rows, Own
  <2>1. CASE tool'.own = Len(fixtures) + 1
    BY <1>2, <2>1
  <2>2. CASE tool'.own = tool.own
    <3>1. fixtures'[tool.own] = fixtures[tool.own]
      BY <1>1, <1>2, <2>2 DEF Formed
    <3>2. fixtures[tool.own].rows \subseteq ToSet(Cleanup[tool.name])
      BY <2>2 DEF CleanInv, RowsCovered, Rows, Own
    <3> QED  BY <2>2, <3>1, <3>2
  <2> QED  BY <2>1, <2>2
<1>6. InsideStep' /\ CleanupCovers'
  BY DEF InsideStep, CleanupCovers
<1>7. ~tool.cleaned /\ ~tool.passes
  BY DEF CleanInv, CleanedIsEmpty, PassIsClean, Early
<1>8. CleanedIsEmpty' /\ PassIsClean'
  BY <1>7 DEF CleanedIsEmpty, PassIsClean
<1>9. PassLeavesNothing'
  BY DEF PassLeavesNothing, Ended, At
<1> QED  BY <1>4, <1>5, <1>6, <1>8, <1>9 DEF CleanInv

\* A new fixture has the rows it was made with.
LEMMA NewFixtureFormed ==
    ASSUME NEW rows, NEW mapping
    PROVE  DOMAIN NewFixture(rows, mapping) = FixtureFields /\ NewFixture(rows, mapping).rows = rows
BY DEF NewFixture, FixtureFields

\* The seed, whether or not its answer is lost.
LEMMA SeedFixtureKeeps ==
    ASSUME CleanInv, SeedFixture \/ SeedAnswerLost
    PROVE  CleanInv'
<1>1. Formed
  BY DEF CleanInv
<1> DEFINE seed == Seed[tool.name]
           f == NewFixture(seed.rows, seed.mapping)
<1>2. tool.pc = "seed" /\ fixtures' = Append(fixtures, f)
  BY DEF SeedFixture, SeedAnswerLost, At
<1>3. /\ DOMAIN tool' = Fields /\ tool'.step \in Nat \ {0}
      /\ tool'.name = tool.name /\ tool'.cleaned = tool.cleaned /\ tool'.passes = tool.passes
      /\ tool'.own \in {tool.own, Len(fixtures) + 1} /\ tool'.pc \in {"scenario", "unlock"}
  BY <1>1 DEF SeedFixture, SeedAnswerLost, Formed, Fields
<1>4. DOMAIN f = FixtureFields /\ f.rows = seed.rows
  BY NewFixtureFormed
<1>5. tool.name \in Seeded => f.rows \subseteq ToSet(Cleanup[tool.name])
  BY <1>4, SeedsCovered
<1> HIDE DEF f
<1> QED  BY <1>2, <1>3, <1>4, <1>5, AppendKeeps

\* Rows inserted into the fixture, or the first rows of one.
LEMMA InsertRowsKeeps == ASSUME CleanInv, InsertRows PROVE CleanInv'
<1>1. Formed
  BY DEF CleanInv
<1>2. tool.pc = "scenario" /\ tool.step <= Len(Steps[tool.name]) /\ Step.op = "insert"
  BY DEF InsertRows, Doing, At
<1>3. tool.name \in Seeded => Step.tables \subseteq ToSet(Cleanup[tool.name])
  <2>1. Writes(Step) = Step.tables
    BY <1>2 DEF Writes
  <2> QED  BY <1>1, <1>2, <2>1, StepCovered
<1>4. CASE tool.own = Null
  <2> DEFINE f == NewFixture(Step.tables, NoMapping)
  <2>1. fixtures' = Append(fixtures, f) /\ tool' = [NextStep(tool) EXCEPT !.own = Len(fixtures) + 1]
    BY <1>4 DEF InsertRows
  <2>2. DOMAIN f = FixtureFields /\ f.rows = Step.tables
    BY NewFixtureFormed
  <2>3. /\ Goes(NextStep(tool)) /\ NextStep(tool).pc = "scenario"
        /\ NextStep(tool).step = tool.step + 1
    BY <1>1, SelfGoes, NextGoes
  <2>4. NextStep(tool).step \in Nat \ {0}
    BY <1>1, <2>3 DEF Formed
  <2>5. /\ DOMAIN tool' = Fields /\ tool'.step \in Nat \ {0}
        /\ tool'.name = tool.name /\ tool'.cleaned = tool.cleaned /\ tool'.passes = tool.passes
        /\ tool'.own = Len(fixtures) + 1 /\ tool'.pc = "scenario"
    BY <2>1, <2>3, <2>4 DEF Goes, Fields
  <2> HIDE DEF f
  <2> QED  BY <1>2, <1>3, <2>1, <2>2, <2>5, AppendKeeps
<1>5. CASE tool.own # Null
  <2> DEFINE k == tool.own
             f == [fixtures[k] EXCEPT !.rows = @ \cup Step.tables]
  <2>1. fixtures' = [fixtures EXCEPT ![k] = f] /\ tool' = NextStep(tool)
    BY <1>5 DEF InsertRows
  <2>2. k \in DOMAIN fixtures =>
           DOMAIN f = FixtureFields /\ f.rows = fixtures[k].rows \cup Step.tables
    BY <1>1 DEF Formed, FixtureFields
  <2> HIDE DEF f, k
  <2>3. Grow(Step.tables)
    BY <1>1, <2>1, <2>2, UpdateGrows
  <2> QED  BY <1>1, <1>2, <1>3, <2>1, <2>3, SelfGoes, NextKeeps
<1> QED  BY <1>4, <1>5

\* Every step of every scenario.
LEMMA ScenarioStepKeeps == ASSUME CleanInv, ScenarioStep PROVE CleanInv'
BY CheckHoldsKeeps, CheckEmptyKeeps, RejectMalformedKeeps, InsertRowsKeeps,
   IngestObservationKeeps, CycleWithoutPollKeeps, CyclePollsKeeps, PollSucceedsKeeps,
   InsertStaleRunKeeps, RecoverRunKeeps, RecoveryEndsKeeps, SyncStartsKeeps, SyncEndsKeeps,
   EnableMappingKeeps, LockKeeps
   DEF ScenarioStep
-----------------------------------------------------------------------------
\* A step that changes no fixture and keeps the tool's.
LEMMA NoWriteKeeps ==
    ASSUME CleanInv, UNCHANGED fixtures, DOMAIN tool' = Fields,
           tool'.step = tool.step, tool'.name = tool.name, tool'.own = tool.own
    PROVE  Formed' /\ RowsCovered' /\ Rows' = Rows
<1>1. Formed'
  BY DEF CleanInv, Formed
<1>2. Rows' = Rows
  BY DEF Rows, Own
<1> QED  BY <1>1, <1>2 DEF RowsCovered, CleanInv

\* A step to the end of the tool, or within its finally block.
LEMMA FinallyKeeps ==
    ASSUME CleanInv, UNCHANGED fixtures, DOMAIN tool' = Fields,
           tool'.step = tool.step, tool'.name = tool.name, tool'.own = tool.own,
           tool'.cleaned = tool.cleaned, tool'.passes \in {tool.passes, FALSE},
           tool'.pc \in {"unlock", "close", "destroy", "ended"},
           tool'.pc = "ended" => tool'.result \in {"FAIL", "KILLED"}
    PROVE  CleanInv'
<1>1. Formed' /\ RowsCovered' /\ Rows' = Rows
  BY NoWriteKeeps
<1>2. InsideStep' /\ CleanupCovers'
  BY DEF InsideStep, CleanupCovers
<1>3. CleanedIsEmpty'
  BY <1>1 DEF CleanInv, CleanedIsEmpty, Early
<1>4. PassIsClean'
  BY DEF CleanInv, PassIsClean, Early
<1>5. PassLeavesNothing'
  BY DEF PassLeavesNothing, Ended, At
<1> QED  BY <1>1, <1>2, <1>3, <1>4, <1>5 DEF CleanInv

\* Ranks are compared as numbers.
RankIsNumber == \A t \in Table : Rank[t] \in Nat

\* The rank of a table is a number.
LEMMA Ranks == RankIsNumber
BY DEF RankIsNumber, Rank, Table

\* Two lists in order are in order one after the other, if no rank of the first
\* is above one of the second.
LEMMA InOrder ==
    ASSUME NEW first \in Seq(Table), NEW second \in Seq(Table), NEW n \in Nat,
           Ascending(first), Ascending(second),
           \A i \in DOMAIN first : Rank[first[i]] <= n,
           \A i \in DOMAIN second : n <= Rank[second[i]]
    PROVE  Ascending(first \o second)
<1>0. PICK list : list = first \o second
  OBVIOUS
<1>1. PICK m : m = Len(first)
  OBVIOUS
<1>3. m \in Nat /\ list \in Seq(Table) /\ DOMAIN first = 1 .. m
      /\ DOMAIN second = 1 .. Len(second) /\ Len(second) \in Nat
      /\ DOMAIN list = 1 .. (m + Len(second))
  BY <1>0, <1>1
<1>4. \A i \in DOMAIN list : i <= m => i \in DOMAIN first /\ list[i] = first[i]
  BY <1>0, <1>1, <1>3
<1>5. \A i \in DOMAIN list : ~(i <= m) => i - m \in DOMAIN second /\ list[i] = second[i - m]
  BY <1>0, <1>1, <1>3
<1>2. ASSUME NEW i \in DOMAIN list, NEW j \in DOMAIN list, i <= j
      PROVE  Rank[list[i]] <= Rank[list[j]]
  <2>1. i \in Nat /\ j \in Nat
    BY <1>3
  <2>2. CASE j <= m
    BY <1>2, <1>3, <1>4, <2>1, <2>2 DEF Ascending
  <2>3. CASE ~(i <= m)
    <3>1. i - m <= j - m /\ ~(j <= m)
      BY <1>2, <1>3, <2>1, <2>3
    <3> QED  BY <1>5, <2>3, <3>1 DEF Ascending
  <2>4. CASE i <= m /\ ~(j <= m)
    <3>1. Rank[list[i]] <= n /\ n <= Rank[list[j]]
      BY <1>4, <1>5, <2>4
    <3>2. Rank[list[i]] \in Nat /\ Rank[list[j]] \in Nat
      BY <1>3, Ranks DEF RankIsNumber
    <3> QED  BY <3>1, <3>2
  <2> QED  BY <1>3, <2>1, <2>2, <2>3, <2>4
<1> QED  BY <1>0, <1>2 DEF Ascending

\* The five tables that depend on a snapshot come first, in order.
LEMMA ScoreOrderAscends ==
    ScoreOrder \in Seq(Table) /\ Ascending(ScoreOrder)
    /\ \A i \in DOMAIN ScoreOrder : Rank[ScoreOrder[i]] <= 6
BY DEF ScoreOrder, Table, Ascending, Rank

\* The cleanups delete rows of tables of the schema, in the order of Rank.
LEMMA CleanupListed ==
    ASSUME NEW name \in Seeded
    PROVE  Cleanup[name] \in Seq(Table) /\ Ascending(Cleanup[name])
<1> DEFINE long == <<"raw_messages", "collector_runs", "collector_source_contests",
                     "contest_category_external_ids", "entries", "contest_categories",
                     "contest_external_ids", "contests", "sources">>
           short == <<"raw_messages", "entries", "contest_categories", "contests", "sources">>
<1>1. long \in Seq(Table) /\ Ascending(long) /\ \A i \in DOMAIN long : 6 <= Rank[long[i]]
  <2>1. long \in Seq(Table)
    BY DEF Table
  <2>2. DOMAIN long = 1 .. 9 /\ \A i \in 1 .. 9 : Rank[long[i]] = i + 5
    BY DEF Rank
  <2> HIDE DEF long
  <2> QED  BY <2>1, <2>2 DEF Ascending
<1>2. short \in Seq(Table) /\ Ascending(short) /\ \A i \in DOMAIN short : 6 <= Rank[short[i]]
  BY DEF Table, Ascending, Rank
<1>3. PollingCleanup = ScoreOrder \o long /\ IngestionCleanup = ScoreOrder \o short
  BY DEF PollingCleanup, IngestionCleanup
<1> HIDE DEF long, short
<1>4. /\ PollingCleanup \in Seq(Table) /\ Ascending(PollingCleanup)
      /\ IngestionCleanup \in Seq(Table) /\ Ascending(IngestionCleanup)
  <2>1. ScoreOrder \in Seq(Table) /\ Ascending(ScoreOrder)
        /\ \A i \in DOMAIN ScoreOrder : Rank[ScoreOrder[i]] <= 6
    BY ScoreOrderAscends
  <2>2. Ascending(ScoreOrder \o long) /\ Ascending(ScoreOrder \o short)
    BY <1>1, <1>2, <2>1, InOrder
  <2>3. ScoreOrder \o long \in Seq(Table) /\ ScoreOrder \o short \in Seq(Table)
    BY <1>1, <1>2, <2>1
  <2> QED  BY <1>3, <2>2, <2>3
<1>5. CatalogCleanup \in Seq(Table) /\ Ascending(CatalogCleanup)
  BY DEF CatalogCleanup, Table, Ascending, Rank
<1>6. RuntimeCleanup = PollingCleanup /\ DisplayScoreCleanup = PollingCleanup
  BY DEF RuntimeCleanup, PollingCleanup, DisplayScoreCleanup
<1> QED  BY <1>4, <1>5, <1>6 DEF Seeded, Cleanup

\* Cleanup starts, in the scenario's end or in the finally block.
LEMMA CleanupStartKeeps ==
    ASSUME CleanInv, UNCHANGED fixtures, tool.name \in Seeded, ~tool.cleaned, ~tool.passes,
           tool'.pc \in {"cleanup", "retry"},
           tool' = [tool EXCEPT !.pc = tool'.pc, !.todo = Cleanup[tool.name]]
    PROVE  CleanInv'
<1>1. DOMAIN tool = Fields
  BY DEF CleanInv, Formed
<1>2. /\ DOMAIN tool' = Fields /\ tool'.step = tool.step /\ tool'.name = tool.name
      /\ tool'.own = tool.own /\ tool'.cleaned = tool.cleaned /\ tool'.passes = tool.passes
      /\ tool'.todo = Cleanup[tool.name]
  BY <1>1 DEF Fields
<1>3. Formed' /\ RowsCovered' /\ Rows' = Rows
  BY <1>2, NoWriteKeeps
<1>4. CleanupCovers'
  BY <1>2, <1>3, CleanupListed DEF CleanupCovers, CleanInv, RowsCovered
<1>5. InsideStep' /\ CleanedIsEmpty' /\ PassIsClean' /\ PassLeavesNothing'
  BY <1>2 DEF InsideStep, CleanedIsEmpty, PassIsClean, PassLeavesNothing, Ended, At
<1> QED  BY <1>3, <1>4, <1>5 DEF CleanInv

\* The scenario is over: the cleanup has everything to delete.
LEMMA ScenarioEndsKeeps == ASSUME CleanInv, ScenarioEnds PROVE CleanInv'
<1>1. DOMAIN tool = Fields /\ tool.pc = "scenario" /\ UNCHANGED fixtures
  BY DEF CleanInv, Formed, ScenarioEnds, At
<1>2. ~tool.cleaned /\ ~tool.passes
  BY <1>1 DEF CleanInv, CleanedIsEmpty, PassIsClean, Early
<1>3. CASE tool.name \in Seeded
  <2>1. tool' = [tool EXCEPT !.pc = "cleanup", !.todo = Cleanup[tool.name]]
    BY <1>3 DEF ScenarioEnds
  <2>2. tool'.pc = "cleanup"
    BY <1>1, <2>1 DEF Fields
  <2> QED  BY <1>1, <1>2, <1>3, <2>1, <2>2, CleanupStartKeeps
<1>4. CASE tool.name \notin Seeded
  <2>1. tool' = [tool EXCEPT !.pc = "unlock", !.passes = TRUE]
    BY <1>4 DEF ScenarioEnds
  <2>2. /\ DOMAIN tool' = Fields /\ tool'.step = tool.step /\ tool'.name = tool.name
        /\ tool'.own = tool.own /\ tool'.cleaned = tool.cleaned /\ tool'.pc = "unlock"
    BY <1>1, <2>1 DEF Fields
  <2>3. Formed' /\ RowsCovered' /\ Rows' = Rows
    BY <1>1, <2>2, NoWriteKeeps
  <2>4. /\ InsideStep' /\ CleanupCovers' /\ CleanedIsEmpty' /\ PassIsClean'
        /\ PassLeavesNothing'
    BY <1>2, <1>4, <2>2 DEF InsideStep, CleanupCovers, CleanedIsEmpty, PassIsClean, Early,
                            PassLeavesNothing, Ended, At
  <2> QED  BY <2>3, <2>4 DEF CleanInv
<1> QED  BY <1>3, <1>4

\* The finally block starts the cleanup again when it has not been done.
LEMMA CloseLockSessionKeeps == ASSUME CleanInv, CloseLockSession PROVE CleanInv'
<1>1. DOMAIN tool = Fields /\ tool.pc = "close" /\ UNCHANGED fixtures
  BY DEF CleanInv, Formed, CloseLockSession, At
<1>2. CASE tool.own # Null /\ tool.name \in Seeded /\ ~tool.cleaned
  <2>1. tool' = [tool EXCEPT !.pc = "retry", !.todo = Cleanup[tool.name]]
    BY <1>2 DEF CloseLockSession
  <2>2. tool'.pc = "retry"
    BY <1>1, <2>1 DEF Fields
  <2>3. ~tool.passes
    BY <1>2 DEF CleanInv, PassIsClean
  <2> QED  BY <1>1, <1>2, <2>1, <2>2, <2>3, CleanupStartKeeps
<1>3. CASE ~(tool.own # Null /\ tool.name \in Seeded /\ ~tool.cleaned)
  <2>1. tool' = [tool EXCEPT !.pc = "destroy"]
    BY <1>3 DEF CloseLockSession
  <2>2. /\ DOMAIN tool' = Fields /\ tool'.step = tool.step /\ tool'.name = tool.name
        /\ tool'.own = tool.own /\ tool'.cleaned = tool.cleaned /\ tool'.pc = "destroy"
        /\ tool'.passes = tool.passes
    BY <1>1, <2>1 DEF Fields
  <2> QED  BY <1>1, <2>2, FinallyKeeps
<1> QED  BY <1>2, <1>3

\* The last DELETE has been done: nothing is left.
LEMMA FixtureDeletedKeeps == ASSUME CleanInv, FixtureDeleted PROVE CleanInv'
<1>1. /\ DOMAIN tool = Fields /\ UNCHANGED fixtures
      /\ tool.pc \in {"cleanup", "retry"} /\ tool.todo = <<>>
      /\ tool' = [tool EXCEPT !.cleaned = TRUE,
                              !.pc = IF At("retry") THEN "destroy" ELSE "verify"]
  BY DEF CleanInv, Formed, FixtureDeleted
<1>2. Rows = {}
  <2>1. Rows \subseteq ToSet(tool.todo)
    BY <1>1 DEF CleanInv, CleanupCovers
  <2> QED  BY <1>1, <2>1 DEF ToSet
<1>3. /\ DOMAIN tool' = Fields /\ tool'.step = tool.step /\ tool'.name = tool.name
      /\ tool'.own = tool.own /\ tool'.cleaned /\ tool'.pc \in {"destroy", "verify"}
      /\ tool'.passes = tool.passes
  BY <1>1 DEF Fields
<1>4. Formed' /\ RowsCovered' /\ Rows' = Rows
  BY <1>1, <1>3, NoWriteKeeps
<1>5. ~tool.passes
  BY <1>1 DEF CleanInv, PassIsClean, Early
<1>6. /\ InsideStep' /\ CleanupCovers' /\ CleanedIsEmpty' /\ PassIsClean'
      /\ PassLeavesNothing'
  BY <1>2, <1>3, <1>4, <1>5 DEF InsideStep, CleanupCovers, CleanedIsEmpty, PassIsClean, Early,
                                PassLeavesNothing, Ended, At
<1> QED  BY <1>4, <1>6 DEF CleanInv

\* What is counted is empty, as is what is not counted.
LEMMA VerifyCleanKeeps == ASSUME CleanInv, VerifyClean PROVE CleanInv'
<1>1. /\ DOMAIN tool = Fields /\ UNCHANGED fixtures /\ tool.pc = "verify"
      /\ \E passes : tool' = [tool EXCEPT !.pc = "unlock", !.passes = passes]
  BY DEF CleanInv, Formed, VerifyClean, At
<1>2. /\ DOMAIN tool' = Fields /\ tool'.step = tool.step /\ tool'.name = tool.name
      /\ tool'.own = tool.own /\ tool'.cleaned = tool.cleaned /\ tool'.pc = "unlock"
  BY <1>1 DEF Fields
<1>3. Formed' /\ RowsCovered' /\ Rows' = Rows
  BY <1>1, <1>2, NoWriteKeeps
<1>4. tool.cleaned
  BY <1>1 DEF CleanInv, PassIsClean
<1>5. Rows = {}
  BY <1>4 DEF CleanInv, CleanedIsEmpty
<1>6. /\ InsideStep' /\ CleanupCovers' /\ CleanedIsEmpty' /\ PassIsClean'
      /\ PassLeavesNothing'
  BY <1>2, <1>3, <1>4, <1>5 DEF InsideStep, CleanupCovers, CleanedIsEmpty, PassIsClean, Early,
                                PassLeavesNothing, Ended, At
<1> QED  BY <1>3, <1>6 DEF CleanInv

\* PASS is reported only of a fixture that has been deleted.
LEMMA DestroyPoolKeeps == ASSUME CleanInv, DestroyPool PROVE CleanInv'
<1>1. /\ DOMAIN tool = Fields /\ UNCHANGED fixtures /\ tool.pc = "destroy"
      /\ tool' = [tool EXCEPT !.pc = "ended",
                              !.result = IF tool.passes THEN "PASS" ELSE "FAIL"]
  BY DEF CleanInv, Formed, DestroyPool, At
<1>2. /\ DOMAIN tool' = Fields /\ tool'.step = tool.step /\ tool'.name = tool.name
      /\ tool'.own = tool.own /\ tool'.cleaned = tool.cleaned /\ tool'.pc = "ended"
      /\ tool'.passes = tool.passes
      /\ tool'.result = IF tool.passes THEN "PASS" ELSE "FAIL"
  BY <1>1 DEF Fields
<1>3. Formed' /\ RowsCovered' /\ Rows' = Rows
  BY <1>1, <1>2, NoWriteKeeps
<1>4. InsideStep' /\ CleanupCovers' /\ CleanedIsEmpty' /\ PassIsClean'
  BY <1>2, <1>3 DEF InsideStep, CleanupCovers, CleanInv, CleanedIsEmpty, PassIsClean, Early
<1>5. PassLeavesNothing'
  <2> SUFFICES ASSUME tool'.result = "PASS", tool.name \in Seeded PROVE Rows = {}
    BY <1>2, <1>3 DEF PassLeavesNothing, Ended
  <2>1. tool.passes
    BY <1>2
  <2> QED  BY <2>1 DEF CleanInv, PassIsClean, CleanedIsEmpty
<1> QED  BY <1>3, <1>4, <1>5 DEF CleanInv

\* The other steps say only that the tool fails, or where it goes.
LEMMA FailuresKeep ==
    ASSUME CleanInv,
           GiveBackLock \/ GiveBackThrows \/ StatementFails \/ LockSessionLost \/ FinallyFails
              \/ Kill
    PROVE  CleanInv'
<1>1. DOMAIN tool = Fields /\ UNCHANGED fixtures
  BY DEF CleanInv, Formed, GiveBackLock, GiveBackThrows, StatementFails, LockSessionLost,
         FinallyFails, Kill
<1> DEFINE Fails ==
      /\ DOMAIN tool' = Fields /\ tool'.step = tool.step /\ tool'.name = tool.name
      /\ tool'.own = tool.own /\ tool'.cleaned = tool.cleaned
      /\ tool'.passes \in {tool.passes, FALSE}
      /\ tool'.pc \in {"unlock", "close", "destroy", "ended"}
      /\ tool'.pc = "ended" => tool'.result \in {"FAIL", "KILLED"}
<1>2. ASSUME GiveBackLock PROVE Fails
  <2>1. tool' = [tool EXCEPT !.held = FALSE, !.pc = "close"]
    BY <1>2 DEF GiveBackLock
  <2> QED  BY <1>1, <2>1 DEF Fields
<1>3. ASSUME GiveBackThrows PROVE Fails
  <2>1. tool' = [tool EXCEPT !.pc = "ended", !.result = "FAIL"]
    BY <1>3 DEF GiveBackThrows
  <2> QED  BY <1>1, <2>1 DEF Fields
<1>4. ASSUME StatementFails PROVE Fails
  <2>1. tool' = [tool EXCEPT !.pc = "unlock", !.hits = @ + 1]
    BY <1>4 DEF StatementFails
  <2> QED  BY <1>1, <2>1 DEF Fields
<1>5. ASSUME LockSessionLost PROVE Fails
  <2>1. tool' = [tool EXCEPT !.pc = "unlock", !.lost = @ \cup {"session"}, !.hits = @ + 1]
    BY <1>5 DEF LockSessionLost
  <2> QED  BY <1>1, <2>1 DEF Fields
<1>6. ASSUME FinallyFails PROVE Fails
  <2>1. \/ tool' = [tool EXCEPT !.pc = "destroy", !.passes = FALSE, !.hits = @ + 1]
        \/ tool' = [tool EXCEPT !.pc = "ended", !.result = "FAIL", !.hits = @ + 1]
    BY <1>6 DEF FinallyFails
  <2> QED  BY <1>1, <2>1 DEF Fields
<1>7. ASSUME Kill PROVE Fails
  <2>1. tool' = [tool EXCEPT !.pc = "ended", !.result = "KILLED"]
    BY <1>7 DEF Kill
  <2> QED  BY <1>1, <2>1 DEF Fields
<1>8. Fails
  BY <1>2, <1>3, <1>4, <1>5, <1>6, <1>7
<1> QED  BY <1>1, <1>8, FinallyKeeps

\* What is left of a list after its first statement covers what that leaves.
LEMMA RestCovers ==
    ASSUME NEW S, NEW list \in Seq(S), list # <<>>, NEW rows, rows \subseteq ToSet(list)
    PROVE  /\ SubSeq(list, 2, Len(list)) \in Seq(S)
           /\ Ascending(list) => Ascending(SubSeq(list, 2, Len(list)))
           /\ rows \ {Head(list)} \subseteq ToSet(SubSeq(list, 2, Len(list)))
<1>1. PICK n \in Nat : n = Len(list) /\ n >= 1
  OBVIOUS
<1>2. PICK rest : rest = SubSeq(list, 2, n)
  OBVIOUS
<1>3. /\ rest \in Seq(S) /\ Len(rest) = n - 1
      /\ \A i \in 1 .. n - 1 : rest[i] = list[i + 1]
  BY <1>1, <1>2
<1>4. ASSUME NEW x \in rows \ {Head(list)} PROVE x \in ToSet(rest)
  <2>1. PICK i \in 1 .. n : x = list[i]
    BY <1>1 DEF ToSet
  <2>2. i # 1
    BY <2>1
  <2>3. i - 1 \in 1 .. n - 1 /\ (i - 1) + 1 = i
    BY <1>1, <2>1, <2>2
  <2>4. rest[i - 1] = x /\ i - 1 \in DOMAIN rest
    BY <1>1, <1>3, <2>1, <2>3
  <2> QED  BY <2>4 DEF ToSet
<1>5. ASSUME Ascending(list) PROVE Ascending(rest)
  <2> SUFFICES ASSUME NEW i \in DOMAIN rest, NEW j \in DOMAIN rest, i <= j
               PROVE  Rank[rest[i]] <= Rank[rest[j]]
    BY DEF Ascending
  <2>1. /\ rest[i] = list[i + 1] /\ rest[j] = list[j + 1] /\ i + 1 <= j + 1
        /\ i + 1 \in DOMAIN list /\ j + 1 \in DOMAIN list
    BY <1>1, <1>3
  <2> QED  BY <1>5, <2>1 DEF Ascending
<1> QED  BY <1>1, <1>2, <1>3, <1>4, <1>5

\* A transaction deletes everything; a statement for itself, one table.
LEMMA StatementsCover ==
    ASSUME CleanInv, tool.pc \in {"cleanup", "retry"}, tool.todo # <<>>
    PROVE  LET left == SubSeq(tool.todo, Len(Statements) + 1, Len(tool.todo))
           IN  /\ left \in Seq(Table) /\ Ascending(left)
               /\ Deleted(Rows, Statements) \subseteq ToSet(left)
<1>1. tool.todo \in Seq(Table) /\ Ascending(tool.todo) /\ Rows \subseteq ToSet(tool.todo)
  BY DEF CleanInv, CleanupCovers
<1>2. CASE tool.name \in Transactional
  <2>1. Statements = tool.todo
    BY <1>2 DEF Statements
  <2>2. PICK left : left = SubSeq(tool.todo, Len(tool.todo) + 1, Len(tool.todo))
    OBVIOUS
  <2>4. left = <<>>
    BY <1>1, <2>2
  <2>5. left \in Seq(Table) /\ Ascending(left)
    BY <2>4 DEF Ascending
  <2>3. Deleted(Rows, tool.todo) = {}
    BY <1>1 DEF Deleted, ToSet
  <2> QED  BY <2>1, <2>2, <2>3, <2>5
<1>3. CASE tool.name \notin Transactional
  <2>1. Statements = <<Head(tool.todo)>> /\ Len(Statements) = 1
    BY <1>3 DEF Statements
  <2>2. Deleted(Rows, Statements) = Rows \ {Head(tool.todo)}
    BY <2>1 DEF Deleted
  <2>3. Len(Statements) + 1 = 2
    BY <2>1
  <2> QED  BY <1>1, <2>2, <2>3, RestCovers
<1> QED  BY <1>2, <1>3

\* A transaction of DELETEs, or one of them: what it leaves is still to be deleted.
LEMMA DeleteFixtureKeeps == ASSUME CleanInv, DeleteFixture PROVE CleanInv'
<1>1. /\ Formed /\ DOMAIN tool = Fields
      /\ tool.pc \in {"cleanup", "retry"} /\ tool.todo # <<>>
  BY DEF CleanInv, Formed, DeleteFixture
<1>2. CASE Rejected(Rows, Statements)
  <2>1. /\ UNCHANGED fixtures
        /\ \E result \in {"FAIL", tool.result} :
              \/ tool' = [tool EXCEPT !.pc = "ended", !.result = "FAIL"]
              \/ tool' = [tool EXCEPT !.pc = "unlock", !.result = @]
    BY <1>2 DEF DeleteFixture
  <2>2. /\ DOMAIN tool' = Fields /\ tool'.step = tool.step /\ tool'.name = tool.name
        /\ tool'.own = tool.own /\ tool'.cleaned = tool.cleaned /\ tool'.passes = tool.passes
        /\ tool'.pc \in {"unlock", "ended"}
        /\ tool'.pc = "ended" => tool'.result = "FAIL"
    BY <1>1, <2>1 DEF Fields
  <2> QED  BY <2>1, <2>2, FinallyKeeps
<1>3. CASE ~Rejected(Rows, Statements)
  <2> DEFINE left == Deleted(Rows, Statements)
             rest == SubSeq(tool.todo, Len(Statements) + 1, Len(tool.todo))
             k == tool.own
             f == [fixtures[k] EXCEPT
                     !.rows = left,
                     !.running = IF "collector_runs" \in left THEN @ ELSE {},
                     !.discovery = IF "collector_runs" \in left THEN @ ELSE {},
                     !.enabled = @ /\ "collector_source_contests" \in left]
  <2>1. tool' = [tool EXCEPT !.todo = rest] /\ fixtures' = [fixtures EXCEPT ![k] = f]
    BY <1>3 DEF DeleteFixture
  <2>2. k \in DOMAIN fixtures => DOMAIN f = FixtureFields /\ f.rows = left
    BY <1>1 DEF Formed, FixtureFields
  <2>3. rest \in Seq(Table) /\ Ascending(rest) /\ left \subseteq ToSet(rest)
    BY <1>1, StatementsCover
  <2>4. left \subseteq Rows
    BY DEF Deleted
  <2>5. k \notin DOMAIN fixtures => k = Null
    BY <1>1 DEF Formed
  <2> HIDE DEF left, rest, f
  <2>6. /\ DOMAIN tool' = Fields /\ tool'.step = tool.step /\ tool'.name = tool.name
        /\ tool'.own = k /\ tool'.cleaned = tool.cleaned /\ tool'.passes = tool.passes
        /\ tool'.pc = tool.pc /\ tool'.todo = rest
    BY <1>1, <2>1 DEF Fields
  <2>7. Grow({}) /\ (k \in DOMAIN fixtures => fixtures'[k].rows = left)
    <3>1. CASE k \in DOMAIN fixtures
      <4>1. f.rows \subseteq fixtures[k].rows \cup {}
        <5>1. fixtures[k].rows = Rows \/ k = Null
          BY DEF Rows, Own
        <5>2. k = Null => left = {}
          BY <2>4 DEF Rows
        <5> QED  BY <2>2, <2>4, <3>1, <5>1, <5>2
      <4>2. Grow({})
        BY <1>1, <2>1, <2>2, <3>1, <4>1, UpdateGrows
      <4>3. fixtures'[k] = f
        BY <1>1, <2>1, <2>2, <3>1, Updated
      <4> QED  BY <2>2, <3>1, <4>2, <4>3
    <3>2. CASE k \notin DOMAIN fixtures
      <4>1. Grow({})
        BY <1>1, <2>1, <3>2, UpdateGrows
      <4> QED  BY <3>2, <4>1
    <3> QED  BY <3>1, <3>2
  <2>8. Rows' \subseteq left
    <3>1. CASE k = Null
      BY <2>6, <3>1 DEF Rows
    <3>2. CASE k # Null
      BY <2>5, <2>6, <2>7, <3>2 DEF Rows, Own
    <3> QED  BY <3>1, <3>2
  <2>9. Formed'
    BY <1>1, <2>6, <2>7 DEF Formed, Grow
  <2>10. RowsCovered'
    BY <2>4, <2>6, <2>8 DEF RowsCovered, CleanInv
  <2>11. CleanupCovers'
    BY <1>1, <2>3, <2>6, <2>8 DEF CleanupCovers, CleanInv
  <2>12. InsideStep' /\ CleanedIsEmpty' /\ PassIsClean' /\ PassLeavesNothing'
    BY <1>1, <2>6 DEF InsideStep, CleanInv, CleanedIsEmpty, PassIsClean, Early,
                      PassLeavesNothing, Ended, At
  <2> QED  BY <2>9, <2>10, <2>11, <2>12 DEF CleanInv
<1> QED  BY <1>2, <1>3

\* Another tool starts; what the last one has deleted is forgotten.
LEMMA StartKeeps ==
    ASSUME CleanInv, NEW name \in Tools, Start(name)
    PROVE  CleanInv'
<1>1. Formed
  BY DEF CleanInv
<1>2. /\ fixtures' = LeftBehind
      /\ tool' = [NotRunning EXCEPT !.name = name, !.alone = (LeftBehind = <<>>),
                                    !.pc = IF name \in Seeded THEN "seed" ELSE "scenario"]
  BY DEF Start
<1>3. /\ DOMAIN tool' = Fields /\ tool'.step = 1 /\ tool'.name = name /\ tool'.own = Null
      /\ tool'.cleaned = FALSE /\ tool'.passes = FALSE /\ tool'.pc \in {"seed", "scenario"}
  BY <1>2 DEF NotRunning, Fields
<1>4. /\ fixtures' \in Seq(ToSet(fixtures'))
      /\ \A k \in DOMAIN fixtures' : DOMAIN fixtures'[k] = FixtureFields
  <2>1. CASE fixtures # <<>> /\ Last(fixtures).rows = {}
    <3>1. PICK S : S = ToSet(fixtures)
      OBVIOUS
    <3>2. fixtures \in Seq(S) /\ \A f \in S : DOMAIN f = FixtureFields
      BY <1>1, <3>1 DEF Formed, ToSet
    <3>3. PICK n \in Nat : n = Len(fixtures) /\ n >= 1
      BY <2>1, <3>2
    <3>4. PICK g : g = SubSeq(fixtures, 1, n - 1)
      OBVIOUS
    <3>5. fixtures' = g
      BY <1>2, <2>1, <3>3, <3>4 DEF LeftBehind, Front
    <3>6. g \in Seq(S)
      BY <3>2, <3>3, <3>4
    <3>7. Len(g) \in Nat /\ DOMAIN g = 1 .. Len(g) /\ \A k \in 1 .. Len(g) : g[k] \in S
      BY <3>6
    <3>8. g \in Seq(ToSet(g))
      <4>1. PICK T : T = ToSet(g)
        OBVIOUS
      <4>2. \A k \in 1 .. Len(g) : g[k] \in T
        BY <3>7, <4>1 DEF ToSet
      <4>3. g = [k \in 1 .. Len(g) |-> g[k]]
        BY <3>6
      <4>4. g \in [1 .. Len(g) -> T]
        BY <4>2, <4>3
      <4>5. g \in Seq(T)
        BY <3>7, <4>4, FunctionIsList
      <4> QED  BY <4>1, <4>5
    <3> QED  BY <3>2, <3>5, <3>7, <3>8
  <2>2. CASE ~(fixtures # <<>> /\ Last(fixtures).rows = {})
    <3>1. fixtures' = fixtures
      BY <1>2, <2>2 DEF LeftBehind
    <3> QED  BY <1>1, <3>1 DEF Formed
  <2> QED  BY <2>1, <2>2
<1>5. Formed'
  BY <1>3, <1>4 DEF Formed
<1>6. Rows' = {}
  BY <1>3 DEF Rows
<1>7. RowsCovered' /\ InsideStep' /\ CleanupCovers' /\ CleanedIsEmpty' /\ PassIsClean'
      /\ PassLeavesNothing'
  BY <1>3, <1>6 DEF RowsCovered, InsideStep, CleanupCovers, CleanedIsEmpty, PassIsClean,
                    PassLeavesNothing
<1> QED  BY <1>5, <1>7 DEF CleanInv

\* At first no tool has run.
LEMMA CleanInit == ValidationInit => CleanInv
<1> SUFFICES ASSUME ValidationInit PROVE CleanInv
  OBVIOUS
<1>1. fixtures = <<>> /\ tool = NotRunning
  BY DEF ValidationInit
<1>2. /\ DOMAIN tool = Fields /\ tool.step = 1 /\ tool.name = Null /\ tool.own = Null
      /\ tool.cleaned = FALSE /\ tool.passes = FALSE /\ tool.pc = "ended"
  BY <1>1 DEF NotRunning, Fields
<1>3. Formed
  BY <1>1, <1>2 DEF Formed
<1>4. Rows = {}
  BY <1>2 DEF Rows
<1> QED  BY <1>2, <1>3, <1>4 DEF CleanInv, RowsCovered, InsideStep, CleanupCovers,
                                 CleanedIsEmpty, PassIsClean, PassLeavesNothing

\* CleanInv is inductive.
LEMMA CleanNext == CleanInv /\ [ValidationNext]_validationVars => CleanInv'
<1> SUFFICES ASSUME CleanInv, [ValidationNext]_validationVars PROVE CleanInv'
  OBVIOUS
<1>1. CASE \E name \in Tools : Start(name)
  BY <1>1, StartKeeps
<1>2. CASE ToolStep
  BY <1>2, SeedFixtureKeeps, ScenarioStepKeeps, ScenarioEndsKeeps, DeleteFixtureKeeps,
     FixtureDeletedKeeps, VerifyCleanKeeps, FailuresKeep, CloseLockSessionKeeps,
     DestroyPoolKeeps DEF ToolStep
<1>3. CASE PollFails
  BY <1>3, PollFailsKeeps
<1>4. CASE StatementFails \/ LockSessionLost \/ FinallyFails \/ Kill
  BY <1>4, FailuresKeep
<1>5. CASE SeedAnswerLost
  BY <1>5, SeedFixtureKeeps
<1>6. CASE UNCHANGED validationVars
  BY <1>6 DEF validationVars, CleanInv, Formed, RowsCovered, InsideStep, CleanupCovers,
              CleanedIsEmpty, PassIsClean, PassLeavesNothing, Rows, Own, Step, Ended, At
<1> QED  BY <1>1, <1>2, <1>3, <1>4, <1>5, <1>6 DEF ValidationNext

\* PASS of a tool that owns a fixture means that no table has a row of it, although
\* none of the tools counts all the tables it writes: whatever was left behind by
\* others, killed before, or failed on the way.
THEOREM PassesLeaveNothing == ValidationSpec => []PassLeavesNothing
<1>1. CleanInv => PassLeavesNothing
  BY DEF CleanInv
<1> QED  BY <1>1, CleanInit, CleanNext, PTL DEF ValidationSpec
-----------------------------------------------------------------------------
\* The scenarios that assert something of what the services did, step by step.
PollingPlan ==
    LET f == fixtures[1]
    IN  /\ f.enabled /\ f.interval = 60
        /\ tool.pc = "polling" => tool.step = 1 /\ tool.on = 1
        /\ tool.pc # "syncing"
        /\ tool.step = 1 => f.next = Null
        /\ tool.step # 1 => f.next = 3660
        /\ tool.held <=> tool.step \in {4, 5}

RuntimePlan ==
    LET f == fixtures[1]
    IN  /\ f.enabled /\ f.interval = 60 /\ f.discovery = {}
        /\ tool.pc = "polling" => tool.step = 9 /\ tool.on = 1
        /\ tool.pc # "syncing"
        /\ tool.step = 1 => f.running = {} /\ tool.recovered = 0
        /\ tool.step = 2 => \/ f.running = {0} /\ tool.recovered = 0
                            \/ f.running = {} /\ tool.recovered = 1 /\ f.next = 3660
        /\ tool.step \in {3, 4} => f.running = {}
        /\ tool.step \in {5, 6, 7, 8} => f.running = {3000}
        /\ tool.step \in 3 .. 9 => f.next = 3660
        /\ tool.held <=> tool.step \in {6, 7}

IngestionPlan ==
    LET shown == tool.shown
    IN  /\ tool.pc = "scenario"
        /\ tool.step \in {1, 2, 3} => DOMAIN shown = {}
        /\ tool.step = 4 => DOMAIN shown = {"TEST1"} /\ shown["TEST1"] = 0
        /\ tool.step \in {5, 6} => DOMAIN shown = {"TEST1"} /\ shown["TEST1"] = 60
        /\ tool.step \in {7, 8} => "DM7EE_TEST" \in DOMAIN shown
        /\ tool.step = 7 => shown["DM7EE_TEST"] = 120
        /\ tool.step = 8 => shown["DM7EE_TEST"] = 180

\* The tool owns the only fixture, which is as the next assertion wants it.
OnPlan ==
    /\ tool.name \in Seeded => tool.own = 1 /\ DOMAIN fixtures = {1}
    /\ tool.name = "polling" => PollingPlan
    /\ tool.name = "runtime" => RuntimePlan
    /\ tool.name = "ingestion" => IngestionPlan

\* It started on an empty database and no fault has hit it.
Undisturbed == tool.alone /\ tool.hits = 0

\* It is on its plan, has not had to clean up twice, and is going to pass.
UndisturbedInv ==
    Undisturbed =>
        /\ tool.lost = {}
        /\ tool.pc = "seed" => /\ tool.name \in Seeded /\ fixtures = <<>>
                               /\ tool.step = 1 /\ ~tool.held /\ tool.recovered = 0
                               /\ DOMAIN tool.shown = {}
        /\ tool.pc \in {"scenario", "polling", "syncing"} => OnPlan
        /\ tool.pc # "retry"
        /\ tool.name # "behaviour" => /\ tool.pc \in {"unlock", "close", "destroy"} => tool.passes
                                      /\ ~Ended("FAIL")

\* The finally block gets as far as the pool only with an empty fixture.
DestroyedClean == tool.pc = "destroy" /\ tool.name \in Seeded => Rows = {}

\* Faults are counted.
HitsCounted == tool.hits \in Nat
-----------------------------------------------------------------------------
\* A table is ranked before the tables it refers to.
LEMMA ChildrenFirst == \A key \in ForeignKeys : Rank[key[1]] < Rank[key[2]]
BY DEF ForeignKeys, Rank

\* No DELETE of a cleanup meets a row that refers to what it deletes.
LEMMA NeverRejected ==
    ASSUME CleanInv, tool.pc \in {"cleanup", "retry"}, tool.todo # <<>>
    PROVE  ~Rejected(Rows, Statements)
<1> SUFFICES ASSUME NEW i \in DOMAIN Statements, NEW key \in ForeignKeys,
                    key[2] = Statements[i],
                    key[1] \in Rows \ {Statements[j] : j \in 1 .. i - 1}
             PROVE  FALSE
  BY DEF Rejected, Restricted
<1>1. /\ tool.todo \in Seq(Table) /\ Ascending(tool.todo) /\ Rows \subseteq ToSet(tool.todo)
  BY DEF CleanInv, CleanupCovers
<1>2. PICK j \in DOMAIN tool.todo : key[1] = tool.todo[j]
  BY <1>1 DEF ToSet
<1>3. Rank[key[1]] < Rank[key[2]]
  BY ChildrenFirst
<1>4. /\ i \in DOMAIN tool.todo /\ i <= j /\ key[2] = tool.todo[i]
  <2>1. CASE tool.name \in Transactional
    <3>1. Statements = tool.todo
      BY <2>1 DEF Statements
    <3>2. ~(j \in 1 .. i - 1)
      BY <1>2, <3>1
    <3> QED  BY <1>1, <1>2, <3>1, <3>2
  <2>2. CASE tool.name \notin Transactional
    <3>1. Statements = <<tool.todo[1]>> /\ 1 \in DOMAIN tool.todo
      BY <1>1, <2>2 DEF Statements
    <3>2. i = 1
      BY <3>1
    <3> QED  BY <1>1, <1>2, <3>1, <3>2
  <2> QED  BY <2>1, <2>2
<1>5. Rank[tool.todo[i]] <= Rank[tool.todo[j]]
  BY <1>2, <1>4, <1>1 DEF Ascending
<1>6. Rank[tool.todo[i]] \in Nat /\ Rank[tool.todo[j]] \in Nat
  BY <1>1, <1>2, <1>4, Ranks DEF RankIsNumber
<1> QED  BY <1>2, <1>3, <1>4, <1>5, <1>6

\* Of every tool, at every statement of its cleanup, in the finally block too: whatever
\* rows the fixture has at that moment, ON DELETE RESTRICT does not reject it.
THEOREM CleanupsAreAccepted ==
    ValidationSpec =>
        [](tool.pc \in {"cleanup", "retry"} /\ tool.todo # <<>> => ~Rejected(Rows, Statements))
<1>1. CleanInv => (tool.pc \in {"cleanup", "retry"} /\ tool.todo # <<>>
                      => ~Rejected(Rows, Statements))
  BY NeverRejected
<1> QED  BY <1>1, CleanInit, CleanNext, PTL DEF ValidationSpec

\* The steps of collector-polling-integration, by number.
LEMMA PollingList ==
    /\ Len(PollingSteps) = 6
    /\ PollingSteps[1] = Poll(Noon, "own") /\ PollingSteps[2] = Poll(Noon, "none")
    /\ PollingSteps[3] = Hold              /\ PollingSteps[4] = Poll(Contention, "locked")
    /\ PollingSteps[5] = Release           /\ PollingSteps[6] = Check
BY DEF PollingSteps, CyclesOfOneMapping, CycleUnderContention

\* The steps of collector-runtime-integration, by number.
LEMMA RuntimeList ==
    /\ Len(RuntimeSteps) = 10
    /\ RuntimeSteps[1] = StaleRun(0)    /\ RuntimeSteps[2] = Recover(Noon, 60, "recovered")
    /\ RuntimeSteps[3] = Check          /\ RuntimeSteps[4] = StaleRun(3000)
    /\ RuntimeSteps[5] = Hold           /\ RuntimeSteps[6] = Recover(Noon, 60, "skipped")
    /\ RuntimeSteps[7] = Release        /\ RuntimeSteps[8] = Recover(Noon, ThirtyDays, "any")
    /\ RuntimeSteps[9] = Poll(RuntimeStart, "any") /\ RuntimeSteps[10] = Check
BY DEF RuntimeSteps, AbandonedRun, RunBehindLock, FiniteRuntime

\* The steps of collector-ingestion-integration, by number.
LEMMA IngestionList ==
    /\ Len(IngestionSteps) = 8
    /\ IngestionSteps[1] = Insert({"raw_messages"}) /\ IngestionSteps[2] = Check
    /\ IngestionSteps[3] = Ingest("TEST1", 0, "CANONICAL_INITIAL")
    /\ IngestionSteps[4] = Ingest("TEST1", 60, "CANONICAL_ADVANCED")
    /\ IngestionSteps[5] = Ingest("TEST1", 60, "DUPLICATE")
    /\ IngestionSteps[6] = Ingest("DM7EE_TEST", 120, "CANONICAL_INITIAL")
    /\ IngestionSteps[7] = Ingest("DM7EE_TEST", 180, "CANONICAL_ADVANCED")
    /\ IngestionSteps[8] = Ingest("DM7EE_TEST", 150, "OUT_OF_ORDER")
BY DEF IngestionSteps, FailedReceipt, GrowingStation, ResetStation
-----------------------------------------------------------------------------
\* What no step of a scenario touches.
Same(t) ==
    /\ DOMAIN t = Fields
    /\ t.name = tool.name /\ t.own = tool.own
    /\ t.alone = tool.alone /\ t.hits = tool.hits /\ t.lost = tool.lost

\* Going on to the next step changes only where the tool is.
LEMMA NextSame ==
    ASSUME NEW t, Same(t)
    PROVE  /\ Same(NextStep(t)) /\ NextStep(t).pc = "scenario" /\ NextStep(t).step = t.step + 1
           /\ NextStep(t).held = t.held /\ NextStep(t).shown = t.shown
           /\ NextStep(t).recovered = t.recovered
BY DEF Same, NextStep, Fields

\* An assertion changes only where the tool is.
LEMMA ClaimSame ==
    ASSUME NEW t, Same(t), NEW condition
    PROVE  Same(Claim(condition, t)) /\ Claim(condition, t).pc \in {"scenario", "unlock"}
<1>1. CASE condition
  <2>1. Claim(condition, t) = NextStep(t)
    BY <1>1 DEF Claim
  <2> QED  BY <2>1, NextSame
<1>2. CASE ~condition
  <2>1. Claim(condition, t) = [t EXCEPT !.pc = "unlock"]
    BY <1>2 DEF Claim
  <2> QED  BY <2>1 DEF Same, Fields
<1> QED  BY <1>1, <1>2

\* With its one fixture, a scenario step keeps it the only one.
LEMMA ScenarioSame ==
    ASSUME CleanInv, ScenarioStep
    PROVE  /\ DOMAIN tool' = Fields /\ tool'.name = tool.name
           /\ tool'.alone = tool.alone /\ tool'.hits = tool.hits /\ tool'.lost = tool.lost
           /\ tool'.pc \in {"scenario", "polling", "syncing", "unlock"}
           /\ tool.own # Null => tool'.own = tool.own /\ DOMAIN fixtures' = DOMAIN fixtures
<1>1. Formed /\ DOMAIN tool = Fields
  BY DEF CleanInv, Formed
<1>2. /\ Same(tool) /\ \A shown : Same([tool EXCEPT !.shown = shown])
      /\ Same([tool EXCEPT !.recovered = 0])
  BY <1>1 DEF Same, Fields
<1> DEFINE Goal == /\ Same(tool') /\ DOMAIN fixtures' = DOMAIN fixtures
                   /\ tool'.pc \in {"scenario", "polling", "syncing", "unlock"}
<1>3. ASSUME CheckHolds \/ SyncEnds \/ EnableMapping \/ InsertStaleRun
      PROVE  Goal
  <2>1. tool' = NextStep(tool)
    BY <1>3 DEF CheckHolds, SyncEnds, EnableMapping, InsertStaleRun
  <2>2. DOMAIN fixtures' = DOMAIN fixtures
    BY <1>3 DEF CheckHolds, SyncEnds, EnableMapping, InsertStaleRun, RunStarts
  <2> QED  BY <1>2, <2>1, <2>2, NextSame
<1>4. ASSUME CheckEmpty \/ CycleWithoutPoll \/ PollSucceeds
      PROVE  Goal
  <2>1. \E condition : tool' = Claim(condition, tool)
    BY <1>4 DEF CheckEmpty, CycleWithoutPoll, PollSucceeds
  <2>2. DOMAIN fixtures' = DOMAIN fixtures
    BY <1>4 DEF CheckEmpty, CycleWithoutPoll, PollSucceeds, Ends
  <2> QED  BY <1>2, <2>1, <2>2, ClaimSame
<1>5. ASSUME IngestObservation PROVE Goal
  <2>1. PICK condition, shown : tool' = Claim(condition, [tool EXCEPT !.shown = shown])
    BY <1>5 DEF IngestObservation
  <2>2. DOMAIN fixtures' = DOMAIN fixtures
    BY <1>5 DEF IngestObservation
  <2> QED  BY <1>2, <2>1, <2>2, ClaimSame
<1>6. ASSUME RecoveryEnds PROVE Goal
  <2>1. \E condition : tool' = Claim(condition, [tool EXCEPT !.recovered = 0])
    BY <1>6 DEF RecoveryEnds
  <2> QED  BY <1>2, <1>6, <2>1, ClaimSame DEF RecoveryEnds
<1>7. ASSUME RejectMalformed \/ CyclePolls \/ RecoverRun \/ SyncStarts PROVE Goal
  <2>1. DOMAIN fixtures' = DOMAIN fixtures
    BY <1>7 DEF RejectMalformed, CyclePolls, RecoverRun, SyncStarts, RunStarts, Ends
  <2>2. \/ tool' = [tool EXCEPT !.pc = "unlock"]
        \/ \E k : tool' = [tool EXCEPT !.pc = "polling", !.on = k]
        \/ tool.pc = "scenario" /\ tool' = [tool EXCEPT !.recovered = @ + 1]
        \/ tool' = [tool EXCEPT !.pc = "syncing"]
    BY <1>7 DEF RejectMalformed, CyclePolls, RecoverRun, SyncStarts, Doing, At
  <2> QED  BY <1>1, <2>1, <2>2 DEF Same, Fields
<1>8. ASSUME HoldLock \/ ReleaseLock PROVE Goal
  <2>1. \E held : tool' = [NextStep(tool) EXCEPT !.held = held]
    BY <1>8 DEF HoldLock, ReleaseLock
  <2>2. Same(NextStep(tool)) /\ NextStep(tool).pc = "scenario"
    BY <1>2, NextSame
  <2> QED  BY <1>8, <2>1, <2>2 DEF HoldLock, ReleaseLock, Same, Fields
<1>9. CASE InsertRows
  <2>1. Same(NextStep(tool)) /\ NextStep(tool).pc = "scenario"
    BY <1>2, NextSame
  <2>2. CASE tool.own = Null
    <3>1. tool' = [NextStep(tool) EXCEPT !.own = Len(fixtures) + 1]
      BY <1>9, <2>2 DEF InsertRows
    <3> QED  BY <2>1, <2>2, <3>1 DEF Same, Fields
  <2>3. CASE tool.own # Null
    <3>1. tool' = NextStep(tool) /\ DOMAIN fixtures' = DOMAIN fixtures
      BY <1>9, <2>3 DEF InsertRows
    <3> QED  BY <2>1, <3>1 DEF Same
  <2> QED  BY <2>2, <2>3
<1>10. ASSUME Goal
       PROVE  /\ DOMAIN tool' = Fields /\ tool'.name = tool.name
              /\ tool'.alone = tool.alone /\ tool'.hits = tool.hits /\ tool'.lost = tool.lost
              /\ tool'.pc \in {"scenario", "polling", "syncing", "unlock"}
              /\ tool.own # Null => tool'.own = tool.own /\ DOMAIN fixtures' = DOMAIN fixtures
  BY <1>10 DEF Same
<1> HIDE DEF Goal
<1>11. ScenarioStep => Goal \/ InsertRows
  BY <1>3, <1>4, <1>5, <1>6, <1>7, <1>8 DEF ScenarioStep
<1> QED  BY <1>9, <1>10, <1>11
-----------------------------------------------------------------------------
\* The steps that cannot fail of themselves, in what Steps lists of the tools that have no other.
Quiet == {"fetch", "check", "insert", "sync", "enable", "hold", "release"}

\* The tools that have only such steps.
QuietTools == {"catalog", "displayscore", "preflight", "schema", "connectivity"}

\* What holds of the steps a list is made of holds of the list.
LEMMA ListQuiet ==
    ASSUME NEW S, NEW list \in Seq(S), \A s \in S : s.op \in Quiet
    PROVE  /\ Len(list) \in Nat
           /\ \A i \in 1 .. Len(list) : list[i].op \in Quiet
OBVIOUS

\* Five tools have only steps whose assertions nothing here could make wrong.
LEMMA QuietSteps ==
    ASSUME NEW name \in QuietTools
    PROVE  /\ Len(Steps[name]) \in Nat
           /\ \A i \in 1 .. Len(Steps[name]) : Steps[name][i].op \in Quiet
<1> DEFINE S == {Fetch, Sync({"contests", "contest_external_ids", "collector_source_contests"}),
                 Enable(123), Sync({}), Insert(ScoreTables), Hold, Check, Release}
<1>1. /\ CatalogSteps \in Seq(S) /\ DisplayScoreSteps \in Seq(S) /\ PreflightSteps \in Seq(S)
      /\ SchemaSteps \in Seq(S) /\ ConnectivitySteps \in Seq(S)
  BY DEF CatalogSteps, DisplayScoreSteps, FirstReceipt, SecondReceipt, ReceiptChecks,
         EvidenceChecks, PreflightSteps, SchemaSteps, ConnectivitySteps
<1>2. \A s \in S : s.op \in Quiet
  BY DEF Fetch, Sync, Enable, Insert, Hold, Check, Release, Quiet
<1>3. \A list \in Seq(S) : /\ Len(list) \in Nat
                           /\ \A i \in 1 .. Len(list) : list[i].op \in Quiet
  BY <1>2, ListQuiet
<1> HIDE DEF S
<1> QED  BY <1>1, <1>3 DEF Steps, QuietTools

\* The number of a step that is there.
LEMMA StepInList ==
    ASSUME Formed, Len(Steps[tool.name]) \in Nat, tool.step <= Len(Steps[tool.name])
    PROVE  tool.step \in 1 .. Len(Steps[tool.name])
BY DEF Formed

\* The scenarios of these tools go on.
LEMMA QuietGoesOn ==
    ASSUME CleanInv, tool.name \in QuietTools, ScenarioStep
    PROVE  tool'.pc \in {"scenario", "syncing"}
<1>1. Formed
  BY DEF CleanInv
<1>2. ASSUME tool.step <= Len(Steps[tool.name]) PROVE Step.op \in Quiet
  BY <1>1, <1>2, QuietSteps, StepInList DEF Step
<1>3. tool.pc # "polling"
  BY <1>2 DEF CleanInv, InsideStep, Quiet
<1>4. Same(tool)
  BY <1>1 DEF Formed, Same
<1>5. CASE CheckHolds \/ SyncEnds \/ EnableMapping
  <2>1. tool' = NextStep(tool)
    BY <1>5 DEF CheckHolds, SyncEnds, EnableMapping
  <2> QED  BY <1>4, <2>1, NextSame
<1>6. CASE SyncStarts
  BY <1>1, <1>6 DEF SyncStarts, Formed, Fields
<1>7. CASE HoldLock \/ ReleaseLock \/ InsertRows
  <2>1. \/ \E held : tool' = [NextStep(tool) EXCEPT !.held = held]
        \/ \E own : tool' = [NextStep(tool) EXCEPT !.own = own]
        \/ tool' = NextStep(tool)
    BY <1>7 DEF HoldLock, ReleaseLock, InsertRows
  <2>2. NextStep(tool).pc = "scenario" /\ DOMAIN NextStep(tool) = Fields
    BY <1>4, NextSame DEF Same
  <2> QED  BY <2>1, <2>2 DEF Fields
<1>8. ASSUME NEW op, Doing(op) PROVE op \in Quiet
  BY <1>2, <1>8 DEF Doing
<1>9. ~\E op \in {"empty", "malformed", "ingest", "poll", "stale", "recover"} : Doing(op)
  BY <1>8 DEF Quiet
<1>10. ~PollSucceeds
  BY <1>3 DEF PollSucceeds, At
<1> QED  BY <1>5, <1>6, <1>7, <1>9, <1>10
         DEF ScenarioStep, CheckEmpty, RejectMalformed, IngestObservation, CycleWithoutPoll,
             CyclePolls, InsertStaleRun, RecoverRun, RecoveryEnds
------------------------------------------------------------------------------
\* The only mapping is the first that is due, if it is.
LEMMA FirstOfOne ==
    ASSUME DOMAIN fixtures = {1}, NEW at
    PROVE  FirstDue(at) = IF Due(1, at) THEN {1} ELSE {}
BY DEF FirstDue

\* A run of the only fixture starts.
LEMMA RunStartsOne ==
    ASSUME Formed, DOMAIN fixtures = {1}, NEW at, RunStarts(1, at)
    PROVE  /\ DOMAIN fixtures' = {1}
           /\ fixtures'[1].enabled = fixtures[1].enabled
           /\ fixtures'[1].interval = fixtures[1].interval
           /\ fixtures'[1].next = fixtures[1].next
           /\ fixtures'[1].running = fixtures[1].running \cup {at}
           /\ fixtures'[1].discovery = fixtures[1].discovery
<1>1. DOMAIN fixtures[1] = FixtureFields
  BY DEF Formed
<1> QED  BY <1>1 DEF RunStarts, FixtureFields

\* A run of the only fixture is finalized.
LEMMA EndsOne ==
    ASSUME Formed, DOMAIN fixtures = {1}, NEW at, NEW tables, NEW next, Ends(1, at, tables, next)
    PROVE  /\ DOMAIN fixtures' = {1}
           /\ fixtures'[1].enabled = fixtures[1].enabled
           /\ fixtures'[1].interval = fixtures[1].interval
           /\ fixtures'[1].next = next
           /\ fixtures'[1].running = fixtures[1].running \ {at}
           /\ fixtures'[1].discovery = fixtures[1].discovery \ {at}
<1>1. DOMAIN fixtures[1] = FixtureFields
  BY DEF Formed
<1> QED  BY <1>1 DEF Ends, FixtureFields

\* What each kind of cycle asserts.
LEMMA ExpectedMeans ==
    ASSUME NEW polled, NEW outcome
    PROVE  /\ Step.expect = "own" => (Expected(polled, outcome) <=>
                                         polled = tool.own /\ outcome = "SUCCESS")
           /\ Step.expect = "none" => (Expected(polled, outcome) <=> polled = Null)
           /\ Step.expect = "locked" => (Expected(polled, outcome) <=> outcome = "LOCKED_BY_OTHER")
           /\ Step.expect = "any" => (Expected(polled, outcome) <=> polled # Null)
BY DEF Expected

\* An assertion that holds.
LEMMA ClaimIsNext ==
    ASSUME NEW condition, condition, NEW t
    PROVE  Claim(condition, t) = NextStep(t)
BY DEF Claim

\* Which step the polling tool is at.
LEMMA PollingAt ==
    ASSUME Formed, tool.name = "polling", tool.step <= Len(Steps[tool.name])
    PROVE  \/ tool.step = 1 /\ Step = Poll(Noon, "own")
           \/ tool.step = 2 /\ Step = Poll(Noon, "none")
           \/ tool.step = 3 /\ Step = Hold
           \/ tool.step = 4 /\ Step = Poll(Contention, "locked")
           \/ tool.step = 5 /\ Step = Release
           \/ tool.step = 6 /\ Step = Check
<1>1. Steps[tool.name] = PollingSteps
  BY DEF Steps
<1>2. tool.step \in 1 .. 6
  BY <1>1, PollingList DEF Formed
<1> QED  BY <1>1, <1>2, PollingList DEF Step
-----------------------------------------------------------------------------
\* Taking or giving back the lock.
LEMMA HeldSame ==
    ASSUME Same(tool), NEW held, tool' = [NextStep(tool) EXCEPT !.held = held]
    PROVE  /\ tool'.pc = "scenario" /\ tool'.step = tool.step + 1 /\ tool'.held = held
           /\ tool'.recovered = tool.recovered
<1>1. /\ NextStep(tool).pc = "scenario" /\ NextStep(tool).step = tool.step + 1
      /\ NextStep(tool).recovered = tool.recovered /\ DOMAIN NextStep(tool) = Fields
  BY NextSame DEF Same
<1> QED  BY <1>1 DEF Fields

\* A step after which the tool is at the next one, and the fixtures as they were.
LEMMA PollingMoves ==
    ASSUME PollingPlan, tool'.pc = "scenario", tool'.step = tool.step + 1,
           fixtures' = fixtures, tool.step \in {2, 3, 4, 5, 6},
           tool'.held <=> tool.step \in {3, 4}
    PROVE  tool'.pc = "scenario" /\ PollingPlan'
BY DEF PollingPlan

\* The polling tool, alone: its mapping is due at noon, polled, not due at noon again,
\* and due but locked two minutes later.
LEMMA PollingGoesOn ==
    ASSUME CleanInv, tool.name = "polling", OnPlan,
           tool.pc \in {"scenario", "polling", "syncing"}, ScenarioStep
    PROVE  tool'.pc \in {"scenario", "polling"} /\ PollingPlan'
<1>1. /\ Formed /\ PollingPlan /\ tool.own = 1 /\ DOMAIN fixtures = {1} /\ DOMAIN tool = Fields
      /\ Same(tool)
  BY DEF CleanInv, OnPlan, Formed, Seeded, Same
<1>2. ASSUME NEW op, Doing(op)
      PROVE  /\ tool.pc = "scenario" /\ Step.op = op
             /\ \/ tool.step = 1 /\ Step = Poll(Noon, "own")
                \/ tool.step = 2 /\ Step = Poll(Noon, "none")
                \/ tool.step = 3 /\ Step = Hold
                \/ tool.step = 4 /\ Step = Poll(Contention, "locked")
                \/ tool.step = 5 /\ Step = Release
                \/ tool.step = 6 /\ Step = Check
  BY <1>1, <1>2, PollingAt DEF Doing, At
<1>3. ASSUME NEW op, Doing(op) PROVE op \in {"poll", "hold", "release", "check"}
  BY <1>2, <1>3 DEF Poll, Hold, Release, Check
<1>4. CASE CheckHolds
  <2>1. tool.step = 6 /\ tool' = NextStep(tool) /\ fixtures' = fixtures
    BY <1>2, <1>3, <1>4 DEF CheckHolds, Poll, Hold, Release, Check
  <2>2. /\ tool'.held = tool.held /\ ~tool.held
        /\ tool'.pc = "scenario" /\ tool'.step = tool.step + 1
    BY <1>1, <2>1, NextSame DEF PollingPlan
  <2> QED  BY <1>1, <2>1, <2>2, PollingMoves
<1>5. CASE HoldLock
  <2>1. /\ tool.step = 3 /\ tool' = [NextStep(tool) EXCEPT !.held = TRUE]
        /\ fixtures' = fixtures
    BY <1>2, <1>5 DEF HoldLock, Poll, Hold, Release, Check
  <2>2. tool'.held /\ tool'.pc = "scenario" /\ tool'.step = tool.step + 1
    BY <1>1, <2>1, HeldSame
  <2> QED  BY <1>1, <2>1, <2>2, PollingMoves
<1>6. CASE ReleaseLock
  <2>1. /\ tool.step = 5 /\ tool' = [NextStep(tool) EXCEPT !.held = FALSE]
        /\ fixtures' = fixtures
    BY <1>2, <1>6 DEF ReleaseLock, Poll, Hold, Release, Check
  <2>2. ~tool'.held /\ tool'.pc = "scenario" /\ tool'.step = tool.step + 1
    BY <1>1, <2>1, HeldSame
  <2> QED  BY <1>1, <2>1, <2>2, PollingMoves
<1>7. \* What is due when.
      /\ tool.step = 1 => Due(1, Noon)
      /\ tool.step = 2 => ~Due(1, Noon)
      /\ tool.step = 4 => Due(1, Contention)
  BY <1>1, ValidationConstants DEF PollingPlan, Due, Noon, Contention
<1>8. CASE CycleWithoutPoll
  <2>1. /\ fixtures' = fixtures
        /\ \/ FirstDue(Step.at) = {} /\ tool' = Claim(Expected(Null, "NONE"), tool)
           \/ /\ FirstDue(Step.at) = {1} /\ tool.held
              /\ tool' = Claim(Expected(1, "LOCKED_BY_OTHER"), tool)
        /\ Doing("poll")
    BY <1>1, <1>8 DEF CycleWithoutPoll
  <2>2. \/ tool.step = 1 /\ Step.at = Noon /\ ~tool.held
        \/ tool.step = 2 /\ Step.at = Noon /\ Step.expect = "none" /\ ~tool.held
        \/ tool.step = 4 /\ Step.at = Contention /\ Step.expect = "locked" /\ tool.held
    BY <1>1, <1>2, <2>1 DEF Poll, Hold, Release, Check, PollingPlan
  <2>3. /\ tool.step # 1
        /\ tool' = NextStep(tool)
    BY <1>1, <1>7, <2>1, <2>2, FirstOfOne, ExpectedMeans, ClaimIsNext
  <2>4. tool'.held = tool.held /\ tool'.pc = "scenario" /\ tool'.step = tool.step + 1
    BY <1>1, <2>3, NextSame
  <2> QED  BY <1>1, <2>1, <2>2, <2>3, <2>4, PollingMoves
<1>9. CASE CyclePolls
  <2>1. PICK k \in FirstDue(Step.at) :
           /\ ~(k = tool.own /\ tool.held) /\ RunStarts(k, Step.at)
           /\ tool' = [tool EXCEPT !.pc = "polling", !.on = k] /\ Doing("poll")
    BY <1>9 DEF CyclePolls
  <2>2. k = 1 /\ Due(1, Step.at)
    BY <1>1, <2>1, FirstOfOne
  <2>3. \/ tool.step = 1 /\ Step.at = Noon
        \/ tool.step = 2 /\ Step.at = Noon
        \/ tool.step = 4 /\ tool.held
    BY <1>1, <1>2, <2>1 DEF Poll, Hold, Release, Check, PollingPlan
  <2>4. tool.step = 1
    BY <1>1, <1>7, <2>1, <2>2, <2>3
  <2>5. tool'.pc = "polling" /\ tool'.on = 1 /\ tool'.step = 1 /\ tool'.held = tool.held
    BY <1>1, <2>1, <2>2, <2>4 DEF Fields
  <2>6. /\ fixtures'[1].enabled = fixtures[1].enabled /\ fixtures'[1].next = fixtures[1].next
        /\ fixtures'[1].interval = fixtures[1].interval
    BY <1>1, <2>1, <2>2, RunStartsOne
  <2> QED  BY <1>1, <2>4, <2>5, <2>6 DEF PollingPlan
<1>10. CASE PollSucceeds
  <2>1. tool.pc = "polling" /\ tool.step = 1 /\ tool.on = 1
    BY <1>1, <1>10 DEF PollSucceeds, At, PollingPlan
  <2>2. Step = Poll(Noon, "own")
    BY <1>1, <2>1, PollingAt DEF CleanInv, InsideStep
  <2>3. Step.at = 3600 /\ Step.expect = "own"
    BY <2>2 DEF Poll, Noon
  <2>4. /\ Ends(1, 3600, ScoreTables, 3600 + fixtures[1].interval)
        /\ tool' = Claim(Expected(1, "SUCCESS"), tool)
    BY <1>10, <2>1, <2>3 DEF PollSucceeds
  <2>5. tool' = NextStep(tool)
    BY <1>1, <2>3, <2>4, ExpectedMeans, ClaimIsNext
  <2>6. tool'.pc = "scenario" /\ tool'.step = 2 /\ tool'.held = tool.held
    BY <1>1, <2>1, <2>5, NextSame
  <2>7. PICK next : next = 3600 + fixtures[1].interval
    OBVIOUS
  <2>8. /\ fixtures'[1].enabled = fixtures[1].enabled /\ fixtures'[1].next = next
        /\ fixtures'[1].interval = fixtures[1].interval
    BY <1>1, <2>4, <2>7, EndsOne
  <2>9. next = 3660
    BY <1>1, <2>7 DEF PollingPlan
  <2> QED  BY <1>1, <2>1, <2>6, <2>8, <2>9 DEF PollingPlan
<1>11. ~SyncEnds
  BY <1>1 DEF SyncEnds, At, PollingPlan
<1>12. ~\E op \in {"empty", "malformed", "insert", "ingest", "stale", "recover", "sync", "enable"} :
           Doing(op)
  BY <1>3
<1> QED  BY <1>12, <1>4, <1>5, <1>6, <1>8, <1>9, <1>10, <1>11
         DEF ScenarioStep, CheckEmpty, RejectMalformed, InsertRows, IngestObservation,
             InsertStaleRun, RecoverRun, RecoveryEnds, SyncStarts, EnableMapping
-----------------------------------------------------------------------------
\* Which step the runtime tool is at.
LEMMA RuntimeAt ==
    ASSUME Formed, tool.name = "runtime", tool.step <= Len(Steps[tool.name])
    PROVE  \/ tool.step = 1 /\ Step = StaleRun(0)
           \/ tool.step = 2 /\ Step = Recover(Noon, 60, "recovered")
           \/ tool.step = 3 /\ Step = Check
           \/ tool.step = 4 /\ Step = StaleRun(3000)
           \/ tool.step = 5 /\ Step = Hold
           \/ tool.step = 6 /\ Step = Recover(Noon, 60, "skipped")
           \/ tool.step = 7 /\ Step = Release
           \/ tool.step = 8 /\ Step = Recover(Noon, ThirtyDays, "any")
           \/ tool.step = 9 /\ Step = Poll(RuntimeStart, "any")
           \/ tool.step = 10 /\ Step = Check
<1>1. Steps[tool.name] = RuntimeSteps
  BY DEF Steps
<1>2. tool.step \in 1 .. 10
  BY <1>1, RuntimeList DEF Formed
<1> QED  BY <1>1, <1>2, RuntimeList DEF Step

\* The stale runs of the only fixture.
LEMMA StaleOfOne ==
    ASSUME Formed, DOMAIN fixtures = {1}
    PROVE  Stale = {<<1, at>> : at \in {r \in fixtures[1].running : r + Step.age <= Step.at}}
<1>1. ToSet(fixtures) = {fixtures[1]}
  BY DEF ToSet
<1>2. UNION {f.running : f \in ToSet(fixtures)} = fixtures[1].running
  BY <1>1
<1> QED  BY <1>2 DEF Stale

\* One RUNNING run that is old enough is one stale run.
LEMMA OneStale ==
    ASSUME Formed, DOMAIN fixtures = {1}, NEW at,
           {r \in fixtures[1].running : r + Step.age <= Step.at} = {at}
    PROVE  Cardinality(Stale) = 1
<1>1. Stale = {<<1, at>>}
  BY StaleOfOne
<1>2. Cardinality({<<1, at>>}) = 1
  BY FS_Singleton, Zenon
<1> QED  BY <1>1, <1>2

\* A step after which the tool is at the next one, and the fixtures as they were.
LEMMA RuntimeMoves ==
    ASSUME RuntimePlan, tool'.pc = "scenario", tool'.step = tool.step + 1,
           fixtures' = fixtures, tool.step \in {3, 5, 6, 7, 8, 10},
           tool'.held <=> tool.step \in {5, 6}
    PROVE  tool'.pc = "scenario" /\ RuntimePlan'
BY DEF RuntimePlan

\* The runtime tool, alone: its stale run is recovered once, the one behind the lock is
\* not, the one too young is not, and its mapping, rescheduled by the recovery, is due
\* when the runtime starts.
LEMMA RuntimeGoesOn ==
    ASSUME CleanInv, tool.name = "runtime", OnPlan,
           tool.pc \in {"scenario", "polling", "syncing"}, ScenarioStep
    PROVE  tool'.pc \in {"scenario", "polling"} /\ RuntimePlan'
<1>1. /\ Formed /\ RuntimePlan /\ tool.own = 1 /\ DOMAIN fixtures = {1} /\ DOMAIN tool = Fields
      /\ Same(tool)
  BY DEF CleanInv, OnPlan, Formed, Seeded, Same
<1>2. ASSUME NEW op, Doing(op)
      PROVE  /\ tool.pc = "scenario" /\ Step.op = op
             /\ \/ tool.step = 1 /\ Step = StaleRun(0)
                \/ tool.step = 2 /\ Step = Recover(Noon, 60, "recovered")
                \/ tool.step = 3 /\ Step = Check
                \/ tool.step = 4 /\ Step = StaleRun(3000)
                \/ tool.step = 5 /\ Step = Hold
                \/ tool.step = 6 /\ Step = Recover(Noon, 60, "skipped")
                \/ tool.step = 7 /\ Step = Release
                \/ tool.step = 8 /\ Step = Recover(Noon, ThirtyDays, "any")
                \/ tool.step = 9 /\ Step = Poll(RuntimeStart, "any")
                \/ tool.step = 10 /\ Step = Check
  BY <1>1, <1>2, RuntimeAt DEF Doing, At
<1>3. ASSUME NEW op, Doing(op) PROVE op \in {"poll", "hold", "release", "check", "stale", "recover"}
  BY <1>2, <1>3 DEF Poll, Hold, Release, Check, StaleRun, Recover
<1>4. CASE CheckHolds
  <2>1. tool.step \in {3, 10} /\ tool' = NextStep(tool) /\ fixtures' = fixtures
    BY <1>2, <1>3, <1>4 DEF CheckHolds, Poll, Hold, Release, Check, StaleRun, Recover
  <2>2. /\ tool'.held = tool.held /\ ~tool.held
        /\ tool'.pc = "scenario" /\ tool'.step = tool.step + 1
    BY <1>1, <2>1, NextSame DEF RuntimePlan
  <2> QED  BY <1>1, <2>1, <2>2, RuntimeMoves
<1>5. CASE HoldLock
  <2>1. /\ tool.step = 5 /\ tool' = [NextStep(tool) EXCEPT !.held = TRUE]
        /\ fixtures' = fixtures
    BY <1>2, <1>5 DEF HoldLock, Poll, Hold, Release, Check, StaleRun, Recover
  <2>2. tool'.held /\ tool'.pc = "scenario" /\ tool'.step = tool.step + 1
    BY <1>1, <2>1, HeldSame
  <2> QED  BY <1>1, <2>1, <2>2, RuntimeMoves
<1>6. CASE ReleaseLock
  <2>1. /\ tool.step = 7 /\ tool' = [NextStep(tool) EXCEPT !.held = FALSE]
        /\ fixtures' = fixtures
    BY <1>2, <1>6 DEF ReleaseLock, Poll, Hold, Release, Check, StaleRun, Recover
  <2>2. ~tool'.held /\ tool'.pc = "scenario" /\ tool'.step = tool.step + 1
    BY <1>1, <2>1, HeldSame
  <2> QED  BY <1>1, <2>1, <2>2, RuntimeMoves
<1>7. CASE InsertStaleRun
  <2>1. /\ Doing("stale") /\ RunStarts(1, Step.at) /\ tool' = NextStep(tool)
    BY <1>1, <1>7 DEF InsertStaleRun
  <2>2. \/ tool.step = 1 /\ Step.at = 0
        \/ tool.step = 4 /\ Step.at = 3000
    BY <1>2, <2>1 DEF Poll, Hold, Release, Check, StaleRun, Recover
  <2>3. /\ tool'.pc = "scenario" /\ tool'.step = tool.step + 1 /\ tool'.held = tool.held
        /\ tool'.recovered = tool.recovered
    BY <1>1, <2>1, NextSame
  <2>4. /\ fixtures'[1].enabled = fixtures[1].enabled /\ fixtures'[1].next = fixtures[1].next
        /\ fixtures'[1].interval = fixtures[1].interval
        /\ fixtures'[1].running = fixtures[1].running \cup {Step.at}
        /\ fixtures'[1].discovery = fixtures[1].discovery
    BY <1>1, <2>1, RunStartsOne
  <2>5. fixtures'[1].running = {Step.at}
    BY <1>1, <2>2, <2>4 DEF RuntimePlan
  <2>6. CASE tool.step = 1
    BY <1>1, <2>2, <2>3, <2>4, <2>5, <2>6 DEF RuntimePlan
  <2>7. CASE tool.step = 4
    BY <1>1, <2>2, <2>3, <2>4, <2>5, <2>7 DEF RuntimePlan
  <2> QED  BY <2>2, <2>6, <2>7
<1>8. \* The stale runs of the three recoveries.
      ASSUME Doing("recover")
      PROVE  \/ /\ tool.step = 2 /\ Step.expect = "recovered" /\ Step.at = 3600 /\ ~tool.held
                /\ fixtures[1].running = {0} /\ Stale = {<<1, 0>>} /\ tool.recovered = 0
             \/ /\ tool.step = 2 /\ Step.expect = "recovered" /\ ~tool.held
                /\ fixtures[1].running = {} /\ Stale = {} /\ tool.recovered = 1
             \/ /\ tool.step = 6 /\ Step.expect = "skipped" /\ tool.held
                /\ Stale \subseteq {1} \X {3000} /\ Cardinality(Stale) = 1
             \/ tool.step = 8 /\ Step.expect = "any" /\ ~tool.held /\ Stale = {}
  <2>1. \/ tool.step = 2 /\ Step.at = 3600 /\ Step.age = 60 /\ Step.expect = "recovered"
        \/ tool.step = 6 /\ Step.at = 3600 /\ Step.age = 60 /\ Step.expect = "skipped"
        \/ tool.step = 8 /\ Step.at = 3600 /\ Step.age = 2592000 /\ Step.expect = "any"
    BY <1>2, <1>8 DEF Poll, Hold, Release, Check, StaleRun, Recover, Noon, ThirtyDays
  <2>2. CASE tool.step = 2
    <3>1. CASE fixtures[1].running = {0} /\ tool.recovered = 0
      <4>1. {r \in fixtures[1].running : r + Step.age <= Step.at} = {0}
        BY <2>1, <2>2, <3>1
      <4>2. Stale = {<<1, 0>>}
        BY <1>1, <4>1, StaleOfOne
      <4> QED  BY <1>1, <2>1, <2>2, <3>1, <4>2 DEF RuntimePlan
    <3>2. CASE fixtures[1].running = {} /\ tool.recovered = 1
      <4>1. Stale = {}
        BY <1>1, <3>2, StaleOfOne
      <4> QED  BY <1>1, <2>1, <2>2, <3>2, <4>1 DEF RuntimePlan
    <3> QED  BY <1>1, <2>2, <3>1, <3>2 DEF RuntimePlan
  <2>3. CASE tool.step = 6
    <3>1. fixtures[1].running = {3000} /\ tool.held
      BY <1>1, <2>3 DEF RuntimePlan
    <3>2. {r \in fixtures[1].running : r + Step.age <= Step.at} = {3000}
      BY <2>1, <2>3, <3>1
    <3>3. Stale \subseteq {1} \X {3000} /\ Cardinality(Stale) = 1
      BY <1>1, <3>2, StaleOfOne, OneStale
    <3> QED  BY <2>1, <2>3, <3>1, <3>3
  <2>4. CASE tool.step = 8
    <3>1. fixtures[1].running = {3000} /\ ~tool.held
      BY <1>1, <2>4 DEF RuntimePlan
    <3>2. {r \in fixtures[1].running : r + Step.age <= Step.at} = {}
      BY <2>1, <2>4, <3>1
    <3>3. Stale = {}
      BY <1>1, <3>2, StaleOfOne
    <3> QED  BY <2>1, <2>4, <3>1, <3>3
  <2> QED  BY <2>1, <2>2, <2>3, <2>4
<1>9. CASE RecoverRun
  <2>1. Doing("recover")
    BY <1>9 DEF RecoverRun
  <2>2. PICK run \in Recoverable :
           /\ Ends(run[1], run[2], {},
                   IF Reschedules(run[1], run[2]) THEN Step.at + fixtures[run[1]].interval
                   ELSE fixtures[run[1]].next)
           /\ tool' = [tool EXCEPT !.recovered = @ + 1]
    BY <1>9 DEF RecoverRun
  <2>3. run \in Stale /\ ~(run[1] = 1 /\ tool.held)
    BY <1>1, <2>2 DEF Recoverable
  <2>4. /\ tool.step = 2 /\ Step.at = 3600 /\ run = <<1, 0>> /\ fixtures[1].running = {0}
        /\ tool.recovered = 0
    BY <1>8, <2>1, <2>3
  <2>5. PICK next : next = Step.at + fixtures[1].interval
    OBVIOUS
  <2>6. Ends(1, 0, {}, next)
    BY <1>1, <2>2, <2>4, <2>5 DEF RuntimePlan, Reschedules
  <2>7. next = 3660
    BY <1>1, <2>4, <2>5 DEF RuntimePlan
  <2>8. /\ fixtures'[1].enabled = fixtures[1].enabled /\ fixtures'[1].next = next
        /\ fixtures'[1].interval = fixtures[1].interval
        /\ fixtures'[1].running = fixtures[1].running \ {0}
        /\ fixtures'[1].discovery = fixtures[1].discovery \ {0}
    BY <1>1, <2>6, EndsOne
  <2>9. fixtures'[1].running = {}
    BY <2>4, <2>8
  <2>10. /\ tool'.pc = "scenario" /\ tool'.step = 2 /\ tool'.held = tool.held
         /\ tool'.recovered = 1
    BY <1>1, <1>2, <2>1, <2>2, <2>4 DEF Fields
  <2> QED  BY <1>1, <2>4, <2>7, <2>8, <2>9, <2>10 DEF RuntimePlan
<1>10. CASE RecoveryEnds
  <2> DEFINE t == [tool EXCEPT !.recovered = 0]
             claim == CASE Step.expect = "recovered" -> tool.recovered = 1
                        [] Step.expect = "skipped"   -> Cardinality(Stale) = 1
                        [] Step.expect = "any"       -> TRUE
  <2>1. /\ Doing("recover") /\ Recoverable = {} /\ fixtures' = fixtures
        /\ tool' = Claim(claim, t)
    BY <1>10 DEF RecoveryEnds
  <2>2. /\ Step.expect = "recovered" => (claim <=> tool.recovered = 1)
        /\ Step.expect = "skipped" => (claim <=> Cardinality(Stale) = 1)
        /\ Step.expect = "any" => claim
    OBVIOUS
  <2> HIDE DEF claim
  <2>4. ~(tool.step = 2 /\ Stale = {<<1, 0>>} /\ ~tool.held)
    BY <2>1 DEF Recoverable
  <2>5. claim /\ tool.step \in {2, 6, 8} /\ (tool.held <=> tool.step = 6)
        /\ (tool.step = 2 => fixtures[1].running = {} /\ tool.recovered = 1)
    BY <1>8, <2>1, <2>2, <2>4
  <2>6. tool' = NextStep(t) /\ Same(t) /\ t.step = tool.step /\ t.held = tool.held
    BY <1>1, <2>1, <2>5, ClaimIsNext DEF Same, Fields
  <2> HIDE DEF t
  <2>7. /\ tool'.pc = "scenario" /\ tool'.step = tool.step + 1 /\ tool'.held = tool.held
        /\ fixtures' = fixtures
    BY <2>1, <2>6, NextSame
  <2>8. CASE tool.step \in {6, 8}
    <3>1. tool'.held <=> tool.step \in {5, 6}
      BY <2>5, <2>7, <2>8
    <3> QED  BY <1>1, <2>7, <2>8, <3>1, RuntimeMoves
  <2>9. CASE tool.step = 2
    <3>1. ~tool'.held /\ tool'.step = 3 /\ fixtures[1].running = {}
      BY <2>5, <2>7, <2>9
    <3> QED  BY <1>1, <2>7, <2>9, <3>1 DEF RuntimePlan
  <2> QED  BY <2>5, <2>8, <2>9
<1>11. tool.step = 9 => Due(1, RuntimeStart)
  BY <1>1, ValidationConstants DEF RuntimePlan, Due, RuntimeStart
<1>12. ASSUME Doing("poll") PROVE tool.step = 9 /\ Step.at = RuntimeStart /\ ~tool.held
  BY <1>1, <1>2, <1>12 DEF Poll, Hold, Release, Check, StaleRun, Recover, RuntimePlan
<1>13. ~CycleWithoutPoll
  <2> SUFFICES ASSUME CycleWithoutPoll PROVE FALSE
    OBVIOUS
  <2>1. Doing("poll") /\ (FirstDue(Step.at) = {} \/ tool.held)
    BY DEF CycleWithoutPoll
  <2> QED  BY <1>1, <1>11, <1>12, <2>1, FirstOfOne
<1>14. CASE CyclePolls
  <2>1. PICK k \in FirstDue(Step.at) :
           /\ RunStarts(k, Step.at)
           /\ tool' = [tool EXCEPT !.pc = "polling", !.on = k] /\ Doing("poll")
    BY <1>14 DEF CyclePolls
  <2>2. k = 1
    BY <1>1, <2>1, FirstOfOne
  <2>3. tool.step = 9
    BY <1>12, <2>1
  <2>4. tool'.pc = "polling" /\ tool'.on = 1 /\ tool'.step = 9 /\ tool'.held = tool.held
    BY <1>1, <2>1, <2>2, <2>3 DEF Fields
  <2>5. /\ fixtures'[1].enabled = fixtures[1].enabled /\ fixtures'[1].next = fixtures[1].next
        /\ fixtures'[1].interval = fixtures[1].interval
        /\ fixtures'[1].discovery = fixtures[1].discovery
    BY <1>1, <2>1, <2>2, RunStartsOne
  <2> QED  BY <1>1, <2>3, <2>4, <2>5 DEF RuntimePlan
<1>15. CASE PollSucceeds
  <2>1. tool.pc = "polling" /\ tool.step = 9 /\ tool.on = 1
    BY <1>1, <1>15 DEF PollSucceeds, At, RuntimePlan
  <2>2. Step = Poll(RuntimeStart, "any")
    BY <1>1, <2>1, RuntimeAt DEF CleanInv, InsideStep
  <2>3. Step.expect = "any" /\ 1 # Null
    BY <2>2, ValidationConstants DEF Poll
  <2>4. PICK at, next : Ends(1, at, ScoreTables, next)
    BY <1>15, <2>1 DEF PollSucceeds
  <2>5. tool' = Claim(Expected(1, "SUCCESS"), tool)
    BY <1>15, <2>1 DEF PollSucceeds
  <2>6. tool' = NextStep(tool)
    BY <2>3, <2>5, ExpectedMeans, ClaimIsNext
  <2>7. tool'.pc = "scenario" /\ tool'.step = 10 /\ tool'.held = tool.held
    BY <1>1, <2>1, <2>6, NextSame
  <2>8. /\ fixtures'[1].enabled = fixtures[1].enabled
        /\ fixtures'[1].interval = fixtures[1].interval
        /\ fixtures'[1].discovery = fixtures[1].discovery \ {at}
    BY <1>1, <2>4, EndsOne
  <2> QED  BY <1>1, <2>1, <2>7, <2>8 DEF RuntimePlan
<1>16. ~SyncEnds
  BY <1>1 DEF SyncEnds, At, RuntimePlan
<1>17. ~\E op \in {"empty", "malformed", "insert", "ingest", "sync", "enable"} : Doing(op)
  BY <1>3
<1> QED  BY <1>17, <1>4, <1>5, <1>6, <1>7, <1>9, <1>10, <1>13, <1>14, <1>15, <1>16
         DEF ScenarioStep, CheckEmpty, RejectMalformed, InsertRows, IngestObservation,
             SyncStarts, EnableMapping
-----------------------------------------------------------------------------
\* Which step the ingestion tool is at.
LEMMA IngestionAt ==
    ASSUME Formed, tool.name = "ingestion", tool.step <= Len(Steps[tool.name])
    PROVE  /\ Steps[tool.name] = IngestionSteps
           /\ \/ tool.step = 1 /\ Step = Insert({"raw_messages"})
              \/ tool.step = 2 /\ Step = Check
              \/ tool.step = 3 /\ Step = Ingest("TEST1", 0, "CANONICAL_INITIAL")
              \/ tool.step = 4 /\ Step = Ingest("TEST1", 60, "CANONICAL_ADVANCED")
              \/ tool.step = 5 /\ Step = Ingest("TEST1", 60, "DUPLICATE")
              \/ tool.step = 6 /\ Step = Ingest("DM7EE_TEST", 120, "CANONICAL_INITIAL")
              \/ tool.step = 7 /\ Step = Ingest("DM7EE_TEST", 180, "CANONICAL_ADVANCED")
              \/ tool.step = 8 /\ Step = Ingest("DM7EE_TEST", 150, "OUT_OF_ORDER")
<1>1. Steps[tool.name] = IngestionSteps
  BY DEF Steps
<1>2. tool.step \in 1 .. 8
  BY <1>1, IngestionList DEF Formed
<1> QED  BY <1>1, <1>2, IngestionList DEF Step

\* An observation of this entry and time comes earlier in the scenario.
Seen(entry, at) ==
    \E k \in 1 .. tool.step - 1 :
        LET earlier == Steps[tool.name][k]
        IN  earlier.op = "ingest" /\ earlier.entry = entry /\ earlier.at = at

\* Only the fifth step repeats an observation.
LEMMA SeenWhen ==
    ASSUME Formed, tool.name = "ingestion"
    PROVE  /\ tool.step = 3 => ~Seen("TEST1", 0)
           /\ tool.step = 4 => ~Seen("TEST1", 60)
           /\ tool.step = 5 => Seen("TEST1", 60)
           /\ tool.step = 6 => ~Seen("DM7EE_TEST", 120)
           /\ tool.step = 7 => ~Seen("DM7EE_TEST", 180)
           /\ tool.step = 8 => ~Seen("DM7EE_TEST", 150)
<1>1. Steps[tool.name] = IngestionSteps
  BY DEF Steps
<1> DEFINE list == IngestionSteps
<1>2. /\ list[1].op = "insert" /\ list[2].op = "check"
      /\ list[3].entry = "TEST1" /\ list[3].at = 0
      /\ list[4].entry = "TEST1" /\ list[4].at = 60 /\ list[4].op = "ingest"
      /\ list[5].entry = "TEST1" /\ list[5].at = 60
      /\ list[6].entry = "DM7EE_TEST" /\ list[6].at = 120
      /\ list[7].entry = "DM7EE_TEST" /\ list[7].at = 180
  BY IngestionList DEF Ingest, Insert, Check
<1>3. /\ 1 .. 2 = {1, 2} /\ 1 .. 3 = {1, 2, 3} /\ 1 .. 4 = {1, 2, 3, 4}
      /\ 1 .. 5 = {1, 2, 3, 4, 5} /\ 1 .. 6 = {1, 2, 3, 4, 5, 6}
      /\ 1 .. 7 = {1, 2, 3, 4, 5, 6, 7}
  OBVIOUS
<1> HIDE DEF list
<1>4. Steps[tool.name] = list
  BY <1>1 DEF list
<1> QED  BY <1>2, <1>3, <1>4 DEF Seen

\* What the services make of an observation, by the policy.
LEMMA ObserveMeans ==
    ASSUME NEW entry, NEW at \in Nat
    PROVE  /\ Seen(entry, at) => Observe(entry, at) = "DUPLICATE"
           /\ ~Seen(entry, at) /\ entry \notin DOMAIN tool.shown
                 => Observe(entry, at) = "CANONICAL_INITIAL"
           /\ ~Seen(entry, at) /\ entry \in DOMAIN tool.shown
                 => Observe(entry, at) = IF at < tool.shown[entry] THEN "OUT_OF_ORDER"
                                         ELSE "CANONICAL_ADVANCED"
<1> DEFINE rows == {[at |-> tool.shown[e], source |-> 1] : e \in {entry} \cap DOMAIN tool.shown}
           candidate == [at |-> at, source |-> 1, status |-> "ACCEPTED",
                         quality |-> "CONFIRMED_UTC"]
<1>1. Observe(entry, at) = IF Seen(entry, at) THEN "DUPLICATE" ELSE Decide(candidate, rows)
  BY DEF Observe, Seen
<1>2. Eligible(candidate) /\ candidate.at = at /\ candidate.source = 1
  BY NoTimestampAssumption DEF Eligible
<1>3. entry \notin DOMAIN tool.shown => rows = {}
  OBVIOUS
<1>4. ASSUME entry \in DOMAIN tool.shown
      PROVE  /\ rows # {} /\ ~\E row \in rows : row.source # 1
             /\ (\E row \in rows : at < row.at) <=> at < tool.shown[entry]
  <2>1. PICK r : r = [at |-> tool.shown[entry], source |-> 1]
    OBVIOUS
  <2>2. r.at = tool.shown[entry] /\ r.source = 1
    BY <2>1
  <2>3. rows = {r}
    BY <1>4, <2>1
  <2> HIDE DEF rows
  <2> QED  BY <2>2, <2>3
<1> HIDE DEF rows, candidate
<1> QED  BY <1>1, <1>2, <1>3, <1>4 DEF Decide

\* The ingestion tool, alone: the decisions of the policy are the ones it asserts.
LEMMA IngestionGoesOn ==
    ASSUME CleanInv, tool.name = "ingestion", OnPlan,
           tool.pc \in {"scenario", "polling", "syncing"}, ScenarioStep
    PROVE  tool'.pc = "scenario" /\ IngestionPlan'
<1>1. /\ Formed /\ IngestionPlan /\ DOMAIN tool = Fields /\ Same(tool) /\ tool.own # Null
      /\ tool.pc = "scenario"
  BY ValidationConstants DEF CleanInv, OnPlan, Formed, Seeded, Same, IngestionPlan
<1>2. ASSUME NEW op, Doing(op)
      PROVE  /\ Step.op = op
             /\ \/ tool.step = 1 /\ Step = Insert({"raw_messages"})
                \/ tool.step = 2 /\ Step = Check
                \/ tool.step = 3 /\ Step = Ingest("TEST1", 0, "CANONICAL_INITIAL")
                \/ tool.step = 4 /\ Step = Ingest("TEST1", 60, "CANONICAL_ADVANCED")
                \/ tool.step = 5 /\ Step = Ingest("TEST1", 60, "DUPLICATE")
                \/ tool.step = 6 /\ Step = Ingest("DM7EE_TEST", 120, "CANONICAL_INITIAL")
                \/ tool.step = 7 /\ Step = Ingest("DM7EE_TEST", 180, "CANONICAL_ADVANCED")
                \/ tool.step = 8 /\ Step = Ingest("DM7EE_TEST", 150, "OUT_OF_ORDER")
  BY <1>1, <1>2, IngestionAt DEF Doing
<1>3. ASSUME NEW op, Doing(op) PROVE op \in {"insert", "check", "ingest"}
  BY <1>2, <1>3 DEF Insert, Check, Ingest
<1>4. CASE CheckHolds \/ InsertRows
  <2>1. (tool.step \in {1, 2}) /\ tool' = NextStep(tool)
    BY <1>1, <1>2, <1>3, <1>4 DEF CheckHolds, InsertRows, Insert, Check, Ingest
  <2>2. tool'.pc = "scenario" /\ tool'.step = tool.step + 1 /\ tool'.shown = tool.shown
    BY <1>1, <2>1, NextSame
  <2> QED  BY <1>1, <2>1, <2>2 DEF IngestionPlan
<1>5. CASE IngestObservation
  <2> DEFINE answer == Observe(Step.entry, Step.at)
             shown == [e \in DOMAIN tool.shown \cup {Step.entry} |->
                          IF e = Step.entry /\ answer \in CanonicalDecisions
                          THEN Step.at ELSE tool.shown[e]]
             t == [tool EXCEPT !.shown = shown]
  <2>1. Doing("ingest") /\ tool' = Claim(answer = Step.expect, t)
    BY <1>5 DEF IngestObservation
  <2>2. \/ /\ tool.step = 3 /\ Step.entry = "TEST1" /\ Step.at = 0
           /\ Step.expect = "CANONICAL_INITIAL"
        \/ /\ tool.step = 4 /\ Step.entry = "TEST1" /\ Step.at = 60
           /\ Step.expect = "CANONICAL_ADVANCED"
        \/ /\ tool.step = 5 /\ Step.entry = "TEST1" /\ Step.at = 60
           /\ Step.expect = "DUPLICATE"
        \/ /\ tool.step = 6 /\ Step.entry = "DM7EE_TEST" /\ Step.at = 120
           /\ Step.expect = "CANONICAL_INITIAL"
        \/ /\ tool.step = 7 /\ Step.entry = "DM7EE_TEST" /\ Step.at = 180
           /\ Step.expect = "CANONICAL_ADVANCED"
        \/ /\ tool.step = 8 /\ Step.entry = "DM7EE_TEST" /\ Step.at = 150
           /\ Step.expect = "OUT_OF_ORDER"
    BY <1>2, <2>1 DEF Insert, Check, Ingest
  <2>3. /\ DOMAIN shown = DOMAIN tool.shown \cup {Step.entry}
        /\ answer \in CanonicalDecisions => shown[Step.entry] = Step.at
        /\ answer \notin CanonicalDecisions => shown[Step.entry] = tool.shown[Step.entry]
    OBVIOUS
  <2>4. Same(t) /\ t.shown = shown /\ t.step = tool.step
    BY <1>1 DEF Same, Fields
  <2>5. PICK a : a = answer
    OBVIOUS
  <2> HIDE DEF answer, shown, t
  <2>6. a = Step.expect
    <3>1. CASE tool.step = 3
      <4>1. a = Observe("TEST1", 0)
        BY <2>2, <2>5, <3>1 DEF answer
      <4>2. "TEST1" \notin DOMAIN tool.shown /\ ~Seen("TEST1", 0)
        BY <1>1, <3>1, SeenWhen DEF IngestionPlan
      <4> QED  BY <2>2, <3>1, <4>1, <4>2, ObserveMeans
    <3>2. CASE tool.step = 4
      <4>1. a = Observe("TEST1", 60)
        BY <2>2, <2>5, <3>2 DEF answer
      <4>2. "TEST1" \in DOMAIN tool.shown /\ tool.shown["TEST1"] = 0 /\ ~Seen("TEST1", 60)
        BY <1>1, <3>2, SeenWhen DEF IngestionPlan
      <4> QED  BY <2>2, <3>2, <4>1, <4>2, ObserveMeans
    <3>3. CASE tool.step = 5
      <4>1. a = Observe("TEST1", 60)
        BY <2>2, <2>5, <3>3 DEF answer
      <4>2. Seen("TEST1", 60)
        BY <1>1, <3>3, SeenWhen
      <4> QED  BY <2>2, <3>3, <4>1, <4>2, ObserveMeans
    <3>4. CASE tool.step = 6
      <4>1. a = Observe("DM7EE_TEST", 120)
        BY <2>2, <2>5, <3>4 DEF answer
      <4>2. "DM7EE_TEST" \notin DOMAIN tool.shown /\ ~Seen("DM7EE_TEST", 120)
        BY <1>1, <3>4, SeenWhen DEF IngestionPlan
      <4> QED  BY <2>2, <3>4, <4>1, <4>2, ObserveMeans
    <3>5. CASE tool.step = 7
      <4>1. a = Observe("DM7EE_TEST", 180)
        BY <2>2, <2>5, <3>5 DEF answer
      <4>2. /\ "DM7EE_TEST" \in DOMAIN tool.shown /\ tool.shown["DM7EE_TEST"] = 120
            /\ ~Seen("DM7EE_TEST", 180)
        BY <1>1, <3>5, SeenWhen DEF IngestionPlan
      <4> QED  BY <2>2, <3>5, <4>1, <4>2, ObserveMeans
    <3>6. CASE tool.step = 8
      <4>1. a = Observe("DM7EE_TEST", 150)
        BY <2>2, <2>5, <3>6 DEF answer
      <4>2. /\ "DM7EE_TEST" \in DOMAIN tool.shown /\ tool.shown["DM7EE_TEST"] = 180
            /\ ~Seen("DM7EE_TEST", 150)
        BY <1>1, <3>6, SeenWhen DEF IngestionPlan
      <4> QED  BY <2>2, <3>6, <4>1, <4>2, ObserveMeans
    <3> QED  BY <2>2, <3>1, <3>2, <3>3, <3>4, <3>5, <3>6
  <2>7. tool' = NextStep(t)
    BY <2>1, <2>5, <2>6, ClaimIsNext
  <2>8. tool'.pc = "scenario" /\ tool'.step = tool.step + 1 /\ tool'.shown = shown
    BY <2>4, <2>7, NextSame
  <2>9. /\ tool.step \in {3, 6} => shown[Step.entry] = Step.at
        /\ tool.step \in {4, 7} => shown[Step.entry] = Step.at
        /\ tool.step = 5 => shown["TEST1"] = tool.shown["TEST1"]
    BY <2>2, <2>3, <2>5, <2>6 DEF CanonicalDecisions
  <2> QED  BY <1>1, <2>2, <2>3, <2>8, <2>9 DEF IngestionPlan
<1>6. ~\E op \in {"empty", "malformed", "poll", "stale", "recover", "sync", "enable", "hold",
                  "release"} : Doing(op)
  BY <1>3
<1>7. ~PollSucceeds /\ ~SyncEnds
  BY <1>1 DEF PollSucceeds, SyncEnds, At
<1> QED  BY <1>4, <1>5, <1>6, <1>7
         DEF ScenarioStep, CheckEmpty, RejectMalformed, CycleWithoutPoll, CyclePolls,
             InsertStaleRun, RecoverRun, RecoveryEnds, SyncStarts, EnableMapping, HoldLock,
             ReleaseLock
-----------------------------------------------------------------------------
\* A tool that runs is one of them.
Named == tool.pc # "ended" => tool.name \in Tools

\* The inductive invariant of the others.
SafeInv ==
    /\ CleanInv /\ HitsCounted /\ Named
    /\ DestroyedClean /\ UndisturbedInv /\ OneFaultLeavesNothing

\* Where a tool is when it plays its scenario.
LEMMA ScenarioIsOn ==
    ASSUME ScenarioStep
    PROVE  tool.pc \in {"scenario", "polling", "syncing"}
BY DEF ScenarioStep, CheckHolds, CheckEmpty, RejectMalformed, InsertRows, IngestObservation,
       CycleWithoutPoll, CyclePolls, PollSucceeds, InsertStaleRun, RecoverRun, RecoveryEnds,
       SyncStarts, SyncEnds, EnableMapping, HoldLock, ReleaseLock, Doing, At

\* Nothing the scenario of a tool asserts is wrong when it is alone.
LEMMA ScenarioGoesOn ==
    ASSUME CleanInv, Named, OnPlan, ScenarioStep, tool.name # "behaviour"
    PROVE  tool'.pc \in {"scenario", "polling", "syncing"} /\ OnPlan'
<1>1. tool.pc \in {"scenario", "polling", "syncing"}
  BY ScenarioIsOn
<1>2. tool.name \in {"polling", "runtime", "ingestion"} \cup QuietTools
  BY <1>1 DEF Named, Tools, QuietTools
<1>3. tool'.name = tool.name
  BY ScenarioSame
<1>4. tool.name \in Seeded => tool'.own = 1 /\ DOMAIN fixtures' = {1}
  BY ScenarioSame, ValidationConstants DEF OnPlan
<1>5. CASE tool.name = "polling"
  BY <1>1, <1>3, <1>4, <1>5, PollingGoesOn DEF OnPlan
<1>6. CASE tool.name = "runtime"
  BY <1>1, <1>3, <1>4, <1>6, RuntimeGoesOn DEF OnPlan
<1>7. CASE tool.name = "ingestion"
  BY <1>1, <1>3, <1>4, <1>7, IngestionGoesOn DEF OnPlan
<1>8. CASE tool.name \in QuietTools
  <2>1. tool'.pc \in {"scenario", "syncing"}
    BY <1>8, QuietGoesOn
  <2>2. tool.name \notin {"polling", "runtime", "ingestion"}
    BY <1>8 DEF QuietTools
  <2> QED  BY <1>3, <1>4, <2>1, <2>2 DEF OnPlan
<1> QED  BY <1>2, <1>5, <1>6, <1>7, <1>8

\* Every step of every scenario.
LEMMA ScenarioIsSafe ==
    ASSUME SafeInv, ScenarioStep
    PROVE  SafeInv'
<1>1. CleanInv'
  BY ScenarioStepKeeps DEF SafeInv
<1>2. tool.pc \in {"scenario", "polling", "syncing"}
  BY ScenarioIsOn
<1>3. /\ tool'.name = tool.name /\ tool'.alone = tool.alone /\ tool'.hits = tool.hits
      /\ tool'.lost = tool.lost
      /\ tool'.pc \in {"scenario", "polling", "syncing", "unlock"}
  BY ScenarioSame DEF SafeInv
<1>4. HitsCounted' /\ Named' /\ DestroyedClean' /\ OneFaultLeavesNothing'
  BY <1>2, <1>3 DEF SafeInv, HitsCounted, Named, DestroyedClean, OneFaultLeavesNothing, Ended, At
<1>5. UndisturbedInv'
  <2> SUFFICES ASSUME Undisturbed PROVE UndisturbedInv'
    BY <1>3 DEF UndisturbedInv, Undisturbed
  <2>1. OnPlan /\ tool.lost = {}
    BY <1>2 DEF SafeInv, UndisturbedInv
  <2>2. CASE tool.name = "behaviour"
    <3>1. OnPlan'
      BY <1>3, <2>2 DEF OnPlan, Seeded
    <3> QED  BY <1>3, <2>1, <2>2, <3>1 DEF UndisturbedInv
  <2>3. CASE tool.name # "behaviour"
    <3>1. tool'.pc \in {"scenario", "polling", "syncing"} /\ OnPlan'
      BY <2>1, <2>3, ScenarioGoesOn DEF SafeInv
    <3> QED  BY <1>3, <2>1, <3>1 DEF UndisturbedInv, Ended, At
  <2> QED  BY <2>2, <2>3
<1> QED  BY <1>1, <1>4, <1>5 DEF SafeInv

\* A statement or request fails before the finally block.
LEMMA FaultIsSafe ==
    ASSUME SafeInv, PollFails \/ StatementFails \/ SeedAnswerLost \/ LockSessionLost
    PROVE  SafeInv'
<1>1. CleanInv'
  BY PollFailsKeeps, FailuresKeep, SeedFixtureKeeps DEF SafeInv
<1>2. DOMAIN tool = Fields /\ tool.hits \in Nat /\ (tool.pc # "ended" => tool.name \in Tools)
  BY DEF SafeInv, CleanInv, Formed, HitsCounted, Named
<1> DEFINE Hit == /\ tool'.name = tool.name /\ tool'.hits = tool.hits + 1
                  /\ tool'.pc \in {"scenario", "unlock"} /\ tool.pc # "ended"
<1>3. ASSUME PollFails PROVE Hit
  <2> DEFINE t == [tool EXCEPT !.hits = @ + 1]
  <2>1. t.name = tool.name /\ t.hits = tool.hits + 1 /\ DOMAIN t = Fields
    BY <1>2 DEF Fields
  <2>2. PICK condition : tool' = Claim(condition, t) /\ tool.pc = "polling"
    BY <1>3 DEF PollFails, At
  <2> HIDE DEF t
  <2>3. tool' = NextStep(t) \/ tool' = [t EXCEPT !.pc = "unlock"]
    BY <2>2 DEF Claim
  <2> QED  BY <2>1, <2>2, <2>3 DEF NextStep, Fields
<1>4. ASSUME StatementFails PROVE Hit
  <2>1. tool' = [tool EXCEPT !.pc = "unlock", !.hits = @ + 1] /\ tool.pc # "ended"
    BY <1>4 DEF StatementFails
  <2> QED  BY <1>2, <2>1 DEF Fields
<1>5. ASSUME SeedAnswerLost PROVE Hit
  <2>1. /\ tool' = [tool EXCEPT !.pc = "unlock", !.lost = @ \cup {"fixture"}, !.hits = @ + 1]
        /\ tool.pc # "ended"
    BY <1>5 DEF SeedAnswerLost, At
  <2> QED  BY <1>2, <2>1 DEF Fields
<1>6. ASSUME LockSessionLost PROVE Hit
  <2>1. /\ tool' = [tool EXCEPT !.pc = "unlock", !.lost = @ \cup {"session"}, !.hits = @ + 1]
        /\ tool.pc # "ended"
    BY <1>6 DEF LockSessionLost, Doing, At
  <2> QED  BY <1>2, <2>1 DEF Fields
<1>7. Hit
  BY <1>3, <1>4, <1>5, <1>6
<1>8. HitsCounted' /\ Named' /\ DestroyedClean' /\ OneFaultLeavesNothing'
  BY <1>2, <1>7 DEF HitsCounted, Named, DestroyedClean, OneFaultLeavesNothing, Ended, At
<1>9. UndisturbedInv'
  BY <1>2, <1>7 DEF UndisturbedInv, Undisturbed
<1> QED  BY <1>1, <1>8, <1>9 DEF SafeInv

\* A statement of the finally block fails: unless something failed before, the fixture
\* had been deleted.
LEMMA FinallyFailsIsSafe ==
    ASSUME SafeInv, FinallyFails
    PROVE  SafeInv'
<1>1. CleanInv'
  BY FailuresKeep DEF SafeInv
<1>2. /\ DOMAIN tool = Fields /\ tool.hits \in Nat /\ fixtures' = fixtures
      /\ tool.pc \in {"unlock", "close", "retry", "destroy"} /\ tool.name \in Tools
  BY DEF SafeInv, CleanInv, Formed, HitsCounted, Named, FinallyFails
<1>3. /\ tool'.name = tool.name /\ tool'.own = tool.own /\ tool'.hits = tool.hits + 1
      /\ tool'.alone = tool.alone /\ tool'.lost = tool.lost
      /\ tool'.pc = "ended" \/ (tool.name = "connectivity" /\ tool'.pc = "destroy")
  <2>1. \/ tool' = [tool EXCEPT !.pc = "ended", !.result = "FAIL", !.hits = @ + 1]
        \/ /\ tool.name = "connectivity"
           /\ tool' = [tool EXCEPT !.pc = "destroy", !.passes = FALSE, !.hits = @ + 1]
    BY DEF FinallyFails
  <2> QED  BY <1>2, <2>1 DEF Fields
<1>4. HitsCounted' /\ Named' /\ DestroyedClean'
  BY <1>2, <1>3 DEF HitsCounted, Named, DestroyedClean, Seeded
<1>5. UndisturbedInv'
  BY <1>2, <1>3 DEF UndisturbedInv, Undisturbed
<1>6. OneFaultLeavesNothing'
  <2> SUFFICES ASSUME tool.alone, tool.hits + 1 <= 1, tool.lost = {}, tool.name \in Seeded
               PROVE  Rows' = {}
    BY <1>3 DEF OneFaultLeavesNothing
  <2>1. Undisturbed
    BY <1>2 DEF Undisturbed
  <2>2. tool.passes
    BY <1>2, <2>1 DEF SafeInv, UndisturbedInv, Seeded
  <2>3. Rows = {}
    BY <2>2 DEF SafeInv, CleanInv, PassIsClean, CleanedIsEmpty
  <2> QED  BY <1>2, <1>3, <2>3 DEF Rows, Own
<1> QED  BY <1>1, <1>4, <1>5, <1>6 DEF SafeInv

\* A step after the scenario that no fault has hit and that does not end the tool.
LEMMA AfterwardsSafe ==
    ASSUME SafeInv, CleanInv', tool'.name = tool.name, tool'.hits = tool.hits,
           tool'.alone = tool.alone, tool'.lost = tool.lost, tool.pc # "ended",
           tool'.pc \in {"cleanup", "retry", "verify", "unlock", "close", "destroy"},
           tool'.pc = "destroy" /\ tool.name \in Seeded => Rows' = {},
           Undisturbed => tool'.pc # "retry",
           Undisturbed /\ tool.name # "behaviour" /\ tool'.pc \in {"unlock", "close", "destroy"}
              => tool'.passes
    PROVE  SafeInv'
<1>1. HitsCounted' /\ Named' /\ DestroyedClean' /\ OneFaultLeavesNothing'
  BY DEF SafeInv, HitsCounted, Named, DestroyedClean, OneFaultLeavesNothing, Ended, At
<1>2. UndisturbedInv'
  <2> SUFFICES ASSUME Undisturbed PROVE UndisturbedInv'
    BY DEF UndisturbedInv, Undisturbed
  <2>1. tool.lost = {}
    BY DEF SafeInv, UndisturbedInv
  <2> QED  BY <2>1 DEF UndisturbedInv, Ended, At
<1> QED  BY <1>1, <1>2 DEF SafeInv

\* The scenario is over.
LEMMA ScenarioEndsIsSafe == ASSUME SafeInv, ScenarioEnds PROVE SafeInv'
<1>1. CleanInv'
  BY ScenarioEndsKeeps DEF SafeInv
<1>2. DOMAIN tool = Fields /\ tool.pc = "scenario"
  BY DEF SafeInv, CleanInv, Formed, ScenarioEnds, At
<1>3. \/ tool' = [tool EXCEPT !.pc = "cleanup", !.todo = Cleanup[tool.name]]
      \/ tool' = [tool EXCEPT !.pc = "unlock", !.passes = TRUE]
  BY DEF ScenarioEnds
<1>4. /\ tool'.name = tool.name /\ tool'.hits = tool.hits
      /\ tool'.alone = tool.alone /\ tool'.lost = tool.lost
      /\ tool'.pc = "cleanup" \/ (tool'.pc = "unlock" /\ tool'.passes)
  BY <1>2, <1>3 DEF Fields
<1> QED  BY <1>1, <1>2, <1>4, AfterwardsSafe

\* DELETEs are not rejected.
LEMMA DeleteFixtureIsSafe == ASSUME SafeInv, DeleteFixture PROVE SafeInv'
<1>1. CleanInv'
  BY DeleteFixtureKeeps DEF SafeInv
<1>2. DOMAIN tool = Fields /\ tool.pc \in {"cleanup", "retry"} /\ tool.todo # <<>>
  BY DEF SafeInv, CleanInv, Formed, DeleteFixture
<1>3. ~Rejected(Rows, Statements)
  BY <1>2, NeverRejected DEF SafeInv
<1>4. \E rest : tool' = [tool EXCEPT !.todo = rest]
  BY <1>3 DEF DeleteFixture
<1>5. /\ tool'.name = tool.name /\ tool'.hits = tool.hits
      /\ tool'.alone = tool.alone /\ tool'.lost = tool.lost /\ tool'.pc = tool.pc
  BY <1>2, <1>4 DEF Fields
<1>6. Undisturbed => tool.pc # "retry"
  BY DEF SafeInv, UndisturbedInv
<1> QED  BY <1>1, <1>2, <1>5, <1>6, AfterwardsSafe

\* The last DELETE has been done.
LEMMA FixtureDeletedIsSafe == ASSUME SafeInv, FixtureDeleted PROVE SafeInv'
<1>1. CleanInv'
  BY FixtureDeletedKeeps DEF SafeInv
<1>2. DOMAIN tool = Fields /\ tool.pc \in {"cleanup", "retry"}
  BY DEF SafeInv, CleanInv, Formed, FixtureDeleted
<1>3. tool' = [tool EXCEPT !.cleaned = TRUE,
                           !.pc = IF At("retry") THEN "destroy" ELSE "verify"]
  BY DEF FixtureDeleted
<1>4. /\ tool'.name = tool.name /\ tool'.hits = tool.hits /\ tool'.cleaned
      /\ tool'.alone = tool.alone /\ tool'.lost = tool.lost
      /\ tool'.pc = IF tool.pc = "retry" THEN "destroy" ELSE "verify"
  BY <1>2, <1>3 DEF Fields, At
<1>5. Rows' = {}
  BY <1>1, <1>4 DEF CleanInv, CleanedIsEmpty
<1>6. Undisturbed => tool.pc # "retry"
  BY DEF SafeInv, UndisturbedInv
<1> QED  BY <1>1, <1>2, <1>4, <1>5, <1>6, AfterwardsSafe

\* What is counted is empty.
LEMMA VerifyCleanIsSafe == ASSUME SafeInv, VerifyClean PROVE SafeInv'
<1>1. CleanInv'
  BY VerifyCleanKeeps DEF SafeInv
<1>2. DOMAIN tool = Fields /\ tool.pc = "verify"
  BY DEF SafeInv, CleanInv, Formed, VerifyClean, At
<1>3. Rows = {}
  BY <1>2 DEF SafeInv, CleanInv, PassIsClean, CleanedIsEmpty
<1>4. tool' = [tool EXCEPT !.pc = "unlock", !.passes = TRUE]
  BY <1>3 DEF VerifyClean
<1>5. /\ tool'.name = tool.name /\ tool'.hits = tool.hits /\ tool'.passes
      /\ tool'.alone = tool.alone /\ tool'.lost = tool.lost /\ tool'.pc = "unlock"
  BY <1>2, <1>4 DEF Fields
<1> QED  BY <1>1, <1>2, <1>5, AfterwardsSafe

\* The lock is given back.
LEMMA GiveBackLockIsSafe == ASSUME SafeInv, GiveBackLock PROVE SafeInv'
<1>1. CleanInv'
  BY FailuresKeep DEF SafeInv
<1>2. /\ DOMAIN tool = Fields /\ tool.pc = "unlock"
      /\ tool' = [tool EXCEPT !.held = FALSE, !.pc = "close"]
  BY DEF SafeInv, CleanInv, Formed, GiveBackLock, At
<1>3. /\ tool'.name = tool.name /\ tool'.hits = tool.hits /\ tool'.passes = tool.passes
      /\ tool'.alone = tool.alone /\ tool'.lost = tool.lost /\ tool'.pc = "close"
  BY <1>2 DEF Fields
<1>4. Undisturbed /\ tool.name # "behaviour" => tool.passes
  BY <1>2 DEF SafeInv, UndisturbedInv
<1> QED  BY <1>1, <1>2, <1>3, <1>4, AfterwardsSafe

\* The session of the lock is closed: the cleanup is repeated only after a failure.
LEMMA CloseLockSessionIsSafe == ASSUME SafeInv, CloseLockSession PROVE SafeInv'
<1>1. CleanInv'
  BY CloseLockSessionKeeps DEF SafeInv
<1>2. DOMAIN tool = Fields /\ tool.pc = "close"
  BY DEF SafeInv, CleanInv, Formed, CloseLockSession, At
<1>3. Undisturbed /\ tool.name # "behaviour" => tool.passes
  BY <1>2 DEF SafeInv, UndisturbedInv
<1>4. CASE tool.own # Null /\ tool.name \in Seeded /\ ~tool.cleaned
  <2>1. tool' = [tool EXCEPT !.pc = "retry", !.todo = Cleanup[tool.name]]
    BY <1>4 DEF CloseLockSession
  <2>2. /\ tool'.name = tool.name /\ tool'.hits = tool.hits
        /\ tool'.alone = tool.alone /\ tool'.lost = tool.lost /\ tool'.pc = "retry"
    BY <1>2, <2>1 DEF Fields
  <2>3. ~Undisturbed
    BY <1>3, <1>4 DEF SafeInv, CleanInv, PassIsClean, Seeded
  <2> QED  BY <1>1, <1>2, <2>2, <2>3, AfterwardsSafe
<1>5. CASE ~(tool.own # Null /\ tool.name \in Seeded /\ ~tool.cleaned)
  <2>1. tool' = [tool EXCEPT !.pc = "destroy"] /\ fixtures' = fixtures
    BY <1>5 DEF CloseLockSession
  <2>2. /\ tool'.name = tool.name /\ tool'.hits = tool.hits /\ tool'.passes = tool.passes
        /\ tool'.alone = tool.alone /\ tool'.lost = tool.lost /\ tool'.pc = "destroy"
        /\ tool'.own = tool.own
    BY <1>2, <2>1 DEF Fields
  <2>3. tool.name \in Seeded => Rows = {}
    BY <1>5 DEF SafeInv, CleanInv, CleanedIsEmpty, Rows
  <2>4. Rows' = Rows
    BY <2>1, <2>2 DEF Rows, Own
  <2> QED  BY <1>1, <1>2, <1>3, <2>2, <2>3, <2>4, AfterwardsSafe
<1> QED  BY <1>4, <1>5

\* The steps that end a tool, with one of its results.
LEMMA EndIsSafe ==
    ASSUME SafeInv, DestroyPool \/ GiveBackThrows \/ Kill
    PROVE  SafeInv'
<1>1. CleanInv'
  BY DestroyPoolKeeps, FailuresKeep DEF SafeInv
<1>2. DOMAIN tool = Fields /\ fixtures' = fixtures
  BY DEF SafeInv, CleanInv, Formed, DestroyPool, GiveBackThrows, Kill
<1> DEFINE Gone(result) ==
      /\ tool'.name = tool.name /\ tool'.own = tool.own /\ tool'.hits = tool.hits
      /\ tool'.alone = tool.alone /\ tool'.lost = tool.lost /\ tool'.pc = "ended"
      /\ tool'.result = result
<1>3. ASSUME NEW result, tool' = [tool EXCEPT !.pc = "ended", !.result = result]
      PROVE  Gone(result)
  BY <1>2, <1>3 DEF Fields
<1>4. ASSUME NEW result, Gone(result),
             result = "FAIL" => (tool.name \in Seeded /\ tool.lost = {} => Rows = {}),
             result = "FAIL" => ~(Undisturbed /\ tool.name # "behaviour")
      PROVE  SafeInv'
  <2>1. HitsCounted' /\ Named' /\ DestroyedClean'
    BY <1>4 DEF SafeInv, HitsCounted, Named, DestroyedClean
  <2>2. Rows' = Rows
    BY <1>2, <1>4 DEF Rows, Own
  <2>3. OneFaultLeavesNothing'
    BY <1>4, <2>2 DEF OneFaultLeavesNothing, Ended, At
  <2>4. UndisturbedInv'
    <3> SUFFICES ASSUME Undisturbed PROVE UndisturbedInv'
      BY <1>4 DEF UndisturbedInv, Undisturbed
    <3>1. tool.lost = {}
      BY DEF SafeInv, UndisturbedInv
    <3> QED  BY <1>4, <3>1 DEF UndisturbedInv, Ended, At
  <2> QED  BY <1>1, <2>1, <2>3, <2>4 DEF SafeInv
<1> HIDE DEF Gone
<1>5. CASE DestroyPool
  <2>1. /\ tool.pc = "destroy"
        /\ tool' = [tool EXCEPT !.pc = "ended",
                                !.result = IF tool.passes THEN "PASS" ELSE "FAIL"]
    BY <1>5 DEF DestroyPool, At
  <2>2. tool.name \in Seeded => Rows = {}
    BY <2>1 DEF SafeInv, DestroyedClean
  <2>3. Undisturbed /\ tool.name # "behaviour" => tool.passes
    BY <2>1 DEF SafeInv, UndisturbedInv
  <2> QED  BY <1>3, <1>4, <2>1, <2>2, <2>3
<1>6. CASE GiveBackThrows
  <2>1. tool' = [tool EXCEPT !.pc = "ended", !.result = "FAIL"] /\ tool.lost # {}
    BY <1>6 DEF GiveBackThrows
  <2>2. ~Undisturbed
    BY <2>1 DEF SafeInv, UndisturbedInv
  <2> QED  BY <1>3, <1>4, <2>1, <2>2
<1>7. CASE Kill
  <2>1. tool' = [tool EXCEPT !.pc = "ended", !.result = "KILLED"]
    BY <1>7 DEF Kill
  <2> QED  BY <1>3, <1>4, <2>1
<1> QED  BY <1>5, <1>6, <1>7

\* Another tool starts.
LEMMA StartIsSafe ==
    ASSUME SafeInv, NEW name \in Tools, Start(name)
    PROVE  SafeInv'
<1>1. CleanInv'
  BY StartKeeps DEF SafeInv
<1>2. /\ fixtures' = LeftBehind
      /\ tool' = [NotRunning EXCEPT !.name = name, !.alone = (LeftBehind = <<>>),
                                    !.pc = IF name \in Seeded THEN "seed" ELSE "scenario"]
  BY DEF Start
<1>3. /\ tool'.name = name /\ tool'.hits = 0 /\ tool'.lost = {} /\ tool'.step = 1
      /\ ~tool'.held /\ tool'.recovered = 0 /\ DOMAIN tool'.shown = {}
      /\ tool'.alone = (LeftBehind = <<>>)
      /\ tool'.pc = IF name \in Seeded THEN "seed" ELSE "scenario"
  BY <1>2 DEF NotRunning
<1>4. HitsCounted' /\ Named' /\ DestroyedClean' /\ OneFaultLeavesNothing'
  BY <1>3 DEF HitsCounted, Named, DestroyedClean, OneFaultLeavesNothing, Ended, At
<1>5. UndisturbedInv'
  <2> SUFFICES ASSUME LeftBehind = <<>> PROVE UndisturbedInv'
    BY <1>3 DEF UndisturbedInv, Undisturbed
  <2>1. tool'.pc = "scenario" => OnPlan'
    BY <1>3 DEF OnPlan, Seeded
  <2> QED  BY <1>2, <1>3, <2>1 DEF UndisturbedInv, Ended, At
<1> QED  BY <1>1, <1>4, <1>5 DEF SafeInv

\* The fixture is there, as the scenario needs it.
LEMMA SeedFixtureIsSafe == ASSUME SafeInv, SeedFixture PROVE SafeInv'
<1>1. CleanInv'
  BY SeedFixtureKeeps DEF SafeInv
<1> DEFINE seed == Seed[tool.name]
           f == NewFixture(seed.rows, seed.mapping)
<1>2. /\ DOMAIN tool = Fields /\ tool.pc = "seed" /\ fixtures' = Append(fixtures, f)
      /\ tool' = [tool EXCEPT !.pc = "scenario", !.own = Len(fixtures) + 1]
  BY DEF SafeInv, CleanInv, Formed, SeedFixture, At
<1>3. /\ tool'.name = tool.name /\ tool'.hits = tool.hits /\ tool'.alone = tool.alone
      /\ tool'.lost = tool.lost /\ tool'.step = tool.step /\ tool'.held = tool.held
      /\ tool'.recovered = tool.recovered /\ tool'.shown = tool.shown
      /\ tool'.pc = "scenario" /\ tool'.own = Len(fixtures) + 1
  BY <1>2 DEF Fields
<1>4. HitsCounted' /\ Named' /\ DestroyedClean' /\ OneFaultLeavesNothing'
  BY <1>2, <1>3 DEF SafeInv, HitsCounted, Named, DestroyedClean, OneFaultLeavesNothing, Ended, At
<1>5. UndisturbedInv'
  <2> SUFFICES ASSUME Undisturbed PROVE UndisturbedInv'
    BY <1>3 DEF UndisturbedInv, Undisturbed
  <2>1. /\ tool.lost = {} /\ fixtures = <<>> /\ tool.step = 1 /\ ~tool.held
        /\ tool.recovered = 0 /\ DOMAIN tool.shown = {}
    BY <1>2 DEF SafeInv, UndisturbedInv
  <2>2. /\ f.enabled = seed.mapping.enabled /\ f.interval = seed.mapping.interval
        /\ f.next = seed.mapping.next /\ f.running = {} /\ f.discovery = {}
    BY DEF NewFixture
  <2> HIDE DEF f
  <2>3. tool'.own = 1 /\ DOMAIN fixtures' = {1} /\ fixtures'[1] = f
    BY <1>2, <1>3, <2>1
  <2>4. tool.name \in {"polling", "runtime"} => f.enabled /\ f.interval = 60 /\ f.next = Null
    BY <2>2 DEF Seed, PollingSeed, RuntimeSeed, Every
  <2>5. tool.name = "polling" => PollingPlan'
    BY <1>3, <2>1, <2>3, <2>4 DEF PollingPlan
  <2>6. tool.name = "runtime" => RuntimePlan'
    BY <1>3, <2>1, <2>2, <2>3, <2>4 DEF RuntimePlan
  <2>7. tool.name = "ingestion" => IngestionPlan'
    BY <1>3, <2>1 DEF IngestionPlan
  <2>8. OnPlan'
    BY <1>3, <2>3, <2>5, <2>6, <2>7 DEF OnPlan
  <2> QED  BY <1>3, <2>1, <2>8 DEF UndisturbedInv, Ended, At
<1> QED  BY <1>1, <1>4, <1>5 DEF SafeInv

\* At first no tool has run.
LEMMA SafeInit == ValidationInit => SafeInv
<1> SUFFICES ASSUME ValidationInit PROVE SafeInv
  OBVIOUS
<1>1. CleanInv
  BY CleanInit
<1>2. /\ tool.pc = "ended" /\ tool.hits = 0 /\ tool.lost = {} /\ tool.own = Null
      /\ tool.result # "FAIL"
  BY ValidationConstants DEF ValidationInit, NotRunning
<1>3. Rows = {}
  BY <1>2 DEF Rows
<1> QED  BY <1>1, <1>2, <1>3
         DEF SafeInv, HitsCounted, Named, DestroyedClean, UndisturbedInv, OneFaultLeavesNothing,
             Ended, At

\* SafeInv is inductive.
LEMMA SafeNext == SafeInv /\ [ValidationNext]_validationVars => SafeInv'
<1> SUFFICES ASSUME SafeInv, [ValidationNext]_validationVars PROVE SafeInv'
  OBVIOUS
<1>1. CASE \E name \in Tools : Start(name)
  BY <1>1, StartIsSafe
<1>2. CASE ToolStep
  BY <1>2, SeedFixtureIsSafe, ScenarioIsSafe, ScenarioEndsIsSafe, DeleteFixtureIsSafe,
     FixtureDeletedIsSafe, VerifyCleanIsSafe, GiveBackLockIsSafe, CloseLockSessionIsSafe,
     EndIsSafe DEF ToolStep
<1>3. CASE PollFails \/ StatementFails \/ SeedAnswerLost \/ LockSessionLost
  BY <1>3, FaultIsSafe
<1>4. CASE FinallyFails
  BY <1>4, FinallyFailsIsSafe
<1>5. CASE Kill
  BY <1>5, EndIsSafe
<1>6. CASE UNCHANGED validationVars
  <2>1. CleanInv'
    BY CleanNext DEF SafeInv
  <2> QED  BY <1>6, <2>1
           DEF validationVars, SafeInv, HitsCounted, Named, DestroyedClean, UndisturbedInv,
               Undisturbed, OnPlan, PollingPlan, RuntimePlan, IngestionPlan,
               OneFaultLeavesNothing, Rows, Own, Ended, At
<1> QED  BY <1>1, <1>2, <1>3, <1>4, <1>5, <1>6 DEF ValidationNext

\* A tool that finds the database empty and that nothing disturbs never reports FAIL:
\* each assertion of its scenario holds of the services, each DELETE of its cleanup
\* is accepted.
THEOREM CleanStartsPass == ValidationSpec => []CleanStartPasses
<1>1. SafeInv => CleanStartPasses
  BY DEF SafeInv, UndisturbedInv, Undisturbed, CleanStartPasses
<1> QED  BY <1>1, SafeInit, SafeNext, PTL DEF ValidationSpec

\* Whatever one statement fails, also one of the finally block or one in the middle of
\* the cleanup that is no transaction, a tool that started alone leaves no row behind.
THEOREM OneFaultIsCleanedUp == ValidationSpec => []OneFaultLeavesNothing
<1>1. SafeInv => OneFaultLeavesNothing
  BY DEF SafeInv
<1> QED  BY <1>1, SafeInit, SafeNext, PTL DEF ValidationSpec
=============================================================================
