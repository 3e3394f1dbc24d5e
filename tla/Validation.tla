---------------------------- MODULE Validation ----------------------------
(***************************************************************************)
(* The validation tools run one after the other against one test database, *)
(* as their commands are documented.  Each one seeds a fixture of its own, *)
(* plays its scenario through the real services, deletes the fixture,      *)
(* counts what is left and reports PASS; its finally block gives back the  *)
(* lock, closes the lock's session, deletes the fixture if that has not    *)
(* been done, and destroys the pool.                                       *)
(*                                                                         *)
(* A tool that is killed leaves its fixture behind.  Fixtures have         *)
(* namespaces of their own, but a polling cycle and a recovery look at the *)
(* mappings and the runs of all of them: an enabled mapping or a RUNNING   *)
(* run that was left behind is polled or recovered by later tools.  One    *)
(* action per step of a scenario, two for those that have a RUNNING run    *)
(* meanwhile.                                                              *)
(***************************************************************************)
EXTENDS ValidationTools

CONSTANTS CatalogClock,   \* when a synchronization may start: it reads the real clock
          MaxFaults,      \* bound: statements and requests that fail
          MaxKills        \* bound: tools that are killed

ASSUME ValidationConstants ==
    /\ CatalogClock \subseteq Nat
    /\ MaxFaults \in Nat /\ MaxKills \in Nat
    /\ Null \notin Nat \cup {"PASS", "FAIL", "KILLED"}

VARIABLES fixtures,     \* the fixtures that have rows, oldest first
          tool,         \* the tool that runs
          faults, kills \* how many there were

validationVars == <<fixtures, tool, faults, kills>>

Tools == {"polling", "runtime", "catalog", "displayscore", "ingestion",
          "behaviour", "preflight", "schema", "connectivity"}

Seeded == {"polling", "runtime", "catalog", "displayscore", "ingestion"}

Seed == [polling |-> PollingSeed, runtime |-> RuntimeSeed, catalog |-> CatalogSeed,
         displayscore |-> DisplayScoreSeed, ingestion |-> IngestionSeed]

Steps == [polling |-> PollingSteps, runtime |-> RuntimeSteps, catalog |-> CatalogSteps,
          displayscore |-> DisplayScoreSteps, ingestion |-> IngestionSteps,
          behaviour |-> BehaviourSteps, preflight |-> PreflightSteps,
          schema |-> SchemaSteps, connectivity |-> ConnectivitySteps]

Cleanup == [polling |-> PollingCleanup, runtime |-> RuntimeCleanup,
            catalog |-> CatalogCleanup, displayscore |-> DisplayScoreCleanup,
            ingestion |-> IngestionCleanup]

Counts == [polling |-> PollingCounts, runtime |-> RuntimeCounts,
           catalog |-> CatalogCounts, displayscore |-> DisplayScoreCounts,
           ingestion |-> IngestionCounts]

\* Of a running tool: where it is, the fixture it owns, the lock of its scenario,
\* whether cleaned is set, the fixture a cycle works on, what recoveries did, the
\* timelines of its stations, what it has lost (the session of its lock, the
\* answer to the COMMIT of its fixture).  alone and hits are kept for the
\* properties: it started on an empty database, so many faults have hit it.
NotRunning == [name |-> Null, pc |-> "ended", step |-> 1, own |-> Null, held |-> FALSE,
               cleaned |-> FALSE, on |-> Null, recovered |-> 0,
               shown |-> [entry \in {} |-> 0], todo |-> <<>>, passes |-> FALSE,
               lost |-> {}, result |-> Null, alone |-> TRUE, hits |-> 0]

At(pc)  == tool.pc = pc
Step    == Steps[tool.name][tool.step]
Doing(op) == /\ At("scenario")
             /\ tool.step <= Len(Steps[tool.name])
             /\ Step.op = op
Own     == fixtures[tool.own]
Rows    == IF tool.own = Null THEN {} ELSE Own.rows

NextStep(t) == [t EXCEPT !.pc = "scenario", !.step = @ + 1]

\* An assertion of the step holds, or it throws.
Claim(condition, t) == IF condition THEN NextStep(t) ELSE [t EXCEPT !.pc = "unlock"]

NoFault == UNCHANGED <<faults, kills>>
------------------------------------------------------------------------------
ValidationInit ==
    /\ fixtures = <<>>
    /\ tool = NotRunning
    /\ faults = 0 /\ kills = 0

\* The fixture that the last tool has deleted is no longer there.
LeftBehind ==
    IF fixtures # <<>> /\ Last(fixtures).rows = {} THEN Front(fixtures) ELSE fixtures

\* The URL names the test database, and so does SELECT DATABASE().
Start(name) ==
    /\ At("ended")
    /\ fixtures' = LeftBehind
    /\ tool' = [NotRunning EXCEPT !.name = name, !.alone = (LeftBehind = <<>>),
                                  !.pc = IF name \in Seeded THEN "seed" ELSE "scenario"]
    /\ NoFault

NewFixture(rows, mapping) ==
    [rows |-> rows, enabled |-> mapping.enabled, interval |-> mapping.interval,
     next |-> mapping.next, running |-> {}, discovery |-> {}]

\* One transaction, or one statement.
SeedFixture ==
    LET seed == Seed[tool.name]
    IN  /\ At("seed")
        /\ fixtures' = Append(fixtures, NewFixture(seed.rows, seed.mapping))
        /\ tool' = [tool EXCEPT !.pc = "scenario", !.own = Len(fixtures) + 1]
        /\ NoFault

CheckHolds ==
    /\ \/ Doing("check")
       \/ Doing("fetch")
    /\ tool' = NextStep(tool)
    /\ UNCHANGED fixtures /\ NoFault

\* The sources table must be empty.
CheckEmpty ==
    /\ Doing("empty")
    /\ tool' = Claim(\A f \in ToSet(fixtures) : "sources" \notin f.rows, tool)
    /\ UNCHANGED fixtures /\ NoFault

RejectMalformed ==
    /\ Doing("malformed")
    /\ tool' = [tool EXCEPT !.pc = "unlock"]
    /\ UNCHANGED fixtures /\ NoFault

InsertRows ==
    /\ Doing("insert")
    /\ IF tool.own = Null
       THEN /\ fixtures' = Append(fixtures, NewFixture(Step.tables, NoMapping))
            /\ tool' = [NextStep(tool) EXCEPT !.own = Len(fixtures) + 1]
       ELSE /\ fixtures' = [fixtures EXCEPT ![tool.own].rows = @ \cup Step.tables]
            /\ tool' = NextStep(tool)
    /\ NoFault

\* What the services make of one observation of a confirmed UTC source.
Observe(entry, at) ==
    LET rows == {[at |-> tool.shown[e], source |-> 1] : e \in {entry} \cap DOMAIN tool.shown}
        seen == \E k \in 1 .. tool.step - 1 :
                   LET earlier == Steps[tool.name][k]
                   IN  earlier.op = "ingest" /\ earlier.entry = entry /\ earlier.at = at
    IN  IF seen THEN "DUPLICATE"
        ELSE Decide([at |-> at, source |-> 1, status |-> "ACCEPTED",
                     quality |-> "CONFIRMED_UTC"], rows)

StoredIn(answer) ==
    CASE answer = "DUPLICATE"          -> {"raw_messages"}
      [] answer = "OUT_OF_ORDER"       -> ScoreTables \cup {"score_snapshot_flags"}
      [] answer \in CanonicalDecisions -> ScoreTables \cup Canonical
      [] OTHER                         -> ScoreTables

IngestObservation ==
    /\ Doing("ingest")
    /\ LET answer == Observe(Step.entry, Step.at)
           shown == [e \in DOMAIN tool.shown \cup {Step.entry} |->
                        IF e = Step.entry /\ answer \in CanonicalDecisions
                        THEN Step.at ELSE tool.shown[e]]
       IN  /\ fixtures' = [fixtures EXCEPT ![tool.own].rows = @ \cup StoredIn(answer)]
           /\ tool' = Claim(answer = Step.expect, [tool EXCEPT !.shown = shown])
    /\ NoFault
------------------------------------------------------------------------------
\* The polling cycle of a tool: it takes one mapping, the first that is due,
\* whatever its source.  (The query of the PHP port, which no tool runs, pins it.)
Due(k, at) == /\ fixtures[k].enabled
              /\ fixtures[k].next = Null \/ fixtures[k].next <= at

Earlier(j, k) ==
    LET p == fixtures[j].next
        q == fixtures[k].next
    IN  \/ p = Null /\ q # Null
        \/ p # Null /\ q # Null /\ p < q
        \/ p = q /\ j < k

FirstDue(at) == {k \in DOMAIN fixtures :
                    Due(k, at) /\ \A j \in DOMAIN fixtures \ {k} : Due(j, at) => Earlier(k, j)}

RunStarts(k, at) ==
    fixtures' = [fixtures EXCEPT ![k].rows = @ \cup {"collector_runs"},
                                 ![k].running = @ \cup {at}]

\* The assertion of a cycle, given the fixture it polled and its outcome.
Expected(polled, outcome) ==
    CASE Step.expect = "own"    -> polled = tool.own /\ outcome = "SUCCESS"
      [] Step.expect = "none"   -> polled = Null
      [] Step.expect = "locked" -> outcome = "LOCKED_BY_OTHER"
      [] Step.expect = "any"    -> polled # Null

\* Nothing is due, or what is due is locked by the tool's other session.
CycleWithoutPoll ==
    /\ Doing("poll")
    /\ \/ /\ FirstDue(Step.at) = {}
          /\ tool' = Claim(Expected(Null, "NONE"), tool)
       \/ /\ FirstDue(Step.at) = {tool.own}
          /\ tool.held
          /\ tool' = Claim(Expected(tool.own, "LOCKED_BY_OTHER"), tool)
    /\ UNCHANGED fixtures /\ NoFault

CyclePolls ==
    /\ Doing("poll")
    /\ \E k \in FirstDue(Step.at) :
          /\ ~(k = tool.own /\ tool.held)
          /\ RunStarts(k, Step.at)
          /\ tool' = [tool EXCEPT !.pc = "polling", !.on = k]
    /\ NoFault

Ends(k, at, tables, next) ==
    fixtures' = [fixtures EXCEPT ![k].rows = @ \cup tables, ![k].running = @ \ {at},
                                 ![k].discovery = @ \ {at}, ![k].next = next]

\* Slip: a run is finalized and its mapping stays due.
PollKeepsSchedule ==
    /\ At("polling")
    /\ Ends(tool.on, Step.at, ScoreTables, fixtures[tool.on].next)
    /\ tool' = Claim(Expected(tool.on, "SUCCESS"), tool)
    /\ NoFault

\* The source is asked, its receipt is ingested, run and schedule are finalized.
PollSucceeds ==
    /\ At("polling")
    /\ Ends(tool.on, Step.at, ScoreTables, Step.at + fixtures[tool.on].interval)
    /\ tool' = Claim(Expected(tool.on, "SUCCESS"), tool)
    /\ NoFault

Fault == /\ faults < MaxFaults
         /\ faults' = faults + 1
         /\ UNCHANGED kills

\* The cycle survives: the run is FAILED, or it could not be finalized.
PollFails ==
    /\ At("polling")
    /\ \/ Ends(tool.on, Step.at, {}, Step.at + fixtures[tool.on].interval)
       \/ UNCHANGED fixtures
    /\ tool' = Claim(Expected(tool.on, "FAILED"), [tool EXCEPT !.hits = @ + 1])
    /\ Fault

InsertStaleRun ==
    /\ Doing("stale")
    /\ RunStarts(tool.own, Step.at)
    /\ tool' = NextStep(tool)
    /\ NoFault

\* Of a fixture and the time its run was started.
Stale == {run \in (DOMAIN fixtures) \X (UNION {f.running : f \in ToSet(fixtures)}) :
             run[2] \in fixtures[run[1]].running /\ run[2] + Step.age <= Step.at}

Recoverable == {run \in Stale : ~(run[1] = tool.own /\ tool.held)}

\* The run of a synchronization (discovery) names no mapping and is recovered
\* without one.
Reschedules(k, at) == fixtures[k].enabled /\ at \notin fixtures[k].discovery

\* Each candidate is FAILED; its mapping, if enabled, is due an interval later.
RecoverRun ==
    /\ Doing("recover")
    /\ \E run \in Recoverable :
          Ends(run[1], run[2], {},
               IF Reschedules(run[1], run[2]) THEN Step.at + fixtures[run[1]].interval
               ELSE fixtures[run[1]].next)
    /\ tool' = [tool EXCEPT !.recovered = @ + 1]
    /\ NoFault

RecoveryEnds ==
    /\ Doing("recover")
    /\ Recoverable = {}
    /\ tool' = Claim(CASE Step.expect = "recovered" -> tool.recovered = 1
                        [] Step.expect = "skipped"   -> Cardinality(Stale) = 1
                        [] Step.expect = "any"       -> TRUE,
                      [tool EXCEPT !.recovered = 0])
    /\ UNCHANGED fixtures /\ NoFault

SyncStarts ==
    /\ Doing("sync")
    /\ \E at \in CatalogClock :
          fixtures' = [fixtures EXCEPT ![tool.own].rows = @ \cup {"collector_runs"},
                                       ![tool.own].running = @ \cup {at},
                                       ![tool.own].discovery = {at}]
    /\ tool' = [tool EXCEPT !.pc = "syncing"]
    /\ NoFault

SyncEnds ==
    /\ At("syncing")
    /\ fixtures' = [fixtures EXCEPT ![tool.own].rows = @ \cup Step.tables,
                                    ![tool.own].running = {}, ![tool.own].discovery = {}]
    /\ tool' = NextStep(tool)
    /\ NoFault

\* An operator's change of a mapping.
EnableMapping ==
    /\ Doing("enable")
    /\ fixtures' = [fixtures EXCEPT ![tool.own].enabled = TRUE,
                                    ![tool.own].interval = Step.interval]
    /\ tool' = NextStep(tool)
    /\ NoFault

HoldLock ==
    /\ Doing("hold")
    /\ tool' = [NextStep(tool) EXCEPT !.held = TRUE]
    /\ UNCHANGED fixtures /\ NoFault

ReleaseLock ==
    /\ Doing("release")
    /\ tool' = [NextStep(tool) EXCEPT !.held = FALSE]
    /\ UNCHANGED fixtures /\ NoFault
------------------------------------------------------------------------------
\* The scenario is over: cleanup, and what comes of it.
ScenarioEnds ==
    /\ At("scenario")
    /\ tool.step > Len(Steps[tool.name])
    /\ tool' = IF tool.name \in Seeded
               THEN [tool EXCEPT !.pc = "cleanup", !.todo = Cleanup[tool.name]]
               ELSE [tool EXCEPT !.pc = "unlock", !.passes = TRUE]
    /\ UNCHANGED fixtures /\ NoFault

Transactional == {"polling", "runtime", "catalog", "displayscore"}

Statements == IF tool.name \in Transactional THEN tool.todo ELSE <<Head(tool.todo)>>

\* The DELETE statements in one transaction, or each for itself; a rejected
\* one throws.  In the finally block the pool is destroyed next.
DeleteFixture ==
    /\ tool.pc \in {"cleanup", "retry"} /\ tool.todo # <<>>
    /\ LET left == Deleted(Rows, Statements)
       IN  IF Rejected(Rows, Statements)
           THEN /\ tool' = [tool EXCEPT !.pc = IF At("retry") THEN "ended" ELSE "unlock",
                                        !.result = IF At("retry") THEN "FAIL" ELSE @]
                /\ UNCHANGED fixtures
           ELSE /\ tool' = [tool EXCEPT !.todo = SubSeq(@, Len(Statements) + 1, Len(@))]
                /\ fixtures' = [fixtures EXCEPT
                       ![tool.own].rows = left,
                       ![tool.own].running =
                           IF "collector_runs" \in left THEN @ ELSE {},
                       ![tool.own].discovery =
                           IF "collector_runs" \in left THEN @ ELSE {},
                       ![tool.own].enabled =
                           @ /\ "collector_source_contests" \in left]
    /\ NoFault

FixtureDeleted ==
    /\ tool.pc \in {"cleanup", "retry"} /\ tool.todo = <<>>
    /\ tool' = [tool EXCEPT !.cleaned = TRUE,
                            !.pc = IF At("retry") THEN "destroy" ELSE "verify"]
    /\ UNCHANGED fixtures /\ NoFault

VerifyClean ==
    /\ At("verify")
    /\ tool' = [tool EXCEPT !.pc = "unlock",
                            !.passes = (Counts[tool.name] \cap Rows = {})]
    /\ UNCHANGED fixtures /\ NoFault

\* The finally block.
GiveBackLock ==
    /\ At("unlock") /\ ~(tool.held /\ "session" \in tool.lost)
    /\ tool' = [tool EXCEPT !.held = FALSE, !.pc = "close"]
    /\ UNCHANGED fixtures /\ NoFault

\* Slip: the finally block leaves a failed fixture to be looked at.
CloseLockSessionOnly ==
    /\ At("close")
    /\ tool' = [tool EXCEPT !.pc = "destroy"]
    /\ UNCHANGED fixtures /\ NoFault

CloseLockSession ==
    /\ At("close")
    /\ tool' = IF tool.own # Null /\ tool.name \in Seeded /\ ~tool.cleaned
               THEN [tool EXCEPT !.pc = "retry", !.todo = Cleanup[tool.name]]
               ELSE [tool EXCEPT !.pc = "destroy"]
    /\ UNCHANGED fixtures /\ NoFault

DestroyPool ==
    /\ At("destroy")
    /\ tool' = [tool EXCEPT !.pc = "ended", !.result = IF tool.passes THEN "PASS" ELSE "FAIL"]
    /\ UNCHANGED fixtures /\ NoFault
------------------------------------------------------------------------------
\* A statement or a request fails before the finally block.
StatementFails ==
    /\ tool.pc \in {"seed", "scenario", "syncing", "cleanup", "verify"}
    /\ tool' = [tool EXCEPT !.pc = "unlock", !.hits = @ + 1]
    /\ UNCHANGED fixtures /\ Fault

\* The COMMIT of the fixture was done, but its answer is lost.
SeedAnswerLost ==
    LET seed == Seed[tool.name]
    IN  /\ At("seed")
        /\ fixtures' = Append(fixtures, NewFixture(seed.rows, seed.mapping))
        /\ tool' = [tool EXCEPT !.pc = "unlock", !.lost = @ \cup {"fixture"}, !.hits = @ + 1]
        /\ Fault

\* The session of the lock is gone when the scenario gives it back, so that the
\* finally block, which starts with giving it back, throws too.
LockSessionLost ==
    /\ Doing("release") /\ tool.held /\ tool.name \in Seeded
    /\ tool' = [tool EXCEPT !.pc = "unlock", !.lost = @ \cup {"session"}, !.hits = @ + 1]
    /\ UNCHANGED fixtures /\ Fault

GiveBackThrows ==
    /\ At("unlock") /\ tool.held /\ "session" \in tool.lost
    /\ tool' = [tool EXCEPT !.pc = "ended", !.result = "FAIL"]
    /\ UNCHANGED fixtures /\ NoFault

\* One of the finally block fails: what follows it is skipped, except that the
\* connectivity tool attempts all of it.
FinallyFails ==
    /\ tool.pc \in {"unlock", "close", "retry", "destroy"}
    /\ tool' = IF tool.name = "connectivity" /\ ~At("destroy")
               THEN [tool EXCEPT !.pc = "destroy", !.passes = FALSE, !.hits = @ + 1]
               ELSE [tool EXCEPT !.pc = "ended", !.result = "FAIL", !.hits = @ + 1]
    /\ UNCHANGED fixtures /\ Fault

Kill ==
    /\ ~At("ended")
    /\ kills < MaxKills
    /\ kills' = kills + 1
    /\ tool' = [tool EXCEPT !.pc = "ended", !.result = "KILLED"]
    /\ UNCHANGED <<fixtures, faults>>

ScenarioStep ==
    \/ CheckHolds \/ CheckEmpty \/ RejectMalformed \/ InsertRows \/ IngestObservation
    \/ CycleWithoutPoll \/ CyclePolls \/ PollSucceeds
    \/ InsertStaleRun \/ RecoverRun \/ RecoveryEnds
    \/ SyncStarts \/ SyncEnds \/ EnableMapping \/ HoldLock \/ ReleaseLock

ToolStep ==
    \/ SeedFixture \/ ScenarioStep \/ ScenarioEnds
    \/ DeleteFixture \/ FixtureDeleted \/ VerifyClean
    \/ GiveBackLock \/ GiveBackThrows \/ CloseLockSession \/ DestroyPool

ValidationNext ==
    \/ \E name \in Tools : Start(name)
    \/ ToolStep
    \/ PollFails \/ StatementFails \/ SeedAnswerLost \/ LockSessionLost
    \/ FinallyFails \/ Kill

\* The tools that poll: they depend on what others left behind.
PollingTools == {"polling", "runtime"}

\* A tool that runs gets on with it, and these are run again and again.
ValidationSpec ==
    /\ ValidationInit /\ [][ValidationNext]_validationVars
    /\ WF_validationVars(ToolStep)
    /\ \A name \in PollingTools : SF_validationVars(Start(name))
------------------------------------------------------------------------------
Ended(result) == At("ended") /\ tool.result = result

\* A tool that owns a fixture passes only when no row of it is left in any table,
\* although each tool counts only some of the tables.
PassLeavesNothing == Ended("PASS") /\ tool.name \in Seeded => Rows = {}

\* Whatever one statement or request fails, in the middle of a cleanup that is
\* no transaction too, a tool that is alone in the database removes its rows,
\* unless it does not know of them or cannot give its lock back.
OneFaultLeavesNothing ==
    Ended("FAIL") /\ tool.alone /\ tool.hits <= 1 /\ tool.lost = {} /\ tool.name \in Seeded
        => Rows = {}

\* A tool that finds the database empty and that nothing disturbs passes: its
\* assertions are true of the services, each DELETE meets its foreign keys.
\* (The behaviour tool cannot: see BehaviourSteps.)
CleanStartPasses ==
    tool.alone /\ tool.hits = 0 /\ tool.name # "behaviour" => ~Ended("FAIL")

\* A fixture that was left behind makes later tools fail, but not for ever: the
\* tools that trip over it reschedule its mapping and finalize its runs.
ValidationsHeal ==
    \A name \in PollingTools : []<>(Ended("PASS") /\ tool.name = name)
=============================================================================
