---------------------------- MODULE CatalogSync ----------------------------
(***************************************************************************)
(* ContestRunCatalogSyncService.sync: a bounded one-shot synchronization   *)
(* that lists the contests of a source and makes sure that each has a row  *)
(* in contests, an identity in contest_external_ids and a mapping in       *)
(* collector_source_contests.  Operators own everything else in a mapping, *)
(* here its enabled flag.                                                  *)
(*                                                                         *)
(* Processes are kept apart by one advisory lock per environment and       *)
(* source, which belongs to a session that is idle meanwhile and can       *)
(* break.  Every discovered contest is a transaction of its own, one       *)
(* action per statement; unique keys make concurrent inserts of one        *)
(* identity or mapping wait and then fail.  The audit row in               *)
(* collector_runs has no mapping, so that recovery finalizes it by its     *)
(* age alone.                                                              *)
(***************************************************************************)
EXTENDS Discovery, Naturals

CONSTANTS Worker,           \* processes that synchronize
          TestId,           \* contest.run test ids
          Imported,         \* those an administrator may have entered before
          Listings,         \* evidence the source may answer with
          MaxContests,      \* maxContests
          StaleThreshold,   \* age at which recovery takes a run for abandoned
          Isolation,        \* what the database gives, the code sets nothing
          Faults,
          Null, Free,
          MaxRuns,          \* bound: discovery runs, kept by StartSync
          MaxTime           \* bound: Tick stops the clock here

ASSUME CatalogFaults ==
    Faults \subseteq {"crash", "database", "lost_ack", "session", "operator"}
ASSUME CatalogConstants ==
    /\ Imported \subseteq TestId /\ Listings \subseteq Seq(TestId)
    /\ MaxContests \in Nat \ {0} /\ StaleThreshold \in Nat
    /\ Isolation \in {"READ_COMMITTED", "REPEATABLE_READ"}
    /\ MaxRuns \in Nat /\ MaxTime \in Nat
    /\ Null \notin Nat \cup TestId \cup Worker \cup {"SUCCESS"} /\ Free \notin Worker

ASSUME TestIdsAreFinite == IsFiniteSet(TestId)

VARIABLES now,
          contests,     \* ids of the rows of contests
          identity,     \* contest_external_ids: the contest of each test id
          mapping,      \* collector_source_contests of the source, per contest
          runs,         \* DISCOVERY rows of collector_runs
          lock,         \* the discovery lock
          rowLock,      \* locked keys: of identities, of mappings
          sync          \* what each process is doing

catalog == <<contests, identity, mapping>>
catalogVars == <<now, catalog, runs, lock, rowLock, sync>>

ContestId == 1 .. Cardinality(TestId) + 1
MappingRow == [identity : TestId \cup {Null}, enabled : BOOLEAN]

ASSUME NullIsNoRow == Null \notin MappingRow

\* A run remembers the evidence its process was given, for the properties.  In
\* sync, at is observedAt until the run has it, failed says that a contest could
\* not be persisted; contest, created and seen belong to the open transaction:
\* the contest it works on, whether it inserted it, and the mapping it read.
Idle == [pc |-> "idle", at |-> 0, run |-> Null, todo |-> <<>>,
         failed |-> FALSE, outcome |-> Null,
         contest |-> Null, created |-> FALSE, seen |-> Null]

At(w, pc) == sync[w].pc = pc
Test(w)   == Head(sync[w].todo)
Contest(w) == sync[w].contest
------------------------------------------------------------------------------
\* Contest 1 may exist with some identities and an enabled mapping an
\* administrator made, linked to one of them or to none.
CatalogInit ==
    /\ now = 0
    /\ \E known \in SUBSET Imported :
          identity = [t \in TestId |-> IF t \in known THEN 1 ELSE Null]
    /\ contests = {identity[t] : t \in TestId} \ {Null}
    /\ \E row \in MappingRow \cup {Null} :
          /\ row # Null => 1 \in contests /\ row.enabled
          /\ row # Null /\ row.identity # Null => identity[row.identity] = 1
          /\ mapping = [c \in ContestId |-> IF c = 1 THEN row ELSE Null]
    /\ runs = <<>>
    /\ lock = Free
    /\ rowLock = [k \in TestId \cup ContestId |-> Free]
    /\ sync = [w \in Worker |-> Idle]

\* The source row is found and the time is taken, before the lock.
StartSync(w) ==
    /\ At(w, "idle")
    /\ Len(runs) + Cardinality({v \in Worker : sync[v].pc \in {"lock", "run"}}) < MaxRuns
    /\ sync' = [sync EXCEPT ![w] = [Idle EXCEPT !.pc = "lock", !.at = now]]
    /\ UNCHANGED <<now, catalog, runs, lock, rowLock>>

AcquireLock(w) ==
    /\ At(w, "lock")
    /\ lock = Free
    /\ lock' = w
    /\ sync' = [sync EXCEPT ![w].pc = "run"]
    /\ UNCHANGED <<now, catalog, runs, rowLock>>

LockedByOther(w) ==
    /\ At(w, "lock")
    /\ lock # Free
    /\ sync' = [sync EXCEPT ![w] = [Idle EXCEPT !.outcome = "LOCKED_BY_OTHER"]]
    /\ UNCHANGED <<now, catalog, runs, lock, rowLock>>

InsertRun(w) ==
    runs' = Append(runs, [outcome |-> "RUNNING", started |-> sync[w].at, evidence |-> <<>>])

\* Slip: the process takes the newest id there was before its own INSERT.
StartRunReadsIdFirst(w) ==
    /\ At(w, "run")
    /\ InsertRun(w)
    /\ sync' = [sync EXCEPT ![w].pc = "discover", ![w].at = 0, ![w].run = Len(runs)]
    /\ UNCHANGED <<now, catalog, lock, rowLock>>

StartDiscoveryRun(w) ==
    /\ At(w, "run")
    /\ InsertRun(w)
    /\ sync' = [sync EXCEPT ![w].pc = "discover", ![w].at = 0,
                            ![w].run = Len(runs) + 1]
    /\ UNCHANGED <<now, catalog, lock, rowLock>>

\* discover, a failure of a category request included; only nearest and month
\* can make it throw.
Discover(w) ==
    /\ At(w, "discover")
    /\ \/ \E evidence \in Listings :
             /\ sync' = [sync EXCEPT ![w].pc = "contest",
                                     ![w].todo = Selection(evidence, MaxContests)]
             /\ runs' = [runs EXCEPT ![sync[w].run].evidence = evidence]
       \/ sync' = [sync EXCEPT ![w].pc = "fail"] /\ UNCHANGED runs
    /\ UNCHANGED <<now, catalog, lock, rowLock>>
------------------------------------------------------------------------------
\* The transaction of one contest.  Its first SELECT fixes what a REPEATABLE
\* READ transaction sees of the mappings too.
ReadIdentity(w) ==
    LET c == identity[Test(w)]
    IN  /\ At(w, "contest")
        /\ sync[w].todo # <<>>
        /\ sync' = [sync EXCEPT ![w].pc = "identity", ![w].contest = c,
                                ![w].seen = IF c = Null THEN Null ELSE mapping[c]]
        /\ UNCHANGED <<now, catalog, runs, lock, rowLock>>

Grant(w, key) == /\ rowLock[key] \in {w, Free}
                 /\ rowLock' = [rowLock EXCEPT ![key] = w]

\* Ids that neither a committed row nor an open transaction has.
FreshContest ==
    CHOOSE c \in ContestId :
        c \notin contests \cup {sync[v].contest : v \in Worker}

\* INSERT of the contest and of its identity.
CreateContest(w) ==
    /\ At(w, "identity")
    /\ Contest(w) = Null
    /\ identity[Test(w)] = Null
    /\ Grant(w, Test(w))
    /\ sync' = [sync EXCEPT ![w].pc = "mapping", ![w].contest = FreshContest,
                            ![w].created = TRUE]
    /\ UNCHANGED <<now, catalog, runs, lock>>

UpdateEvidence(w) ==
    /\ At(w, "identity")
    /\ Contest(w) # Null
    /\ Grant(w, Test(w))
    /\ sync' = [sync EXCEPT ![w].pc = "mapping"]
    /\ UNCHANGED <<now, catalog, runs, lock>>

ReadMapping(w) ==
    /\ At(w, "mapping")
    /\ sync' = [sync EXCEPT ![w].pc = "write",
                            ![w].seen = IF Isolation = "REPEATABLE_READ" \/ sync[w].created
                                        THEN @ ELSE mapping[Contest(w)]]
    /\ UNCHANGED <<now, catalog, runs, lock, rowLock>>

InsertMapping(w) ==
    /\ At(w, "write")
    /\ sync[w].seen = Null
    /\ mapping[Contest(w)] = Null
    /\ Grant(w, Contest(w))
    /\ sync' = [sync EXCEPT ![w].pc = "commit"]
    /\ UNCHANGED <<now, catalog, runs, lock>>

LinkMapping(w) ==
    /\ At(w, "write")
    /\ sync[w].seen # Null
    /\ sync[w].seen.identity = Null
    /\ Grant(w, Contest(w))
    /\ sync' = [sync EXCEPT ![w].pc = "commit"]
    /\ UNCHANGED <<now, catalog, runs, lock>>

ReuseMapping(w) ==
    /\ At(w, "write")
    /\ sync[w].seen # Null
    /\ sync[w].seen.identity # Null
    /\ sync' = [sync EXCEPT ![w].pc = "commit"]
    /\ UNCHANGED <<now, catalog, runs, lock, rowLock>>

ReleaseKeys(w) ==
    rowLock' = [k \in DOMAIN rowLock |-> IF rowLock[k] = w THEN Free ELSE rowLock[k]]

\* On to the next contest of the list.
NextContest(w, failed) ==
    sync' = [sync EXCEPT ![w].pc = "contest", ![w].todo = Tail(@),
                         ![w].failed = @ \/ failed, ![w].contest = Null,
                         ![w].created = FALSE, ![w].seen = Null]

\* Slips: the mapping is upserted, disabled and linked to the identity just
\* seen; the link is repaired without looking at the one there is.
UpsertedMapping(w) == [identity |-> Test(w), enabled |-> FALSE]

RelinkedMapping(w) ==
    LET row == mapping[Contest(w)]
    IN  IF row = Null THEN [identity |-> Test(w), enabled |-> FALSE]
        ELSE [row EXCEPT !.identity = Test(w)]

\* The row of the mapping once the transaction has written it: created
\* disabled, or linked where the link was still null (WHERE ... IS NULL).
WrittenMapping(w) ==
    LET row == mapping[Contest(w)]
    IN  IF row = Null THEN [identity |-> Test(w), enabled |-> FALSE]
        ELSE IF row.identity = Null THEN [row EXCEPT !.identity = Test(w)]
        ELSE row

PublishContest(w) ==
    /\ At(w, "commit")
    /\ contests' = contests \cup {Contest(w)}
    /\ identity' = [identity EXCEPT ![Test(w)] = Contest(w)]
    /\ mapping' = [mapping EXCEPT ![Contest(w)] = WrittenMapping(w)]
    /\ ReleaseKeys(w)
    /\ UNCHANGED <<now, runs, lock>>

CommitContest(w) == PublishContest(w) /\ NextContest(w, FALSE)

CommitAnswerLost(w) == "lost_ack" \in Faults /\ PublishContest(w) /\ NextContest(w, TRUE)

\* The unique keys: another transaction has committed the identity or the
\* mapping this one wants to insert.
DuplicateKey(w) ==
    \/ At(w, "identity") /\ Contest(w) = Null /\ identity[Test(w)] # Null
    \/ At(w, "write") /\ sync[w].seen = Null /\ mapping[Contest(w)] # Null

InTransaction(w) == sync[w].pc \in {"identity", "mapping", "write", "commit"}

\* Slips: a contest that failed is skipped and forgotten; the contest is
\* inserted outside the transaction and outlives it.
ContestSkipped(w) ==
    /\ InTransaction(w)
    /\ DuplicateKey(w) \/ "database" \in Faults
    /\ ReleaseKeys(w)
    /\ NextContest(w, FALSE)
    /\ UNCHANGED <<now, catalog, runs, lock>>

ContestLeftBehind(w) ==
    /\ InTransaction(w)
    /\ DuplicateKey(w) \/ "database" \in Faults
    /\ ReleaseKeys(w)
    /\ NextContest(w, TRUE)
    /\ contests' = contests \cup (IF sync[w].created THEN {Contest(w)} ELSE {})
    /\ UNCHANGED <<now, identity, mapping, runs, lock>>

\* The transaction is rolled back and the synchronization goes on.
ContestFails(w) ==
    /\ InTransaction(w)
    /\ DuplicateKey(w) \/ "database" \in Faults
    /\ ReleaseKeys(w)
    /\ NextContest(w, TRUE)
    /\ UNCHANGED <<now, catalog, runs, lock>>
------------------------------------------------------------------------------
\* Slip: the audit row is finalized whatever its outcome is by now.
FinalizeAnyRun(w, outcome) ==
    runs' = [runs EXCEPT ![sync[w].run].outcome = outcome]

\* finishDiscoveryRun: UPDATE ... WHERE outcome = 'RUNNING', or it throws.
FinalizeRun(w, outcome) ==
    /\ runs[sync[w].run].outcome = "RUNNING"
    /\ runs' = [runs EXCEPT ![sync[w].run].outcome = outcome]

Persisted(w) == At(w, "contest") /\ sync[w].todo = <<>>
Outcome(w)  == IF sync[w].failed THEN "FAILED" ELSE "SUCCESS"
Result(w, outcome) == sync' = [sync EXCEPT ![w].pc = "release", ![w].outcome = outcome]

\* Slip: nothing looks at the number of rows the UPDATE changed.
FinishRunUnchecked(w) ==
    /\ Persisted(w)
    /\ IF runs[sync[w].run].outcome = "RUNNING"
       THEN FinalizeRun(w, Outcome(w)) ELSE UNCHANGED runs
    /\ Result(w, Outcome(w))
    /\ UNCHANGED <<now, catalog, lock, rowLock>>

FinishRun(w) ==
    /\ Persisted(w)
    /\ FinalizeRun(w, Outcome(w))
    /\ Result(w, Outcome(w))
    /\ UNCHANGED <<now, catalog, lock, rowLock>>

\* The run is no longer RUNNING, or the statement fails, or only its answer is
\* lost: the catch block is next.
FinishFails(w) ==
    /\ Persisted(w)
    /\ \/ "lost_ack" \in Faults /\ FinalizeRun(w, Outcome(w))
       \/ /\ runs[sync[w].run].outcome # "RUNNING" \/ "database" \in Faults
          /\ UNCHANGED runs
    /\ sync' = [sync EXCEPT ![w].pc = "fail"]
    /\ UNCHANGED <<now, catalog, lock, rowLock>>

\* open, GET_LOCK or the INSERT of the run fails, and there is no run to
\* finalize; the INSERT may have gone through.
NoRunStarted(w) ==
    /\ sync[w].pc \in {"lock", "run"}
    /\ \/ "database" \in Faults /\ UNCHANGED runs
       \/ "lost_ack" \in Faults /\ At(w, "run") /\ InsertRun(w)
    /\ Result(w, "FAILED")
    /\ UNCHANGED <<now, catalog, lock, rowLock>>

\* The catch block; its own failure changes the error code only.
FailRun(w) ==
    /\ At(w, "fail")
    /\ \/ FinalizeRun(w, "FAILED")
       \/ /\ runs[sync[w].run].outcome # "RUNNING" \/ "database" \in Faults
          /\ UNCHANGED runs
    /\ Result(w, "FAILED")
    /\ UNCHANGED <<now, catalog, lock, rowLock>>

\* releaseAndClose; an anomaly turns a success into a failure.
Release(w) ==
    /\ At(w, "release")
    /\ lock' = IF lock = w THEN Free ELSE lock
    /\ \E anomaly \in BOOLEAN :
          /\ lock # w => anomaly
          /\ anomaly => lock # w \/ "session" \in Faults
          /\ sync' = [sync EXCEPT ![w] = [Idle EXCEPT
                         !.run = sync[w].run,
                         !.outcome = IF anomaly THEN "FAILED" ELSE sync[w].outcome]]
    /\ UNCHANGED <<now, catalog, runs, rowLock>>
------------------------------------------------------------------------------
LoseSession ==
    /\ "session" \in Faults
    /\ lock # Free
    /\ lock' = Free
    /\ UNCHANGED <<now, catalog, runs, rowLock, sync>>

Crash(w) ==
    /\ "crash" \in Faults
    /\ ~At(w, "idle")
    /\ lock' = IF lock = w THEN Free ELSE lock
    /\ ReleaseKeys(w)
    /\ sync' = [sync EXCEPT ![w] = Idle]
    /\ UNCHANGED <<now, catalog, runs>>

\* Recovery of a run without a mapping: no lock, its age is enough.
RecoverByAge(r) ==
    /\ runs[r].outcome = "RUNNING"
    /\ runs[r].started + StaleThreshold <= now
    /\ runs' = [runs EXCEPT ![r].outcome = "FAILED"]
    /\ UNCHANGED <<now, catalog, lock, rowLock, sync>>

\* An operator starts the polling of a mapping discovery has made.
EnableMapping(c) ==
    /\ "operator" \in Faults
    /\ mapping[c] # Null
    /\ ~mapping[c].enabled
    /\ rowLock[c] = Free
    /\ mapping' = [mapping EXCEPT ![c].enabled = TRUE]
    /\ UNCHANGED <<now, contests, identity, runs, lock, rowLock, sync>>

Tick == /\ now < MaxTime
        /\ now' = now + 1
        /\ UNCHANGED <<catalog, runs, lock, rowLock, sync>>

SyncStep(w) ==
    \/ AcquireLock(w) \/ LockedByOther(w) \/ StartDiscoveryRun(w) \/ Discover(w)
    \/ ReadIdentity(w) \/ CreateContest(w) \/ UpdateEvidence(w) \/ ReadMapping(w)
    \/ InsertMapping(w) \/ LinkMapping(w) \/ ReuseMapping(w)
    \/ CommitContest(w) \/ CommitAnswerLost(w) \/ ContestFails(w)
    \/ FinishRun(w) \/ FinishFails(w) \/ NoRunStarted(w) \/ FailRun(w) \/ Release(w)

CatalogNext ==
    \/ Tick
    \/ LoseSession
    \/ \E c \in ContestId : EnableMapping(c)
    \/ \E r \in DOMAIN runs : RecoverByAge(r)
    \/ \E w \in Worker : StartSync(w) \/ SyncStep(w) \/ Crash(w)

CatalogSpec == CatalogInit /\ [][CatalogNext]_catalogVars
------------------------------------------------------------------------------
\* The catalog, its runs and its processes have the values their types allow;
\* a process that has discovered owns a run.
CatalogTypeOK ==
    /\ contests \subseteq ContestId
    /\ identity \in [TestId -> contests \cup {Null}]
    /\ mapping \in [ContestId -> MappingRow \cup {Null}]
    /\ runs \in Seq([outcome : {"RUNNING", "SUCCESS", "FAILED"}, started : Nat,
                     evidence : Seq(TestId)])
    /\ lock \in Worker \cup {Free}
    /\ rowLock \in [TestId \cup ContestId -> Worker \cup {Free}]
    /\ \A w \in Worker :
          sync[w].pc \in {"discover", "contest", "identity", "mapping", "write", "commit",
                          "fail"} =>
              sync[w].run \in DOMAIN runs

\* Every contest has an identity, also when transactions for one test id
\* collide or fail half way: a test id never gets a second contest (docs: the
\* unique identity prevents a second internal contest for a source/testid).
NoContestWithoutIdentity ==
    \A c \in contests : \E t \in TestId : identity[t] = c

\* Discovery never changes the enabled flag of a mapping that exists, and the
\* mappings it makes are disabled (docs: existing mappings retain enabled state).
OperatorOwnsEnabled ==
    [][\A c \in ContestId : sync' # sync /\ mapping'[c] # mapping[c] =>
          mapping'[c].enabled = (mapping[c] # Null /\ mapping[c].enabled)]_catalogVars

\* A link to an identity is repaired from null at most once and never moved,
\* and it names an identity of the mapping's own contest, also when two test
\* ids share a contest (docs: only a null external identity link may be
\* repaired).
LinksAreRepairedOnly ==
    [][\A c \in ContestId : mapping[c] # Null /\ mapping[c].identity # Null =>
          /\ mapping'[c].identity = mapping[c].identity
          /\ identity'[mapping[c].identity] = c]_catalogVars

\* A run recorded SUCCESS has catalogued everything the source listed within
\* the limit: identity, contest and mapping.
SuccessIsCatalogued ==
    \A r \in DOMAIN runs : runs[r].outcome = "SUCCESS" =>
        \A t \in Listed(runs[r].evidence, MaxContests) :
            identity[t] # Null /\ mapping[identity[t]] # Null

\* The outcome of a discovery run is decided once, by its process or by a
\* recovery that took it for abandoned, whoever comes first.
AuditIsFinal ==
    [][\A r \in DOMAIN runs :
          runs[r].outcome # "RUNNING" => runs'[r].outcome = runs[r].outcome]_catalogVars

\* A process that reports SUCCESS has a run that is recorded SUCCESS, also when
\* recovery, the loss of its session or of an answer interferes.
ReportedSuccessIsRecorded ==
    \A w \in Worker : sync[w].outcome = "SUCCESS" => runs[sync[w].run].outcome = "SUCCESS"
=============================================================================
