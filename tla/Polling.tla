------------------------------ MODULE Polling ------------------------------
(***************************************************************************)
(* CollectorPollingService.runCycle and its PHP port CollectorCycle: the   *)
(* processes of the collector share a table of source contests to poll     *)
(* (collector_source_contests, "mappings"), a table of collector_runs and  *)
(* one MySQL advisory lock per mapping.                                    *)
(*                                                                         *)
(* A cycle selects the due mappings once and then works on all of them at  *)
(* the same time, each in a task of its own (TypeScript; the PHP cycle     *)
(* takes them one after the other, which is one of the interleavings).     *)
(* One action per await of a task: GET_LOCK, INSERT of the run, the HTTP   *)
(* request with its ingestion, the finalizing transaction, RELEASE_LOCK.   *)
(*                                                                         *)
(* The advisory lock belongs to a database session that is idle during the *)
(* HTTP request; if that session breaks, the lock is free again and the    *)
(* task does not learn it before it releases.  Times are natural numbers   *)
(* read from one application UTC clock; a time that is written by a later  *)
(* statement is the one read before that statement was sent (at).          *)
(***************************************************************************)
EXTENDS Naturals, Sequences, FiniteSets

CONSTANTS Worker,       \* collector processes
          Mapping,      \* ids of collector_source_contests
          Interval,     \* poll_interval_seconds, 0 when null or invalid
          MaxMappings,  \* maxMappingsPerCycle
          Faults,       \* what the environment may do, see below
          Null,         \* no next_poll_at, no finished_at, no run
          Free,         \* owner of an advisory lock nobody holds
          MaxRuns,      \* bound: rows of collector_runs, kept by SelectDueMappings
          MaxTime       \* bound: Tick stops the clock here

\* A process dies; a database statement fails; a COMMIT succeeds but its
\* answer is lost; the session of a lock breaks, or RELEASE_LOCK fails in one
\* that does not; an operator disables or enables a mapping.  Runtime adds a
\* failing selection and a signal to stop.
ASSUME PollingFaults ==
    Faults \subseteq {"crash", "database", "lost_ack", "session", "release",
                      "operator", "selection", "stop"}
ASSUME PollingConstants ==
    /\ Mapping \subseteq Nat
    /\ Interval \in [Mapping -> Nat]
    /\ MaxMappings \in Nat \ {0}
    /\ MaxRuns \in Nat /\ MaxTime \in Nat
    /\ Null \notin Nat /\ Free \notin Worker

VARIABLES now,          \* the clock
          mapping,      \* enabled and next_poll_at of each mapping
          runs,         \* collector_runs, the id is the position
          lock,         \* advisory locks: the process whose session owns each
          task          \* what each process is doing for each mapping

database == <<mapping, runs>>
pollingVars == <<now, mapping, runs, lock, task>>

\* ABANDONED and CORRECTED stand for FAILED with the codes that only a recovery
\* (ABANDONED_RUN_RECOVERED) and CorrectRun (LOCK_RELEASE_ANOMALY) write.
Outcomes == {"RUNNING", "SUCCESS", "FAILED", "ABANDONED", "CORRECTED"}
Run      == [mapping : Mapping, outcome : Outcomes, started : Nat,
             finished : Nat \cup {Null}]

\* at is the time the next statement will write, outcome the result the task
\* will return.
NoTask == [pc |-> "none", run |-> Null, at |-> 0, outcome |-> "none"]

Valid(m) == Interval[m] > 0

IsDue(m) == /\ mapping[m].enabled
            /\ mapping[m].next = Null \/ mapping[m].next <= now

\* ORDER BY next_poll_at with nulls first, then id; LIMIT MaxMappings.
Before(m, n) ==
    LET p == mapping[m].next
        q == mapping[n].next
    IN  \/ p = Null /\ q # Null
        \/ p # Null /\ q # Null /\ p < q
        \/ p = q /\ m < n

Selected == {m \in Mapping : /\ IsDue(m)
                             /\ Cardinality({n \in Mapping : IsDue(n) /\ Before(n, m)})
                                  < MaxMappings}

\* Tasks that may still insert a run; bounds the cycles that can be started.
Pending == {t \in Worker \X Mapping :
               Valid(t[2]) /\ task[t[1]][t[2]].pc \in {"open", "start"}}

At(w, m, pc) == task[w][m].pc = pc
BecomeAt(w, m, pc) == task' = [task EXCEPT ![w][m].pc = pc, ![w][m].at = now]
EndTask(w, m)    == task' = [task EXCEPT ![w][m] = NoTask]
------------------------------------------------------------------------------
PollingInit ==
    /\ now = 0
    /\ mapping = [m \in Mapping |-> [enabled |-> TRUE, next |-> Null]]
    /\ runs = <<>>
    /\ lock = [m \in Mapping |-> Free]
    /\ task = [w \in Worker |-> [m \in Mapping |-> NoTask]]

SelectDueMappings(w) ==
    /\ \A m \in Mapping : At(w, m, "none")
    /\ Selected # {}
    /\ Len(runs) + Cardinality(Pending) + Cardinality({m \in Selected : Valid(m)}) <= MaxRuns
    /\ task' = [task EXCEPT ![w] = [m \in Mapping |->
                   IF m \in Selected
                   THEN [NoTask EXCEPT !.pc = "open"]
                   ELSE NoTask]]
    /\ UNCHANGED <<now, database, lock>>

InvalidConfiguration(w, m) ==
    /\ At(w, m, "open")
    /\ ~Valid(m)
    /\ EndTask(w, m)
    /\ UNCHANGED <<now, database, lock>>

\* Slip: the result of GET_LOCK is not looked at.
AcquireLockUnchecked(w, m) ==
    /\ At(w, m, "open")
    /\ Valid(m)
    /\ lock' = IF lock[m] = Free THEN [lock EXCEPT ![m] = w] ELSE lock
    /\ BecomeAt(w, m, "start")
    /\ UNCHANGED <<now, database>>

AcquireLock(w, m) ==
    /\ At(w, m, "open")
    /\ Valid(m)
    /\ lock[m] = Free
    /\ lock' = [lock EXCEPT ![m] = w]
    /\ BecomeAt(w, m, "start")
    /\ UNCHANGED <<now, database>>

LockedByOther(w, m) ==
    /\ At(w, m, "open")
    /\ Valid(m)
    /\ lock[m] # Free
    /\ EndTask(w, m)
    /\ UNCHANGED <<now, database, lock>>

InsertRun(w, m) ==
    runs' = Append(runs, [mapping |-> m, outcome |-> "RUNNING",
                          started |-> task[w][m].at, finished |-> Null])

\* Slip: the task takes the newest id there was before its own INSERT.
StartRunReadsIdFirst(w, m) ==
    /\ At(w, m, "start")
    /\ InsertRun(w, m)
    /\ task' = [task EXCEPT ![w][m].pc = "fetch", ![w][m].run = Len(runs),
                            ![w][m].at = 0]
    /\ UNCHANGED <<now, mapping, lock>>

StartRun(w, m) ==
    /\ At(w, m, "start")
    /\ InsertRun(w, m)
    /\ task' = [task EXCEPT ![w][m].pc = "fetch", ![w][m].run = Len(runs) + 1,
                            ![w][m].at = 0]
    /\ UNCHANGED <<now, mapping, lock>>

\* The HTTP request and CollectorIngestionService.ingest; a receipt that ends
\* FAILED is a failed source run.
RunSource(w, m) ==
    /\ At(w, m, "fetch")
    /\ \E pc \in {"success", "failure"} : BecomeAt(w, m, pc)
    /\ UNCHANGED <<now, database, lock>>

\* Slip: the run is updated in a transaction of its own, before the schedule.
FinalizeRunOnly(w, m, outcome) ==
    LET r == task[w][m].run
        at == task[w][m].at
    IN  /\ runs' = [runs EXCEPT ![r].outcome = outcome, ![r].finished = at]
        /\ mapping' = IF mapping[m].enabled
                      THEN [mapping EXCEPT ![m].next = at + Interval[m]] ELSE mapping

\* finalizeRunAndSchedule: both updates or, when the mapping is no longer
\* enabled, neither.
Finalize(w, m, outcome) ==
    LET r == task[w][m].run
        at == task[w][m].at
    IN  /\ mapping[m].enabled
        /\ runs' = [runs EXCEPT ![r].outcome = outcome, ![r].finished = at]
        /\ mapping' = [mapping EXCEPT ![m].next = at + Interval[m]]

\* To releaseAndClose, with the result the task has come to.
Finished(w, m, outcome) ==
    task' = [task EXCEPT ![w][m].pc = "release", ![w][m].at = 0,
                         ![w][m].outcome = outcome]

FinalizeRejected(m) == ~mapping[m].enabled \/ "database" \in Faults

FinalizeSuccess(w, m) ==
    /\ At(w, m, "success")
    /\ Finalize(w, m, "SUCCESS")
    /\ Finished(w, m, "SUCCESS")
    /\ UNCHANGED <<now, lock>>

\* Any error of the try ends in its catch, also one that only hides a commit.
FinalizeSuccessFails(w, m) ==
    /\ At(w, m, "success")
    /\ \/ FinalizeRejected(m) /\ UNCHANGED database
       \/ "lost_ack" \in Faults /\ Finalize(w, m, "SUCCESS")
    /\ BecomeAt(w, m, "failure")
    /\ UNCHANGED <<now, lock>>

\* Slip: the catch reports the failure and leaves the run alone.
FailWithoutFinalizing(w, m) ==
    /\ At(w, m, "failure")
    /\ Finished(w, m, "FAILED")
    /\ UNCHANGED <<now, database, lock>>

FinalizeFailure(w, m) ==
    /\ At(w, m, "failure")
    /\ Finalize(w, m, "FAILED")
    /\ Finished(w, m, "FAILED")
    /\ UNCHANGED <<now, lock>>

\* FINALIZATION_FAILED: the run stays RUNNING.
FinalizeFailureFails(w, m) ==
    /\ At(w, m, "failure")
    /\ FinalizeRejected(m)
    /\ Finished(w, m, "FAILED")
    /\ UNCHANGED <<now, database, lock>>

\* releaseAndClose in the finally block: RELEASE_LOCK, then the session is closed
\* and frees what it still has.  A session that lost the lock, a RELEASE_LOCK
\* that fails, or a close that does, is an anomaly, which turns a success into a
\* failure.
AfterAnomaly(w, m) ==
    IF task[w][m].outcome = "SUCCESS" THEN BecomeAt(w, m, "correct") ELSE EndTask(w, m)

Release(w, m) ==
    /\ At(w, m, "release")
    /\ lock' = IF lock[m] = w THEN [lock EXCEPT ![m] = Free] ELSE lock
    /\ \/ lock[m] = w /\ EndTask(w, m)
       \/ (lock[m] # w \/ Faults \cap {"session", "release"} # {}) /\ AfterAnomaly(w, m)
    /\ UNCHANGED <<now, database>>

CorrectRun(w, m) ==
    /\ At(w, m, "correct")
    /\ \/ Finalize(w, m, "CORRECTED")
       \/ FinalizeRejected(m) /\ UNCHANGED database
    /\ EndTask(w, m)
    /\ UNCHANGED <<now, lock>>

\* open, GET_LOCK or startRun throws.  The task has no run to finalize, also
\* when the INSERT went through and only its answer was lost.
NoRunStarted(w, m) ==
    /\ \/ At(w, m, "open") /\ Valid(m) /\ EndTask(w, m)
          /\ "database" \in Faults /\ UNCHANGED runs
       \/ At(w, m, "start") /\ Finished(w, m, "FAILED")
          /\ \/ "database" \in Faults /\ UNCHANGED runs
             \/ "lost_ack" \in Faults /\ InsertRun(w, m)
    /\ UNCHANGED <<now, mapping, lock>>

LoseSession(m) ==
    /\ "session" \in Faults
    /\ lock[m] # Free
    /\ lock' = [lock EXCEPT ![m] = Free]
    /\ UNCHANGED <<now, database, task>>

\* The process dies with its sessions; nothing is finalized.
Crash(w) ==
    /\ "crash" \in Faults
    /\ task' = [task EXCEPT ![w] = [m \in Mapping |-> NoTask]]
    /\ lock' = [m \in Mapping |-> IF lock[m] = w THEN Free ELSE lock[m]]
    /\ UNCHANGED <<now, database>>

SetEnabled(m) ==
    /\ "operator" \in Faults
    /\ mapping' = [mapping EXCEPT ![m].enabled = ~@]
    /\ UNCHANGED <<now, runs, lock, task>>

Tick == now < MaxTime /\ now' = now + 1 /\ UNCHANGED <<database, lock, task>>

TaskStep(w, m) ==
    \/ InvalidConfiguration(w, m) \/ AcquireLock(w, m) \/ LockedByOther(w, m)
    \/ StartRun(w, m) \/ RunSource(w, m)
    \/ FinalizeSuccess(w, m) \/ FinalizeSuccessFails(w, m)
    \/ FinalizeFailure(w, m) \/ FinalizeFailureFails(w, m)
    \/ Release(w, m) \/ CorrectRun(w, m) \/ NoRunStarted(w, m)

PollingNext ==
    \/ Tick
    \/ \E m \in Mapping : LoseSession(m) \/ SetEnabled(m)
    \/ \E w \in Worker : \/ SelectDueMappings(w) \/ Crash(w)
                         \/ \E m \in Mapping : TaskStep(w, m)

PollingSpec == PollingInit /\ [][PollingNext]_pollingVars
------------------------------------------------------------------------------
PollingTask == [pc : {"none", "open", "start", "fetch", "success", "failure",
                      "release", "correct"},
                run : Nat \cup {Null}, at : Nat,
                outcome : {"none", "SUCCESS", "FAILED"}]

\* Tables, locks and tasks have the values their types allow, and a task that
\* owns a run names a row of collector_runs of its own mapping.
PollingTypeOK ==
    /\ now \in Nat
    /\ mapping \in [Mapping -> [enabled : BOOLEAN, next : Nat \cup {Null}]]
    /\ runs \in Seq(Run)
    /\ lock \in [Mapping -> Worker \cup {Free}]
    /\ task \in [Worker -> [Mapping -> PollingTask]]
    /\ \A w \in Worker, m \in Mapping : task[w][m].run # Null =>
          task[w][m].run \in DOMAIN runs /\ runs[task[w][m].run].mapping = m

Polls(w, m) == task[w][m].pc \in {"fetch", "success", "failure"}

\* While the lock sessions hold, a mapping is polled by one process at a time:
\* the source never gets two requests for it at once and no two receipts of it
\* are ingested at once (docs: a losing worker makes no HTTP call).
OnePollPerMapping ==
    \A m \in Mapping : \A v, w \in Worker : Polls(v, m) /\ Polls(w, m) => v = w

DueAfter(r) == runs[r].finished + Interval[runs[r].mapping]
NextPoll(m) == mapping[m].next

\* A run and its schedule are finished together: a mapping is not due again
\* before the interval after each run that its process finished has passed,
\* whoever polled last, whatever was disabled or answered late meanwhile.  Only
\* two things may have put it earlier, an interval after they began: a recovery,
\* or the correction of a run whose lock could not be released, which comes when
\* the lock is gone and may meet the next poll of the mapping.
ScheduleFollowsRuns ==
    \A r \in DOMAIN runs : runs[r].outcome \in {"SUCCESS", "FAILED", "CORRECTED"} =>
        /\ NextPoll(runs[r].mapping) # Null
        /\ \/ NextPoll(runs[r].mapping) >= DueAfter(r)
           \/ \E a \in DOMAIN runs : /\ runs[a].mapping = runs[r].mapping
                                     /\ runs[a].outcome \in {"ABANDONED", "CORRECTED"}
                                     /\ NextPoll(runs[r].mapping) = DueAfter(a)

\* As long as statements succeed and mappings stay enabled, no task ends and
\* leaves its run RUNNING, whatever happens to its lock (docs: one short
\* transaction finalizes collector_runs after the source operation).
NoOrphanRuns ==
    \A r \in DOMAIN runs : runs[r].outcome = "RUNNING" =>
        \E w \in Worker, m \in Mapping : task[w][m].run = r /\ Polls(w, m)

\* No advisory lock is held for ever: it is released on every path through a
\* task, or dies with its session or its process.
EveryLockIsReleased == \A m \in Mapping : lock[m] # Free ~> lock[m] = Free
=============================================================================
