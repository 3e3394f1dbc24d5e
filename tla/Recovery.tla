------------------------------ MODULE Recovery ------------------------------
(***************************************************************************)
(* CollectorRunRecoveryService.recover, run once by a TypeScript runtime   *)
(* before its first polling cycle, composed with the polling of all        *)
(* processes.  It finalizes collector_runs that a dead process left        *)
(* RUNNING: candidates are selected by age, then for each one the          *)
(* advisory lock of its mapping is tried, the run is finalized if it is    *)
(* still RUNNING, and the lock is released.  The PHP collector shares the  *)
(* tables and the locks and has no recovery.                               *)
(***************************************************************************)
EXTENDS Polling

CONSTANTS Recovering,       \* the processes that recover when they start
          StaleThreshold,   \* age of a run that makes it a candidate
          MaxRecoveryRuns   \* LIMIT of the selection

ASSUME RecoveryConstants ==
    /\ Recovering \subseteq Worker
    /\ StaleThreshold \in Nat /\ MaxRecoveryRuns \in Nat \ {0}

VARIABLE rec    \* the recovery of each process

collectorVars == <<pollingVars, rec>>

NotStarted(w) == [pc |-> IF w \in Recovering THEN "select" ELSE "done",
                  todo |-> <<>>, at |-> 0]

RecAt(w, pc) == rec[w].pc = pc

\* ORDER BY started_at, id.
Older(r, s) == \/ runs[r].started < runs[s].started
               \/ runs[r].started = runs[s].started /\ r < s

Candidate(w) == Head(rec[w].todo)
CandidateMapping(w) == runs[Candidate(w)].mapping

IsStale(r) == /\ runs[r].outcome = "RUNNING" /\ runs[r].finished = Null
              /\ runs[r].started + StaleThreshold <= now

\* LIMIT MaxRecoveryRuns.
StaleRuns ==
    {r \in DOMAIN runs : /\ IsStale(r)
                         /\ Cardinality({s \in DOMAIN runs : IsStale(s) /\ Older(s, r)})
                              < MaxRecoveryRuns}

\* Slips: the candidate stays on the list; ids are counted on instead of taken
\* off it.
RecoverAgain(w) == rec' = [rec EXCEPT ![w].pc = "lock"]

RecoverFollowing(w) ==
    rec' = [rec EXCEPT ![w].todo = [i \in DOMAIN @ |-> @[i] + 1], ![w].pc = "lock"]

\* On to the next candidate, or to the first polling cycle.
RecoverNext(w) ==
    rec' = [rec EXCEPT ![w].todo = Tail(@),
                       ![w].pc = IF Tail(rec[w].todo) = <<>> THEN "done" ELSE "lock"]
------------------------------------------------------------------------------
RecoveryInit == PollingInit /\ rec = [w \in Worker |-> NotStarted(w)]

SelectStaleRuns(w) ==
    /\ RecAt(w, "select")
    /\ \E todo \in [1 .. Cardinality(StaleRuns) -> StaleRuns] :
          /\ \A i, j \in DOMAIN todo : i < j => Older(todo[i], todo[j])
          /\ rec' = [rec EXCEPT ![w] = [pc |-> IF StaleRuns = {} THEN "done" ELSE "lock",
                                        todo |-> todo, at |-> now]]
    /\ UNCHANGED pollingVars

\* Slip: age alone is taken for evidence, the lock is not waited for.
ReacquireLockByAge(w) ==
    /\ RecAt(w, "lock")
    /\ rec' = [rec EXCEPT ![w].pc = "finalize"]
    /\ UNCHANGED pollingVars

ReacquireLock(w) ==
    /\ RecAt(w, "lock")
    /\ lock[CandidateMapping(w)] = Free
    /\ lock' = [lock EXCEPT ![CandidateMapping(w)] = w]
    /\ rec' = [rec EXCEPT ![w].pc = "finalize"]
    /\ UNCHANGED <<now, database, task>>

ActiveLockHeld(w) ==
    /\ RecAt(w, "lock")
    /\ lock[CandidateMapping(w)] # Free
    /\ RecoverNext(w)
    /\ UNCHANGED pollingVars

\* The schedule of an enabled mapping with a valid interval is moved too.
Reschedule(m, at) ==
    mapping' = IF mapping[m].enabled /\ Valid(m)
               THEN [mapping EXCEPT ![m].next = at + Interval[m]] ELSE mapping

\* Slip: the run is not checked again once the lock is held.
FinalizeCandidate(w) ==
    LET r == Candidate(w)
    IN  /\ RecAt(w, "finalize")
        /\ runs' = [runs EXCEPT ![r].outcome = "ABANDONED", ![r].finished = rec[w].at]
        /\ Reschedule(runs[r].mapping, rec[w].at)
        /\ rec' = [rec EXCEPT ![w].pc = "release"]
        /\ UNCHANGED <<now, lock, task>>

\* finalizeStaleRunningRun, one transaction: ALREADY_FINALIZED or recovered.
FinalizeStaleRun(w) ==
    LET r == Candidate(w)
    IN  /\ RecAt(w, "finalize")
        /\ IF runs[r].outcome = "RUNNING" /\ runs[r].finished = Null
           THEN /\ runs' = [runs EXCEPT ![r].outcome = "ABANDONED", ![r].finished = rec[w].at]
                /\ Reschedule(runs[r].mapping, rec[w].at)
           ELSE UNCHANGED database
        /\ rec' = [rec EXCEPT ![w].pc = "release"]
        /\ UNCHANGED <<now, lock, task>>

\* A statement fails: RECOVERY_ERROR for this candidate.
RecoveryError(w) ==
    /\ "database" \in Faults
    /\ \/ RecAt(w, "lock") /\ RecoverNext(w)
       \/ RecAt(w, "finalize") /\ rec' = [rec EXCEPT ![w].pc = "release"]
    /\ UNCHANGED pollingVars

\* Slip: the lock of a recovered run is kept for the polling that follows.
ReleaseForgotten(w) == RecAt(w, "release") /\ RecoverNext(w) /\ UNCHANGED pollingVars

ReleaseRecoveryLock(w) ==
    LET m == CandidateMapping(w)
    IN  /\ RecAt(w, "release")
        /\ lock' = IF lock[m] = w THEN [lock EXCEPT ![m] = Free] ELSE lock
        /\ RecoverNext(w)
        /\ UNCHANGED <<now, database, task>>

\* A process that stops, in a cycle, in its recovery or between cycles, starts
\* again with its recovery.
CrashAndRestart(w) == Crash(w) /\ rec' = [rec EXCEPT ![w] = NotStarted(w)]

RecoveryStep(w) ==
    \/ SelectStaleRuns(w) \/ ReacquireLock(w) \/ ActiveLockHeld(w)
    \/ FinalizeStaleRun(w) \/ RecoveryError(w) \/ ReleaseRecoveryLock(w)
------------------------------------------------------------------------------
\* The recovery of every process has the values its types allow; what it still
\* has to look at are rows of collector_runs.
RecoveryTypeOK ==
    /\ PollingTypeOK
    /\ rec \in [Worker -> [pc : {"select", "lock", "finalize", "release", "done"},
                           todo : Seq(Nat), at : Nat]]
    /\ \A w \in Worker : rec[w].todo \in Seq(DOMAIN runs)
    /\ \A w \in Worker : rec[w].pc \in {"lock", "finalize", "release"} => rec[w].todo # <<>>

\* Age and the reacquired lock together are evidence that a run is dead (docs:
\* only both are safe evidence): while lock sessions hold, the run of a task
\* that still works on it is never finalized by somebody else.
LiveRunsAreNotAbandoned ==
    \A w \in Worker, m \in Mapping :
        Polls(w, m) => runs[task[w][m].run].outcome # "ABANDONED"

\* A late recovery worker never overwrites a run that was completed after it
\* had been selected as stale.
RecoveryKeepsFinishedRuns ==
    [][\A r \in DOMAIN runs :
          runs[r].outcome # "RUNNING" /\ rec' # rec => runs'[r] = runs[r]]_collectorVars

Failures == {"FAILED", "ABANDONED", "CORRECTED"}

\* While lock sessions hold, a failure that is on record stays on record: no
\* poll turns a FAILED run, recovered ones included, into a success.
FailureIsFinal ==
    [][\A r \in DOMAIN runs :
          runs[r].outcome \in Failures => runs'[r].outcome \in Failures]_collectorVars

\* A recovery that has candidates gets through them and lets its process poll.
EveryRecoveryEnds ==
    \A w \in Worker : rec[w].pc \in {"lock", "finalize", "release"} ~> rec[w].pc = "done"
=============================================================================
