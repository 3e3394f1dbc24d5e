------------------------- MODULE RuntimeLocks_proofs -------------------------
(***************************************************************************)
(* What TLAPS proves of Runtime as long as the sessions of the advisory    *)
(* locks hold ("session" \notin Faults); processes may die, statements,    *)
(* RELEASE_LOCK too, fail, answers get lost and signals come at any        *)
(* time.  The argument is LockInv: a lock belongs to exactly the process   *)
(* that works on the mapping.  The schedules of mappings follow from it.   *)
(***************************************************************************)
EXTENDS RuntimeTypes_proofs

Holding == {"start", "fetch", "success", "failure", "release"}

\* The lock of a mapping belongs to the process whose task or recovery works on
\* it, and to nobody else.
Recovers(w, m) == rec[w].pc \in {"finalize", "release"} /\ CandidateMapping(w) = m

WorksOn(w, m) == PcIn(w, m, Holding) \/ Recovers(w, m)

LockInv ==
    \A w \in Worker, m \in Mapping : /\ WorksOn(w, m) => lock[m] = w
                                     /\ lock[m] = w => WorksOn(w, m)

\* The task has recorded a success that it may have to correct.
Recorded(w, m) ==
    At(w, m, "correct") \/ (At(w, m, "release") /\ task[w][m].outcome = "SUCCESS")

\* The run of a task that polls is RUNNING, unless its success was recorded and
\* not answered.
RunOf(w, m) ==
    /\ Polls(w, m) \/ Recorded(w, m) => task[w][m].run # Null
    /\ PcIn(w, m, {"fetch", "success"}) => runs[task[w][m].run].outcome = "RUNNING"
    /\ At(w, m, "failure") => runs[task[w][m].run].outcome \in {"RUNNING", "SUCCESS"}
    /\ Recorded(w, m) => runs[task[w][m].run].outcome = "SUCCESS"

\* No two tasks have the same run.
RunsApart ==
    \A v, w \in Worker, n, m \in Mapping :
        task[v][n].run # Null /\ task[v][n].run = task[w][m].run => v = w /\ n = m

RunInv == RunsApart /\ \A w \in Worker, m \in Mapping : RunOf(w, m)

LockedInv == Typed /\ LockInv /\ RunInv

\* What a step of a task amounts to, when nobody takes its lock away; t is what
\* the task becomes.
Leaves(w, m, t)   == /\ PcIn(w, m, {"open", "correct"}) /\ t.pc = "none" /\ t.run = Null
                     /\ UNCHANGED <<lock, runs, mapping>>
Acquires(w, m, t) == /\ At(w, m, "open") /\ t.pc = "start" /\ t.run = task[w][m].run
                     /\ UNCHANGED <<runs, mapping>>
                     /\ lock[m] = Free /\ lock' = [lock EXCEPT ![m] = w]
Inserts(w, m, t)  == /\ At(w, m, "start") /\ InsertRun(w, m) /\ UNCHANGED <<lock, mapping>>
                     /\ \/ t.pc = "fetch" /\ t.run = Len(runs) + 1
                        \/ t.pc = "release" /\ t.run = task[w][m].run /\ t.outcome = "FAILED"
Advances(w, m, t) == /\ \/ At(w, m, "start") /\ t.pc = "release" /\ t.outcome = "FAILED"
                        \/ At(w, m, "fetch") /\ t.pc \in {"success", "failure"} /\ t.at = now
                        \/ At(w, m, "success") /\ t.pc = "failure" /\ t.at = now
                        \/ At(w, m, "failure") /\ t.pc = "release" /\ t.outcome = "FAILED"
                     /\ t.run = task[w][m].run
                     /\ UNCHANGED <<lock, runs, mapping>>
Finalizes(w, m, t) == /\ \/ /\ At(w, m, "success") /\ Finalize(w, m, "SUCCESS")
                            /\ \/ t.pc = "release"
                               \/ t.pc = "failure" /\ t.at = now
                         \/ /\ At(w, m, "failure") /\ Finalize(w, m, "FAILED")
                            /\ t.pc = "release" /\ t.outcome = "FAILED"
                      /\ t.run = task[w][m].run
                      /\ UNCHANGED lock
Corrects(w, m, t) == /\ At(w, m, "correct") /\ t.pc = "none" /\ t.run = Null
                     /\ Finalize(w, m, "CORRECTED") /\ UNCHANGED lock
Releases(w, m, t) == /\ At(w, m, "release") /\ UNCHANGED <<runs, mapping>>
                     /\ lock' = [lock EXCEPT ![m] = Free]
                     /\ \/ t.pc = "none" /\ t.run = Null
                        \/ /\ task[w][m].outcome = "SUCCESS" /\ t.pc = "correct"
                           /\ t.run = task[w][m].run /\ t.at = now

TaskEffect(w, m, t) ==
    \/ Leaves(w, m, t) \/ Acquires(w, m, t) \/ Inserts(w, m, t)
    \/ Advances(w, m, t) \/ Finalizes(w, m, t) \/ Corrects(w, m, t) \/ Releases(w, m, t)

Replaces(w, m, t) ==
    /\ t \in PollingTask /\ task' = [task EXCEPT ![w][m] = t]
    /\ UNCHANGED now
    /\ TaskEffect(w, m, t)

\* Every step of a task has one of these effects.
LEMMA TaskStepEffect ==
    ASSUME PollingTypeOK, LockInv, "session" \notin Faults,
           NEW w \in Worker, NEW m \in Mapping, TaskStep(w, m)
    PROVE  \E t : Replaces(w, m, t)
<1>t. NoTask \in PollingTask /\ NoTask.pc = "none" /\ NoTask.run = Null
  BY TaskForms
<1>1. CASE InvalidConfiguration(w, m) \/ LockedByOther(w, m)
  <2>1. Replaces(w, m, NoTask)
    BY <1>1, <1>t DEF InvalidConfiguration, LockedByOther, EndTask, database, Replaces,
       TaskEffect, Leaves, At, PcIn
  <2> QED  BY <2>1
<1>2. CASE AcquireLock(w, m)
  <2>1. Replaces(w, m, MovedAt(w, m, "start"))
    BY <1>2, TaskForms DEF AcquireLock, database, Replaces, TaskEffect, Acquires, Places
  <2> QED  BY <2>1
<1>3. CASE StartRun(w, m)
  <2> DEFINE t == [task[w][m] EXCEPT !.pc = "fetch", !.run = Len(runs) + 1, !.at = 0]
  <2>1. At(w, m, "start") /\ InsertRun(w, m) /\ UNCHANGED <<now, mapping, lock>>
    BY <1>3 DEF StartRun
  <2>2. task' = [task EXCEPT ![w][m] = t]
    BY <1>3 DEF StartRun, PollingTypeOK
  <2>3. t \in PollingTask /\ t.run = Len(runs) + 1 /\ t.pc = "fetch"
    <3>1. task[w][m] \in PollingTask /\ Len(runs) + 1 \in Nat
      BY <2>1, InsertType, TaskForms
    <3> QED  BY <3>1 DEF PollingTask
  <2>4. Replaces(w, m, t)
    BY <2>1, <2>2, <2>3 DEF Replaces, TaskEffect, Inserts
  <2> QED  BY <2>4
<1>4. CASE RunSource(w, m)
  <2>1. PICK pc \in {"success", "failure"} : BecomeAt(w, m, pc)
    BY <1>4 DEF RunSource
  <2>2. Replaces(w, m, MovedAt(w, m, pc))
    BY <1>4, <2>1, TaskForms DEF RunSource, database, Replaces, TaskEffect, Advances, Places
  <2> QED  BY <2>2
<1>5. CASE FinalizeSuccess(w, m)
  <2>1. Replaces(w, m, Over(w, m, "SUCCESS"))
    BY <1>5, TaskForms DEF FinalizeSuccess, Replaces, TaskEffect, Finalizes
  <2> QED  BY <2>1
<1>6. CASE FinalizeSuccessFails(w, m)
  <2>1. At(w, m, "success") /\ BecomeAt(w, m, "failure") /\ UNCHANGED <<now, lock>>
        /\ (UNCHANGED <<runs, mapping>> \/ Finalize(w, m, "SUCCESS"))
    BY <1>6 DEF FinalizeSuccessFails, database
  <2>2. Replaces(w, m, MovedAt(w, m, "failure"))
    BY <2>1, TaskForms DEF Replaces, TaskEffect, Finalizes, Advances, Places
  <2> QED  BY <2>2
<1>7. CASE FinalizeFailure(w, m)
  <2>1. Replaces(w, m, Over(w, m, "FAILED"))
    BY <1>7, TaskForms DEF FinalizeFailure, Replaces, TaskEffect, Finalizes
  <2> QED  BY <2>1
<1>8. CASE FinalizeFailureFails(w, m)
  <2>1. Replaces(w, m, Over(w, m, "FAILED"))
    BY <1>8, TaskForms DEF FinalizeFailureFails, database, Replaces, TaskEffect, Advances
  <2> QED  BY <2>1
<1>9. CASE Release(w, m)
  <2>1. lock[m] = w
    BY <1>9 DEF Release, LockInv, WorksOn, PcIn, At, Holding
  <2>2. /\ At(w, m, "release") /\ UNCHANGED <<now, runs, mapping>>
        /\ lock' = [lock EXCEPT ![m] = Free]
        /\ EndTask(w, m) \/ (task[w][m].outcome = "SUCCESS" /\ BecomeAt(w, m, "correct"))
    BY <1>9, <2>1 DEF Release, AfterAnomaly, database
  <2>3. Replaces(w, m, NoTask) \/ Replaces(w, m, MovedAt(w, m, "correct"))
    BY <2>2, <1>t, TaskForms DEF EndTask, Replaces, TaskEffect, Releases, Places
  <2> QED  BY <2>3
<1>10. CASE CorrectRun(w, m)
  <2>1. /\ At(w, m, "correct") /\ EndTask(w, m) /\ UNCHANGED <<now, lock>>
        /\ UNCHANGED <<runs, mapping>> \/ Finalize(w, m, "CORRECTED")
    BY <1>10 DEF CorrectRun, database
  <2>2. Replaces(w, m, NoTask)
    BY <2>1, <1>t DEF EndTask, Replaces, TaskEffect, Leaves, Corrects, At, PcIn
  <2> QED  BY <2>2
<1>11. CASE NoRunStarted(w, m)
  <2>1. CASE At(w, m, "open") /\ EndTask(w, m) /\ UNCHANGED runs
    <3>1. Replaces(w, m, NoTask)
      BY <1>11, <2>1, <1>t
      DEF NoRunStarted, EndTask, Replaces, TaskEffect, Leaves, At, PcIn
    <3> QED  BY <3>1
  <2>2. CASE /\ At(w, m, "start") /\ Finished(w, m, "FAILED")
             /\ UNCHANGED runs \/ InsertRun(w, m)
    <3>1. Replaces(w, m, Over(w, m, "FAILED"))
      BY <1>11, <2>2, TaskForms DEF NoRunStarted, Replaces, TaskEffect, Advances, Inserts
    <3> QED  BY <3>1
  <2> QED  BY <1>11, <2>1, <2>2 DEF NoRunStarted
<1> QED
  BY <1>1, <1>2, <1>3, <1>4, <1>5, <1>6, <1>7, <1>8, <1>9, <1>10, <1>11 DEF TaskStep

\* Failures stay failures in this step.
FailuresKept == \A r \in DOMAIN runs :
                   runs[r].outcome \in Failures => runs'[r].outcome \in Failures

\* What a recovery works on, and whether, does not change.
SameRecovery == \A v \in Worker, n \in Mapping : Recovers(v, n)' <=> Recovers(v, n)

\* Other steps do not change what a recovery works on.
LEMMA RecoversKept ==
    ASSUME RecoveryTypeOK, RowsKept, NEW v \in Worker, rec'[v] = rec[v], NEW n \in Mapping
    PROVE  Recovers(v, n)' <=> Recovers(v, n)
<1>1. CASE rec[v].pc \in {"finalize", "release"}
  <2>1. Candidate(v) \in DOMAIN runs /\ Candidate(v)' = Candidate(v)
    BY <1>1, CandidateType DEF Candidate
  <2>2. CandidateMapping(v)' = CandidateMapping(v)
    BY <2>1 DEF CandidateMapping, RowsKept
  <2> QED  BY <2>2 DEF Recovers
<1>2. CASE rec[v].pc \notin {"finalize", "release"}
  BY <1>2 DEF Recovers
<1> QED  BY <1>1, <1>2

\* A step of a task keeps LockInv: it takes a lock that is free and gives back
\* its own.
LEMMA ReplacesLock ==
    ASSUME LockedInv, NEW w \in Worker, NEW m \in Mapping, NEW t, Replaces(w, m, t),
           SameRecovery
    PROVE  LockInv'
<1>1. PollingTypeOK /\ LoopInv /\ LockInv
  BY DEF LockedInv, Typed, TypeInv, RecoveryTypeOK
<1>2. task'[w][m] = t /\ \A v \in Worker, n \in Mapping : v # w \/ n # m => task'[v][n] = task[v][n]
  BY <1>1 DEF Replaces, PollingTypeOK
<1>3. \A v \in Worker, n \in Mapping : v # w \/ n # m => (WorksOn(v, n)' <=> WorksOn(v, n))
  BY <1>2 DEF SameRecovery, WorksOn, PcIn
<1>5. /\ WorksOn(w, m) <=> PcIn(w, m, Holding)
      /\ WorksOn(w, m)' <=> t.pc \in Holding
  <2>1. ~Recovers(w, m)
    <3>1. ~AllTasksEnded(w)
      BY DEF Replaces, TaskEffect, Leaves, Acquires, Inserts, Advances, Finalizes, Corrects,
             Releases, At, PcIn, AllTasksEnded
    <3> QED  BY <1>1, <3>1 DEF LoopInv, Recovers, RecAt
  <2> QED  BY <1>2, <2>1 DEF WorksOn, PcIn, SameRecovery
<1>6. Free \notin Worker
  BY PollingConstants
<1> DEFINE Owner(v, n) == (WorksOn(v, n) => lock[n] = v) /\ (lock[n] = v => WorksOn(v, n))
<1>o. \A v \in Worker, n \in Mapping : Owner(v, n)
  BY <1>1 DEF LockInv
<1>p. ASSUME \A v \in Worker, n \in Mapping : v # w \/ n # m => Owner(v, n)', Owner(w, m)'
      PROVE  LockInv'
  BY <1>p DEF LockInv
<1>7. CASE UNCHANGED lock /\ (t.pc \in Holding <=> PcIn(w, m, Holding))
  <2>1. \A v \in Worker, n \in Mapping : v # w \/ n # m => Owner(v, n)'
    BY <1>3, <1>o, <1>7
  <2>2. Owner(w, m)'
    BY <1>5, <1>o, <1>7
  <2> QED  BY <1>p, <2>1, <2>2
<1>8. CASE Acquires(w, m, t)
  <2>1. lock[m] = Free /\ lock'[m] = w /\ \A n \in Mapping : n # m => lock'[n] = lock[n]
    BY <1>1, <1>8 DEF Acquires, PollingTypeOK
  <2>2. t.pc \in Holding
    BY <1>8 DEF Acquires, Holding
  <2>3. \A v \in Worker, n \in Mapping : v # w \/ n # m => Owner(v, n)'
    BY <1>3, <1>6, <1>o, <2>1
  <2>4. Owner(w, m)'
    BY <1>5, <2>1, <2>2
  <2> QED  BY <1>p, <2>3, <2>4
<1>9. CASE Releases(w, m, t)
  <2>1. lock'[m] = Free /\ \A n \in Mapping : n # m => lock'[n] = lock[n]
    BY <1>1, <1>9 DEF Releases, PollingTypeOK
  <2>2. t.pc \notin Holding /\ PcIn(w, m, Holding)
    BY <1>9 DEF Releases, Holding, At, PcIn
  <2>3. lock[m] = w
    BY <1>1, <2>2 DEF LockInv, WorksOn
  <2>4. \A v \in Worker, n \in Mapping : v # w \/ n # m => Owner(v, n)'
    BY <1>3, <1>6, <1>o, <2>1, <2>3
  <2>5. Owner(w, m)'
    BY <1>5, <1>6, <2>1, <2>2
  <2> QED  BY <1>p, <2>4, <2>5
<1>10. \/ Leaves(w, m, t) \/ Inserts(w, m, t) \/ Advances(w, m, t) \/ Finalizes(w, m, t)
       \/ Corrects(w, m, t)
       => UNCHANGED lock /\ (t.pc \in Holding <=> PcIn(w, m, Holding))
  BY DEF Leaves, Inserts, Advances, Finalizes, Corrects, Holding, PcIn, At
<1> QED  BY <1>7, <1>8, <1>9, <1>10 DEF Replaces, TaskEffect

\* A step of a task keeps the runs of the tasks apart: the only new one is that
\* of a row it has inserted.
LEMMA ReplacesApart ==
    ASSUME LockedInv, NEW w \in Worker, NEW m \in Mapping, NEW t, Replaces(w, m, t)
    PROVE  RunsApart'
<1>1. PollingTypeOK /\ RunsApart
  BY DEF LockedInv, RunInv, Typed, TypeInv, RecoveryTypeOK
<1>2. task'[w][m] = t /\ \A v \in Worker, n \in Mapping : v # w \/ n # m => task'[v][n] = task[v][n]
  BY <1>1 DEF Replaces, PollingTypeOK
<1>3. \A v \in Worker, n \in Mapping : task[v][n].run # Null => task[v][n].run \in DOMAIN runs
  BY <1>1 DEF PollingTypeOK
<1>4. CASE t.run \in {Null, task[w][m].run}
  BY <1>1, <1>2, <1>4 DEF RunsApart
<1>5. CASE t.run = Len(runs) + 1
  <2>1. Len(runs) + 1 \notin DOMAIN runs
    <3>1. Len(runs) \in Nat /\ DOMAIN runs = 1..Len(runs)
      BY <1>1 DEF PollingTypeOK
    <3> QED  BY <3>1
  <2>2. \A v \in Worker, n \in Mapping : task[v][n].run # Null => task[v][n].run # t.run
    BY <1>3, <1>5, <2>1
  <2> QED  BY <1>1, <1>2, <2>2 DEF RunsApart
<1> QED
  BY <1>4, <1>5 DEF Replaces, TaskEffect, Leaves, Acquires, Inserts, Advances, Finalizes,
     Corrects, Releases

\* A step of a task keeps RunInv and every failure on record: what it finalizes
\* or corrects is its own run.
LEMMA ReplacesRun ==
    ASSUME LockedInv, NEW w \in Worker, NEW m \in Mapping, NEW t, Replaces(w, m, t)
    PROVE  RunInv' /\ FailuresKept
<1>1. PollingTypeOK /\ RunInv
  BY DEF LockedInv, Typed, TypeInv, RecoveryTypeOK
<1>2. task'[w][m] = t /\ \A v \in Worker, n \in Mapping : v # w \/ n # m => task'[v][n] = task[v][n]
  BY <1>1 DEF Replaces, PollingTypeOK
<1>3. \A v \in Worker, n \in Mapping :
         /\ RunOf(v, n)
         /\ Polls(v, n) \/ Recorded(v, n) => task[v][n].run \in DOMAIN runs
  BY <1>1 DEF RunInv, RunOf, PollingTypeOK
<1>4. SUFFICES /\ \A v \in Worker, n \in Mapping : v # w \/ n # m => RunOf(v, n)'
               /\ RunOf(w, m)'
               /\ FailuresKept
  BY ReplacesApart DEF RunInv
<1>5. CASE UNCHANGED runs /\ ~Finalizes(w, m, t)
  <2>1. FailuresKept
    BY <1>5 DEF FailuresKept
  <2>2. \A v \in Worker, n \in Mapping : v # w \/ n # m => RunOf(v, n)'
    BY <1>2, <1>3, <1>5 DEF RunOf, Recorded, Polls, PcIn, At
  <2>3. CASE Leaves(w, m, t) \/ Acquires(w, m, t) \/ Corrects(w, m, t)
    BY <1>2, <2>1, <2>2, <2>3
    DEF Leaves, Acquires, Corrects, RunOf, Recorded, Polls, PcIn, At
  <2>4. CASE Advances(w, m, t)
    BY <1>2, <1>3, <1>5, <2>1, <2>2, <2>4 DEF Advances, RunOf, Recorded, Polls, PcIn, At
  <2>5. CASE Inserts(w, m, t)
    <3>1. Len(runs) + 1 \in DOMAIN runs' /\ Len(runs) + 1 \notin DOMAIN runs
      BY <1>1, <2>5, InsertType DEF Inserts, PollingTypeOK
    <3> QED  BY <1>5, <3>1
  <2>6. CASE Releases(w, m, t)
    BY <1>2, <1>3, <1>5, <2>1, <2>2, <2>6 DEF Releases, RunOf, Recorded, Polls, PcIn, At
  <2> QED  BY <1>5, <2>3, <2>4, <2>5, <2>6 DEF Replaces, TaskEffect
<1>6. CASE Inserts(w, m, t)
  <2>1. /\ \A r \in DOMAIN runs : runs'[r] = runs[r]
        /\ runs'[Len(runs) + 1].outcome = "RUNNING" /\ Len(runs) + 1 # Null
    BY <1>1, <1>6, InsertType, PollingConstants DEF Inserts
  <2>2. FailuresKept
    BY <2>1 DEF FailuresKept
  <2>3. \A v \in Worker, n \in Mapping : v # w \/ n # m => RunOf(v, n)'
    BY <1>2, <1>3, <2>1 DEF RunOf, Recorded, Polls, PcIn, At
  <2>4. RunOf(w, m)'
    BY <1>2, <1>6, <2>1 DEF Inserts, RunOf, Recorded, Polls, PcIn, At
  <2> QED  BY <2>2, <2>3, <2>4
<1>7. CASE Finalizes(w, m, t) \/ Corrects(w, m, t)
  <2> DEFINE r == task[w][m].run
  <2>1. /\ r \in DOMAIN runs /\ runs[r].outcome \in {"RUNNING", "SUCCESS"} /\ r # Null
        /\ Polls(w, m) \/ Recorded(w, m)
    <3>1. PcIn(w, m, {"success", "failure", "correct"})
      BY <1>7 DEF Finalizes, Corrects, PcIn, At
    <3>2. CASE PcIn(w, m, {"success", "failure"})
      BY <1>3, <3>2 DEF RunOf, Polls, PcIn, At
    <3>3. CASE At(w, m, "correct")
      BY <1>3, <3>3 DEF RunOf, Recorded
    <3> QED  BY <3>1, <3>2, <3>3 DEF PcIn, At
  <2>2. PICK o \in {"SUCCESS", "FAILED", "CORRECTED"} :
           /\ Finalize(w, m, o)
           /\ \/ t.pc = "none"
              \/ t.pc = "release" /\ t.outcome = "FAILED"
              \/ t.pc \in {"release", "failure"} /\ o = "SUCCESS" /\ t.run = r
    BY <1>7 DEF Finalizes, Corrects
  <2>3. runs[r] \in Run
    BY <1>1, <2>1 DEF PollingTypeOK
  <2>4. /\ \A s \in DOMAIN runs : s # r => runs'[s] = runs[s]
        /\ runs'[r].outcome = o
    <3>1. o \in Outcomes
      BY DEF Outcomes
    <3>2. runs'[r] = [runs[r] EXCEPT !.outcome = o, !.finished = task[w][m].at]
      BY <1>1, <2>1, <2>2, <3>1, FinalizeType
    <3>3. runs'[r].outcome = o
      BY <2>3, <3>2 DEF Run
    <3> QED  BY <1>1, <2>2, <3>1, <3>3, FinalizeType
  <2>5. FailuresKept
    BY <2>1, <2>4 DEF FailuresKept, Failures
  <2>6. \A v \in Worker, n \in Mapping : v # w \/ n # m => RunOf(v, n)'
    <3> SUFFICES ASSUME NEW v \in Worker, NEW n \in Mapping, v # w \/ n # m,
                        Polls(v, n) \/ Recorded(v, n)
                 PROVE  RunOf(v, n)'
      BY <1>2 DEF RunOf, Recorded, Polls, PcIn, At
    <3>1. task[v][n].run # r
      BY <1>1, <2>1 DEF RunInv, RunsApart
    <3> HIDE DEF r
    <3> QED  BY <1>2, <1>3, <2>4, <3>1 DEF RunOf, Recorded, Polls, PcIn, At
  <2>7. RunOf(w, m)'
    BY <1>2, <2>1, <2>2, <2>4 DEF RunOf, Recorded, Polls, PcIn, At
  <2> QED  BY <2>5, <2>6, <2>7
<1>8. \/ Inserts(w, m, t) \/ Finalizes(w, m, t) \/ Corrects(w, m, t)
      \/ UNCHANGED runs /\ ~Finalizes(w, m, t)
  BY DEF Replaces, TaskEffect, Leaves, Acquires, Advances, Releases
<1> QED  BY <1>5, <1>6, <1>7, <1>8

Kept == LockInv' /\ RunInv' /\ FailuresKept

\* A step that touches no run and no lock, and of the tasks only idle ones.
LEMMA QuietStep ==
    ASSUME LockedInv, UNCHANGED <<runs, lock>>, SameRecovery,
           \A v \in Worker, n \in Mapping :
              \/ task'[v][n] = task[v][n]
              \/ /\ task[v][n].pc = "none" /\ task'[v][n].pc \in {"none", "open"}
                 /\ task'[v][n].run = Null
    PROVE  Kept
<1>1. LockInv /\ RunInv
  BY DEF LockedInv
<1>2. \A v \in Worker, n \in Mapping : WorksOn(v, n)' <=> WorksOn(v, n)
  BY DEF SameRecovery, WorksOn, PcIn, Holding
<1>4. LockInv'
  BY <1>1, <1>2 DEF LockInv
<1>5. RunInv'
  <2>1. RunsApart'
    BY <1>1 DEF RunInv, RunsApart
  <2>2. \A v \in Worker, n \in Mapping : RunOf(v, n)'
    BY <1>1 DEF RunInv, RunOf, Recorded, Polls, PcIn, At
  <2> QED  BY <2>1, <2>2 DEF RunInv
<1> QED  BY <1>4, <1>5 DEF Kept, FailuresKept

\* The recovery of w stays with its candidate, or had and has no lock.
LEMMA RecoveryMoves ==
    ASSUME RecoveryTypeOK, RowsKept, NEW w \in Worker,
           \A v \in Worker \ {w} : rec'[v] = rec[v],
           \/ rec[w].pc \notin {"finalize", "release"} /\ rec'[w].pc \notin {"finalize", "release"}
           \/ /\ rec[w].pc \in {"finalize", "release"} /\ rec'[w].pc \in {"finalize", "release"}
              /\ rec'[w].todo = rec[w].todo
    PROVE  SameRecovery
<1>1. \A v \in Worker \ {w}, n \in Mapping : Recovers(v, n)' <=> Recovers(v, n)
  BY RecoversKept
<1>2. \A n \in Mapping : Recovers(w, n)' <=> Recovers(w, n)
  <2>1. CASE rec[w].pc \notin {"finalize", "release"} /\ rec'[w].pc \notin {"finalize", "release"}
    BY <2>1 DEF Recovers
  <2>2. CASE /\ rec[w].pc \in {"finalize", "release"} /\ rec'[w].pc \in {"finalize", "release"}
             /\ rec'[w].todo = rec[w].todo
    <3>1. Candidate(w) \in DOMAIN runs /\ Candidate(w)' = Candidate(w)
      BY <2>2, CandidateType DEF Candidate
    <3>2. CandidateMapping(w)' = CandidateMapping(w)
      BY <3>1 DEF CandidateMapping, RowsKept
    <3> QED  BY <2>2, <3>2 DEF Recovers
  <2> QED  BY <2>1, <2>2
<1> QED  BY <1>1, <1>2 DEF SameRecovery

\* A recovery that takes a free lock keeps the invariants.
LEMMA ReacquireKept ==
    ASSUME LockedInv, NEW w \in Worker, ReacquireLock(w)
    PROVE  Kept
<1> DEFINE m == CandidateMapping(w)
<1>0. RecoveryTypeOK /\ PollingTypeOK /\ LockInv /\ RunInv
  BY DEF LockedInv, Typed, TypeInv, RecoveryTypeOK
<1>1. /\ rec[w].pc = "lock" /\ lock[m] = Free /\ lock' = [lock EXCEPT ![m] = w]
      /\ rec' = [rec EXCEPT ![w].pc = "finalize"] /\ UNCHANGED <<runs, task, now, mapping>>
  BY DEF ReacquireLock, RecAt, database
<1>2. m \in Mapping /\ Candidate(w) \in DOMAIN runs
  BY <1>0, <1>1, CandidateType
<1>3. PollingTypeOK' /\ RowsKept
  BY <1>0, <1>1, <1>2, NoChange DEF PollingTypeOK
<1>4. /\ rec'[w].pc = "finalize" /\ rec'[w].todo = rec[w].todo
      /\ \A v \in Worker \ {w} : rec'[v] = rec[v]
  BY <1>0, <1>1, <1>3, RecMoveType
<1>5. \A n \in Mapping : Recovers(w, n)' <=> n = m
  BY <1>1, <1>4 DEF Recovers, CandidateMapping, Candidate
<1>6. \A v \in Worker \ {w}, n \in Mapping : WorksOn(v, n)' <=> WorksOn(v, n)
  BY <1>0, <1>1, <1>3, <1>4, RecoversKept DEF WorksOn, PcIn
<1>7. \A n \in Mapping : n # m => (WorksOn(w, n)' <=> WorksOn(w, n))
  BY <1>1, <1>5 DEF WorksOn, PcIn, Recovers
<1>8. \A n \in Mapping : n = m => WorksOn(w, n)'
  BY <1>5 DEF WorksOn
<1>9. lock'[m] = w /\ \A n \in Mapping : n # m => lock'[n] = lock[n]
  BY <1>0, <1>1, <1>2 DEF PollingTypeOK
<1> HIDE DEF m
<1>10. \A v \in Worker \ {w} : ~WorksOn(v, m)
  BY <1>0, <1>1, <1>2, PollingConstants DEF LockInv
<1>12. \A v \in Worker, n \in Mapping : v # w \/ n # m =>
          /\ WorksOn(v, n)' => lock'[n] = v
          /\ lock'[n] = v => WorksOn(v, n)'
  BY <1>0, <1>6, <1>7, <1>9, <1>10 DEF LockInv
<1>13. \A v \in Worker, n \in Mapping : /\ WorksOn(v, n)' => lock'[n] = v
                                        /\ lock'[n] = v => WorksOn(v, n)'
  <2>1. \A v \in Worker, n \in Mapping : v = w /\ n = m =>
           lock'[n] = v /\ WorksOn(v, n)'
    BY <1>8, <1>9
  <2> QED  BY <1>12, <2>1
<1>14. RunInv' /\ FailuresKept
  BY <1>0, <1>1 DEF RunInv, RunOf, RunsApart, Recorded, Polls, PcIn, At, FailuresKept
<1> QED  BY <1>13, <1>14 DEF Kept, LockInv

\* So does one that gives its lock back.
LEMMA ReleaseRecoveryKept ==
    ASSUME LockedInv, NEW w \in Worker, ReleaseRecoveryLock(w)
    PROVE  Kept
<1> DEFINE m == CandidateMapping(w)
<1>0. RecoveryTypeOK /\ PollingTypeOK /\ LockInv /\ RunInv /\ LoopInv
  BY DEF LockedInv, Typed, TypeInv, RecoveryTypeOK
<1>1. /\ rec[w].pc = "release" /\ RecoverNext(w) /\ UNCHANGED <<runs, task, now, mapping>>
      /\ lock' = IF lock[m] = w THEN [lock EXCEPT ![m] = Free] ELSE lock
  BY DEF ReleaseRecoveryLock, RecAt, database
<1>2. m \in Mapping
  BY <1>0, <1>1, CandidateType
<1>3. PollingTypeOK' /\ RowsKept
  BY <1>0, <1>1, <1>2, NoChange DEF PollingTypeOK
<1>4. /\ rec'[w].pc \in {"lock", "done"}
      /\ \A v \in Worker \ {w} : rec'[v] = rec[v]
  BY <1>0, <1>1, <1>3, RecoverNextType
<1>5. \A n \in Mapping : (Recovers(w, n) <=> n = m) /\ ~Recovers(w, n)'
  BY <1>1, <1>4 DEF Recovers
<1>6. \A n \in Mapping : ~PcIn(w, n, Holding) /\ ~PcIn(w, n, Holding)'
  BY <1>0, <1>1 DEF LoopInv, RecAt, AllTasksEnded, PcIn, At, Holding
<1>7. \A v \in Worker \ {w}, n \in Mapping : WorksOn(v, n)' <=> WorksOn(v, n)
  BY <1>0, <1>1, <1>3, <1>4, RecoversKept DEF WorksOn, PcIn
<1> HIDE DEF m
<1>8. lock[m] = w
  BY <1>0, <1>2, <1>5 DEF LockInv, WorksOn
<1>9. lock'[m] = Free /\ \A n \in Mapping : n # m => lock'[n] = lock[n]
  BY <1>0, <1>1, <1>2, <1>8 DEF PollingTypeOK
<1>11. \A v \in Worker \ {w}, n \in Mapping :
          /\ WorksOn(v, n)' => lock'[n] = v
          /\ lock'[n] = v => WorksOn(v, n)'
  BY <1>0, <1>7, <1>8, <1>9, PollingConstants DEF LockInv
<1>12. \A n \in Mapping : ~WorksOn(w, n)' /\ lock'[n] # w
  BY <1>0, <1>5, <1>6, <1>9, PollingConstants DEF LockInv, WorksOn
<1>13. LockInv'
  BY <1>11, <1>12 DEF LockInv
<1>14. RunInv' /\ FailuresKept
  BY <1>0, <1>1 DEF RunInv, RunOf, RunsApart, Recorded, Polls, PcIn, At, FailuresKept
<1> QED  BY <1>13, <1>14 DEF Kept

\* So does the transaction of a recovery: it holds the lock of the mapping, so
\* nobody polls the run that it finalizes.
LEMMA FinalizeStaleKept ==
    ASSUME LockedInv, NEW w \in Worker, FinalizeStaleRun(w)
    PROVE  Kept
<1> DEFINE r == Candidate(w)
           m == CandidateMapping(w)
<1>0. RecoveryTypeOK /\ PollingTypeOK /\ LockInv /\ RunInv /\ LoopInv
  BY DEF LockedInv, Typed, TypeInv, RecoveryTypeOK
<1>1. /\ RowsKept /\ UNCHANGED <<lock, task>>
      /\ rec[w].pc = "finalize" /\ rec'[w].pc = "release" /\ rec'[w].todo = rec[w].todo
      /\ \A v \in Worker \ {w} : rec'[v] = rec[v]
  BY <1>0, FinalizeStaleRunType
<1>2. SameRecovery
  BY <1>0, <1>1, RecoveryMoves
<1>3. CASE UNCHANGED runs
  BY <1>1, <1>2, <1>3, QuietStep
<1>4. CASE /\ runs[r].outcome = "RUNNING"
           /\ \A s \in DOMAIN runs : s # r => runs'[s] = runs[s]
           /\ runs'[r] = [runs[r] EXCEPT !.outcome = "ABANDONED", !.finished = rec[w].at]
  <2>1. r \in DOMAIN runs /\ m \in Mapping /\ runs[r].mapping = m /\ runs[r] \in Run
    BY <1>0, <1>1, CandidateType DEF CandidateMapping, PollingTypeOK
  <2>2. runs'[r].outcome = "ABANDONED"
    BY <1>4, <2>1 DEF Run
  <2>3. lock[m] = w /\ \A n \in Mapping : ~PcIn(w, n, Holding)
    BY <1>0, <1>1, <2>1 DEF LockInv, WorksOn, Recovers, LoopInv, RecAt, AllTasksEnded,
       PcIn, At, Holding
  <2>4. FailuresKept
    BY <1>4, <2>2 DEF FailuresKept, Failures
  <2>5. \A v \in Worker, n \in Mapping : Polls(v, n) \/ Recorded(v, n) =>
           task[v][n].run \in DOMAIN runs /\ task[v][n].run # r
    <3> SUFFICES ASSUME NEW v \in Worker, NEW n \in Mapping, Polls(v, n) \/ Recorded(v, n)
                 PROVE  task[v][n].run \in DOMAIN runs /\ task[v][n].run # r
      OBVIOUS
    <3>1. task[v][n].run \in DOMAIN runs /\ runs[task[v][n].run].mapping = n
      BY <1>0 DEF RunInv, RunOf, PollingTypeOK
    <3>2. Polls(v, n) => PcIn(v, n, Holding) /\ lock[n] = v
      BY <1>0 DEF LockInv, WorksOn, PcIn, Polls, Holding
    <3>3. Recorded(v, n) => runs[task[v][n].run].outcome = "SUCCESS"
      BY <1>0 DEF RunInv, RunOf
    <3> HIDE DEF r, m
    <3> QED  BY <1>4, <2>1, <2>3, <3>1, <3>2, <3>3
  <2> HIDE DEF r, m
  <2>6. RunInv'
    <3>1. RunsApart'
      BY <1>0, <1>1 DEF RunInv, RunsApart
    <3>2. \A v \in Worker, n \in Mapping : RunOf(v, n)'
      BY <1>0, <1>1, <1>4, <2>5 DEF RunInv, RunOf, Recorded, Polls, PcIn, At
    <3> QED  BY <3>1, <3>2 DEF RunInv
  <2>7. LockInv'
    <3>1. \A v \in Worker, n \in Mapping : WorksOn(v, n)' <=> WorksOn(v, n)
      BY <1>1, <1>2 DEF SameRecovery, WorksOn, PcIn
    <3> QED  BY <1>0, <1>1, <3>1 DEF LockInv
  <2> QED  BY <2>4, <2>6, <2>7 DEF Kept
<1> QED  BY <1>0, <1>3, <1>4, FinalizeStaleRunType DEF database

\* So does the death of a process, which frees its locks with its sessions.
LEMMA KillKept ==
    ASSUME LockedInv, NEW w \in Worker, KillAndRestart(w)
    PROVE  Kept
<1>0. RecoveryTypeOK /\ PollingTypeOK /\ LockInv /\ RunInv
  BY DEF LockedInv, Typed, TypeInv, RecoveryTypeOK
<1>1. Crash(w) /\ rec' = [rec EXCEPT ![w] = NotStarted(w)]
  BY DEF KillAndRestart, CrashAndRestart
<1>2. /\ RowsKept /\ UNCHANGED <<now, mapping, runs>>
      /\ \A v \in Worker \ {w} : task'[v] = task[v]
      /\ \A n \in Mapping : task'[w][n].pc = "none"
      /\ \A n \in Mapping : lock'[n] = IF lock[n] = w THEN Free ELSE lock[n]
  BY <1>0, <1>1, CrashType
<1>n. \A n \in Mapping : task'[w][n].run = Null
  BY <1>0, <1>1 DEF Crash, NoTask, PollingTypeOK
<1>3. rec'[w] = NotStarted(w) /\ \A v \in Worker \ {w} : rec'[v] = rec[v]
  BY <1>0, <1>1 DEF RecoveryTypeOK
<1>4. \A v \in Worker \ {w}, n \in Mapping : WorksOn(v, n)' <=> WorksOn(v, n)
  BY <1>0, <1>2, <1>3, RecoversKept DEF WorksOn, PcIn
<1>5. \A n \in Mapping : ~WorksOn(w, n)' /\ lock'[n] # w
  BY <1>2, <1>3, NotStartedType, PollingConstants DEF WorksOn, PcIn, Recovers, Holding
<1>6. \A v \in Worker \ {w}, n \in Mapping :
         /\ WorksOn(v, n)' => lock'[n] = v
         /\ lock'[n] = v => WorksOn(v, n)'
  <2>1. \A v \in Worker, n \in Mapping : /\ WorksOn(v, n) => lock[n] = v
                                         /\ lock[n] = v => WorksOn(v, n)
    BY <1>0 DEF LockInv
  <2>2. \A n \in Mapping : lock'[n] = IF lock[n] = w THEN Free ELSE lock[n]
    BY <1>2
  <2> QED  BY <1>4, <2>1, <2>2, PollingConstants
<1>8. LockInv'
  BY <1>5, <1>6 DEF LockInv
<1>9. RunInv'
  <2>1. RunsApart'
    BY <1>0, <1>2, <1>n DEF RunInv, RunsApart
  <2>2. \A v \in Worker, n \in Mapping : RunOf(v, n)'
    BY <1>0, <1>2 DEF RunInv, RunOf, Recorded, Polls, PcIn, At
  <2> QED  BY <2>1, <2>2 DEF RunInv
<1>10. FailuresKept
  BY <1>2 DEF FailuresKept
<1> QED  BY <1>8, <1>9, <1>10 DEF Kept

\* Nobody works and no lock is held initially.
LEMMA LockedInit == RuntimeInit => LockedInv
<1> SUFFICES ASSUME RuntimeInit PROVE LockedInv
  OBVIOUS
<1>1. Typed
  BY TypedInit
<1>2. \A v \in Worker, n \in Mapping : /\ task[v][n].pc = "none" /\ task[v][n].run = Null
                                       /\ lock[n] = Free /\ ~Recovers(v, n)
  BY NotStartedType DEF RuntimeInit, RecoveryInit, PollingInit, NoTask, Recovers
<1>3. LockInv
  BY <1>2, PollingConstants DEF LockInv, WorksOn, PcIn, At, Holding
<1>4. RunInv
  BY <1>2 DEF RunInv, RunOf, RunsApart, Recorded, Polls, PcIn, At
<1> QED  BY <1>1, <1>3, <1>4 DEF LockedInv

\* Every step keeps the invariants and every failure on record.
LEMMA LockedNext ==
    ASSUME "session" \notin Faults
    PROVE  LockedInv /\ [RuntimeNext]_runtimeVars => LockedInv' /\ FailuresKept
<1> SUFFICES ASSUME LockedInv, [RuntimeNext]_runtimeVars
             PROVE  LockedInv' /\ FailuresKept
  OBVIOUS
<1>0. /\ Typed /\ RecoveryTypeOK /\ PollingTypeOK /\ LockInv /\ RunInv /\ LoopInv
      /\ Typed' /\ RowsKept
  BY TypedNext DEF LockedInv, Typed, TypeInv, RecoveryTypeOK
<1>1. SUFFICES Kept
  BY <1>0 DEF Kept, LockedInv
<1>2. UNCHANGED rec => SameRecovery
  BY <1>0, RecoversKept DEF SameRecovery
<1>3. UNCHANGED <<rec, runs, lock, task>> => Kept
  BY <1>2, QuietStep
<1>4. CASE UNCHANGED runtimeVars
  BY <1>3, <1>4 DEF runtimeVars, collectorVars, pollingVars, database
<1>5. CASE \/ Tick /\ UNCHANGED rec
           \/ (\E m \in Mapping : LoseSession(m) \/ SetEnabled(m)) /\ UNCHANGED rec
           \/ \E w \in Worker : \/ RecoveryFails(w) \/ CycleFails(w) \/ EndCycle(w)
                                \/ WakeUp(w) \/ Stop(w) \/ RequestShutdown(w)
  <2>1. UNCHANGED <<rec, runs, lock, task>>
    BY <1>5 DEF Tick, LoseSession, SetEnabled, RecoveryFails, CycleFails, EndCycle, WakeUp,
       Stop, RequestShutdown, collectorVars, pollingVars, database
  <2> QED  BY <1>3, <2>1
<1>6. ASSUME NEW w \in Worker, SelectDueMappings(w), UNCHANGED rec PROVE Kept
  BY <1>0, <1>2, <1>6, QuietStep DEF SelectDueMappings, PollingTypeOK, NoTask, At, database
<1>7. ASSUME NEW w \in Worker, BeginCycle(w) PROVE Kept
  BY <1>3, <1>6, <1>7 DEF BeginCycle, pollingVars, database
<1>8. ASSUME NEW w \in Worker, NEW m \in Mapping, TaskContinues(w, m) PROVE Kept
  <2>1. TaskStep(w, m) /\ UNCHANGED rec
    BY <1>8 DEF TaskContinues
  <2>2. PICK t : Replaces(w, m, t)
    BY <1>0, <2>1, TaskStepEffect
  <2> QED  BY <1>2, <2>1, <2>2, ReplacesLock, ReplacesRun DEF Kept
<1>9. ASSUME NEW w \in Worker, SelectStaleRuns(w) \/ StartAgain(w) PROVE Kept
  <2>1. UNCHANGED <<runs, lock, task>>
    BY <1>9 DEF SelectStaleRuns, StartAgain, pollingVars, database
  <2>2. rec[w].pc \notin {"finalize", "release"} /\ rec'[w].pc \notin {"finalize", "release"}
        /\ \A v \in Worker \ {w} : rec'[v] = rec[v]
    <3>1. CASE SelectStaleRuns(w)
      BY <1>0, <3>1, SelectStaleRunsType
    <3>2. CASE StartAgain(w)
      BY <1>0, <3>2, NotStartedType DEF StartAgain, LoopInv, RecoveryTypeOK
    <3> QED  BY <1>9, <3>1, <3>2
  <2>3. SameRecovery
    BY <1>0, <2>2, RecoveryMoves
  <2> QED  BY <2>1, <2>3, QuietStep
<1>10. ASSUME NEW w \in Worker, ActiveLockHeld(w) \/ RecoveryError(w) PROVE Kept
  <2>1. UNCHANGED <<runs, lock, task>> /\ PollingTypeOK'
    BY <1>0, <1>10 DEF ActiveLockHeld, RecoveryError, pollingVars, database, Typed, TypeInv,
       RecoveryTypeOK
  <2>2. CASE RecAt(w, "lock") /\ RecoverNext(w)
    <3>1. /\ rec[w].pc = "lock" /\ rec'[w].pc \in {"lock", "done"}
          /\ \A v \in Worker \ {w} : rec'[v] = rec[v]
      BY <1>0, <2>1, <2>2, RecoverNextType DEF RecAt
    <3>2. SameRecovery
      BY <1>0, <3>1, RecoveryMoves
    <3> QED  BY <2>1, <3>2, QuietStep
  <2>3. CASE RecAt(w, "finalize") /\ rec' = [rec EXCEPT ![w].pc = "release"]
    <3>1. /\ rec[w].pc = "finalize" /\ rec'[w].pc = "release" /\ rec'[w].todo = rec[w].todo
          /\ \A v \in Worker \ {w} : rec'[v] = rec[v]
      BY <1>0, <2>1, <2>3, RecMoveType DEF RecAt
    <3>2. SameRecovery
      BY <1>0, <3>1, RecoveryMoves
    <3> QED  BY <2>1, <3>2, QuietStep
  <2> QED  BY <1>10, <2>2, <2>3 DEF ActiveLockHeld, RecoveryError
<1>11. ASSUME NEW w \in Worker, BeginRecovery(w) \/ RecoveryContinues(w) PROVE Kept
  BY <1>9, <1>10, <1>11, ReacquireKept, FinalizeStaleKept, ReleaseRecoveryKept
  DEF BeginRecovery, RecoveryContinues, RecoveryStep
<1> QED
  BY <1>4, <1>5, <1>6, <1>7, <1>8, <1>9, <1>10, <1>11, KillKept DEF RuntimeNext, LoopStep

\* The invariants hold in every reachable state.
LEMMA SpecLocked == "session" \notin Faults => (RuntimeSpec => []LockedInv)
<1> SUFFICES ASSUME "session" \notin Faults PROVE RuntimeSpec => []LockedInv
  OBVIOUS
<1>1. LockedInv /\ [RuntimeNext]_runtimeVars => LockedInv'
  BY LockedNext
<1> QED  BY LockedInit, <1>1, PTL DEF RuntimeSpec

\* While lock sessions hold, a mapping is polled by one process at a time.
THEOREM OnePoll == "session" \notin Faults => (RuntimeSpec => []OnePollPerMapping)
<1>1. LockedInv => OnePollPerMapping
  BY DEF LockedInv, LockInv, WorksOn, PcIn, Holding, OnePollPerMapping, Polls
<1> QED  BY SpecLocked, <1>1, PTL

\* While lock sessions hold, no recovery abandons the run of a task that still
\* works on it: the lock of its mapping is held.
THEOREM LiveRuns == "session" \notin Faults => (RuntimeSpec => []LiveRunsAreNotAbandoned)
<1>1. LockedInv => LiveRunsAreNotAbandoned
  BY DEF LockedInv, RunInv, RunOf, PcIn, At, LiveRunsAreNotAbandoned, Polls
<1> QED  BY SpecLocked, <1>1, PTL

\* While lock sessions hold, a process that has stopped holds no lock and polls
\* nothing, wherever the signal found it.
THEOREM StoppedIsIdle == "session" \notin Faults => (RuntimeSpec => []StoppedHoldsNothing)
<1>1. LockedInv => StoppedHoldsNothing
  <2> SUFFICES ASSUME LockedInv, NEW w \in Worker, LoopAt(w, "stopped")
               PROVE  AllTasksEnded(w) /\ \A m \in Mapping : lock[m] # w
    BY DEF StoppedHoldsNothing
  <2>1. AllTasksEnded(w) /\ rec[w].pc \in {"select", "done"}
    BY DEF LockedInv, Typed, LoopInv, LoopAt, RecAt
  <2>2. \A m \in Mapping : ~WorksOn(w, m)
    BY <2>1 DEF WorksOn, Recovers, PcIn, Holding, AllTasksEnded, At
  <2> QED  BY <2>1, <2>2 DEF LockedInv, LockInv
<1> QED  BY SpecLocked, <1>1, PTL

\* While lock sessions hold, a failure on record is never turned into a success.
THEOREM FailuresAreFinal == "session" \notin Faults => (RuntimeSpec => FailureIsFinal)
<1> SUFFICES ASSUME "session" \notin Faults PROVE RuntimeSpec => FailureIsFinal
  OBVIOUS
<1>1. LockedInv /\ [RuntimeNext]_runtimeVars => [FailuresKept]_collectorVars
  BY LockedNext
<1>2. RuntimeSpec => []LockedInv
  BY SpecLocked
<1> QED  BY <1>1, <1>2, PTL DEF RuntimeSpec, FailureIsFinal, FailuresKept

------------------------------------------------------------------------------
(***************************************************************************)
(* The schedules.  A task writes a time it read earlier; the lock makes    *)
(* sure that no run of its mapping was finished after that time.           *)
(***************************************************************************)

Polled == {"SUCCESS", "FAILED", "CORRECTED"}
Early  == {"ABANDONED", "CORRECTED"}

Ending == {"success", "failure"}

\* The clock bounds the times of the runs.  The time a task is about to write
\* bounds those of the runs of its mapping, and those that a correction will
\* still write: it is read under the lock that the correction no longer has.
TimeInv ==
    /\ \A r \in DOMAIN runs : runs[r].outcome \in Polled =>
          runs[r].finished \in Nat /\ runs[r].finished <= now
    /\ \A w \in Worker, m \in Mapping : At(w, m, "correct") => task[w][m].at <= now
    /\ \A w \in Worker, m \in Mapping : PcIn(w, m, Ending) =>
          /\ task[w][m].at <= now
          /\ \A r \in DOMAIN runs : runs[r].mapping = m /\ runs[r].outcome \in Polled =>
                runs[r].finished <= task[w][m].at
          /\ \A v \in Worker : At(v, m, "correct") => task[v][m].at <= task[w][m].at

TimedInv == LockedInv /\ TimeInv /\ ScheduleFollowsRuns

\* A step in which no poll is finished or corrected: new rows are RUNNING, a
\* schedule moves only with a run that becomes ABANDONED, a task reads the
\* present time, and one that has to correct its run leaves nobody at its end.
NothingFinished ==
    /\ now' \in Nat /\ now <= now'
    /\ \A r \in DOMAIN runs' : runs'[r].outcome \in Polled =>
          r \in DOMAIN runs /\ runs'[r] = runs[r]
    /\ \A r \in DOMAIN runs : runs[r].outcome \in Early =>
          r \in DOMAIN runs' /\ runs'[r] = runs[r]
    /\ \A v \in Worker, n \in Mapping : task'[v][n].pc \in Ending =>
          task'[v][n] = task[v][n] \/ task'[v][n].at = now
    /\ \A v \in Worker, n \in Mapping : task'[v][n].pc = "correct" =>
          \/ task'[v][n] = task[v][n]
          \/ task'[v][n].at = now /\ \A u \in Worker : task'[u][n].pc \notin Ending
    /\ \A n \in Mapping :
          \/ mapping'[n].next = mapping[n].next
          \/ \E a \in DOMAIN runs' : /\ runs'[a].mapping = n /\ runs'[a].outcome \in Early
                                     /\ mapping'[n].next = runs'[a].finished + Interval[n]
                                     /\ mapping'[n].next # Null

\* Such a step keeps TimeInv and the schedules.
LEMMA NothingFinishedTime ==
    ASSUME TimedInv, NothingFinished
    PROVE  TimeInv' /\ ScheduleFollowsRuns'
<1>0. TimeInv /\ ScheduleFollowsRuns /\ PollingTypeOK /\ now \in Nat
  BY DEF TimedInv, LockedInv, Typed, TypeInv, RecoveryTypeOK, PollingTypeOK
<1>1. \A r \in DOMAIN runs' : runs'[r].outcome \in Polled =>
         /\ r \in DOMAIN runs /\ runs'[r] = runs[r] /\ runs[r].outcome \in Polled
         /\ runs[r].finished \in Nat /\ runs[r].finished <= now /\ runs[r].mapping \in Mapping
  <2>1. \A r \in DOMAIN runs : runs[r] \in Run
    BY <1>0 DEF PollingTypeOK
  <2>2. \A r \in DOMAIN runs : runs[r].mapping \in Mapping
    BY <2>1 DEF Run
  <2> QED  BY <1>0, <2>2 DEF NothingFinished, TimeInv
<1>2. now' \in Nat /\ now <= now'
  BY DEF NothingFinished
<1>c. ASSUME NEW w \in Worker, NEW m \in Mapping, task'[w][m].pc = "correct"
      PROVE  /\ task'[w][m].at <= now /\ task'[w][m].at \in Nat
             /\ \/ task'[w][m] = task[w][m]
                \/ \A u \in Worker : task'[u][m].pc \notin Ending
  <2>1. CASE task'[w][m] = task[w][m]
    BY <1>0, <1>c, <2>1 DEF TimeInv, At, PollingTypeOK, PollingTask
  <2>2. CASE task'[w][m].at = now /\ \A u \in Worker : task'[u][m].pc \notin Ending
    BY <1>0, <2>2
  <2> QED  BY <1>c, <2>1, <2>2 DEF NothingFinished
<1>3. ASSUME NEW w \in Worker, NEW m \in Mapping, task'[w][m].pc \in Ending
      PROVE  /\ task'[w][m].at <= now'
             /\ \A r \in DOMAIN runs' : runs'[r].mapping = m /\ runs'[r].outcome \in Polled =>
                   runs'[r].finished <= task'[w][m].at
             /\ \A v \in Worker : task'[v][m].pc = "correct" =>
                   task'[v][m].at <= task'[w][m].at
  <2>1. CASE task'[w][m].at = now
    BY <1>0, <1>1, <1>2, <1>c, <2>1
  <2>2. CASE task'[w][m] = task[w][m]
    <3>1. /\ task[w][m].at \in Nat /\ task[w][m].at <= now
          /\ \A r \in DOMAIN runs : runs[r].mapping = m /\ runs[r].outcome \in Polled =>
                runs[r].finished <= task[w][m].at
          /\ \A v \in Worker : task[v][m].pc = "correct" =>
                task[v][m].at <= task[w][m].at
      BY <1>0, <1>3, <2>2 DEF TimeInv, PcIn, At, PollingTypeOK, PollingTask
    <3>2. \A v \in Worker : task'[v][m].pc = "correct" => task'[v][m] = task[v][m]
      BY <1>3, <1>c
    <3>3. \A v \in Worker : task'[v][m].pc = "correct" => task'[v][m].at <= task'[w][m].at
      BY <2>2, <3>1, <3>2
    <3>4. /\ task'[w][m].at <= now'
          /\ \A r \in DOMAIN runs' : runs'[r].mapping = m /\ runs'[r].outcome \in Polled =>
                runs'[r].finished <= task'[w][m].at
      BY <1>0, <1>1, <1>2, <2>2, <3>1
    <3> QED  BY <3>3, <3>4
  <2> QED  BY <1>3, <2>1, <2>2 DEF NothingFinished
<1>4. TimeInv'
  <2>1. \A r \in DOMAIN runs' : runs'[r].outcome \in Polled =>
           runs'[r].finished \in Nat /\ runs'[r].finished <= now'
    BY <1>0, <1>1, <1>2
  <2>2. \A w \in Worker, m \in Mapping : task'[w][m].pc = "correct" => task'[w][m].at <= now'
    BY <1>0, <1>2, <1>c
  <2> QED  BY <1>3, <2>1, <2>2 DEF TimeInv, PcIn, At
<1>5. ASSUME NEW r \in DOMAIN runs', runs'[r].outcome \in Polled
      PROVE  LET n == runs'[r].mapping
             IN  /\ mapping'[n].next # Null
                 /\ \/ mapping'[n].next >= runs'[r].finished + Interval[n]
                    \/ \E a \in DOMAIN runs' :
                          /\ runs'[a].mapping = n /\ runs'[a].outcome \in Early
                          /\ mapping'[n].next = runs'[a].finished + Interval[runs'[a].mapping]
  <2> DEFINE n == runs[r].mapping
  <2>1. n \in Mapping /\ runs'[r] = runs[r] /\ r \in DOMAIN runs /\ runs[r].outcome \in Polled
    BY <1>1, <1>5
  <2>2. CASE mapping'[n].next = mapping[n].next
    <3>1. /\ mapping[n].next # Null
          /\ \/ mapping[n].next >= runs[r].finished + Interval[n]
             \/ \E a \in DOMAIN runs : /\ runs[a].mapping = n /\ runs[a].outcome \in Early
                                       /\ mapping[n].next = runs[a].finished + Interval[n]
      BY <1>0, <2>1 DEF ScheduleFollowsRuns, Polled, Early, NextPoll, DueAfter
    <3>2. \A a \in DOMAIN runs : runs[a].outcome \in Early =>
             a \in DOMAIN runs' /\ runs'[a] = runs[a]
      BY DEF NothingFinished
    <3> QED  BY <2>1, <2>2, <3>1, <3>2
  <2>3. CASE \E a \in DOMAIN runs' : /\ runs'[a].mapping = n /\ runs'[a].outcome \in Early
                                     /\ mapping'[n].next = runs'[a].finished + Interval[n]
                                     /\ mapping'[n].next # Null
    BY <2>1, <2>3
  <2> QED  BY <2>1, <2>2, <2>3 DEF NothingFinished
<1>6. ScheduleFollowsRuns'
  BY <1>5 DEF ScheduleFollowsRuns, Polled, Early, NextPoll, DueAfter
<1> QED  BY <1>4, <1>6

\* The poll of w for m is finished, with the time its task has read.
LEMMA FinalizesTime ==
    ASSUME TimedInv, NEW w \in Worker, NEW m \in Mapping, NEW t, Replaces(w, m, t),
           Finalizes(w, m, t)
    PROVE  TimeInv' /\ ScheduleFollowsRuns'
<1> DEFINE r == task[w][m].run
           at == task[w][m].at
<1>0. /\ TimeInv /\ ScheduleFollowsRuns /\ PollingTypeOK /\ LockInv /\ RunInv
      /\ now \in Nat /\ LockedInv
  BY DEF TimedInv, LockedInv, Typed, TypeInv, RecoveryTypeOK, PollingTypeOK
<1>1. PcIn(w, m, Ending) /\ Polls(w, m)
  BY DEF Finalizes, PcIn, At, Polls, Ending
<1>2. PICK o \in {"SUCCESS", "FAILED"} : Finalize(w, m, o)
  BY DEF Finalizes
<1>3. /\ r \in DOMAIN runs /\ runs[r].mapping = m /\ runs[r] \in Run
      /\ runs[r].outcome \in {"RUNNING", "SUCCESS"} /\ at \in Nat
  BY <1>0, <1>1 DEF RunInv, RunOf, Polls, PollingTypeOK, PollingTask, PcIn, At, Ending
<1>4. /\ at <= now
      /\ \A s \in DOMAIN runs : runs[s].mapping = m /\ runs[s].outcome \in Polled =>
            runs[s].finished <= at
  BY <1>0, <1>1 DEF TimeInv
<1>5. /\ RowsKept /\ DOMAIN runs' = DOMAIN runs
      /\ \A s \in DOMAIN runs : s # r => runs'[s] = runs[s]
      /\ mapping'[m].next = at + Interval[m]
      /\ \A n \in Mapping : n # m => mapping'[n] = mapping[n]
      /\ runs'[r].outcome = o /\ runs'[r].finished = at /\ runs'[r].mapping = m
  <2>1. o \in Outcomes
    BY DEF Outcomes
  <2>2. RowsKept /\ DOMAIN runs' = DOMAIN runs
    BY <1>0, <1>2, <2>1, FinalizeType
  <2>3. \A s \in DOMAIN runs : s # r => runs'[s] = runs[s]
    BY <1>0, <1>2, <2>1, FinalizeType
  <2>4. runs'[r].outcome = o /\ runs'[r].finished = at /\ runs'[r].mapping = m
    BY <1>0, <1>2, <1>3, <2>1, FinalizedRow
  <2>5. /\ mapping'[m].next = at + Interval[m]
        /\ \A n \in Mapping : n # m => mapping'[n] = mapping[n]
    BY <1>0, <1>2, <2>1, FinalizeType
  <2> QED  BY <2>2, <2>3, <2>4, <2>5
<1>6. runs'[r].outcome = o /\ runs'[r].finished = at /\ runs'[r].mapping = m
  BY <1>5
<1>7. UNCHANGED now
  BY DEF Replaces
<1> HIDE DEF r, at
<1>8. \A s \in DOMAIN runs' : /\ s \in DOMAIN runs /\ runs'[s].mapping = runs[s].mapping
                              /\ runs[s].mapping \in Mapping
  <2>1. \A s \in DOMAIN runs : runs[s] \in Run
    BY <1>0 DEF PollingTypeOK
  <2> QED  BY <1>5, <2>1 DEF RowsKept, Run
<1>9. \A s \in DOMAIN runs' : runs'[s].outcome \in Polled =>
         /\ runs'[s].finished \in Nat /\ runs'[s].finished <= now
         /\ runs'[s].mapping = m => runs'[s].finished <= at
  <2>1. \A s \in DOMAIN runs : runs[s].outcome \in Polled =>
           runs[s].finished \in Nat /\ runs[s].finished <= now
    BY <1>0 DEF TimeInv
  <2>2. \A s \in DOMAIN runs : s # r /\ runs'[s].outcome \in Polled =>
           /\ runs'[s].finished \in Nat /\ runs'[s].finished <= now
           /\ runs'[s].mapping = m => runs'[s].finished <= at
    BY <1>4, <1>5, <2>1
  <2>3. runs'[r].finished \in Nat /\ runs'[r].finished <= now /\ runs'[r].finished <= at
    BY <1>0, <1>3, <1>4, <1>6
  <2>4. DOMAIN runs' = DOMAIN runs
    BY <1>5
  <2> QED  BY <2>2, <2>3, <2>4
<1>c. \A v \in Worker, n \in Mapping : task'[v][n].pc = "correct" =>
         /\ task'[v][n] = task[v][n]
         /\ task[v][n].at <= now
  <2>1. t.pc # "correct"
    BY DEF Finalizes
  <2>2. \A v \in Worker, n \in Mapping : task'[v][n].pc = "correct" =>
           task'[v][n] = task[v][n]
    BY <1>0, <2>1 DEF Replaces, PollingTypeOK
  <2> QED  BY <1>0, <2>2 DEF TimeInv, At
<1>10. ASSUME NEW v \in Worker, NEW n \in Mapping, task'[v][n].pc \in Ending
       PROVE  /\ task'[v][n].at <= now
              /\ \A s \in DOMAIN runs' : runs'[s].mapping = n /\ runs'[s].outcome \in Polled =>
                    runs'[s].finished <= task'[v][n].at
              /\ \A u \in Worker : task'[u][n].pc = "correct" =>
                    task'[u][n].at <= task'[v][n].at
  <2>1. CASE v = w /\ n = m
    <3>1. task'[v][n] = t
      BY <1>0, <2>1 DEF Replaces, PollingTypeOK
    <3>2. task'[v][n].at = now
      BY <1>10, <3>1 DEF Finalizes, Ending
    <3> QED  BY <1>0, <1>9, <1>c, <3>2
  <2>2. CASE ~(v = w /\ n = m)
    <3>1. task'[v][n] = task[v][n]
      BY <1>0, <2>2 DEF Replaces, PollingTypeOK
    <3>2. n # m
      BY <1>0, <1>1, <1>10, <2>2, <3>1 DEF LockInv, WorksOn, PcIn, Holding, Ending
    <3>3. /\ task[v][n].at <= now
          /\ \A s \in DOMAIN runs : runs[s].mapping = n /\ runs[s].outcome \in Polled =>
                runs[s].finished <= task[v][n].at
          /\ \A u \in Worker : task[u][n].pc = "correct" => task[u][n].at <= task[v][n].at
      BY <1>0, <1>10, <3>1 DEF TimeInv, PcIn, At
    <3>4. \A u \in Worker : task'[u][n].pc = "correct" => task'[u][n].at <= task'[v][n].at
      BY <1>c, <3>1, <3>3
    <3>5. /\ task'[v][n].at <= now
          /\ \A s \in DOMAIN runs' : runs'[s].mapping = n /\ runs'[s].outcome \in Polled =>
                runs'[s].finished <= task'[v][n].at
      BY <1>5, <1>6, <1>8, <3>1, <3>2, <3>3
    <3> QED  BY <3>4, <3>5
  <2> QED  BY <2>1, <2>2
<1>11. TimeInv'
  BY <1>7, <1>9, <1>10, <1>c DEF TimeInv, PcIn, At
<1>12. ASSUME NEW s \in DOMAIN runs', runs'[s].outcome \in Polled
       PROVE  LET n == runs'[s].mapping
              IN  /\ mapping'[n].next # Null
                  /\ \/ mapping'[n].next >= runs'[s].finished + Interval[n]
                     \/ \E a \in DOMAIN runs' :
                           /\ runs'[a].mapping = n /\ runs'[a].outcome \in Early
                           /\ mapping'[n].next = runs'[a].finished + Interval[runs'[a].mapping]
  <2> DEFINE n == runs[s].mapping
  <2>1. n \in Mapping /\ runs'[s].mapping = n /\ s \in DOMAIN runs
    BY <1>8
  <2>2. CASE n = m
    <3>1. Interval[m] \in Nat /\ runs'[s].finished \in Nat /\ runs'[s].finished <= at
      BY <1>9, <1>12, <2>1, <2>2, PollingConstants
    <3>2. at + Interval[m] \in Nat /\ at + Interval[m] >= runs'[s].finished + Interval[m]
      BY <1>3, <3>1
    <3> QED  BY <1>5, <2>1, <2>2, <3>2, PollingConstants
  <2>3. CASE n # m
    <3>1. runs'[s] = runs[s] /\ mapping'[n] = mapping[n]
      BY <1>3, <1>5, <2>1, <2>3
    <3>2. /\ mapping[n].next # Null
          /\ \/ mapping[n].next >= runs[s].finished + Interval[n]
             \/ \E a \in DOMAIN runs : /\ runs[a].mapping = n /\ runs[a].outcome \in Early
                                       /\ mapping[n].next = runs[a].finished + Interval[n]
      BY <1>0, <1>12, <2>1, <3>1 DEF ScheduleFollowsRuns, Polled, Early, NextPoll, DueAfter
    <3>3. \A a \in DOMAIN runs : runs[a].mapping = n =>
             a \in DOMAIN runs' /\ runs'[a] = runs[a]
      BY <1>3, <1>5, <2>3
    <3> QED  BY <2>1, <3>1, <3>2, <3>3
  <2> QED  BY <2>2, <2>3
<1>13. ScheduleFollowsRuns'
  BY <1>12 DEF ScheduleFollowsRuns, Polled, Early, NextPoll, DueAfter
<1> QED  BY <1>11, <1>13

\* A success is corrected with the time of its release.  Whoever polls the
\* mapping now has read its time after it.
LEMMA CorrectsTime ==
    ASSUME TimedInv, NEW w \in Worker, NEW m \in Mapping, NEW t, Replaces(w, m, t),
           Corrects(w, m, t)
    PROVE  TimeInv' /\ ScheduleFollowsRuns'
<1> DEFINE r == task[w][m].run
           at == task[w][m].at
<1>0. /\ TimeInv /\ ScheduleFollowsRuns /\ PollingTypeOK /\ RunInv /\ now \in Nat
  BY DEF TimedInv, LockedInv, Typed, TypeInv, RecoveryTypeOK, PollingTypeOK
<1>1. At(w, m, "correct") /\ Recorded(w, m) /\ Finalize(w, m, "CORRECTED") /\ t.pc = "none"
  BY DEF Corrects, Recorded
<1>2. /\ r \in DOMAIN runs /\ runs[r].mapping = m /\ runs[r] \in Run
      /\ runs[r].outcome = "SUCCESS" /\ at \in Nat /\ at <= now
  BY <1>0, <1>1 DEF RunInv, RunOf, TimeInv, PollingTypeOK, PollingTask
<1>3. /\ RowsKept /\ DOMAIN runs' = DOMAIN runs
      /\ \A s \in DOMAIN runs : s # r => runs'[s] = runs[s]
      /\ mapping'[m].next = at + Interval[m]
      /\ \A n \in Mapping : n # m => mapping'[n] = mapping[n]
      /\ runs'[r].outcome = "CORRECTED" /\ runs'[r].finished = at /\ runs'[r].mapping = m
  <2>1. "CORRECTED" \in Outcomes
    BY DEF Outcomes
  <2>2. RowsKept /\ DOMAIN runs' = DOMAIN runs
    BY <1>0, <1>1, <2>1, FinalizeType
  <2>3. \A s \in DOMAIN runs : s # r => runs'[s] = runs[s]
    BY <1>0, <1>1, <2>1, FinalizeType
  <2>4. runs'[r].outcome = "CORRECTED" /\ runs'[r].finished = at /\ runs'[r].mapping = m
    BY <1>0, <1>1, <1>2, <2>1, FinalizedRow
  <2>5. /\ mapping'[m].next = at + Interval[m]
        /\ \A n \in Mapping : n # m => mapping'[n] = mapping[n]
    BY <1>0, <1>1, <2>1, FinalizeType
  <2> QED  BY <2>2, <2>3, <2>4, <2>5
<1>4. /\ UNCHANGED now
      /\ \A v \in Worker, n \in Mapping : task'[v][n].pc # "none" => task'[v][n] = task[v][n]
  BY <1>0, <1>1 DEF Replaces, PollingTypeOK
<1>5. \A v \in Worker : task[v][m].pc \in Ending => at <= task[v][m].at
  BY <1>0, <1>1 DEF TimeInv, PcIn
<1> HIDE DEF r, at
<1>6. \A s \in DOMAIN runs' : /\ s \in DOMAIN runs /\ runs'[s].mapping = runs[s].mapping
                              /\ runs[s].mapping \in Mapping
  <2>1. \A s \in DOMAIN runs : runs[s] \in Run
    BY <1>0 DEF PollingTypeOK
  <2> QED  BY <1>3, <2>1 DEF RowsKept, Run
<1>7. \A s \in DOMAIN runs' : runs'[s].outcome \in Polled =>
         runs'[s].finished \in Nat /\ runs'[s].finished <= now
  <2>1. \A s \in DOMAIN runs : runs[s].outcome \in Polled =>
           runs[s].finished \in Nat /\ runs[s].finished <= now
    BY <1>0 DEF TimeInv
  <2> QED  BY <1>2, <1>3, <2>1
<1>8. ASSUME NEW v \in Worker, NEW n \in Mapping, task'[v][n].pc \in Ending
      PROVE  /\ task'[v][n].at <= now
             /\ \A s \in DOMAIN runs' : runs'[s].mapping = n /\ runs'[s].outcome \in Polled =>
                   runs'[s].finished <= task'[v][n].at
             /\ \A u \in Worker : task'[u][n].pc = "correct" =>
                   task'[u][n].at <= task'[v][n].at
  <2>1. task'[v][n] = task[v][n] /\ task[v][n].pc \in Ending
    BY <1>4, <1>8 DEF Ending
  <2>2. /\ task[v][n].at <= now
        /\ \A s \in DOMAIN runs : runs[s].mapping = n /\ runs[s].outcome \in Polled =>
              runs[s].finished <= task[v][n].at
        /\ \A u \in Worker : task[u][n].pc = "correct" => task[u][n].at <= task[v][n].at
    BY <1>0, <2>1 DEF TimeInv, PcIn, At
  <2>3. \A s \in DOMAIN runs' : runs'[s].mapping = n /\ runs'[s].outcome \in Polled =>
           runs'[s].finished <= task[v][n].at
    <3>1. \A s \in DOMAIN runs : s # r /\ runs'[s].mapping = n /\ runs'[s].outcome \in Polled =>
             runs'[s].finished <= task[v][n].at
      BY <1>3, <2>2
    <3>2. runs'[r].mapping = n => runs'[r].finished <= task[v][n].at
      BY <1>3, <1>5, <2>1
    <3> QED  BY <1>6, <3>1, <3>2
  <2>4. \A u \in Worker : task'[u][n].pc = "correct" => task'[u][n].at <= task[v][n].at
    BY <1>4, <2>2
  <2> QED  BY <2>1, <2>2, <2>3, <2>4
<1>9. \A v \in Worker, n \in Mapping : task'[v][n].pc = "correct" => task'[v][n].at <= now
  BY <1>0, <1>4 DEF TimeInv, At
<1>10. TimeInv'
  BY <1>4, <1>7, <1>8, <1>9 DEF TimeInv, PcIn, At
<1>11. ASSUME NEW s \in DOMAIN runs', runs'[s].outcome \in Polled
       PROVE  LET n == runs'[s].mapping
              IN  /\ mapping'[n].next # Null
                  /\ \/ mapping'[n].next >= runs'[s].finished + Interval[n]
                     \/ \E a \in DOMAIN runs' :
                           /\ runs'[a].mapping = n /\ runs'[a].outcome \in Early
                           /\ mapping'[n].next = runs'[a].finished + Interval[runs'[a].mapping]
  <2> DEFINE n == runs[s].mapping
  <2>1. n \in Mapping /\ runs'[s].mapping = n /\ s \in DOMAIN runs
    BY <1>6
  <2>2. CASE n = m
    <3>1. at + Interval[m] \in Nat
      BY <1>2, PollingConstants
    <3> QED  BY <1>2, <1>3, <2>1, <2>2, <3>1, PollingConstants DEF Early
  <2>3. CASE n # m
    <3>1. runs'[s] = runs[s] /\ mapping'[n] = mapping[n]
      BY <1>2, <1>3, <2>1, <2>3
    <3>2. /\ mapping[n].next # Null
          /\ \/ mapping[n].next >= runs[s].finished + Interval[n]
             \/ \E a \in DOMAIN runs : /\ runs[a].mapping = n /\ runs[a].outcome \in Early
                                       /\ mapping[n].next = runs[a].finished + Interval[n]
      BY <1>0, <1>11, <2>1, <3>1 DEF ScheduleFollowsRuns, Polled, Early, NextPoll, DueAfter
    <3>3. \A a \in DOMAIN runs : runs[a].mapping = n =>
             a \in DOMAIN runs' /\ runs'[a] = runs[a]
      BY <1>2, <1>3, <2>3
    <3> QED  BY <2>1, <3>1, <3>2, <3>3
  <2> QED  BY <2>2, <2>3
<1>12. ScheduleFollowsRuns'
  BY <1>11 DEF ScheduleFollowsRuns, Polled, Early, NextPoll, DueAfter
<1> QED  BY <1>10, <1>12

\* A recovery writes ABANDONED, and a schedule with it.
LEMMA FinalizeStaleTime ==
    ASSUME TimedInv, NEW w \in Worker, FinalizeStaleRun(w)
    PROVE  NothingFinished
<1> DEFINE r == Candidate(w)
           m == CandidateMapping(w)
<1>0. RecoveryTypeOK /\ now \in Nat /\ Interval \in [Mapping -> Nat] /\ Null \notin Nat
  BY PollingConstants DEF TimedInv, LockedInv, Typed, TypeInv, RecoveryTypeOK, PollingTypeOK
<1>1. UNCHANGED <<now, task>> /\ rec[w].pc = "finalize"
  BY <1>0, FinalizeStaleRunType
<1>2. CASE UNCHANGED database
  BY <1>0, <1>1, <1>2 DEF database, NothingFinished
<1>3. CASE ~UNCHANGED database
  <2>1. /\ r \in DOMAIN runs /\ runs[r] \in Run /\ m = runs[r].mapping /\ m \in Mapping
        /\ rec[w].at \in Nat
    BY <1>0, <1>1, CandidateType DEF CandidateMapping, RecoveryTypeOK, PollingTypeOK
  <2>2. /\ runs[r].outcome = "RUNNING" /\ DOMAIN runs' = DOMAIN runs
        /\ \A s \in DOMAIN runs : s # r => runs'[s] = runs[s]
    BY <1>0, <1>3, FinalizeStaleRunType
  <2>3. runs'[r] = [runs[r] EXCEPT !.outcome = "ABANDONED", !.finished = rec[w].at]
    BY <1>0, <1>3, FinalizeStaleRunType
  <2>4. runs'[r].outcome = "ABANDONED" /\ runs'[r].finished = rec[w].at /\ runs'[r].mapping = m
    BY <2>1, <2>3 DEF Run
  <2>5. /\ \A n \in Mapping : n # m => mapping'[n] = mapping[n]
        /\ UNCHANGED mapping \/ mapping'[m].next = rec[w].at + Interval[m]
    BY <1>0, <1>3, FinalizeStaleRunType
  <2>6. rec[w].at + Interval[m] \in Nat
    BY <1>0, <2>1
  <2> HIDE DEF r, m
  <2>7. \A n \in Mapping :
           \/ mapping'[n].next = mapping[n].next
           \/ \E a \in DOMAIN runs' : /\ runs'[a].mapping = n /\ runs'[a].outcome \in Early
                                      /\ mapping'[n].next = runs'[a].finished + Interval[n]
                                      /\ mapping'[n].next # Null
    BY <1>0, <2>1, <2>2, <2>4, <2>5, <2>6 DEF Early
  <2>8. \A s \in DOMAIN runs' : runs'[s].outcome \in Polled =>
           s \in DOMAIN runs /\ runs'[s] = runs[s]
    BY <2>2, <2>4 DEF Polled
  <2>9. \A s \in DOMAIN runs : runs[s].outcome \in Early =>
           s \in DOMAIN runs' /\ runs'[s] = runs[s]
    BY <2>2 DEF Early
  <2> QED  BY <1>0, <1>1, <2>7, <2>8, <2>9 DEF NothingFinished
<1> QED  BY <1>2, <1>3

\* A step of a task that does not finish its poll.
LEMMA ReplacesTime ==
    ASSUME TimedInv, NEW w \in Worker, NEW m \in Mapping, NEW t, Replaces(w, m, t),
           ~Finalizes(w, m, t), ~Corrects(w, m, t)
    PROVE  NothingFinished
<1>0. PollingTypeOK /\ now \in Nat /\ LockInv
  BY DEF TimedInv, LockedInv, Typed, TypeInv, RecoveryTypeOK, PollingTypeOK
<1>1. UNCHANGED now /\ task'[w][m] = t
      /\ \A v \in Worker, n \in Mapping : v # w \/ n # m => task'[v][n] = task[v][n]
  BY <1>0 DEF Replaces, PollingTypeOK
<1>2. /\ UNCHANGED mapping /\ (t.pc \in Ending => t.at = now)
      /\ t.pc = "correct" => At(w, m, "release") /\ t.at = now
  BY DEF Replaces, TaskEffect, Leaves, Acquires, Inserts, Advances, Releases, Ending
<1>3. \A v \in Worker, n \in Mapping :
         /\ task'[v][n].pc \in Ending => task'[v][n] = task[v][n] \/ task'[v][n].at = now
         /\ task'[v][n].pc = "correct" =>
               \/ task'[v][n] = task[v][n]
               \/ task'[v][n].at = now /\ \A u \in Worker : task'[u][n].pc \notin Ending
  <2>1. \A v \in Worker, n \in Mapping : task'[v][n].pc \in Ending =>
           task'[v][n] = task[v][n] \/ task'[v][n].at = now
    BY <1>1, <1>2
  <2>2. ASSUME t.pc = "correct" PROVE \A u \in Worker : task'[u][m].pc \notin Ending
    <3>1. lock[m] = w
      BY <1>0, <1>2, <2>2 DEF LockInv, WorksOn, PcIn, At, Holding
    <3>2. \A u \in Worker : u # w => task[u][m].pc \notin Ending
      BY <1>0, <3>1 DEF LockInv, WorksOn, PcIn, Holding, Ending
    <3> QED  BY <1>1, <2>2, <3>2 DEF Ending
  <2> QED  BY <1>1, <1>2, <2>1, <2>2
<1>4. CASE UNCHANGED runs
  BY <1>0, <1>1, <1>2, <1>3, <1>4 DEF NothingFinished
<1>5. CASE InsertRun(w, m)
  <2>1. /\ DOMAIN runs \subseteq DOMAIN runs'
        /\ \A r \in DOMAIN runs : runs'[r] = runs[r]
        /\ \A r \in DOMAIN runs' : r \in DOMAIN runs \/ r = Len(runs) + 1
        /\ runs'[Len(runs) + 1].outcome = "RUNNING"
    BY <1>0, <1>5, InsertType DEF RowsKept
  <2>2. /\ \A r \in DOMAIN runs' : runs'[r].outcome \in Polled =>
              r \in DOMAIN runs /\ runs'[r] = runs[r]
        /\ \A r \in DOMAIN runs : runs[r].outcome \in Early =>
              r \in DOMAIN runs' /\ runs'[r] = runs[r]
    BY <2>1 DEF Polled
  <2> QED  BY <1>0, <1>1, <1>2, <1>3, <2>2 DEF NothingFinished
<1> QED
  BY <1>4, <1>5 DEF Replaces, TaskEffect, Leaves, Acquires, Inserts, Advances, Releases

\* Every step keeps TimeInv and the schedules.
LEMMA TimedNext ==
    ASSUME "session" \notin Faults
    PROVE  TimedInv /\ [RuntimeNext]_runtimeVars => TimedInv'
<1> SUFFICES ASSUME TimedInv, [RuntimeNext]_runtimeVars PROVE TimedInv'
  OBVIOUS
<1>0. LockedInv /\ RecoveryTypeOK /\ PollingTypeOK /\ LockInv /\ now \in Nat
  BY DEF TimedInv, LockedInv, Typed, TypeInv, RecoveryTypeOK, PollingTypeOK
<1>1. LockedInv'
  BY <1>0, LockedNext
<1>2. SUFFICES NothingFinished \/ (TimeInv' /\ ScheduleFollowsRuns')
  BY <1>1, NothingFinishedTime DEF TimedInv
<1>3. ASSUME UNCHANGED <<runs, mapping>>, now' \in Nat, now <= now',
             \A v \in Worker, n \in Mapping :
                task'[v][n] = task[v][n] \/ task'[v][n].pc \in {"none", "open"}
      PROVE  NothingFinished
  BY <1>3 DEF NothingFinished, Ending
<1>4. ASSUME UNCHANGED <<now, runs, mapping, task>> PROVE NothingFinished
  BY <1>0, <1>3, <1>4
<1>5. CASE Tick
  BY <1>0, <1>3, <1>5 DEF Tick, database
<1>6. ASSUME NEW m \in Mapping, LoseSession(m) \/ SetEnabled(m) PROVE NothingFinished
  <2>1. UNCHANGED <<now, runs, task>>
    BY <1>6 DEF LoseSession, SetEnabled, database
  <2>2. \A n \in Mapping : mapping'[n].next = mapping[n].next
    BY <1>0, <1>6 DEF LoseSession, SetEnabled, database, PollingTypeOK
  <2> QED  BY <1>0, <2>1, <2>2 DEF NothingFinished
<1>7. ASSUME NEW w \in Worker, SelectDueMappings(w) PROVE NothingFinished
  BY <1>0, <1>3, <1>7, SelectDueMappingsType
<1>8. ASSUME NEW w \in Worker, KillAndRestart(w) PROVE NothingFinished
  BY <1>0, <1>3, <1>8, CrashType DEF KillAndRestart, CrashAndRestart
<1>9. ASSUME NEW w \in Worker, NEW m \in Mapping, TaskStep(w, m)
      PROVE  NothingFinished \/ (TimeInv' /\ ScheduleFollowsRuns')
  BY <1>0, <1>9, TaskStepEffect, ReplacesTime, FinalizesTime, CorrectsTime
<1>10. ASSUME NEW w \in Worker, RecoveryContinues(w) PROVE NothingFinished
  BY <1>4, <1>10, FinalizeStaleTime
  DEF RecoveryContinues, RecoveryStep, SelectStaleRuns, ReacquireLock, ActiveLockHeld,
      RecoveryError, ReleaseRecoveryLock, pollingVars, database
<1>11. \/ UNCHANGED <<now, runs, mapping, task>> \/ Tick
       \/ \E m \in Mapping : LoseSession(m) \/ SetEnabled(m)
       \/ \E w \in Worker : \/ SelectDueMappings(w) \/ KillAndRestart(w) \/ RecoveryContinues(w)
                            \/ \E m \in Mapping : TaskStep(w, m)
  BY DEF RuntimeNext, LoopStep, TaskContinues, BeginRecovery, SelectStaleRuns,
     RecoveryFails, CycleFails, BeginCycle, EndCycle, WakeUp, Stop, RequestShutdown,
     StartAgain, runtimeVars, collectorVars, pollingVars, database
<1> QED  BY <1>4, <1>5, <1>6, <1>7, <1>8, <1>9, <1>10, <1>11

\* While lock sessions hold, the schedule of a mapping keeps up with every run
\* that its process finished, whatever was recovered, disabled or answered late.
THEOREM SchedulesFollow == "session" \notin Faults => (RuntimeSpec => []ScheduleFollowsRuns)
<1> SUFFICES ASSUME "session" \notin Faults PROVE RuntimeSpec => []ScheduleFollowsRuns
  OBVIOUS
<1>1. RuntimeInit => TimedInv
  <2> SUFFICES ASSUME RuntimeInit PROVE TimedInv
    OBVIOUS
  <2>1. DOMAIN runs = {} /\ \A v \in Worker, n \in Mapping : task[v][n].pc = "none"
    BY DEF RuntimeInit, RecoveryInit, PollingInit, NoTask
  <2>2. TimeInv /\ ScheduleFollowsRuns
    BY <2>1 DEF TimeInv, PcIn, At, Ending, ScheduleFollowsRuns
  <2> QED  BY <2>2, LockedInit DEF TimedInv
<1>2. TimedInv /\ [RuntimeNext]_runtimeVars => TimedInv'
  BY TimedNext
<1>3. TimedInv => ScheduleFollowsRuns
  BY DEF TimedInv
<1> QED  BY <1>1, <1>2, <1>3, PTL DEF RuntimeSpec

=============================================================================
