------------------------- MODULE RuntimeTypes_proofs -------------------------
(***************************************************************************)
(* What TLAPS proves of Runtime for every set of processes and mappings,   *)
(* every interval, threshold and limit, and every set of faults.  A step   *)
(* is reduced to what it does to the rows and to one task or one recovery  *)
(* before its types are looked at.  The last part is about the one result  *)
(* that needs a reliable environment instead: that no run is left RUNNING. *)
(***************************************************************************)
EXTENDS Runtime, FiniteSetTheorems, TLAPS

LoopTypeOK == loop \in [Worker -> [pc : {"top", "cycle", "sleep", "stopped"},
                                   aborted : BOOLEAN]]

TypeInv == RecoveryTypeOK /\ LoopTypeOK

PcIn(w, m, places) == task[w][m].pc \in places

\* Only a process with a loop recovers; it polls after its recovery, in a cycle,
\* and nothing is under way in one that has stopped.
LoopInv ==
    \A w \in Worker :
        /\ w \notin Recovering => RecAt(w, "done") /\ LoopAt(w, "top") /\ ~loop[w].aborted
        /\ ~RecAt(w, "done") => AllTasksEnded(w)
        /\ w \in Recovering /\ ~LoopAt(w, "cycle") => AllTasksEnded(w)
        /\ LoopAt(w, "stopped") => rec[w].pc \in {"select", "done"}

\* Rows of collector_runs are added and keep their mapping.
RowsKept ==
    /\ runs' \in Seq(Run)
    /\ DOMAIN runs \subseteq DOMAIN runs'
    /\ \A r \in DOMAIN runs : runs'[r].mapping = runs[r].mapping

------------------------------------------------------------------------------
\* Facts about sequences.
LEMMA SeqMonotone ==
    ASSUME NEW S, NEW T, S \subseteq T
    PROVE  Seq(S) \subseteq Seq(T)
OBVIOUS

\* A function on 1 .. n is a sequence of length n.
LEMMA SeqOfFunction ==
    ASSUME NEW S, NEW n \in Nat, NEW f \in [1 .. n -> S]
    PROVE  f \in Seq(S) /\ Len(f) = n /\ DOMAIN f = 1 .. n
OBVIOUS

\* The rest of a sequence of S is one.
LEMMA TailType ==
    ASSUME NEW S, NEW seq \in Seq(S), seq # <<>> PROVE Tail(seq) \in Seq(S)
OBVIOUS

\* INSERT into collector_runs.
LEMMA AppendRow ==
    ASSUME runs \in Seq(Run), NEW row \in Run, runs' = Append(runs, row)
    PROVE  /\ RowsKept
           /\ Len(runs) + 1 \in DOMAIN runs'
           /\ runs'[Len(runs) + 1] = row
           /\ \A r \in DOMAIN runs : runs'[r] = runs[r]
           /\ \A r \in DOMAIN runs' : r \in DOMAIN runs \/ r = Len(runs) + 1
BY DEF RowsKept

\* UPDATE of one row of collector_runs.
LEMMA UpdateRow ==
    ASSUME runs \in Seq(Run), NEW r, NEW o \in Outcomes, NEW f \in Nat,
           runs' = [runs EXCEPT ![r].outcome = o, ![r].finished = f]
    PROVE  /\ RowsKept
           /\ DOMAIN runs' = DOMAIN runs
           /\ \A s \in DOMAIN runs : s # r => runs'[s] = runs[s]
           /\ r \in DOMAIN runs => runs'[r] = [runs[r] EXCEPT !.outcome = o, !.finished = f]
<1>1. \A s \in DOMAIN runs : s # r => runs'[s] = runs[s]
  OBVIOUS
<1>2. DOMAIN runs' = DOMAIN runs
  OBVIOUS
<1>3. r \in DOMAIN runs => runs'[r] = [runs[r] EXCEPT !.outcome = o, !.finished = f]
  OBVIOUS
<1>4. \A s \in DOMAIN runs : runs[s] \in Run
  OBVIOUS
<1>5. \A s \in DOMAIN runs : runs'[s] \in Run /\ runs'[s].mapping = runs[s].mapping
  BY <1>1, <1>3, <1>4 DEF Run
<1>6. runs' \in Seq(Run)
  <2>1. DOMAIN runs = 1 .. Len(runs) /\ Len(runs) \in Nat
    OBVIOUS
  <2>2. runs' \in [1 .. Len(runs) -> Run]
    BY <1>2, <1>5, <2>1
  <2> QED  BY <2>1, <2>2, SeqOfFunction
<1> QED  BY <1>1, <1>2, <1>3, <1>5, <1>6 DEF RowsKept
------------------------------------------------------------------------------
\* What is left of PollingTypeOK when the process w replaces its task for m.
LEMMA TaskUpdate ==
    ASSUME PollingTypeOK, RowsKept,
           NEW w \in Worker, NEW m \in Mapping, NEW t \in PollingTask,
           task' = [task EXCEPT ![w][m] = t],
           \/ t.run \in {task[w][m].run, Null}
           \/ t.run \in DOMAIN runs' /\ runs'[t.run].mapping = m
    PROVE  /\ task'[w][m] = t
           /\ \A v \in Worker, n \in Mapping : v # w \/ n # m => task'[v][n] = task[v][n]
           /\ task' \in [Worker -> [Mapping -> PollingTask]]
           /\ \A v \in Worker, n \in Mapping : task'[v][n].run # Null =>
                 task'[v][n].run \in DOMAIN runs' /\ runs'[task'[v][n].run].mapping = n
<1>1. task'[w][m] = t
  BY DEF PollingTypeOK
<1>2. \A v \in Worker, n \in Mapping : v # w \/ n # m => task'[v][n] = task[v][n]
  BY DEF PollingTypeOK
<1>3. task' \in [Worker -> [Mapping -> PollingTask]]
  BY DEF PollingTypeOK
<1>4. \A v \in Worker, n \in Mapping : task'[v][n].run # Null =>
         task'[v][n].run \in DOMAIN runs' /\ runs'[task'[v][n].run].mapping = n
  BY <1>1, <1>2 DEF PollingTypeOK, RowsKept
<1> QED  BY <1>1, <1>2, <1>3, <1>4

\* The ways in which the steps of a task change it.
MovedAt(w, m, pc) == [task[w][m] EXCEPT !.pc = pc, !.at = now]
Over(w, m, o) == [task[w][m] EXCEPT !.pc = "release", !.at = 0, !.outcome = o]

Places == {"none", "open", "start", "fetch", "success", "failure", "release", "correct"}

\* These forms are tasks, and the actions produce them.
LEMMA TaskForms ==
    ASSUME PollingTypeOK, NEW w \in Worker, NEW m \in Mapping
    PROVE  /\ NoTask \in PollingTask /\ NoTask.run = Null /\ NoTask.pc = "none"
           /\ task[w][m] \in PollingTask
           /\ \A pc \in Places :
                 /\ MovedAt(w, m, pc) \in PollingTask
                 /\ MovedAt(w, m, pc).run = task[w][m].run
                 /\ MovedAt(w, m, pc).pc = pc
                 /\ MovedAt(w, m, pc).at = now
                 /\ BecomeAt(w, m, pc) => task' = [task EXCEPT ![w][m] = MovedAt(w, m, pc)]
           /\ \A o \in {"SUCCESS", "FAILED"} :
                 /\ Over(w, m, o) \in PollingTask
                 /\ Over(w, m, o).run = task[w][m].run
                 /\ Over(w, m, o).pc = "release" /\ Over(w, m, o).outcome = o
                 /\ Finished(w, m, o) => task' = [task EXCEPT ![w][m] = Over(w, m, o)]
<1>1. NoTask \in PollingTask /\ NoTask.run = Null /\ NoTask.pc = "none"
      /\ task[w][m] \in PollingTask
  BY DEF NoTask, PollingTask, PollingTypeOK
<1>4. \A pc \in Places : /\ MovedAt(w, m, pc) \in PollingTask
                         /\ MovedAt(w, m, pc).run = task[w][m].run
                         /\ MovedAt(w, m, pc).pc = pc
                         /\ MovedAt(w, m, pc).at = now
  BY <1>1 DEF PollingTask, MovedAt, Places, PollingTypeOK
<1>5. \A pc \in Places : BecomeAt(w, m, pc) => task' = [task EXCEPT ![w][m] = MovedAt(w, m, pc)]
  BY DEF BecomeAt, PollingTypeOK, MovedAt
<1>6. \A o \in {"SUCCESS", "FAILED"} : /\ Over(w, m, o) \in PollingTask
                                       /\ Over(w, m, o).run = task[w][m].run
                                       /\ Over(w, m, o).pc = "release"
                                       /\ Over(w, m, o).outcome = o
  BY <1>1 DEF PollingTask, Over
<1>7. \A o : Finished(w, m, o) => task' = [task EXCEPT ![w][m] = Over(w, m, o)]
  BY DEF Finished, PollingTypeOK, Over
<1> QED  BY <1>1, <1>4, <1>5, <1>6, <1>7
------------------------------------------------------------------------------
MappingRow == [enabled : BOOLEAN, next : Nat \cup {Null}]

\* A step that leaves collector_runs alone keeps its rows.
LEMMA NoChange ==
    ASSUME PollingTypeOK, UNCHANGED runs PROVE RowsKept
BY DEF PollingTypeOK, RowsKept

\* Effect of finalizeRunAndSchedule on both tables.
LEMMA FinalizeType ==
    ASSUME PollingTypeOK, NEW w \in Worker, NEW m \in Mapping, NEW o \in Outcomes,
           Finalize(w, m, o)
    PROVE  /\ RowsKept
           /\ DOMAIN runs' = DOMAIN runs
           /\ \A s \in DOMAIN runs : s # task[w][m].run => runs'[s] = runs[s]
           /\ task[w][m].run \in DOMAIN runs =>
                 runs'[task[w][m].run] = [runs[task[w][m].run] EXCEPT !.outcome = o,
                                                       !.finished = task[w][m].at]
           /\ mapping' \in [Mapping -> MappingRow]
           /\ mapping'[m].next = task[w][m].at + Interval[m]
           /\ \A n \in Mapping : n # m => mapping'[n] = mapping[n]
<1>1. task[w][m].at \in Nat /\ Interval[m] \in Nat
  BY PollingConstants DEF PollingTypeOK, PollingTask
<1>2. /\ mapping' \in [Mapping -> MappingRow]
      /\ mapping'[m].next = task[w][m].at + Interval[m]
      /\ \A n \in Mapping : n # m => mapping'[n] = mapping[n]
  <2>1. mapping \in [Mapping -> MappingRow]
    BY DEF PollingTypeOK, MappingRow
  <2>2. mapping' = [mapping EXCEPT ![m] = [mapping[m] EXCEPT !.next =
                                              task[w][m].at + Interval[m]]]
    BY DEF Finalize
  <2>3. [mapping[m] EXCEPT !.next = task[w][m].at + Interval[m]] \in MappingRow
    BY <2>1, <1>1 DEF MappingRow
  <2>4. [mapping[m] EXCEPT !.next = task[w][m].at + Interval[m]].next
           = task[w][m].at + Interval[m]
    BY <2>1 DEF MappingRow
  <2> QED  BY <2>1, <2>2, <2>3, <2>4
<1>3. runs \in Seq(Run)
  BY DEF PollingTypeOK
<1>4. runs' = [runs EXCEPT ![task[w][m].run].outcome = o,
                           ![task[w][m].run].finished = task[w][m].at]
  BY DEF Finalize
<1> QED  BY <1>1, <1>2, <1>3, <1>4, UpdateRow

\* The row that finalizeRunAndSchedule writes.
LEMMA FinalizedRow ==
    ASSUME PollingTypeOK, NEW w \in Worker, NEW m \in Mapping, NEW o \in Outcomes,
           Finalize(w, m, o), task[w][m].run \in DOMAIN runs
    PROVE  /\ runs'[task[w][m].run].outcome = o
           /\ runs'[task[w][m].run].finished = task[w][m].at
           /\ runs'[task[w][m].run].mapping = runs[task[w][m].run].mapping
<1> DEFINE r == task[w][m].run
           row == [runs[r] EXCEPT !.outcome = o, !.finished = task[w][m].at]
<1>1. runs \in Seq(Run) /\ r \in DOMAIN runs
  BY DEF PollingTypeOK
<1>2. runs' = [runs EXCEPT ![r].outcome = o, ![r].finished = task[w][m].at]
  BY DEF Finalize
<1> HIDE DEF r
<1>3. runs'[r] = row
  BY <1>1, <1>2
<1>4. runs[r] \in Run
  BY <1>1
<1>5. /\ row.outcome = o /\ row.finished = task[w][m].at
      /\ row.mapping = runs[r].mapping
  BY <1>4 DEF Run
<1> QED  BY <1>3, <1>5 DEF r

\* Effect of startRun on collector_runs.
LEMMA InsertType ==
    ASSUME PollingTypeOK, NEW w \in Worker, NEW m \in Mapping, InsertRun(w, m)
    PROVE  /\ RowsKept
           /\ Len(runs) + 1 \in DOMAIN runs' /\ Len(runs) + 1 \in Nat
           /\ runs'[Len(runs) + 1].mapping = m
           /\ runs'[Len(runs) + 1].outcome = "RUNNING"
           /\ \A r \in DOMAIN runs : runs'[r] = runs[r]
           /\ \A r \in DOMAIN runs' : r \in DOMAIN runs \/ r = Len(runs) + 1
<1> DEFINE row == [mapping |-> m, outcome |-> "RUNNING", started |-> task[w][m].at,
                   finished |-> Null]
<1>1. row \in Run
  BY DEF Run, Outcomes, PollingTypeOK, PollingTask
<1>2. runs \in Seq(Run) /\ runs' = Append(runs, row)
  BY DEF PollingTypeOK, InsertRun
<1>3. Len(runs) \in Nat
  BY <1>2
<1> QED  BY <1>1, <1>2, <1>3, AppendRow

\* A step of a task replaces it by one that is still about its mapping.
NewTask(w, m, t) ==
    /\ t \in PollingTask
    /\ task' = [task EXCEPT ![w][m] = t]
    /\ \/ t.run \in {task[w][m].run, Null}
       \/ t.run \in DOMAIN runs' /\ runs'[t.run].mapping = m

StepTo(w, m, t) ==
    /\ NewTask(w, m, t)
    /\ RowsKept
    /\ UNCHANGED now
    /\ lock' \in [Mapping -> Worker \cup {Free}]
    /\ mapping' \in [Mapping -> MappingRow]

\* Such a step keeps the types.
LEMMA StepToType ==
    ASSUME PollingTypeOK, NEW w \in Worker, NEW m \in Mapping, NEW t, StepTo(w, m, t)
    PROVE  PollingTypeOK'
BY TaskUpdate DEF PollingTypeOK, StepTo, NewTask, RowsKept, MappingRow

\* Every step of a task is one.
LEMMA TaskStepType ==
    ASSUME PollingTypeOK, NEW w \in Worker, NEW m \in Mapping, TaskStep(w, m)
    PROVE  \E t : StepTo(w, m, t)
<1>t. /\ lock \in [Mapping -> Worker \cup {Free}]
      /\ mapping \in [Mapping -> MappingRow]
      /\ "SUCCESS" \in Outcomes /\ "FAILED" \in Outcomes /\ "CORRECTED" \in Outcomes
  BY DEF PollingTypeOK, MappingRow, Outcomes
<1>1. CASE InvalidConfiguration(w, m) \/ LockedByOther(w, m)
  <2>1. StepTo(w, m, NoTask)
    BY <1>1, <1>t, NoChange, TaskForms
    DEF StepTo, NewTask, Places, InvalidConfiguration, LockedByOther, EndTask, database
  <2> QED  BY <2>1
<1>2. CASE AcquireLock(w, m)
  <2>1. StepTo(w, m, MovedAt(w, m, "start"))
    BY <1>2, <1>t, NoChange, TaskForms DEF StepTo, NewTask, Places, AcquireLock, database
  <2> QED  BY <2>1
<1>3. CASE StartRun(w, m)
  <2> DEFINE t == [task[w][m] EXCEPT !.pc = "fetch", !.run = Len(runs) + 1, !.at = 0]
  <2>1. InsertRun(w, m) /\ UNCHANGED <<now, mapping, lock>>
    BY <1>3 DEF StartRun
  <2>2. task' = [task EXCEPT ![w][m] = t]
    BY <1>3 DEF StartRun, PollingTypeOK
  <2>3. t \in PollingTask /\ t.run = Len(runs) + 1
    <3>1. task[w][m] \in PollingTask /\ Len(runs) + 1 \in Nat
      BY <2>1, InsertType, TaskForms
    <3> QED  BY <3>1 DEF PollingTask
  <2>4. StepTo(w, m, t)
    BY <2>1, <2>2, <2>3, <1>t, InsertType, TaskForms DEF StepTo, NewTask, Places
  <2> QED  BY <2>4
<1>4. CASE RunSource(w, m)
  <2>1. PICK pc \in {"success", "failure"} : BecomeAt(w, m, pc)
    BY <1>4 DEF RunSource
  <2>2. StepTo(w, m, MovedAt(w, m, pc))
    BY <1>4, <2>1, <1>t, NoChange, TaskForms DEF StepTo, NewTask, Places, RunSource, database
  <2> QED  BY <2>2
<1>5. CASE FinalizeSuccess(w, m)
  <2>1. Finished(w, m, "SUCCESS") /\ UNCHANGED <<now, lock>> /\ Finalize(w, m, "SUCCESS")
    BY <1>5 DEF FinalizeSuccess
  <2>2. RowsKept /\ mapping' \in [Mapping -> MappingRow]
    BY <2>1, <1>t, FinalizeType
  <2>3. StepTo(w, m, Over(w, m, "SUCCESS"))
    BY <2>1, <2>2, <1>t, TaskForms DEF StepTo, NewTask
  <2> QED  BY <2>3
<1>6. CASE FinalizeSuccessFails(w, m)
  <2>1. BecomeAt(w, m, "failure") /\ UNCHANGED <<now, lock>>
        /\ (UNCHANGED database \/ Finalize(w, m, "SUCCESS"))
    BY <1>6 DEF FinalizeSuccessFails
  <2>2. RowsKept /\ mapping' \in [Mapping -> MappingRow]
    BY <2>1, <1>t, NoChange, FinalizeType DEF database
  <2>3. StepTo(w, m, MovedAt(w, m, "failure"))
    BY <2>1, <2>2, <1>t, TaskForms DEF StepTo, NewTask, Places
  <2> QED  BY <2>3
<1>7. CASE FinalizeFailure(w, m)
  <2>1. Finished(w, m, "FAILED") /\ UNCHANGED <<now, lock>> /\ Finalize(w, m, "FAILED")
    BY <1>7 DEF FinalizeFailure
  <2>2. RowsKept /\ mapping' \in [Mapping -> MappingRow]
    BY <2>1, <1>t, FinalizeType
  <2>3. StepTo(w, m, Over(w, m, "FAILED"))
    BY <2>1, <2>2, <1>t, TaskForms DEF StepTo, NewTask
  <2> QED  BY <2>3
<1>8. CASE FinalizeFailureFails(w, m)
  <2>1. StepTo(w, m, Over(w, m, "FAILED"))
    BY <1>8, <1>t, NoChange, TaskForms DEF StepTo, NewTask, Places, FinalizeFailureFails, database
  <2> QED  BY <2>1
<1>9. CASE Release(w, m)
  <2>0. UNCHANGED <<now, mapping, runs>>
    BY <1>9 DEF Release, database
  <2>1. EndTask(w, m) \/ BecomeAt(w, m, "correct")
    BY <1>9 DEF Release, AfterAnomaly
  <2>2. lock' \in [Mapping -> Worker \cup {Free}]
    BY <1>9, <1>t DEF Release
  <2>3. StepTo(w, m, NoTask) \/ StepTo(w, m, MovedAt(w, m, "correct"))
    BY <2>0, <2>1, <2>2, <1>t, NoChange, TaskForms DEF StepTo, NewTask, Places, EndTask
  <2> QED  BY <2>3
<1>10. CASE CorrectRun(w, m)
  <2>1. EndTask(w, m) /\ UNCHANGED <<now, lock>>
        /\ (UNCHANGED database \/ Finalize(w, m, "CORRECTED"))
    BY <1>10 DEF CorrectRun
  <2>2. RowsKept /\ mapping' \in [Mapping -> MappingRow]
    BY <2>1, <1>t, NoChange, FinalizeType DEF database
  <2>3. StepTo(w, m, NoTask)
    BY <2>1, <2>2, <1>t, TaskForms DEF StepTo, NewTask, Places, EndTask
  <2> QED  BY <2>3
<1>11. CASE NoRunStarted(w, m)
  <2>1. /\ UNCHANGED <<now, mapping, lock>>
        /\ EndTask(w, m) \/ Finished(w, m, "FAILED")
        /\ UNCHANGED runs \/ InsertRun(w, m)
    BY <1>11 DEF NoRunStarted
  <2>2. RowsKept
    BY <2>1, NoChange, InsertType
  <2>3. StepTo(w, m, NoTask) \/ StepTo(w, m, Over(w, m, "FAILED"))
    BY <2>1, <2>2, <1>t, TaskForms DEF StepTo, NewTask, Places, EndTask
  <2> QED  BY <2>3
<1> QED
  BY <1>1, <1>2, <1>3, <1>4, <1>5, <1>6, <1>7, <1>8, <1>9, <1>10, <1>11 DEF TaskStep
------------------------------------------------------------------------------
RecRow == [pc : {"select", "lock", "finalize", "release", "done"},
           todo : Seq(Nat), at : Nat]

\* A step of the polling leaves the recoveries in their types.
LEMMA RecoveryKept ==
    ASSUME RecoveryTypeOK, PollingTypeOK', RowsKept, UNCHANGED rec
    PROVE  RecoveryTypeOK'
BY SeqMonotone DEF RecoveryTypeOK, RowsKept

\* The recovery of w becomes q, which looks at rows that exist.
LEMMA RecoveryUpdate ==
    ASSUME RecoveryTypeOK, PollingTypeOK', RowsKept,
           NEW w \in Worker, NEW q \in RecRow, rec' = [rec EXCEPT ![w] = q],
           q.todo \in Seq(DOMAIN runs),
           q.pc \in {"lock", "finalize", "release"} => q.todo # <<>>
    PROVE  RecoveryTypeOK'
<1>1. rec'[w] = q /\ \A v \in Worker : v # w => rec'[v] = rec[v]
  BY DEF RecoveryTypeOK
<1>2. rec' \in [Worker -> RecRow]
  BY DEF RecoveryTypeOK, RecRow
<1>3. \A v \in Worker : rec'[v].todo \in Seq(DOMAIN runs)
  BY <1>1 DEF RecoveryTypeOK
<1>4. \A v \in Worker : rec'[v].todo \in Seq(DOMAIN runs')
  BY <1>3, SeqMonotone DEF RowsKept
<1>5. \A v \in Worker : rec'[v].pc \in {"lock", "finalize", "release"} => rec'[v].todo # <<>>
  BY <1>1 DEF RecoveryTypeOK
<1> QED  BY <1>2, <1>4, <1>5 DEF RecoveryTypeOK, RecRow

\* A recovery that has not begun has nothing to look at.
LEMMA NotStartedType ==
    ASSUME NEW w PROVE /\ NotStarted(w) \in RecRow
                       /\ NotStarted(w).todo \in Seq(DOMAIN runs)
                       /\ NotStarted(w).pc \in {"select", "done"}
                       /\ w \notin Recovering => NotStarted(w).pc = "done"
BY DEF NotStarted, RecRow

\* The candidate a recovery works on.
LEMMA CandidateType ==
    ASSUME RecoveryTypeOK, NEW w \in Worker,
           rec[w].pc \in {"lock", "finalize", "release"}
    PROVE  /\ Candidate(w) \in DOMAIN runs
           /\ CandidateMapping(w) \in Mapping
           /\ Tail(rec[w].todo) \in Seq(DOMAIN runs)
           /\ Tail(rec[w].todo) \in Seq(Nat)
<1>1. rec[w].todo \in Seq(DOMAIN runs) /\ rec[w].todo \in Seq(Nat) /\ rec[w].todo # <<>>
  BY DEF RecoveryTypeOK
<1>2. Candidate(w) \in DOMAIN runs
  BY <1>1 DEF Candidate
<1>3. runs[Candidate(w)] \in Run
  BY <1>2 DEF RecoveryTypeOK, PollingTypeOK
<1>4. CandidateMapping(w) \in Mapping
  BY <1>3 DEF CandidateMapping, Run
<1>5. Tail(rec[w].todo) \in Seq(DOMAIN runs) /\ Tail(rec[w].todo) \in Seq(Nat)
  BY <1>1, TailType
<1> QED  BY <1>2, <1>4, <1>5

\* The recovery of w goes on to its next candidate.
LEMMA RecoverNextType ==
    ASSUME RecoveryTypeOK, PollingTypeOK', RowsKept, NEW w \in Worker,
           rec[w].pc \in {"lock", "finalize", "release"}, RecoverNext(w)
    PROVE  /\ RecoveryTypeOK'
           /\ rec'[w].pc \in {"lock", "done"}
           /\ \A v \in Worker \ {w} : rec'[v] = rec[v]
<1> DEFINE rest == Tail(rec[w].todo)
           pc == IF rest = <<>> THEN "done" ELSE "lock"
           q == [rec[w] EXCEPT !.todo = rest, !.pc = pc]
<1>1. rec[w] \in RecRow
  BY DEF RecoveryTypeOK, RecRow
<1>2. rest \in Seq(DOMAIN runs) /\ rest \in Seq(Nat)
  BY CandidateType
<1>3. rec' = [rec EXCEPT ![w] = q]
  BY DEF RecoverNext, RecoveryTypeOK
<1>4. q \in RecRow /\ q.todo = rest /\ q.pc = pc
  BY <1>1, <1>2 DEF RecRow
<1>5. RecoveryTypeOK'
  <2> HIDE DEF q, rest
  <2>1. q.pc \in {"lock", "finalize", "release"} => q.todo # <<>>
    BY <1>4
  <2> QED  BY <1>2, <1>3, <1>4, <2>1, RecoveryUpdate
<1>6. rec'[w] = q /\ \A v \in Worker \ {w} : rec'[v] = rec[v]
  BY <1>3 DEF RecoveryTypeOK
<1> QED  BY <1>4, <1>5, <1>6

\* The recovery of w goes on to another place with the same candidates.
LEMMA RecMoveType ==
    ASSUME RecoveryTypeOK, PollingTypeOK', RowsKept, NEW w \in Worker,
           rec[w].pc \in {"lock", "finalize", "release"},
           NEW pc \in {"finalize", "release"}, rec' = [rec EXCEPT ![w].pc = pc]
    PROVE  /\ RecoveryTypeOK'
           /\ rec'[w].pc = pc /\ rec'[w].todo = rec[w].todo /\ rec'[w].at = rec[w].at
           /\ \A v \in Worker \ {w} : rec'[v] = rec[v]
<1> DEFINE q == [rec[w] EXCEPT !.pc = pc]
<1>1. rec[w] \in RecRow
  BY DEF RecoveryTypeOK, RecRow
<1>2. rec' = [rec EXCEPT ![w] = q]
  BY DEF RecoveryTypeOK
<1>3. q \in RecRow /\ q.todo = rec[w].todo /\ q.pc = pc /\ q.at = rec[w].at
  BY <1>1 DEF RecRow
<1>4. RecoveryTypeOK'
  <2> HIDE DEF q
  <2>1. q.todo \in Seq(DOMAIN runs) /\ q.todo # <<>>
    BY <1>3 DEF RecoveryTypeOK
  <2> QED  BY <1>2, <1>3, <2>1, RecoveryUpdate
<1>5. rec'[w] = q /\ \A v \in Worker \ {w} : rec'[v] = rec[v]
  BY <1>2 DEF RecoveryTypeOK
<1> QED  BY <1>3, <1>4, <1>5
------------------------------------------------------------------------------
\* The candidates are finitely many rows.
LEMMA StaleRunsFinite == ASSUME RecoveryTypeOK PROVE Cardinality(StaleRuns) \in Nat
                                                   /\ StaleRuns \subseteq DOMAIN runs
                                                   /\ (StaleRuns # {} => Cardinality(StaleRuns) # 0)
<1>1. runs \in Seq(Run)
  BY DEF RecoveryTypeOK, PollingTypeOK
<1>2. DOMAIN runs = 1 .. Len(runs) /\ Len(runs) \in Nat
  BY <1>1
<1>3. StaleRuns \subseteq 1 .. Len(runs)
  BY <1>2 DEF StaleRuns
<1>4. IsFiniteSet(StaleRuns)
  <2>1. IsFiniteSet(1 .. Len(runs))
    BY <1>2, FS_Interval
  <2> QED  BY <1>3, <2>1, FS_Subset
<1> QED  BY <1>2, <1>3, <1>4, FS_CardinalityType, FS_EmptySet

\* Effect of the selection of the candidates.
LEMMA SelectStaleRunsType ==
    ASSUME RecoveryTypeOK, NEW w \in Worker, SelectStaleRuns(w)
    PROVE  /\ RecoveryTypeOK'
           /\ rec[w].pc = "select" /\ rec'[w].pc \in {"lock", "done"}
           /\ \A v \in Worker \ {w} : rec'[v] = rec[v]
<1>1. PICK todo \in [1 .. Cardinality(StaleRuns) -> StaleRuns] :
         rec' = [rec EXCEPT ![w] = [pc |-> IF StaleRuns = {} THEN "done" ELSE "lock",
                                    todo |-> todo, at |-> now]]
  BY DEF SelectStaleRuns
<1> DEFINE q == [pc |-> IF StaleRuns = {} THEN "done" ELSE "lock", todo |-> todo, at |-> now]
<1>2. UNCHANGED pollingVars /\ rec[w].pc = "select"
  BY DEF SelectStaleRuns, RecAt
<1>3. PollingTypeOK' /\ RowsKept
  BY <1>2 DEF pollingVars, database, RecoveryTypeOK, PollingTypeOK, RowsKept
<1>4. todo \in Seq(StaleRuns) /\ (StaleRuns # {} => todo # <<>>)
  BY StaleRunsFinite, SeqOfFunction
<1>5. StaleRuns \subseteq DOMAIN runs /\ DOMAIN runs \subseteq Nat
  BY StaleRunsFinite DEF RecoveryTypeOK, PollingTypeOK
<1>6. todo \in Seq(DOMAIN runs) /\ todo \in Seq(Nat)
  BY <1>4, <1>5, SeqMonotone
<1>7. q \in RecRow
  BY <1>6 DEF RecRow, RecoveryTypeOK, PollingTypeOK
<1>8. RecoveryTypeOK'
  <2>1. q.todo \in Seq(DOMAIN runs) /\ (q.pc \in {"lock", "finalize", "release"} => q.todo # <<>>)
    BY <1>4, <1>6
  <2>2. rec' = [rec EXCEPT ![w] = q]
    BY <1>1
  <2> HIDE DEF q
  <2> QED  BY <1>3, <1>7, <2>1, <2>2, RecoveryUpdate
<1>9. rec'[w] = q /\ \A v \in Worker \ {w} : rec'[v] = rec[v]
  BY <1>1 DEF RecoveryTypeOK
<1> QED  BY <1>2, <1>8, <1>9

\* Effect of the transaction of a recovery.
LEMMA FinalizeStaleRunType ==
    ASSUME RecoveryTypeOK, NEW w \in Worker, FinalizeStaleRun(w)
    PROVE  /\ RecoveryTypeOK' /\ RowsKept
           /\ UNCHANGED <<now, lock, task>>
           /\ rec[w].pc = "finalize" /\ rec'[w].pc = "release"
           /\ rec'[w].todo = rec[w].todo
           /\ \A v \in Worker \ {w} : rec'[v] = rec[v]
           /\ \/ UNCHANGED database
              \/ /\ runs[Candidate(w)].outcome = "RUNNING"
                 /\ runs'[Candidate(w)] = [runs[Candidate(w)] EXCEPT !.outcome = "ABANDONED",
                                                                     !.finished = rec[w].at]
                 /\ DOMAIN runs' = DOMAIN runs
                 /\ \A s \in DOMAIN runs : s # Candidate(w) => runs'[s] = runs[s]
                 /\ \A n \in Mapping : n # CandidateMapping(w) => mapping'[n] = mapping[n]
                 /\ \/ UNCHANGED mapping
                    \/ mapping'[CandidateMapping(w)].next
                          = rec[w].at + Interval[CandidateMapping(w)]
<1> DEFINE r == Candidate(w)
           m == CandidateMapping(w)
<1>1. /\ UNCHANGED <<now, lock, task>>
      /\ rec[w].pc = "finalize" /\ rec' = [rec EXCEPT ![w].pc = "release"]
  BY DEF FinalizeStaleRun, RecAt
<1>2. r \in DOMAIN runs /\ m \in Mapping /\ m = runs[r].mapping
  BY <1>1, CandidateType DEF CandidateMapping
<1>3. rec[w].at \in Nat /\ "ABANDONED" \in Outcomes /\ runs \in Seq(Run)
  BY DEF RecoveryTypeOK, PollingTypeOK, Outcomes
<1>4. \/ UNCHANGED database
      \/ /\ runs[r].outcome = "RUNNING"
         /\ runs' = [runs EXCEPT ![r].outcome = "ABANDONED", ![r].finished = rec[w].at]
         /\ Reschedule(m, rec[w].at)
  BY <1>2 DEF FinalizeStaleRun
<1>5. mapping \in [Mapping -> MappingRow]
  BY DEF RecoveryTypeOK, PollingTypeOK, MappingRow
<1>6. CASE UNCHANGED database
  <2>1. PollingTypeOK' /\ RowsKept
    BY <1>1, <1>6 DEF database, RecoveryTypeOK, PollingTypeOK, RowsKept
  <2> QED  BY <1>1, <1>6, <2>1, RecMoveType
<1>7. CASE /\ runs[r].outcome = "RUNNING"
           /\ runs' = [runs EXCEPT ![r].outcome = "ABANDONED", ![r].finished = rec[w].at]
           /\ Reschedule(m, rec[w].at)
  <2>1. /\ RowsKept /\ DOMAIN runs' = DOMAIN runs
        /\ \A s \in DOMAIN runs : s # r => runs'[s] = runs[s]
        /\ runs'[r] = [runs[r] EXCEPT !.outcome = "ABANDONED", !.finished = rec[w].at]
    BY <1>2, <1>3, <1>7, UpdateRow
  <2>2. /\ mapping' \in [Mapping -> MappingRow]
        /\ \A n \in Mapping : n # m => mapping'[n] = mapping[n]
        /\ \/ UNCHANGED mapping
           \/ mapping'[m].next = rec[w].at + Interval[m]
    <3>1. Interval[m] \in Nat
      BY <1>2, PollingConstants
    <3>2. CASE UNCHANGED mapping
      BY <3>2, <1>5
    <3>3. CASE mapping' = [mapping EXCEPT ![m].next = rec[w].at + Interval[m]]
      <4>1. [mapping[m] EXCEPT !.next = rec[w].at + Interval[m]] \in MappingRow
        BY <1>2, <1>3, <1>5, <3>1 DEF MappingRow
      <4>2. [mapping[m] EXCEPT !.next = rec[w].at + Interval[m]].next = rec[w].at + Interval[m]
        BY <1>2, <1>5 DEF MappingRow
      <4>3. mapping' = [mapping EXCEPT ![m] = [mapping[m] EXCEPT !.next = rec[w].at + Interval[m]]]
        BY <3>3
      <4> HIDE DEF m
      <4> QED  BY <1>2, <1>5, <4>1, <4>2, <4>3
    <3> QED  BY <1>7, <3>2, <3>3 DEF Reschedule
  <2>3. PollingTypeOK'
    <3>1. /\ now' \in Nat /\ lock' \in [Mapping -> Worker \cup {Free}]
          /\ task' \in [Worker -> [Mapping -> PollingTask]]
      BY <1>1 DEF RecoveryTypeOK, PollingTypeOK
    <3>2. \A v \in Worker, n \in Mapping : task'[v][n].run # Null =>
             task'[v][n].run \in DOMAIN runs' /\ runs'[task'[v][n].run].mapping = n
      <4>1. \A v \in Worker, n \in Mapping : task[v][n].run # Null =>
               task[v][n].run \in DOMAIN runs /\ runs[task[v][n].run].mapping = n
        BY DEF RecoveryTypeOK, PollingTypeOK
      <4> QED  BY <1>1, <2>1, <4>1 DEF RowsKept
    <3> QED  BY <2>1, <2>2, <3>1, <3>2 DEF PollingTypeOK, RowsKept, MappingRow
  <2> QED  BY <1>1, <1>7, <2>1, <2>2, <2>3, RecMoveType
<1> QED  BY <1>4, <1>6, <1>7
------------------------------------------------------------------------------
\* The steps of the polling that are not those of one task.
LEMMA SelectDueMappingsType ==
    ASSUME PollingTypeOK, NEW w \in Worker, SelectDueMappings(w)
    PROVE  /\ PollingTypeOK' /\ RowsKept /\ UNCHANGED <<now, mapping, runs, lock>>
           /\ \A v \in Worker \ {w} : task'[v] = task[v]
           /\ \A m \in Mapping : task[w][m].pc = "none" /\ task'[w][m].pc \in {"none", "open"}
                                 /\ task'[w][m].run = Null
<1> DEFINE tasks == [m \in Mapping |-> IF m \in Selected THEN [NoTask EXCEPT !.pc = "open"]
                                                         ELSE NoTask]
<1>1. UNCHANGED <<now, mapping, runs, lock>> /\ task' = [task EXCEPT ![w] = tasks]
  BY DEF SelectDueMappings, database
<1>2. \A m \in Mapping : /\ tasks[m] \in PollingTask
                         /\ tasks[m].pc \in {"none", "open"} /\ tasks[m].run = Null
  BY DEF NoTask, PollingTask
<1>3. task'[w] = tasks /\ \A v \in Worker \ {w} : task'[v] = task[v]
  BY <1>1 DEF PollingTypeOK
<1>4. tasks \in [Mapping -> PollingTask]
  BY <1>2
<1>5. task' \in [Worker -> [Mapping -> PollingTask]]
  <2> HIDE DEF tasks
  <2> QED  BY <1>1, <1>4 DEF PollingTypeOK
<1>6. \A m \in Mapping : task[w][m].pc = "none"
  BY DEF SelectDueMappings, At
<1>7. RowsKept
  BY <1>1, NoChange
<1> HIDE DEF tasks
<1>8. PollingTypeOK'
  BY <1>1, <1>2, <1>3, <1>5 DEF PollingTypeOK
<1> QED  BY <1>1, <1>2, <1>3, <1>6, <1>7, <1>8

\* A process that dies loses its tasks and its locks and nothing else.
LEMMA CrashType ==
    ASSUME PollingTypeOK, NEW w \in Worker, Crash(w)
    PROVE  /\ PollingTypeOK' /\ RowsKept /\ UNCHANGED <<now, mapping, runs>>
           /\ \A v \in Worker \ {w} : task'[v] = task[v]
           /\ \A m \in Mapping : task'[w][m].pc = "none"
           /\ \A m \in Mapping : lock'[m] = IF lock[m] = w THEN Free ELSE lock[m]
<1> DEFINE tasks == [m \in Mapping |-> NoTask]
<1>1. /\ UNCHANGED <<now, mapping, runs>> /\ task' = [task EXCEPT ![w] = tasks]
      /\ lock' = [m \in Mapping |-> IF lock[m] = w THEN Free ELSE lock[m]]
  BY DEF Crash, database
<1>2. tasks \in [Mapping -> PollingTask]
      /\ \A m \in Mapping : tasks[m].pc = "none" /\ tasks[m].run = Null
  BY DEF NoTask, PollingTask
<1> HIDE DEF tasks
<1>3. task'[w] = tasks /\ \A v \in Worker \ {w} : task'[v] = task[v]
  BY <1>1 DEF PollingTypeOK
<1>4. task' \in [Worker -> [Mapping -> PollingTask]]
  BY <1>1, <1>2 DEF PollingTypeOK
<1>5. lock' \in [Mapping -> Worker \cup {Free}]
  BY <1>1 DEF PollingTypeOK
<1>6. RowsKept
  BY <1>1, NoChange
<1>7. PollingTypeOK'
  BY <1>1, <1>2, <1>3, <1>4, <1>5 DEF PollingTypeOK
<1> QED  BY <1>1, <1>2, <1>3, <1>6, <1>7

\* The clock, the sessions and the operator change no run and no task.
LEMMA EnvironmentType ==
    ASSUME PollingTypeOK, Tick \/ \E m \in Mapping : LoseSession(m) \/ SetEnabled(m)
    PROVE  PollingTypeOK' /\ RowsKept /\ UNCHANGED <<runs, task>>
<1>1. CASE Tick
  <2>1. PollingTypeOK' /\ UNCHANGED <<runs, task>>
    BY <1>1 DEF Tick, PollingTypeOK, database
  <2> QED  BY <2>1, NoChange
<1>2. ASSUME NEW m \in Mapping, LoseSession(m)
      PROVE  PollingTypeOK' /\ RowsKept /\ UNCHANGED <<runs, task>>
  <2>1. PollingTypeOK' /\ UNCHANGED <<runs, task>>
    BY <1>2 DEF LoseSession, PollingTypeOK, database
  <2> QED  BY <2>1, NoChange
<1>3. ASSUME NEW m \in Mapping, SetEnabled(m)
      PROVE  PollingTypeOK' /\ RowsKept /\ UNCHANGED <<runs, task>>
  <2>1. UNCHANGED <<now, runs, lock, task>>
        /\ mapping' = [mapping EXCEPT ![m].enabled = ~@]
    BY <1>3 DEF SetEnabled
  <2>2. mapping' \in [Mapping -> MappingRow]
    <3>1. mapping \in [Mapping -> MappingRow]
      BY DEF PollingTypeOK, MappingRow
    <3>2. mapping' = [mapping EXCEPT ![m] =
                         [mapping[m] EXCEPT !.enabled = ~mapping[m].enabled]]
      BY <2>1, <3>1
    <3>3. (~mapping[m].enabled) \in BOOLEAN
      OBVIOUS
    <3>4. [mapping[m] EXCEPT !.enabled = ~mapping[m].enabled] \in MappingRow
      BY <3>1, <3>3 DEF MappingRow
    <3> QED  BY <3>1, <3>2, <3>4
  <2>3. PollingTypeOK'
    BY <2>1, <2>2 DEF PollingTypeOK, MappingRow
  <2> QED  BY <2>1, <2>3, NoChange
<1> QED  BY <1>1, <1>2, <1>3

\* A step of the recovery that has begun, other than its transaction.
LEMMA RecoveryStepType ==
    ASSUME RecoveryTypeOK, NEW w \in Worker, RecoveryStep(w), ~RecAt(w, "select")
    PROVE  /\ RecoveryTypeOK' /\ RowsKept /\ UNCHANGED <<now, task>>
           /\ rec[w].pc \in {"lock", "finalize", "release"}
           /\ \A v \in Worker \ {w} : rec'[v] = rec[v]
<1>0. PollingTypeOK
  BY DEF RecoveryTypeOK
<1>1. CASE ReacquireLock(w)
  <2>1. /\ RecAt(w, "lock") /\ rec' = [rec EXCEPT ![w].pc = "finalize"]
        /\ UNCHANGED <<now, mapping, runs, task>>
        /\ lock' = [lock EXCEPT ![CandidateMapping(w)] = w]
    BY <1>1 DEF ReacquireLock, database
  <2>2. PollingTypeOK' /\ RowsKept
    BY <1>0, <2>1, NoChange DEF PollingTypeOK
  <2> QED  BY <2>1, <2>2, RecMoveType DEF RecAt
<1>2. CASE ActiveLockHeld(w)
  <2>1. RecAt(w, "lock") /\ RecoverNext(w) /\ UNCHANGED <<now, mapping, runs, lock, task>>
    BY <1>2 DEF ActiveLockHeld, pollingVars, database
  <2>2. PollingTypeOK' /\ RowsKept
    BY <1>0, <2>1, NoChange DEF PollingTypeOK
  <2> QED  BY <2>1, <2>2, RecoverNextType DEF RecAt
<1>3. CASE FinalizeStaleRun(w)
  BY <1>3, FinalizeStaleRunType
<1>4. CASE RecoveryError(w)
  <2>1. UNCHANGED <<now, mapping, runs, lock, task>>
    BY <1>4 DEF RecoveryError, pollingVars, database
  <2>2. PollingTypeOK' /\ RowsKept
    BY <1>0, <2>1, NoChange DEF PollingTypeOK
  <2>3. CASE RecAt(w, "lock") /\ RecoverNext(w)
    BY <2>1, <2>2, <2>3, RecoverNextType DEF RecAt
  <2>4. CASE RecAt(w, "finalize") /\ rec' = [rec EXCEPT ![w].pc = "release"]
    BY <2>1, <2>2, <2>4, RecMoveType DEF RecAt
  <2> QED  BY <1>4, <2>3, <2>4 DEF RecoveryError
<1>5. CASE ReleaseRecoveryLock(w)
  <2>1. /\ RecAt(w, "release") /\ RecoverNext(w) /\ UNCHANGED <<now, mapping, runs, task>>
        /\ lock' = IF lock[CandidateMapping(w)] = w
                   THEN [lock EXCEPT ![CandidateMapping(w)] = Free] ELSE lock
    BY <1>5 DEF ReleaseRecoveryLock, database
  <2>2. PollingTypeOK' /\ RowsKept
    BY <1>0, <2>1, NoChange DEF PollingTypeOK
  <2> QED  BY <2>1, <2>2, RecoverNextType DEF RecAt
<1> QED  BY <1>1, <1>2, <1>3, <1>4, <1>5 DEF RecoveryStep, SelectStaleRuns
------------------------------------------------------------------------------
\* A loop goes on and remembers its signal.
LEMMA GoToType ==
    ASSUME LoopTypeOK, NEW w \in Worker, GoTo(w, "top") \/ GoTo(w, "cycle")
                                         \/ GoTo(w, "sleep") \/ GoTo(w, "stopped")
    PROVE  /\ LoopTypeOK'
           /\ \A pc : GoTo(w, pc) => loop'[w].pc = pc
           /\ loop'[w].aborted = loop[w].aborted
           /\ \A v \in Worker \ {w} : loop'[v] = loop[v]
BY DEF LoopTypeOK, GoTo

\* A task that is over does nothing.
LEMMA TaskIsBusy ==
    ASSUME NEW w \in Worker, NEW m \in Mapping, TaskStep(w, m)
    PROVE  task[w][m].pc # "none"
BY DEF TaskStep, InvalidConfiguration, AcquireLock, LockedByOther, StartRun, RunSource,
       FinalizeSuccess, FinalizeSuccessFails, FinalizeFailure, FinalizeFailureFails,
       Release, CorrectRun, NoRunStarted, At

\* A step that leaves the tasks alone and moves one loop or one recovery.
LEMMA LoopInvStep ==
    ASSUME LoopInv, NEW w \in Worker,
           \A v \in Worker \ {w} : rec'[v] = rec[v] /\ loop'[v] = loop[v] /\ task'[v] = task[v],
           w \notin Recovering => RecAt(w, "done")' /\ LoopAt(w, "top")' /\ ~loop'[w].aborted,
           ~RecAt(w, "done")' => AllTasksEnded(w)',
           w \in Recovering /\ ~LoopAt(w, "cycle")' => AllTasksEnded(w)',
           LoopAt(w, "stopped")' => rec'[w].pc \in {"select", "done"}
    PROVE  LoopInv'
BY DEF LoopInv, RecAt, LoopAt, AllTasksEnded, At

Typed == TypeInv /\ LoopInv

\* The initial states are typed.
LEMMA TypedInit == RuntimeInit => Typed
<1> SUFFICES ASSUME RuntimeInit PROVE Typed
  OBVIOUS
<1>1. /\ now = 0
      /\ mapping = [m \in Mapping |-> [enabled |-> TRUE, next |-> Null]]
      /\ runs = <<>>
      /\ lock = [m \in Mapping |-> Free]
      /\ task = [w \in Worker |-> [m \in Mapping |-> NoTask]]
      /\ rec = [w \in Worker |-> NotStarted(w)]
      /\ loop = [w \in Worker |-> Started]
  BY DEF RuntimeInit, RecoveryInit, PollingInit
<1>2. \A w \in Worker, m \in Mapping : task[w][m] = NoTask
  BY <1>1
<1>3. NoTask \in PollingTask /\ NoTask.pc = "none" /\ NoTask.run = Null
  BY DEF NoTask, PollingTask
<1>4. PollingTypeOK
  BY <1>1, <1>2, <1>3 DEF PollingTypeOK
<1>5. rec \in [Worker -> RecRow] /\ \A w \in Worker : rec[w] = NotStarted(w)
  BY <1>1, NotStartedType
<1>6. RecoveryTypeOK
  BY <1>4, <1>5, NotStartedType DEF RecoveryTypeOK, RecRow
<1>7. LoopTypeOK /\ \A w \in Worker : loop[w].pc = "top" /\ ~loop[w].aborted
  BY <1>1 DEF LoopTypeOK, Started
<1>8. LoopInv
  BY <1>2, <1>3, <1>5, <1>7, NotStartedType DEF LoopInv, RecAt, LoopAt, AllTasksEnded, At
<1> QED  BY <1>6, <1>7, <1>8 DEF Typed, TypeInv

\* Every step keeps the types and the order in which a process works.
LEMMA TypedNext == Typed /\ [RuntimeNext]_runtimeVars => Typed' /\ RowsKept
<1> SUFFICES ASSUME Typed, [RuntimeNext]_runtimeVars PROVE Typed' /\ RowsKept
  OBVIOUS
<1>0. RecoveryTypeOK /\ PollingTypeOK /\ LoopTypeOK /\ LoopInv
  BY DEF Typed, TypeInv, RecoveryTypeOK
<1> DEFINE Good == RecoveryTypeOK' /\ LoopTypeOK' /\ LoopInv' /\ RowsKept
<1> SUFFICES Good
  BY DEF Typed, TypeInv
<1> USE DEF RecAt, LoopAt
<1>1. CASE UNCHANGED runtimeVars
  BY <1>0, <1>1, NoChange
     DEF runtimeVars, collectorVars, pollingVars, database, RecoveryTypeOK, PollingTypeOK,
         LoopTypeOK, LoopInv, AllTasksEnded, At
<1>2. CASE /\ Tick \/ \E m \in Mapping : LoseSession(m) \/ SetEnabled(m)
           /\ UNCHANGED <<rec, loop>>
  <2>1. PollingTypeOK' /\ RowsKept /\ UNCHANGED <<runs, task, rec, loop>>
    BY <1>0, <1>2, EnvironmentType
  <2>2. RecoveryTypeOK'
    BY <1>0, <2>1, RecoveryKept
  <2> QED  BY <1>0, <2>1, <2>2 DEF LoopTypeOK, LoopInv, AllTasksEnded, At
<1>3. ASSUME NEW w \in Worker \ Recovering, SelectDueMappings(w), UNCHANGED <<rec, loop>>
      PROVE  Good
  <2>1. PollingTypeOK' /\ RowsKept /\ \A v \in Worker \ {w} : task'[v] = task[v]
    BY <1>0, <1>3, SelectDueMappingsType
  <2>2. RecoveryTypeOK'
    BY <1>0, <1>3, <2>1, RecoveryKept
  <2>3. LoopInv'
    BY <1>0, <1>3, <2>1 DEF LoopInv, AllTasksEnded, At
  <2> QED  BY <1>0, <1>3, <2>1, <2>2, <2>3 DEF LoopTypeOK
<1>4. ASSUME NEW w \in Worker, NEW m \in Mapping, TaskContinues(w, m) PROVE Good
  <2>1. TaskStep(w, m) /\ UNCHANGED <<rec, loop>>
    BY <1>4 DEF TaskContinues
  <2>2. PICK t : StepTo(w, m, t)
    BY <1>0, <2>1, TaskStepType
  <2>3. PollingTypeOK' /\ RowsKept
    BY <1>0, <2>2, StepToType DEF StepTo
  <2>4. \A v \in Worker \ {w} : task'[v] = task[v]
    BY <1>0, <2>2 DEF StepTo, NewTask, PollingTypeOK
  <2>5. ~AllTasksEnded(w)
    BY <2>1, TaskIsBusy DEF AllTasksEnded, At
  <2>6. LoopInv'
    BY <1>0, <2>1, <2>4, <2>5 DEF LoopInv, AllTasksEnded, At
  <2> QED  BY <1>0, <2>1, <2>3, <2>6, RecoveryKept DEF LoopTypeOK
<1>5. ASSUME NEW w \in Worker, BeginRecovery(w) PROVE Good
  <2>1. MayBegin(w) /\ SelectStaleRuns(w) /\ UNCHANGED loop
    BY <1>5 DEF BeginRecovery
  <2>2. UNCHANGED <<runs, task>>
    BY <2>1 DEF SelectStaleRuns, pollingVars, database
  <2>3. LoopInv'
    BY <1>0, <2>1, <2>2, SelectStaleRunsType, LoopInvStep
       DEF MayBegin, LoopInv, AllTasksEnded, At
  <2> QED  BY <1>0, <2>1, <2>2, <2>3, SelectStaleRunsType, NoChange DEF LoopTypeOK
<1>6. ASSUME NEW w \in Worker, RecoveryFails(w) \/ CycleFails(w) \/ WakeUp(w) \/ EndCycle(w)
                               \/ Stop(w)
      PROVE  Good
  <2>1. /\ UNCHANGED collectorVars
        /\ GoTo(w, "top") \/ GoTo(w, "sleep") \/ (GoTo(w, "stopped") /\ Stop(w))
    BY <1>6 DEF RecoveryFails, CycleFails, WakeUp, EndCycle, Stop
  <2>2. /\ w \in Recovering
        /\ AllTasksEnded(w)
        /\ Stop(w) => rec[w].pc \in {"select", "done"}
    BY <1>0, <1>6 DEF RecoveryFails, CycleFails, WakeUp, EndCycle, Stop, MayBegin, LoopInv
  <2>3. UNCHANGED <<now, mapping, runs, lock, task, rec>>
    BY <2>1 DEF collectorVars, pollingVars, database
  <2>4. LoopInv'
    BY <1>0, <2>1, <2>2, <2>3, GoToType, LoopInvStep DEF LoopInv, AllTasksEnded, At
  <2>5. PollingTypeOK' /\ RowsKept
    BY <1>0, <2>3, NoChange DEF PollingTypeOK
  <2> QED  BY <1>0, <2>1, <2>3, <2>4, <2>5, GoToType, RecoveryKept
<1>7. ASSUME NEW w \in Worker, RecoveryContinues(w) PROVE Good
  <2>1. RecoveryStep(w) /\ ~RecAt(w, "select") /\ UNCHANGED loop
    BY <1>7 DEF RecoveryContinues
  <2>2. /\ RecoveryTypeOK' /\ RowsKept /\ UNCHANGED <<now, task>>
        /\ rec[w].pc \in {"lock", "finalize", "release"}
        /\ \A v \in Worker \ {w} : rec'[v] = rec[v]
    BY <1>0, <2>1, RecoveryStepType
  <2>3. LoopInv'
    BY <1>0, <2>1, <2>2, LoopInvStep DEF LoopInv, AllTasksEnded, At
  <2> QED  BY <1>0, <2>1, <2>2, <2>3 DEF LoopTypeOK
<1>8. ASSUME NEW w \in Worker, BeginCycle(w) PROVE Good
  <2>1. /\ w \in Recovering /\ RecAt(w, "done") /\ GoTo(w, "cycle") /\ UNCHANGED rec
        /\ SelectDueMappings(w) \/ UNCHANGED pollingVars
    BY <1>8 DEF BeginCycle, MayBegin
  <2>2. PollingTypeOK' /\ RowsKept /\ \A v \in Worker \ {w} : task'[v] = task[v]
    <3>1. CASE UNCHANGED pollingVars
      BY <1>0, <3>1, NoChange DEF pollingVars, database, PollingTypeOK
    <3> QED  BY <1>0, <2>1, <3>1, SelectDueMappingsType
  <2>3. LoopInv'
    BY <1>0, <2>1, <2>2, GoToType, LoopInvStep
  <2> QED  BY <1>0, <2>1, <2>2, <2>3, GoToType, RecoveryKept
<1>9. ASSUME NEW w \in Worker, RequestShutdown(w) PROVE Good
  <2>1. /\ w \in Recovering /\ loop' = [loop EXCEPT ![w].aborted = TRUE]
        /\ UNCHANGED <<now, mapping, runs, lock, task, rec>>
    BY <1>9 DEF RequestShutdown, collectorVars, pollingVars, database
  <2>2. LoopTypeOK' /\ loop'[w].pc = loop[w].pc
        /\ \A v \in Worker \ {w} : loop'[v] = loop[v]
    BY <1>0, <2>1 DEF LoopTypeOK
  <2>3. LoopInv'
    BY <1>0, <2>1, <2>2, LoopInvStep DEF LoopInv, AllTasksEnded, At
  <2>4. PollingTypeOK' /\ RowsKept
    BY <1>0, <2>1, NoChange DEF PollingTypeOK
  <2> QED  BY <1>0, <2>1, <2>2, <2>3, <2>4, RecoveryKept
<1>10. ASSUME NEW w \in Worker, StartAgain(w) \/ KillAndRestart(w) PROVE Good
  <2>1. loop' = [loop EXCEPT ![w] = Started] /\ rec' = [rec EXCEPT ![w] = NotStarted(w)]
    BY <1>10 DEF StartAgain, KillAndRestart, CrashAndRestart
  <2>2. /\ PollingTypeOK' /\ RowsKept /\ AllTasksEnded(w)'
        /\ \A v \in Worker \ {w} : task'[v] = task[v]
    <3>1. CASE StartAgain(w)
      <4>1. UNCHANGED <<now, mapping, runs, lock, task>> /\ AllTasksEnded(w)
        BY <1>0, <3>1 DEF StartAgain, LoopInv, pollingVars, database
      <4> QED  BY <1>0, <4>1, NoChange DEF PollingTypeOK, AllTasksEnded, At
    <3>2. CASE KillAndRestart(w)
      BY <1>0, <3>2, CrashType DEF KillAndRestart, CrashAndRestart, AllTasksEnded, At
    <3> QED  BY <1>10, <3>1, <3>2
  <2>3. /\ LoopTypeOK' /\ loop'[w].pc = "top" /\ ~loop'[w].aborted
        /\ \A v \in Worker \ {w} : loop'[v] = loop[v]
    BY <1>0, <2>1 DEF LoopTypeOK, Started
  <2>4. /\ rec'[w] = NotStarted(w)
        /\ \A v \in Worker \ {w} : rec'[v] = rec[v]
    BY <1>0, <2>1 DEF RecoveryTypeOK
  <2>5. RecoveryTypeOK'
    BY <1>0, <2>1, <2>2, NotStartedType, RecoveryUpdate
  <2>6. LoopInv'
    BY <1>0, <2>2, <2>3, <2>4, NotStartedType, LoopInvStep
  <2> QED  BY <2>2, <2>3, <2>5, <2>6
<1> HIDE DEF Good
<1> QED
  BY <1>1, <1>2, <1>3, <1>4, <1>5, <1>6, <1>7, <1>8, <1>9, <1>10
     DEF RuntimeNext, LoopStep
------------------------------------------------------------------------------
\* Types and order hold in every reachable state.
LEMMA SpecTyped == RuntimeSpec => []Typed
<1>1. Typed /\ [RuntimeNext]_runtimeVars => Typed'
  BY TypedNext
<1> QED  BY TypedInit, <1>1, PTL DEF RuntimeSpec

\* Tables, locks, tasks, recoveries and loops have the values their types allow
\* and candidates are rows of collector_runs, whatever fails.
THEOREM TypeCorrect == RuntimeSpec => []RecoveryTypeOK
<1>1. Typed => RecoveryTypeOK
  BY DEF Typed, TypeInv
<1> QED  BY SpecTyped, <1>1, PTL

\* A recovery never changes a run that is not RUNNING any more.
THEOREM FinishedRunsAreKept == RuntimeSpec => RecoveryKeepsFinishedRuns
<1> DEFINE A == \A r \in DOMAIN runs :
                   runs[r].outcome # "RUNNING" /\ rec' # rec => runs'[r] = runs[r]
<1>1. ASSUME Typed, [RuntimeNext]_runtimeVars PROVE A \/ UNCHANGED collectorVars
  <2>0. RecoveryTypeOK /\ LoopInv
    BY <1>1 DEF Typed, TypeInv
  <2>1. CASE UNCHANGED runtimeVars
    BY <2>1 DEF runtimeVars
  <2>2. CASE UNCHANGED rec \/ UNCHANGED runs
    BY <2>2
  <2>3. ASSUME NEW w \in Worker, RecoveryContinues(w) PROVE A
    <3>1. CASE FinalizeStaleRun(w)
      BY <2>0, <3>1, FinalizeStaleRunType DEF database
    <3>2. CASE ~FinalizeStaleRun(w)
      <4>1. UNCHANGED runs
        BY <2>3, <3>2 DEF RecoveryContinues, RecoveryStep, SelectStaleRuns, ReacquireLock,
           ActiveLockHeld, RecoveryError, ReleaseRecoveryLock, pollingVars, database
      <4> QED  BY <4>1
    <3> QED  BY <3>1, <3>2
  <2>4. RuntimeNext => \/ UNCHANGED rec \/ UNCHANGED runs
                       \/ \E w \in Worker : RecoveryContinues(w)
    BY DEF RuntimeNext, LoopStep, TaskContinues, BeginRecovery, SelectStaleRuns,
       RecoveryFails, CycleFails, BeginCycle, EndCycle, WakeUp, Stop, RequestShutdown,
       StartAgain, KillAndRestart, CrashAndRestart, Crash, collectorVars, pollingVars,
       database
  <2> QED  BY <1>1, <2>1, <2>2, <2>3, <2>4
<1>2. Typed /\ [RuntimeNext]_runtimeVars => [A]_collectorVars
  BY <1>1
<1> QED  BY SpecTyped, <1>2, PTL DEF RuntimeSpec, RecoveryKeepsFinishedRuns

------------------------------------------------------------------------------
(***************************************************************************)
(* Runs that nobody finishes.  In a reliable environment a run is RUNNING  *)
(* only while the task that started it is on its way to finish it; a lock  *)
(* session that breaks changes nothing of that.                            *)
(***************************************************************************)

\* No process dies, no statement fails, no answer is lost and no operator
\* interferes; sessions of locks may break.
Reliable == Faults \cap {"crash", "database", "lost_ack", "operator"} = {}

AllEnabled == \A m \in Mapping : mapping[m].enabled

OrphanInv == AllEnabled /\ NoOrphanRuns

\* The schedules of mappings change, and not whether they are enabled.
LEMMA NextPollOnly ==
    ASSUME PollingTypeOK, AllEnabled, NEW m \in Mapping, NEW t,
           mapping' = [mapping EXCEPT ![m].next = t]
    PROVE  AllEnabled'
<1>1. mapping \in [Mapping -> MappingRow]
  BY DEF PollingTypeOK, MappingRow
<1>2. mapping' = [mapping EXCEPT ![m] = [mapping[m] EXCEPT !.next = t]]
  OBVIOUS
<1>3. [mapping[m] EXCEPT !.next = t].enabled = mapping[m].enabled
  BY <1>1 DEF MappingRow
<1>4. \A n \in Mapping : mapping'[n].enabled = mapping[n].enabled
  BY <1>1, <1>2, <1>3
<1> QED  BY <1>4 DEF AllEnabled

\* After a step of one task a RUNNING run has a task that polls: the one it had,
\* or the one that made the step.
LEMMA OthersPoll ==
    ASSUME OrphanInv, AllEnabled', NEW w \in Worker, NEW m \in Mapping,
           \A v \in Worker, n \in Mapping : v # w \/ n # m => task'[v][n] = task[v][n],
           \A r \in DOMAIN runs' : runs'[r].outcome = "RUNNING" =>
              \/ /\ r \in DOMAIN runs /\ runs[r].outcome = "RUNNING"
                 /\ Polls(w, m) => r # task[w][m].run
              \/ task'[w][m].run = r /\ Polls(w, m)'
    PROVE  OrphanInv'
<1> SUFFICES ASSUME NEW r \in DOMAIN runs', runs'[r].outcome = "RUNNING"
             PROVE  \E v \in Worker, n \in Mapping : task'[v][n].run = r /\ Polls(v, n)'
  BY DEF OrphanInv, NoOrphanRuns
<1>1. CASE task'[w][m].run = r /\ Polls(w, m)'
  BY <1>1
<1>2. CASE /\ r \in DOMAIN runs /\ runs[r].outcome = "RUNNING"
           /\ Polls(w, m) => r # task[w][m].run
  <2>1. PICK v \in Worker, n \in Mapping : task[v][n].run = r /\ Polls(v, n)
    BY <1>2 DEF OrphanInv, NoOrphanRuns
  <2>2. v # w \/ n # m
    BY <1>2, <2>1
  <2> QED  BY <2>1, <2>2 DEF Polls
<1> QED  BY <1>1, <1>2

\* A step that leaves the rows and whatever polls.
LEMMA NothingPolled ==
    ASSUME OrphanInv, UNCHANGED <<mapping, runs>>,
           \A v \in Worker, n \in Mapping : Polls(v, n) => task'[v][n] = task[v][n]
    PROVE  OrphanInv'
<1>1. AllEnabled'
  BY DEF OrphanInv, AllEnabled
<1>2. ASSUME NEW r \in DOMAIN runs', runs'[r].outcome = "RUNNING"
      PROVE  \E v \in Worker, n \in Mapping : task'[v][n].run = r /\ Polls(v, n)'
  <2>1. PICK v \in Worker, n \in Mapping : task[v][n].run = r /\ Polls(v, n)
    BY <1>2 DEF OrphanInv, NoOrphanRuns
  <2> QED  BY <2>1 DEF Polls
<1> QED  BY <1>1, <1>2 DEF OrphanInv, NoOrphanRuns

\* A finalized run is not RUNNING; the task has ended its poll.
LEMMA FinalizeOrphan ==
    ASSUME PollingTypeOK, OrphanInv, NEW w \in Worker, NEW m \in Mapping,
           NEW o \in {"SUCCESS", "FAILED", "CORRECTED"}, Finalize(w, m, o),
           \A v \in Worker, n \in Mapping : v # w \/ n # m => task'[v][n] = task[v][n]
    PROVE  OrphanInv'
<1>1. o \in Outcomes /\ o # "RUNNING"
  BY DEF Outcomes
<1>2. /\ DOMAIN runs' = DOMAIN runs
      /\ \A s \in DOMAIN runs : s # task[w][m].run => runs'[s] = runs[s]
  BY <1>1, FinalizeType
<1>3. task[w][m].run \in DOMAIN runs => runs'[task[w][m].run].outcome = o
  BY <1>1, FinalizedRow
<1>4. AllEnabled'
  <2>1. PICK t : mapping' = [mapping EXCEPT ![m].next = t]
    BY DEF Finalize
  <2> QED  BY <2>1, NextPollOnly DEF OrphanInv
<1>5. \A r \in DOMAIN runs' : runs'[r].outcome = "RUNNING" =>
         r \in DOMAIN runs /\ runs[r].outcome = "RUNNING" /\ r # task[w][m].run
  BY <1>1, <1>2, <1>3
<1> QED  BY <1>4, <1>5, OthersPoll

\* As long as statements succeed, a poll ends by finalizing its run.
LEMMA TaskOrphan ==
    ASSUME Reliable, PollingTypeOK, OrphanInv, NEW w \in Worker, NEW m \in Mapping,
           TaskStep(w, m)
    PROVE  OrphanInv'
<1>1. \A v \in Worker, n \in Mapping : v # w \/ n # m => task'[v][n] = task[v][n]
  <2>1. PICK t : StepTo(w, m, t)
    BY TaskStepType
  <2> QED  BY <2>1, TaskUpdate DEF StepTo, NewTask
<1>2. /\ "database" \notin Faults /\ "lost_ack" \notin Faults
      /\ mapping[m].enabled
  BY DEF Reliable, OrphanInv, AllEnabled
<1>3. CASE \/ InvalidConfiguration(w, m) \/ AcquireLock(w, m) \/ LockedByOther(w, m)
           \/ Release(w, m)
  <2>1. ~Polls(w, m) /\ UNCHANGED <<mapping, runs>>
    BY <1>3 DEF InvalidConfiguration, AcquireLock, LockedByOther, Release, At, Polls, database
  <2> QED  BY <1>1, <2>1, NothingPolled
<1>4. CASE StartRun(w, m)
  <2>1. /\ ~Polls(w, m) /\ UNCHANGED mapping /\ InsertRun(w, m)
        /\ task' = [task EXCEPT ![w][m].pc = "fetch", ![w][m].run = Len(runs) + 1,
                                ![w][m].at = 0]
    BY <1>4 DEF StartRun, At, Polls
  <2>2. AllEnabled'
    BY <2>1 DEF OrphanInv, AllEnabled
  <2>3. task'[w][m].run = Len(runs) + 1 /\ Polls(w, m)'
    <3>1. task[w][m] \in PollingTask
      BY DEF PollingTypeOK
    <3>2. task'[w][m] = [task[w][m] EXCEPT !.pc = "fetch", !.run = Len(runs) + 1, !.at = 0]
      BY <2>1 DEF PollingTypeOK
    <3> QED  BY <3>1, <3>2 DEF Polls, PollingTask
  <2>4. /\ \A r \in DOMAIN runs : runs'[r] = runs[r]
        /\ \A r \in DOMAIN runs' : r \in DOMAIN runs \/ r = Len(runs) + 1
    BY <2>1, InsertType
  <2>5. \A r \in DOMAIN runs' : runs'[r].outcome = "RUNNING" =>
           \/ r \in DOMAIN runs /\ runs[r].outcome = "RUNNING" /\ ~Polls(w, m)
           \/ task'[w][m].run = r /\ Polls(w, m)'
    BY <2>1, <2>3, <2>4
  <2> QED  BY <1>1, <2>2, <2>5, OthersPoll
<1>5. CASE RunSource(w, m)
  <2>1. UNCHANGED <<mapping, runs>> /\ AllEnabled'
    BY <1>5 DEF RunSource, database, OrphanInv, AllEnabled
  <2>2. task'[w][m].run = task[w][m].run /\ Polls(w, m)'
    <3>1. PICK pc \in {"success", "failure"} : BecomeAt(w, m, pc)
      BY <1>5 DEF RunSource
    <3>2. pc \in Places
      BY DEF Places
    <3>3. /\ task' = [task EXCEPT ![w][m] = MovedAt(w, m, pc)]
          /\ MovedAt(w, m, pc).run = task[w][m].run /\ MovedAt(w, m, pc).pc = pc
      BY <3>1, <3>2, TaskForms
    <3>4. task'[w][m] = MovedAt(w, m, pc)
      BY <3>3 DEF PollingTypeOK
    <3> QED  BY <3>3, <3>4 DEF Polls
  <2> QED  BY <1>1, <2>1, <2>2, OthersPoll
<1>6. CASE FinalizeSuccess(w, m)
  BY <1>1, <1>6, FinalizeOrphan DEF FinalizeSuccess
<1>7. CASE FinalizeFailure(w, m)
  BY <1>1, <1>7, FinalizeOrphan DEF FinalizeFailure
<1>8. ~FinalizeSuccessFails(w, m) /\ ~FinalizeFailureFails(w, m)
  BY <1>2 DEF FinalizeSuccessFails, FinalizeFailureFails, FinalizeRejected
<1>9. CASE CorrectRun(w, m)
  BY <1>1, <1>2, <1>9, FinalizeOrphan DEF CorrectRun, FinalizeRejected
<1>10. ~NoRunStarted(w, m)
  BY <1>2 DEF NoRunStarted
<1> QED  BY <1>3, <1>4, <1>5, <1>6, <1>7, <1>8, <1>9, <1>10 DEF TaskStep

\* A recovery only ends runs.
LEMMA RecoveryOrphan ==
    ASSUME RecoveryTypeOK, OrphanInv, NEW w \in Worker, RecoveryStep(w)
    PROVE  OrphanInv'
<1>1. CASE FinalizeStaleRun(w) /\ ~UNCHANGED database
  <2>1. PollingTypeOK /\ CandidateMapping(w) \in Mapping
    BY <1>1, CandidateType DEF RecoveryTypeOK, FinalizeStaleRun, RecAt
  <2>2. /\ UNCHANGED task /\ DOMAIN runs' = DOMAIN runs
        /\ \A s \in DOMAIN runs : s # Candidate(w) => runs'[s] = runs[s]
        /\ runs'[Candidate(w)] = [runs[Candidate(w)] EXCEPT !.outcome = "ABANDONED",
                                                            !.finished = rec[w].at]
    BY <1>1, FinalizeStaleRunType
  <2>3. runs'[Candidate(w)].outcome = "ABANDONED"
    <3>1. runs[Candidate(w)] \in Run
      BY <1>1, CandidateType DEF RecoveryTypeOK, PollingTypeOK, FinalizeStaleRun, RecAt
    <3> QED  BY <2>2, <3>1 DEF Run
  <2>4. AllEnabled'
    <3>1. \/ UNCHANGED mapping
          \/ mapping' = [mapping EXCEPT ![CandidateMapping(w)].next =
                                           rec[w].at + Interval[CandidateMapping(w)]]
      BY <1>1 DEF FinalizeStaleRun, Reschedule, CandidateMapping
    <3> QED  BY <2>1, <3>1, NextPollOnly DEF OrphanInv, AllEnabled
  <2>5. ASSUME NEW r \in DOMAIN runs', runs'[r].outcome = "RUNNING"
        PROVE  \E v \in Worker, n \in Mapping : task'[v][n].run = r /\ Polls(v, n)'
    <3>1. r \in DOMAIN runs /\ runs[r].outcome = "RUNNING"
      BY <2>2, <2>3, <2>5
    <3> QED  BY <2>2, <3>1 DEF OrphanInv, NoOrphanRuns, Polls
  <2> QED  BY <2>4, <2>5 DEF OrphanInv, NoOrphanRuns
<1>2. CASE ~(FinalizeStaleRun(w) /\ ~UNCHANGED database)
  <2>1. UNCHANGED <<mapping, runs, task>>
    BY <1>2 DEF RecoveryStep, SelectStaleRuns, ReacquireLock, ActiveLockHeld, FinalizeStaleRun,
       RecoveryError, ReleaseRecoveryLock, pollingVars, database
  <2> QED  BY <2>1, NothingPolled
<1> QED  BY <1>1, <1>2

\* A cycle begins when no task of its process polls.
LEMMA SelectOrphan ==
    ASSUME PollingTypeOK, OrphanInv, NEW w \in Worker, SelectDueMappings(w)
    PROVE  OrphanInv'
<1>1. /\ UNCHANGED <<mapping, runs>>
      /\ \A v \in Worker \ {w} : task'[v] = task[v]
      /\ \A m \in Mapping : task[w][m].pc = "none"
  BY SelectDueMappingsType
<1>2. \A v \in Worker, n \in Mapping : Polls(v, n) => task'[v][n] = task[v][n]
  BY <1>1 DEF Polls
<1> QED  BY <1>1, <1>2, NothingPolled

\* Every step of a collector on which nothing but a lock session can fail.
LEMMA OrphanNext ==
    ASSUME Reliable, Typed, OrphanInv, [RuntimeNext]_runtimeVars
    PROVE  OrphanInv'
<1>1. RecoveryTypeOK /\ PollingTypeOK
  BY DEF Typed, TypeInv, RecoveryTypeOK
<1>2. CASE UNCHANGED <<mapping, runs, task>>
  BY <1>2, NothingPolled
<1>3. ASSUME NEW w \in Worker, SelectDueMappings(w) PROVE OrphanInv'
  BY <1>1, <1>3, SelectOrphan
<1>4. ASSUME NEW w \in Worker, NEW m \in Mapping, TaskStep(w, m) PROVE OrphanInv'
  BY <1>1, <1>4, TaskOrphan
<1>5. ASSUME NEW w \in Worker, RecoveryStep(w) PROVE OrphanInv'
  BY <1>1, <1>5, RecoveryOrphan
<1>6. (\A w \in Worker : ~KillAndRestart(w)) /\ (\A m \in Mapping : ~SetEnabled(m))
  BY DEF Reliable, KillAndRestart, CrashAndRestart, Crash, SetEnabled
<1>7. \/ UNCHANGED <<mapping, runs, task>>
      \/ \E w \in Worker : SelectDueMappings(w)
      \/ \E w \in Worker, m \in Mapping : TaskStep(w, m)
      \/ \E w \in Worker : RecoveryStep(w)
  <2>1. ASSUME NEW w \in Worker, LoopStep(w) \/ BeginCycle(w) \/ CycleFails(w)
                               \/ RequestShutdown(w) \/ StartAgain(w)
        PROVE  UNCHANGED <<mapping, runs, task>> \/ SelectDueMappings(w) \/ RecoveryStep(w)
    BY <2>1 DEF LoopStep, RecoveryContinues, BeginRecovery, SelectStaleRuns, RecoveryFails,
       CycleFails, BeginCycle, EndCycle, WakeUp, Stop, RequestShutdown, StartAgain,
       collectorVars, pollingVars, database
  <2>3. Tick \/ (\E m \in Mapping : LoseSession(m)) => UNCHANGED <<mapping, runs, task>>
    BY DEF Tick, LoseSession, database
  <2>4. CASE RuntimeNext
    <3>1. CASE \/ Tick
               \/ \E m \in Mapping : LoseSession(m) \/ SetEnabled(m)
               \/ \E w \in Worker \ Recovering : SelectDueMappings(w)
      <4>1. \/ Tick \/ \E m \in Mapping : LoseSession(m)
            \/ \E w \in Worker : SelectDueMappings(w)
        BY <1>6, <3>1
      <4> QED  BY <2>3, <4>1
    <3>2. CASE \E w \in Worker, m \in Mapping : TaskContinues(w, m)
      BY <3>2 DEF TaskContinues
    <3>3. CASE \E w \in Worker : \/ LoopStep(w) \/ BeginCycle(w) \/ CycleFails(w)
                                  \/ RequestShutdown(w) \/ StartAgain(w) \/ KillAndRestart(w)
      <4>1. PICK w \in Worker : \/ LoopStep(w) \/ BeginCycle(w) \/ CycleFails(w)
                                \/ RequestShutdown(w) \/ StartAgain(w) \/ KillAndRestart(w)
        BY <3>3
      <4>2. UNCHANGED <<mapping, runs, task>> \/ SelectDueMappings(w) \/ RecoveryStep(w)
        BY <1>6, <2>1, <4>1
      <4> QED  BY <4>2
    <3> QED  BY <2>4, <3>1, <3>2, <3>3 DEF RuntimeNext
  <2>2. CASE UNCHANGED runtimeVars
    BY <2>2 DEF runtimeVars, collectorVars, pollingVars, database
  <2> QED  BY <2>2, <2>4
<1> QED  BY <1>2, <1>3, <1>4, <1>5, <1>7

\* As long as statements succeed and mappings stay enabled, no task ends and leaves
\* its run RUNNING: whatever happens to the sessions of the locks, whoever polls
\* the same mapping then and whatever a recovery takes for dead.
THEOREM NoRunIsOrphaned == Reliable => (RuntimeSpec => []NoOrphanRuns)
<1> SUFFICES ASSUME Reliable PROVE RuntimeSpec => []NoOrphanRuns
  OBVIOUS
<1>1. RuntimeInit => OrphanInv
  <2> SUFFICES ASSUME RuntimeInit PROVE OrphanInv
    OBVIOUS
  <2>1. runs = <<>> /\ mapping = [m \in Mapping |-> [enabled |-> TRUE, next |-> Null]]
    BY DEF RuntimeInit, RecoveryInit, PollingInit
  <2>2. \A m \in Mapping : mapping[m] = [enabled |-> TRUE, next |-> Null]
    BY <2>1
  <2>3. DOMAIN runs = {}
    BY <2>1
  <2> QED  BY <2>2, <2>3 DEF OrphanInv, AllEnabled, NoOrphanRuns
<1>2. Typed /\ OrphanInv /\ [RuntimeNext]_runtimeVars => OrphanInv'
  BY OrphanNext
<1>3. OrphanInv => NoOrphanRuns
  BY DEF OrphanInv
<1> QED  BY <1>1, <1>2, <1>3, SpecTyped, PTL DEF RuntimeSpec

=============================================================================
