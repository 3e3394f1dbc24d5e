------------------------------ MODULE Runtime ------------------------------
(***************************************************************************)
(* CollectorRuntimeService.run, the loop of a TypeScript collector: it     *)
(* recovers until a recovery goes through, then runs one polling cycle     *)
(* after the other, sleeps in between, and sleeps too when the selection   *)
(* of either fails.  SIGINT and SIGTERM abort a signal that the loop looks *)
(* at between these steps and that cuts a sleep short; what is under way   *)
(* is finished.  A second signal kills the process, as a crash does.       *)
(*                                                                         *)
(* How long a sleep lasts (cycleIntervalMs, or the backoff that doubles up *)
(* to a maximum) is left out: the timer may fire at any time.  The PHP     *)
(* collector has no loop, cron starts each of its cycles.                  *)
(***************************************************************************)
EXTENDS Recovery

VARIABLE loop   \* the loop of each process that has one

runtimeVars == <<collectorVars, loop>>

Started == [pc |-> "top", aborted |-> FALSE]

LoopAt(w, pc)      == loop[w].pc = pc
GoTo(w, pc)        == loop' = [loop EXCEPT ![w].pc = pc]
SelectionFails     == "selection" \in Faults
AllTasksEnded(w)   == \A m \in Mapping : At(w, m, "none")

RuntimeInit == RecoveryInit /\ loop = [w \in Worker |-> Started]

\* while (!aborted): the next recovery or cycle begins.
MayBegin(w) == w \in Recovering /\ LoopAt(w, "top") /\ ~loop[w].aborted

BeginRecovery(w) ==
    /\ MayBegin(w)
    /\ SelectStaleRuns(w)
    /\ UNCHANGED loop

RecoveryFails(w) ==
    /\ MayBegin(w)
    /\ RecAt(w, "select")
    /\ SelectionFails
    /\ GoTo(w, "sleep")
    /\ UNCHANGED collectorVars

BeginCycle(w) ==
    /\ MayBegin(w)
    /\ RecAt(w, "done")
    /\ SelectDueMappings(w) \/ (Selected = {} /\ UNCHANGED pollingVars)
    /\ GoTo(w, "cycle")
    /\ UNCHANGED rec

CycleFails(w) ==
    /\ MayBegin(w)
    /\ RecAt(w, "done")
    /\ SelectionFails
    /\ GoTo(w, "sleep")
    /\ UNCHANGED collectorVars

\* Slip: the tasks of the cycle are started and not awaited.
EndCycleAtOnce(w) ==
    /\ LoopAt(w, "cycle")
    /\ GoTo(w, IF loop[w].aborted THEN "top" ELSE "sleep")
    /\ UNCHANGED collectorVars

\* Promise.all of the tasks.
EndCycle(w) ==
    /\ LoopAt(w, "cycle")
    /\ AllTasksEnded(w)
    /\ GoTo(w, IF loop[w].aborted THEN "top" ELSE "sleep")
    /\ UNCHANGED collectorVars

WakeUp(w) == LoopAt(w, "sleep") /\ GoTo(w, "top") /\ UNCHANGED collectorVars

\* Slip: the loop insists on a recovery before it looks at the signal.
StopOnceRecovered(w) ==
    /\ LoopAt(w, "top")
    /\ RecAt(w, "done")
    /\ loop[w].aborted
    /\ GoTo(w, "stopped")
    /\ UNCHANGED collectorVars

\* RUNTIME_STOPPED; a recovery that has begun is finished first.
Stop(w) ==
    /\ LoopAt(w, "top")
    /\ rec[w].pc \in {"select", "done"}
    /\ loop[w].aborted
    /\ GoTo(w, "stopped")
    /\ UNCHANGED collectorVars

RequestShutdown(w) ==
    /\ "stop" \in Faults
    /\ w \in Recovering
    /\ ~loop[w].aborted
    /\ loop' = [loop EXCEPT ![w].aborted = TRUE]
    /\ UNCHANGED collectorVars

\* A stopped process is started again.
StartAgain(w) ==
    /\ LoopAt(w, "stopped")
    /\ loop' = [loop EXCEPT ![w] = Started]
    /\ rec' = [rec EXCEPT ![w] = NotStarted(w)]
    /\ UNCHANGED pollingVars

KillAndRestart(w) ==
    /\ ~LoopAt(w, "stopped")
    /\ CrashAndRestart(w)
    /\ loop' = [loop EXCEPT ![w] = Started]

\* The awaits inside a recovery that has begun.
RecoveryContinues(w) == ~RecAt(w, "select") /\ RecoveryStep(w) /\ UNCHANGED loop

TaskContinues(w, m) == TaskStep(w, m) /\ UNCHANGED <<rec, loop>>

LoopStep(w) ==
    \/ BeginRecovery(w) \/ RecoveryFails(w) \/ RecoveryContinues(w)
    \/ EndCycle(w) \/ WakeUp(w) \/ Stop(w)

RuntimeNext ==
    \/ /\ \/ Tick
          \/ \E m \in Mapping : LoseSession(m) \/ SetEnabled(m)
          \/ \E w \in Worker \ Recovering : SelectDueMappings(w)
       /\ UNCHANGED <<rec, loop>>
    \/ \E w \in Worker, m \in Mapping : TaskContinues(w, m)
    \/ \E w \in Worker : \/ LoopStep(w) \/ BeginCycle(w) \/ CycleFails(w)
                         \/ RequestShutdown(w) \/ StartAgain(w) \/ KillAndRestart(w)

RuntimeSpec == RuntimeInit /\ [][RuntimeNext]_runtimeVars

\* Every await of a live process is answered in the end (the HTTP client and
\* the driver have timeouts) and a timer fires.  Nothing is assumed of new
\* cycles, signals, faults and operators.
RuntimeFairSpec ==
    /\ RuntimeSpec
    /\ \A w \in Worker : WF_runtimeVars(LoopStep(w))
    /\ \A w \in Worker, m \in Mapping : WF_runtimeVars(TaskContinues(w, m))
------------------------------------------------------------------------------
\* A process that was asked to stop and has stopped left nothing behind: no
\* poll, no advisory lock, also when the signal came in the middle of a cycle
\* or of a recovery (docs: shutdown prevents a new cycle, while allowing the
\* active one to finish before the database pool is closed).
StoppedHoldsNothing ==
    \A w \in Worker : LoopAt(w, "stopped") =>
        AllTasksEnded(w) /\ \A m \in Mapping : lock[m] # w

\* A process that was asked to stop does, also when it cannot recover.
EveryShutdownStops ==
    \A w \in Worker : loop[w].aborted ~> LoopAt(w, "stopped")
=============================================================================
