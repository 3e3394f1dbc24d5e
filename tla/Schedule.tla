------------------------------ MODULE Schedule ------------------------------
(***************************************************************************)
(* When a collector process polls what: the loop of CollectorRuntimeService*)
(* with the length of its sleeps, the order in which selectDueMappings     *)
(* takes the mappings, and next_poll_at after a poll.  Polling and Runtime *)
(* say what happens inside a cycle; here a cycle is one step that takes    *)
(* some time, and the question is who is left out of it, for ever.         *)
(*                                                                         *)
(* Time is relative, so that the process can run for ever in finitely many *)
(* states: due[m] is next_poll_at minus the present time.  Of times that   *)
(* have passed the program sees their order only, so they are replaced by  *)
(* their ranks: 0 for the latest of them, -1 for the one before, ...       *)
(***************************************************************************)
EXTENDS Integers, FiniteSets

CONSTANTS Mapping,        \* ids of collector_source_contests
          Interval,       \* poll_interval_seconds, 0 when null or invalid, or when
                          \* the source runner refuses the mapping
          MaxMappings,    \* maxMappingsPerCycle
          CycleInterval,  \* cycleIntervalMs
          FirstBackoff,   \* runtimeFailureBackoffMs
          MaxBackoff,     \* maximumRuntimeFailureBackoffMs
          MaxLength,      \* bound: how long a cycle takes
          Never           \* a next_poll_at that is null

Valid(m) == Interval[m] > 0

\* validateRuntimeOptions; and fewer mappings without a valid interval than a
\* cycle takes, for they are never rescheduled and stay first in the order.
ASSUME ScheduleConstants ==
    /\ Mapping \subseteq Nat
    /\ Interval \in [Mapping -> Nat]
    /\ CycleInterval \in Nat \ {0} /\ FirstBackoff \in Nat \ {0}
    /\ MaxBackoff >= FirstBackoff
    /\ MaxLength \in Nat
    /\ Cardinality({m \in Mapping : ~Valid(m)}) < MaxMappings

VARIABLES due,      \* next_poll_at of each mapping, relative to now
          enabled,  \* the mappings that are enabled
          polled,   \* the mappings the last cycle considered
          loop      \* place in the loop, next sleep, failureBackoffMs

scheduleVars == <<due, enabled, polled, loop>>

Passed(d) == d # Never /\ d <= 0

Ranked(times) ==
    LET passed == {t \in {times[m] : m \in Mapping} : Passed(t)}
    IN  [m \in Mapping |->
            IF Passed(times[m]) THEN -Cardinality({t \in passed : t > times[m]})
                                ELSE times[m]]

\* next_poll_at of m after a time of t.
Sooner(m, t) == IF due[m] = Never THEN Never ELSE due[m] - t

IsDue(m) == m \in enabled /\ (due[m] = Never \/ due[m] <= 0)

\* Slip: no ORDER BY next_poll_at, rows come in the order of the primary key.
BeforeById(m, n) == m < n

\* ORDER BY next_poll_at with nulls first, then id.
Before(m, n) ==
    \/ due[m] = Never /\ due[n] # Never
    \/ due[m] # Never /\ due[n] # Never /\ due[m] < due[n]
    \/ due[m] = due[n] /\ m < n

Selected == {m \in Mapping : /\ IsDue(m)
                             /\ Cardinality({n \in Mapping : IsDue(n) /\ Before(n, m)})
                                  < MaxMappings}

At(pc) == loop.pc = pc
Sleep(t, then, backoff) == loop' = [pc |-> "sleep", wait |-> t, then |-> then,
                                    backoff |-> backoff]
NextBackoff == IF 2 * loop.backoff < MaxBackoff THEN 2 * loop.backoff ELSE MaxBackoff
------------------------------------------------------------------------------
ScheduleInit ==
    /\ due = [m \in Mapping |-> Never]
    /\ enabled = Mapping
    /\ polled = {}
    /\ loop = [pc |-> "recover", wait |-> 0, then |-> "recover", backoff |-> FirstBackoff]

Recover ==
    /\ At("recover")
    /\ loop' = [loop EXCEPT !.pc = "cycle", !.backoff = FirstBackoff]
    /\ UNCHANGED <<due, enabled, polled>>

RecoverFails ==
    /\ At("recover")
    /\ Sleep(loop.backoff, "recover", NextBackoff)
    /\ UNCHANGED <<due, enabled, polled>>

\* A cycle of length t in which the polls of done are finalized and, age[m]
\* before its end, scheduled again.  The others are not: the interval is
\* invalid, the lock is taken, or the run is not inserted or not finalized.
RunCycle(done, age, t) ==
    /\ At("cycle")
    /\ due' = Ranked([m \in Mapping |->
                        IF m \in done THEN Interval[m] - age[m] ELSE Sooner(m, t)])
    /\ polled' = Selected
    /\ Sleep(CycleInterval, "cycle", FirstBackoff)
    /\ UNCHANGED enabled

Pollable == {m \in Selected : Valid(m)}

Cycle == \E t \in 0 .. MaxLength, done \in SUBSET Pollable :
            \E age \in [done -> 0 .. t] : RunCycle(done, age, t)

\* A cycle in which m gets through.
CycleFor(m) == \E t \in 0 .. MaxLength, done \in SUBSET Pollable :
                  m \in done /\ \E age \in [done -> 0 .. t] : RunCycle(done, age, t)

\* The selection fails.
CycleFails ==
    /\ At("cycle")
    /\ Sleep(loop.backoff, "cycle", NextBackoff)
    /\ polled' = {}
    /\ UNCHANGED <<due, enabled>>

WakeUp ==
    /\ At("sleep")
    /\ due' = Ranked([m \in Mapping |-> Sooner(m, loop.wait)])
    /\ loop' = [loop EXCEPT !.pc = loop.then, !.wait = 0]
    /\ UNCHANGED <<enabled, polled>>

\* An operator disables or enables a mapping.
SetEnabled(m) ==
    /\ enabled' = IF m \in enabled THEN enabled \ {m} ELSE enabled \cup {m}
    /\ UNCHANGED <<due, polled, loop>>

ScheduleNext ==
    \/ Recover \/ RecoverFails \/ Cycle \/ CycleFails \/ WakeUp
    \/ \E m \in Mapping : SetEnabled(m)

ScheduleSpec == ScheduleInit /\ [][ScheduleNext]_scheduleVars

\* Sleeps end; recovery and the selection fail, and the poll of a mapping is
\* not finalized, any number of times, but not each time for ever.
ScheduleFairness ==
    /\ WF_scheduleVars(WakeUp)
    /\ SF_scheduleVars(Recover)
    /\ SF_scheduleVars(Cycle)
    /\ \A m \in Mapping : SF_scheduleVars(CycleFor(m))

ScheduleFairSpec == ScheduleSpec /\ ScheduleFairness
------------------------------------------------------------------------------
\* Every mapping with a valid interval that stays enabled is polled again and
\* again, however many are due and however short their intervals are: what a
\* cycle leaves out is older than what it has just rescheduled.
NoMappingStarves ==
    \A m \in Mapping : Valid(m) => []<>(m \in polled \/ m \notin enabled)
=============================================================================
