------------------------------ MODULE Readers ------------------------------
(***************************************************************************)
(* Everything that reads contest.run: the collector's loop (Schedule) or a *)
(* program that only observes (Probes).  They run in processes of their    *)
(* own and share nothing, so the behaviours are those of either one.       *)
(***************************************************************************)
EXTENDS Schedule, Probes

readersVars == <<scheduleVars, probeVars>>

\* No collector: nothing is enabled, the loop is nowhere.
CollectorAbsent ==
    /\ due = [m \in Mapping |-> Never]
    /\ enabled = {}
    /\ polled = {}
    /\ loop = [pc |-> "none", wait |-> 0, then |-> "none", backoff |-> FirstBackoff]

\* No probe: as one that has ended.
ProbeAbsent ==
    /\ ClientInit
    /\ conf = CHOOSE c \in ServiceConfigurations : TRUE
    /\ asked = <<>> /\ listed = <<>> /\ failed = {}
    /\ report = "FAIL"

CollectorRuns == ~At("none")

ReadersInit == \/ ScheduleInit /\ ProbeAbsent
               \/ ProbeInit /\ CollectorAbsent

CollectorStep(Step) == CollectorRuns /\ Step /\ UNCHANGED probeVars
ProbeStep(Step)     == ~CollectorRuns /\ Step /\ UNCHANGED scheduleVars

ReadersNext ==
    \/ CollectorStep(Recover) \/ CollectorStep(RecoverFails)
    \/ CollectorStep(Cycle) \/ CollectorStep(CycleFails) \/ CollectorStep(WakeUp)
    \/ \E m \in Mapping : CollectorStep(SetEnabled(m))
    \/ ProbeStep(Ask) \/ ProbeStep(AnswerArrives) \/ ProbeStep(Answered)
    \/ ProbeStep(NotAnswered) \/ ProbeStep(WriteReport)

ReadersSpec == ReadersInit /\ [][ReadersNext]_readersVars /\ ScheduleFairness
=============================================================================
