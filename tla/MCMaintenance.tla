--------------------------- MODULE MCMaintenance ---------------------------
(* TLC instances of what hooks and shutdowns set going: the maintenance     *)
(* scheduler and the flush of the git mirror.  They share no state, so a    *)
(* behaviour is one of one of them: part says of which, and the other       *)
(* rests.                                                                   *)
EXTENDS Scheduler

CONSTANT Parts  \* the components looked at

VARIABLES
    part,
    log, minute, queue, files, head, flush, hour, phase, before, deaths, losses

(* "reaper" fires at every time of the day, the others at one time each, as *)
(* decay, health and identity do.                                           *)
ReaperAndTwoDaily == [e \in 0 .. 2 |-> IF e = 0 THEN {0, 1, 2} ELSE {e - 1}]
ReaperAndThreeDaily == [e \in 0 .. 3 |-> IF e = 0 THEN {0, 1, 2} ELSE {e - 1}]

(* A process that dies once, two events on two days, the database lost once. *)
Mirror == INSTANCE GitMirror WITH
    Procs <- {1}, MaxEvents <- 2, MaxMinute <- 1, DayLength <- 1, BatchRows <- 2,
    MaxBatches <- 2, Tearing <- FALSE, MaxCrashes <- 1, MaxLosses <- 1,
    clock <- hour, crashes <- deaths
mirrorVars == <<log, minute, queue, files, head, flush, hour, phase, before, deaths, losses>>

(* A component rests in one of its initial states. *)
SchedulerRests == clock = 0 /\ \A e \in Entries : anchor[e] = 0

PartsInit ==
    /\ part \in Parts
    /\ Init /\ Mirror!Init
    /\ part # "scheduler" => SchedulerRests

PartsNext ==
    \/ part = "scheduler" /\ Next /\ UNCHANGED <<part, mirrorVars>>
    \/ part = "mirror" /\ Mirror!Next /\ UNCHANGED <<part, vars>>

PartsSpec ==
    /\ PartsInit /\ [][PartsNext]_<<part, vars, mirrorVars>>
    /\ \A p \in Procs : WF_vars(part = "scheduler" /\ HookStep(p))
    /\ WF_vars(part = "scheduler" /\ ClockTick)
    /\ WF_mirrorVars(part = "mirror" /\ Mirror!FlushStep(1))
    /\ WF_mirrorVars(part = "mirror" /\ Mirror!Replay)

-----------------------------------------------------------------------------
ServesEveryEntry == []<>(part # "scheduler") \/ NoEntryStarves
EventuallyMirrored == Mirror!EventuallyMirrored
=============================================================================
