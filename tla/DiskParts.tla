------------------------------ MODULE DiskParts ------------------------------
(***************************************************************************)
(* The components that keep files and tables which others write too, side  *)
(* by side: the choice, move and close of the database file, of which this *)
(* module is an extension, the git mirror and its replay, the upgrade of   *)
(* an earlier build's tables, and the copies of the vector tables in       *)
(* memory.  They share no state.  What each of them keeps is defined here  *)
(* for every value of its constants.                                       *)
(***************************************************************************)
EXTENDS StoreFiles

CONSTANTS
    \* GitMirror
    Flushers, MaxEvents, MaxMinute, DayLength, BatchRows, MaxBatches, Tearing, MaxStops, MaxLosses,
    \* Migration
    Openers, Columns, OldJobs, Chains, MaxQueued, MaxDeaths,
    \* VectorCache
    Designs, Ids, RecordOf, Scores, Unfit, Widths, Floor, Limit, Rounding, MaxRows, Beside,
    MaxRowid, MaxWrites, MaxFailures

VARIABLES
    captured, minute, queue, files, head, flush, clock, phase, before, stops, losses,
    jobs, check, columns, stamp, opener, queued, deaths, owed, behind,
    design, rows, gen, log, replaying, writes, outlived, copies, failures, searchAt, call, result, seen

Mirror == INSTANCE GitMirror WITH
    log <- captured, crashes <- stops, Procs <- Flushers, MaxCrashes <- MaxStops
mirrorVars == <<captured, minute, queue, files, head, flush, clock, phase, before, stops, losses>>

Up == INSTANCE Migration WITH crashes <- deaths, MaxCrashes <- MaxDeaths
upgradeVars == <<jobs, check, columns, stamp, opener, queued, deaths, owed, behind>>

Cache == INSTANCE VectorCache WITH pc <- searchAt
cacheVars == <<design, rows, gen, log, replaying, writes, outlived, copies, failures, searchAt, call,
               result, seen>>

-----------------------------------------------------------------------------
(* The mirror: no event is logged twice, a row marked committed is in git,  *)
(* and a replay brings back what was marked.                                *)
MirrorHonest ==
    /\ Mirror!TypeOK /\ Mirror!LogOnce /\ Mirror!CommittedInHead
    /\ Mirror!RecoveryComplete

(* The upgrade: no sweep is lost, none is run past, no jobs wait in a ring. *)
QueueSurvives == Up!TypeOK /\ Up!SweepKept /\ Up!NotEarly /\ Up!NoneStuck

(* The in-memory copies: that of the projection answers as its table would, *)
(* that of the turns too until it outlives a rebuild, and both are kept.    *)
CopiesExact == Cache!ProjectionExact /\ Cache!ObservedExact /\ Cache!RebuildsOnlyWhenMoved

(* Of the copies, the projection answers as the paged scan would. *)
ProjectionExact == Cache!ProjectionExact

(* The database file keeps EventsSurvive, which StoreFiles defines. *)
=============================================================================
