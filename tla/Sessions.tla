------------------------------ MODULE Sessions -------------------------------
(***************************************************************************)
(* The life of one conversation session: turns captured by the host thread *)
(* (CaptureEngine of engine/capture.py, called by provider.py), extracted  *)
(* and summarised by the curation worker (engine/curation.py), ended by    *)
(* the host, by the reaper, or by the recovery of a starting process, and  *)
(* rewound by the user (ChronicleCore.switch_scope).                       *)
(*                                                                         *)
(* Each SQL statement is a step; the threads interleave between them, and  *)
(* the process may die anywhere.  The curation queue is taken as           *)
(* WorkLifecycle promises it: a job stays until its handler has returned   *)
(* or failed.  Turns are numbered in the order of the event log (seq).     *)
(* The session is a person's (no automation prefix, none of the excluded   *)
(* ones), and a turn is one that _on_observed queues for extraction.       *)
(*                                                                         *)
(* An operator X_variant before X is not part of the model: it is a        *)
(* plausible defect of the code behind X, caught by a property.            *)
(***************************************************************************)
EXTENDS Integers, FiniteSets

CONSTANTS
    MaxTurns,     \* bound: turns captured
    MaxCrashes,   \* bound: times the process dies
    MaxFailures,  \* bound: turns whose extraction raises
    MaxRewinds,   \* bound: rewinds by the user
    MaxStarts,    \* bound: starts of another process
    StartsAlone   \* bound: another process starts only where nothing else goes amiss

ASSUME BoundsAssumption ==
    /\ MaxTurns \in Nat /\ MaxCrashes \in Nat /\ MaxFailures \in Nat
    /\ MaxRewinds \in Nat /\ MaxStarts \in Nat /\ StartsAlone \in BOOLEAN

Turns == 1 .. MaxTurns
Parties == {"host", "worker", "other"}  \* "other": a second process starting
Live == {"active", "idle"}
Done == {"ended", "reaped"}
NoRow == "none"
None == -1  \* a NULL branch_point_seq; a session without a session_index row

VARIABLES
    status,     \* sessions.status, NoRow while there is no row
    water,      \* sessions.last_extracted_seq
    branch,     \* sessions.branch_point_seq
    quiet,      \* how long ago last_activity_at is: "fresh", "idle", "stale"
    n,          \* observed turns in the event log
    jobs,       \* turns with a live extract job
    extracted,  \* turns with a row in extractions
    skipped,    \* those recorded as branch_abandoned
    summarize,  \* whether a session_summarize job is live
    index,      \* the turns the session_index row summarises: 1 .. index
    at,         \* per thread: the statement it is about to execute
    todo,       \* per thread: turns finalize_session has still to enqueue
    high,       \* per thread: a seq it has read and will write
    turn,       \* the turn the worker extracts
    kept,       \* history: turns the user's rewinds have left in place
    failed,     \* history: turns whose extraction has raised
    crashes, rewinds, starts  \* bound counters

row == <<status, water, branch, quiet>>
log == <<n, jobs, extracted, skipped>>
summary == <<summarize, index>>
locals == <<at, todo, high, turn>>
history == <<kept, failed>>
bounds == <<crashes, rewinds, starts>>
vars == <<row, log, summary, locals, history, bounds>>

MayGoAmiss == StartsAlone => starts = 0
MayStart == StartsAlone => crashes = 0 /\ rewinds = 0 /\ failed = {}

Init ==
    /\ status = NoRow /\ water = 0 /\ branch = None /\ quiet = "fresh"
    /\ n = 0 /\ jobs = {} /\ extracted = {} /\ skipped = {}
    /\ summarize = FALSE /\ index = None
    /\ at = [t \in Parties |-> "idle"]
    /\ todo = [t \in Parties |-> {}]
    /\ high = [t \in Parties |-> 0]
    /\ turn = 0 /\ kept = {} /\ failed = {}
    /\ crashes = 0 /\ rewinds = 0 /\ starts = 0

Goto(t, label) == at' = [at EXCEPT ![t] = label] /\ UNCHANGED high
Load(t, label, seq) ==
    at' = [at EXCEPT ![t] = label] /\ high' = [high EXCEPT ![t] = seq]
Finish(t) == Load(t, "idle", 0)

-----------------------------------------------------------------------------
(* The host thread *)

\* _touch_session: creates the row, or only notes the activity.
Touch ==
    /\ quiet' = "fresh"
    /\ status' = IF status = NoRow THEN "active" ELSE status
    /\ UNCHANGED <<water, branch>>

\* on_turn_start
TurnStart ==
    /\ at["host"] = "idle"
    /\ Touch
    /\ UNCHANGED <<log, summary, locals, history, bounds>>

\* observe: append_event reduces inline, which queues the extraction in the
\* same transaction; the session is touched afterwards.
Observe ==
    /\ at["host"] = "idle"
    /\ n < MaxTurns
    /\ n' = n + 1
    /\ jobs' = jobs \cup {n + 1}
    /\ kept' = kept \cup {n + 1}
    /\ Goto("host", "touch")
    /\ UNCHANGED <<row, extracted, skipped, summary, todo, turn, failed, bounds>>

ObserveTouch ==
    /\ at["host"] = "touch"
    /\ Touch
    /\ Goto("host", "idle")
    /\ UNCHANGED <<log, summary, todo, turn, history, bounds>>

\* switch_scope with rewound: the user takes back the turns after some point,
\* which the hook does not name.
RewindRead ==
    /\ at["host"] = "idle"
    /\ rewinds < MaxRewinds /\ MayGoAmiss
    /\ rewinds' = rewinds + 1
    /\ \E point \in 0 .. n : kept' = kept \cap (1 .. point)
    /\ IF status = NoRow
       THEN UNCHANGED <<at, high>>
       ELSE Load("host", "rewind", IF water # 0 THEN water ELSE n)
    /\ UNCHANGED <<row, log, summary, todo, turn, failed, crashes, starts>>

RewindWrite ==
    /\ at["host"] = "rewind"
    /\ branch' = high["host"]
    /\ Finish("host")
    /\ UNCHANGED <<status, water, quiet, log, summary, todo, turn, history, bounds>>

\* switch_scope with a parent: the session is active, whatever it was.
SwitchFromParent ==
    /\ at["host"] = "idle"
    /\ status' = "active" /\ quiet' = "fresh"
    /\ UNCHANGED <<water, branch, log, summary, locals, history, bounds>>

\* on_session_end
SessionEnd ==
    /\ at["host"] = "idle"
    /\ Goto("host", "read")
    /\ UNCHANGED <<row, log, summary, todo, turn, history, bounds>>

-----------------------------------------------------------------------------
(* finalize_session, in any thread *)

FinalizeRead(t) ==
    /\ at[t] = "read"
    /\ IF status \in Done
       THEN Finish(t)
       ELSE Load(t, "pending", water)
    /\ UNCHANGED <<row, log, summary, todo, turn, history, bounds>>

\* get_events_by_session(since_seq): the events past the watermark.
Highest(t) == IF n > high[t] THEN n ELSE high[t]

FinalizePending(t) ==
    /\ at[t] = "pending"
    /\ todo' = [todo EXCEPT ![t] = {k \in 1 .. n : k > high[t]}]
    /\ Load(t, "enqueue", Highest(t))
    /\ UNCHANGED <<row, log, summary, turn, history, bounds>>

FinalizeEnqueue(t) ==
    /\ at[t] = "enqueue"
    /\ \E k \in todo[t] :
          /\ \A other \in todo[t] : k <= other
          /\ jobs' = jobs \cup {k}
          /\ todo' = [todo EXCEPT ![t] = @ \ {k}]
    /\ UNCHANGED <<row, n, extracted, skipped, summary, at, high, turn, history, bounds>>

FinalizeSummarize(t) ==
    /\ at[t] = "enqueue"
    /\ todo[t] = {}
    /\ summarize' = TRUE
    /\ Goto(t, "upsert")
    /\ UNCHANGED <<row, log, index, todo, turn, history, bounds>>

FinalizeUpsert(t) ==
    /\ at[t] = "upsert"
    /\ status' = IF t = "worker" THEN "reaped" ELSE "ended"
    /\ water' = high[t]
    /\ Finish(t)
    /\ UNCHANGED <<branch, quiet, log, summary, todo, turn, history, bounds>>

Finalize(t) ==
    \/ FinalizeRead(t)
    \/ FinalizePending(t)
    \/ FinalizeEnqueue(t)
    \/ FinalizeSummarize(t)
    \/ FinalizeUpsert(t)

-----------------------------------------------------------------------------
(* The curation worker *)

\* Reaper.run: the rows are read first and judged by what was read.
Reapable == status \in Live

ReaperList ==
    /\ at["worker"] = "idle"
    /\ Reapable
    /\ \/ quiet = "stale" /\ Goto("worker", "read")
       \/ quiet = "idle" /\ status = "active" /\ Goto("worker", "mark_idle")
    /\ UNCHANGED <<row, log, summary, todo, turn, history, bounds>>

ReaperMarkIdle ==
    /\ at["worker"] = "mark_idle"
    /\ status' = "idle"
    /\ Goto("worker", "idle")
    /\ UNCHANGED <<water, branch, quiet, log, summary, todo, turn, history, bounds>>

\* _task_extract: once per event (I9), never for an abandoned branch (I16).
Abandoned(k) == branch # None /\ k > branch

ExtractAgain ==
    /\ at["worker"] = "idle"
    /\ \E k \in jobs \cap extracted : jobs' = jobs \ {k}
    /\ UNCHANGED <<row, n, extracted, skipped, summary, locals, history, bounds>>

ExtractSkip_NotRecorded ==
    /\ at["worker"] = "idle"
    /\ \E k \in jobs \ extracted : Abandoned(k) /\ jobs' = jobs \ {k}
    /\ UNCHANGED <<row, n, extracted, skipped, summary, locals, history, bounds>>
ExtractSkip ==
    /\ at["worker"] = "idle"
    /\ \E k \in jobs \ extracted :
          /\ Abandoned(k)
          /\ extracted' = extracted \cup {k}
          /\ skipped' = skipped \cup {k}
          /\ jobs' = jobs \ {k}
    /\ UNCHANGED <<row, n, summary, locals, history, bounds>>

ExtractStart_ForgetsJob ==
    /\ at["worker"] = "idle"
    /\ \E k \in jobs \ extracted :
          ~Abandoned(k) /\ turn' = k /\ jobs' = jobs \ {k}
    /\ Goto("worker", "emit")
    /\ UNCHANGED <<row, n, extracted, skipped, summary, todo, history, bounds>>
ExtractStart ==
    /\ at["worker"] = "idle"
    /\ \E k \in jobs \ extracted : ~Abandoned(k) /\ turn' = k
    /\ Goto("worker", "emit")
    /\ UNCHANGED <<row, log, summary, todo, history, bounds>>

\* The items become events, then record_extraction marks the turn done.
ExtractRecord ==
    /\ at["worker"] = "emit"
    /\ extracted' = extracted \cup {turn}
    /\ Goto("worker", "watermark")
    /\ UNCHANGED <<row, n, jobs, skipped, summary, todo, turn, history, bounds>>

\* A handler that raises leaves its job failed, which nothing claims again.
ExtractFail ==
    /\ at["worker"] = "emit"
    /\ Cardinality(failed \cup {turn}) <= MaxFailures
    /\ MayGoAmiss
    /\ failed' = failed \cup {turn}
    /\ jobs' = jobs \ {turn}
    /\ turn' = 0
    /\ Goto("worker", "idle")
    /\ UNCHANGED <<row, n, extracted, skipped, summary, todo, kept, bounds>>

\* _advance_watermark: the row is read, compared and written in two statements.
WatermarkRead ==
    /\ at["worker"] = "watermark"
    /\ Goto("worker", IF status # NoRow /\ turn > water THEN "advance" ELSE "complete")
    /\ UNCHANGED <<row, log, summary, todo, turn, history, bounds>>

WatermarkWrite ==
    /\ at["worker"] = "advance"
    /\ water' = turn
    /\ Goto("worker", "complete")
    /\ UNCHANGED <<status, branch, quiet, log, summary, todo, turn, history, bounds>>

ExtractComplete ==
    /\ at["worker"] = "complete"
    /\ jobs' = jobs \ {turn}
    /\ turn' = 0
    /\ Goto("worker", "idle")
    /\ UNCHANGED <<row, n, extracted, skipped, summary, todo, history, bounds>>

\* _task_session_summarize: reads the session's turns, then writes its row.
SummarizeRead ==
    /\ at["worker"] = "idle"
    /\ summarize
    /\ Load("worker", "index", n)
    /\ UNCHANGED <<row, log, summary, todo, turn, history, bounds>>

SummarizeWrite ==
    /\ at["worker"] = "index"
    /\ index' = IF high["worker"] = 0 THEN index ELSE high["worker"]
    /\ summarize' = FALSE
    /\ Finish("worker")
    /\ UNCHANGED <<row, log, todo, turn, history, bounds>>

\* _task_backfill_sweep, when its page reaches this session.
Backfillable_EndedOnly == status = "ended" /\ index = None
Backfillable == status \in Done /\ index = None

Backfill ==
    /\ at["worker"] = "idle"
    /\ Backfillable
    /\ ~summarize
    /\ summarize' = TRUE
    /\ UNCHANGED <<row, log, index, locals, history, bounds>>

-----------------------------------------------------------------------------
(* Time, crashes and other processes *)

TimePasses ==
    /\ quiet # "stale"
    /\ quiet' = IF quiet = "fresh" THEN "idle" ELSE "stale"
    /\ UNCHANGED <<status, water, branch, log, summary, locals, history, bounds>>

\* The process dies with both its threads; the next one begins with recovery.
Crash ==
    /\ crashes < MaxCrashes /\ MayGoAmiss
    /\ crashes' = crashes + 1
    /\ at' = [at EXCEPT !["host"] = "recover", !["worker"] = "idle"]
    /\ todo' = [todo EXCEPT !["host"] = {}, !["worker"] = {}]
    /\ high' = [high EXCEPT !["host"] = 0, !["worker"] = 0]
    /\ turn' = 0
    /\ UNCHANGED <<row, log, summary, history, rewinds, starts>>

\* startup_recovery finalizes every live session, this process's or not.
Recover ==
    /\ at["host"] = "recover"
    /\ Goto("host", IF status \in Live THEN "read" ELSE "idle")
    /\ UNCHANGED <<row, log, summary, todo, turn, history, bounds>>

OtherProcessStarts ==
    /\ at["other"] = "idle"
    /\ status \in Live
    /\ starts < MaxStarts /\ MayStart
    /\ starts' = starts + 1
    /\ Goto("other", "read")
    /\ UNCHANGED <<row, log, summary, todo, turn, history, crashes, rewinds>>

HostStep ==
    \/ ObserveTouch
    \/ RewindWrite
    \/ Recover
    \/ Finalize("host")

Extract ==
    \/ ExtractAgain
    \/ ExtractSkip
    \/ ExtractStart

WorkerStep ==
    \/ ExtractRecord
    \/ WatermarkRead
    \/ WatermarkWrite
    \/ ExtractComplete
    \/ SummarizeWrite
    \/ ReaperMarkIdle
    \/ Finalize("worker")

Next ==
    \/ TurnStart
    \/ Observe
    \/ RewindRead
    \/ SwitchFromParent
    \/ SessionEnd
    \/ HostStep
    \/ Extract
    \/ ExtractFail
    \/ SummarizeRead
    \/ ReaperList
    \/ Backfill
    \/ WorkerStep
    \/ TimePasses
    \/ Crash
    \/ OtherProcessStarts
    \/ Finalize("other")

Spec == Init /\ [][Next]_vars

\* A thread that has begun goes on; the clock runs; the drain serves every kind
\* of job it keeps finding (FairDrain, RequestServed of JobQueue).
FairSpec ==
    /\ Spec
    /\ WF_vars(HostStep)
    /\ WF_vars(WorkerStep)
    /\ WF_vars(TimePasses)
    /\ SF_vars(Extract)
    /\ SF_vars(SummarizeRead)
    /\ SF_vars(ReaperList)
    /\ SF_vars(Backfill)

-----------------------------------------------------------------------------
(* Properties *)

TypeOK ==
    /\ status \in Live \cup Done \cup {NoRow}
    /\ water \in 0 .. n /\ n \in 0 .. MaxTurns
    /\ branch \in 0 .. n \cup {None}
    /\ quiet \in {"fresh", "idle", "stale"}
    /\ jobs \subseteq 1 .. n /\ extracted \subseteq 1 .. n
    /\ skipped \subseteq extracted /\ kept \subseteq 1 .. n
    /\ summarize \in BOOLEAN
    /\ index \in 0 .. n \cup {None}
    /\ at \in [Parties -> {"idle", "touch", "rewind", "recover", "read", "pending",
                           "enqueue", "upsert", "mark_idle", "emit", "watermark",
                           "advance", "complete", "index"}]
    /\ todo \in [Parties -> SUBSET (1 .. n)]
    /\ high \in [Parties -> 0 .. n]
    /\ turn \in 0 .. n
    /\ failed \subseteq 1 .. n /\ Cardinality(failed) <= MaxFailures
    /\ crashes \in 0 .. MaxCrashes
    /\ rewinds \in 0 .. MaxRewinds /\ starts \in 0 .. MaxStarts

\* No crash and no race loses a captured turn: it is recorded as extracted, or
\* a job for it is live, unless its own handler raised (I7, I12).
NoTurnLost == 1 .. n \subseteq extracted \cup jobs \cup failed

\* Every captured turn is extracted or skipped in the end (I13), wherever the
\* process died, unless its own extraction raised.
TurnsExtracted == \A k \in Turns : []<>(k <= n => k \in extracted \cup failed)

\* A session that goes quiet is ended or reaped, whoever died or raced (I13).
SessionFinalized == []<>(status \in Live => quiet = "fresh")

\* A finished session with turns gets its summary row, also when it was ended
\* before its first turn arrived or its row was never written (issue #6).
SessionIndexed == []<>(status \in Done /\ n > 0 => index # None)

\* Both: a quiet session is closed, and what is closed is summarised.
SessionSettles == SessionFinalized /\ SessionIndexed

\* What finalize_session says of itself (capture.py:284): it enqueues a final
\* extraction of every unprocessed turn, one whose first try failed included.
FinalExtraction ==
    [][ \A t \in Parties : FinalizePending(t) =>
           \A k \in 1 .. n : k \in extracted \cup jobs \cup todo'[t] ]_vars

\* What startup_recovery says of itself (capture.py:339): a crash leaves no
\* captured turn whose session it does not find.
SessionKnown == at["host"] = "idle" /\ n > 0 => status # NoRow

\* What switch_scope says of itself (core.py:305): only turns after the rewind
\* point are refused promotion.
OnlyAbandonedSkipped == skipped \cap kept = {}

\* I16 (curation.py:384): once the rewind is on record, no extraction begins of
\* a turn it abandoned.
AbandonedNotPromoted ==
    [][ ExtractStart /\ at["host"] # "rewind" => turn' \in kept ]_vars
=============================================================================
