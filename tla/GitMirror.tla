------------------------------ MODULE GitMirror ------------------------------
(***************************************************************************)
(* The event log and its mirror on disk: append_event and the git_queue of *)
(* engine/store.py, and GitMirror of engine/gitmirror.py, which writes the *)
(* queued events to one JSONL file per batch and day, commits the files    *)
(* and marks the rows.  When the SQLite file is lost, an operator replays  *)
(* the files into a fresh store.                                           *)
(*                                                                         *)
(* An event is a number: its id, by which append_event recognises it, and  *)
(* the order of the ids' hashes, which the file names end in.  The stamp   *)
(* of an event is the minute of its recorded_at.  A line of a file is an   *)
(* event, or Torn when a crash cut it off, or Bad when a later append ran  *)
(* on from the torn end.  Payloads, encryption and the push, which copies  *)
(* HEAD to a place nothing here reads, are left out.                       *)
(*                                                                         *)
(* An operator X_variant before X is not part of the model: it is a        *)
(* plausible defect of the code behind X, caught by a property.            *)
(***************************************************************************)
EXTENDS Integers, SequencesExt

CONSTANTS
    Procs,       \* the processes that append and flush
    MaxEvents,   \* bound: events ever captured
    MaxMinute,   \* bound: minutes that pass
    DayLength,   \* minutes per day
    BatchRows,   \* git.max_commit_rows
    MaxBatches,  \* git.max_flush_batches
    Tearing,     \* whether a crash may cut a line in the middle
    MaxCrashes,  \* bound: processes that die
    MaxLosses    \* bound: times the SQLite file is lost

EventIds == 1 .. MaxEvents
Minutes == 0 .. MaxMinute
Names == Minutes \X EventIds
Torn == 0
Bad == -1

VARIABLES
    log,      \* the events table in the order of seq
    minute,   \* per event: the minute of recorded_at
    queue,    \* git_queue: rows in the order of their ids
    files,    \* per file name: its lines
    head,     \* per file name: how many of its lines git has committed
    flush,    \* per process: its call of GitMirror.flush
    clock,    \* the present minute
    phase,    \* "up", or "lost" until the replay is complete
    before,   \* history: at the last loss, the events a flush had marked, by seq
    crashes, losses  \* bound counters

database == <<log, minute, queue>>
mirror == <<files, head>>
bounds == <<crashes, losses>>
vars == <<database, mirror, flush, clock, phase, before, bounds>>

\* Where the call is; the row ids of the batch it read and, of those, the ones
\* not written yet; the files written for the batch; the batches so far; and
\* whether this call may still run git.
Flush == [at : {"idle", "more", "write", "git", "mark"}, rows : SUBSET (1 .. MaxEvents),
          todo : SUBSET (1 .. MaxEvents), wrote : SUBSET Names,
          batches : 0 .. MaxBatches, usable : BOOLEAN]
Idle == [at |-> "idle", rows |-> {}, todo |-> {}, wrote |-> {},
         batches |-> 0, usable |-> TRUE]

Init ==
    /\ log = <<>> /\ queue = <<>>
    /\ minute = [e \in EventIds |-> 0]
    /\ files = [f \in Names |-> <<>>]
    /\ head = [f \in Names |-> 0]
    /\ flush = [p \in Procs |-> Idle]
    /\ clock = 0 /\ phase = "up"
    /\ before = <<>>
    /\ crashes = 0 /\ losses = 0

-----------------------------------------------------------------------------
(* append_event *)

\* The event, its seq and its queue row in one transaction.  An id that is there
\* already changes nothing, whether the probe finds it or the primary key does.
\* recorded_at was read before, possibly in the minute before.
AppendEvent(e) ==
    /\ phase = "up"
    /\ e \notin Range(log)
    /\ log' = Append(log, e)
    /\ queue' = Append(queue, [event |-> e, mark |-> "pending"])
    /\ \E m \in Minutes \cap {clock - 1, clock} : minute' = [minute EXCEPT ![e] = m]
    /\ UNCHANGED <<mirror, flush, clock, phase, before, bounds>>

-----------------------------------------------------------------------------
(* GitMirror.flush *)

DayOf(m) == m \div DayLength
EventOf(g) == queue[g].event
Earliest(S) == CHOOSE g \in S : \A h \in S : g <= h
Rank(S, g) == Cardinality({h \in S : h < g})
Lowest(S, n) == {g \in S : Rank(S, g) < n}

\* The items at some positions, in their order.
At(items, ixs) ==
    [j \in 1 .. Cardinality(ixs) |-> items[CHOOSE i \in ixs : Rank(ixs, i) = j - 1]]

\* get_unflushed_git_events
Pending_Today ==
    {g \in DOMAIN queue : queue[g].mark = "pending" /\ DayOf(minute[EventOf(g)]) = DayOf(clock)}
Pending == {g \in DOMAIN queue : queue[g].mark = "pending"}

FlushRead(p) ==
    /\ phase = "up"
    /\ flush[p].at \in {"idle", "more"}
    /\ Pending # {}
    /\ LET batch == Lowest(Pending, BatchRows) IN
       flush' = [flush EXCEPT ![p] =
                    [flush[p] EXCEPT !.at = "write", !.rows = batch, !.todo = batch,
                                     !.wrote = {}, !.batches = flush[p].batches + 1]]
    /\ UNCHANGED <<database, mirror, clock, phase, before, bounds>>

FlushEnd(p) ==
    /\ flush[p].at = "more"
    /\ Pending = {}
    /\ flush' = [flush EXCEPT ![p] = Idle]
    /\ UNCHANGED <<database, mirror, clock, phase, before, bounds>>

\* _write_batch: the rows of one day go to one file, named after the minute and
\* the id of the first of them, which is opened for appending.
First(p) == EventOf(Earliest(flush[p].todo))
Group(p) ==
    {g \in flush[p].todo : DayOf(minute[EventOf(g)]) = DayOf(minute[First(p)])}
FileOf(p) == <<minute[First(p)], First(p)>>
Lines(p) == LET rows == At(queue, Group(p)) IN [j \in DOMAIN rows |-> rows[j].event]

\* What follows a torn end is one unreadable line with it.
Extend(lines, more) ==
    IF lines # <<>> /\ more # <<>> /\ Last(lines) = Torn
    THEN Front(lines) \o <<Bad>> \o Tail(more)
    ELSE lines \o more

FlushWrite(p) ==
    /\ flush[p].at = "write"
    /\ files' = [files EXCEPT ![FileOf(p)] = Extend(@, Lines(p))]
    /\ flush' = [flush EXCEPT ![p] =
                    [flush[p] EXCEPT !.at = IF flush[p].todo = Group(p) THEN "git" ELSE "write",
                                     !.wrote = flush[p].wrote \cup {FileOf(p)},
                                     !.todo = flush[p].todo \ Group(p)]]
    /\ UNCHANGED <<database, head, clock, phase, before, bounds>>

\* git add and git commit of the files written.  Git refuses a commit that
\* changes nothing, and may fail for reasons of its own.
Staged(p) == flush[p].wrote

Committed(p) ==
    /\ flush[p].at = "git" /\ flush[p].usable
    /\ \E f \in Staged(p) : head[f] # Len(files[f])
    /\ head' = [f \in Names |-> IF f \in Staged(p) THEN Len(files[f]) ELSE head[f]]
    /\ flush' = [flush EXCEPT ![p].at = "mark"]
    /\ UNCHANGED <<database, files, clock, phase, before, bounds>>

Uncommitted(p) ==
    /\ flush[p].at = "git"
    /\ flush' = [flush EXCEPT ![p].at = "mark", ![p].usable = FALSE]
    /\ UNCHANGED <<database, mirror, clock, phase, before, bounds>>

\* mark_git_flushed, by the ids that were read.
Marked_AllPending(p, mark) ==
    [g \in DOMAIN queue |->
        IF g \in Pending THEN [queue[g] EXCEPT !.mark = mark] ELSE queue[g]]
Marked(p, mark) ==
    [g \in DOMAIN queue |->
        IF g \in flush[p].rows THEN [queue[g] EXCEPT !.mark = mark] ELSE queue[g]]

\* A short batch was the last; so is the one that reaches the limit.
GoesOn(p) == Cardinality(flush[p].rows) = BatchRows /\ flush[p].batches < MaxBatches

FlushMark(p) ==
    /\ flush[p].at = "mark"
    /\ queue' = Marked(p, IF flush[p].usable THEN "committed" ELSE "uncommitted")
    /\ flush' = [flush EXCEPT ![p] = IF GoesOn(p) THEN [flush[p] EXCEPT !.at = "more"] ELSE Idle]
    /\ UNCHANGED <<log, minute, mirror, clock, phase, before, bounds>>

FlushStep(p) ==
    \/ FlushRead(p)
    \/ FlushEnd(p)
    \/ FlushWrite(p)
    \/ Committed(p)
    \/ Uncommitted(p)
    \/ FlushMark(p)

-----------------------------------------------------------------------------
(* Crashes, the loss of the SQLite file, and replay_from_disk *)

\* What a process that dies in _write_batch leaves: the first k lines of the
\* file, and possibly a piece of the next one.
Remains(p) ==
    LET lines == Lines(p)
        whole == {SubSeq(lines, 1, k) : k \in 0 .. Len(lines)}
        cut == {Append(SubSeq(lines, 1, k), Torn) : k \in 0 .. Len(lines) - 1}
    IN whole \cup IF Tearing THEN cut ELSE {}

Crash(p) ==
    /\ flush[p].at # "idle"
    /\ crashes < MaxCrashes
    /\ crashes' = crashes + 1
    /\ IF flush[p].at = "write"
       THEN \E part \in Remains(p) : files' = [files EXCEPT ![FileOf(p)] = Extend(@, part)]
       ELSE UNCHANGED files
    /\ flush' = [flush EXCEPT ![p] = Idle]
    /\ UNCHANGED <<database, head, clock, phase, before, losses>>

Flushed == {queue[g].event : g \in {g \in DOMAIN queue : queue[g].mark # "pending"}}

InSomeFile(e) == \E f \in Names : e \in Range(files[f])

\* The SQLite file is gone, and with it every process that had it open.
DiskLoss ==
    /\ phase = "up" /\ losses < MaxLosses
    /\ losses' = losses + 1
    /\ phase' = "lost"
    /\ before' = At(log, {k \in DOMAIN log : log[k] \in Flushed})
    /\ log' = <<>> /\ queue' = <<>>
    /\ minute' = [e \in EventIds |-> IF InSomeFile(e) THEN minute[e] ELSE 0]
    /\ flush' = [p \in Procs |-> Idle]
    /\ UNCHANGED <<mirror, clock, crashes>>

\* Days and files in the order of their names, lines as they stand.
Ahead(f) == {g \in Names : g[1] < f[1] \/ (g[1] = f[1] /\ g[2] < f[2])}
NameAt(k) == CHOOSE f \in Names : Cardinality(Ahead(f)) = k - 1
AllLines == FlattenSeq([k \in 1 .. Cardinality(Names) |-> files[NameAt(k)]])

\* json.loads raises at the first line it cannot read, and the replay ends.
UpToUnreadable ==
    LET lines == AllLines
        unreadable == {k \in DOMAIN lines : lines[k] \notin EventIds}
    IN IF unreadable = {} THEN lines ELSE SubSeq(lines, 1, Earliest(unreadable) - 1)

\* append_event for each line: an id that is there already changes nothing.
IsNew(lines, k) ==
    /\ lines[k] \notin Range(log)
    /\ \A j \in 1 .. k - 1 : lines[j] # lines[k]
NewEvents(lines) == At(lines, {k \in DOMAIN lines : IsNew(lines, k)})

\* The operator's replay reads every line, or is stopped and run again.
ReplayLines(lines) ==
    /\ LET fresh == NewEvents(lines) IN
       /\ log' = log \o fresh
       /\ queue' = queue \o [k \in DOMAIN fresh |-> [event |-> fresh[k], mark |-> "pending"]]
    /\ UNCHANGED <<minute, mirror, flush, clock, before, bounds>>

Replay ==
    /\ phase = "lost"
    /\ phase' = "up"
    /\ ReplayLines(UpToUnreadable)

ReplayStopped ==
    /\ phase = "lost"
    /\ \E k \in DOMAIN UpToUnreadable : ReplayLines(SubSeq(UpToUnreadable, 1, k))
    /\ UNCHANGED phase

MinutePasses ==
    /\ clock < MaxMinute
    /\ clock' = clock + 1
    /\ UNCHANGED <<database, mirror, flush, phase, before, bounds>>

Next ==
    \/ \E e \in EventIds : AppendEvent(e)
    \/ \E p \in Procs : FlushStep(p) \/ Crash(p)
    \/ DiskLoss
    \/ Replay
    \/ ReplayStopped
    \/ MinutePasses

Spec == Init /\ [][Next]_vars

\* Processes come to their shutdown, which flushes, again and again; the operator
\* replays after a loss.
FairSpec ==
    /\ Spec
    /\ \A p \in Procs : WF_vars(FlushStep(p))
    /\ WF_vars(Replay)

-----------------------------------------------------------------------------
(* Properties *)

TypeOK ==
    /\ log \in Seq(EventIds) /\ Len(log) <= MaxEvents
    /\ minute \in [EventIds -> Minutes]
    /\ queue \in Seq([event : EventIds, mark : {"pending", "committed", "uncommitted"}])
    /\ files \in [Names -> Seq(EventIds \cup {Torn, Bad})]
    /\ \A f \in Names : head[f] \in 0 .. Len(files[f])
    /\ flush \in [Procs -> Flush]
    /\ \A p \in Procs : flush[p].rows \subseteq DOMAIN queue
    /\ clock \in Minutes /\ phase \in {"up", "lost"}
    /\ before \in Seq(EventIds)
    /\ crashes \in 0 .. MaxCrashes /\ losses \in 0 .. MaxLosses

\* Appends that race, batches written twice and replays run twice never put an
\* event into the log twice (I2).
LogOnce == \A i, j \in DOMAIN log : log[i] = log[j] => i = j

\* A row marked "committed" is in git: its line is in the committed part of a
\* file, whoever else was flushing and wherever a flush was cut short.
CommittedInHead ==
    \A g \in DOMAIN queue : queue[g].mark = "committed" =>
        \E f \in Names : \E k \in 1 .. head[f] : files[f][k] = EventOf(g)

\* What gitmirror.py:5 says of itself: after the SQLite file is lost and the
\* files are replayed, only events newer than the last flush are missing.
RecoveryComplete == phase = "up" => Range(before) \subseteq Range(log)

\* Every event in the log is mirrored in the end.
EventuallyMirrored ==
    \A e \in EventIds : []<>(phase = "up" /\ (e \in Range(log) => e \in Flushed))

\* The replayed log has the surviving events in the order they were captured in.
ReplayKeepsOrder ==
    phase = "up" =>
        \A i, j \in DOMAIN before : \A a, b \in DOMAIN log :
            i < j /\ log[a] = before[i] /\ log[b] = before[j] => a < b
=============================================================================
