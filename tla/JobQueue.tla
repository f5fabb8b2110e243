------------------------------ MODULE JobQueue ------------------------------
(***************************************************************************)
(* The durable curation queue: the table curation_jobs of engine/store.py, *)
(* the store operations that write it, and the workers of                  *)
(* engine/curation.py that claim its rows and run them.                    *)
(*                                                                         *)
(* A thread of a process writes the table inside MemoryStore.transaction,  *)
(* which holds the process's re-entrant write lock.  SQLite's own write    *)
(* transaction begins only at the first INSERT, UPDATE or DELETE, so an    *)
(* operation that reads before it writes is two steps here, <Op>Probe and  *)
(* <Op>Commit: the threads of one process are kept out in between by the   *)
(* lock, the threads of another process are not.                           *)
(*                                                                         *)
(* Time is abstract.  A row waits for one instant, which depends on its    *)
(* status, and "due" says that the instant has come: for a pending row its *)
(* run_after, for a running row the end of the drain's lease, for a        *)
(* terminal row the age at which retention may delete it.                  *)
(*                                                                         *)
(* An operator X_variant just before X is not part of the model: it is a   *)
(* plausible defect of the code behind X, and PROJECT.json names the       *)
(* property that catches it.                                               *)
(***************************************************************************)
EXTENDS Naturals, FiniteSets

CONSTANTS
    Procs,         \* processes with the store open: gateway, dashboard, cron
    Threads,       \* the threads that use the store
    ProcOf,        \* the process of each thread
    Workers,       \* the threads that drain the queue
    SlowThreads,   \* threads whose job may outlast the drain's lease
    Works,         \* units of work: a task and its canonical payload
    NoWork,        \* the work of no row
    EmbedWorks,    \* the works enqueue_embed_job queues
    DepWorks,      \* the works that may be queued behind another row
    Filters,       \* the sets of works a claim may be restricted to
    MaxId,         \* bound: how many rows are ever inserted
    LeaseCap,      \* attempts after which an expired lease fails the row
    DeferCap,      \* attempts after which a bounded deferral fails the row
    ReclaimLimit,  \* rows one lease sweep may touch
    MaxTerminal,   \* terminal rows retention lets stand whatever their age
    MaxCrashes     \* bound: how many process crashes are explored

ASSUME ConstantsAssumption ==
    /\ ProcOf \in [Threads -> Procs]
    /\ Workers \subseteq Threads /\ SlowThreads \subseteq Workers
    /\ EmbedWorks \subseteq Works /\ DepWorks \subseteq Works \ EmbedWorks
    /\ NoWork \notin Works
    /\ Filters \subseteq SUBSET Works
    /\ {MaxId, ReclaimLimit, MaxTerminal, MaxCrashes} \subseteq Nat
    /\ {LeaseCap, DeferCap} \subseteq Nat \ {0}

VARIABLES
    jobs,     \* the table: one record per id, NoRow where there is none
    nextId,   \* sqlite_sequence: AUTOINCREMENT never reuses an id
    txn,      \* per thread, what its open transaction has read
    held,     \* per thread, the id of the row whose handler it runs, or 0
    tries,    \* per thread, the attempts of that row as read by the claim
    owed,     \* history: per work, whether a request waits for a handler
    crashes   \* history: number of crashes so far

vars == <<jobs, nextId, txn, held, tries, owed, crashes>>

Ids == 1 .. MaxId
Status == {"absent", "pending", "running", "done", "failed"}

\* Attempts are only compared with the two caps: they saturate at the larger.
AttemptBound == IF LeaseCap > DeferCap THEN LeaseCap ELSE DeferCap
OneMore(n) == IF n < AttemptBound THEN n + 1 ELSE AttemptBound

Row == [status : Status, work : Works \cup {NoWork}, dep : 0 .. MaxId,
        attempts : 0 .. AttemptBound, due : BOOLEAN]
NoRow == [status |-> "absent", work |-> NoWork, dep |-> 0,
          attempts |-> 0, due |-> FALSE]
FreshRow(w, d) == [status |-> "pending", work |-> w, dep |-> d,
                   attempts |-> 0, due |-> TRUE]

Txn == [op : {"none", "enqueue", "claim", "reclaim"}, work : Works \cup {NoWork},
        row : 0 .. MaxId, dep : 0 .. MaxId, tries : 0 .. AttemptBound,
        rows : SUBSET Ids, burnt : SUBSET Ids]
NoTxn == [op |-> "none", work |-> NoWork, row |-> 0, dep |-> 0, tries |-> 0,
          rows |-> {}, burnt |-> {}]

\* A work is owed nothing, owed a run by a request that found or left a pending
\* row, or owed one by a request that collapsed onto a row already running.
Owed == {"no", "yes", "behind"}

TypeOK ==
    /\ jobs \in [Ids -> Row]
    /\ nextId \in 1 .. MaxId + 1
    /\ txn \in [Threads -> Txn]
    /\ held \in [Threads -> 0 .. MaxId]
    /\ tries \in [Threads -> 0 .. AttemptBound]
    /\ owed \in [Works -> Owed]
    /\ crashes \in 0 .. MaxCrashes

Init ==
    /\ jobs = [i \in Ids |-> NoRow]
    /\ nextId = 1
    /\ txn = [t \in Threads |-> NoTxn]
    /\ held = [t \in Threads |-> 0]
    /\ tries = [t \in Threads |-> 0]
    /\ owed = [w \in Works |-> "no"]
    /\ crashes = 0

-----------------------------------------------------------------------------
(* The table *)

Live(i) == jobs[i].status \in {"pending", "running"}
Terminal(i) == jobs[i].status \in {"done", "failed"}
HeldBy(i) == {t \in Threads : held[t] = i}

\* The rows with this (task, payload) that a new request collapses onto.
Twins_AnyStatus(w) == {i \in Ids : jobs[i].work = w}
Twins(w) == {i \in Ids : Live(i) /\ jobs[i].work = w}

\* The finished embed jobs that a new request for the same work re-arms.
Finished(w) == {i \in Ids : Terminal(i) /\ jobs[i].work = w}
Rearmable(w) == IF w \in EmbedWorks /\ Finished(w) # {} THEN Finished(w) ELSE {0}

\* ORDER BY id LIMIT n
Lowest(S, n) == {i \in S : Cardinality({j \in S : j < i}) < n}

Ready_UnderCap(i) ==
    /\ jobs[i].status = "pending" /\ jobs[i].due /\ jobs[i].attempts < LeaseCap
    /\ jobs[i].dep # 0 => jobs[jobs[i].dep].status = "done"
Ready(i) ==
    /\ jobs[i].status = "pending" /\ jobs[i].due
    /\ jobs[i].dep # 0 => jobs[jobs[i].dep].status = "done"

\* An UPDATE by id writes nothing when the row was deleted meanwhile.
Moved(i, s) ==
    [jobs EXCEPT ![i] = IF @.status = "absent" THEN @
                        ELSE [@ EXCEPT !.status = s, !.due = FALSE]]

\* transaction() has the process's write lock: no sibling thread is inside one.
CanBegin(t) ==
    /\ txn[t].op = "none"
    /\ \A u \in Threads \ {t} : ProcOf[u] = ProcOf[t] => txn[u].op = "none"

Requested(w) == owed' = [owed EXCEPT ![w] = "yes"]

-----------------------------------------------------------------------------
(* enqueue_curation and enqueue_embed_job *)

\* The probe finds an identical pending or running job: nothing is written.
EnqueueCollapsed(t, w) ==
    /\ CanBegin(t)
    /\ \E i \in Twins(w) :
          owed' = [owed EXCEPT ![w] = IF jobs[i].status = "running" /\ @ # "yes"
                                      THEN "behind" ELSE "yes"]
    /\ UNCHANGED <<jobs, nextId, txn, held, tries, crashes>>

\* Bound: no more than MaxId rows are ever inserted.
Inserting == {t \in Threads : txn[t].op = "enqueue" /\ txn[t].row = 0}
RoomToInsert == nextId + Cardinality(Inserting) \in Ids

\* The probe finds none.  An embed job also looks for a finished row to re-arm.
\* The caller names as parent a row that an earlier enqueue returned.
EnqueueProbe(t, w, d) ==
    /\ CanBegin(t)
    /\ Twins(w) = {}
    /\ d # 0 => w \in DepWorks /\ d < nextId
    /\ \E r \in Rearmable(w) :
          /\ r = 0 => RoomToInsert
          /\ txn' = [txn EXCEPT ![t] =
                        [NoTxn EXCEPT !.op = "enqueue", !.work = w, !.dep = d, !.row = r]]
    /\ UNCHANGED <<jobs, nextId, held, tries, owed, crashes>>

Ends(t) == txn' = [txn EXCEPT ![t] = NoTxn]

Rearmed(r) == [r EXCEPT !.status = "pending", !.attempts = 0, !.due = TRUE]

\* The UPDATE that re-arms writes nothing when the row was pruned meanwhile.
EnqueueRearm(t) ==
    LET q == txn[t] IN
    /\ q.op = "enqueue" /\ q.row # 0
    /\ jobs' = [jobs EXCEPT ![q.row] =
                   IF @.status = "absent" THEN @ ELSE Rearmed(@)]
    /\ Requested(q.work)
    /\ Ends(t)
    /\ UNCHANGED <<nextId, held, tries, crashes>>

EnqueueInsert_Unkeyed(t) ==
    LET q == txn[t] IN
    /\ q.op = "enqueue" /\ q.row = 0 /\ nextId \in Ids
    /\ jobs' = [jobs EXCEPT ![nextId] = FreshRow(q.work, q.dep)]
    /\ nextId' = nextId + 1
    /\ Requested(q.work)
    /\ Ends(t)
    /\ UNCHANGED <<held, tries, crashes>>

EnqueueInsert(t) ==
    LET q == txn[t] IN
    /\ q.op = "enqueue" /\ q.row = 0 /\ nextId \in Ids
    /\ q.dep # 0 => jobs[q.dep].status # "absent"
    /\ jobs' = [jobs EXCEPT ![nextId] = FreshRow(q.work, q.dep)]
    /\ nextId' = nextId + 1
    /\ Requested(q.work)
    /\ Ends(t)
    /\ UNCHANGED <<held, tries, crashes>>

\* The parent was pruned since the probe: the INSERT breaks the foreign key and
\* the caller gets the error.
EnqueueRefused(t) ==
    LET q == txn[t] IN
    /\ q.op = "enqueue" /\ q.row = 0
    /\ q.dep # 0 /\ jobs[q.dep].status = "absent"
    /\ Ends(t)
    /\ UNCHANGED <<jobs, nextId, held, tries, owed, crashes>>

\* The reducer's enqueue of an extract job, inside the transaction that
\* append_event has already written in: SQLite admits no other writer.
EnqueueInAppend(t, w) ==
    /\ CanBegin(t)
    /\ w \notin EmbedWorks
    /\ Twins(w) = {}
    /\ RoomToInsert /\ nextId \in Ids
    /\ jobs' = [jobs EXCEPT ![nextId] = FreshRow(w, 0)]
    /\ nextId' = nextId + 1
    /\ Requested(w)
    /\ UNCHANGED <<txn, held, tries, crashes>>

-----------------------------------------------------------------------------
(* run_once: claim a row, run its handler, settle the row *)

ClaimRow(t, i, tasks) ==
    /\ t \in Workers /\ held[t] = 0
    /\ CanBegin(t)
    /\ Ready(i) /\ jobs[i].work \in tasks
    /\ \A j \in Ids : Ready(j) /\ jobs[j].work \in tasks => i <= j
    /\ txn' = [txn EXCEPT ![t] = [NoTxn EXCEPT !.op = "claim", !.row = i,
                                               !.work = jobs[i].work,
                                               !.tries = jobs[i].attempts]]
    /\ UNCHANGED <<jobs, nextId, held, tries, owed, crashes>>

ClaimProbe(t) == \E i \in Ids, tasks \in Filters : ClaimRow(t, i, tasks)

Claimed(r) == [r EXCEPT !.status = "running", !.due = FALSE,
                        !.attempts = OneMore(r.attempts)]

\* The UPDATE names the row only by id; the handler then starts on what the
\* SELECT returned, so it sees every request made up to now.
ClaimCommit(t) ==
    LET q == txn[t] IN
    /\ q.op = "claim"
    /\ jobs' = [jobs EXCEPT ![q.row] =
                   IF @.status = "absent" THEN @ ELSE Claimed(@)]
    /\ held' = [held EXCEPT ![t] = q.row]
    /\ tries' = [tries EXCEPT ![t] = q.tries]
    /\ owed' = [owed EXCEPT ![q.work] = "no"]
    /\ Ends(t)
    /\ UNCHANGED <<nextId, crashes>>

\* The thread settles the row it holds: whatever became of the row meanwhile,
\* the UPDATE is by id alone.
Settle(t, s) ==
    /\ held[t] # 0
    /\ CanBegin(t)
    /\ jobs' = Moved(held[t], s)
    /\ held' = [held EXCEPT ![t] = 0]
    /\ tries' = [tries EXCEPT ![t] = 0]
    /\ UNCHANGED <<nextId, txn, owed, crashes>>

Succeed(t) == Settle(t, "done")
Fail(t) == Settle(t, "failed")

\* JobDeferred: back to pending with a run_after, unless the deferral is bounded
\* and the attempt count that the claim read says this was the last try.
GivesUp(t, bounded) == bounded /\ tries[t] + 1 >= DeferCap
Defer(t, bounded) == Settle(t, IF GivesUp(t, bounded) THEN "failed" ELSE "pending")

-----------------------------------------------------------------------------
(* reclaim_stale_jobs and prune_curation_jobs *)

\* A drain that begins reclaims by the built-in lease; the health job by the
\* configured one, which is set above the slowest real job, so that only a dead
\* worker outlasts it.
Stale_AnyStatus(lease) == {i \in Ids : Live(i) /\ jobs[i].due}
Stale(lease) ==
    {i \in Ids : /\ jobs[i].status = "running" /\ jobs[i].due
                 /\ lease = "configured" => HeldBy(i) = {}}

ReclaimProbe(t, lease) ==
    /\ t \in Workers /\ CanBegin(t)
    /\ lease = "builtin" => held[t] = 0
    /\ Stale(lease) # {}
    /\ LET batch == Lowest(Stale(lease), ReclaimLimit) IN
          txn' = [txn EXCEPT ![t] =
                    [NoTxn EXCEPT !.op = "reclaim", !.rows = batch,
                        !.burnt = {i \in batch : jobs[i].attempts >= LeaseCap}]]
    /\ UNCHANGED <<jobs, nextId, held, tries, owed, crashes>>

ReclaimCommit(t) ==
    LET q == txn[t] IN
    /\ q.op = "reclaim"
    /\ jobs' = [i \in Ids |->
                  IF i \notin q.rows \/ jobs[i].status = "absent" THEN jobs[i]
                  ELSE IF i \in q.burnt
                       THEN [jobs[i] EXCEPT !.status = "failed", !.due = FALSE]
                       ELSE [jobs[i] EXCEPT !.status = "pending", !.due = TRUE]]
    /\ Ends(t)
    /\ UNCHANGED <<nextId, held, tries, owed, crashes>>

\* The health job deletes terminal rows no surviving row points at, first by age,
\* then by count.
Unreferenced_ByLive(i, table) == \A j \in table : Live(j) => jobs[j].dep # i
Unreferenced(i, table) == \A j \in table : jobs[j].dep # i
Aged == {i \in Ids : Terminal(i) /\ jobs[i].due /\ Unreferenced(i, Ids)}
OverCap(table) ==
    LET kept == {i \in table : Terminal(i)}
        excess == Cardinality(kept) - MaxTerminal
    IN IF Cardinality(kept) <= MaxTerminal THEN {}
       ELSE Lowest({i \in kept : Unreferenced(i, table)}, excess)

Prune(t) ==
    /\ t \in Workers /\ CanBegin(t)
    /\ LET gone == Aged \cup OverCap(Ids \ Aged) IN
          /\ gone # {}
          /\ jobs' = [i \in Ids |-> IF i \in gone THEN NoRow ELSE jobs[i]]
    /\ UNCHANGED <<nextId, txn, held, tries, owed, crashes>>

-----------------------------------------------------------------------------
(* The environment *)

\* The instant the row waits for comes.  A live worker settles its row before
\* the drain's lease ends, unless it is one of the slow ones.
TimePasses(i) ==
    /\ jobs[i].status # "absent" /\ ~jobs[i].due
    /\ jobs[i].status = "running" => HeldBy(i) \subseteq SlowThreads
    /\ jobs' = [jobs EXCEPT ![i].due = TRUE]
    /\ UNCHANGED <<nextId, txn, held, tries, owed, crashes>>

\* A killed process rolls back what it had not committed, and its rows stay
\* running.  It may start again at once.
Crash(p) ==
    LET mine == {t \in Threads : ProcOf[t] = p} IN
    /\ crashes < MaxCrashes
    /\ crashes' = crashes + 1
    /\ txn' = [t \in Threads |-> IF t \in mine THEN NoTxn ELSE txn[t]]
    /\ held' = [t \in Threads |-> IF t \in mine THEN 0 ELSE held[t]]
    /\ tries' = [t \in Threads |-> IF t \in mine THEN 0 ELSE tries[t]]
    /\ UNCHANGED <<jobs, nextId, owed>>

-----------------------------------------------------------------------------

Enqueue(t) ==
    \/ \E w \in Works : EnqueueCollapsed(t, w)
    \/ \E w \in Works, d \in 0 .. MaxId : EnqueueProbe(t, w, d)
    \/ EnqueueRearm(t)
    \/ EnqueueInsert(t)
    \/ EnqueueRefused(t)
    \/ \E w \in Works : EnqueueInAppend(t, w)

Run(t) ==
    \/ ClaimProbe(t)
    \/ ClaimCommit(t)
    \/ Succeed(t)
    \/ Fail(t)
    \/ \E bounded \in BOOLEAN : Defer(t, bounded)

Repair(t) ==
    \/ \E lease \in {"builtin", "configured"} : ReclaimProbe(t, lease)
    \/ ReclaimCommit(t)
    \/ Prune(t)

Next ==
    \/ \E t \in Threads : Enqueue(t) \/ Run(t) \/ Repair(t)
    \/ \E i \in Ids : TimePasses(i)
    \/ \E p \in Procs : Crash(p)

Spec == Init /\ [][Next]_vars

\* What the host's hooks and the scheduler of the machine give: time passes, a
\* transaction that began ends, a handler returns, every process keeps draining
\* and every drain keeps reclaiming.  A drain goes on to the next ready row at
\* once, while a deferral hides a row for at least thirty seconds, so no ready
\* row is passed over for ever: strong fairness for each row.
Fairness ==
    /\ \A i \in Ids : WF_vars(TimePasses(i))
    /\ \A t \in Threads : /\ WF_vars(EnqueueRearm(t) \/ EnqueueInsert(t) \/ EnqueueRefused(t))
                          /\ WF_vars(ClaimCommit(t))
                          /\ WF_vars(ReclaimCommit(t))
                          /\ SF_vars(Succeed(t) \/ Fail(t) \/ \E b \in BOOLEAN : Defer(t, b))
    /\ \A i \in Ids : SF_vars(\E t \in Threads, tasks \in Filters : ClaimRow(t, i, tasks))
    /\ SF_vars(\E t \in Workers : ReclaimProbe(t, "builtin"))

FairSpec == Spec /\ Fairness

-----------------------------------------------------------------------------
(* Properties *)

\* A request that returned without an error is not lost: until a handler has
\* started on its work, a pending row stands for it (store.py, enqueue_curation
\* and enqueue_embed_job: dedupe, re-arm, reclaim and prune must all keep it).
RequestKept ==
    \A w \in Works :
        owed[w] = "yes" => \E i \in Ids : jobs[i].status = "pending" /\ jobs[i].work = w

\* The dedupe probe keeps at most one pending or running row per task and
\* payload, across inserts, re-arms, deferrals and reclaims.
OneLiveRowPerWork ==
    \A i, j \in Ids : Live(i) /\ Live(j) /\ jobs[i].work = jobs[j].work => i = j

\* A claim is exclusive: the row a handler runs is marked running and no other
\* thread runs it, however leases end and workers die.
ExclusiveRun ==
    \A t \in Threads : held[t] # 0 =>
        /\ jobs[held[t]].status = "running"
        /\ \A u \in Threads : held[u] = held[t] => u = t

\* The row a live row waits for is in the table: retention or a crash never
\* makes a dependent unclaimable (prune_curation_jobs, the dependency guard).
DepsResolve ==
    \A i \in Ids : jobs[i].dep # 0 => jobs[jobs[i].dep].status # "absent"

\* Why they hold when all threads share one process, none of them slow: the write
\* lock lets one transaction be open at a time, so that what it has read is still
\* true, and no lease ends under a live worker.
OneWriter ==
    \A t, u \in Threads : txn[t].op # "none" /\ txn[u].op # "none" => t = u
EnqueueSnapshot ==
    \A t \in Threads : txn[t].op = "enqueue" =>
        /\ txn[t].work \in Works
        /\ \A i \in Ids : Live(i) => jobs[i].work # txn[t].work
        /\ txn[t].row # 0 => Terminal(txn[t].row) /\ jobs[txn[t].row].work = txn[t].work
        /\ txn[t].row # 0 => txn[t].work \in EmbedWorks
ClaimSnapshot ==
    \A t \in Threads : txn[t].op = "claim" =>
        /\ txn[t].row \in Ids /\ held[t] = 0
        /\ jobs[txn[t].row].status = "pending"
        /\ jobs[txn[t].row].work = txn[t].work
ReclaimSnapshot ==
    \A t \in Threads : txn[t].op = "reclaim" =>
        \A i \in txn[t].rows :
            jobs[i].status = "running" /\ \A u \in Threads : held[u] # i
LeaseHolds ==
    \A i \in Ids : jobs[i].status = "running" /\ jobs[i].due =>
        \A t \in Threads : held[t] # i
FreeIds == \A i \in Ids : i >= nextId => jobs[i].status = "absent"

QueueInv ==
    /\ TypeOK
    /\ OneWriter
    /\ EnqueueSnapshot /\ ClaimSnapshot /\ ReclaimSnapshot
    /\ LeaseHolds /\ FreeIds
    /\ ExclusiveRun
    /\ OneLiveRowPerWork
    /\ RequestKept

\* Every request is still in sight: a work a request was made for, and no
\* handler has started on since, has a pending or running row
\* (enqueue_curation's comment: the surviving job sees what the collapsed would).
RequestSeen == \A w \in Works : owed[w] # "no" => Twins(w) # {}

\* A settled row stays settled until a new request re-arms it; only embed rows
\* are re-armed.  A late worker or a lease sweep never brings a row back.
SettledStays ==
    [][\A i \in Ids :
          /\ Terminal(i)
          /\ jobs'[i].status \in {"pending", "running"}
          => /\ jobs[i].work \in EmbedWorks
             /\ jobs'[i].status = "pending" /\ jobs'[i].attempts = 0]_vars

\* A live row is never deleted, and what it stands for never changes, whatever
\* the processes do to the table at the same time.
LiveRowsKept ==
    [][\A i \in Ids :
          Live(i) => /\ jobs'[i].status # "absent"
                     /\ jobs'[i].work = jobs[i].work]_vars

\* The queue implements its promise, with a work waiting while it has a pending
\* row and running while it has a running one.
Promise == INSTANCE WorkLifecycle
    WITH waiting <- {jobs[i].work : i \in {j \in Ids : jobs[j].status = "pending"}},
         running <- {jobs[i].work : i \in {j \in Ids : jobs[j].status = "running"}}
KeepsPromise == Promise!Spec

\* Every request is served: a worker claims the row that stands for it, or an
\* expired lease has spent the attempts of the row.
RequestServed == \A w \in Works : owed[w] = "yes" ~> owed[w] # "yes"

\* A row whose worker died does not stay running (reclaim_stale_jobs).
Abandoned(i) == jobs[i].status = "running" /\ HeldBy(i) = {}
AbandonedRecovered == \A i \in Ids : Abandoned(i) ~> ~Abandoned(i)
=============================================================================
