# Chronicle in TLA+

This directory holds TLA+ models of Chronicle, the agent context and memory engine, the TLC
configurations that check them on small instances, and TLAPS proofs of properties that matter most
for every instance. Each module is translated from the Python source; `PROJECT.json` maps every
definition to the lines it stands for, every property to a defect of the code that it catches, and
every hazard of the code to the properties that watch it.

## 1. The system and its parts

Chronicle lives inside an agent host. The host calls provider hooks (`on_turn_start`, `observe`,
`on_session_end`, `switch_scope`, ...) on its own thread; each hook may also tick the maintenance
scheduler and drain a few background jobs, inline or in one background thread. Everything durable is
one SQLite file, which several processes (gateway, dashboard, cron) may have open at once. Inside a
process `MemoryStore.transaction` holds a re-entrant write lock; between processes only SQLite's own
locks help, and those begin at the first *write* statement of a transaction. Hence the questions
that run through all of the models: which reads are still true when the write that depends on them
happens, and what is left when a process dies between two statements.

| component | state | what is hard | modules |
|---|---|---|---|
| Curation job queue (`store.py`, `curation.py`) | `curation_jobs`; per worker the row it runs | read before write, leases, late answers, crashes | `WorkLifecycle`, `JobQueue` |
| Fair drain (`store.py`, `curation.py`) | a drain's budget, quotas, counts | rounding, work that appears during the drain | `FairDrain` |
| Resumable sweeps (`sweeps.py` and its callers) | cursor rows in `meta`; a run's page | the table changes under the cursor, runs die half way, two processes share a cursor | `Sweeps` |
| Session lifecycle (`capture.py`, `core.py`, `curation.py`, `provider.py`) | `sessions`, extract and summarize jobs, `extractions` | three threads between statements of one another, crashes anywhere | `Sessions` |
| Extraction pipeline (`extraction.py`, `curation.py`, `capture.py`, `speaker.py`) | items, `extractions`, digests; frames and labels of a text | a job dies between two items, re-extraction, text that looks like a label | `Extraction`, `Speakers` |
| Maintenance scheduler (`scheduler.py`) | `maintenance_runs`; per process marks and cursor | a budget that cuts the decision short, restarts, other processes | `Scheduler` |
| Event log and git mirror (`store.py`, `gitmirror.py`) | `events`, `git_queue`, day files, commits | crash between write, commit and mark, loss of the SQLite file | `GitMirror` |
| Projection, belief life cycle (`reducer.py`, `store.py`, `tools.py`) | beliefs, justifications, contradictions | support changes under the cascade, rebuild beside writers | `Beliefs` |
| Embedding backends (`embeddings.py`, `health.py`, `curation.py`) | the embedder's cooldown, vectors with their tags, embed jobs | an endpoint that goes and comes back, a switch of model, text that moves on meanwhile | `Vectors` |
| Vector caches (`vector_cache.py`) | in-memory rows and counters | counters read one by one beside writers | `VectorCache` |
| Store connections and migrations (`store.py`, `paths.py`, `migrate_paths.py`) | database file under two names, its journal, schema version | close and move beside other processes, half-done migrations | `StoreFiles`, `Migration` |
| Context engine (`context.py`) | settled prefix, folded turns, digest, warning latch | eviction before durability, restarts, estimates | `ContextEngine`, `WindowUpkeep` |
| Host-model piggyback (`hostmodel.py`, `provider.py`) | a bounded table of requests, one in flight | replies to an older prompt, crashes between resolve and apply | `HostModel` |
| Retrieval and ranking (`retrieval.py`) | a call's packed sections, the room left, echoes | lanes read at different moments while others write | `Recall`, `Precision`, `Answering` |
| Federation and pointers (`federation.py`, `localdb.py`, `passages.py`, `curation.py`) | pointers, watermark, schema cache | the other database changes at any time | `Federation`, `FederatedRead` |
| Operator scripts (`migrate_vectors.py`, `writeback_vectors.py`, `retract_misattributed.py`) | a copy, a cursor file; a survey | a live agent beside the script, kills and reruns | `WriteBack`, `Retraction` |
| Forgetting, derivation, health, access, tools, dashboard | see `PROJECT.json` | | parts of the modules above |
| Trust and learning, identity and entities, text utilities | see `PROJECT.json` | | none |

How they interact: `observe` appends an event; the append reduces it inline and, in the same
transaction, queues its extraction; the drain claims the job and appends what it extracts; session
end, the reaper and startup recovery queue what is left and a summary; the scheduler queues
maintenance jobs, several of which are sweeps; a sweep's handlers write beliefs and vectors or queue
more jobs; a question reads beliefs, vectors and turns, and may promote what it read or ask for more
extraction. The queue is the hub: its promise, the module `WorkLifecycle`, is what the session and
scheduler models assume of it.

## 2. The modules

| module | lines of code it models |
|---|---|
| `WorkLifecycle` | none: the abstract specification of what the queue promises |
| `JobQueue` | `store.py` 617-638, 2806-3216, `curation.py` 226-315 |
| `FairDrain` | `store.py` 311-424, `curation.py` 341-372 |
| `Sweeps` | `sweeps.py` 158-239, the `scan_*` and `count_*` queries |
| `Sessions` | `capture.py` 143-341, `core.py` 302-432, `curation.py` (extract and summarize), `provider.py` 182-533 |
| `Scheduler` | `scheduler.py` 165-526 |
| `GitMirror` | `gitmirror.py` 196-306, `store.py` 1264-1306, 3311-3324 |
| `Beliefs` | `reducer.py` 544-2015, `store.py`, `tools.py` 134-241, `derivation.py` 108-238, `health.py` 247-294 |
| `Vectors` | `embeddings.py` 231-1937, `curation.py` 768-1156, `health.py` 321-833, `reducer.py` 1459-1481 |
| `WriteBack` | `writeback_vectors.py` 246-1295, `migrate_vectors.py` 243-902 |
| `ContextEngine`, `WindowUpkeep` | `context.py` 101-2578 |
| `StoreFiles` | `migrate_paths.py` 138-523, `store.py` 448-682, `paths.py`, `core.py` |
| `Migration` | `store.py` 645-1146 |
| `Recall` | `retrieval.py` 852-5509 |
| `Precision` | `retrieval.py` 2074-3482 |
| `Answering` | `retrieval.py` 2343-2523, `curation.py` (extract), `forgetting.py` |
| `Extraction` | `curation.py` 297-315, 376-1048, `extraction.py` 433-519, `store.py` 2928-3000 |
| `Speakers` | `speaker.py` 75-510, `capture.py` 36-279 |
| `VectorCache` | `vector_cache.py` 80-657 |
| `Federation` | `curation.py` 860-1448, `federation.py` |
| `FederatedRead` | `localdb.py` 71-594, `passages.py` 131-449, `retrieval.py` 1811-4236 |
| `HostModel` | `hostmodel.py` 203-698, `provider.py` 254-353 |
| `Retraction` | `retract_misattributed.py` 119-381 |
| `SchedulerProofs`, `BeliefsProofs` | theorems about the module named |
| `JobQueueProofs` | theorems about `JobQueue` and `FairDrain` |
| `QueueParts`, `BackgroundParts`, `DiskParts`, `ConversationParts`, `ModelParts` | none: each puts components that share no state side by side and joins their properties; an `MC` and a `Proofs` module extend it |
| `TurnProofs` | theorems about `Sessions` |
| `BackgroundProofs` | theorems about `Sweeps`, `WriteBack`, `Federation` and `Extraction` |
| `ModelProofs` | theorems about `HostModel` and `Vectors` |
| `DiskProofs` | theorems about `StoreFiles`, `VectorCache`, `Migration` and `GitMirror` |
| `ConversationProofs` | theorems about `ContextEngine`, `Retraction`, `WindowUpkeep` and `Recall` |
| `MC*` | instances for TLC (section 3) |

**JobQueue.** A row is a record of status, work (task and canonical payload), parent, attempts and
one time bit: `due` says that the instant the row waits for has come, whichever column that is in
the row's present status. An operation that only writes is one action. One that reads and then
writes is two, `EnqueueProbe`/`EnqueueInsert`, `ClaimProbe`/`ClaimCommit`,
`ReclaimProbe`/`ReclaimCommit`: `CanBegin` is the process's write lock, which keeps sibling threads
out in between, and nothing keeps out another process. The reducer's enqueue inside an append
(`EnqueueInAppend`) is one action, since the append has already made SQLite lock out other
writers. Retention (`Prune`) and the settling updates name a row by id alone, and write nothing when
it is gone. A crash of a process drops its open transaction and leaves its rows running. The history
variable `owed` remembers, per work, a request that no handler has started on since, and whether that
request collapsed onto a row already running.

**FairDrain.** The initial state is any budget and any shares; `left` starts as `DrainQuotas`, the
translation of the largest-remainder split with its floor pass. The loop of `drain` is one action
per claim attempt: `Serve` or `Miss` in the first phase, `ServeRest` or `MissRest` in the second.
Whether a claim finds a job is chosen freely each time, which covers handlers that enqueue and other
workers that take. `dry` and `spent` remember the classes found empty.

**Sweeps.** A key stands for a rowid or a group value. The read of the cursor, the page query, the
count query, each handled key and the commit are steps; rows become eligible or cease to be at any
time; a run may be abandoned anywhere. `CommitFirst` selects the backfill sweep, whose store call
commits the cursor before the page is handled. `steady`, `seen` and `missed` are history: what was
eligible throughout the lap, what the lap handled, what a finished lap did not.

**Sessions.** One row of `sessions` and its turns, which are numbered by the log. `at` gives, per
thread, the statement it is about to execute: the host (hooks), the worker (drain and reaper), and a
second process that starts while this one runs. `finalize_session` is five steps that any of the
three may be in, each with the values it read before. `quiet` is how long ago the session was last
touched. `kept` (the turns the user's rewinds leave in place) and `failed` are history.

**Scheduler.** The clock is a cyclic day and a cron string is the set of its times that match. An
instant is known by its lag, the number of instants of the same entry since: the mark of an entry is
older than `prev_fire(now)` exactly when its lag is not 0. A hook call is four steps: `Decide` in
memory, `Confirm`, `Enqueue`, `Record`. The wall-clock budget is the nondeterministic `reach`.
`anchor` is the age of the store's first event, before which nothing is due.

**GitMirror.** An event is a number, which is its id and the rank of its id's hash in a file name;
its stamp is a minute. `AppendEvent` is one transaction, event and queue row together. A flush is
`FlushRead`, one `FlushWrite` per day in the batch, `Committed` or `Uncommitted`, `FlushMark`, and
`flush[p]` holds the call's local variables. `Crash` leaves a prefix of the lines that were being
written (and, with `Tearing`, half a line). `DiskLoss` deletes the tables and ends every process;
`Replay` and `ReplayStopped` read the files back in the order of their names. `before` is history:
what a flush had marked when the file was lost.

**Beliefs.** One action per appended event together with what the reducer does for it in the same
transaction: assertion with merge, conflict or supersession, correction, retraction with its cascade,
the two events of a withdrawn consent, derivation. A derivation reads its premises (`DeriveRead`) and
appends its conclusion (`DeriveAppend`) in two steps. Access lists, the contradiction sweep and
pruning write the tables beside the log, so the log alone does not restore them. `Rebuild` truncates
and replays in steps; `LiveRebuild` lets other threads append in between. A row has a place in its
table, and the handlers that look a row up take the first that fits (`FirstIn`), so the order of rows
is part of the state: a row pruned and written again comes back at the end, and `InLogOrder` says that
the rows still stand in the order of the events that made them. `After` is the fold of the
same reduction over the log, the reference that `ReplayAgrees` compares with. `Pruning` says whether
retracted rows are ever deleted.

**Vectors.** A text is the number of its version; a vector is the version it was made of and the tag
of the model. The embedder is three flags: what serves, whether it is in a cooldown, whether the
endpoint answers. A worker reads a row (`Resolve`), calls the endpoint, and writes, and the text may
have moved on in between; the summary of a session is read and written the same way. The id of a note
about a subject leaves its words out (`Restated`), so a digest told anew (`Restate`) writes other text
under the same id: the reducer replaces the vector when the embedder answers, and when it does not the
old one stays, under a tag that makes the queued embed job pass it over. `kept` is history: the rows of
which that is so. The heal requeues rows of another tag within a budget.

**WriteBack.** First the migration of a frozen copy (survey, re-embedding page by page), then the walk
back into the live store: one batch per transaction, its cursor and the record of the batch in flight
on disk. A row is its tag, the version embedded and whether all of the text was. The agent rewrites,
deletes and heals rows of the live store throughout; the tool is killed anywhere and run again.

**ContextEngine.** The window is a sequence of turns and notes. `Pass` is one `compress` call: the
prefix settled by the last pass, the protected ends, a choice of what else fits, the archive of all
other turns, the note that names them, in the order the code does these, so that a failure may come
between any two. Which turns score best is left open. A locked store makes a pass keep its turns; a
restart forgets the engine's memory, which is then read back from the notes; a rotation moves to a
child session. A cost is a number of turns.

**WindowUpkeep.** What happens between compactions and when the host resets the session (`Reset`):
`Trim` shortens old tool output or points to an earlier copy; `CheckPasses`, `CheckDeferred` and
`CheckCompacts` are the preflight with a rough estimate that may have to wait for the provider's
count; the digest of facts is capped; the warning is latched once per crossing. `Overhead` is the fixed
part of the prompt, which the host's count has in it and the engine's own sum of the window has not.

**StoreFiles.** The database has two possible names. A name is bound to an inode, a journal to a
name, a connection to the inode it opened. A start moves an old file to the new name in steps, opens,
and commits; SQLite's last close folds the journal into the file. A crash drops connections and
leaves the files as they are.

**Migration.** Every process that opens an old store climbs the same ladder (`Climb`): tasks renamed
or dropped, the job table rebuilt, columns added, the version stamped. Several openers may climb at
once and die on any rung, and a process of the earlier build may still queue and run jobs.

**Recall.** One `get_context` call goes lane by lane: probe, search, render, gather, fill, window,
pack, then the sections after them. Between two lanes another thread may write, retract or change
access. `could` is history: what the caller could have read at some moment since the call began.
Digest, history, walk, record and change reads are actions of their own. An item of the raw lane is a
turn or the summary of a session. What a session's block holds (`Excerpts`) depends on the route: capped
per session where breadth counts, in the order of the log where a time is asked for, since there each
excerpt starts with its date. The window then adds the turns of the session that are not told yet
(`Unheard`, `Added`); the code knows told ones by their text, which is a turn's own here, and by the
dated text it does not know them, so that a dated session counts as widened although nothing is added.

**Precision.** The candidates come in any order, with scores on a grid. The gate orders them by tie
buckets, looks at the head, measures its concentration on one session, and steps back when the
leader has a later value, which it reads in a second step.

**Answering.** A question searches, answers from beliefs if they are sure enough, or reads the turns
and promotes what it finds; a miss queues the turns that answered it. Unlearning, two events, comes
between any two steps.

**Extraction.** An extract job emits its items one by one, records itself, asks for a digest; a
digest job keeps one note up to date; a re-extraction job asks page by page for the turns that a newer
extractor has not read. The three tasks are one class of the drain, in which the oldest pending job is
claimed. A job whose process died (`Interrupt`) stays running, and the jobs behind it are claimed
meanwhile, until some drain finds its lease over (`Reclaim`); then it runs from its start. A fact's id is
its attribute and its turn. `late` is history: turns recorded when a later one had been recorded before
them; `unasked`: whether a process died between a record and the request for its digest.

**Speakers.** A message is a few lines, each with the frame and label it shows; a line inside a frame may
look like a label, too. The actions are the
three hosts' ways of saying something, the capture, the cutting into chunks with or without spans,
and the readers that credit a line to somebody.

**VectorCache.** A cache refresh reads the generation, the count, the top row id and the rows in
separate statements, and writers act in between. The two designs of the file are the two members of
`Designs`. `Beside` says whether rows may be deleted and written again between the two reads of an
append, the top of the copy and what lies above it, which is finding 3. `outlived` is history: the copy
was loaded before a rebuild emptied its table, which then hands out the same rowids once more.

**Federation.** A sweep reads the rows past its watermark and then a page of older rows. The pointer,
the vector and the event of a row are a transaction each, the watermark is written last. The owner of
the other database edits, inserts and deletes at any moment. `numbering` is how that database makes
row ids, which the sweep cannot know: each once (`serial`), one above the highest present (`rowid`, so
the id of a deleted row comes again), or in no order (`hash`).

**FederatedRead.** Reads of that database for a question: the schema is cached and may be stale, a
token search is bounded, folders of papers are offered as cards, a text is split and packed, units of
one file are collapsed. `Found`, `Split`, `Pack` and `Collapse` are pure operators.

**HostModel.** A bounded table of requests, shared by all providers of the store. The hook before a
model call is `PreLook`, `PreTake`, `PreMark`; the hook after a turn is `TurnLook`, `TurnResolve`,
then the writes of the reply one by one, then `TurnOffer`. Beliefs change words and processes die in
between.

**Retraction.** The clean-up script reads which events hold the user's words, then the
justifications, then one table after the other, and appends retractions owner by owner in batches,
waiting for the write lock; what it has left to do is a set. The agent goes on writing between any
two of these. `told` and `unsaid` are history: what the user had, or had not, said when the run
began.

An operator `X_variant` that stands before `X` is not part of the model. It is a plausible defect of
the code behind `X`; with it in place of `X` the property named in `PROJECT.json` fails.

## 3. The runs

Components that do not share state are checked side by side: a module `...Parts` extends one of them and
holds an instance of each other; in the `MC...` module above it a variable `part` picks in the initial
state which of them runs, and the others rest in one initial state. So nothing is multiplied: the states
of a run are the sum over its parts, and each part is checked exactly as it would be alone. A property
is guarded by its part where a resting component would not satisfy it, and fairness is asked of the
chosen part only. Several named properties of a component may be joined in one, whose definition lists
them.

Run one with `tlc -workers 2 -config <cfg> <module>`. States are distinct states.

| run | module, cfg | components | shows | states |
|---|---|---|---|---|
| `queue` | `MCQueue`, `Queue` | queue, twice, and drain | no request is lost (`RequestKept`), a job's parents outlive it (`DepsResolve`), the queue implements `WorkLifecycle` (`KeepsPromise`); both of the first also where a second process adds rows between the probe and the insert of the one that drains (`BesideKept`); the quotas of every budget add up, follow the shares, leave no class out and are spent in turn (`DrainFair`) | 1,810,728 |
| `queue_served` | `MCQueue`, `Queue_live` | one queue and drain, fair | every request is served, abandoned rows are recovered, a drain returns (`AllServed`) | 24,603 |
| `queue_two_drains` | `MCQueue`, `Queue_claims` | two processes that drain | finding: `ExclusiveRun` fails | violation |
| `sessions` | `Sessions`, `Sessions` | sessions, fair | no turn lost, turns are extracted, a quiet session ends and gets its summary, across a crash, a failing handler, a rewind and a second process | 220,224 |
| `background` | `MCBackground`, `Background` | sweep, extraction, write-back, federation | a finished lap passed over nothing and keys are visited again and again (`QuietMeansDone`, `Visited`); what the last turn said is believed but for turns read late, and the one digest tells it (`DigestHonest`); the walk back leaves no row behind, writes no stale vector and brings back nothing forgotten (`CarriedBack`); pointers are held (`PointersHonest`); every turn is read and every row of the other database gets its text in the end (`AllReached`) | 349,825 |
| `maintenance` | `MCMaintenance`, `Maintenance` | scheduler, mirror | honest watermarks (`MarkHonest`), one enqueue per instant and none from before birth (`FiresRight`), no entry starves (`ServesEveryEntry`), every event is mirrored in the end (`EventuallyMirrored`) | 165,150 |
| `disk` | `MCDisk`, `Disk` | local library, mirror, migration, files, caches | a name is resolved specific first and each file once (`FoundRight`); marked events are in git and survive the loss of the store (`MirrorHonest`); an upgrade keeps every sweep and leaves no job stuck (`QueueSurvives`); no commit is lost in a move or a close (`EventsSurvive`); a cache answers as its table would, the observed one until it outlives a rebuild (`CopiesExact`) | 1,548,066 |
| `conversation` | `MCConversation`, `Conversation` | window, folds, recall, speakers, retraction | nothing leaves the window before it can be restored (`NothingVanishes`), folds fit and keep their prefix (`FoldsNeatly`), a trimmed window still shows everything (`TrimShowsAll`), one warning per crossing (`OncePerCrossing`); what a context discloses could be read by the caller at some moment of the call (`DisclosedWasReadable`), a turn is told once and live text is not echoed (`TurnsToldOnce`), the lanes share the room (`RoomShared`); a line is credited to who said it, and a reader is shown what the user wrote and no frame (`ReadFaithfully`); the clean-up takes back just what was not said (`TakesBackUnsaid`) | 1,058,147 |
| `models` | `MCModels`, `Models` | host model, vectors, fair | one request in flight, a reply applied once, proxies of present words (`AppliedWell`); a vector under the served tag is of the present text, unless it was kept when a note was told anew without an embedder, and holes are only refused texts (`CurrentIsTrue`); requests resolve and vectors converge (`EventuallyServed`) | 159,659 |
| `memory` | `MCMemory`, `Memory` | beliefs, answering, precision | no belief in force without support (`Justified`); replaying the log gives the projection as long as its rows stand in the order of the log, cascades are complete, no assertion crowds a slot (`LogIsTruth`); a miss is learned (`MissIsLearned`); the gate does not depend on the order of its candidates (`GateHonest`) | 302,055 |
| `unlearned_again` | `MCMemory`, `Memory_unlearned` | answering | finding: `UnlearnedStays` fails | violation |
| `stale_copy` | `MCDisk`, `Disk_copies` | caches | finding: `ProjectionExact` fails | violation |

The joined properties are, of the component modules: `DrainFair` of `FairDrain`; `FiresRight` =
`OncePerInstant`, `InertAtBirth`; `EventsSurvive` = `NothingLost`, `OneName`, `AloneMoves`;
`NothingVanishes` = `NoneVanished`; `FoldsNeatly` = `WithinBudget`, `PrefixStays`, `RemembersFolds`;
`AppliedWell` = `OneInFlight`, `AppliedOnce`, `ProxiesCurrent`; `LogIsTruth` = `CascadeComplete`,
`ReplayKept`, `NoMoreValues`; `TakesBackUnsaid` of `Retraction`. Of the `...Parts` modules (the liveness
ones, `BesideKept` and `GateHonest`, of the `MC` modules): `BesideKept` = `RequestKept`, `DepsResolve` of
the second queue; `DigestHonest` = `LatestWins`, `ReadInTurn`, `OneDigest`, `DigestTellsFacts`; `AllReached`
= `TurnsRead` of `Extraction`, `Mirrored` of `Federation`; `CarriedBack` = `NoneLeftBehind`,
`CursorIsHonest`, `WritesTrue`, `ForgottenStaysForgotten`; `PointersHonest` = `PassedRowsHeld`,
`PointerKept`; `FoundRight` = `SpecificFirst`, `EachFileOnce`, `FoldKeepsBest`, `UnitsStayWhole`;
`MirrorHonest` = `LogOnce`, `CommittedInHead`, `RecoveryComplete`; `QueueSurvives` = `SweepKept`,
`NotEarly`, `NoneStuck`; `CopiesExact` = `ProjectionExact`, `ObservedExact`, `RebuildsOnlyWhenMoved`;
`TurnsToldOnce` = `CutUnreached`, `LiveNotEchoed`, `EachTurnOnce`; `RoomShared` = `TailCapped`,
`BreadthServed`, `WordsNotStarved`, `RecordsAreBest`; `OncePerCrossing` = `LatchOfThisCrossing`,
`WarnedOnce`, `CountBetween`; `ReadFaithfully` = `CreditsTrue`, `ReadFaithfully`; `CurrentIsTrue` =
`HonestTag`, `CurrentIsTrue`, `OnlyRefusedHoles`; `EventuallyServed` = `EveryRequestResolves`, `Converges`;
`GateHonest` = `OrderBlind`, `LinkedIsNotCut`. Most also hold their component's type invariant.
`PassedRowsHeld` is asked where row ids are handed out once: where they come again it fails, with five texts
in the other database, two beyond the run's bound of three (a row is deleted unread, the next one is read
and deleted, and the first one's id is given out again, below the watermark). The rescan finds such a row
later, which `Mirrored` asks of every numbering. Four properties are stated with an exception, and the table
of further configurations shows that the code needs it: `LatestWins` excepts turns read late,
`ObservedExact` a copy that outlived a rebuild, `CurrentIsTrue` a vector that was kept, `ReplayKept` rows
out of the log's order. `ReadFaithfully` excepts a message in which a line inside a frame was taken for a
label.

### Bounds, and why they are enough

* **Queue.** One process with two threads gives every overlap of two transactions; three rows are what a
  pruned or re-armed row, its parent and its successor need; attempts saturate at the cap of 2, so any
  number of retries is covered. 1 crash; retention of 1. The second queue has the same bounds, one thread
  that drains and one, of another process, that adds. The fair run has 2 rows.
* **Drain.** Budgets to 7 and shares to 3: each rounding remainder, each tie and each loan occurs. The fair
  run has budgets to 4 and shares to 1.
* **Sessions.** 1 turn, 1 crash, 1 failing handler, 1 rewind. `StartsAlone` lets the second process start
  only while nothing else goes wrong; the first of the further configurations lifts it, with two turns.
* **Background.** 4 keys in pages of 2 give a full page, a short one, an empty one and one that ends at the
  end of the table; 2 aborts. 3 turns under 2 extractor versions with 2 deaths, so that a turn is overtaken
  by one or two others, and two turns by a third. 3 rows in batches of 2 with 2 kills. 2 rows, a budget of
  1, 1 crash: the watermark and the rescan compete.
* **Maintenance.** A reaper due at every tick and two daily entries over a day of 3 ticks, so that a time
  with no entry, with one and with two occurs; any decision budget; 1 crash. The fair mirror has one
  process, 2 events on 2 days, 1 crash, 1 loss.
* **Disk.** 3 papers, one edit. Two processes and two events in one file or two. Every queue of 3 jobs of
  the earlier build, 2 openers, 1 crash. 2 processes, 3 events, 2 crashes; starts and closes do not overlap
  (see the table below for when they do). 3 keys, 3 writes, 1 failed read; `Beside` is off, since with it
  the cache is wrong (finding 3), and what it promises otherwise is checked without, for both designs.
  `Disk_copies` has 2 keys, 5 writes and a search that keeps one record.
* **Conversation.** Windows to 9 messages, 2 tool results, 1 mishap (a request that fails, or a reset); 9
  turns against a budget of 5 with a fault, a restart and 2 sessions; 4 beliefs, 5 turns in 2 sessions of
  which one has a summary, a cap of 1 excerpt per session where breadth counts, 3 passages, one question,
  one write between any two lanes; bodies to 3 lines, of which one may look like a label, and a frame of 3
  lines before the user's words, under 3 hosts; a fixed part of the prompt of 2; 2 facts and an episode, one
  write of the agent, one death.
* **Models.** 1 session, 1 belief, 1 query, a cap of 2 for 3 requests, 1 fault; a belief told in 2 versions
  and a session, one worker, 2 models, an outage, a switch.
* **Memory.** 2 slots of 2 values and 4 events of one turn: assert, conflict, correct and retract in any
  order, with rows pruned between them. Two more events and a pruning between them bring rows out of the
  log's order and make the replay differ: `Memory_replay`, below. 2 turns, one unlearned. 4 turns and a
  summary with 2 scores against a head of 3.

Where a configuration turns the deadlock check off it says why: a bound stops what the program goes
on doing, or the drain or the job has returned.

### Further configurations

What they show matters to whoever changes this code. Those with a cfg are kept beside the runs; the
others are the constants or the bound given, in a copy of the run's cfg.

| configuration | result | what it shows |
|---|---|---|
| `Sessions`, the safety part, `MaxTurns` 2, `StartsAlone` FALSE | passes, 6,091,428 states | two turns, and a second process that starts while anything goes wrong |
| `Sessions_gone` | `AbandonedNotPromoted` fails | while no turn of the session has been extracted a rewind's branch point is `store.max_seq()` (`core.py` 309), beyond the turns the user abandoned, so their queued extractions run, against I16 (`curation.py` 384) |
| `Sweeps`, two keys, two sweepers, `CommitFirst`, `Budget` 1, `MaxAborts` 1 | `Visited` passes, 161,624 states | the cursor committed before the page is handled |
| `Beliefs`, two turns | passes, about 1.38 million states | a conclusion that a later turn overtakes |
| `Beliefs`, no agents | `PremisesHold` fails | a premise may be retracted between the read and the append of a derivation (`reducer.py` 1017; `derivation.py` 9-11) |
| `Beliefs`, two turns, no agents | `ReviewKept` fails | a contradiction put up for review does not stay up until one of the two beliefs is retracted: the next sweep settles it (`health.py` 285; `tools.py` 200) |
| `JobQueue`, two processes, one drains, both with embed jobs | `RequestKept` fails | a re-arm names the finished row it probed, which the other process may have pruned: the UPDATE writes nothing and the request is gone (`store.py` 2904; the operator's `requeue_hash_vectors.py` 171 is such a process) |
| `JobQueue`, `SlowThreads` | `ExclusiveRun` fails | a drain re-arms by a built-in 900 s lease (`curation.py` 311) whatever lease is configured (`config.py` 1265) |
| `JobQueue`, `RequestSeen` | fails | a request collapses onto a row that is *running* (`store.py` 2827), whose handler may have read its input |
| `FairDrain`, `MaxBudget` 2, `MaxShare` 1 | `ServedEveryTurn` fails | a budget below the number of classes cannot serve each in each turn (`store.py` 421, the guarantee at 394) |
| `Sessions` | `FinalExtraction` fails | a turn that failed and lies behind the watermark is not enqueued at the end (`capture.py` 290) |
| `Sessions` | `SessionKnown` fails | a crash between the first turn and the touch leaves a turn without a session row (`capture.py` 207, 339) |
| `Sessions` | `OnlyAbandonedSkipped` fails | a rewind also skips turns the user kept (`core.py` 309, 305) |
| `Scheduler` | `DuplicateCollapses` fails | the duplicate after a crash between enqueue and record may follow a job that already ran (`store.py` 3238) |
| `Scheduler`, four entries, `Lifetime` 2 | `NoEntryStarves` fails | short-lived processes starve a frequent entry: each call re-confirms the oldest instant (`scheduler.py` 512; 402, 491) |
| `GitMirror`, `Tearing` | `RecoveryComplete` fails | a process killed in the middle of a line leaves an unreadable one, at which a replay stops (`gitmirror.py` 213, 295) |
| `GitMirror`, `DayLength` 2 | `ReplayKeepsOrder` fails | files of one minute are replayed in the order of event-id hashes (`gitmirror.py` 211, 293) |
| `Beliefs` | `AclFromLog` fails | access lists are written beside the log, so a replay does not restore them |
| `Beliefs`, `LiveRebuild` | `ReplayAgrees` fails | an append during a rebuild is reduced against a truncated projection |
| `Memory_replay` (`MCMemory`) | `ReplayAgrees` fails, after 797,991 states | a row that was pruned and written again stands at the end of its table, and `_find_existing` takes the first of several active facts, `LIMIT 1` without `ORDER BY` (`reducer.py` 1055, the pruning at `store.py` 3155): the live store and its replay merge the next event into different rows, and replaying is not the "no-op difference in output" that `store.py` 3133-3136 has it be, nor the "pure function of the event log" of `tests/test_replay_determinism.py` 2-7, which prunes nothing |
| `Beliefs`, no `Pruning`, `MaxEvents` 6 | passes, about 15.4 million states | the same without deleted rows |
| `Vectors`, `MaxReasserts` 1 | `OnlyRefusedHoles` fails | a belief that is pruned and asserted again while its old embed job is running: the job, which found no row, ends, and the new request has collapsed onto it |
| `Vectors` | `NoHole`, `Adopts`, `ForgottenStaysOut` fail | a text the endpoint refuses keeps no vector; a stand-in serves on until asked; an embed job in flight writes the vector of a belief forgotten meanwhile |
| `WriteBack`, `QuietWhileDown` FALSE | `NoneLeftBehind` fails | an agent that writes while the tool is down |
| `Federation` | `WritesAreEvents`, `VectorTellsPointer` fail | a crash between the pointer, the vector and the event of a row |
| `Vectors` | `EditedIsEmbedded` fails | a note told again under its id while the embedder is away keeps the vector of its old words (`reducer.py` 1467-1471), whose tag makes the job queued for it do nothing (`curation.py` 819-822), against "a body edited between enqueue and drain is embedded as it now reads" (`curation.py` 791-793) |
| `Federation`, `MaxVersion` 5, `PassedRowsHeld` asked of every numbering | fails | a row id given out again below the watermark is passed over until the rescan reaches it (`curation.py` 1355) |
| `ContextEngine` | `NamesResolve`, `HeuristicKeepsNames`, `RestartKeepsNames` fail | a note may name a turn that the session reading it cannot restore (`context.py` 2055, 119); a pass without the store takes earlier notes away; a restart may not find what they named |
| `WindowUpkeep` | `TrimAfterRegrowth` fails | a trim is armed again when the prompt has grown, counted with its fixed part (`context.py` 2384-2385), but its runway is measured without it (2431): the fixed part comes off the "full trigger's worth" that line 2376 says must regrow |
| `WindowUpkeep`, `Reports` FALSE | `EstimateCounts` fails | without provider counts a deferred preflight is never made up for (`context.py` 2490, 820) |
| `WindowUpkeep` | `TrimOnlyCaptured`, `PointersResolve` fail | what is trimmed need not have been captured; a pointer may outlive the copy it names |
| `WindowUpkeep`, two facts, `DigestCap` 1 | `DigestSettles` fails | a capped digest alternates between facts |
| `StoreFiles`, `Overlap`, `MaxCrashes` 1 | `NothingLost`, `OneName` fail | a start beside a closing process of the older name (`store.py` 556, 521-524) |
| `Migration`, `Chains` | `NoneStuck` fails | a job queued behind a dropped one (`store.py` 989, 982) |
| `Recall`, `Limit` 2 | passes, 343,064 states | two rows per lane |
| `Recall` | `ForgottenStaysOut`, `CriticalAlwaysTold` (`TwoCritical`) fail | what an earlier lane packed is not looked at again; the second critical fact may not fit |
| `Extraction`, `MaxForgets` 1 | `ForgottenUntold` fails | a digest keeps a forgotten fact until it is next written (`forgetting.py` 91) |
| `Extraction`, one extractor, one death | `LatestAlways` fails | a turn whose worker died is read after the later ones, when its lease has ended, and its value supersedes theirs (`curation.py` 297-315, `reducer.py` 1013-1026) |
| `Extraction`, two extractors | `LatestWins`, `DigestTellsFacts` fail (`OneDigest` holds) | a second drain takes the later turn while the first is still telling the earlier one, whose value lands last; and the digest a turn asks for collapses onto one already running that has read its facts (`store.py` 2827) |
| `Extraction`, `RowLimit` 2 | `DigestTellsFacts` fails | the digest reads a bounded number of rows |
| `VectorCache`, the observed design | `ObservedNeverStale` fails | a rebuild hands out the same rowids, owners and times once more, so that the copy takes what lies above its old top for new rows and keeps older vectors below (`vector_cache.py` 201, against line 30) |
| `HostModel` | `NoOrphans` fails | proxies are written for a belief that was retracted after the lookup meant to prevent it (`hostmodel.py` 577, 571) |
| `HostModel`, two queries, `HintCap` 3 | `VerdictKeepsItsBest` fails | the rows that go over the cap are the best of the oldest verdict |
| `HostModel`, two sessions or `Overlap` | `OneInFlight`, `AppliedOnce`, `ProxiesCurrent` fail | look, take and mark are three statements; a reply may outlive the words it is about |
| `Speakers` | `EveryWordRead`, `EveryFrameUnread` fail | a chunk that opens inside a frame loses the words after it; a line inside a frame that looks like the user's label is taken for the start of a message, and the rest of the frame is shown as the user's (`speaker.py` 412-415, against 405-409) |
| `Retraction` | `OnlyUnsaid` fails | a belief the user confirms after its table was scanned is retracted (`retract_misattributed.py` 201; 12, 297) |
| `FederatedRead` | `EmptyNeverHardens` fails | a schema read while the database is bare stays cached (`localdb.py` 208, 178) |
| `FederatedRead` | `ScoredIsShown`, `LongestWordSearched` (`TokenCap` 1) fail | bounds of the search and of the cards |
| `Precision` | `ReplacedIsNotCut` fails | a replacement recorded after the chain was read (`retrieval.py` 3079) |
| `Answering` | `PromotedHolds` fails | the promoted id may be a belief of another value |

Seen while reading, and not stated as properties: `prev_fire` returns only the latest instant, so a
host that rarely calls hooks skips instants of frequent entries; `core.py` 386 says a maintenance
job never runs in the turn that enqueued it, which holds for inline drains only; mirror files are
not synced to disk before their rows are marked.

## 4. The fairness assumed

* **Queue.** A transaction that began ends and a handler returns, by ordinary thread scheduling;
  claims are strongly fair per row, because a drain goes on to the next ready row at once while a
  deferral hides a row for at least thirty seconds, and drains reclaim every ten minutes. The
  handler's return is strongly fair because it needs the process's write lock, which siblings hold
  now and then. Enqueues and crashes are never forced.
* **Drain.** A drain that began goes on.
* **Sweeps.** Each sweeper takes its next step: the scheduler queues the sweep again and again and
  the queue serves it (`ServesEveryEntry`, `AllServed`).
* **Sessions.** Threads go on and the clock runs (weak); the worker starts each kind of job it keeps
  finding (strong, since other jobs and the write lock interrupt it). Host hooks and crashes are not
  forced, nor is the second process.
* **Scheduler.** The host keeps calling hooks, a hook ends, the clock ticks. `Pace` and `Lifetime`
  are assumptions about the host: at least as many calls per tick and per process life as there
  are entries. With a `Lifetime` of 2 and four entries an entry starves, so the second one is needed.
* **Mirror.** Processes come to a shutdown, which flushes, again and again (`provider.py` 199-211);
  an operator replays after a loss.
* **Extraction.** The runner takes its next step, which includes the drain's look for leases that are
  over (at most every ten minutes, `curation.py` 297-315), and the schedule asks again for what the present
  extractor has not read (`ServesEveryEntry`).
* **Write-back.** The operator runs the tool until it says it is done.
* **Federation.** The sweep's next step: the schedule comes round again.
* **Host model.** The host keeps making model calls and ending turns (strong, since the two hooks of a
  session exclude one another); a hook that began ends.
* **Vectors.** Cooldowns end, the endpoint returns, health runs its heal, a worker goes on (weak); the
  queue gives each target's job and each summary to a worker (strong, the queue's promise).
* **Answering.** A queued extraction is run, by the same promise.

## 5. What is proved

All proofs are checked by `tlapm` for every value of the constants that the named assumptions allow.

| theorem | statement | assumes, besides the module's own assumptions |
|---|---|---|
| `JobQueueProofs!TypeCorrect` | `Spec => []TypeOK` | |
| `JobQueueProofs!OneProcessSafe` | `RequestKept`, `ExclusiveRun`, `OneLiveRowPerWork` | `OneProcess`: all threads in one process, no slow worker |
| `JobQueueProofs!ParentsOutlive` | `Spec => []DepsResolve` | any number of processes |
| `JobQueueProofs!QueueKeepsPromise` | `Spec => KeepsPromise`: the queue implements `WorkLifecycle` | `OneProcess` |
| `TurnProofs!TypeCorrect`, `TurnsAreKept` | `TypeOK`, `NoTurnLost` of `Sessions` | |
| `JobQueueProofs!DrainIsFair` | `DrainFair` of `FairDrain` | the two bounds are naturals |
| `BackgroundProofs!TypeCorrect` | `TypeOK` of `Sweeps` | |
| `BackgroundProofs!SweepsCover` | `NothingPassedOver`, `QuietMeansDone` | `OneSweeper`, which commits last |
| `BackgroundProofs!BackWritesTrue` | `WritesTrue`, `ForgottenStaysForgotten` of `WriteBack` | `BackConstants`: each row once in the order walked |
| `BackgroundProofs!BackLeavesNone` | `NoneLeftBehind`, `CursorIsHonest` | the same, `TellsApart` |
| `BackgroundProofs!VectorsCarriedBack` | `CarriedBack`: all of that at once, with the types | the same |
| `BackgroundProofs!RowsPassedAreHeld` | `PassedRowsHeld` of `Federation` | `RowsOK`: finitely many positive row ids; any number of sweeps |
| `BackgroundProofs!PointersKeepIds` | `PointerKept` | the same, `OneSweep` |
| `BackgroundProofs!PointersAreHonest` | `PointersHonest`: all of that at once, with the types | the same, `Numbered`: the rows are numbered from 1 |
| `BackgroundProofs!DigestsTellFacts` | `DigestHonest` of `Extraction`: the last turn is believed but for turns read late, turns are read in order where no process dies, one digest, it tells the active facts; any number of deaths | `HeardOnce`: one runner, a turn tells one value of an attribute, nothing is forgotten; and the digest job reads all rows |
| `SchedulerProofs!TypeCorrect`, `MarksAreHonest` | `TypeOK`, `MarkHonest` | any number of processes |
| `SchedulerProofs!NothingBeforeBirth` | `InertAtBirth` | any number of processes |
| `SchedulerProofs!FiresOnce` | `FiresRight` | `Alone`: one process at a time |
| `BeliefsProofs!NothingUnjustified` | `TypeOK`, `Justified` | `LiveRebuild` and `Pruning` included |
| `BeliefsProofs!NothingCrowded` | `NoMoreValues` | the same |
| `BeliefsProofs!CascadesReach` | `CascadeComplete` | no append during a rebuild |
| `BeliefsProofs!StoreIsItsLog` | `ReplayAgrees`, in whatever order the rows stand, and `LogIsTruth` | the same, and no row deleted |
| `ModelProofs!RepliesAppliedWell` | `AppliedWell` of `HostModel` | `Alone`: one session, no overlap |
| `ModelProofs!CurrentVectorsAreTrue` | `HonestTag`, `CurrentIsTrue` of `Vectors` | `OneDrain`: one worker, names kept apart; `Settled`: not both texts told anew and pruned beliefs asserted again |
| `ModelProofs!VectorsAreHonest` | all that `CurrentIsTrue` joins in `ModelParts` | the same, `OneLife`: no belief is asserted again after it was pruned |
| `DiskProofs!StoreNeverLosesAnEvent` | `EventsSurvive` of `StoreFiles` | bounds are naturals, no close overlaps a start |
| `DiskProofs!CopyServesTheTable` | `ProjectionExact` of `VectorCache` | `CopyConstants`: scores are integers, sizes naturals; not `Beside` |
| `DiskProofs!ProjectionKeepsItsCopies` | `CopiesExact`: the same, and a copy is built anew only when the table moved in a way it cannot follow | the same, the projection design alone |
| `DiskProofs!MirrorBringsBack` | `MirrorHonest` of `GitMirror`: no event logged twice, what is marked is in HEAD, a complete replay brings it back | `MirrorSizes`: bounds are naturals, batches positive; not `Tearing`; any number of flushers |
| `DiskProofs!UpgradeKeepsSweeps` | `SweepKept`, `NotEarly` of `Migration` | `OldIds`: old jobs are numbered from 1 |
| `DiskProofs!UpgradeStrandsNoJob` | `NoneStuck` | the same, not `Chains` |
| `DiskProofs!UpgradeKeepsTheQueue` | `QueueSurvives`: all of that at once, with the types | the same, the jobs queued beside it are bounded by a natural |
| `ConversationProofs!TurnsNeverVanish` | `NothingVanishes` of `ContextEngine` | `SizesOK`: sizes are naturals, one session at least |
| `ConversationProofs!PassesFoldNeatly` | `FoldsNeatly` | the same |
| `ConversationProofs!SaidStays` | `TakesBackUnsaid` of `Retraction` | the first events captured are counted by a natural |
| `ConversationProofs!TrimsShowAll` | `TrimShowsAll` of `WindowUpkeep`: each result in sight stays in sight | `Sized`: sizes are integers, what is kept of a text naturals |
| `ConversationProofs!WarnsOncePerCrossing` | `OncePerCrossing` | the same, `Capped`: bounds are naturals; any `Overhead` |
| `ConversationProofs!ToldInGoodFaith` | `DisclosedWasReadable`, `LiveNotEchoed` of `Recall` | `Recalled`: finite sets and logs of them, sizes naturals, `FetchMax` within the doublings the lane tries |

Apart from matters of types, most assumptions are ones whose removal a run or a further configuration
above refutes: two drains, slow workers, a second session of the host, `Overlap`, `Beside`, `Chains`,
`Tearing`, `LiveRebuild`, `Pruning`, an agent that writes while the tool is down, a belief
asserted again, two extractors, a digest that reads too few rows. The rest are what the arguments below
use: one sweep of a kind at a time (`OneSweeper`, `OneSweep`), one scheduler on the table (`Alone`), one
drain that writes vectors (`OneDrain`). In `HeardOnce` the part on what a turn tells is what makes "what
the turn said" a single value: of two values told in one turn only the last stays active.

**The queue.** `RequestKept` is not inductive: an enqueue inserts on the strength of a probe made
one step before, a reclaim writes rows by ids it read. `QueueInv` says what an open transaction has
read is still true (`EnqueueSnapshot`, `ClaimSnapshot`, `ReclaimSnapshot`), because at most one is
open (`OneWriter`, from the write lock and the single process), because no lease ends under a live
worker (`LeaseHolds`, where slow threads would break it) and because ids beyond `nextId` are free
(`FreeIds`). The proof has a lemma per group of operations; `RowStep` and `InsertStep` carry what a
change of one row and an insert preserve. `ParentsOutlive` rests on `GoneUnreferenced`: the rows
retention deletes by count are among those its other rule has left unreferenced, in one transaction,
so it needs neither assumption. `QueueKeepsPromise` classes every step by its effect on a work
(`Unmoved`, `Asked`, `Started`, `Settled`), maps each to a step or a stutter of `WorkLifecycle`
(`EffectMaps`), and takes from `QueueInv` that a settled row is the only live row of its work.

**Turns.** `NoTurnLost` needs `InHand`: the turn whose job the worker is about to
settle has its record. Every other thread only adds jobs, which is why no assumption on threads,
processes or crashes is needed.

**The drain.** The quotas of `FairDrain` are arithmetic over three classes: integer
parts leave a remainder smaller than the number of classes (`UnitsLeft`), one unit each settles it
(`Rounding`), a class lent a unit takes it from one that has two (`DonorHasMost`, `Lending`).
`DrainInv` then says how each phase of the loop has spent its quotas.

**Sweeps.** A saved cursor has passed over nothing because the page between it and the cursor the run
resumed from holds every key that has matched throughout (`RunCovers`, `PageCovers`). `SweepInv`
joins that with the two properties; it needs one sweeper, since a second one may commit a cursor
from an earlier page.

**Write-back.** `BackInv` says the copy converts whole or not at all and an open batch is still true
of the live store (`HeldOK`), which the write transaction gives. `WalkInv` adds where the walk is:
what lies behind the cursor is accounted for (`WalkOK`), the record of the batch in flight is that of
the page after the cursor (`FlightOK`), and a row ahead does not equal the copy (`FreshOK`), so a
restart can tell a batch that was committed from one that was not. `TellsApart` is what that last part
takes: the agent rests while the tool is down, and a row at risk can equal the copy only by being
carried back.

**Federation.** A page of new rows leaves none behind below its last row, and where ids only grow no
row appears there later. `PassInv` says so of every sweep in progress. The first attempt did not
assume that ids are handed out once, and its failure is the configuration of `Federation` above.
`FoundOK`: a sweep that looked a pointer up finds it unchanged when it writes. The types ride on the
same invariant: texts, cursors and watermarks are only ever copied from where one is (`FedInv`).

**Extraction.** `JobsInv` has a part for each question. Of the queue, no request is in it twice and the job
at hand is in it (`QueueOK`); which of its jobs run is left open, since those of dead workers do. Under the
first extractor each turn that is not read has its job, and what the last of the read turns told of an
attribute is what is active of it, where no turn read late tells it, unless a turn that is not read has told
it by the half that an interrupted job got through (`Believed`); what the job at hand no longer has left was
told (`ToldOf`). As long as no process died the queue is in order and what is read is read in order
(`InTurnOK`), so no turn is late. And unless a process died between a record and its request, the digest
tells the facts, or a digest job is in the queue, or the job at hand will ask for one, or a turn that an
interrupted job left will be told again (`Fresh`); the one note that is shown has the anchor the job at hand
writes under, or one it will drop first (`DigestOK`).

**Scheduler.** `MarkHonest` needs that a hook that is about to record an instant with lag 0 has
enqueued for it (`RecordInv`), across clock ticks that age the instant in its hand. `Born`: a row, a
floor and an instant in hand are younger than the entry's anchor. `Traced`: an instant that was
enqueued is marked, about to be marked, or was cut off by a death.

**Beliefs.** `Justified` alone is not inductive, since a rebuild reduces events that were appended
long ago. `StoreInv` adds that every event of the log is one that a reduction keeps sound
(`EventOK`); then each reduction step preserves `Sound`, whatever projection it starts from, which is
why a rebuild beside writers needs no exception. `Chained` says of each rule whose premise was taken
back that the premise was derived again since. For `StoreIsItsLog` the invariant is that the
projection is `Same` as `After(log, n)` for the `n` events reduced so far: a step of the store and a
step of the fold take such projections to such projections (`SameReduce`, one lemma per handler).
`After` is a fold, whose value step by step comes from `StagesExist` and `StagesAgree`, proved with
the least number of a set of counterexamples. Access lists and open contradictions may differ between
the two, and no handler reads them where it would matter.

**Models.** `RegistryInv`: at most one request rides, a session's hands hold what the table says,
each thing written belongs to a request that is no longer pending. `ProxyInv`, as long as no process
died inside a reply: the proxies of a belief in force are of its present words, unless a hook holds the
belief. `VectorInv` adds what a worker holds between its read and its write: the version it read is
the present one unless the row was written meanwhile, and its tag is that of the model that answered; a row
in `kept` is excepted until its vector is written or goes.
With several drains two workers may hold one session's text and the older write lands last, under the
served tag. `HoleInv` follows each belief to the job or the refusal that explains a missing vector.

**Files.** At every step exactly one of the two names is the home of the store, and all that was
committed is in the file that name means and the journal beside it. The home is the old name until
`Switch`. `FilesInv` says where every process stands relative to it: one inside a start or a close is
alone in it, and from the lock to the switch nobody has the store open.

**Mirror.** The mirror's queue has a row for each event of the log, in its order (`RowPerEvent`). Of a
flush `MirrorInv` says that the rows it has written are lines of files it has named, and that they are in
HEAD once git has taken those files (`BatchOK`); files, and the part of them that git has, only grow
(`FilesGrow`), which is why flushers need not exclude one another. So what is marked committed is in HEAD
and what was marked at all is in a file (`MarkedOK`), also for the events lost with the store
(`BeforeOK`), and a complete replay reads every line. That a line is whole is what `Tearing` takes away.

**Vector cache.** A copy stands for a full table: its rows are those of its width, its count and top
are those of the table, and while the row at its top is in place every row below it is one of the full
table. A table as large and no higher is then the full table itself (`CopyIsTable`). `CopyInv` says
this of the copy of every width and of the call in progress, what it has read so far included. A call
that decides to build the copy anew has seen a table that did not just grow.

**Upgrade.** Of each sweep name one row is live, so the heir of a doomed row is the one live sweep of
this build's name, whatever opener read it and however long ago (`QueueInv` of `DiskProofs`,
`HeirIsOne`). A sweep waits for an earlier sweep, any other job for an earlier job or for a sweep, and
only the heir may wait for the doomed row (`ChainInv`); a ring would have no earliest member
(`ChainsEnd`).

**Conversation.** A pass parts the window into the prefix it settled and the turns it decides on, and
what it does not keep it archives first. Earlier notes may leave the window because the engine's list
has what they named. `FoldInv` is `NoneVanished` with `NamesListed`: an engine that has a list, or a
settled prefix, has listed what the notes of the window name; one that has neither is at its first
pass, which reads the notes. Its lemmas follow the positions a pass picks through the window
(`PlanHas`, `PassHas`, `ArchiveHas`).

**Upkeep.** The latch is set exactly when the crossing was warned of, a compaction leaves the prompt to be
counted again before the next one (`UpkeepInv`). A trim points an older copy of a result at its newest copy,
which it leaves in sight (`PrunedHas`).

**Recall.** `RecallInv` says that each line packed so far may be told: it tells beliefs that its reader
could read at some moment since the call began, turns that are neither withheld nor of the conversation it
is live in, or the summary of another session that is not withheld. The sets of what could be read only grow
during a call, while what can be read now is always part of them (`SeesNow`), so a line packed before a
grant was withdrawn stays justified. Each lane is followed through its filter (`Tellable`), the packing of
blocks through its stages as a recursive function (`Stages`), and the doublings of the fetch through the
bound in `Recalled`.

**Clean-up.** The log only grows, so an event that the first reading saw stays as it was seen, and
what shows a belief to be said is in what the second reading read or in the row itself when its table
is scanned. `RetractInv` says so of what was said (`ToldSafe`) and of what was not (`UnsaidDue`) at
each point of the script.

Model-checked only, and why:

* liveness and `ENABLED`, which the prover does not cover: `AllServed`, `TurnsExtracted`,
  `SessionSettles`, `Visited`, `AllReached`, `ServesEveryEntry`, `EventuallyMirrored`,
  `EventuallyServed`, `MissIsLearned`;
* `ReplayKept` of `Beliefs` where rows are pruned: that rows standing in the order of the log make the replay
  agree is shown for up to four events only; `BesideKept`, since `OneProcessSafe` is about one process;
  `ObservedExact`;
* `ReadFaithfully` of `Speakers`, `FoundRight` of `FederatedRead`, `GateHonest` of `Precision`,
  `RoomShared` and `TurnsToldOnce` of `Recall` (its part `LiveNotEchoed` is proved): what is told is
  computed by operators over sequences (filters, folds, orders by score) whose definitions the prover
  does not see through, and the property is about the value computed.

Induction over data is out of the prover's reach as a rule of its own; over the naturals the proofs do
without it, by the least number of a set that is not empty (`LeastNumber`).

## 6. Findings

1. **A row of the queue can be claimed by two processes** (`queue_two_drains`). `claim_curation_job`
   selects before SQLite's write transaction begins and updates by id alone (`store.py` 2950),
   while `core.py` 405 calls the claim atomic and `store.py` 645 expects several live processes.
   Adding `AND status='pending'` to the update and testing its row count would close it.
2. **An unlearned value comes back** (`unlearned_again`). `_promote_from_span` appends an asserted
   fact for whatever the span says (`retrieval.py` 2519), and neither it nor the reducer's handler
   asks for the tombstone: after `withdraw_consent` the next question that reads the turn, or the
   turn's own extraction, writes the value as an active fact. `reducer.py` 799 says "Erase every trace
   of forbidden content".

3. **A vector cache serves a table it does not hold** (`stale_copy`). `_current` compares the row at
   the copy's old top in one statement and loads the rows above it in another, without comparing that
   row again (`vector_cache.py` 575). Rows that are deleted and written again in between reuse the ids
   at and below the old top; what lies above it still numbers what was expected, the copy counts as
   current from then on, and a search leaves out a row that belongs among the best. Line 30 says "A
   cache that cannot prove it is current is never used stale", line 576 "Every row above the old max
   is new, and the old max still stands". Reading both in one transaction would close it.

The table of further configurations lists what else falls short of a comment, a docstring or an
expectation, each with its line.

## 7. What is not modelled, and why

* Data: payloads, texts, prompts, vectors, encryption, wording. Scores are small integers or a free
  choice; reranking, diversity and the arithmetic of salience and trust are left out.
* SQLite's own guarantees (atomic commit, one writer, foreign keys) are used, not modelled; so are
  the file system's and git's, up to what a killed process leaves behind. Power loss is left out.
* In `Sessions` the queue is taken by its promise, and a turn is one row; parent links, the automation
  prefixes and excluded sessions are left out.
* In `GitMirror` two flushes are taken not to interleave inside one file write; the requeue for a new
  mirror directory and the push are left out.
* In `FairDrain` the doubles of the code are taken to compare as exact quotients do.
* In `Beliefs` the projections of episodes, triples, spans and aliases are left out.
* In `Recall` the excerpts of query proxies, the preference for digests with its limit, and the dropping of
  a second turn with the same words are left out; in
  `FederatedRead` the lookup of projected pointers, the character cap of a split and the identity of
  rows without a key.
* In `StoreFiles` the threads of one process that share connections; in `Migration` table rebuilds
  other than that of `curation_jobs`.
* Trust and learning, identity, mentions and entities write one row at a time by arithmetic or text
  similarity, with no order of their own. The text utilities are pure. The dashboard's views change
  nothing.

## 8. Plan

1. A composition of `Scheduler`, `JobQueue` and `Sweeps`, so that the fairness `Sweeps` assumes is
   shown and not argued; of `Extraction` with `Beliefs`, whose log it appends to.
2. `Vectors` with several drains, and the vectors that `update_belief` deletes in a later transaction.
3. Theorems: `SettledStays` and `LiveRowsKept` of `JobQueue`; `CutUnreached` and `EachTurnOnce` of
   `Recall` and `CreditsTrue` of `Speakers`, once their filters are written as recursive functions.
4. Trust counters and the fidelity ladder as pure operators against a reference definition.
