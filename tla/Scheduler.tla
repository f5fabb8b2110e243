------------------------------ MODULE Scheduler ------------------------------
(***************************************************************************)
(* The hook-driven maintenance scheduler (engine/scheduler.py).  A hook    *)
(* call decides in memory which entry is due, confirms it against the      *)
(* entry's row of maintenance_runs, enqueues one curation job and writes   *)
(* the row; each of the three database accesses is a step, other processes *)
(* and the clock run between them, and the process may die or restart.     *)
(*                                                                         *)
(* The clock is cyclic: Fires[e] are the times of the day at which entry   *)
(* e's cron string fires.  An instant an entry was scheduled for is known  *)
(* by its lag: how many instants of that entry have come since (0: it is   *)
(* the latest one, prev_fire(now); MaxLag: that many or more).  A mark m   *)
(* is older than prev_fire(now) when its lag is not 0.                     *)
(*                                                                         *)
(* An operator X_variant before X is not part of the model: it is a        *)
(* plausible defect of the code behind X, caught by a property.            *)
(***************************************************************************)
EXTENDS Integers, FiniteSets

CONSTANTS
    N,          \* the enabled entries are 0 .. N-1, in the order of _ENTRY_DEFS
    Day,        \* the clock counts modulo Day
    Fires,      \* per entry: the times of the day it fires at
    Procs,      \* the processes that share the store
    Reaches,    \* how many entries maintenance.budget_ms may let a hook look at
    Pace,       \* the host: at least so many hook calls between two clock ticks
    Lifetime,   \* the host: at least so many hook calls before a clean restart
    Restarts,   \* whether processes restart cleanly
    MaxLag,     \* bound: lags are counted up to MaxLag; no hook outlasts it
    MaxCrashes  \* bound: processes that die inside a hook

Entries == 0 .. N - 1
Times == 0 .. Day - 1

ASSUME EntriesAssumption ==
    /\ N \in Nat \ {0} /\ Day \in Nat \ {0}
    /\ Fires \in [Entries -> (SUBSET Times) \ {{}}]
ASSUME HostAssumption ==
    /\ Reaches \subseteq 1 .. N /\ Reaches # {}
    /\ Pace \in Nat /\ Lifetime \in Nat /\ Restarts \in BOOLEAN
ASSUME BoundsAssumption == MaxLag \in Nat \ {0, 1} /\ MaxCrashes \in Nat

Never == -1  \* no maintenance_runs row

VARIABLES
    clock,    \* the time of the day
    anchor,   \* per entry: lag of the store's first event
    row,      \* per entry: lag of maintenance_runs.last_fire_at, or Never
    live,     \* entries whose curation job is pending or running
    floor,    \* per process and entry: lag of its in-memory mark, or the anchor
    cursor,   \* per process: Scheduler._cursor
    pc,       \* per process: the database access its hook call is about to make
    hand,     \* per process: the entry it chose
    fire,     \* per process: lag of the instant it chose the entry for
    calls,    \* per process: hook calls since it started, up to Lifetime
    paced,    \* hook calls since the clock last ticked, up to Pace
    served,   \* history: entries enqueued for their latest instant
    cut,      \* history: those whose process died before it wrote the row
    crashes   \* bound counter

tables == <<anchor, row, live>>
memory == <<floor, cursor, pc, hand, fire>>
host == <<clock, calls, paced, crashes>>
history == <<served, cut>>
vars == <<tables, memory, host, history>>

\* _anchor_dt: an entry without a mark measures from the store's first event.
Anchor_ProcessStart == [e \in Entries |-> 0]
Anchor == anchor

\* A new store begins now; an old one that never ran maintenance, long ago.
Init ==
    /\ clock \in Times
    /\ anchor \in {[e \in Entries |-> 0], [e \in Entries |-> MaxLag]}
    /\ row = [e \in Entries |-> Never]
    /\ live = {}
    /\ floor = [p \in Procs |-> Anchor]
    /\ cursor = [p \in Procs |-> 0]
    /\ pc = [p \in Procs |-> "idle"]
    /\ hand = [p \in Procs |-> 0]
    /\ fire = [p \in Procs |-> 0]
    /\ calls = [p \in Procs |-> 0]
    /\ paced = 0
    /\ served = {} /\ cut = {} /\ crashes = 0

Goto(p, label) == pc' = [pc EXCEPT ![p] = label]
UpTo(bound, k) == IF k > bound THEN bound ELSE k

-----------------------------------------------------------------------------
(* The decision *)

\* How long ago prev_fire(now) was.
IsAge(e, d) ==
    /\ (clock + Day - d) % Day \in Fires[e]
    /\ \A k \in 0 .. d - 1 : (clock + Day - k) % Day \notin Fires[e]
Age(e) == CHOOSE d \in 0 .. Day - 1 : IsAge(e, d)

Distance(p, e) == (e + N - cursor[p]) % N
Reached(p, reach) == {e \in Entries : Distance(p, e) < reach}

Due(p, reach) == {e \in Reached(p, reach) : floor[p][e] > 0}

\* The oldest instant first; of equally old ones, the first from the cursor.
Before(p, e, f) ==
    \/ Age(e) > Age(f)
    \/ Age(e) = Age(f) /\ Distance(p, e) <= Distance(p, f)

\* Nothing due: resume at the entry the budget did not reach.
NextCursor(p, reach) == IF reach < N THEN (cursor[p] + reach) % N ELSE 0

Decide(p) ==
    /\ pc[p] = "idle"
    /\ \E reach \in Reaches :
          \/ /\ Due(p, reach) = {}
             /\ cursor' = [cursor EXCEPT ![p] = NextCursor(p, reach)]
             /\ UNCHANGED <<pc, hand, fire>>
          \/ \E e \in Due(p, reach) :
                /\ \A f \in Due(p, reach) : Before(p, e, f)
                /\ cursor' = [cursor EXCEPT ![p] = (e + 1) % N]
                /\ hand' = [hand EXCEPT ![p] = e]
                /\ fire' = [fire EXCEPT ![p] = 0]
                /\ Goto(p, "confirm")
    /\ calls' = [calls EXCEPT ![p] = UpTo(Lifetime, @ + 1)]
    /\ paced' = UpTo(Pace, paced + 1)
    /\ UNCHANGED <<clock, crashes, tables, floor, history>>

\* get_maintenance_run: another process, or this one before a restart, may have
\* fired the entry already.
AlreadyFired_NotAsked(p) == FALSE
AlreadyFired(p) == row[hand[p]] # Never /\ row[hand[p]] <= fire[p]

Confirm_MarksFirst(p) ==
    /\ pc[p] = "confirm"
    /\ row' = IF AlreadyFired(p) THEN row ELSE [row EXCEPT ![hand[p]] = fire[p]]
    /\ Goto(p, IF AlreadyFired(p) THEN "idle" ELSE "enqueue")
    /\ UNCHANGED <<anchor, live, floor, cursor, hand, fire, host, history>>
Confirm(p) ==
    /\ pc[p] = "confirm"
    /\ floor' = IF row[hand[p]] = Never
                THEN floor
                ELSE [floor EXCEPT ![p][hand[p]] = row[hand[p]]]
    /\ Goto(p, IF AlreadyFired(p) THEN "idle" ELSE "enqueue")
    /\ UNCHANGED <<tables, cursor, hand, fire, host, history>>

\* enqueue_curation: collapses onto a live job of the same entry.
Enqueue(p) ==
    /\ pc[p] = "enqueue"
    /\ live' = live \cup {hand[p]}
    /\ served' = IF fire[p] = 0 THEN served \cup {hand[p]} ELSE served
    /\ Goto(p, "record")
    /\ UNCHANGED <<anchor, row, floor, cursor, hand, fire, host, cut>>

\* record_maintenance_run, after the enqueue.
Record(p) ==
    /\ pc[p] = "record"
    /\ row' = [row EXCEPT ![hand[p]] = fire[p]]
    /\ floor' = [floor EXCEPT ![p][hand[p]] = fire[p]]
    /\ Goto(p, "idle")
    /\ UNCHANGED <<anchor, live, cursor, hand, fire, host, history>>

-----------------------------------------------------------------------------
(* The drain, the clock and the processes *)

JobDone ==
    /\ \E e \in live : live' = live \ {e}
    /\ UNCHANGED <<anchor, row, memory, host, history>>

Later(lag, comes) == IF comes /\ lag # Never THEN UpTo(MaxLag, lag + 1) ELSE lag

ClockTick ==
    /\ paced >= Pace
    /\ \A p \in Procs : pc[p] # "idle" => fire[p] + 1 < MaxLag
    /\ clock' = (clock + 1) % Day
    /\ paced' = 0
    /\ LET firing == {e \in Entries : clock' \in Fires[e]} IN
       /\ anchor' = [e \in Entries |-> Later(anchor[e], e \in firing)]
       /\ row' = [e \in Entries |-> Later(row[e], e \in firing)]
       /\ floor' = [p \in Procs |-> [e \in Entries |-> Later(floor[p][e], e \in firing)]]
       /\ fire' = [p \in Procs |-> Later(fire[p], pc[p] # "idle" /\ hand[p] \in firing)]
       /\ served' = served \ firing /\ cut' = cut \ firing
    /\ UNCHANGED <<live, cursor, pc, hand, calls, crashes>>

\* A new process starts with no marks.
Started(p) ==
    /\ floor' = [floor EXCEPT ![p] = Anchor]
    /\ cursor' = [cursor EXCEPT ![p] = 0]
    /\ Goto(p, "idle")
    /\ hand' = [hand EXCEPT ![p] = 0]
    /\ fire' = [fire EXCEPT ![p] = 0]
    /\ calls' = [calls EXCEPT ![p] = 0]
    /\ UNCHANGED <<tables, clock, paced, served>>

Restart(p) ==
    /\ Restarts
    /\ pc[p] = "idle"
    /\ calls[p] = Lifetime
    /\ Started(p)
    /\ UNCHANGED <<cut, crashes>>

Crash(p) ==
    /\ pc[p] # "idle"
    /\ crashes < MaxCrashes
    /\ crashes' = crashes + 1
    /\ cut' = IF pc[p] = "record" THEN cut \cup {hand[p]} ELSE cut
    /\ Started(p)

HookStep(p) ==
    \/ Decide(p)
    \/ Confirm(p)
    \/ Enqueue(p)
    \/ Record(p)

Next ==
    \/ \E p \in Procs : HookStep(p) \/ Restart(p) \/ Crash(p)
    \/ JobDone
    \/ ClockTick

Spec == Init /\ [][Next]_vars

\* The host goes on calling hooks, a hook that began ends, the clock runs.
FairSpec ==
    /\ Spec
    /\ \A p \in Procs : WF_vars(HookStep(p))
    /\ WF_vars(ClockTick)

-----------------------------------------------------------------------------
(* Properties *)

Lags == 0 .. MaxLag

TypeOK ==
    /\ clock \in Times
    /\ anchor \in [Entries -> Lags]
    /\ row \in [Entries -> Lags \cup {Never}]
    /\ live \subseteq Entries
    /\ floor \in [Procs -> [Entries -> Lags]]
    /\ cursor \in [Procs -> Entries]
    /\ pc \in [Procs -> {"idle", "confirm", "enqueue", "record"}]
    /\ hand \in [Procs -> Entries]
    /\ fire \in [Procs -> Lags]
    /\ calls \in [Procs -> 0 .. Lifetime]
    /\ paced \in 0 .. Pace
    /\ served \subseteq Entries /\ cut \subseteq Entries
    /\ crashes \in 0 .. MaxCrashes

\* record_maintenance_run is written after the enqueue: a row that claims an
\* instant was fired for is never wrong, wherever a process died (no job lost).
MarkHonest == \A e \in Entries : row[e] = 0 => e \in served

\* With one process no instant is enqueued for twice, restarts included, unless
\* the process died before it wrote the row.
OncePerInstant ==
    [][ \A p \in Procs : Enqueue(p) /\ fire[p] = 0 /\ hand[p] \in served =>
           hand[p] \in live \cup cut ]_vars

\* What record_maintenance_run says of that case too (store.py:3242): the job
\* enqueued a second time collapses onto the first one, still pending.
DuplicateCollapses ==
    [][ \A p \in Procs : Enqueue(p) /\ fire[p] = 0 /\ hand[p] \in served =>
           hand[p] \in live ]_vars

\* A store is inert until an instant passes that its first event preceded.
InertAtBirth ==
    [][ \A p \in Procs : Enqueue(p) => anchor[hand[p]] > fire[p] ]_vars

\* No instant is asked for twice or before its store was born.
FiresRight == []TypeOK /\ OncePerInstant /\ InertAtBirth

\* No entry starves (scheduler.py:503): each is enqueued again and again,
\* whatever the budget lets a hook look at.
NoEntryStarves ==
    \A e \in Entries : []<><< \E p \in Procs : Enqueue(p) /\ hand[p] = e >>_vars
=============================================================================
