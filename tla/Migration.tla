----------------------------- MODULE Migration -----------------------------
(***************************************************************************)
(* A store of an earlier build is brought up to this one.                  *)
(*                                                                         *)
(* Whoever opens the store climbs the same ladder: rows queued under task  *)
(* names no build can run are given a name that can or dropped, the job    *)
(* table is rebuilt because SQLite cannot narrow its CHECK, columns that   *)
(* are missing are added one by one, and the version is stamped last.      *)
(* Several processes may open the store at once, each may die on any rung, *)
(* and a process of the earlier build may still be queueing and running    *)
(* jobs.  An open that fails is tried again from the first rung.           *)
(*                                                                         *)
(* "contradiction" was another name of the "consistency" sweep; "route"    *)
(* never had a handler; "extract" stands for the tasks both builds know.   *)
(* All jobs of a task have one payload.                                    *)
(***************************************************************************)
EXTENDS Integers, FiniteSets, FiniteSetsExt

CONSTANTS
    Openers,        \* processes of this build
    Columns,        \* columns this build expects and an earlier one lacks
    OldJobs,        \* 1 .. n, ids of the jobs the store may hold at first
    Chains,         \* whether a sweep may be queued behind another task
    MaxQueued,      \* bound on jobs the earlier build still queues
    MaxCrashes      \* bound on openers that die

VARIABLES
    jobs,           \* curation_jobs: [id -> [task, status, dep]]
    check,          \* the tasks the table's CHECK admits
    columns,        \* columns of the tables
    stamp,          \* meta.schema_version is this build's
    opener,         \* what each process is at
    queued,         \* jobs queued by the earlier build since
    crashes,        \* openers that died so far
    owed,           \* whether a sweep was asked for and none has run since
    behind          \* jobs queued behind a sweep that has not run since

queue == <<jobs, check, queued, owed, behind>>
vars == <<queue, columns, stamp, opener, crashes>>

Current == {"consistency", "extract"}
Dead == {"route"}
Aliased == {"contradiction"}
Retired == Dead \union Aliased
Sweeps == {"consistency"} \union Aliased

JobIds == OldJobs \union {Cardinality(OldJobs) + k : k \in 1 .. MaxQueued}
None == 0

----------------------------------------------------------------------------
(* The queue *)

Live(t, id) == t[id].status = "pending"
Of(t, tasks) == {id \in DOMAIN t : Live(t, id) /\ t[id].task \in tasks}
LiveSweeps(t) == Of(t, Sweeps)

Ready(id) ==
    /\ Live(jobs, id)
    /\ jobs[id].dep # None => jobs[jobs[id].dep].status = "done"

(* Rows whose work survives under another id, and that id.                 *)
Doomed(t) == IF Of(t, {"consistency"}) = {} THEN {} ELSE Of(t, Aliased)
Heir(t) == Min(Of(t, {"consistency"}))

NewTask(task) == IF task \in Aliased THEN "consistency" ELSE task

(* A job that waited for a doomed row waits for its heir, but the heir does *)
(* not wait for itself; the edges mended are those of the rows read before *)
(* the transaction.  A dropped job has no heir: who waited for it is ready. *)
ToDead(t, id) == \E k \in DOMAIN t : k = t[id].dep /\ t[k].task \in Dead

NewDep_ToItself(t, read, id) ==
    IF t[id].dep \in read.doomed THEN read.heir
    ELSE IF ToDead(t, id) THEN None ELSE t[id].dep

NewDep(t, read, id) ==
    IF t[id].dep \in read.doomed THEN IF id = read.heir THEN None ELSE read.heir
    ELSE IF ToDead(t, id) THEN None ELSE t[id].dep

(* The rows deleted are those the transaction finds.                       *)
Gone(t) == Doomed(t) \union {id \in DOMAIN t : t[id].task \in Dead}

Retasked(t, read) ==
    [id \in DOMAIN t \ Gone(t) |->
        [t[id] EXCEPT !.task = NewTask(@), !.dep = NewDep(t, read, id)]]

(* depends_on references the table, and the reference is enforced.         *)
EdgesHold(t) == \A id \in DOMAIN t : t[id].dep \in DOMAIN t \union {None}

----------------------------------------------------------------------------
(* The store as an earlier build left it *)

Tables ==
    {t \in [OldJobs -> [task : Current \union Retired, status : {"pending"},
                        dep : OldJobs \union {None}]] :
        /\ \A id \in OldJobs : t[id].dep < id
        /\ \A task \in Current \union Retired : Cardinality(Of(t, {task})) <= 1
        /\ ~Chains => \A id \in LiveSweeps(t) :
              t[id].dep # None => t[t[id].dep].task \in Sweeps}

Init ==
    /\ jobs \in Tables
    /\ check = Current \union Retired
    /\ columns = {} /\ stamp = FALSE
    /\ opener = [o \in Openers |-> [at |-> "closed"]]
    /\ queued = 0 /\ crashes = 0
    /\ owed = (LiveSweeps(jobs) # {})
    /\ behind = {id \in DOMAIN jobs : jobs[id].dep \in LiveSweeps(jobs)} \ LiveSweeps(jobs)

----------------------------------------------------------------------------
(* Whoever runs the queue *)

(* Any process that has the store open runs jobs; the earlier build has it *)
(* open all along, until its tasks are refused.                            *)
Finish(id) ==
    /\ id \in DOMAIN jobs /\ Ready(id)
    /\ jobs' = [jobs EXCEPT ![id].status = "done"]
    /\ owed' = (owed /\ jobs[id].task \notin Sweeps)
    /\ behind' = IF jobs[id].task \in Sweeps THEN {} ELSE behind
    /\ UNCHANGED <<check, queued, columns, stamp, opener, crashes>>

(* The earlier build queues a job, unless one like it is live.             *)
QueueOld(task, dep) ==
    LET id == Cardinality(OldJobs) + queued + 1 IN
    /\ queued < MaxQueued /\ task \in check /\ Of(jobs, {task}) = {}
    /\ dep \in DOMAIN jobs \union {None}
    /\ ~Chains => dep = None
    /\ queued' = queued + 1
    /\ jobs' = [i \in DOMAIN jobs \union {id} |->
                   IF i = id THEN [task |-> task, status |-> "pending", dep |-> dep]
                   ELSE jobs[i]]
    /\ owed' = (owed \/ task \in Sweeps)
    /\ UNCHANGED <<check, behind, columns, stamp, opener, crashes>>

----------------------------------------------------------------------------
(* The ladder *)

At(o, place) == opener[o].at = place
Go(o, record) == opener' = [opener EXCEPT ![o] = record]
Fail(o) == Go(o, [at |-> "closed"])

(* The tables that are missing are created, and the CHECK is read from the *)
(* catalog.                                                                *)
Open(o) ==
    /\ At(o, "closed")
    /\ Go(o, [at |-> IF check \intersect Retired # {} THEN "read"
                     ELSE IF Current \ check # {} THEN "rebuild" ELSE "column"])
    /\ UNCHANGED <<queue, columns, stamp, crashes>>

ReadDoomed(o) ==
    /\ At(o, "read")
    /\ Go(o, [at |-> "retire", doomed |-> Doomed(jobs),
              heir |-> IF Doomed(jobs) = {} THEN None ELSE Heir(jobs)])
    /\ UNCHANGED <<queue, columns, stamp, crashes>>

(* One transaction, committed by the rebuild before it begins its own; an  *)
(* edge left hanging aborts it and with it the open.                       *)
Retire(o) ==
    /\ At(o, "retire")
    /\ LET after == Retasked(jobs, opener[o]) IN
       IF EdgesHold(after)
       THEN jobs' = after /\ Go(o, [at |-> "rebuild"])
       ELSE jobs' = jobs /\ Fail(o)
    /\ UNCHANGED <<check, queued, owed, behind, columns, stamp, crashes>>

(* The copy is checked against the new table's CHECK: a row queued under a *)
(* retired name since the commit sends the opener away.                    *)
Rebuild(o) ==
    /\ At(o, "rebuild")
    /\ IF \A id \in DOMAIN jobs : jobs[id].task \in Current
       THEN check' = Current /\ Go(o, [at |-> "column"])
       ELSE check' = check /\ Fail(o)
    /\ UNCHANGED <<jobs, queued, owed, behind, columns, stamp, crashes>>

(* A column is looked for and then added, each on its own.                 *)
LookForColumn(o) ==
    /\ At(o, "column")
    /\ Go(o, IF Columns \subseteq columns THEN [at |-> "stamp"]
             ELSE [at |-> "add", column |-> CHOOSE c \in Columns \ columns : TRUE])
    /\ UNCHANGED <<queue, columns, stamp, crashes>>

(* Another opener may have added it in between, and SQLite refuses a       *)
(* column that exists.                                                     *)
AddColumn(o) ==
    /\ At(o, "add")
    /\ columns' = columns \union {opener[o].column}
    /\ IF opener[o].column \in columns THEN Fail(o) ELSE Go(o, [at |-> "column"])
    /\ UNCHANGED <<queue, stamp, crashes>>

Stamp(o) ==
    /\ At(o, "stamp")
    /\ stamp' = TRUE
    /\ Go(o, [at |-> "open"])
    /\ UNCHANGED <<queue, columns, crashes>>

Crash(o) ==
    /\ ~At(o, "closed") /\ ~At(o, "open") /\ crashes < MaxCrashes
    /\ crashes' = crashes + 1
    /\ Fail(o)
    /\ UNCHANGED <<queue, columns, stamp>>

Climb(o) ==
    \/ Open(o) \/ ReadDoomed(o) \/ Retire(o) \/ Rebuild(o)
    \/ LookForColumn(o) \/ AddColumn(o) \/ Stamp(o)

Next ==
    \/ \E o \in Openers : Climb(o) \/ Crash(o)
    \/ \E id \in JobIds : Finish(id)
    \/ \E task \in Sweeps \union Dead, dep \in JobIds \union {None} : QueueOld(task, dep)

(* A host whose store would not open degrades and tries again.             *)
Fairness == \A o \in Openers : WF_vars(Climb(o))

Spec == Init /\ [][Next]_vars /\ Fairness

----------------------------------------------------------------------------
(* Properties *)

TypeOK ==
    /\ DOMAIN jobs \subseteq JobIds
    /\ \A id \in DOMAIN jobs : jobs[id].task \in check
    /\ columns \subseteq Columns

(* A sweep that was asked for is still queued under some name until a      *)
(* sweep has run: renaming and collapsing lose no work.                    *)
SweepKept == owed => LiveSweeps(jobs) # {}

(* A job queued behind a sweep does not run before one has.                *)
NotEarly == \A id \in behind : id \in DOMAIN jobs => jobs[id].status = "pending"

(* No live jobs wait for one another, each for the next, for ever.         *)
NoneStuck ==
    \A S \in SUBSET DOMAIN jobs :
        S # {} => \E id \in S : ~Live(jobs, id) \/ jobs[id].dep \notin S

(* Every process opens the store in the end, and then it has this build's  *)
(* tasks, columns and version, whatever died on the way.                   *)
Converges ==
    <>[](/\ \A o \in Openers : At(o, "open")
         /\ check = Current /\ columns = Columns /\ stamp)
=============================================================================
