------------------------------- MODULE Sweeps --------------------------------
(***************************************************************************)
(* A resumable sweep (engine/sweeps.py): next_row_page or                  *)
(* next_distinct_page picks the next budget keys after a persisted cursor, *)
(* the task handles them, and commit saves the new cursor.  A key is a     *)
(* rowid or the value of a grouping column; Start is the cursor before     *)
(* every key (0 for rows, None for groups, whose least value is '').       *)
(*                                                                         *)
(* Sweepers are the processes that may run the same sweep.  The reads of   *)
(* one page are separate statements, so rows change between them.  A run   *)
(* may be abandoned anywhere: the process dies, or a handler raises and    *)
(* fails the whole job.                                                    *)
(*                                                                         *)
(* An operator X_variant before X is not part of the model: it is a        *)
(* plausible defect of the code behind X, caught by a property.            *)
(***************************************************************************)
EXTENDS Integers, FiniteSets

CONSTANTS
    Keys,         \* the keys a table may hold
    Budget,       \* sweep_budget: keys per run
    Sweepers,     \* the processes that run this sweep
    CommitFirst,  \* TRUE for the backfill sweep, which commits, then handles
    MaxAborts     \* bound: runs abandoned half way

ASSUME KeysAssumption == Keys \subseteq Nat \ {0} /\ IsFiniteSet(Keys)
ASSUME BudgetAssumption == Budget \in Nat \ {0}
ASSUME OrderAssumption == CommitFirst \in BOOLEAN
ASSUME AbortsAssumption == MaxAborts \in Nat

Start == 0

VARIABLES
    eligible,  \* the keys the sweep's WHERE clause matches now
    cursor,    \* meta row sweep:<name>: its "cursor"
    pc,        \* per sweeper: where its run is
    from,      \* per sweeper: the cursor its run resumed from
    todo,      \* per sweeper: keys of its page still to handle
    upto,      \* per sweeper: the last key of its page, then the cursor to save
    aborts,    \* bound counter
    steady,    \* history: keys eligible since the present lap began
    seen,      \* history: keys handled in the present lap
    missed     \* history: steady keys the last lap did not handle

run == <<pc, from, todo, upto>>
history == <<steady, seen, missed>>
vars == <<eligible, cursor, pc, from, todo, upto, aborts, steady, seen, missed>>

Ahead(k) == {e \in eligible : e > k}

Init ==
    /\ eligible \in SUBSET Keys
    /\ cursor = Start
    /\ pc = [s \in Sweepers |-> "idle"]
    /\ from = [s \in Sweepers |-> Start]
    /\ todo = [s \in Sweepers |-> {}]
    /\ upto = [s \in Sweepers |-> Start]
    /\ aborts = 0
    /\ steady = eligible /\ seen = {} /\ missed = {}

Goto(s, label) == pc' = [pc EXCEPT ![s] = label]

-----------------------------------------------------------------------------
(* One run *)

\* _cursor_int, _cursor_text: where the last run left off.
Resume(s) ==
    /\ pc[s] = "idle"
    /\ Goto(s, "scan")
    /\ from' = [from EXCEPT ![s] = cursor]
    /\ UNCHANGED <<eligible, cursor, todo, upto, aborts, history>>

\* scan_beliefs_after, scan_distinct_after: ... > after ORDER BY ... LIMIT budget.
IsPage(P, k) ==
    /\ Cardinality(P) <= Budget
    /\ P # Ahead(k) => Cardinality(P) = Budget
    /\ \A p \in P : \A q \in Ahead(k) \ P : p < q

AfterPage == IF CommitFirst THEN "commit" ELSE "work"

\* A short page ends the lap: the cursor wraps.
ShortPage_NoWrap(s, P) ==
    /\ Cardinality(P) < Budget
    /\ \E last \in P \cup {from[s]} :
          /\ \A p \in P : p <= last
          /\ upto' = [upto EXCEPT ![s] = last]
    /\ Goto(s, AfterPage)
ShortPage(s, P) ==
    /\ Cardinality(P) < Budget
    /\ upto' = [upto EXCEPT ![s] = Start]
    /\ Goto(s, AfterPage)

FullPage(s, P) ==
    /\ Cardinality(P) = Budget
    /\ \E last \in P :
          /\ \A p \in P : p <= last
          /\ upto' = [upto EXCEPT ![s] = last]
    /\ Goto(s, "count")

Scan(s) ==
    /\ pc[s] = "scan"
    /\ \E P \in SUBSET Ahead(from[s]) :
          /\ IsPage(P, from[s])
          /\ ShortPage(s, P) \/ FullPage(s, P)
          /\ todo' = [todo EXCEPT ![s] = P]
    /\ UNCHANGED <<eligible, cursor, from, aborts, history>>

\* count_beliefs_after, count_distinct_after: nothing remains => wrap as well.
NextCursor_AlwaysWrap(last) == Start
NextCursor(last) == IF Ahead(last) = {} THEN Start ELSE last

Count(s) ==
    /\ pc[s] = "count"
    /\ upto' = [upto EXCEPT ![s] = NextCursor(upto[s])]
    /\ Goto(s, AfterPage)
    /\ UNCHANGED <<eligible, cursor, from, todo, aborts, history>>

\* The task handles its rows in key order; rows may have changed since.
Handle(s) ==
    /\ pc[s] = "work"
    /\ \E k \in todo[s] :
          /\ \A other \in todo[s] : k <= other
          /\ todo' = [todo EXCEPT ![s] = @ \ {k}]
          /\ seen' = seen \cup {k}
    /\ UNCHANGED <<eligible, cursor, pc, from, upto, aborts, steady, missed>>

PageHandled(s) ==
    /\ pc[s] = "work"
    /\ todo[s] = {}
    /\ Goto(s, IF CommitFirst THEN "idle" ELSE "commit")
    /\ UNCHANGED <<eligible, cursor, from, todo, upto, aborts, history>>

\* commit: cursor and report in one write.  Start begins the next lap.
Commit(s) ==
    /\ pc[s] = "commit"
    /\ cursor' = upto[s]
    /\ Goto(s, IF CommitFirst THEN "work" ELSE "idle")
    /\ IF upto[s] = Start
       THEN steady' = eligible /\ seen' = {} /\ missed' = steady \ seen
       ELSE UNCHANGED history
    /\ UNCHANGED <<eligible, from, todo, upto, aborts>>

Abandon(s) ==
    /\ pc[s] # "idle"
    /\ aborts < MaxAborts
    /\ aborts' = aborts + 1
    /\ Goto(s, "idle")
    /\ todo' = [todo EXCEPT ![s] = {}]
    /\ UNCHANGED <<eligible, cursor, from, upto, history>>

\* The rest of the engine: a row appears, or a change makes it match.
BecomesEligible ==
    /\ \E k \in Keys \ eligible : eligible' = eligible \cup {k}
    /\ UNCHANGED <<cursor, run, aborts, history>>

BecomesIneligible ==
    /\ \E k \in eligible : eligible' = eligible \ {k} /\ steady' = steady \ {k}
    /\ UNCHANGED <<cursor, run, aborts, seen, missed>>

RunStep(s) ==
    \/ Resume(s)
    \/ Scan(s)
    \/ Count(s)
    \/ Handle(s)
    \/ PageHandled(s)
    \/ Commit(s)

Next ==
    \/ \E s \in Sweepers : RunStep(s) \/ Abandon(s)
    \/ BecomesEligible
    \/ BecomesIneligible

Spec == Init /\ [][Next]_vars

\* The curation queue runs every sweep again and again (FairDrain, JobQueue).
FairSpec == Spec /\ \A s \in Sweepers : WF_vars(RunStep(s))

-----------------------------------------------------------------------------
(* Properties *)

TypeOK ==
    /\ eligible \subseteq Keys
    /\ cursor \in Keys \cup {Start}
    /\ pc \in [Sweepers -> {"idle", "scan", "count", "work", "commit"}]
    /\ from \in [Sweepers -> Keys \cup {Start}]
    /\ todo \in [Sweepers -> SUBSET Keys]
    /\ upto \in [Sweepers -> Keys \cup {Start}]
    /\ aborts \in 0 .. MaxAborts
    /\ steady \subseteq eligible
    /\ seen \subseteq Keys
    /\ missed \subseteq Keys

\* The cursor never passes over work: a key that has matched since the lap
\* began and lies behind the saved cursor was handled in this lap, whatever
\* changed, whichever run was abandoned (sweeps.py: commit after the loop).
NothingPassedOver == \A k \in steady : k <= cursor => k \in seen

\* A lap that ends has covered the table: when a run reports that nothing
\* remains, every key that matched throughout the lap was handled in it.
QuietMeansDone == missed = {}

\* What makes both inductive with one sweeper: its page holds every steady key
\* between the cursor it resumed from and the cursor it is about to save.
Covered(s, k) == k <= from[s] \/ k \in seen \/ k \in todo[s]
RunCovers(s) ==
    /\ pc[s] \in {"scan", "count", "work", "commit"} => from[s] = cursor
    /\ pc[s] = "count" =>
          /\ upto[s] # Start
          /\ \A k \in steady : k <= upto[s] => Covered(s, k)
    /\ pc[s] \in {"work", "commit"} =>
          \A k \in steady : (upto[s] = Start \/ k <= upto[s]) => Covered(s, k)
    /\ pc[s] = "commit" => todo[s] = {}
SweepInv ==
    /\ NothingPassedOver
    /\ QuietMeansDone
    /\ \A s \in Sweepers : RunCovers(s)

\* No key starves: a key that keeps matching is handled again and again, one
\* that matched only after the cursor passed it included.
Visited == \A k \in Keys : []<>(k \in eligible => k \in seen)
=============================================================================
