----------------------------- MODULE WriteBack -----------------------------
(***************************************************************************)
(* Changing the model of a store that stays in service: the vectors are    *)
(* recomputed on a frozen copy (scripts/migrate_vectors.py) and carried    *)
(* back into the live store row by row (scripts/writeback_vectors.py)      *)
(* while the agent goes on writing, deleting and healing rows.             *)
(*                                                                         *)
(* A row is [tag, of, whole]: the model's tag, the version of the text it  *)
(* embeds (0 when the vector is blank) and whether it embeds all of it.    *)
(* Version 1 is the text the copy holds.  The manifest, written before the *)
(* copy is migrated, is the constant function Manifest.  The copy is       *)
(* frozen but for the migration, so its rowids are positions in Order.     *)
(***************************************************************************)
EXTENDS Integers, Sequences, FiniteSets

CONSTANTS
    Keys,           \* natural keys of the rows of one vector table
    Order,          \* every key once, in the copy's rowid order
    Aliased,        \* rows the right model wrote under a stale spelling
    AtRisk,         \* rows whose text exceeds the old payload clamp
    Batch,          \* rows per transaction
    OldBuild,       \* the agent still embeds only the head of such a text
    QuietWhileDown, \* the agent leaves the store alone while the tool is down
    MaxTexts,       \* bound: versions of a text
    MaxCrashes      \* bound: kills of the migration and of the tool together

VARIABLES
    copy,           \* key -> row of the copy
    live,           \* key -> row of the live store, or Gone
    text,           \* key -> version of the live text
    queued,         \* keys with a pending or running embed job
    pc,             \* what the operator is running
    disk,           \* the walk's cursor and, for the tool, its inflight record
    crashes

vars == <<copy, live, text, queued, pc, disk, crashes>>

Row(tag, n, whole) == [tag |-> tag, of |-> n, whole |-> whole]
Gone == Row("gone", 0, FALSE)
Blank == Row("null", 0, FALSE)

Manifest == [k \in Keys |-> Row(IF k \in Aliased THEN "alias" ELSE "old", 1, TRUE)]

NoFlight == [rows |-> {}, after |-> 0]

(* The next page of the walk: rows after the cursor, in rowid order. *)
PageEnd == IF disk.cursor + Batch < Len(Order) THEN disk.cursor + Batch ELSE Len(Order)
Page == {Order[i] : i \in disk.cursor + 1 .. PageEnd}

----------------------------------------------------------------------------
(* The agent on the live store *)

(* The tool checks and writes a batch under one BEGIN IMMEDIATE.            *)
AgentMayWrite == pc # "held" /\ ~(QuietWhileDown /\ pc = "down")

(* A session's summary moves on, with its vector or without one.           *)
Rewrite(k) ==
    /\ AgentMayWrite
    /\ live[k] # Gone /\ text[k] < MaxTexts
    /\ text' = [text EXCEPT ![k] = @ + 1]
    /\ \/ /\ live' = [live EXCEPT ![k] = Row("new", text[k] + 1, TRUE)]
          /\ UNCHANGED queued
       \/ /\ live' = [live EXCEPT ![k] = Blank]
          /\ queued' = queued \cup {k}
    /\ UNCHANGED <<copy, pc, disk, crashes>>

(* Forgotten, retracted or pruned. *)
Delete(k) ==
    /\ AgentMayWrite
    /\ live[k] # Gone
    /\ live' = [live EXCEPT ![k] = Gone]
    /\ UNCHANGED <<copy, text, queued, pc, disk, crashes>>

(* The health heal renames a stale spelling and queues an embed job for    *)
(* any other row that is not under the served tag.                         *)
Heal(k) ==
    /\ AgentMayWrite
    /\ live[k].tag \notin {"new", "gone"}
    /\ IF live[k].tag = "alias"
       THEN live' = [live EXCEPT ![k].tag = "new"] /\ UNCHANGED queued
       ELSE queued' = queued \cup {k} /\ UNCHANGED live
    /\ UNCHANGED <<copy, text, pc, disk, crashes>>

(* The embed job: nothing for a row that is gone or already current (tag   *)
(* and width, not content), else the vector of the text of that moment,  *)
(* or of its head when an old build clamps what it embeds.                 *)
Embed(k) ==
    /\ AgentMayWrite
    /\ k \in queued
    /\ queued' = queued \ {k}
    /\ IF live[k] = Gone \/ live[k].tag = "new"
       THEN UNCHANGED live
       ELSE live' = [live EXCEPT ![k] = Row("new", text[k], ~(OldBuild /\ k \in AtRisk))]
    /\ UNCHANGED <<copy, text, pc, disk, crashes>>

Agent == \E k \in Keys : Rewrite(k) \/ Delete(k) \/ Heal(k) \/ Embed(k)

----------------------------------------------------------------------------
(* migrate_vectors.py, on the copy *)

Classify(k) ==
    CASE copy[k].tag = "new"   -> "ok"
      [] copy[k].tag = "alias" -> "retag"
      [] OTHER                 -> "reembed"

(* Renames first, metadata only. *)
Retag ==
    /\ pc = "survey"
    /\ copy' = [k \in Keys |-> IF Classify(k) = "retag" THEN [copy[k] EXCEPT !.tag = "new"] ELSE copy[k]]
    /\ pc' = "reembed"
    /\ UNCHANGED <<live, text, queued, disk, crashes>>

(* A page is embedded outside the transaction and written in one.  Rows    *)
(* whose embedding failed, or whose text cannot be rebuilt, stay as they   *)
(* are.                                                                    *)
Reembed ==
    /\ pc = "reembed"
    /\ disk.cursor < Len(Order)
    /\ \E done \in SUBSET {k \in Page : Classify(k) = "reembed"} :
         copy' = [k \in Keys |-> IF k \in done THEN Row("new", 1, TRUE) ELSE copy[k]]
    /\ disk' = [disk EXCEPT !.cursor = PageEnd]
    /\ UNCHANGED <<live, text, queued, pc, crashes>>

(* The walk is over: the operator takes what was converted as it is, or    *)
(* runs the migration again (exit code 2).                                 *)
Migrated ==
    /\ pc = "reembed"
    /\ disk.cursor = Len(Order)
    /\ pc' = "walk"
    /\ disk' = [disk EXCEPT !.cursor = 0]
    /\ UNCHANGED <<copy, live, text, queued, crashes>>

(* Killed, or stopped because the endpoint went away: nothing is remembered *)
(* but the rows, and the next run finds what still needs work.             *)
MigrationStops ==
    /\ pc = "reembed"
    /\ crashes < MaxCrashes
    /\ crashes' = crashes + 1
    /\ pc' = "survey"
    /\ disk' = [disk EXCEPT !.cursor = 0]
    /\ UNCHANGED <<copy, live, text, queued>>

----------------------------------------------------------------------------
(* writeback_vectors.py, on the live store *)

(* W7: only what the migration changed is carried back. *)
Candidates == {k \in Page : copy[k] # Manifest[k]}


(* W1 the row exists, W4 no job owns it, W3 its text is the one the copy   *)
(* embedded, W2 it still holds the vector of the snapshot - which W6       *)
(* waives for a text an older build may have truncated.                    *)
Accepted(k) ==
    /\ live[k] # Gone
    /\ k \notin queued
    /\ text[k] = 1
    /\ k \in AtRisk \/ live[k] = Manifest[k]

(* Inside the transaction, before the commit, the intent goes to disk.     *)
ApplyBatch ==
    /\ pc = "walk"
    /\ Candidates # {}
    /\ disk' = [disk EXCEPT !.inflight = [rows |-> {k \in Candidates : Accepted(k)}, after |-> PageEnd]]
    /\ pc' = "held"
    /\ UNCHANGED <<copy, live, text, queued, crashes>>

Commit ==
    /\ pc = "held"
    /\ live' = [k \in Keys |-> IF k \in disk.inflight.rows THEN copy[k] ELSE live[k]]
    /\ pc' = "committed"
    /\ UNCHANGED <<copy, text, queued, disk, crashes>>

(* A page without candidates opens no transaction. *)
SaveCursor ==
    /\ pc = "committed" \/ (pc = "walk" /\ Page # {} /\ Candidates = {})
    /\ disk' = [cursor |-> PageEnd, inflight |-> NoFlight]
    /\ pc' = "walk"
    /\ UNCHANGED <<copy, live, text, queued, crashes>>

(* A batch that was not committed is rolled back. *)
Crash ==
    /\ pc \in {"walk", "held", "committed"}
    /\ crashes < MaxCrashes
    /\ crashes' = crashes + 1
    /\ pc' = "down"
    /\ UNCHANGED <<copy, live, text, queued, disk>>

(* Mutant: the journal is taken for the commit. *)
Reconciled_Trusts(flight) == flight.after # 0

(* Did the interrupted batch commit?  One row that holds what was intended *)
(* is taken for the answer.                                                *)
Reconciled(flight) == \E k \in flight.rows : live[k] = copy[k]

ReconcileInflight ==
    /\ pc = "down"
    /\ disk' = [cursor   |-> IF Reconciled(disk.inflight) THEN disk.inflight.after ELSE disk.cursor,
                inflight |-> NoFlight]
    /\ pc' = "walk"
    /\ UNCHANGED <<copy, live, text, queued, crashes>>

Complete ==
    /\ pc = "walk"
    /\ disk.cursor = Len(Order)
    /\ pc' = "done"
    /\ UNCHANGED <<copy, live, text, queued, disk, crashes>>

----------------------------------------------------------------------------
Init ==
    /\ copy = Manifest
    /\ live = Manifest
    /\ text = [k \in Keys |-> 1]
    /\ queued = {}
    /\ pc = "survey"
    /\ disk = [cursor |-> 0, inflight |-> NoFlight]
    /\ crashes = 0

Tool == Retag \/ Reembed \/ Migrated \/ ApplyBatch \/ Commit \/ SaveCursor \/ ReconcileInflight \/ Complete

Next == Agent \/ Tool \/ MigrationStops \/ Crash

Spec == Init /\ [][Next]_vars

(* The operator reruns a tool until it says it is done; a busy_timeout of  *)
(* thirty seconds outwaits the agent's short write locks.                  *)
FairSpec == Spec /\ WF_vars(Tool)

----------------------------------------------------------------------------
(* Properties *)

(* What every variable may hold. *)
Entries == [tag : {"old", "alias", "new", "null", "gone"}, of : 0..MaxTexts, whole : BOOLEAN]
TypeOK ==
    /\ copy \in [Keys -> Entries]
    /\ live \in [Keys -> Entries]
    /\ text \in [Keys -> 1..MaxTexts]
    /\ queued \subseteq Keys
    /\ pc \in {"survey", "reembed", "walk", "held", "committed", "down", "done"}
    /\ disk \in [cursor : 0..Len(Order), inflight : [rows : SUBSET Keys, after : 0..Len(Order)]]
    /\ crashes \in 0..MaxCrashes

(* Whatever a batch commits is the vector, of the served model, of the     *)
(* whole text the live row has at that moment: a summary that went on      *)
(* while the copy was being migrated never gets its old vector back under  *)
(* the new tag, which no later pass would question.                        *)
WritesTrue ==
    [][pc = "held" /\ pc' = "committed" =>
         \A k \in Keys : live'[k] # live[k] => live'[k] = Row("new", text[k], TRUE)]_vars

(* What was forgotten on the live store after the copy was taken stays     *)
(* forgotten (W1), whatever is retried after whatever crash.               *)
ForgottenStaysForgotten ==
    [][\A k \in Keys : live[k] = Gone => live'[k] = Gone]_vars

(* When the tool says it is complete, no row the migration converted still *)
(* holds the vector of before: it was carried back, or the agent rewrote   *)
(* or deleted it or has a job for it.  No crash makes the walk step over   *)
(* a batch that was never committed.                                       *)
NoneLeftBehind ==
    pc = "done" => \A k \in Keys : copy[k] # Manifest[k] => live[k] # Manifest[k] \/ k \in queued

(* A cursor on disk is behind what has been committed: at any moment the   *)
(* rows before it are accounted for.                                       *)
CursorIsHonest ==
    pc \in {"walk", "held", "committed", "down"} =>
        \A i \in 1..disk.cursor :
            LET k == Order[i] IN copy[k] # Manifest[k] => live[k] # Manifest[k] \/ k \in queued

(* The migration and the write-back come to an end whatever the agent does *)
(* meanwhile, once nobody kills them any more.                             *)
Finishes == <>(pc = "done")
============================================================================
