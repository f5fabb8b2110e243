----------------------------- MODULE Federation -----------------------------
(***************************************************************************)
(* Records of another database, held as pointers.                          *)
(*                                                                         *)
(* A federate_sweep job reads a declared database it does not own: first   *)
(* the rows past its watermark, then, with what is left of its budget, a   *)
(* page of the rows it already has, since an edited row keeps its id.  For *)
(* a row whose content hash moved it writes the pointer with the new text, *)
(* drops the vector of the old text and appends a federated event, each in *)
(* a transaction of its own; the watermark and the rescan cursor are       *)
(* written once, at the end.  Embed jobs run beside it, and the rows       *)
(* change whenever their owner likes.                                      *)
(***************************************************************************)
EXTENDS Integers, FiniteSets, Sequences, SequencesExt

CONSTANTS
    Rows,           \* row ids of the external table, 1 .. n
    MaxVersion,     \* bound on the texts the external rows ever have
    Budget,         \* _FEDERATE_ROW_BUDGET
    Sweepers,       \* runners that can sweep this database at one time
    MaxCrashes,     \* bound on processes that die in a sweep
    Embeds          \* whether anything asks for vectors of the rows

VARIABLES
    numbering,      \* what id a new row of the table gets
    highest,        \* the highest id a row ever had
    source,         \* the external table: row -> text, None when absent
    texts,          \* how many texts were written so far
    pointers,       \* row -> [id, text] of its pointer, or NoPointer
    minted,         \* how many pointer ids were made up
    vectors,        \* row -> the text its vector was made of, or None
    events,         \* federated events: <<row, pointer id, text>>
    state,          \* federation_watermarks: [watermark, cursor]
    sweeps,         \* what each running sweep is at, or Resting
    jobs,           \* embed jobs: row -> the texts asked for, newest last
    embedding,      \* the job being embedded: <<row, text>>, or <<>>
    crashes

table == <<numbering, highest, source, texts>>
sweepVars == <<pointers, minted, events, state, sweeps>>
vectorVars == <<jobs, embedding>>
vars == <<table, vectors, sweepVars, vectorVars, crashes>>

None == 0
NoPointer == [id |-> 0, text |-> 0]
Resting == [at |-> "rest"]

Present == {r \in Rows : source[r] # None}
Least(S, n) == {r \in S : Cardinality({q \in S : q < r}) < n}
TopOf(S, floor) == CHOOSE m \in S \cup {floor} : \A q \in S \cup {floor} : q <= m

----------------------------------------------------------------------------
Init ==
    /\ numbering \in {"serial", "rowid", "hash"} /\ highest = 0
    /\ source = [r \in Rows |-> None] /\ texts = 0
    /\ pointers = [r \in Rows |-> NoPointer] /\ minted = 0
    /\ vectors = [r \in Rows |-> None] /\ events = {}
    /\ state = [watermark |-> 0, cursor |-> 0]
    /\ sweeps = [s \in Sweepers |-> Resting]
    /\ jobs = [r \in Rows |-> <<>>] /\ embedding = <<>>
    /\ crashes = 0

----------------------------------------------------------------------------
(* The owner of the database *)

Write(r) ==
    /\ texts < MaxVersion
    /\ texts' = texts + 1
    /\ source' = [source EXCEPT ![r] = texts + 1]
    /\ UNCHANGED <<numbering, vectors, sweepVars, vectorVars, crashes>>

(* SQLite hands an id out once when told to (AUTOINCREMENT), and else the   *)
(* one above the highest there is, which a deleted row may have had; a     *)
(* hash of a text id falls anywhere.                                       *)
NextId(r) ==
    \/ numbering = "serial" /\ r = highest + 1
    \/ numbering = "rowid" /\ r = TopOf(Present, 0) + 1
    \/ numbering = "hash"

Insert ==
    \E r \in Rows \ Present :
        NextId(r) /\ highest' = TopOf({r}, highest) /\ Write(r)

Edit == \E r \in Present : Write(r) /\ UNCHANGED highest

Delete ==
    /\ \E r \in Present : source' = [source EXCEPT ![r] = None]
    /\ texts < MaxVersion /\ texts' = texts + 1
    /\ UNCHANGED <<numbering, highest, vectors, sweepVars, vectorVars, crashes>>

----------------------------------------------------------------------------
(* One sweep *)

(* The rows are read at once; what is done with them takes its time.       *)
Page(rows) == [i \in 1 .. Cardinality(rows) |->
                  LET r == CHOOSE q \in rows : Cardinality({p \in rows : p <= q}) = i
                  IN  [row |-> r, text |-> source[r]]]

SweepStart(s) ==
    LET new == Least({r \in Present : r > state.watermark}, Budget) IN
    /\ sweeps[s] = Resting
    /\ sweeps' = [sweeps EXCEPT ![s] =
          [at |-> "ingest", left |-> Page(new), used |-> Cardinality(new),
           began |-> state, watermark |-> TopOf(new, state.watermark), cursor |-> state.cursor]]
    /\ UNCHANGED <<table, pointers, minted, vectors, events, state, vectorVars, crashes>>

(* The lap before this one reached the ceiling: start over. *)
LapStart(w) == IF w.cursor >= w.began.watermark THEN 0 ELSE w.cursor

(* Mutant: the row at the ceiling is left to a lap that never comes.       *)
LapRows_BelowCeiling(w, room) ==
    Least({r \in Present : LapStart(w) < r /\ r < w.began.watermark}, room)

(* The next rows of the lap, of those that earlier runs took in.           *)
LapRows(w, room) ==
    Least({r \in Present : LapStart(w) < r /\ r <= w.began.watermark}, room)

(* What is left of the budget after the new rows.  A short page ends a lap. *)
Rescan(s) ==
    LET w == sweeps[s]
        room == Budget - w.used
        rows == LapRows(w, room)
        lapping == room > 0 /\ w.began.watermark > 0
    IN
    /\ w.at = "ingest" /\ w.left = <<>>
    /\ sweeps' = [sweeps EXCEPT ![s].at = "rescan",
          ![s].left = IF lapping THEN Page(rows) ELSE <<>>,
          ![s].cursor = IF ~lapping THEN @
                        ELSE IF Cardinality(rows) >= room THEN TopOf(rows, 0) ELSE 0]
    /\ UNCHANGED <<table, pointers, minted, vectors, events, state, vectorVars, crashes>>

(* The row is done with. *)
Onward(w) == [w EXCEPT !.left = Tail(w.left)]

Working(s) == sweeps[s].at \in {"ingest", "rescan"} /\ sweeps[s].left # <<>>

(* The hash of the pointer's cached text decides; a changed row starts by  *)
(* having its pointer looked up, whose id it will keep.                    *)
LookUp(s) ==
    /\ Working(s)
    /\ LET row == Head(sweeps[s].left)  p == pointers[row.row] IN
           sweeps' = [sweeps EXCEPT ![s] =
               IF p.text = row.text THEN Onward(sweeps[s])
               ELSE [at |-> "write", found |-> p, saved |-> sweeps[s]]]
    /\ UNCHANGED <<table, pointers, minted, vectors, events, state, vectorVars, crashes>>

Row(s) == Head(sweeps[s].saved.left)

(* Mutant: every write makes up a new id. *)
IdOf_New(found) == minted + 1

(* The id it has, so that what refers to the pointer still finds it. *)
IdOf(found) == IF found.id = 0 THEN minted + 1 ELSE found.id

WritePointer(s) ==
    /\ sweeps[s].at = "write"
    /\ LET id == IdOf(sweeps[s].found) IN
           /\ pointers' = [pointers EXCEPT ![Row(s).row] = [id |-> id, text |-> Row(s).text]]
           /\ minted' = IF id > minted THEN id ELSE minted
           /\ sweeps' = [sweeps EXCEPT ![s] =
                 [at |-> IF sweeps[s].found.id = 0 THEN "event" ELSE "drop", id |-> id, saved |-> @.saved]]
    /\ UNCHANGED <<table, vectors, events, state, vectorVars, crashes>>

(* The old text's vector and passages go, once the pointer has the new one. *)
DropVector(s) ==
    /\ sweeps[s].at = "drop"
    /\ vectors' = [vectors EXCEPT ![Row(s).row] = None]
    /\ sweeps' = [sweeps EXCEPT ![s].at = "event"]
    /\ UNCHANGED <<table, pointers, minted, events, state, vectorVars, crashes>>

AppendFederated(s) ==
    /\ sweeps[s].at = "event"
    /\ events' = events \cup {<<Row(s).row, sweeps[s].id, Row(s).text>>}
    /\ sweeps' = [sweeps EXCEPT ![s] = Onward(sweeps[s].saved)]
    /\ UNCHANGED <<table, pointers, minted, vectors, state, vectorVars, crashes>>

SweepEnd(s) ==
    /\ sweeps[s].at = "rescan" /\ sweeps[s].left = <<>>
    /\ state' = [watermark |-> sweeps[s].watermark, cursor |-> sweeps[s].cursor]
    /\ sweeps' = [sweeps EXCEPT ![s] = Resting]
    /\ UNCHANGED <<table, pointers, minted, vectors, events, vectorVars, crashes>>

(* The process dies; the next sweep starts from the state last written.    *)
Crash(s) ==
    /\ crashes < MaxCrashes /\ sweeps[s] # Resting
    /\ crashes' = crashes + 1
    /\ sweeps' = [sweeps EXCEPT ![s] = Resting]
    /\ UNCHANGED <<table, pointers, minted, vectors, events, state, vectorVars>>

----------------------------------------------------------------------------
(* Vectors of rows *)

(* The tool that embeds rows without a vector is kept outside this code; it *)
(* queues the pointer's text as an embed job.                              *)
Backlog ==
    /\ Embeds
    /\ \E r \in Rows :
           /\ pointers[r] # NoPointer /\ vectors[r] = None
           /\ pointers[r].text \notin ToSet(jobs[r])
           /\ jobs' = [jobs EXCEPT ![r] = Append(@, pointers[r].text)]
    /\ UNCHANGED <<table, vectors, sweepVars, embedding, crashes>>

(* A row's text lives nowhere but in its embed jobs; the newest has it.     *)
NewestText(r) == Last(jobs[r])

(* A row that has a vector of this model is done. *)
EmbedStart ==
    /\ embedding = <<>>
    /\ \E r \in Rows :
           /\ jobs[r] # <<>>
           /\ IF vectors[r] # None
              THEN jobs' = [jobs EXCEPT ![r] = <<>>] /\ UNCHANGED embedding
              ELSE embedding' = <<r, NewestText(r)>> /\ UNCHANGED jobs
    /\ UNCHANGED <<table, vectors, sweepVars, crashes>>

EmbedEnd ==
    /\ embedding # <<>>
    /\ vectors' = [vectors EXCEPT ![embedding[1]] = embedding[2]]
    /\ jobs' = [jobs EXCEPT ![embedding[1]] = <<>>]
    /\ embedding' = <<>>
    /\ UNCHANGED <<table, sweepVars, crashes>>

----------------------------------------------------------------------------
Sweep(s) ==
    \/ SweepStart(s)
    \/ Rescan(s)
    \/ LookUp(s)
    \/ WritePointer(s)
    \/ DropVector(s)
    \/ AppendFederated(s)
    \/ SweepEnd(s)

Embed == EmbedStart \/ EmbedEnd

Next ==
    \/ Insert
    \/ Edit
    \/ Delete
    \/ \E s \in Sweepers : Sweep(s) \/ Crash(s)
    \/ Backlog
    \/ Embed

(* The sweep is an entry of the maintenance schedule and comes round again. *)
Spec == Init /\ [][Next]_vars /\ \A s \in Sweepers : WF_vars(Sweep(s))

----------------------------------------------------------------------------
AtRest == \A s \in Sweepers : sweeps[s] = Resting

TypeOK ==
    /\ \A r \in Rows : source[r] \in 0 .. MaxVersion /\ vectors[r] \in 0 .. MaxVersion
    /\ \A r \in Rows : pointers[r].text \in 0 .. MaxVersion /\ pointers[r].id \in 0 .. minted
    /\ state.watermark \in 0 .. Cardinality(Rows) /\ state.cursor \in 0 .. Cardinality(Rows)

(* Where an id is handed out once, no row at or below the watermark is      *)
(* without a pointer: nothing below it will be read as a new row again, so  *)
(* a sweep that dies halfway must not have moved it.                       *)
PassedRowsHeld ==
    numbering = "serial" => \A r \in Present : r <= state.watermark => pointers[r] # NoPointer

(* A row's pointer keeps its id for good, through every edit of the row and *)
(* every sweep that died: beliefs and events refer to it by that id.        *)
PointerKept ==
    [][\A r \in Rows : pointers[r].id # 0 => pointers'[r].id = pointers[r].id]_vars

(* When the owner has written for the last time, every row's pointer comes  *)
(* to hold its text and keeps it, whatever id the row had and whichever     *)
(* sweep died: new rows first, old ones by laps of the rescan.             *)
Mirrored ==
    \A r \in Rows, v \in 1 .. MaxVersion :
        <>[](source[r] = v) => <>[](pointers[r].text = v)

(* "Every write is an event, so provenance chains": while no sweep is       *)
(* running, what a pointer holds was told by an event.                     *)
WritesAreEvents ==
    AtRest => \A r \in Rows : pointers[r] # NoPointer =>
                  <<r, pointers[r].id, pointers[r].text>> \in events

(* While no sweep is running and nothing waits to be embedded, a row's      *)
(* vector was made of the text its pointer holds.                          *)
VectorTellsPointer ==
    AtRest /\ embedding = <<>> /\ (\A r \in Rows : jobs[r] = <<>>) =>
        \A r \in Rows : vectors[r] \in {None, pointers[r].text}
=============================================================================
