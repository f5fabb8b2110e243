---------------------------- MODULE VectorCache ----------------------------
(***************************************************************************)
(* The in-memory copies of a vector table (engine/vector_cache.py) against *)
(* the processes that write the table.  A search asks whether its copy is  *)
(* current with three reads, each its own statement: the write generation, *)
(* the count, top rowid and row at the old top, and then the rows to load. *)
(* Two designs: "observed" keeps the rows of the last width asked for,     *)
(* "projection" one copy per width, that picks candidates which are read   *)
(* again and scored exactly.                                               *)
(***************************************************************************)
EXTENDS Integers, Sequences, FiniteSets, FiniteSetsExt, Functions

CONSTANTS
    Designs,        \* of "observed" and "projection"
    Ids,            \* natural keys of the table
    RecordOf,       \* per key: the record it is a vector of
    Scores,         \* what a vector scores for the question
    Unfit,          \* scores of vectors that half precision cannot hold
    Widths,         \* widths of a vector
    Floor,          \* a candidate scores above it
    Limit,          \* records a search keeps
    Rounding,       \* the most half precision moves a score
    MaxRows,        \* the cache serves a table up to this size
    Beside,         \* whether rows may go between the two reads of an append
    MaxRowid,       \* bound: rowids
    MaxWrites,      \* bound: writes
    MaxFailures     \* bound: reads that fail

VARIABLES
    design,         \* "observed" or "projection"
    rows,           \* the table: rowid -> [id, what, width, at]
    gen,            \* meta "vecgen:<table>"
    log,            \* observed: the captured turns
    replaying,      \* observed: the position a rebuild replays, or 0
    writes,
    outlived,       \* history: the copy was loaded before a rebuild emptied the table
    copies,         \* per width: the copy in memory
    failures,
    pc,
    call,           \* the width asked for and what has been read so far
    result,
    seen            \* ghost: the table when the call began, and how often it was written since

table == <<rows, gen, log, replaying, writes, outlived>>
vars == <<design, table, copies, failures, pc, call, result, seen>>

NoRow == [id |-> "none", what |-> 0, width |-> "none", at |-> 0]
NoRows == [r \in {} |-> NoRow]
NoCopy == [has |-> FALSE, rows |-> NoRows, count |-> 0, max |-> 0, top |-> NoRow, gen |-> 0]
NoAnswer == [r \in {0} |-> NoRow]

Highest(S) == IF S = {} THEN 0 ELSE Max(S)
At(t, r) == IF r \in DOMAIN t THEN t[r] ELSE NoRow
OfWidth(t, w) == Restrict(t, {r \in DOMAIN t : t[r].width = w})

(* The rows whose number and top the check reads: of the width asked for,  *)
(* or the whole table.                                                     *)
Counted(t) == IF design = "observed" THEN OfWidth(t, call.width) ELSE t

----------------------------------------------------------------------------
(* The table changes *)

Put(t, r, row) == [x \in DOMAIN t \cup {r} |-> IF x = r THEN row ELSE t[x]]
Without(t, id) == Restrict(t, {r \in DOMAIN t : t[r].id # id})
Row(id, what, width, at) == [id |-> id, what |-> what, width |-> width, at |-> at]
Stored(id) == \E r \in DOMAIN rows : rows[r].id = id

Write(new) ==
    /\ writes < MaxWrites
    /\ writes' = writes + 1
    /\ rows' = new
    /\ seen' = [seen EXCEPT !.moves = IF @ = 2 THEN 2 ELSE @ + 1]
    /\ UNCHANGED <<design, copies, failures, pc, call, result>>

(* INSERT OR REPLACE: a row that is replaced moves to a rowid of its own   *)
(* on top, one that is new may get that of a row deleted there.            *)
Inserted(id, what, width, at) ==
    /\ Highest(DOMAIN rows) < MaxRowid
    /\ Write(Put(Without(rows, id), Highest(DOMAIN rows) + 1, Row(id, what, width, at)))

(* A job of the embedding backlog, stamped with the time of its write.     *)
Embed(id, what, width) ==
    /\ design = "projection" \/ id \in Range(log)
    /\ Inserted(id, what, width, writes + 1)
    /\ UNCHANGED <<gen, log, replaying, outlived>>

(* The row of a captured turn has the time of its event.                   *)
Capture(id, what, width) ==
    /\ design = "observed" /\ id \notin Range(log)
    /\ Inserted(id, what, width, 0)
    /\ log' = Append(log, id)
    /\ UNCHANGED <<gen, replaying, outlived>>

(* What ProjectionExact depends on: nothing is deleted between the read    *)
(* that finds only new rows on top and the read that loads them.           *)
MayDelete == Beside \/ pc # "append"

(* A rebuild empties the table and replays the log: the same turns, with   *)
(* the vectors that the embedder of now gives, or none.                    *)
Truncate ==
    /\ replaying = 0 /\ rows # NoRows /\ MayDelete
    /\ Write(NoRows)
    /\ replaying' = IF log = <<>> THEN 0 ELSE 1
    /\ outlived' = TRUE
    /\ UNCHANGED <<gen, log>>

Replay ==
    /\ replaying > 0
    /\ replaying' = IF replaying = Len(log) THEN 0 ELSE replaying + 1
    /\ \/ \E what \in Scores, width \in Widths : Inserted(log[replaying], what, width, 0)
       \/ Write(rows)
    /\ UNCHANGED <<gen, log, outlived>>

(* A turn forgotten or pruned, a record whose source row changed.          *)
Delete(id) ==
    /\ Stored(id) /\ MayDelete
    /\ Write(Without(rows, id))
    /\ UNCHANGED <<gen, log, replaying, outlived>>

(* The write-back script updates a row where it stands, and the generation *)
(* moves in the same commit.                                               *)
Rewrite(id, what, width) ==
    /\ Stored(id)
    /\ Write([r \in DOMAIN rows |-> IF rows[r].id = id THEN Row(id, what, width, rows[r].at) ELSE rows[r]])
    /\ gen' = gen + 1
    /\ UNCHANGED <<log, replaying, outlived>>

----------------------------------------------------------------------------
(* Is the copy current? *)

Mine == copies[call.width]

Begin(w) ==
    /\ pc \in {"idle", "done"}
    /\ pc' = "generation"
    /\ call' = [width |-> w, gen |-> 0, count |-> 0, max |-> 0, picked |-> NoRows]
    /\ result' = NoAnswer
    /\ seen' = [rows |-> rows, moves |-> 0]
    /\ UNCHANGED <<design, table, copies, failures>>

ReadGeneration ==
    /\ pc = "generation"
    /\ pc' = "state"
    /\ call' = [call EXCEPT !.gen = gen]
    /\ UNCHANGED <<design, table, copies, failures, result, seen>>

(* The row at the rowid that was the top is the one it was.                *)
Anchored == At(rows, Mine.max) = Mine.top

(* An update in place shows in nothing but the generation.                 *)
Unwritten == call.gen = Mine.gen

Verdict(count, max) ==
    CASE count > MaxRows -> "done"
      [] count <= MaxRows /\ ~(Unwritten /\ Mine.has /\ Anchored) -> "rebuild"
      [] OTHER -> CASE count = Mine.count /\ max = Mine.max -> "serve"
                    [] count > Mine.count /\ Mine.count >= 0 /\ max > Mine.max -> "append"
                    [] OTHER -> "rebuild"

ReadState ==
    LET t == Counted(rows)
        count == Cardinality(DOMAIN t)
        max == Highest(DOMAIN t)
    IN  /\ pc = "state"
        /\ pc' = Verdict(count, max)
        /\ call' = [call EXCEPT !.count = count, !.max = max]
        /\ copies' = IF count > MaxRows /\ design = "projection" THEN [w \in Widths |-> NoCopy] ELSE copies
        /\ UNCHANGED <<design, table, failures, result, seen>>

----------------------------------------------------------------------------
(* Loading *)

Hold(copy) ==
    copies' = IF design = "observed" THEN [w \in Widths |-> IF w = call.width THEN copy ELSE NoCopy]
              ELSE [copies EXCEPT ![call.width] = copy]

(* A copy that was loaded while the table moved remembers a count that     *)
(* nothing equals.                                                         *)
Rebuild ==
    LET t == Counted(rows)
        n == Cardinality(DOMAIN t)
        top == Highest(DOMAIN t)
    IN  /\ pc = "rebuild"
        /\ pc' = "serve"
        /\ Hold([has |-> TRUE, rows |-> OfWidth(rows, call.width), max |-> top, top |-> At(rows, top), gen |-> call.gen,
                 count |-> IF design = "observed" /\ n # call.count THEN -1 ELSE n])
        /\ outlived' = FALSE
        /\ UNCHANGED <<design, rows, gen, log, replaying, writes, failures, call, result, seen>>

(* The rows above the old top, as many as the count grew by and no row     *)
(* that the copy has already.  The observed copy keeps the generation of   *)
(* its last rebuild, which is the one just read.                           *)
Fresh ==
    LET t == Counted(rows)
    IN  Restrict(t, {r \in DOMAIN t : r > Mine.max /\ (design = "projection" => r <= call.max)})

AllNew ==
    /\ Mine.count + Cardinality(DOMAIN Fresh) = call.count
    /\ IF design = "observed"
       THEN \A r \in DOMAIN Fresh, h \in DOMAIN Mine.rows : Fresh[r].id # Mine.rows[h].id
       ELSE Highest(DOMAIN Fresh) = call.max

Joined(t, u) == [r \in DOMAIN t \cup DOMAIN u |-> IF r \in DOMAIN u THEN u[r] ELSE t[r]]

AppendFresh ==
    LET top == Highest(DOMAIN Fresh)
    IN  /\ pc = "append"
        /\ pc' = IF AllNew THEN "serve" ELSE "rebuild"
        /\ IF AllNew
           THEN Hold([has |-> TRUE, rows |-> Joined(Mine.rows, OfWidth(Fresh, call.width)), count |-> call.count,
                      max |-> top, top |-> At(Fresh, top), gen |-> call.gen])
           ELSE UNCHANGED copies
        /\ UNCHANGED <<design, table, failures, call, result, seen>>

(* A read that fails drops what is held, and the caller pages the table.   *)
ReadFails ==
    /\ pc \in {"generation", "state", "rebuild", "append"}
    /\ failures < MaxFailures
    /\ failures' = failures + 1
    /\ copies' = [w \in Widths |-> NoCopy]
    /\ pc' = "done"
    /\ UNCHANGED <<design, table, call, result, seen>>

----------------------------------------------------------------------------
(* Serving *)

ServeObserved ==
    /\ pc = "serve" /\ design = "observed"
    /\ pc' = "done"
    /\ result' = Mine.rows
    /\ UNCHANGED <<design, table, copies, failures, call, seen>>

(* Every row that may be among the best: within the margin of the floor    *)
(* and of the score that enough records are sure to reach.                 *)
Margin == 2 * Rounding

Reached_ByRows(sims, sure) == {s \in Range(sims) : Cardinality({r \in sure : sims[r] >= s}) >= Limit}

Reached(sims, sure) ==
    {s \in Range(sims) : Cardinality({RecordOf[Mine.rows[r].id] : r \in {q \in sure : sims[q] >= s}}) >= Limit}

Shortlist(sims) ==
    LET above == {r \in DOMAIN sims : sims[r] > Floor - Margin}
        enough == Reached(sims, {r \in DOMAIN sims : sims[r] > Floor + Margin})
    IN  IF enough = {} THEN above ELSE {r \in above : sims[r] >= Max(enough) - 2 * Margin}

Pick ==
    LET near(r) == {Mine.rows[r].what + d : d \in -Rounding..Rounding}
        held == DOMAIN Mine.rows
        all == UNION {near(r) : r \in held}
    IN  /\ pc = "serve" /\ design = "projection"
        /\ IF \E r \in held : Mine.rows[r].what \in Unfit
           THEN pc' = "done" /\ UNCHANGED call
           ELSE /\ pc' = "rescore"
                /\ \E sims \in {s \in [held -> all] : \A r \in held : s[r] \in near(r)} :
                      call' = [call EXCEPT !.picked = Restrict(Mine.rows, Shortlist(sims))]
        /\ UNCHANGED <<design, table, copies, failures, result, seen>>

(* The rows picked are read once more by rowid; one that is another by now *)
(* means that the table moved, and what was left out may count.            *)
Rescore ==
    LET picked == call.picked
        same(r) == /\ r \in DOMAIN rows
                   /\ rows[r].id = picked[r].id /\ rows[r].width = call.width
        moved == \E r \in DOMAIN picked : ~same(r)
    IN  /\ pc = "rescore"
        /\ pc' = "done"
        /\ result' = IF moved THEN NoAnswer ELSE [r \in DOMAIN picked |-> rows[r]]
        /\ copies' = IF moved THEN [copies EXCEPT ![call.width] = NoCopy] ELSE copies
        /\ UNCHANGED <<design, table, failures, call, seen>>

----------------------------------------------------------------------------

Init ==
    /\ design \in Designs
    /\ rows = NoRows /\ log = <<>> /\ replaying = 0 /\ gen = 0 /\ writes = 0 /\ outlived = FALSE
    /\ copies = [w \in Widths |-> NoCopy]
    /\ failures = 0
    /\ pc = "idle"
    /\ call = [width |-> CHOOSE w \in Widths : TRUE, gen |-> 0, count |-> 0, max |-> 0, picked |-> NoRows]
    /\ result = NoAnswer
    /\ seen = [rows |-> NoRows, moves |-> 0]

WriteStep ==
    \/ \E id \in Ids, what \in Scores, width \in Widths :
          Embed(id, what, width) \/ Capture(id, what, width) \/ Rewrite(id, what, width)
    \/ \E id \in Ids : Delete(id)
    \/ Truncate \/ Replay

CallStep ==
    \/ \E w \in Widths : Begin(w)
    \/ ReadGeneration \/ ReadState \/ Rebuild \/ AppendFresh \/ ReadFails
    \/ ServeObserved \/ Pick \/ Rescore

Next == WriteStep \/ CallStep

Spec == Init /\ [][Next]_vars

----------------------------------------------------------------------------

Answered == pc = "done" /\ result # NoAnswer
Current == OfWidth(rows, call.width)
Contents(t) == {[t[r] EXCEPT !.at = 0] : r \in DOMAIN t}

(* A search during which nothing is written gets the table as it is, after *)
(* whatever the copy went through in the searches before it ("A cache that *)
(* cannot prove it is current is never used stale").  For the projection   *)
(* copy: rows as they stand, and among them every row that the paged scan  *)
(* could end up with, above the floor and with fewer than Limit records    *)
(* that score better.                                                      *)
ProjectionExact ==
    Answered /\ seen.moves = 0 /\ design = "projection" =>
        /\ \A r \in DOMAIN result : At(Current, r) = result[r]
        /\ \A r \in DOMAIN Current :
              LET better == {RecordOf[Current[q].id] : q \in {x \in DOMAIN Current : Current[x].what > Current[r].what}}
              IN  Current[r].what > Floor /\ Cardinality(better) < Limit => r \in DOMAIN result

(* For the observed copy: the vectors of the turns that have one, no other  *)
(* turn and no older vector, unless a rebuild has emptied the table since   *)
(* the copy was loaded: it hands out the same rowids, owners and times once *)
(* more, so that the copy may take the row at its old top for the one it    *)
(* has and keep older vectors below it.                                    *)
ObservedExact ==
    Answered /\ seen.moves = 0 /\ design = "observed" /\ ~outlived =>
        Contents(result) = Contents(Current)

(* What the comment promises of it: the same after a rebuild too.           *)
ObservedNeverStale ==
    Answered /\ seen.moves = 0 /\ design = "observed" => Contents(result) = Contents(Current)

(* A table that only grew is not loaded again from the start.              *)
RebuildsOnlyWhenMoved ==
    pc = "rebuild" /\ seen.moves = 0 /\ Mine.has /\ Mine.gen = gen /\ Mine.count >= 0
        => LET t == Counted(rows)
               before == Restrict(t, {r \in DOMAIN t : r <= Mine.max})
           IN  Cardinality(DOMAIN before) # Mine.count \/ At(rows, Mine.max) # Mine.top

============================================================================
