------------------------------ MODULE StoreFiles ------------------------------
(***************************************************************************)
(* The store's files on disk and the processes that open them:             *)
(* engine/migrate_paths.py (settle_db_path: where the store is opened, and *)
(* its move from the name an older release used), engine/paths.py          *)
(* (has_data) and MemoryStore's open and close (engine/store.py).          *)
(*                                                                         *)
(* Two names, "legacy" and "new", are a hard link to a file, a symlink     *)
(* (legacy to new) or nothing.  A file has the events of its main database *)
(* file; a `-wal` belongs to a NAME and holds the events committed and not *)
(* yet folded in.  A connection is bound to the file its name meant when   *)
(* it was opened, whatever the name means later, and writes the `-wal` of  *)
(* that name.  It blocks a change of journal mode from its first read on.  *)
(***************************************************************************)
EXTENDS Integers, FiniteSets, Functions

CONSTANTS Procs,      \* processes: gateway, dashboard, cron jobs
          Events,     \* events they commit
          Files,      \* inodes, numbers above 0
          MaxCrashes, \* bound on processes that die
          Overlap     \* TRUE: a start or a close may overlap another one


VARIABLES name,       \* [legacy, new]: an inode, Link or None
          data,       \* events in each main file
          wal,        \* the -wal beside each name: whose it is, what it holds
          pc, path,   \* of each process: its step, the path settle returned
          bind, hold, \* its connection, and the lock that has on the file
          cut,        \* its -wal was unlinked under it; what went with it
          resume,     \* it finishes an interrupted move
          aside,      \* the empty store it renamed away
          alone,      \* no other process ran since it started, no step failed
          events,     \* every event committed
          crashes,
          world       \* same filesystem? symlinks? claimed by a profile?

vars == <<name, data, wal, pc, path, bind, hold, cut, resume, aside, alone,
          events, crashes, world>>
proc == <<cut, resume, aside, alone>>
rest == <<events, crashes, world>>

None == 0
Link == -1
Names == {"legacy", "new"}
NoWal == [of |-> None, ev |-> {}]
NoBind == [ino |-> None, as |-> "new"]
NoCut == [is |-> FALSE, ev |-> {}]
Steps == {"down", "probe", "decide", "lock", "hold", "aside", "place", "switch",
          "tidy", "connect", "open", "use", "unlink"}

----------------------------------------------------------------------------
\* What a name reaches.  SQLite follows a symlink before it names the -wal.

Real(n) == IF n = "legacy" /\ name.legacy = Link THEN "new" ELSE n
FileOf(n) == name[Real(n)]

Content(n) ==
  LET f == FileOf(n) w == wal[Real(n)]
  IN  IF f = None THEN {} ELSE data[f] \cup (IF w.of = f THEN w.ev ELSE {})

HasData(n) == Content(n) # {}

\* Other connections that have the file open, and those that shut others out.
Others(p, f) == {q \in Procs \ {p} : hold[q] # "no" /\ bind[q].ino = f}
Barred(p, f) == \E q \in Others(p, f) : hold[q] = "excl"

Unused(f) == /\ f \notin {name.legacy, name.new, wal.legacy.of, wal.new.of}
             /\ \A p \in Procs : f \notin {bind[p].ino, aside[p]}

----------------------------------------------------------------------------
\* A new connection: an existing file, or a fresh empty one.

Bind(p, n) ==
  LET r == Real(n)
  IN  IF name[r] # None
      THEN /\ bind' = [bind EXCEPT ![p] = [ino |-> name[r], as |-> r]]
           /\ UNCHANGED <<name, data>>
      ELSE LET f == CHOOSE g \in Files : Unused(g)
           IN  /\ bind' = [bind EXCEPT ![p] = [ino |-> f, as |-> r]]
               /\ name' = [name EXCEPT ![r] = f]
               /\ data' = [data EXCEPT ![f] = {}]

Unbind(p) == /\ bind' = [bind EXCEPT ![p] = NoBind]
             /\ hold' = [hold EXCEPT ![p] = "no"]

\* settle_db_path answers n: the caller opens it.
Answer(p, n) == /\ path' = [path EXCEPT ![p] = n]
                /\ pc' = [pc EXCEPT ![p] = "connect"]

Goto(p, s) == pc' = [pc EXCEPT ![p] = s] /\ UNCHANGED path

----------------------------------------------------------------------------
\* settle_db_path: the decision.

Idle == \A q \in Procs : pc[q] \in {"down", "use"}

Start(p) ==
  /\ pc[p] = "down" /\ (Overlap \/ Idle)
  /\ Goto(p, "probe")
  /\ alone' = [q \in Procs |-> q = p /\ \A r \in Procs \ {p} : pc[r] = "down"]
  /\ UNCHANGED <<name, data, wal, bind, hold, cut, resume, aside, rest>>

\* has_data: an error answers "no data", a wait for a shut file that ran out
\* included.
Reads(p, n) == HasData(n) /\ ~Barred(p, FileOf(n))

Probe(p) ==
  /\ pc[p] = "probe"
  /\ IF name.legacy = Link \/ ~Reads(p, "legacy")
     THEN Answer(p, "new") ELSE Goto(p, "decide")
  /\ UNCHANGED <<name, data, wal, bind, hold, proc, rest>>

SameFile == name.legacy > None /\ name.new = name.legacy

Decide(p) ==
  /\ pc[p] = "decide"
  /\ resume' = [resume EXCEPT ![p] = SameFile]
  /\ IF ~SameFile /\ (Reads(p, "new") \/ name.legacy = Link \/ world.claimed)
     THEN Answer(p, "legacy") ELSE Goto(p, "lock")
  /\ UNCHANGED <<name, data, wal, bind, hold, cut, aside, alone, rest>>

----------------------------------------------------------------------------
\* _move, one step per durable effect.

LockOpen(p) ==
  /\ pc[p] = "lock"
  /\ Bind(p, "legacy") /\ Goto(p, "hold")
  /\ UNCHANGED <<wal, hold, proc, rest>>

\* journal_mode=DELETE succeeds when nobody else has the file open; it folds
\* the -wal in.
FoldedAt(b) ==
  IF wal[b.as].of = b.ino
  THEN /\ data' = [data EXCEPT ![b.ino] = @ \cup wal[b.as].ev]
       /\ wal' = [wal EXCEPT ![b.as] = NoWal]
  ELSE UNCHANGED <<data, wal>>

Free(p) == Others(p, bind[p].ino) = {}

LockTake(p) ==
  /\ pc[p] = "hold" /\ Free(p)
  /\ FoldedAt(bind[p])
  /\ hold' = [hold EXCEPT ![p] = "excl"]
  /\ Goto(p, IF resume[p] THEN "switch" ELSE "aside")
  /\ UNCHANGED <<name, bind, proc, rest>>

LockDefer(p) ==
  /\ pc[p] = "hold" /\ ~Free(p)
  /\ Unbind(p) /\ Answer(p, "legacy")
  /\ UNCHANGED <<name, data, wal, proc, rest>>

\* _set_aside_empty: its own probe of journal_mode=DELETE, then a rename.
SetAside(p) ==
  /\ pc[p] = "aside"
  /\ LET f == name.new IN
     \/ /\ f = None
        /\ Goto(p, "place") /\ UNCHANGED <<name, data, wal, bind, hold, aside>>
     \/ /\ f # None /\ (Others(p, f) # {} \/ bind[p].ino = f)
        /\ Unbind(p) /\ Answer(p, "legacy")
        /\ UNCHANGED <<name, data, wal, aside>>
     \/ /\ f # None /\ Others(p, f) = {} /\ bind[p].ino # f
        /\ FoldedAt([ino |-> f, as |-> "new"])
        /\ aside' = [aside EXCEPT ![p] = f]
        /\ name' = [name EXCEPT !.new = None]
        /\ Goto(p, "place") /\ UNCHANGED <<bind, hold>>
  /\ UNCHANGED <<cut, resume, alone, rest>>

\* os.link on one filesystem; a checked copy renamed over the new name on two.
Place(p) ==
  /\ pc[p] = "place"
  /\ IF world.same
     THEN /\ name.new = None /\ FileOf("legacy") # None
          /\ name' = [name EXCEPT !.new = FileOf("legacy")]
          /\ UNCHANGED data
     ELSE LET f == CHOOSE g \in Files : Unused(g)
          IN  /\ name' = [name EXCEPT !.new = f]
              /\ data' = [data EXCEPT ![f] = data[bind[p].ino]]
  /\ Goto(p, "switch")
  /\ UNCHANGED <<wal, bind, hold, proc, rest>>

\* The old name becomes a symlink (or goes), the lock is released.
Switch(p) ==
  /\ pc[p] = "switch"
  /\ name' = [name EXCEPT !.legacy = IF world.links THEN Link ELSE None]
  /\ aside' = [aside EXCEPT ![p] = None]
  /\ Unbind(p) /\ Goto(p, "tidy")
  /\ UNCHANGED <<data, wal, cut, resume, alone, rest>>

\* An error before the switch: undo in reverse order, stay at the old name.
Undone(p) ==
  LET n == IF ~resume[p] /\ (pc[p] = "switch" \/ ~world.same) THEN None ELSE name.new
  IN  [name EXCEPT !.new = IF n = None THEN aside[p] ELSE n]

MoveFails(p) ==
  /\ pc[p] \in {"place", "switch"}
  /\ name' = Undone(p)
  /\ aside' = [aside EXCEPT ![p] = None]
  /\ alone' = [alone EXCEPT ![p] = FALSE]
  /\ Unbind(p) /\ Answer(p, "legacy")
  /\ UNCHANGED <<data, wal, cut, resume, rest>>

\* A -wal unlinked: who writes it writes on, unseen.
Unlinked(n) ==
  /\ wal' = [wal EXCEPT ![n] = NoWal]
  /\ cut' = [q \in Procs |-> IF hold[q] = "shared" /\ bind[q].as = n /\ ~cut[q].is
                             THEN [is |-> TRUE, ev |-> wal[n].ev] ELSE cut[q]]

Tidy(p) ==
  /\ pc[p] = "tidy"
  /\ IF name.legacy = Link /\ wal.legacy.ev = {}
     THEN Unlinked("legacy") ELSE UNCHANGED <<wal, cut>>
  /\ Answer(p, "new")
  /\ UNCHANGED <<name, data, bind, hold, resume, aside, alone, rest>>

----------------------------------------------------------------------------
\* MemoryStore: open, commit, close.

Connect(p) ==
  /\ pc[p] = "connect"
  /\ Bind(p, path[p]) /\ Goto(p, "open")
  /\ UNCHANGED <<wal, hold, proc, rest>>

\* The open waits for a file that is shut.  It fails when it waited too long,
\* for that or for another process's write lock; the host starts again later.
OpenStore(p) ==
  /\ pc[p] = "open" /\ ~Barred(p, bind[p].ino)
  /\ hold' = [hold EXCEPT ![p] = "shared"]
  /\ wal' = [wal EXCEPT ![bind[p].as].of = IF @ = None THEN bind[p].ino ELSE @]
  /\ Goto(p, "use")
  /\ UNCHANGED <<name, data, bind, proc, rest>>

OpenFails(p) ==
  /\ pc[p] = "open" /\ Others(p, bind[p].ino) # {}
  /\ Unbind(p) /\ Goto(p, "down")
  /\ UNCHANGED <<name, data, wal, proc, rest>>

Commit(p, e) ==
  /\ pc[p] = "use" /\ e \notin events
  /\ events' = events \cup {e}
  /\ IF cut[p].is
     THEN cut' = [cut EXCEPT ![p].ev = @ \cup {e}] /\ UNCHANGED wal
     ELSE wal' = [wal EXCEPT ![bind[p].as].ev = @ \cup {e}] /\ UNCHANGED cut
  /\ UNCHANGED <<name, data, pc, path, bind, hold, resume, aside, alone, crashes, world>>

\* close: checkpoint, then journal_mode=DELETE, which answers "delete" only
\* when nobody else has the file open; only then are the sidecars unlinked.
Sole_NotAsked(p) == TRUE
Sole(p) == Others(p, bind[p].ino) = {}

CloseStore(p) ==
  LET b == bind[p] seen == IF cut[p].is THEN cut[p].ev ELSE wal[b.as].ev IN
  /\ pc[p] = "use" /\ (Overlap \/ Idle)
  /\ data' = [data EXCEPT ![b.ino] = @ \cup seen]
  /\ wal' = IF cut[p].is THEN wal
            ELSE [wal EXCEPT ![b.as] = IF Others(p, b.ino) = {} THEN NoWal
                                       ELSE [@ EXCEPT !.ev = {}]]
  /\ cut' = [cut EXCEPT ![p] = NoCut]
  /\ Unbind(p) /\ Goto(p, IF Sole(p) THEN "unlink" ELSE "down")
  /\ UNCHANGED <<name, resume, aside, alone, rest>>

Unlink(p) ==
  /\ pc[p] = "unlink"
  /\ Unlinked(path[p]) /\ Goto(p, "down")
  /\ UNCHANGED <<name, data, bind, hold, resume, aside, alone, rest>>

Crash(p) ==
  /\ pc[p] # "down" /\ crashes < MaxCrashes
  /\ crashes' = crashes + 1
  /\ Unbind(p) /\ Goto(p, "down")
  /\ cut' = [cut EXCEPT ![p] = NoCut]
  /\ aside' = [aside EXCEPT ![p] = None]
  /\ UNCHANGED <<name, data, wal, resume, alone, events, world>>

----------------------------------------------------------------------------
\* An older release left a store at the old name, perhaps still open there,
\* and perhaps an empty one is at the new name; or neither name exists.

Old == CHOOSE f \in Files : \A g \in Files : f <= g
Empty == CHOOSE f \in Files \ {Old} : \A g \in Files \ {Old} : f <= g

Init ==
  \E had \in {{}} \cup {{e} : e \in Events} :
  \E using \in SUBSET Procs :
    /\ had = {} => using = {}
    /\ name \in {[legacy |-> IF had = {} THEN None ELSE Old, new |-> n] : n \in {None, Empty}}
    /\ data = [f \in Files |-> IF f = Old THEN had ELSE {}]
    /\ wal = [n \in Names |-> IF n = "legacy" /\ using # {}
                              THEN [of |-> Old, ev |-> {}] ELSE NoWal]
    /\ pc = [p \in Procs |-> IF p \in using THEN "use" ELSE "down"]
    /\ path = [p \in Procs |-> "legacy"]
    /\ bind = [p \in Procs |-> IF p \in using THEN [ino |-> Old, as |-> "legacy"] ELSE NoBind]
    /\ hold = [p \in Procs |-> IF p \in using THEN "shared" ELSE "no"]
    /\ cut = [p \in Procs |-> NoCut]
    /\ resume = [p \in Procs |-> FALSE]
    /\ aside = [p \in Procs |-> None]
    /\ alone = [p \in Procs |-> FALSE]
    /\ events = had /\ crashes = 0
    /\ world \in [same : BOOLEAN, links : BOOLEAN, claimed : BOOLEAN]

Next ==
  \E p \in Procs :
    \/ Start(p) \/ Probe(p) \/ Decide(p)
    \/ LockOpen(p) \/ LockTake(p) \/ LockDefer(p)
    \/ SetAside(p) \/ Place(p) \/ Switch(p) \/ MoveFails(p) \/ Tidy(p)
    \/ Connect(p) \/ OpenStore(p) \/ OpenFails(p)
    \/ \E e \in Events : Commit(p, e)
    \/ CloseStore(p) \/ Unlink(p) \/ Crash(p)

Spec == Init /\ [][Next]_vars

----------------------------------------------------------------------------
TypeOK ==
  /\ name \in [Names -> Files \cup {None, Link}]
  /\ data \in [Files -> SUBSET Events]
  /\ wal \in [Names -> [of : Files \cup {None}, ev : SUBSET Events]]
  /\ pc \in [Procs -> Steps] /\ path \in [Procs -> Names]
  /\ bind \in [Procs -> [ino : Files \cup {None}, as : Names]]
  /\ hold \in [Procs -> {"no", "shared", "excl"}]
  /\ cut \in [Procs -> [is : BOOLEAN, ev : SUBSET Events]]
  /\ resume \in [Procs -> BOOLEAN] /\ alone \in [Procs -> BOOLEAN]
  /\ aside \in [Procs -> Files \cup {None}]
  /\ events \subseteq Events /\ crashes \in 0..MaxCrashes
  /\ world \in [same : BOOLEAN, links : BOOLEAN, claimed : BOOLEAN]

\* "A SQLite store in WAL mode must be opened through ONE name": processes
\* that have one file open write one -wal, and a -wal is written for one file.
\* Breaks when a move starts under a process that has the old name open.
OneName ==
  \A p, q \in Procs :
    hold[p] = "shared" /\ hold[q] = "shared"
      => /\ (bind[p].ino = bind[q].ino) <=> (bind[p].as = bind[q].as)
         /\ wal[bind[p].as].of \in {None, bind[p].ino}

\* "Never losing an event": whatever step a process is at or dies at, the
\* store the next start opens holds every event ever committed.  Relates the
\* names, the files and the -wal files to what was promised to the callers.
NothingLost ==
  events \subseteq Content(IF name.legacy = Link \/ ~HasData("legacy")
                           THEN "new" ELSE "legacy")

\* A start that runs alone, on one filesystem, and meets no error ends with
\* the store at the configured name, also when it finds a move that died half
\* way: _settle_db recognises the two hard links and finishes.
AloneMoves ==
  \A p \in Procs :
    pc[p] = "use" /\ alone[p] /\ world.same /\ ~world.claimed
      => bind[p].as = "new"

\* What the files promise, together: no event is lost on the way between the
\* names, no file has two journals, and a move that can be completed is.
EventsSurvive == TypeOK /\ NothingLost /\ OneName /\ AloneMoves
=============================================================================
