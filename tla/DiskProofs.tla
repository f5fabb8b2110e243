------------------------------ MODULE DiskProofs ------------------------------
(***************************************************************************)
(* What the disk keeps.  First StoreFiles: while starts and closes do not  *)
(* overlap, no event is lost.                                              *)
(*                                                                         *)
(* The argument: at every step exactly one of the two names is the HOME of *)
(* the store, and everything committed is in the file the home name means  *)
(* and the -wal beside that name.  The home is the old name until Switch,  *)
(* and the configured name from then on.  A process that is inside a start *)
(* or a close is alone in it, those that have the store open have it open  *)
(* by its home name, and from the lock to the switch nobody has it open,   *)
(* which is what makes the change of home safe.                            *)
(*                                                                         *)
(* Then VectorCache: while no row goes between the two reads of an append, *)
(* the projection copy answers as the paged scan would.  A copy stands for *)
(* a FULL table: the rows it holds are those of its width in it, its count *)
(* and its top are those of it, and while the row at its top is in place   *)
(* every row below it is one of the full table.  A table that is as large  *)
(* and no higher is then the full table itself.                            *)
(* A table that only grew since has as many rows up to that row as before, *)
(* and the read that finds it grown then appends.                          *)
(*                                                                         *)
(* Then Migration: an upgrade loses no sweep and leaves no ring.  Of each  *)
(* sweep name one row is live, so the heir of a doomed row is the one live *)
(* sweep of this build's name, whatever opener read it and however long    *)
(* ago; a sweep waits for an earlier sweep, any other job for an earlier   *)
(* job or for a sweep, and only the heir may wait for the doomed row.      *)
(*                                                                         *)
(* Last GitMirror: whoever flushes at once, whatever dies and is lost.     *)
(* The queue has one row for every event of the log.  What a flush has     *)
(* written of its batch is in files it has named, what git took of these   *)
(* is in HEAD before it marks a row, files only grow, and a replay reads   *)
(* the lines of every file there is.  The order the queue, the names and   *)
(* the lines are taken in is a numbering of them, which leaves none out.   *)
(***************************************************************************)
EXTENDS DiskParts, Sequences, FiniteSetTheorems, NaturalsInduction, WellFoundedInduction, TLAPS

-----------------------------------------------------------------------------
(* StoreFiles *)

\* Inodes are numbered from 1 and three are enough: the store, an empty store
\* at the configured name, and a copy of the store on another filesystem.
Inodes == \E n \in Nat : n >= 3 /\ Files = 1 .. n

\* The store lives at the old name until the switch.  That name is its home
\* before, and the configured name is from then on.
Before == name.legacy \in Files
Home == IF Before THEN "legacy" ELSE "new"
Away == IF Before THEN "new" ELSE "legacy"
AtHome == [ino |-> name[Home], as |-> Home]

Busy(p) == pc[p] \notin {"down", "use"}
Moving == {"aside", "place", "switch"}
OthersDown(p) == \A q \in Procs \ {p} : pc[q] = "down"

\* One process at a time opens, moves or closes the store.
OneBusy == \A p, q \in Procs : Busy(p) /\ Busy(q) => p = q

\* What is committed is in the file at the home name and the -wal beside it;
\* the other name has no -wal, and nobody's -wal was unlinked under them.
HomeKeeps ==
  /\ name.new # Link
  /\ Before => events # {}
  /\ name[Home] = None => events = {} /\ wal[Home] = NoWal
  /\ name[Home] # None => events \subseteq data[name[Home]] \cup wal[Home].ev
  /\ wal[Home].of \in {None, name[Home]}
  /\ wal[Home].of = None => wal[Home].ev = {}
  /\ wal[Away] = NoWal
  /\ cut = [p \in Procs |-> NoCut]

\* Where each process is: what it is connected to, and what it knows.
Bound(p) ==
  /\ pc[p] \notin {"hold", "open", "use"} \cup Moving => bind[p] = NoBind /\ hold[p] = "no"
  /\ pc[p] \in {"hold", "open"} => bind[p] = AtHome /\ hold[p] = "no"
  /\ pc[p] = "use" => bind[p] = AtHome /\ hold[p] = "shared" /\ wal[Home].of = name[Home]
  /\ pc[p] \in Moving => bind[p] = AtHome /\ hold[p] = "excl" /\ wal[Home] = NoWal
  /\ pc[p] \in {"open", "use"} => name[Home] # None
  /\ pc[p] = "unlink" => wal[Home] = NoWal

Placed(p) ==
  /\ pc[p] \in {"decide", "lock", "hold"} \cup Moving => Before
  /\ pc[p] = "tidy" => ~Before
  /\ pc[p] \in {"connect", "open", "use", "unlink"} => path[p] = Home
  /\ pc[p] \in Moving \cup {"unlink"} => OthersDown(p)

Moved(p) ==
  /\ pc[p] \in {"lock", "hold"} => resume[p] = SameFile
  /\ pc[p] = "aside" => ~SameFile
  /\ pc[p] \in {"aside", "place"} => ~resume[p]
  /\ pc[p] = "place" => name.new = None
  /\ pc[p] = "switch" => name.new \in Files /\ events \subseteq data[name.new]
  /\ pc[p] = "switch" /\ resume[p] => name.new = name.legacy
  /\ pc[p] \notin {"place", "switch"} => aside[p] = None

\* A start that runs alone finds nothing at the configured name but the store
\* itself or a store without events, so it does not stay at the old name.
Clear ==
  world.same /\ Before =>
    /\ name.new \in {None, name.legacy} \/ data[name.new] = {}
    /\ \A p \in Procs : aside[p] # None => aside[p] # name.legacy /\ data[aside[p]] = {}

AloneOK(p) ==
  /\ alone[p] => OthersDown(p)
  /\ alone[p] /\ world.same /\ ~world.claimed /\ pc[p] \in {"connect", "open", "use"} => ~Before

\* The inductive invariant.
FilesInv ==
  /\ TypeOK /\ OneBusy /\ HomeKeeps /\ Clear
  /\ \A p \in Procs : Bound(p) /\ Placed(p) /\ Moved(p) /\ AloneOK(p)

-----------------------------------------------------------------------------
USE DEF None, Link, Names, Steps, NoBind, NoCut, NoWal

\* Nobody is inside a start, a move or a close when a process starts.
LEMMA StartStep ==
  ASSUME Inodes, MaxCrashes \in Nat, FilesInv, ~Overlap, NEW p \in Procs, Start(p)
  PROVE  FilesInv'
<1> USE DEF FilesInv
<1>a. /\ pc[p] = "down" /\ pc' = [pc EXCEPT ![p] = "probe"]
      /\ alone' = [q \in Procs |-> q = p /\ \A r \in Procs \ {p} : pc[r] = "down"]
      /\ UNCHANGED <<path, name, data, wal, bind, hold, cut, resume, aside, events,
                     crashes, world>>
  BY DEF Start, Goto, rest
<1>q. \A q \in Procs : pc[q] \in {"down", "use"} BY DEF Start, Idle
<1>1. TypeOK' BY <1>a, <1>q DEF TypeOK, Inodes
<1>2. OneBusy' BY <1>a, <1>q DEF OneBusy, Busy, TypeOK
<1>3. HomeKeeps' BY <1>a, <1>q DEF HomeKeeps, Home, Away, Before, TypeOK, Inodes
<1>4. Clear' BY <1>a, <1>q DEF Clear, Before, TypeOK
<1>5. ASSUME NEW q \in Procs PROVE Bound(q)' /\ Placed(q)' /\ Moved(q)' /\ AloneOK(q)'
  <2>1. Bound(q)' BY <1>a, <1>q DEF Bound, AtHome, Home, Before, Moving, TypeOK
  <2>2. Placed(q)' BY <1>a, <1>q DEF Placed, Home, Before, Moving, OthersDown, TypeOK
  <2>3. Moved(q)' BY <1>a, <1>q DEF Moved, SameFile, Moving, TypeOK
  <2>4. AloneOK(q)' BY <1>a, <1>q DEF AloneOK, OthersDown, Before, TypeOK
  <2> QED BY <2>1, <2>2, <2>3, <2>4
<1> QED BY <1>1, <1>2, <1>3, <1>4, <1>5

\* A store at its old home has events and nobody shuts it out: the start
\* goes on to decide.  One that has moved is answered with the new name.
LEMMA ProbeStep ==
  ASSUME Inodes, MaxCrashes \in Nat, FilesInv, ~Overlap, NEW p \in Procs, Probe(p)
  PROVE  FilesInv'
<1> USE DEF FilesInv
<1>a. /\ pc[p] = "probe"
      /\ UNCHANGED <<name, data, wal, bind, hold, cut, resume, aside, alone, events,
                     crashes, world>>
  BY DEF Probe, rest, proc
<1>b. Before => pc' = [pc EXCEPT ![p] = "decide"] /\ path' = path
  <2>1. ~Barred(p, FileOf("legacy"))
    BY DEF Barred, Others, Bound, Moving, Busy, OneBusy, Probe, TypeOK
  <2>2. Before => /\ FileOf("legacy") = name.legacy /\ Real("legacy") = "legacy"
                  /\ name.legacy # None /\ name.legacy # Link
    BY DEF FileOf, Real, Before, Inodes
  <2>3. Before => Content("legacy") # {}
    BY <2>2 DEF Content, HomeKeeps, Home, Before, TypeOK
  <2> QED BY <2>1, <2>2, <2>3 DEF Probe, Goto, Reads, HasData, Before
<1>c. ~Before => pc' = [pc EXCEPT ![p] = "connect"] /\ path' = [path EXCEPT ![p] = "new"]
  BY DEF Probe, Goto, Answer, Reads, HasData, Content, FileOf, Real, Before, TypeOK
<1>q. \A q \in Procs \ {p} : pc[q] \in {"down", "use"} BY <1>a DEF OneBusy, Busy, TypeOK
<1>1. TypeOK' BY <1>a, <1>b, <1>c, <1>q DEF TypeOK, Inodes
<1>2. OneBusy' BY <1>a, <1>b, <1>c, <1>q DEF OneBusy, Busy, TypeOK
<1>3. HomeKeeps' BY <1>a, <1>b, <1>c, <1>q DEF HomeKeeps, Home, Away, Before, TypeOK, Inodes
<1>4. Clear' BY <1>a, <1>b, <1>c, <1>q DEF Clear, Before, TypeOK
<1>5. ASSUME NEW q \in Procs PROVE Bound(q)' /\ Placed(q)' /\ Moved(q)' /\ AloneOK(q)'
  <2>1. Bound(q)' BY <1>a, <1>b, <1>c, <1>q DEF Bound, AtHome, Home, Before, Moving, TypeOK
  <2>2. Placed(q)'
    BY <1>a, <1>b, <1>c, <1>q DEF Placed, Home, Before, Moving, OthersDown, TypeOK
  <2>3. Moved(q)' BY <1>a, <1>b, <1>c, <1>q DEF Moved, SameFile, Moving, TypeOK
  <2>4. AloneOK(q)' BY <1>a, <1>b, <1>c, <1>q DEF AloneOK, OthersDown, Before, TypeOK
  <2> QED BY <2>1, <2>2, <2>3, <2>4
<1> QED BY <1>1, <1>2, <1>3, <1>4, <1>5

\* A start that runs alone, with nothing against the move, asks for the
\* lock: the configured name holds the same file, no file, or no events.
LEMMA DecideStep ==
  ASSUME Inodes, MaxCrashes \in Nat, FilesInv, ~Overlap, NEW p \in Procs, Decide(p)
  PROVE  FilesInv'
<1> USE DEF FilesInv
<1>a. /\ pc[p] = "decide"
      /\ UNCHANGED <<name, data, wal, bind, hold, cut, aside, alone, events, crashes,
                     world>>
  BY DEF Decide, rest
<1>b. resume' = [resume EXCEPT ![p] = SameFile] /\ SameFile \in BOOLEAN
  BY DEF Decide, SameFile
<1>c. \/ pc' = [pc EXCEPT ![p] = "lock"] /\ path' = path
      \/ pc' = [pc EXCEPT ![p] = "connect"] /\ path' = [path EXCEPT ![p] = "legacy"]
  BY DEF Decide, Goto, Answer
<1>q. \A q \in Procs \ {p} : pc[q] \in {"down", "use"} BY <1>a DEF OneBusy, Busy, TypeOK
<1>n. Before BY <1>a DEF Placed
<1>d. alone[p] /\ world.same /\ ~world.claimed => pc' = [pc EXCEPT ![p] = "lock"]
  <2>1. SUFFICES ASSUME world.same, ~world.claimed, ~SameFile PROVE ~Reads(p, "new") /\ name.legacy # Link
    BY DEF Decide, Goto, Answer
  <2>2. name.legacy > None BY <1>n DEF Before, Inodes
  <2>3. wal.new = NoWal BY <1>n DEF HomeKeeps, Away
  <2>4. name.new = None \/ data[name.new] = {} BY <2>1, <2>2, <1>n DEF Clear, SameFile
  <2> QED BY <2>2, <2>3, <2>4 DEF Reads, HasData, Content, FileOf, Real
<1>1. TypeOK' BY <1>a, <1>b, <1>c, <1>q, <1>n, <1>d DEF TypeOK, Inodes
<1>2. OneBusy' BY <1>a, <1>b, <1>c, <1>q, <1>n, <1>d DEF OneBusy, Busy, TypeOK
<1>3. HomeKeeps'
  BY <1>a, <1>b, <1>c, <1>q, <1>n, <1>d DEF HomeKeeps, Home, Away, Before, TypeOK, Inodes
<1>4. Clear' BY <1>a, <1>b, <1>c, <1>q, <1>n, <1>d DEF Clear, Before, TypeOK
<1>5. ASSUME NEW q \in Procs PROVE Bound(q)' /\ Placed(q)' /\ Moved(q)' /\ AloneOK(q)'
  <2>1. Bound(q)'
    BY <1>a, <1>b, <1>c, <1>q, <1>n, <1>d DEF Bound, AtHome, Home, Before, Moving, TypeOK
  <2>2. Placed(q)'
    BY <1>a, <1>b, <1>c, <1>q, <1>n, <1>d
       DEF Placed, Home, Before, Moving, OthersDown, TypeOK
  <2>3. Moved(q)' BY <1>a, <1>b, <1>c, <1>q, <1>n, <1>d DEF Moved, SameFile, Moving, TypeOK
  <2>4. AloneOK(q)'
    BY <1>a, <1>b, <1>c, <1>q, <1>n, <1>d DEF AloneOK, OthersDown, Before, TypeOK
  <2> QED BY <2>1, <2>2, <2>3, <2>4
<1> QED BY <1>1, <1>2, <1>3, <1>4, <1>5

\* The connection that will take the lock is bound to the store at its home.
LEMMA LockOpenStep ==
  ASSUME Inodes, MaxCrashes \in Nat, FilesInv, ~Overlap, NEW p \in Procs, LockOpen(p)
  PROVE  FilesInv'
<1> USE DEF FilesInv
<1>a. /\ pc[p] = "lock" /\ pc' = [pc EXCEPT ![p] = "hold"]
      /\ UNCHANGED <<path, wal, hold, cut, resume, aside, alone, events, crashes, world>>
  BY DEF LockOpen, Goto, rest, proc
<1>n. Before BY <1>a DEF Placed
<1>b. bind' = [bind EXCEPT ![p] = AtHome] /\ UNCHANGED <<name, data>>
  BY <1>n DEF LockOpen, Bind, Real, Before, Inodes, AtHome, Home
<1>q. \A q \in Procs \ {p} : pc[q] \in {"down", "use"} BY <1>a DEF OneBusy, Busy, TypeOK
<1>t. AtHome \in [ino : Files \cup {None}, as : Names] BY <1>n DEF AtHome, Home, Before
<1>1. TypeOK' BY <1>a, <1>b, <1>q, <1>n, <1>t DEF TypeOK, Inodes
<1>2. OneBusy' BY <1>a, <1>b, <1>q, <1>n, <1>t DEF OneBusy, Busy, TypeOK
<1>3. HomeKeeps'
  BY <1>a, <1>b, <1>q, <1>n, <1>t DEF HomeKeeps, Home, Away, Before, TypeOK, Inodes
<1>4. Clear' BY <1>a, <1>b, <1>q, <1>n, <1>t DEF Clear, Before, TypeOK
<1>5. ASSUME NEW q \in Procs PROVE Bound(q)' /\ Placed(q)' /\ Moved(q)' /\ AloneOK(q)'
  <2>1. Bound(q)'
    BY <1>a, <1>b, <1>q, <1>n, <1>t DEF Bound, AtHome, Home, Before, Moving, TypeOK
  <2>2. Placed(q)'
    BY <1>a, <1>b, <1>q, <1>n, <1>t DEF Placed, Home, Before, Moving, OthersDown, TypeOK
  <2>3. Moved(q)' BY <1>a, <1>b, <1>q, <1>n, <1>t DEF Moved, SameFile, Moving, TypeOK
  <2>4. AloneOK(q)' BY <1>a, <1>b, <1>q, <1>n, <1>t DEF AloneOK, OthersDown, Before, TypeOK
  <2> QED BY <2>1, <2>2, <2>3, <2>4
<1> QED BY <1>1, <1>2, <1>3, <1>4, <1>5

\* The lock means that every other process is down, and the -wal is folded in.
LEMMA LockTakeStep ==
  ASSUME Inodes, MaxCrashes \in Nat, FilesInv, ~Overlap, NEW p \in Procs, LockTake(p)
  PROVE  FilesInv'
<1> USE DEF FilesInv
<1>a. /\ pc[p] = "hold" /\ pc' = [pc EXCEPT ![p] = IF resume[p] THEN "switch" ELSE "aside"]
      /\ hold' = [hold EXCEPT ![p] = "excl"]
      /\ UNCHANGED <<name, path, bind, cut, resume, aside, alone, events, crashes, world>>
  BY DEF LockTake, Goto, rest, proc
<1>n. Before BY <1>a DEF Placed
<1>b. Home = "legacy" /\ Away = "new" /\ bind[p] = [ino |-> name.legacy, as |-> "legacy"] /\ wal.new = NoWal
  <2>1. Home = "legacy" /\ Away = "new" BY <1>n DEF Home, Away
  <2>2. bind[p] = AtHome BY <1>a DEF Bound
  <2> QED BY <2>1, <2>2 DEF AtHome, HomeKeeps
<1>q. \A q \in Procs \ {p} : pc[q] = "down"
  <2>1. \A q \in Procs \ {p} : pc[q] \in {"down", "use"} BY <1>a DEF OneBusy, Busy, TypeOK
  <2>2. \A q \in Procs \ {p} : pc[q] # "use"
    BY <1>b DEF LockTake, Free, Others, Bound, AtHome
  <2> QED BY <2>1, <2>2
<1>w. /\ wal' = [wal EXCEPT !.legacy = NoWal]
      /\ data' = [data EXCEPT ![name.legacy] = @ \cup wal.legacy.ev]
  <2>1. CASE wal.legacy.of = name.legacy
    BY <2>1, <1>b DEF LockTake, FoldedAt
  <2>2. CASE wal.legacy.of # name.legacy
    <3>1. UNCHANGED <<data, wal>> BY <2>2, <1>b DEF LockTake, FoldedAt
    <3>2. wal.legacy = NoWal BY <2>2, <1>b DEF HomeKeeps, TypeOK
    <3> QED BY <3>1, <3>2 DEF TypeOK
  <2> QED BY <2>1, <2>2
<1>e. events \subseteq data'[name.legacy]
  BY <1>w, <1>b, <1>n DEF HomeKeeps, Before, TypeOK, Inodes
<1>r. resume[p] = SameFile BY <1>a DEF Moved
<1>1. TypeOK' BY <1>a, <1>b, <1>q, <1>n, <1>w, <1>e, <1>r DEF TypeOK, Inodes
<1>2. OneBusy' BY <1>a, <1>b, <1>q, <1>n, <1>w, <1>e, <1>r DEF OneBusy, Busy, TypeOK
<1>3. HomeKeeps'
  BY <1>a, <1>b, <1>q, <1>n, <1>w, <1>e, <1>r
     DEF HomeKeeps, Home, Away, Before, TypeOK, Inodes
<1>4. Clear' BY <1>a, <1>b, <1>q, <1>n, <1>w, <1>e, <1>r DEF Clear, Before, TypeOK
<1>5. ASSUME NEW q \in Procs PROVE Bound(q)' /\ Placed(q)' /\ Moved(q)' /\ AloneOK(q)'
  <2>1. Bound(q)'
    BY <1>a, <1>b, <1>q, <1>n, <1>w, <1>e, <1>r
       DEF Bound, AtHome, Home, Before, Moving, TypeOK
  <2>2. Placed(q)'
    BY <1>a, <1>b, <1>q, <1>n, <1>w, <1>e, <1>r
       DEF Placed, Home, Before, Moving, OthersDown, TypeOK
  <2>3. Moved(q)'
    BY <1>a, <1>b, <1>q, <1>n, <1>w, <1>e, <1>r DEF Moved, SameFile, Moving, TypeOK
  <2>4. AloneOK(q)'
    BY <1>a, <1>b, <1>q, <1>n, <1>w, <1>e, <1>r DEF AloneOK, OthersDown, Before, TypeOK
  <2> QED BY <2>1, <2>2, <2>3, <2>4
<1> QED BY <1>1, <1>2, <1>3, <1>4, <1>5

\* Somebody has the store open, so the start did not run alone.
LEMMA LockDeferStep ==
  ASSUME Inodes, MaxCrashes \in Nat, FilesInv, ~Overlap, NEW p \in Procs, LockDefer(p)
  PROVE  FilesInv'
<1> USE DEF FilesInv
<1>a. /\ pc[p] = "hold" /\ pc' = [pc EXCEPT ![p] = "connect"] /\ path' = [path EXCEPT ![p] = "legacy"]
      /\ bind' = [bind EXCEPT ![p] = NoBind] /\ hold' = [hold EXCEPT ![p] = "no"]
      /\ UNCHANGED <<name, data, wal, cut, resume, aside, alone, events, crashes, world>>
  BY DEF LockDefer, Unbind, Answer, proc, rest
<1>n. Before BY <1>a DEF Placed
<1>q. \A q \in Procs \ {p} : pc[q] \in {"down", "use"} BY <1>a DEF OneBusy, Busy, TypeOK
<1>o. ~alone[p]
  <2>1. PICK q \in Procs \ {p} : hold[q] # "no" BY DEF LockDefer, Free, Others
  <2>2. pc[q] # "down" BY <2>1 DEF Bound, Moving
  <2> QED BY <2>2 DEF AloneOK, OthersDown
<1>1. TypeOK' BY <1>a, <1>n, <1>q, <1>o DEF TypeOK, Inodes
<1>2. OneBusy' BY <1>a, <1>n, <1>q, <1>o DEF OneBusy, Busy, TypeOK
<1>3. HomeKeeps' BY <1>a, <1>n, <1>q, <1>o DEF HomeKeeps, Home, Away, Before, TypeOK, Inodes
<1>4. Clear' BY <1>a, <1>n, <1>q, <1>o DEF Clear, Before, TypeOK
<1>5. ASSUME NEW q \in Procs PROVE Bound(q)' /\ Placed(q)' /\ Moved(q)' /\ AloneOK(q)'
  <2>1. Bound(q)' BY <1>a, <1>n, <1>q, <1>o DEF Bound, AtHome, Home, Before, Moving, TypeOK
  <2>2. Placed(q)'
    BY <1>a, <1>n, <1>q, <1>o DEF Placed, Home, Before, Moving, OthersDown, TypeOK
  <2>3. Moved(q)' BY <1>a, <1>n, <1>q, <1>o DEF Moved, SameFile, Moving, TypeOK
  <2>4. AloneOK(q)' BY <1>a, <1>n, <1>q, <1>o DEF AloneOK, OthersDown, Before, TypeOK
  <2> QED BY <2>1, <2>2, <2>3, <2>4
<1> QED BY <1>1, <1>2, <1>3, <1>4, <1>5

\* Nobody can have the file at the configured name open, and it has no -wal.
LEMMA SetAsideStep ==
  ASSUME Inodes, MaxCrashes \in Nat, FilesInv, ~Overlap, NEW p \in Procs, SetAside(p)
  PROVE  FilesInv'
<1> USE DEF FilesInv
<1>a. /\ pc[p] = "aside"
      /\ UNCHANGED <<cut, resume, alone, events, crashes, world>>
  BY DEF SetAside, rest
<1>n. Before /\ Home = "legacy" /\ Away = "new" BY <1>a DEF Placed, Home, Away, Moving
<1>b. bind[p] = [ino |-> name.legacy, as |-> "legacy"] /\ wal.legacy = NoWal /\ wal.new = NoWal
  BY <1>a, <1>n DEF Bound, AtHome, HomeKeeps, Moving
<1>q. \A q \in Procs \ {p} : pc[q] = "down" BY <1>a DEF Placed, OthersDown, Moving
<1>o. \A f : Others(p, f) = {} BY <1>q DEF Others, Bound, Moving
<1>c. ~SameFile /\ ~resume[p] BY <1>a DEF Moved
<1>d. name.new # name.legacy BY <1>c, <1>n DEF SameFile, Before, Inodes
<1>w. /\ pc' = [pc EXCEPT ![p] = "place"]
      /\ name' = [name EXCEPT !.new = None]
      /\ aside' = [aside EXCEPT ![p] = name.new]
      /\ UNCHANGED <<path, data, wal, bind, hold>>
  <2>1. CASE name.new = None
    <3>1. aside[p] = None BY <1>a DEF Moved
    <3> QED BY <2>1, <3>1, <1>o, <1>b, <1>d DEF SetAside, Goto, TypeOK
  <2>2. CASE name.new # None
    <3>1. wal["new"].of # name.new BY <2>2, <1>b
    <3> QED BY <2>2, <3>1, <1>o, <1>b, <1>d DEF SetAside, Goto, FoldedAt
  <2> QED BY <2>1, <2>2
<1>f. name.new \in Files \cup {None} BY DEF TypeOK, HomeKeeps
<1>h. /\ name'.legacy = name.legacy /\ name'.new = None
      /\ Before' /\ Home' = "legacy" /\ Away' = "new"
  BY <1>w, <1>n DEF TypeOK, Before, Home, Away
<1>1. TypeOK' BY <1>a, <1>n, <1>b, <1>q, <1>c, <1>d, <1>w, <1>f, <1>h DEF TypeOK, Inodes
<1>2. OneBusy'
  BY <1>a, <1>n, <1>b, <1>q, <1>c, <1>d, <1>w, <1>f, <1>h DEF OneBusy, Busy, TypeOK
<1>3. HomeKeeps' BY <1>a, <1>n, <1>b, <1>q, <1>c, <1>d, <1>w, <1>f, <1>h DEF HomeKeeps
<1>4. Clear'
  BY <1>a, <1>n, <1>b, <1>q, <1>c, <1>d, <1>w, <1>f, <1>h DEF Clear, Before, TypeOK
<1>5. ASSUME NEW q \in Procs PROVE Bound(q)' /\ Placed(q)' /\ Moved(q)' /\ AloneOK(q)'
  <2>1. Bound(q)'
    BY <1>a, <1>n, <1>b, <1>q, <1>c, <1>d, <1>w, <1>f, <1>h
       DEF Bound, AtHome, Home, Before, Moving, TypeOK
  <2>2. Placed(q)'
    BY <1>a, <1>n, <1>b, <1>q, <1>c, <1>d, <1>w, <1>f, <1>h
       DEF Placed, Home, Before, Moving, OthersDown, TypeOK
  <2>3. Moved(q)'
    BY <1>a, <1>n, <1>b, <1>q, <1>c, <1>d, <1>w, <1>f, <1>h
       DEF Moved, SameFile, Moving, TypeOK
  <2>4. AloneOK(q)'
    BY <1>a, <1>n, <1>b, <1>q, <1>c, <1>d, <1>w, <1>f, <1>h
       DEF AloneOK, OthersDown, Before, TypeOK
  <2> QED BY <2>1, <2>2, <2>3, <2>4
<1> QED BY <1>1, <1>2, <1>3, <1>4, <1>5

\* The second link, or the copy, holds every event.
LEMMA PlaceStep ==
  ASSUME Inodes, MaxCrashes \in Nat, FilesInv, ~Overlap, NEW p \in Procs, Place(p)
  PROVE  FilesInv'
<1> USE DEF FilesInv
<1>a. /\ pc[p] = "place" /\ pc' = [pc EXCEPT ![p] = "switch"]
      /\ UNCHANGED <<path, wal, bind, hold, cut, resume, aside, alone, events, crashes,
                     world>>
  BY DEF Place, Goto, rest, proc
<1>n. Before /\ Home = "legacy" /\ Away = "new" BY <1>a DEF Placed, Home, Away, Moving
<1>b. bind[p] = [ino |-> name.legacy, as |-> "legacy"] /\ wal.legacy = NoWal /\ wal.new = NoWal
  BY <1>a, <1>n DEF Bound, AtHome, HomeKeeps, Moving
<1>q. \A q \in Procs \ {p} : pc[q] = "down" BY <1>a DEF Placed, OthersDown, Moving
<1>c. name.new = None /\ ~resume[p] BY <1>a DEF Moved
<1>e. name.legacy \in Files /\ events \subseteq data[name.legacy]
  BY <1>n, <1>b DEF HomeKeeps, Before, Inodes
<1>w. PICK f \in Files :
        /\ name' = [name EXCEPT !.new = f]
        /\ \/ world.same /\ f = name.legacy /\ data' = data
           \/ ~world.same /\ f # name.legacy /\ data' = [data EXCEPT ![f] = data[name.legacy]]
  <2>1. CASE world.same
    BY <2>1, <1>n, <1>e DEF Place, FileOf, Real, Inodes
  <2>2. CASE ~world.same
    <3>1. \E f \in Files : f \notin {name.legacy, aside[p]}
      BY DEF Inodes
    <3>2. \A q \in Procs \ {p} : bind[q] = NoBind /\ aside[q] = None
      BY <1>q DEF Bound, Moved, Moving
    <3>3. \E f \in Files : Unused(f) BY <3>1, <3>2, <1>b, <1>c DEF Unused, Inodes
    <3> DEFINE f == CHOOSE g \in Files : Unused(g)
    <3>4. f \in Files /\ Unused(f) BY <3>3
    <3>5. f # name.legacy BY <3>4 DEF Unused
    <3>6. name' = [name EXCEPT !.new = f] /\ data' = [data EXCEPT ![f] = data[name.legacy]]
      BY <2>2, <1>b DEF Place
    <3> HIDE DEF f
    <3> QED BY <2>2, <3>4, <3>5, <3>6
  <2> QED BY <2>1, <2>2
<1>1. TypeOK' BY <1>a, <1>n, <1>b, <1>q, <1>c, <1>e, <1>w DEF TypeOK, Inodes
<1>2. OneBusy' BY <1>a, <1>n, <1>b, <1>q, <1>c, <1>e, <1>w DEF OneBusy, Busy, TypeOK
<1>3. HomeKeeps'
  BY <1>a, <1>n, <1>b, <1>q, <1>c, <1>e, <1>w
     DEF HomeKeeps, Home, Away, Before, TypeOK, Inodes
<1>4. Clear' BY <1>a, <1>n, <1>b, <1>q, <1>c, <1>e, <1>w DEF Clear, Before, TypeOK
<1>5. ASSUME NEW q \in Procs PROVE Bound(q)' /\ Placed(q)' /\ Moved(q)' /\ AloneOK(q)'
  <2>1. Bound(q)'
    BY <1>a, <1>n, <1>b, <1>q, <1>c, <1>e, <1>w
       DEF Bound, AtHome, Home, Before, Moving, TypeOK
  <2>2. Placed(q)'
    BY <1>a, <1>n, <1>b, <1>q, <1>c, <1>e, <1>w
       DEF Placed, Home, Before, Moving, OthersDown, TypeOK
  <2>3. Moved(q)'
    BY <1>a, <1>n, <1>b, <1>q, <1>c, <1>e, <1>w DEF Moved, SameFile, Moving, TypeOK
  <2>4. AloneOK(q)'
    BY <1>a, <1>n, <1>b, <1>q, <1>c, <1>e, <1>w DEF AloneOK, OthersDown, Before, TypeOK
  <2> QED BY <2>1, <2>2, <2>3, <2>4
<1> QED BY <1>1, <1>2, <1>3, <1>4, <1>5

\* The home becomes the configured name, which holds every event.
LEMMA SwitchStep ==
  ASSUME Inodes, MaxCrashes \in Nat, FilesInv, ~Overlap, NEW p \in Procs, Switch(p)
  PROVE  FilesInv'
<1> USE DEF FilesInv
<1>a. /\ pc[p] = "switch" /\ pc' = [pc EXCEPT ![p] = "tidy"]
      /\ bind' = [bind EXCEPT ![p] = NoBind] /\ hold' = [hold EXCEPT ![p] = "no"]
      /\ aside' = [aside EXCEPT ![p] = None]
      /\ UNCHANGED <<path, data, wal, cut, resume, alone, events, crashes, world>>
  BY DEF Switch, Goto, Unbind, rest
<1>n. Before /\ Home = "legacy" /\ Away = "new" BY <1>a DEF Placed, Home, Away, Moving
<1>b. wal.legacy = NoWal /\ wal.new = NoWal BY <1>a, <1>n DEF Bound, HomeKeeps, Moving
<1>q. \A q \in Procs \ {p} : pc[q] = "down" BY <1>a DEF Placed, OthersDown, Moving
<1>c. name.new \in Files /\ events \subseteq data[name.new] BY <1>a DEF Moved
<1>w. name'.legacy \in {Link, None} /\ name'.new = name.new /\ name' \in [Names -> Files \cup {None, Link}]
  BY DEF Switch, TypeOK
<1>h. ~Before' /\ Home' = "new" /\ Away' = "legacy" BY <1>w DEF Before, Home, Away, Inodes
<1>1. TypeOK' BY <1>a, <1>n, <1>b, <1>q, <1>c, <1>w, <1>h DEF TypeOK, Inodes
<1>2. OneBusy' BY <1>a, <1>n, <1>b, <1>q, <1>c, <1>w, <1>h DEF OneBusy, Busy, TypeOK
<1>3. HomeKeeps'
  BY <1>a, <1>n, <1>b, <1>q, <1>c, <1>w, <1>h
     DEF HomeKeeps, Home, Away, Before, TypeOK, Inodes
<1>4. Clear' BY <1>a, <1>n, <1>b, <1>q, <1>c, <1>w, <1>h DEF Clear, Before, TypeOK
<1>5. ASSUME NEW q \in Procs PROVE Bound(q)' /\ Placed(q)' /\ Moved(q)' /\ AloneOK(q)'
  <2>1. Bound(q)'
    BY <1>a, <1>n, <1>b, <1>q, <1>c, <1>w, <1>h
       DEF Bound, AtHome, Home, Before, Moving, TypeOK
  <2>2. Placed(q)'
    BY <1>a, <1>n, <1>b, <1>q, <1>c, <1>w, <1>h
       DEF Placed, Home, Before, Moving, OthersDown, TypeOK
  <2>3. Moved(q)'
    BY <1>a, <1>n, <1>b, <1>q, <1>c, <1>w, <1>h DEF Moved, SameFile, Moving, TypeOK
  <2>4. AloneOK(q)'
    BY <1>a, <1>n, <1>b, <1>q, <1>c, <1>w, <1>h DEF AloneOK, OthersDown, Before, TypeOK
  <2> QED BY <2>1, <2>2, <2>3, <2>4
<1> QED BY <1>1, <1>2, <1>3, <1>4, <1>5

\* An undone move leaves the home where it was.
LEMMA MoveFailsStep ==
  ASSUME Inodes, MaxCrashes \in Nat, FilesInv, ~Overlap, NEW p \in Procs, MoveFails(p)
  PROVE  FilesInv'
<1> USE DEF FilesInv
<1>a. /\ pc[p] \in {"place", "switch"} /\ pc' = [pc EXCEPT ![p] = "connect"]
      /\ path' = [path EXCEPT ![p] = "legacy"]
      /\ bind' = [bind EXCEPT ![p] = NoBind] /\ hold' = [hold EXCEPT ![p] = "no"]
      /\ aside' = [aside EXCEPT ![p] = None] /\ alone' = [alone EXCEPT ![p] = FALSE]
      /\ UNCHANGED <<data, wal, cut, resume, events, crashes, world>>
  BY DEF MoveFails, Answer, Unbind, rest
<1>n. Before /\ Home = "legacy" /\ Away = "new" BY <1>a DEF Placed, Home, Away, Moving
<1>q. \A q \in Procs \ {p} : pc[q] = "down" BY <1>a DEF Placed, OthersDown, Moving
<1>w. /\ name'.legacy = name.legacy /\ name' \in [Names -> Files \cup {None, Link}]
      /\ name'.new \in {name.new, aside[p]} /\ name'.new # Link
      /\ world.same => name'.new \in {aside[p], name.legacy}
  BY <1>a, <1>n, SMTT(20) DEF MoveFails, Undone, TypeOK, HomeKeeps, Moved, Inodes
<1>h. Before' /\ Home' = "legacy" /\ Away' = "new" BY <1>w, <1>n DEF Before, Home, Away
<1>1. TypeOK' BY <1>a, <1>n, <1>q, <1>w, <1>h DEF TypeOK, Inodes
<1>2. OneBusy' BY <1>a, <1>n, <1>q, <1>w, <1>h DEF OneBusy, Busy, TypeOK
<1>3. HomeKeeps'
  BY <1>a, <1>n, <1>q, <1>w, <1>h DEF HomeKeeps, Home, Away, Before, TypeOK, Inodes
<1>4. Clear' BY <1>a, <1>n, <1>q, <1>w, <1>h DEF Clear, Before, TypeOK
<1>5. ASSUME NEW q \in Procs PROVE Bound(q)' /\ Placed(q)' /\ Moved(q)' /\ AloneOK(q)'
  <2>1. Bound(q)'
    BY <1>a, <1>n, <1>q, <1>w, <1>h DEF Bound, AtHome, Home, Before, Moving, TypeOK
  <2>2. Placed(q)'
    BY <1>a, <1>n, <1>q, <1>w, <1>h DEF Placed, Home, Before, Moving, OthersDown, TypeOK
  <2>3. Moved(q)' BY <1>a, <1>n, <1>q, <1>w, <1>h DEF Moved, SameFile, Moving, TypeOK
  <2>4. AloneOK(q)' BY <1>a, <1>n, <1>q, <1>w, <1>h DEF AloneOK, OthersDown, Before, TypeOK
  <2> QED BY <2>1, <2>2, <2>3, <2>4
<1> QED BY <1>1, <1>2, <1>3, <1>4, <1>5

\* Nobody writes the -wal of the old name any more, and it is gone already.
LEMMA TidyStep ==
  ASSUME Inodes, MaxCrashes \in Nat, FilesInv, ~Overlap, NEW p \in Procs, Tidy(p)
  PROVE  FilesInv'
<1> USE DEF FilesInv
<1>a. /\ pc[p] = "tidy" /\ pc' = [pc EXCEPT ![p] = "connect"] /\ path' = [path EXCEPT ![p] = "new"]
      /\ UNCHANGED <<name, data, bind, hold, resume, aside, alone, events, crashes, world>>
  BY DEF Tidy, Answer, rest
<1>n. ~Before /\ Home = "new" /\ Away = "legacy" BY <1>a DEF Placed, Home, Away
<1>q. \A q \in Procs \ {p} : pc[q] \in {"down", "use"} BY <1>a DEF OneBusy, Busy, TypeOK
<1>w. wal' = wal /\ cut' = cut
  <2>1. wal.legacy = NoWal BY <1>n DEF HomeKeeps
  <2>2. \A q \in Procs : hold[q] = "shared" => bind[q].as = "new"
    BY <1>n DEF Bound, AtHome, Moving, TypeOK
  <2>3. Unlinked("legacy") => wal' = wal /\ cut' = cut BY <2>1, <2>2 DEF Unlinked, TypeOK
  <2> QED BY <2>3 DEF Tidy
<1>1. TypeOK' BY <1>a, <1>n, <1>q, <1>w DEF TypeOK, Inodes
<1>2. OneBusy' BY <1>a, <1>n, <1>q, <1>w DEF OneBusy, Busy, TypeOK
<1>3. HomeKeeps' BY <1>a, <1>n, <1>q, <1>w DEF HomeKeeps, Home, Away, Before, TypeOK, Inodes
<1>4. Clear' BY <1>a, <1>n, <1>q, <1>w DEF Clear, Before, TypeOK
<1>5. ASSUME NEW q \in Procs PROVE Bound(q)' /\ Placed(q)' /\ Moved(q)' /\ AloneOK(q)'
  <2>1. Bound(q)' BY <1>a, <1>n, <1>q, <1>w DEF Bound, AtHome, Home, Before, Moving, TypeOK
  <2>2. Placed(q)'
    BY <1>a, <1>n, <1>q, <1>w DEF Placed, Home, Before, Moving, OthersDown, TypeOK
  <2>3. Moved(q)' BY <1>a, <1>n, <1>q, <1>w DEF Moved, SameFile, Moving, TypeOK
  <2>4. AloneOK(q)' BY <1>a, <1>n, <1>q, <1>w DEF AloneOK, OthersDown, Before, TypeOK
  <2> QED BY <2>1, <2>2, <2>3, <2>4
<1> QED BY <1>1, <1>2, <1>3, <1>4, <1>5

\* The open finds the store at its home, or makes an empty one there when
\* nothing was ever committed.
LEMMA ConnectStep ==
  ASSUME Inodes, MaxCrashes \in Nat, FilesInv, ~Overlap, NEW p \in Procs, Connect(p)
  PROVE  FilesInv'
<1> USE DEF FilesInv
<1>a. /\ pc[p] = "connect" /\ pc' = [pc EXCEPT ![p] = "open"]
      /\ UNCHANGED <<path, wal, hold, cut, resume, aside, alone, events, crashes, world>>
  BY DEF Connect, Goto, rest, proc
<1>q. \A q \in Procs \ {p} : pc[q] \in {"down", "use"} BY <1>a DEF OneBusy, Busy, TypeOK
<1>h. path[p] = Home /\ Real(Home) = Home BY <1>a DEF Placed, Home, Before, Real, Inodes
<1>w. \E f \in Files :
        /\ bind' = [bind EXCEPT ![p] = [ino |-> f, as |-> Home]]
        /\ \/ f = name[Home] /\ UNCHANGED <<name, data>>
           \/ /\ name[Home] = None /\ ~Before
              /\ name' = [name EXCEPT !.new = f] /\ data' = [data EXCEPT ![f] = {}]
  <2>1. CASE name[Home] # None
    <3>1. name[Home] \in Files BY <2>1 DEF Home, Before, HomeKeeps, TypeOK
    <3> QED BY <2>1, <3>1, <1>h DEF Connect, Bind
  <2>2. CASE name[Home] = None
    <3>1. ~Before /\ Home = "new" BY <2>2 DEF Home, Before, Inodes
    <3>2. \A q \in Procs : bind[q] = NoBind
      BY <2>2, <3>1, <1>a, <1>q DEF Bound, Moving
    <3>3. \A q \in Procs : aside[q] = None BY <1>a, <1>q DEF Moved
    <3>4. wal.new = NoWal /\ wal.legacy = NoWal BY <3>1, <2>2 DEF HomeKeeps, Home, Away
    <3>5. \E f \in Files : Unused(f)
      BY <3>1, <3>2, <3>3, <3>4, <2>2 DEF Unused, Before, Inodes
    <3> QED BY <3>1, <3>5, <2>2, <1>h DEF Connect, Bind
  <2> QED BY <2>1, <2>2
<1>t. Home \in Names BY DEF Home
<1>s. PICK f \in Files :
        /\ bind' = [bind EXCEPT ![p] = [ino |-> f, as |-> Home]]
        /\ \/ f = name[Home] /\ UNCHANGED <<name, data>>
           \/ /\ name[Home] = None /\ ~Before
              /\ name' = [name EXCEPT !.new = f] /\ data' = [data EXCEPT ![f] = {}]
  BY <1>w
<1>u. /\ name' \in [Names -> Files \cup {None, Link}] /\ name'.new # Link /\ name'.legacy = name.legacy
      /\ AtHome = [ino |-> name[Home], as |-> Home] /\ AtHome' = [ino |-> f, as |-> Home]
      /\ name'[Home] = f /\ Home' = Home /\ (Before' <=> Before)
  BY <1>s DEF AtHome, Home, Before, HomeKeeps, TypeOK, Inodes
<1>v. name[Home] = None => \A q \in Procs : pc[q] \notin {"open", "use", "hold"} \cup Moving
  BY <1>a, <1>q DEF Bound, Moving
<1>b. ASSUME NEW q \in Procs PROVE Bound(q)'
  <2>1. CASE q = p
    <3>1. bind'[p] = AtHome' /\ hold'[p] = "no" /\ pc'[p] = "open"
      BY <1>a, <1>s, <1>u DEF Bound, Moving, TypeOK
    <3>2. name'[Home'] = f BY <1>u
    <3> QED BY <2>1, <3>1, <3>2 DEF Bound, Moving, Inodes
  <2>2. CASE q # p
    <3>1. pc'[q] = pc[q] /\ bind'[q] = bind[q] /\ hold'[q] = hold[q]
      BY <2>2, <1>a, <1>s DEF TypeOK
    <3>2. pc[q] = "use" => AtHome' = AtHome /\ name'[Home'] = name[Home] BY <1>s, <1>u, <1>v
    <3>3. wal'[Home'] = wal[Home] BY <1>a, <1>u
    <3> QED BY <3>1, <3>2, <3>3, <1>u, <1>q, <2>2 DEF Bound, Moving
  <2> QED BY <2>1, <2>2
<1>1. TypeOK' BY <1>a, <1>q, <1>h, <1>s, <1>t, <1>u, <1>v DEF TypeOK, Inodes
<1>2. OneBusy' BY <1>a, <1>q, <1>h, <1>s, <1>t, <1>u, <1>v DEF OneBusy, Busy, TypeOK
<1>3. HomeKeeps'
  BY <1>a, <1>q, <1>h, <1>s, <1>t, <1>u, <1>v
     DEF HomeKeeps, Home, Away, Before, TypeOK, Inodes
<1>4. Clear' BY <1>a, <1>q, <1>h, <1>s, <1>t, <1>u, <1>v DEF Clear, Before, TypeOK
<1>5. ASSUME NEW q \in Procs PROVE Bound(q)' /\ Placed(q)' /\ Moved(q)' /\ AloneOK(q)'
  <2>1. Bound(q)' BY <1>b
  <2>2. Placed(q)'
    BY <1>a, <1>q, <1>h, <1>s, <1>t, <1>u, <1>v
       DEF Placed, Home, Before, Moving, OthersDown, TypeOK
  <2>3. Moved(q)'
    BY <1>a, <1>q, <1>h, <1>s, <1>t, <1>u, <1>v DEF Moved, SameFile, Moving, TypeOK
  <2>4. AloneOK(q)'
    BY <1>a, <1>q, <1>h, <1>s, <1>t, <1>u, <1>v DEF AloneOK, OthersDown, Before, TypeOK
  <2> QED BY <2>1, <2>2, <2>3, <2>4
<1> QED BY <1>1, <1>2, <1>3, <1>4, <1>5

\* The connection writes the -wal of the home name.
LEMMA OpenStoreStep ==
  ASSUME Inodes, MaxCrashes \in Nat, FilesInv, ~Overlap, NEW p \in Procs, OpenStore(p)
  PROVE  FilesInv'
<1> USE DEF FilesInv
<1>a. /\ pc[p] = "open" /\ pc' = [pc EXCEPT ![p] = "use"]
      /\ hold' = [hold EXCEPT ![p] = "shared"]
      /\ UNCHANGED <<path, name, data, bind, cut, resume, aside, alone, events, crashes,
                     world>>
  BY DEF OpenStore, Goto, rest, proc
<1>q. \A q \in Procs \ {p} : pc[q] \in {"down", "use"} BY <1>a DEF OneBusy, Busy, TypeOK
<1>b. bind[p] = AtHome /\ name[Home] # None BY <1>a DEF Bound
<1>h. Home \in Names /\ Away \in Names /\ Home # Away BY DEF Home, Away
<1>w. wal' = [wal EXCEPT ![Home].of = name[Home]]
  <2>1. bind[p].ino = name[Home] /\ bind[p].as = Home BY <1>b DEF AtHome
  <2>2. name[Home] = IF wal[Home].of = None THEN name[Home] ELSE wal[Home].of
    BY DEF HomeKeeps
  <2>3. wal' = [wal EXCEPT ![Home].of = IF @ = None THEN name[Home] ELSE @]
    BY <2>1 DEF OpenStore
  <2> QED BY <2>2, <2>3
<1>t. name[Home] \in Files BY <1>b, <1>h DEF Home, Before, HomeKeeps, TypeOK
<1>u. /\ wal' \in [Names -> [of : Files \cup {None}, ev : SUBSET Events]]
      /\ wal'[Home] = [of |-> name[Home], ev |-> wal[Home].ev] /\ wal'[Away] = wal[Away]
  BY <1>w, <1>h, <1>t DEF TypeOK
<1>1. TypeOK' BY <1>a, <1>q, <1>b, <1>h, <1>w, <1>t, <1>u DEF TypeOK, Inodes
<1>2. OneBusy' BY <1>a, <1>q, <1>b, <1>h, <1>w, <1>t, <1>u DEF OneBusy, Busy, TypeOK
<1>3. HomeKeeps'
  BY <1>a, <1>q, <1>b, <1>h, <1>w, <1>t, <1>u
     DEF HomeKeeps, Home, Away, Before, TypeOK, Inodes
<1>4. Clear' BY <1>a, <1>q, <1>b, <1>h, <1>w, <1>t, <1>u DEF Clear, Before, TypeOK
<1>5. ASSUME NEW q \in Procs PROVE Bound(q)' /\ Placed(q)' /\ Moved(q)' /\ AloneOK(q)'
  <2>1. Bound(q)'
    BY <1>a, <1>q, <1>b, <1>h, <1>w, <1>t, <1>u
       DEF Bound, AtHome, Home, Before, Moving, TypeOK
  <2>2. Placed(q)'
    BY <1>a, <1>q, <1>b, <1>h, <1>w, <1>t, <1>u
       DEF Placed, Home, Before, Moving, OthersDown, TypeOK
  <2>3. Moved(q)'
    BY <1>a, <1>q, <1>b, <1>h, <1>w, <1>t, <1>u DEF Moved, SameFile, Moving, TypeOK
  <2>4. AloneOK(q)'
    BY <1>a, <1>q, <1>b, <1>h, <1>w, <1>t, <1>u DEF AloneOK, OthersDown, Before, TypeOK
  <2> QED BY <2>1, <2>2, <2>3, <2>4
<1> QED BY <1>1, <1>2, <1>3, <1>4, <1>5

\* A connection that never read is given up.
LEMMA OpenFailsStep ==
  ASSUME Inodes, MaxCrashes \in Nat, FilesInv, ~Overlap, NEW p \in Procs, OpenFails(p)
  PROVE  FilesInv'
<1> USE DEF FilesInv
<1>a. /\ pc[p] = "open" /\ pc' = [pc EXCEPT ![p] = "down"]
      /\ bind' = [bind EXCEPT ![p] = NoBind] /\ hold' = [hold EXCEPT ![p] = "no"]
      /\ UNCHANGED <<path, name, data, wal, cut, resume, aside, alone, events, crashes,
                     world>>
  BY DEF OpenFails, Unbind, Goto, rest, proc
<1>q. \A q \in Procs \ {p} : pc[q] \in {"down", "use"} BY <1>a DEF OneBusy, Busy, TypeOK
<1>1. TypeOK' BY <1>a, <1>q DEF TypeOK, Inodes
<1>2. OneBusy' BY <1>a, <1>q DEF OneBusy, Busy, TypeOK
<1>3. HomeKeeps' BY <1>a, <1>q DEF HomeKeeps, Home, Away, Before, TypeOK, Inodes
<1>4. Clear' BY <1>a, <1>q DEF Clear, Before, TypeOK
<1>5. ASSUME NEW q \in Procs PROVE Bound(q)' /\ Placed(q)' /\ Moved(q)' /\ AloneOK(q)'
  <2>1. Bound(q)' BY <1>a, <1>q DEF Bound, AtHome, Home, Before, Moving, TypeOK
  <2>2. Placed(q)' BY <1>a, <1>q DEF Placed, Home, Before, Moving, OthersDown, TypeOK
  <2>3. Moved(q)' BY <1>a, <1>q DEF Moved, SameFile, Moving, TypeOK
  <2>4. AloneOK(q)' BY <1>a, <1>q DEF AloneOK, OthersDown, Before, TypeOK
  <2> QED BY <2>1, <2>2, <2>3, <2>4
<1> QED BY <1>1, <1>2, <1>3, <1>4, <1>5

\* The event is in the -wal of the home name.
LEMMA CommitStep ==
  ASSUME Inodes, MaxCrashes \in Nat, FilesInv, ~Overlap, NEW p \in Procs, NEW e \in Events, Commit(p, e)
  PROVE  FilesInv'
<1> USE DEF FilesInv
<1>a. /\ pc[p] = "use" /\ events' = events \cup {e}
      /\ UNCHANGED <<name, data, pc, path, bind, hold, resume, aside, alone, crashes,
                     world>>
  BY DEF Commit
<1>b. bind[p] = AtHome /\ name[Home] # None /\ wal[Home].of = name[Home] BY <1>a DEF Bound
<1>h. Home \in Names /\ Away \in Names /\ Home # Away BY DEF Home, Away
<1>w. wal' = [wal EXCEPT ![Home].ev = @ \cup {e}] /\ cut' = cut
  BY <1>b DEF Commit, HomeKeeps, AtHome
<1>q. \A q \in Procs : pc[q] \notin Moving \cup {"unlink"}
  BY <1>a DEF Placed, OthersDown, Moving
<1>1. TypeOK' BY <1>a, <1>b, <1>h, <1>w, <1>q DEF TypeOK, Inodes
<1>2. OneBusy' BY <1>a, <1>b, <1>h, <1>w, <1>q DEF OneBusy, Busy, TypeOK
<1>3. HomeKeeps'
  BY <1>a, <1>b, <1>h, <1>w, <1>q DEF HomeKeeps, Home, Away, Before, TypeOK, Inodes
<1>4. Clear' BY <1>a, <1>b, <1>h, <1>w, <1>q DEF Clear, Before, TypeOK
<1>5. ASSUME NEW q \in Procs PROVE Bound(q)' /\ Placed(q)' /\ Moved(q)' /\ AloneOK(q)'
  <2>1. Bound(q)'
    BY <1>a, <1>b, <1>h, <1>w, <1>q DEF Bound, AtHome, Home, Before, Moving, TypeOK
  <2>2. Placed(q)'
    BY <1>a, <1>b, <1>h, <1>w, <1>q DEF Placed, Home, Before, Moving, OthersDown, TypeOK
  <2>3. Moved(q)' BY <1>a, <1>b, <1>h, <1>w, <1>q DEF Moved, SameFile, Moving, TypeOK
  <2>4. AloneOK(q)' BY <1>a, <1>b, <1>h, <1>w, <1>q DEF AloneOK, OthersDown, Before, TypeOK
  <2> QED BY <2>1, <2>2, <2>3, <2>4
<1> QED BY <1>1, <1>2, <1>3, <1>4, <1>5

\* The checkpoint folds the -wal in; the sidecars are unlinked only by the
\* last to close, with nobody inside a start.
LEMMA CloseStoreStep ==
  ASSUME Inodes, MaxCrashes \in Nat, FilesInv, ~Overlap, NEW p \in Procs, CloseStore(p)
  PROVE  FilesInv'
<1> USE DEF FilesInv
<1>a. /\ pc[p] = "use" /\ pc' = [pc EXCEPT ![p] = IF Sole(p) THEN "unlink" ELSE "down"]
      /\ bind' = [bind EXCEPT ![p] = NoBind] /\ hold' = [hold EXCEPT ![p] = "no"]
      /\ UNCHANGED <<path, name, resume, aside, alone, events, crashes, world>>
  BY DEF CloseStore, Unbind, Goto, rest
<1>i. \A q \in Procs : pc[q] \in {"down", "use"} BY DEF CloseStore, Idle
<1>b. bind[p] = AtHome /\ name[Home] # None /\ wal[Home].of = name[Home] BY <1>a DEF Bound
<1>h. Home \in Names /\ Away \in Names /\ Home # Away BY DEF Home, Away
<1>q. Sole(p) <=> \A q \in Procs \ {p} : pc[q] = "down"
  BY <1>i, <1>b DEF Sole, Others, Bound, AtHome, Moving
<1>w. /\ data' = [data EXCEPT ![name[Home]] = @ \cup wal[Home].ev]
      /\ wal' = [wal EXCEPT ![Home] = IF Sole(p) THEN NoWal ELSE [@ EXCEPT !.ev = {}]]
      /\ cut' = cut
  <2>1. bind[p].ino = name[Home] /\ bind[p].as = Home BY <1>b DEF AtHome
  <2>2. cut[p] = NoCut /\ [cut EXCEPT ![p] = NoCut] = cut BY DEF HomeKeeps
  <2>3. ~cut[p].is BY <2>2
  <2> QED BY <2>1, <2>2, <2>3 DEF CloseStore, Sole
<1>t. name[Home] \in Files /\ (Before => Home = "legacy")
  BY <1>b, <1>h DEF Home, Before, HomeKeeps, TypeOK
<1>u. \A f \in Files \ {name[Home]} : data'[f] = data[f] BY <1>w DEF TypeOK
<1>v. name.new \in Files \cup {None} BY DEF HomeKeeps, TypeOK
<1>1. TypeOK' BY <1>a, <1>i, <1>b, <1>h, <1>q, <1>w, <1>t, <1>u, <1>v DEF TypeOK, Inodes
<1>2. OneBusy'
  BY <1>a, <1>i, <1>b, <1>h, <1>q, <1>w, <1>t, <1>u, <1>v DEF OneBusy, Busy, TypeOK
<1>3. HomeKeeps'
  BY <1>a, <1>i, <1>b, <1>h, <1>q, <1>w, <1>t, <1>u, <1>v
     DEF HomeKeeps, Home, Away, Before, TypeOK, Inodes
<1>4. Clear'
  BY <1>a, <1>i, <1>b, <1>h, <1>q, <1>w, <1>t, <1>u, <1>v DEF Clear, Before, TypeOK
<1>5. ASSUME NEW q \in Procs PROVE Bound(q)' /\ Placed(q)' /\ Moved(q)' /\ AloneOK(q)'
  <2>1. Bound(q)'
    BY <1>a, <1>i, <1>b, <1>h, <1>q, <1>w, <1>t, <1>u, <1>v
       DEF Bound, AtHome, Home, Before, Moving, TypeOK
  <2>2. Placed(q)'
    BY <1>a, <1>i, <1>b, <1>h, <1>q, <1>w, <1>t, <1>u, <1>v
       DEF Placed, Home, Before, Moving, OthersDown, TypeOK
  <2>3. Moved(q)'
    BY <1>a, <1>i, <1>b, <1>h, <1>q, <1>w, <1>t, <1>u, <1>v
       DEF Moved, SameFile, Moving, TypeOK
  <2>4. AloneOK(q)'
    BY <1>a, <1>i, <1>b, <1>h, <1>q, <1>w, <1>t, <1>u, <1>v
       DEF AloneOK, OthersDown, Before, TypeOK
  <2> QED BY <2>1, <2>2, <2>3, <2>4
<1> QED BY <1>1, <1>2, <1>3, <1>4, <1>5

\* There is no -wal left and no writer for it.
LEMMA UnlinkStep ==
  ASSUME Inodes, MaxCrashes \in Nat, FilesInv, ~Overlap, NEW p \in Procs, Unlink(p)
  PROVE  FilesInv'
<1> USE DEF FilesInv
<1>a. /\ pc[p] = "unlink" /\ pc' = [pc EXCEPT ![p] = "down"]
      /\ UNCHANGED <<path, name, data, bind, hold, resume, aside, alone, events, crashes,
                     world>>
  BY DEF Unlink, Goto, rest
<1>q. \A q \in Procs \ {p} : pc[q] = "down" BY <1>a DEF Placed, OthersDown
<1>h. path[p] = Home /\ wal[Home] = NoWal BY <1>a DEF Placed, Bound
<1>w. wal' = wal /\ cut' = cut
  <2>1. \A q \in Procs : hold[q] = "no" BY <1>a, <1>q DEF Bound, Moving
  <2> QED BY <2>1, <1>h DEF Unlink, Unlinked, TypeOK
<1>1. TypeOK' BY <1>a, <1>q, <1>h, <1>w DEF TypeOK, Inodes
<1>2. OneBusy' BY <1>a, <1>q, <1>h, <1>w DEF OneBusy, Busy, TypeOK
<1>3. HomeKeeps' BY <1>a, <1>q, <1>h, <1>w DEF HomeKeeps, Home, Away, Before, TypeOK, Inodes
<1>4. Clear' BY <1>a, <1>q, <1>h, <1>w DEF Clear, Before, TypeOK
<1>5. ASSUME NEW q \in Procs PROVE Bound(q)' /\ Placed(q)' /\ Moved(q)' /\ AloneOK(q)'
  <2>1. Bound(q)' BY <1>a, <1>q, <1>h, <1>w DEF Bound, AtHome, Home, Before, Moving, TypeOK
  <2>2. Placed(q)'
    BY <1>a, <1>q, <1>h, <1>w DEF Placed, Home, Before, Moving, OthersDown, TypeOK
  <2>3. Moved(q)' BY <1>a, <1>q, <1>h, <1>w DEF Moved, SameFile, Moving, TypeOK
  <2>4. AloneOK(q)' BY <1>a, <1>q, <1>h, <1>w DEF AloneOK, OthersDown, Before, TypeOK
  <2> QED BY <2>1, <2>2, <2>3, <2>4
<1> QED BY <1>1, <1>2, <1>3, <1>4, <1>5

\* A process that dies leaves the names, the files and the -wal as they are.
LEMMA CrashStep ==
  ASSUME Inodes, MaxCrashes \in Nat, FilesInv, ~Overlap, NEW p \in Procs, Crash(p)
  PROVE  FilesInv'
<1> USE DEF FilesInv
<1>a. /\ pc[p] # "down" /\ pc' = [pc EXCEPT ![p] = "down"]
      /\ bind' = [bind EXCEPT ![p] = NoBind] /\ hold' = [hold EXCEPT ![p] = "no"]
      /\ aside' = [aside EXCEPT ![p] = None]
      /\ UNCHANGED <<path, name, data, wal, resume, alone, events, world>>
  BY DEF Crash, Unbind, Goto
<1>w. cut' = cut BY DEF Crash, HomeKeeps
<1>c. crashes' \in 0..MaxCrashes BY DEF Crash, TypeOK
<1>1. TypeOK' BY <1>a, <1>w, <1>c DEF TypeOK, Inodes
<1>2. OneBusy' BY <1>a, <1>w, <1>c DEF OneBusy, Busy, TypeOK
<1>3. HomeKeeps' BY <1>a, <1>w, <1>c DEF HomeKeeps, Home, Away, Before, TypeOK, Inodes
<1>4. Clear' BY <1>a, <1>w, <1>c DEF Clear, Before, TypeOK
<1>5. ASSUME NEW q \in Procs PROVE Bound(q)' /\ Placed(q)' /\ Moved(q)' /\ AloneOK(q)'
  <2>1. Bound(q)' BY <1>a, <1>w, <1>c DEF Bound, AtHome, Home, Before, Moving, TypeOK
  <2>2. Placed(q)' BY <1>a, <1>w, <1>c DEF Placed, Home, Before, Moving, OthersDown, TypeOK
  <2>3. Moved(q)' BY <1>a, <1>w, <1>c DEF Moved, SameFile, Moving, TypeOK
  <2>4. AloneOK(q)' BY <1>a, <1>w, <1>c DEF AloneOK, OthersDown, Before, TypeOK
  <2> QED BY <2>1, <2>2, <2>3, <2>4
<1> QED BY <1>1, <1>2, <1>3, <1>4, <1>5

-----------------------------------------------------------------------------
\* A start has what an older release left at the old name, or nothing.
LEMMA InitFiles ==
  ASSUME Inodes, MaxCrashes \in Nat, Init
  PROVE  FilesInv
<1>1. Old = 1 /\ Empty = 2
  <2>1. PICK n \in Nat : n >= 3 /\ Files = 1 .. n BY DEF Inodes
  <2>2. 1 \in Files /\ 2 \in Files /\ \A f \in Files : f \in Int /\ f >= 1 BY <2>1
  <2>3. Old \in Files /\ \A g \in Files : Old <= g
    <3>1. \E f \in Files : \A g \in Files : f <= g BY <2>2
    <3> QED BY <3>1 DEF Old
  <2>4. Old = 1
    <3>1. Old <= 1 /\ Old >= 1 /\ Old \in Int BY <2>2, <2>3
    <3> QED BY <3>1
  <2>5. \A f \in Files \ {1} : f \in Int /\ f >= 2 BY <2>2
  <2>6. Empty \in Files \ {1} /\ \A g \in Files \ {1} : Empty <= g
    <3>1. \E f \in Files \ {1} : \A g \in Files \ {1} : f <= g BY <2>2, <2>5
    <3> QED BY <3>1, <2>4 DEF Empty
  <2>7. Empty = 2
    <3>1. Empty <= 2 /\ Empty >= 2 /\ Empty \in Int BY <2>2, <2>5, <2>6
    <3> QED BY <3>1
  <2> QED BY <2>4, <2>7
<1>2. 1 \in Files /\ 2 \in Files BY DEF Inodes
<1>3. PICK had \in {{}} \cup {{e} : e \in Events},
           using \in SUBSET Procs :
        /\ had = {} => using = {}
        /\ name \in {[legacy |-> IF had = {} THEN None ELSE Old, new |-> n] : n \in {None, Empty}}
        /\ data = [f \in Files |-> IF f = Old THEN had ELSE {}]
        /\ wal = [n \in Names |-> IF n = "legacy" /\ using # {}
                                  THEN [of |-> Old, ev |-> {}] ELSE NoWal]
        /\ pc = [p \in Procs |-> IF p \in using THEN "use" ELSE "down"]
        /\ path = [p \in Procs |-> "legacy"]
        /\ bind = [p \in Procs |-> IF p \in using THEN [ino |-> Old, as |-> "legacy"] ELSE NoBind]
        /\ hold = [p \in Procs |-> IF p \in using THEN "shared" ELSE "no"]
        /\ events = had
  BY ZenonT(30) DEF Init
<1>4. /\ cut = [p \in Procs |-> NoCut] /\ resume = [p \in Procs |-> FALSE]
      /\ aside = [p \in Procs |-> None] /\ alone = [p \in Procs |-> FALSE]
      /\ crashes = 0 /\ world \in [same : BOOLEAN, links : BOOLEAN, claimed : BOOLEAN]
  BY DEF Init
<1>5. had \subseteq Events /\ (Before <=> had # {}) /\ name.new \in {None, 2}
  BY <1>1, <1>2, <1>3 DEF Before, Inodes
<1>6. TypeOK BY <1>1, <1>2, <1>3, <1>4, <1>5 DEF TypeOK, Inodes
<1>7. OneBusy BY <1>3 DEF OneBusy, Busy
<1>8. HomeKeeps BY <1>1, <1>2, <1>3, <1>4, <1>5 DEF HomeKeeps, Home, Away
<1>9. Clear BY <1>1, <1>2, <1>3, <1>4, <1>5 DEF Clear
<1>10. ASSUME NEW p \in Procs PROVE Bound(p) /\ Placed(p) /\ Moved(p) /\ AloneOK(p)
  <2>1. p \in using => Home = "legacy" BY <1>1, <1>3, <1>5 DEF Home
  <2>2. Bound(p) BY <1>1, <1>2, <1>3, <2>1 DEF Bound, AtHome, Moving
  <2>3. Placed(p) BY <2>1, <1>3 DEF Placed, Moving
  <2>4. Moved(p) BY <1>3, <1>4 DEF Moved
  <2>5. AloneOK(p) BY <1>4 DEF AloneOK
  <2> QED BY <2>2, <2>3, <2>4, <2>5
<1> QED BY <1>6, <1>7, <1>8, <1>9, <1>10 DEF FilesInv

\* A step that changes no variable keeps it.
LEMMA StutterFiles ==
  ASSUME FilesInv, UNCHANGED vars
  PROVE  FilesInv'
BY DEF FilesInv, vars, rest, proc, TypeOK, OneBusy, Busy, HomeKeeps, Home, Away, Before, Clear,
       Bound, AtHome, Moving, Placed, OthersDown, Moved, SameFile, AloneOK

\* Every step keeps the invariant.
LEMMA NextFiles ==
  ASSUME Inodes, MaxCrashes \in Nat, ~Overlap, FilesInv, [Next]_vars
  PROVE  FilesInv'
<1>1. CASE UNCHANGED vars BY <1>1, StutterFiles
<1>2. CASE Next
  BY <1>2, StartStep, ProbeStep, DecideStep, LockOpenStep, LockTakeStep, LockDeferStep,
     SetAsideStep, PlaceStep, SwitchStep, MoveFailsStep, TidyStep, ConnectStep, OpenStoreStep,
     OpenFailsStep, CommitStep, CloseStoreStep, UnlinkStep, CrashStep DEF Next
<1> QED BY <1>1, <1>2

\* What the invariant promises: the store the next start opens has every
\* event, and one open file is written through one name.
LEMMA FilesKept ==
  ASSUME Inodes, FilesInv
  PROVE  EventsSurvive
<1> USE DEF FilesInv
<1>1. NothingLost
  <2>1. Before => HasData("legacy") /\ Content("legacy") = data[name.legacy] \cup wal.legacy.ev
                  /\ name.legacy # Link
    BY DEF HasData, Content, FileOf, Real, Before, HomeKeeps, Home, Inodes
  <2>2. ~Before => (name.legacy = Link \/ ~HasData("legacy"))
    BY DEF HasData, Content, FileOf, Real, Before, TypeOK
  <2>3. ~Before => events \subseteq Content("new")
    BY DEF Content, FileOf, Real, HomeKeeps, Home, TypeOK
  <2>4. Before => events \subseteq Content("legacy")
    BY <2>1 DEF Before, HomeKeeps, Home, Inodes
  <2> QED BY <2>1, <2>2, <2>3, <2>4 DEF NothingLost
<1>2. OneName
  <2>1. ASSUME NEW p \in Procs, hold[p] = "shared" PROVE bind[p] = AtHome /\ wal[Home].of = name[Home]
    BY <2>1 DEF Bound, Moving, TypeOK
  <2> QED BY <2>1 DEF OneName, AtHome
<1>3. AloneMoves BY DEF AloneMoves, AloneOK, Bound, AtHome, Home
<1> QED BY <1>1, <1>2, <1>3 DEF EventsSurvive

\* When starts and closes do not overlap, whatever step a process is at or
\* dies at, on one filesystem or two, with or without symlinks: the store that
\* the next start opens holds every committed event, an open store is written
\* through one name only, and a start that runs alone ends at the configured
\* name (engine/migrate_paths.py _settle_db and _move, engine/store.py close).
THEOREM StoreNeverLosesAnEvent ==
  ASSUME Inodes, MaxCrashes \in Nat, ~Overlap
  PROVE  Spec => []EventsSurvive
<1>1. Init => FilesInv BY InitFiles
<1>2. FilesInv /\ [Next]_vars => FilesInv' BY NextFiles
<1>3. FilesInv => EventsSurvive BY FilesKept
<1> QED BY <1>1, <1>2, <1>3, PTL DEF Spec

-----------------------------------------------------------------------------
(* VectorCache *)

CopyConstants ==
    /\ Scores \subseteq Int /\ Floor \in Int /\ Rounding \in Nat /\ Limit \in Nat \ {0}
    /\ MaxRows \in Nat /\ MaxRowid \in Nat

Vec(n) == [id : Ids, what : Scores, width : Widths, at : 1 .. n]
IsTable(t, n) == DOMAIN t \subseteq 1 .. MaxRowid /\ t \in [DOMAIN t -> Vec(n)]

Sound(c, w, full) ==
    /\ IsTable(full, writes) /\ DOMAIN full \subseteq 1 .. c.max
    /\ c.max = 0 \/ c.max \in DOMAIN full
    /\ c.rows = Cache!OfWidth(full, w)
    /\ Cardinality(DOMAIN full) = c.count
    /\ c.top = Cache!At(full, c.max)

Holds(c, full) == \A r \in DOMAIN rows : r <= c.max => r \in DOMAIN full /\ rows[r] = full[r]
Reaches(c) == c.max = 0 \/ \E r \in DOMAIN rows : r >= c.max
Loading(w) == searchAt = "append" /\ call.width = w

CopyOK(w) ==
    copies[w].has =>
        /\ copies[w].gen \in Nat /\ copies[w].gen <= gen /\ copies[w].max \in Nat
        /\ copies[w].gen = gen =>
              \E full :
                 /\ Sound(copies[w], w, full)
                 /\ Cache!At(rows, copies[w].max) = copies[w].top => Holds(copies[w], full)
                 /\ Loading(w) => Holds(copies[w], full) /\ Reaches(copies[w])

TableOK ==
    /\ writes \in Nat /\ gen \in Nat
    /\ log = <<>> /\ replaying = 0
    /\ IsTable(rows, writes)

Searching == {"generation", "state", "rebuild", "append", "serve", "rescore"}

\* What a search that met no write may end with.
Exact(t) ==
    /\ \A r \in DOMAIN t : r \in DOMAIN Cache!Current /\ t[r] = Cache!Current[r]
    /\ \A r \in DOMAIN Cache!Current :
          LET ahead == {x \in DOMAIN Cache!Current : Cache!Current[x].what > Cache!Current[r].what}
              better == {RecordOf[Cache!Current[q].id] : q \in ahead}
          IN  Cache!Current[r].what > Floor /\ Cardinality(better) < Limit => r \in DOMAIN t

CallOK ==
    /\ call = [width |-> call.width, gen |-> call.gen, count |-> call.count, max |-> call.max,
               picked |-> call.picked]
    /\ searchAt # "idle" => call.width \in Widths
    /\ call.gen \in Nat /\ call.gen <= gen
    /\ searchAt = "append" =>
          /\ Cache!Mine.has /\ Cache!Mine.gen = call.gen
          /\ call.count \in Nat /\ call.max \in Nat
          /\ Cache!Mine.max < call.max /\ Cache!Mine.count < call.count

SeenOK ==
    /\ seen = [rows |-> seen.rows, moves |-> seen.moves] /\ seen.moves \in 0 .. 2
    /\ searchAt \in Searching => result = Cache!NoAnswer
    /\ seen.moves = 0 =>
          /\ searchAt \in {"state", "append", "rebuild", "serve", "rescore"} => call.gen = gen
          /\ searchAt = "append" => call.count = Cardinality(DOMAIN rows)
                                 /\ call.max = Cache!Highest(DOMAIN rows)
          /\ searchAt = "serve" => Cache!Mine.rows = Cache!Current
          /\ searchAt = "rescore" => Exact(call.picked)
          /\ searchAt = "done" /\ result # Cache!NoAnswer => Exact(result)

CopyInv ==
    design = "projection" =>
        /\ TableOK
        /\ copies = [w \in Widths |-> copies[w]] /\ \A w \in Widths : CopyOK(w)
        /\ CallOK /\ SeenOK

-----------------------------------------------------------------------------
LEMMA LeastNumber ==
    ASSUME NEW S \in SUBSET Nat, S # {}
    PROVE  \E m \in S : \A n \in S : m <= n
<1> DEFINE R == {ss \in Nat \X Nat : ss[1] < ss[2]}
<1>1. IsWellFoundedOn(R, Nat)
  BY NatLessThanWellFounded DEF OpToRel
<1>2. \A m, n \in Nat : <<n, m>> \in R <=> n < m
  OBVIOUS
<1> HIDE DEF R
<1>3. PICK m \in S : \A n \in S : ~ (<<n, m>> \in R)
  BY <1>1, WFMin
<1>4. \A n \in S : n \in Nat /\ m \in Nat /\ ~ (n < m)
  BY <1>2, <1>3
<1> QED
  BY <1>4

\* A finite set of numbers has a greatest one.
LEMMA GreatestNumber ==
    ASSUME NEW S, IsFiniteSet(S), S \subseteq Int, S # {}
    PROVE  Cache!Max(S) \in S /\ \A y \in S : y <= Cache!Max(S)
<1>1. PICK f : f \in Bijection(1 .. Cardinality(S), S) /\ Cardinality(S) \in Nat
  BY FS_CardinalityType DEF ExistsBijection
<1> DEFINE n == Cardinality(S)
<1>2. f \in [1 .. n -> S] /\ \A s \in S : \E i \in 1 .. n : f[i] = s
  BY <1>1 DEF Bijection, Injection, Surjection
<1>3. n \in Nat /\ n # 0 /\ 1 \in 1 .. n
  <2>1. PICK s \in S : TRUE
    OBVIOUS
  <2>2. PICK i \in 1 .. n : f[i] = s
    BY <1>2, <2>1
  <2> QED
    BY <1>1, <2>2
<1>9. \A i \in 1 .. n : f[i] \in Int
  BY <1>2
<1> HIDE DEF n
<1> DEFINE ends == {k \in Nat : k <= n /\ \E m \in 1 .. n : \A i \in 1 .. n - k : f[i] <= f[m]}
<1>4. n - 1 \in ends
  <2>1. \A i \in 1 .. n - (n - 1) : i = 1
    BY <1>3
  <2>2. f[1] \in Int
    BY <1>9, <1>3
  <2> QED
    BY <1>3, <2>1, <2>2
<1>5. PICK k \in ends : \A j \in ends : k <= j
  <2>1. ends \subseteq Nat /\ ends # {}
    BY <1>4
  <2> HIDE DEF ends
  <2> QED
    BY <2>1, LeastNumber
<1>6. k = 0
  <2> SUFFICES ASSUME k # 0 PROVE FALSE
    OBVIOUS
  <2>1. PICK m \in 1 .. n : \A i \in 1 .. n - k : f[i] <= f[m]
    OBVIOUS
  <2> DEFINE e == n - k + 1
  <2>2. e \in 1 .. n /\ f[e] \in Int /\ f[m] \in Int
    BY <1>9, <1>3, <1>5
  <2>3. \A i \in 1 .. n - (k - 1) : i \in 1 .. n - k \/ i = e
    BY <1>3, <1>5
  <2>4. \A i \in 1 .. n : f[i] \in Int
    BY <1>9
  <2>5. k - 1 \in Nat /\ k - 1 <= n /\ \A i \in 1 .. n - (k - 1) : i \in 1 .. n
    BY <1>3, <1>5
  <2>6. CASE f[e] <= f[m]
    BY <2>1, <2>3, <2>5, <2>6, <1>5
  <2>7. CASE f[m] < f[e]
    <3>1. \A i \in 1 .. n - (k - 1) : f[i] <= f[e]
      BY <2>1, <2>2, <2>3, <2>4, <2>5, <2>7
    <3>2. k - 1 \in ends
      BY <2>2, <2>5, <3>1
    <3> QED
      BY <3>2, <1>5
  <2> QED
    BY <2>2, <2>6, <2>7
<1>7. \E x \in S : \A y \in S : x >= y
  <2>1. PICK m \in 1 .. n : \A i \in 1 .. n : f[i] <= f[m]
    BY <1>3, <1>5, <1>6
  <2> QED
    BY <1>2, <2>1
<1> QED
  BY <1>7 DEF Cache!Max

\* The values of a function on a finite set.
LEMMA FiniteImage ==
    ASSUME NEW f, IsFiniteSet(DOMAIN f)
    PROVE  IsFiniteSet({f[x] : x \in DOMAIN f})
<1> DEFINE T == {f[x] : x \in DOMAIN f}
           g == [x \in DOMAIN f |-> f[x]]
<1>1. g \in [DOMAIN f -> T] /\ \A t \in T : \E x \in DOMAIN f : g[x] = t
  OBVIOUS
<1>2. g \in Surjection(DOMAIN f, T)
  BY <1>1 DEF Surjection
<1> HIDE DEF T, g
<1>3. IsFiniteSet(T)
  BY <1>2, FS_Surjection DEF ExistsSurjection
<1> QED
  BY <1>3 DEF T

LEMMA SameSize ==
    ASSUME NEW S
    PROVE  Cache!Cardinality(S) = Cardinality(S)
BY DEF Cache!Cardinality, Cardinality

LEMMA HighestRow ==
    ASSUME MaxRowid \in Nat, NEW n, NEW t, IsTable(t, n)
    PROVE  /\ IsFiniteSet(DOMAIN t) /\ Cardinality(DOMAIN t) \in Nat
           /\ Cache!Highest(DOMAIN t) \in 0 .. MaxRowid
           /\ \A r \in DOMAIN t : r <= Cache!Highest(DOMAIN t)
           /\ DOMAIN t # {} => Cache!Highest(DOMAIN t) \in DOMAIN t
<1>1. IsFiniteSet(DOMAIN t)
  BY FS_Interval, FS_Subset DEF IsTable
<1>2. DOMAIN t # {} => Cache!Max(DOMAIN t) \in DOMAIN t /\ \A y \in DOMAIN t : y <= Cache!Max(DOMAIN t)
  BY <1>1, GreatestNumber DEF IsTable
<1>3. Cardinality(DOMAIN t) \in Nat
  BY <1>1, FS_CardinalityType
<1>4. Cache!Highest(DOMAIN t) = IF DOMAIN t = {} THEN 0 ELSE Cache!Max(DOMAIN t)
  BY DEF Cache!Highest
<1> QED
  BY <1>1, <1>2, <1>3, <1>4 DEF IsTable

-----------------------------------------------------------------------------
LEMMA CopyStart ==
    ASSUME CopyConstants, Cache!Init
    PROVE  CopyInv
<1> USE DEF Cache!Init
<1>1. TableOK
  BY DEF TableOK, IsTable, Cache!NoRows, Vec
<1>2. copies = [w \in Widths |-> copies[w]] /\ \A w \in Widths : CopyOK(w)
  BY DEF CopyOK, Cache!NoCopy
<1>3. CallOK /\ SeenOK
  BY DEF CallOK, SeenOK, Searching
<1> QED
  BY <1>1, <1>2, <1>3 DEF CopyInv

\* A write moves the table on, and a search that is under way has met it.
LEMMA Written ==
    ASSUME CopyInv, design = "projection",
           UNCHANGED <<design, copies, searchAt, call, result, log, replaying>>,
           writes' = writes + 1, gen' \in Nat, gen <= gen',
           seen' = [seen EXCEPT !.moves = IF @ = 2 THEN 2 ELSE @ + 1],
           IsTable(rows', writes + 1), \A w \in Widths : CopyOK(w)'
    PROVE  CopyInv'
<1> USE DEF CopyInv
<1>1. TableOK'
  BY DEF TableOK, IsTable, Vec
<1>2. CallOK'
  BY DEF CallOK, Cache!Mine, TableOK
<1>3. SeenOK'
  <2>1. seen' = [rows |-> seen.rows, moves |-> seen'.moves] /\ seen'.moves \in 1 .. 2
    BY DEF SeenOK
  <2> QED
    BY <2>1 DEF SeenOK
<1> QED
  BY <1>1, <1>2, <1>3

\* A row that counts up to now counts from now on.
LEMMA LaterTable ==
    ASSUME NEW t, NEW n \in Nat, IsTable(t, n)
    PROVE  IsTable(t, n + 1)
BY DEF IsTable, Vec

LEMMA LaterSound ==
    ASSUME NEW c, NEW w, NEW full, Sound(c, w, full), writes \in Nat, writes' = writes + 1
    PROVE  Sound(c, w, full)'
BY LaterTable DEF Sound

\* What leaves the table takes no copy along: whoever is anchored still is.
LEMMA RemovedKeeps ==
    ASSUME CopyInv, design = "projection", UNCHANGED <<design, copies, searchAt, call, gen>>,
           writes' = writes + 1, searchAt # "append",
           DOMAIN rows' \subseteq DOMAIN rows, \A r \in DOMAIN rows' : rows'[r] = rows[r],
           NEW w \in Widths
    PROVE  CopyOK(w)'
<1> USE DEF CopyInv
<1> DEFINE c == copies[w]
<1> SUFFICES ASSUME c.has, c.gen = gen PROVE CopyOK(w)'
  BY DEF CopyOK
<1>1. PICK full : Sound(c, w, full) /\ (Cache!At(rows, c.max) = c.top => Holds(c, full))
  BY DEF CopyOK
<1>2. Sound(c, w, full)'
  BY <1>1, LaterSound DEF TableOK
<1>3. ASSUME Cache!At(rows', c.max) = c.top PROVE Holds(c, full)'
  <2>1. CASE c.max \in DOMAIN rows'
    BY <1>1, <1>3, <2>1 DEF Cache!At, Holds
  <2>2. CASE c.max \notin DOMAIN rows'
    <3>1. c.top = Cache!NoRow
      BY <1>3, <2>2 DEF Cache!At
    <3>2. c.max = 0
      BY <1>1, <3>1 DEF Sound, Cache!At, IsTable, Vec, Cache!NoRow
    <3> QED
      BY <3>2 DEF Holds, TableOK, IsTable
  <2> QED
    BY <2>1, <2>2
<1>4. ~Loading(w)'
  BY DEF Loading
<1> QED
  BY <1>2, <1>3, <1>4 DEF CopyOK

\* What is inserted gets a rowid above every other: below the row a copy is
\* anchored at nothing is new.
LEMMA InsertedKeeps ==
    ASSUME CopyConstants, CopyInv, design = "projection",
           UNCHANGED <<design, copies, searchAt, call, gen>>, writes' = writes + 1,
           NEW id, NEW what, NEW width, NEW w \in Widths,
           rows' = Cache!Put(Cache!Without(rows, id), Cache!Highest(DOMAIN rows) + 1,
                             Cache!Row(id, what, width, writes + 1))
    PROVE  CopyOK(w)'
<1> USE DEF CopyInv
<1> DEFINE c == copies[w]
           n == Cache!Highest(DOMAIN rows) + 1
<1> SUFFICES ASSUME c.has, c.gen = gen PROVE CopyOK(w)'
  BY DEF CopyOK
<1>1. PICK full : /\ Sound(c, w, full) /\ (Cache!At(rows, c.max) = c.top => Holds(c, full))
                  /\ (Loading(w) => Holds(c, full) /\ Reaches(c))
  BY DEF CopyOK
<1>2. Sound(c, w, full)'
  BY <1>1, LaterSound DEF TableOK
<1>3. /\ n \in Nat /\ n >= 1 /\ DOMAIN rows \subseteq 1 .. n - 1 /\ c.max \in Nat /\ writes \in Nat
  BY HighestRow DEF TableOK, CopyConstants, CopyOK, IsTable
<1>4. /\ n \in DOMAIN rows' /\ rows'[n].at = writes + 1
      /\ \A r \in DOMAIN rows' : r # n => r \in DOMAIN rows /\ rows'[r] = rows[r]
  BY DEF Cache!Put, Cache!Without, Cache!Restrict, Cache!Row
<1> HIDE DEF n
<1>5. ASSUME Cache!At(rows', c.max) = c.top PROVE Holds(c, full)'
  <2>1. CASE c.max = 0
    BY <1>3, <1>4, <2>1 DEF Holds
  <2>2. CASE c.max # 0
    <3>1. c.top = full[c.max] /\ c.top.at \in 1 .. writes
      BY <1>1, <2>2 DEF Sound, Cache!At, IsTable, Vec
    <3>2. c.max \in DOMAIN rows'
      BY <1>5, <3>1 DEF Cache!At, Cache!NoRow
    <3>3. c.max # n
      BY <1>3, <1>4, <1>5, <3>1 DEF Cache!At
    <3>4. Cache!At(rows, c.max) = c.top /\ c.max < n
      BY <1>3, <1>4, <1>5, <3>2, <3>3 DEF Cache!At
    <3> QED
      BY <1>1, <1>3, <1>4, <3>4 DEF Holds
  <2> QED
    BY <2>1, <2>2
<1>6. ASSUME Loading(w)' PROVE Holds(c, full)' /\ Reaches(c)'
  <2>1. Holds(c, full) /\ Reaches(c)
    BY <1>1, <1>6 DEF Loading
  <2>2. c.max < n
    <3>1. CASE c.max = 0
      BY <1>3, <3>1
    <3>2. CASE c.max # 0
      <4>1. PICK r \in DOMAIN rows : r >= c.max
        BY <2>1, <3>2 DEF Reaches
      <4>2. r \in 1 .. n - 1
        BY <1>3
      <4> QED
        BY <1>3, <4>1, <4>2
    <3> QED
      BY <3>1, <3>2
  <2>3. \A r \in DOMAIN rows' : r <= c.max => r # n
    BY <1>3, <1>4, <2>2
  <2> QED
    BY <1>3, <1>4, <2>1, <2>2, <2>3 DEF Holds, Reaches
<1> QED
  BY <1>2, <1>5, <1>6 DEF CopyOK

\* After a write in place no copy of before is taken for current.
LEMMA RewrittenKeeps ==
    ASSUME CopyInv, design = "projection", UNCHANGED copies, gen' = gen + 1, NEW w \in Widths
    PROVE  CopyOK(w)'
BY DEF CopyInv, CopyOK, TableOK

-----------------------------------------------------------------------------
(* Writers *)

LEMMA EmbedCopy ==
    ASSUME CopyConstants, CopyInv, design = "projection", NEW id \in Ids, NEW what \in Scores,
           NEW width \in Widths, Cache!Embed(id, what, width)
    PROVE  CopyInv'
<1> USE DEF Cache!Embed, Cache!Inserted, Cache!Write
<1>1. IsTable(rows', writes + 1)
  <2>1. IsTable(rows, writes) /\ writes \in Nat
    BY DEF CopyInv, TableOK
  <2>2. Cache!Highest(DOMAIN rows) \in 0 .. MaxRowid
    BY <2>1, HighestRow DEF CopyConstants
  <2> QED
    BY <2>1, <2>2 DEF IsTable, Vec, Cache!Put, Cache!Without, Cache!Restrict, Cache!Row,
       CopyConstants
<1>2. \A w \in Widths : CopyOK(w)'
  BY InsertedKeeps
<1> QED
  BY <1>1, <1>2, Written DEF CopyInv, TableOK

LEMMA RemoveCopy ==
    ASSUME CopyConstants, CopyInv, design = "projection", ~Beside,
           (\E id \in Ids : Cache!Delete(id)) \/ Cache!Truncate
    PROVE  CopyInv'
<1>1. /\ UNCHANGED <<design, copies, failures, searchAt, call, result, log, gen>> /\ writes' = writes + 1
      /\ seen' = [seen EXCEPT !.moves = IF @ = 2 THEN 2 ELSE @ + 1] /\ searchAt # "append"
  BY DEF Cache!Delete, Cache!Truncate, Cache!Write, Cache!MayDelete
<1>2. replaying' = replaying
  BY DEF Cache!Delete, Cache!Truncate, CopyInv, TableOK
<1>3. DOMAIN rows' \subseteq DOMAIN rows /\ rows' = [r \in DOMAIN rows' |-> rows[r]]
  BY DEF Cache!Delete, Cache!Truncate, Cache!Write, Cache!Without, Cache!Restrict, Cache!NoRows
<1>4. IsTable(rows', writes + 1)
  <2>1. IsTable(rows, writes + 1)
    BY LaterTable DEF CopyInv, TableOK
  <2> QED
    BY <1>3, <2>1 DEF IsTable
<1>5. \A w \in Widths : CopyOK(w)'
  BY <1>1, <1>3, RemovedKeeps
<1> QED
  BY <1>1, <1>2, <1>4, <1>5, Written DEF CopyInv, TableOK

LEMMA RewriteCopy ==
    ASSUME CopyConstants, CopyInv, design = "projection", NEW id \in Ids, NEW what \in Scores,
           NEW width \in Widths, Cache!Rewrite(id, what, width)
    PROVE  CopyInv'
<1> USE DEF Cache!Rewrite, Cache!Write
<1>1. IsTable(rows', writes + 1)
  <2>1. IsTable(rows, writes + 1)
    BY LaterTable DEF CopyInv, TableOK
  <2> QED
    BY <2>1 DEF IsTable, Vec, Cache!Row
<1>2. \A w \in Widths : CopyOK(w)'
  BY RewrittenKeeps
<1>3. gen \in Nat /\ gen' = gen + 1
  BY DEF CopyInv, TableOK
<1> QED
  BY <1>1, <1>2, <1>3, Written

-----------------------------------------------------------------------------
(* Readers *)

LEMMA SoundStays ==
    ASSUME NEW c, NEW w, NEW full, Sound(c, w, full), UNCHANGED writes
    PROVE  Sound(c, w, full)'
BY DEF Sound, IsTable, Vec

LEMMA CopySame ==
    ASSUME CopyInv, design = "projection", UNCHANGED <<design, rows, gen, writes>>, NEW w \in Widths,
           copies'[w] = copies[w], Loading(w)' => Loading(w)
    PROVE  CopyOK(w)'
<1> USE DEF CopyInv
<1>1. PICK c : c = copies[w]
  OBVIOUS
<1> SUFFICES ASSUME c.has, c.gen = gen PROVE CopyOK(w)'
  BY <1>1 DEF CopyOK
<1>2. PICK full : /\ Sound(c, w, full) /\ (Cache!At(rows, c.max) = c.top => Holds(c, full))
                  /\ (Loading(w) => Holds(c, full) /\ Reaches(c))
  BY <1>1 DEF CopyOK
<1>3. /\ Sound(c, w, full)' /\ (Cache!At(rows', c.max) = c.top => Holds(c, full)')
      /\ (Loading(w)' => Holds(c, full)' /\ Reaches(c)')
  BY <1>2, SoundStays DEF Holds, Reaches
<1> QED
  BY <1>1, <1>3 DEF CopyOK

LEMMA CopyStays ==
    ASSUME CopyInv, design = "projection", UNCHANGED <<design, Cache!table>>, NEW w \in Widths,
           copies'[w] = copies[w], Loading(w)' => Loading(w)
    PROVE  CopyOK(w)'
<1>1. UNCHANGED <<design, rows, gen, writes>>
  BY DEF Cache!table
<1> QED
  BY <1>1, CopySame

LEMMA CopyGone ==
    ASSUME NEW w \in Widths, copies'[w] = Cache!NoCopy
    PROVE  CopyOK(w)'
BY DEF CopyOK, Cache!NoCopy

LEMMA TableSame ==
    ASSUME CopyInv, design = "projection", UNCHANGED <<rows, gen, log, replaying, writes>>
    PROVE  TableOK'
BY DEF CopyInv, TableOK, IsTable, Vec

LEMMA TableStays ==
    ASSUME CopyInv, design = "projection", UNCHANGED Cache!table
    PROVE  TableOK'
<1>1. UNCHANGED <<rows, gen, log, replaying, writes>>
  BY DEF Cache!table
<1> QED
  BY <1>1, TableSame

\* A table that a copy holds, as large as the copy counts and no row above its
\* last, is the copy.
LEMMA CopyIsTable ==
    ASSUME CopyConstants, TableOK, NEW w, NEW c, NEW full, Sound(c, w, full), Holds(c, full),
           c.count = Cardinality(DOMAIN rows), c.max = Cache!Highest(DOMAIN rows)
    PROVE  c.rows = Cache!OfWidth(rows, w)
<1>1. IsFiniteSet(DOMAIN full)
  BY HighestRow DEF Sound, CopyConstants
<1>2. DOMAIN rows \subseteq DOMAIN full /\ \A r \in DOMAIN rows : rows[r] = full[r]
  BY HighestRow DEF Holds, TableOK, CopyConstants
<1>3. DOMAIN rows = DOMAIN full
  BY <1>1, <1>2, FS_Subset DEF Sound
<1>4. rows = full
  <2>1. rows = [r \in DOMAIN rows |-> rows[r]] /\ full = [r \in DOMAIN full |-> full[r]]
    BY DEF TableOK, Sound, IsTable
  <2> QED
    BY <1>2, <1>3, <2>1
<1> QED
  BY <1>4 DEF Sound

LEMMA BeginCopy ==
    ASSUME CopyInv, design = "projection", NEW v \in Widths, Cache!Begin(v)
    PROVE  CopyInv'
<1> USE DEF Cache!Begin
<1>1. \A w \in Widths : CopyOK(w)'
  BY CopyStays DEF Loading
<1>2. TableOK'
  BY TableStays
<1>3. CallOK'
  BY DEF CallOK, CopyInv, TableOK, Cache!table
<1>4. SeenOK'
  BY DEF SeenOK
<1> QED
  BY <1>1, <1>2, <1>3, <1>4 DEF CopyInv

LEMMA ReadGenerationCopy ==
    ASSUME CopyInv, design = "projection", Cache!ReadGeneration
    PROVE  CopyInv'
<1> USE DEF Cache!ReadGeneration
<1>1. \A w \in Widths : CopyOK(w)'
  BY CopyStays DEF Loading
<1>2. TableOK'
  BY TableStays
<1>3. CallOK'
  BY DEF CallOK, CopyInv, TableOK, Cache!table
<1>4. SeenOK'
  BY DEF SeenOK, CopyInv, CallOK, Cache!table, Searching
<1> QED
  BY <1>1, <1>2, <1>3, <1>4 DEF CopyInv

LEMMA ReadFailsCopy ==
    ASSUME CopyInv, design = "projection", Cache!ReadFails
    PROVE  CopyInv'
<1> USE DEF Cache!ReadFails
<1>1. \A w \in Widths : CopyOK(w)'
  BY CopyGone
<1>2. TableOK'
  BY TableStays
<1>3. CallOK'
  BY DEF CallOK, CopyInv, TableOK, Cache!table
<1>4. SeenOK'
  BY DEF SeenOK, CopyInv, Searching
<1> QED
  BY <1>1, <1>2, <1>3, <1>4 DEF CopyInv

LEMMA ReadStateCopy ==
    ASSUME CopyConstants, CopyInv, design = "projection", Cache!ReadState
    PROVE  CopyInv'
<1> DEFINE count == Cardinality(DOMAIN rows)
           max == Cache!Highest(DOMAIN rows)
           c == Cache!Mine
<1>1. /\ searchAt = "state" /\ searchAt' = Cache!Verdict(count, max)
      /\ call' = [call EXCEPT !.count = count, !.max = max]
      /\ copies' = IF count > MaxRows THEN [w \in Widths |-> Cache!NoCopy] ELSE copies
      /\ UNCHANGED <<design, Cache!table, failures, result, seen>>
  BY SameSize DEF Cache!ReadState, Cache!Counted
<1>2. /\ IsFiniteSet(DOMAIN rows) /\ count \in Nat /\ max \in 0 .. MaxRowid
      /\ \A r \in DOMAIN rows : r <= max
      /\ max # 0 => max \in DOMAIN rows
  BY HighestRow DEF CopyInv, TableOK, CopyConstants, Cache!Highest
<1>3. /\ call.width \in Widths /\ call.gen \in Nat /\ call.gen <= gen
      /\ call' = [width |-> call.width, gen |-> call.gen, count |-> count, max |-> max,
                picked |-> call.picked]
  BY <1>1 DEF CopyInv, CallOK
<1>4. TableOK'
  BY <1>1, TableStays
<1> HIDE DEF count, max
<1>5. CASE count > MaxRows
  <2>1. searchAt' = "done" /\ copies' = [w \in Widths |-> Cache!NoCopy]
    BY <1>1, <1>5, <1>2 DEF Cache!Verdict, CopyConstants
  <2>2. \A w \in Widths : CopyOK(w)'
    BY <2>1, CopyGone
  <2>3. CallOK'
    BY <1>1, <1>3, <2>1 DEF CallOK, Cache!table
  <2>4. SeenOK'
    BY <1>1, <2>1 DEF SeenOK, CopyInv, Searching
  <2> QED
    BY <1>1, <1>4, <2>1, <2>2, <2>3, <2>4 DEF CopyInv
<1>6. CASE ~(count > MaxRows)
  <2>1. copies' = copies /\ Cache!Mine' = c
    BY <1>1, <1>3, <1>6 DEF Cache!Mine
  <2>2. c.has => c.max \in Nat
    BY <1>3 DEF CopyInv, CopyOK, Cache!Mine
  <2>3. \/ searchAt' = "rebuild"
        \/ /\ searchAt' = "serve" /\ call.gen = c.gen /\ c.has /\ Cache!At(rows, c.max) = c.top
           /\ count = c.count /\ max = c.max
        \/ /\ searchAt' = "append" /\ call.gen = c.gen /\ c.has /\ Cache!At(rows, c.max) = c.top
           /\ count > c.count /\ max > c.max
    BY <1>1, <1>2, <1>6 DEF Cache!Verdict, CopyConstants, Cache!Unwritten, Cache!Anchored
  <2>4. ASSUME c.has, c.gen = gen, Cache!At(rows, c.max) = c.top
        PROVE  \E full : Sound(c, call.width, full) /\ Holds(c, full)
    BY <1>3, <2>4 DEF CopyInv, CopyOK, Cache!Mine
  <2>5. ASSUME NEW w \in Widths PROVE CopyOK(w)'
    <3>1. CASE ~Loading(w)'
      BY <1>1, <2>1, <3>1, CopyStays
    <3>2. CASE Loading(w)'
      <4>1. searchAt' = "append" /\ w = call.width
        BY <1>3, <3>2 DEF Loading
      <4>2. c.has /\ Cache!At(rows, c.max) = c.top /\ max > c.max /\ copies[w] = c /\ c.max \in Nat
        BY <2>2, <2>3, <4>1 DEF Cache!Mine
      <4>3. Reaches(c)
        BY <1>2, <4>2 DEF Reaches
      <4>4. PICK k : k = c
        OBVIOUS
      <4>5. ASSUME k.gen = gen
            PROVE  \E full : Sound(k, w, full)' /\ Holds(k, full)' /\ Reaches(k)'
        <5>1. PICK full : Sound(k, w, full) /\ Holds(k, full)
          BY <2>4, <4>1, <4>2, <4>4, <4>5
        <5>2. Sound(k, w, full)' /\ Holds(k, full)' /\ Reaches(k)'
          BY <1>1, <4>3, <4>4, <5>1, SoundStays DEF Holds, Reaches, Cache!table
        <5> QED
          BY <5>2
      <4>6. copies'[w] = k /\ k.has /\ k.gen \in Nat /\ k.gen <= gen' /\ k.max \in Nat /\ gen' = gen
        BY <1>1, <2>1, <4>2, <4>4 DEF CopyInv, CopyOK, Cache!table
      <4> QED
        BY <4>5, <4>6 DEF CopyOK
    <3> QED
      BY <3>1, <3>2
  <2>6. CallOK'
    <3>1. searchAt' = "append" => Cache!Mine'.has /\ Cache!Mine'.gen = call'.gen
                                 /\ Cache!Mine'.max < call'.max /\ Cache!Mine'.count < call'.count
      BY <1>2, <1>3, <2>1, <2>2, <2>3
    <3>2. gen' = gen /\ call'.count = count /\ call'.max = max
      BY <1>1, <1>3 DEF Cache!table
    <3> QED
      BY <1>2, <1>3, <3>1, <3>2 DEF CallOK
  <2>7. SeenOK'
    <3>1. ASSUME searchAt' = "serve", seen.moves = 0 PROVE Cache!Mine'.rows = Cache!Current'
      <4>1. c.has /\ c.gen = gen /\ Cache!At(rows, c.max) = c.top /\ count = c.count /\ max = c.max
        BY <1>1, <2>3, <3>1 DEF CopyInv, SeenOK
      <4>2. PICK full : Sound(c, call.width, full) /\ Holds(c, full)
        BY <2>4, <4>1
      <4>3. c.rows = Cache!Current
        BY <4>1, <4>2, CopyIsTable DEF CopyInv, count, max, Cache!Current
      <4> QED
        BY <1>1, <1>3, <2>1, <4>3 DEF Cache!Current, Cache!OfWidth, Cache!Restrict, Cache!table
    <3>2. result' = Cache!NoAnswer
      BY <1>1 DEF CopyInv, SeenOK, Searching
    <3>3. seen.moves = 0 => call'.gen = gen'
      BY <1>1, <1>3 DEF CopyInv, SeenOK, Cache!table
    <3>4. call'.count = Cardinality(DOMAIN rows') /\ call'.max = Cache!Highest(DOMAIN rows')
      BY <1>1, <1>3 DEF Cache!table, count, max
    <3> QED
      BY <1>1, <2>3, <3>1, <3>2, <3>3, <3>4 DEF SeenOK, CopyInv
  <2> QED
    BY <1>1, <1>4, <2>1, <2>5, <2>6, <2>7 DEF CopyInv
<1> QED
  BY <1>5, <1>6

LEMMA RebuildCopy ==
    ASSUME CopyConstants, CopyInv, design = "projection", Cache!Rebuild
    PROVE  CopyInv'
<1> USE DEF CopyInv
<1> DEFINE top == Cache!Highest(DOMAIN rows)
           k == [has |-> TRUE, rows |-> Cache!OfWidth(rows, call.width), max |-> top,
                 top |-> Cache!At(rows, top), gen |-> call.gen, count |-> Cardinality(DOMAIN rows)]
<1>1. /\ searchAt = "rebuild" /\ searchAt' = "serve" /\ copies' = [copies EXCEPT ![call.width] = k]
      /\ UNCHANGED <<design, rows, gen, log, replaying, writes, failures, call, result, seen>>
  BY SameSize DEF Cache!Rebuild, Cache!Counted, Cache!Hold
<1>2. /\ top \in 0 .. MaxRowid /\ \A r \in DOMAIN rows : r <= top
      /\ top # 0 => top \in DOMAIN rows
  BY HighestRow DEF TableOK, CopyConstants, Cache!Highest
<1>3. call.width \in Widths /\ call.gen \in Nat /\ call.gen <= gen
  BY <1>1 DEF CallOK
<1>4. TableOK'
  BY <1>1, TableSame
<1>5. ASSUME NEW w \in Widths PROVE CopyOK(w)'
  <2>1. CASE w # call.width
    BY <1>1, <2>1, CopySame DEF Loading
  <2>2. CASE w = call.width
    <3>1. PICK c : c = k
      OBVIOUS
    <3>2. PICK full : full = rows
      OBVIOUS
    <3>3. Sound(c, w, full)' /\ Holds(c, full)'
      BY <1>1, <1>2, <2>2, <3>1, <3>2 DEF Sound, Holds, TableOK, IsTable, Vec
    <3>4. copies'[w] = c /\ c.has /\ c.gen \in Nat /\ c.gen <= gen' /\ c.max \in Nat
      BY <1>1, <1>2, <1>3, <2>2, <3>1 DEF CopyConstants
    <3> QED
      BY <1>1, <3>3, <3>4 DEF CopyOK, Loading
  <2> QED
    BY <2>1, <2>2
<1>6. CallOK'
  BY <1>1 DEF CallOK
<1>7. SeenOK'
  BY <1>1, <1>3 DEF SeenOK, Cache!Mine, Cache!Current, Searching
<1> QED
  BY <1>1, <1>4, <1>5, <1>6, <1>7

LEMMA AppendFreshCopy ==
    ASSUME CopyConstants, CopyInv, design = "projection", Cache!AppendFresh
    PROVE  CopyInv'
<1> USE DEF CopyInv
<1>1. /\ searchAt = "append" /\ searchAt' = IF Cache!AllNew THEN "serve" ELSE "rebuild"
      /\ UNCHANGED <<design, Cache!table, failures, call, result, seen>>
  BY DEF Cache!AppendFresh
<1>2. TableOK' /\ call.width \in Widths
  BY <1>1, TableStays DEF CallOK
<1>3. CASE ~Cache!AllNew
  <2>1. copies' = copies /\ searchAt' = "rebuild"
    BY <1>1, <1>3 DEF Cache!AppendFresh
  <2>2. \A w \in Widths : CopyOK(w)'
    BY <1>1, <2>1, CopyStays DEF Loading
  <2>3. CallOK'
    BY <1>1, <2>1 DEF CallOK, Cache!table
  <2>4. SeenOK'
    BY <1>1, <2>1 DEF SeenOK, Searching, Cache!table
  <2> QED
    BY <1>1, <1>2, <2>1, <2>2, <2>3, <2>4
<1>4. CASE Cache!AllNew
  <2>1. PICK old, more, w : old = Cache!Mine /\ more = Cache!Fresh /\ w = call.width
    OBVIOUS
  <2>2. PICK c : c = [has |-> TRUE, rows |-> Cache!Joined(old.rows, Cache!OfWidth(more, w)),
                      count |-> call.count, max |-> call.max,
                      top |-> Cache!At(more, call.max), gen |-> call.gen]
    OBVIOUS
  <2>3. searchAt' = "serve" /\ copies' = [copies EXCEPT ![w] = c]
    BY <1>1, <1>4, <2>1, <2>2 DEF Cache!AppendFresh, Cache!AllNew, Cache!Hold
  <2>4. /\ old = copies[w] /\ old.has /\ old.gen = call.gen /\ call.gen \in Nat /\ call.gen <= gen
        /\ call.count \in Nat /\ call.max \in Nat /\ old.max < call.max /\ old.max \in Nat
    BY <1>1, <1>2, <2>1 DEF CallOK, CopyOK, Cache!Mine
  <2>5. /\ more = [r \in DOMAIN more |-> rows[r]]
        /\ DOMAIN more = {r \in DOMAIN rows : r > old.max /\ r <= call.max}
        /\ old.count + Cardinality(DOMAIN more) = call.count /\ Cache!Highest(DOMAIN more) = call.max
    BY <1>4, <2>1, SameSize DEF Cache!AllNew, Cache!Fresh, Cache!Counted, Cache!Restrict
  <2>6. IsTable(more, writes) /\ call.max \in DOMAIN more
    <3>1. IsTable(more, writes)
      BY <2>5 DEF TableOK, IsTable
    <3>2. DOMAIN more # {}
      BY <2>4, <2>5 DEF Cache!Highest
    <3> QED
      BY <2>5, <3>1, <3>2, HighestRow DEF CopyConstants
  <2>7. ASSUME call.gen = gen
        PROVE  \E full : Sound(c, w, full) /\ Holds(c, full)
    <3>1. PICK full : Sound(old, w, full) /\ Holds(old, full)
      BY <1>1, <1>2, <2>1, <2>4, <2>7 DEF CopyOK, Loading
    <3> DEFINE both == Cache!Joined(full, more)
    <3>2. IsTable(both, writes) /\ DOMAIN both = DOMAIN full \cup DOMAIN more
      BY <2>6, <3>1 DEF IsTable, Cache!Joined, Sound
    <3>3. DOMAIN full \cap DOMAIN more = {} /\ DOMAIN both \subseteq 1 .. c.max
      <4>1. DOMAIN full \subseteq 1 .. old.max /\ DOMAIN more \subseteq 1 .. MaxRowid
        BY <2>6, <3>1 DEF Sound, IsTable
      <4> QED
        BY <2>2, <2>4, <2>5, <3>2, <4>1 DEF CopyConstants
    <3>4. Cardinality(DOMAIN both) = c.count
      <4>1. IsFiniteSet(DOMAIN full) /\ IsFiniteSet(DOMAIN more) /\ Cardinality(DOMAIN full) \in Nat
            /\ Cardinality(DOMAIN more) \in Nat
        BY <2>6, <3>1, HighestRow DEF Sound, CopyConstants
      <4>2. Cardinality(DOMAIN both) = Cardinality(DOMAIN full) + Cardinality(DOMAIN more) - Cardinality({})
        BY <3>2, <3>3, <4>1, FS_Union
      <4>3. Cardinality({}) = 0
        BY FS_EmptySet
      <4> HIDE DEF both
      <4> QED
        BY <2>2, <2>5, <3>1, <4>1, <4>2, <4>3 DEF Sound
    <3>5. c.rows = Cache!OfWidth(both, w)
      BY <2>2, <3>1, <3>3 DEF Sound, Cache!OfWidth, Cache!Restrict, Cache!Joined
    <3>6. c.max \in DOMAIN both /\ c.top = Cache!At(both, c.max)
      BY <2>2, <2>6, <3>2 DEF Cache!At, Cache!Joined
    <3>7. Holds(c, both)
      <4> SUFFICES ASSUME NEW r \in DOMAIN rows, r <= c.max PROVE r \in DOMAIN both /\ rows[r] = both[r]
        BY DEF Holds
      <4>1. r \in Int /\ old.max \in Int
        BY <2>4 DEF TableOK, IsTable
      <4>2. CASE r <= old.max
        BY <2>5, <3>1, <3>2, <4>1, <4>2 DEF Holds, Cache!Joined
      <4>3. CASE r > old.max
        BY <2>2, <2>5, <3>2, <4>3 DEF Cache!Joined
      <4> QED
        BY <4>1, <4>2, <4>3
    <3> QED
      BY <3>2, <3>3, <3>4, <3>5, <3>6, <3>7 DEF Sound
  <2>8. ASSUME NEW v \in Widths PROVE CopyOK(v)'
    <3>1. CASE v # w
      BY <1>1, <2>3, <3>1, CopyStays DEF Loading
    <3>2. CASE v = w
      <4>1. c = copies'[v] /\ c.has /\ c.gen = call.gen /\ c.max = call.max /\ ~Loading(v)'
        BY <2>1, <2>2, <2>3, <1>2, <3>2 DEF Loading
      <4>2. ASSUME call.gen = gen
            PROVE  \E full : Sound(c, v, full)' /\ Holds(c, full)'
        <5>1. PICK full : Sound(c, v, full) /\ Holds(c, full)
          BY <2>7, <3>2, <4>2
        <5>2. Sound(c, v, full)' /\ Holds(c, full)'
          BY <1>1, <5>1, SoundStays DEF Holds, Cache!table
        <5> QED
          BY <5>2
      <4> QED
        BY <1>1, <2>4, <4>1, <4>2 DEF CopyOK, Cache!table
    <3> QED
      BY <3>1, <3>2
  <2>9. CallOK'
    BY <1>1, <2>3 DEF CallOK, Cache!table
  <2>10. SeenOK'
    <3>1. ASSUME seen.moves = 0 PROVE Cache!Mine'.rows = Cache!Current'
      <4>1. call.gen = gen /\ call.count = Cardinality(DOMAIN rows)
                           /\ call.max = Cache!Highest(DOMAIN rows)
        BY <1>1, <3>1 DEF SeenOK
      <4>2. PICK full : Sound(c, w, full) /\ Holds(c, full)
        BY <2>7, <4>1
      <4>3. c.rows = Cache!OfWidth(rows, w)
        BY <2>2, <4>1, <4>2, CopyIsTable
      <4> QED
        BY <1>1, <1>2, <2>1, <2>3, <4>3 DEF Cache!Current, Cache!Mine, Cache!OfWidth,
           Cache!Restrict, Cache!table
    <3> QED
      BY <1>1, <2>3, <3>1 DEF SeenOK, Searching, Cache!table
  <2> QED
    BY <1>1, <1>2, <2>3, <2>8, <2>9, <2>10
<1> QED
  BY <1>3, <1>4

\* No row that may count is left out of the shortlist: the scores of half
\* precision are off by no more than the margin allows for.
LEMMA ShortlistReaches ==
    ASSUME CopyConstants, CopyInv, design = "projection", searchAt = "serve",
           Cache!Mine.rows = Cache!Current,
           NEW sims, DOMAIN sims = DOMAIN Cache!Current,
           \A r \in DOMAIN Cache!Current :
              sims[r] \in {Cache!Current[r].what + d : d \in -Rounding .. Rounding}
    PROVE  Exact(Cache!Restrict(Cache!Mine.rows, Cache!Shortlist(sims)))
<1> DEFINE t == Cache!Current
<1>1. /\ IsFiniteSet(DOMAIN t) /\ \A r \in DOMAIN t : t[r].what \in Int
      /\ \A r \in DOMAIN t : sims[r] \in Int /\ sims[r] <= t[r].what + Rounding
                             /\ t[r].what <= sims[r] + Rounding
  <2>1. IsFiniteSet(DOMAIN rows) /\ DOMAIN t \subseteq DOMAIN rows
    BY HighestRow DEF CopyInv, TableOK, CopyConstants, Cache!Current, Cache!OfWidth, Cache!Restrict
  <2>2. \A r \in DOMAIN t : t[r].what \in Int
    BY DEF CopyInv, TableOK, IsTable, Vec, CopyConstants, Cache!Current, Cache!OfWidth,
       Cache!Restrict
  <2>3. IsFiniteSet(DOMAIN t)
    BY <2>1, FS_Subset
  <2> HIDE DEF t
  <2>4. ASSUME NEW r \in DOMAIN t,
               \A q \in DOMAIN t : sims[q] \in {t[q].what + d : d \in -Rounding .. Rounding}
        PROVE  sims[r] \in Int /\ sims[r] <= t[r].what + Rounding /\ t[r].what <= sims[r] + Rounding
    <3>1. PICK d \in -Rounding .. Rounding : sims[r] = t[r].what + d
      BY <2>4
    <3> QED
      BY <2>2, <3>1 DEF CopyConstants
  <2> QED
    BY <2>2, <2>3, <2>4 DEF t
<1> DEFINE sure == {r \in DOMAIN sims : sims[r] > Floor + Cache!Margin}
           enough == Cache!Reached(sims, sure)
           short == Cache!Shortlist(sims)
<1>2. short \subseteq DOMAIN t
  BY DEF Cache!Shortlist
<1>3. ASSUME NEW r \in DOMAIN t, t[r].what > Floor,
             LET better == {RecordOf[t[q].id] : q \in {x \in DOMAIN t : t[x].what > t[r].what}}
             IN  Cardinality(better) < Limit
      PROVE  r \in short
  <2> DEFINE better == {RecordOf[t[q].id] : q \in {x \in DOMAIN t : t[x].what > t[r].what}}
  <2>1. sims[r] > Floor - Cache!Margin
    BY <1>1, <1>3 DEF Cache!Margin, CopyConstants
  <2>2. IsFiniteSet(better)
    <3>1. IsFiniteSet({x \in DOMAIN t : t[x].what > t[r].what})
      BY <1>1, FS_Subset
    <3> DEFINE f == [q \in {x \in DOMAIN t : t[x].what > t[r].what} |-> RecordOf[t[q].id]]
    <3>2. better = {f[q] : q \in DOMAIN f} /\ IsFiniteSet(DOMAIN f)
      BY <3>1
    <3> HIDE DEF f, better
    <3> QED
      BY <3>2, FiniteImage
  <2>3. ASSUME enough # {} PROVE sims[r] >= Cache!Max(enough) - 2 * Cache!Margin
    <3>1. enough \subseteq Int /\ IsFiniteSet(enough)
      <4>1. Cache!Range(sims) = {sims[x] : x \in DOMAIN t} /\ DOMAIN sims = DOMAIN t
        BY DEF Cache!Range
      <4>2. IsFiniteSet(Cache!Range(sims)) /\ Cache!Range(sims) \subseteq Int
        <5> HIDE DEF t
        <5> QED
          BY <1>1, <4>1, FiniteImage
      <4>3. enough \subseteq Cache!Range(sims)
        BY DEF Cache!Reached
      <4> QED
        BY <4>2, <4>3, FS_Subset
    <3>2. PICK u : u = Cache!Max(enough) /\ u \in enough
      BY <2>3, <3>1, GreatestNumber
    <3> DEFINE ahead == {RecordOf[t[q].id] : q \in {q \in sure : sims[q] >= u}}
    <3>3. Cardinality(ahead) >= Limit
      BY <3>2, SameSize DEF Cache!Reached
    <3> SUFFICES ASSUME ~ (sims[r] >= u - 2 * Cache!Margin) PROVE FALSE
      BY <3>2
    <3>4. ASSUME NEW q \in sure, sims[q] >= u PROVE q \in DOMAIN t /\ t[q].what > t[r].what
      <4>1. u \in Int /\ q \in DOMAIN t
        BY <3>1, <3>2
      <4> HIDE DEF t, sure, enough
      <4> QED
        BY <1>1, <1>3, <3>4, <4>1 DEF Cache!Margin, CopyConstants
    <3>5. ahead \subseteq better
      BY <3>4
    <3>6. Cardinality(ahead) \in Nat /\ Cardinality(better) \in Nat
          /\ Cardinality(ahead) <= Cardinality(better)
      <4> HIDE DEF ahead, better
      <4> QED
        BY <2>2, <3>5, FS_Subset, FS_CardinalityType
    <3> HIDE DEF ahead
    <3> QED
      BY <1>3, <3>3, <3>6 DEF CopyConstants
  <2> QED
    BY <2>1, <2>3 DEF Cache!Shortlist
<1>4. Cache!Restrict(Cache!Mine.rows, short) = [x \in short |-> t[x]]
  BY <1>2 DEF Cache!Restrict
<1> QED
  BY <1>2, <1>3, <1>4 DEF Exact

LEMMA ExactStays ==
    ASSUME NEW t, Exact(t), UNCHANGED Cache!table, call'.width = call.width
    PROVE  Exact(t)'
<1>1. Cache!Current' = Cache!Current
  BY DEF Cache!Current, Cache!OfWidth, Cache!Restrict, Cache!table
<1> QED
  BY <1>1 DEF Exact

LEMMA PickCopy ==
    ASSUME CopyConstants, CopyInv, design = "projection", Cache!Pick
    PROVE  CopyInv'
<1> USE DEF CopyInv
<1>1. /\ searchAt = "serve" /\ searchAt' \in {"done", "rescore"}
      /\ UNCHANGED <<design, Cache!table, copies, failures, result, seen>>
      /\ searchAt' = "done" => call' = call
  BY DEF Cache!Pick
<1>2. call' = [call EXCEPT !.picked = call'.picked]
  BY DEF Cache!Pick, CallOK
<1>3. TableOK' /\ \A w \in Widths : CopyOK(w)'
  BY <1>1, TableStays, CopyStays DEF Loading
<1>4. CallOK'
  BY <1>1, <1>2 DEF CallOK, Cache!table
<1>5. SeenOK'
  <2> PICK p : p = call'.picked
    OBVIOUS
  <2>1. ASSUME seen.moves = 0, searchAt' = "rescore" PROVE Exact(p)'
    <3>1. Cache!Mine.rows = Cache!Current
      BY <1>1, <2>1 DEF SeenOK
    <3>2. PICK sims : /\ DOMAIN sims = DOMAIN Cache!Current
                      /\ \A r \in DOMAIN Cache!Current :
                            sims[r] \in {Cache!Current[r].what + d : d \in -Rounding .. Rounding}
                      /\ call' = [call EXCEPT !.picked = Cache!Restrict(Cache!Mine.rows,
                                                                   Cache!Shortlist(sims))]
      BY <2>1, <3>1 DEF Cache!Pick
    <3>3. Exact(p)
      BY <1>1, <3>1, <3>2, ShortlistReaches DEF CallOK
    <3> QED
      BY <1>1, <1>2, <3>3, ExactStays DEF CallOK
  <2> QED
    BY <1>1, <1>2, <2>1 DEF SeenOK, CallOK, Searching, Cache!table
<1> QED
  BY <1>1, <1>3, <1>4, <1>5

LEMMA RescoreCopy ==
    ASSUME CopyConstants, CopyInv, design = "projection", Cache!Rescore
    PROVE  CopyInv'
<1> USE DEF CopyInv
<1>1. /\ searchAt = "rescore" /\ searchAt' = "done"
      /\ UNCHANGED <<design, Cache!table, failures, call, seen>>
      /\ \A w \in Widths : copies'[w] = copies[w] \/ copies'[w] = Cache!NoCopy
      /\ copies' = [w \in Widths |-> copies'[w]]
      /\ result' = Cache!NoAnswer \/ result' = [r \in DOMAIN call.picked |-> rows[r]]
  BY DEF Cache!Rescore
<1>2. TableOK' /\ \A w \in Widths : CopyOK(w)'
  BY <1>1, TableStays, CopyStays, CopyGone DEF Loading
<1>3. CallOK'
  BY <1>1 DEF CallOK, Cache!table
<1>4. SeenOK'
  <2> PICK p : p = result'
    OBVIOUS
  <2>1. ASSUME seen.moves = 0, result' # Cache!NoAnswer PROVE Exact(p)'
    <3>1. Exact(call.picked) /\ result' = [r \in DOMAIN call.picked |-> rows[r]]
      BY <1>1, <2>1 DEF SeenOK
    <3>2. \A r \in DOMAIN call.picked : r \in DOMAIN Cache!Current /\ Cache!Current[r] = rows[r]
      BY <3>1 DEF Exact, Cache!Current, Cache!OfWidth, Cache!Restrict
    <3>3. Exact(p)
      BY <3>1, <3>2 DEF Exact
    <3> QED
      BY <1>1, <3>3, ExactStays DEF Cache!table
  <2> QED
    BY <1>1, <2>1 DEF SeenOK, Searching, Cache!table
<1> QED
  BY <1>1, <1>2, <1>3, <1>4

LEMMA CopyStep ==
    ASSUME CopyConstants, ~Beside, CopyInv, [Cache!Next]_(Cache!vars)
    PROVE  CopyInv'
<1> SUFFICES ASSUME design' = "projection" PROVE CopyInv'
  BY DEF CopyInv
<1>1. design = "projection"
  BY DEF Cache!Next, Cache!WriteStep, Cache!CallStep, Cache!Embed, Cache!Capture, Cache!Inserted,
     Cache!Write, Cache!Rewrite, Cache!Delete, Cache!Truncate, Cache!Replay,
         Cache!Begin, Cache!ReadGeneration, Cache!ReadState, Cache!Rebuild,
         Cache!AppendFresh, Cache!ReadFails, Cache!ServeObserved, Cache!Pick, Cache!Rescore, Cache!vars
<1>2. CASE Cache!WriteStep
  <2>1. ~Cache!Replay /\ \A id, what, width : ~Cache!Capture(id, what, width)
    BY <1>1 DEF Cache!Replay, Cache!Capture, CopyInv, TableOK
  <2> QED
    BY <1>1, <1>2, <2>1, EmbedCopy, RemoveCopy, RewriteCopy DEF Cache!WriteStep
<1>3. CASE Cache!CallStep
  <2>1. ~Cache!ServeObserved
    BY <1>1 DEF Cache!ServeObserved
  <2> QED
    BY <1>1, <1>3, <2>1, BeginCopy, ReadGenerationCopy, ReadStateCopy, RebuildCopy,
       AppendFreshCopy, ReadFailsCopy,
       PickCopy, RescoreCopy DEF Cache!CallStep
<1>4. CASE UNCHANGED Cache!vars
  <2>1. TableOK' /\ \A w \in Widths : CopyOK(w)'
    BY <1>1, <1>4, TableStays, CopyStays DEF Cache!vars, Loading, CopyInv
  <2>2. CallOK'
    BY <1>1, <1>4 DEF Cache!vars, Cache!table, CopyInv, CallOK, Cache!Mine
  <2> PICK p, q : p = call.picked /\ q = result
    OBVIOUS
  <2>3. (Exact(p) => Exact(p)') /\ (Exact(q) => Exact(q)')
    BY <1>4, ExactStays DEF Cache!vars
  <2>4. Cache!Mine.rows = Cache!Current => (Cache!Mine.rows = Cache!Current)'
    BY <1>4 DEF Cache!vars, Cache!table, Cache!Mine, Cache!Current, Cache!OfWidth, Cache!Restrict
  <2>5. SeenOK'
    BY <1>1, <1>4, <2>3, <2>4 DEF Cache!vars, Cache!table, CopyInv, SeenOK
  <2> QED
    BY <1>1, <1>4, <2>1, <2>2, <2>5 DEF CopyInv, Cache!vars
<1> QED
  BY <1>2, <1>3, <1>4 DEF Cache!Next

LEMMA CopyAnswers ==
    ASSUME CopyInv
    PROVE  Cache!ProjectionExact
BY SameSize DEF CopyInv, SeenOK, Exact, Cache!ProjectionExact, Cache!Answered, Cache!At

\* As long as nothing is deleted between the two reads of an append, whatever
\* is embedded, removed, rewritten or truncated between searches and whichever
\* reads fail: a search that no write met ends with rows as they stand, and with
\* every row that fewer than Limit records score better than (vector_cache.py
\* ProjectionVectorCache _current and shortlist).
THEOREM CopyServesTheTable ==
    ASSUME CopyConstants, ~Beside
    PROVE  Cache!Spec => []ProjectionExact
<1>1. Cache!Init => CopyInv
  BY CopyStart
<1>2. CopyInv /\ [Cache!Next]_(Cache!vars) => CopyInv'
  BY CopyStep
<1>3. CopyInv => ProjectionExact
  BY CopyAnswers DEF ProjectionExact
<1> QED
  BY <1>1, <1>2, <1>3, PTL DEF Cache!Spec

\* As many rows up to the row a copy is anchored at as the copy counts, and that
\* row in place: the table only grew.
OnlyGrew(c) ==
    /\ Cardinality({r \in DOMAIN rows : r <= c.max}) = c.count
    /\ Cache!At(rows, c.max) = c.top

LEMMA GrownTable ==
    ASSUME CopyConstants, TableOK, NEW c, NEW w, NEW full, Sound(c, w, full), c.max \in Nat, OnlyGrew(c)
    PROVE  LET n == Cardinality(DOMAIN rows)
               fresh == {r \in DOMAIN rows : r > c.max}
           IN  /\ n \in Nat /\ c.count \in Nat /\ Cardinality(fresh) \in Nat
               /\ c.count + Cardinality(fresh) = n
               /\ fresh = {} => Cache!Highest(DOMAIN rows) = c.max
               /\ fresh # {} => Cache!Highest(DOMAIN rows) \in fresh /\ Cardinality(fresh) # 0
<1> DEFINE old == {r \in DOMAIN rows : r <= c.max}
           fresh == {r \in DOMAIN rows : r > c.max}
           top == Cache!Highest(DOMAIN rows)
<1>1. /\ IsFiniteSet(DOMAIN rows) /\ Cardinality(DOMAIN rows) \in Nat
      /\ \A r \in DOMAIN rows : r \in Nat /\ r <= top
      /\ DOMAIN rows # {} => top \in DOMAIN rows
      /\ DOMAIN rows = {} => top = 0
  BY HighestRow DEF TableOK, CopyConstants, IsTable, Cache!Highest
<1>2. DOMAIN rows = old \cup fresh /\ old \cap fresh = {} /\ old \subseteq DOMAIN rows
      /\ fresh \subseteq DOMAIN rows
  <2>1. DOMAIN rows \subseteq Nat
    BY <1>1
  <2>2. \A r \in DOMAIN rows : r \in Nat /\ (r <= c.max \/ r > c.max) /\ ~(r <= c.max /\ r > c.max)
    BY <2>1
  <2> QED
    BY <2>2
<1>3. Cardinality(old) = c.count /\ Cache!At(rows, c.max) = c.top
  BY DEF OnlyGrew
<1>4. c.max = 0 \/ c.max \in DOMAIN rows
  <2> SUFFICES ASSUME c.max # 0, c.max \notin DOMAIN rows PROVE FALSE
    OBVIOUS
  <2>1. c.top = full[c.max] /\ full[c.max] \in Vec(writes)
    BY DEF Sound, Cache!At, IsTable
  <2>2. c.top = Cache!NoRow
    BY <1>3 DEF Cache!At
  <2> QED
    BY <2>1, <2>2 DEF Vec, Cache!NoRow, TableOK
<1> HIDE DEF old, fresh, top
<1>5. /\ IsFiniteSet(old) /\ IsFiniteSet(fresh)
      /\ Cardinality(old) \in Nat /\ Cardinality(fresh) \in Nat
  BY <1>1, <1>2, FS_Subset, FS_CardinalityType
<1>6. Cardinality(DOMAIN rows) = Cardinality(old) + Cardinality(fresh)
  <2>1. Cardinality(old \cup fresh) = Cardinality(old) + Cardinality(fresh) - Cardinality({})
    BY <1>2, <1>5, FS_Union
  <2> QED
    BY <1>2, <1>5, <2>1, FS_EmptySet
<1>7. ASSUME fresh = {} PROVE top = c.max
  BY <1>1, <1>4, <1>7 DEF fresh
<1>8. ASSUME fresh # {} PROVE top \in fresh /\ Cardinality(fresh) # 0
  BY <1>1, <1>5, <1>8, FS_EmptySet DEF fresh
<1> QED
  BY <1>1, <1>3, <1>5, <1>6, <1>7, <1>8 DEF fresh, top

\* What a reload at rest of writes says of the copy in place.
LEMMA ReadStateReloads ==
    ASSUME CopyConstants, CopyInv, design = "projection", Cache!ReadState
    PROVE  Cache!RebuildsOnlyWhenMoved'
<1> PICK c, w : c = Cache!Mine /\ w = call.width
  OBVIOUS
<1> SUFFICES ASSUME searchAt' = "rebuild", seen'.moves = 0, Cache!Mine'.has, Cache!Mine'.gen = gen',
                    OnlyGrew(Cache!Mine)'
             PROVE  FALSE
  BY SameSize DEF Cache!RebuildsOnlyWhenMoved, OnlyGrew, Cache!Counted, Cache!Restrict, Cache!ReadState
<1> DEFINE count == Cardinality(DOMAIN rows)
           max == Cache!Highest(DOMAIN rows)
<1>1. /\ searchAt = "state" /\ searchAt' = Cache!Verdict(count, max)
      /\ copies' = IF count > MaxRows THEN [v \in Widths |-> Cache!NoCopy] ELSE copies
      /\ call' = [call EXCEPT !.count = count, !.max = max]
      /\ UNCHANGED <<design, Cache!table, seen>>
  BY SameSize DEF Cache!ReadState, Cache!Counted
<1>2. call'.width = w /\ call.gen = gen /\ w \in Widths
  BY <1>1 DEF CopyInv, CallOK, SeenOK
<1>3. ~(count > MaxRows) /\ count \in Nat
  BY <1>1, HighestRow DEF Cache!Verdict, CopyInv, TableOK, CopyConstants
<1>4. Cache!Mine' = c
  BY <1>1, <1>2, <1>3 DEF Cache!Mine
<1>5. c.has /\ c.gen = gen /\ OnlyGrew(c) /\ c = copies[w]
  BY <1>1, <1>4 DEF OnlyGrew, Cache!table, Cache!Mine
<1>6. PICK full : Sound(c, w, full) /\ c.max \in Nat
  BY <1>2, <1>5 DEF CopyInv, CopyOK
<1>7. /\ c.count \in Nat
      /\ \/ count = c.count /\ max = c.max
         \/ count > c.count /\ max > c.max
  <2>1. /\ count \in Nat /\ c.count \in Nat /\ Cardinality({r \in DOMAIN rows : r > c.max}) \in Nat
        /\ c.count + Cardinality({r \in DOMAIN rows : r > c.max}) = count
        /\ {r \in DOMAIN rows : r > c.max} = {} => max = c.max
        /\ {r \in DOMAIN rows : r > c.max} # {} =>
              max > c.max /\ Cardinality({r \in DOMAIN rows : r > c.max}) # 0
    BY <1>5, <1>6, GrownTable DEF CopyInv
  <2>2. {r \in DOMAIN rows : r > c.max} = {} => Cardinality({r \in DOMAIN rows : r > c.max}) = 0
    BY FS_EmptySet
  <2> QED
    BY <2>1, <2>2
<1> HIDE DEF count, max
<1>8. Cache!Unwritten /\ Cache!Mine.has /\ Cache!Anchored
  BY <1>2, <1>5 DEF Cache!Unwritten, Cache!Anchored, OnlyGrew
<1>9. Cache!Verdict(count, max) # "rebuild"
  BY <1>3, <1>7, <1>8 DEF Cache!Verdict, CopyConstants
<1> QED
  BY <1>1, <1>9

LEMMA AppendFreshReloads ==
    ASSUME CopyConstants, CopyInv, design = "projection", Cache!AppendFresh
    PROVE  Cache!RebuildsOnlyWhenMoved'
<1> PICK c, w : c = Cache!Mine /\ w = call.width
  OBVIOUS
<1> SUFFICES ASSUME searchAt' = "rebuild", seen'.moves = 0, Cache!Mine'.has, Cache!Mine'.gen = gen',
                    OnlyGrew(Cache!Mine)'
             PROVE  FALSE
  BY SameSize DEF Cache!RebuildsOnlyWhenMoved, OnlyGrew, Cache!Counted, Cache!Restrict,
     Cache!AppendFresh
<1>1. /\ searchAt = "append" /\ ~Cache!AllNew
      /\ UNCHANGED <<design, Cache!table, copies, call, seen>>
  BY DEF Cache!AppendFresh
<1>2. c.has /\ c.gen = gen /\ OnlyGrew(c) /\ c = copies[w] /\ w \in Widths
  BY <1>1 DEF OnlyGrew, Cache!table, Cache!Mine, CopyInv, CallOK
<1>3. PICK full : Sound(c, w, full) /\ c.max \in Nat
  BY <1>2 DEF CopyInv, CopyOK
<1>4. /\ call.count = Cardinality(DOMAIN rows) /\ call.max = Cache!Highest(DOMAIN rows)
      /\ c.max < call.max
  BY <1>1 DEF CopyInv, SeenOK, CallOK
<1> DEFINE fresh == {r \in DOMAIN rows : r > c.max}
<1>5. /\ c.count + Cardinality(fresh) = call.count
      /\ fresh = {} => call.max = c.max
      /\ fresh # {} => call.max \in fresh
  BY <1>2, <1>3, <1>4, GrownTable DEF CopyInv
<1>6. call.max \in fresh
  BY <1>3, <1>4, <1>5
<1>7. DOMAIN Cache!Fresh = fresh
  <2>1. \A r \in DOMAIN rows : r <= call.max
    BY <1>4, HighestRow DEF CopyInv, TableOK, CopyConstants
  <2> QED
    BY <2>1 DEF Cache!Fresh, Cache!Counted, Cache!Restrict
<1>8. Cache!Highest(fresh) = call.max
  <2> PICK t : t = [r \in fresh |-> rows[r]]
    OBVIOUS
  <2>1. IsTable(t, writes) /\ DOMAIN t = fresh
    BY DEF CopyInv, TableOK, IsTable
  <2>2. /\ \A r \in fresh : r <= Cache!Highest(fresh)
        /\ Cache!Highest(fresh) \in fresh
    BY <1>6, <2>1, HighestRow DEF CopyConstants
  <2>3. \A r \in DOMAIN rows : r <= call.max /\ r \in Nat
    BY <1>4, HighestRow DEF CopyInv, TableOK, CopyConstants, IsTable
  <2> QED
    BY <1>6, <2>2, <2>3
<1> HIDE DEF fresh
<1>9. Cache!AllNew
  BY <1>5, <1>7, <1>8, SameSize DEF Cache!AllNew
<1> QED
  BY <1>1, <1>9

\* In no other way is a copy due to be loaded again while no write comes.
LEMMA ReloadStep ==
    ASSUME CopyConstants, CopyInv, design = "projection", Cache!RebuildsOnlyWhenMoved,
           [Cache!Next]_(Cache!vars)
    PROVE  Cache!RebuildsOnlyWhenMoved'
<1>1. CASE Cache!WriteStep
  <2>1. seen' = [seen EXCEPT !.moves = IF @ = 2 THEN 2 ELSE @ + 1]
    BY <1>1 DEF Cache!WriteStep, Cache!Embed, Cache!Capture, Cache!Inserted, Cache!Write,
       Cache!Rewrite, Cache!Delete, Cache!Truncate, Cache!Replay
  <2>2. seen'.moves # 0
    BY <2>1 DEF CopyInv, SeenOK
  <2> QED
    BY <2>2 DEF Cache!RebuildsOnlyWhenMoved
<1>2. CASE Cache!CallStep
  <2>1. ~Cache!ReadState /\ ~Cache!AppendFresh => searchAt' # "rebuild"
    BY <1>2 DEF Cache!CallStep, Cache!Begin, Cache!ReadGeneration, Cache!Rebuild, Cache!ReadFails,
       Cache!ServeObserved, Cache!Pick, Cache!Rescore
  <2> QED
    BY <2>1, ReadStateReloads, AppendFreshReloads DEF Cache!RebuildsOnlyWhenMoved
<1>3. CASE UNCHANGED Cache!vars
  BY <1>3 DEF Cache!RebuildsOnlyWhenMoved, Cache!Mine, Cache!Counted, Cache!At, Cache!Restrict,
     Cache!vars, Cache!table
<1> QED
  BY <1>1, <1>2, <1>3 DEF Cache!Next

\* And a table that only grew since it was read, with no write in place, is not
\* loaded again from the start (vector_cache.py ProjectionVectorCache _refresh).
THEOREM ProjectionKeepsItsCopies ==
    ASSUME CopyConstants, ~Beside, Designs = {"projection"}
    PROVE  Cache!Spec => []CopiesExact
<1> DEFINE Inv == CopyInv /\ design = "projection" /\ Cache!RebuildsOnlyWhenMoved
<1>1. Cache!Init => Inv
  BY CopyStart DEF Cache!Init, Cache!RebuildsOnlyWhenMoved
<1>2. Inv /\ [Cache!Next]_(Cache!vars) => Inv'
  <2> SUFFICES ASSUME Inv, [Cache!Next]_(Cache!vars) PROVE Inv'
    OBVIOUS
  <2>1. design' = design
    BY DEF Cache!Next, Cache!WriteStep, Cache!CallStep, Cache!Embed, Cache!Capture, Cache!Inserted,
       Cache!Write, Cache!Rewrite, Cache!Delete, Cache!Truncate, Cache!Replay,
       Cache!Begin, Cache!ReadGeneration, Cache!ReadState, Cache!Rebuild,
       Cache!AppendFresh, Cache!ReadFails, Cache!ServeObserved, Cache!Pick, Cache!Rescore, Cache!vars
  <2> QED
    BY <2>1, CopyStep, ReloadStep
<1>3. Inv => CopiesExact
  BY CopyAnswers DEF CopiesExact, Cache!ObservedExact
<1> HIDE DEF Inv
<1> QED
  BY <1>1, <1>2, <1>3, PTL DEF Cache!Spec

-----------------------------------------------------------------------------
(* Migration *)

OldIds == \E n \in Nat : OldJobs = 1 .. n

Last == Cardinality(OldJobs) + queued

JobType == [task : Up!Current \union Up!Retired, status : {"pending", "done"}, dep : Nat]

LEMMA SameCount ==
    ASSUME NEW S
    PROVE  Up!Cardinality(S) = Cardinality(S)
BY DEF Up!Cardinality, Cardinality

\* Jobs are numbered as they come, and of each sweep task one is live.
JobsOK ==
    /\ queued \in Nat /\ DOMAIN jobs \subseteq 1 .. Last
    /\ jobs \in [DOMAIN jobs -> JobType]
    /\ \A x, y \in Up!LiveSweeps(jobs) : jobs[x].task = jobs[y].task => x = y

\* What waits for a sweep that is due waits for one that is queued.
BehindOK ==
    /\ behind \subseteq OldJobs
    /\ \A id \in behind \cap DOMAIN jobs :
          /\ Up!Live(jobs, id) /\ jobs[id].task \notin Up!Sweeps
          /\ jobs[id].dep \in Up!LiveSweeps(jobs)

\* An heir is a sweep, and still to come while something waits for one.
ReadOK ==
    /\ opener = [o \in Openers |-> opener[o]]
    /\ \A o \in Openers : opener[o].at = "retire" =>
          /\ Up!None \notin opener[o].doomed
          /\ opener[o].doomed # {} =>
                /\ opener[o].heir \in DOMAIN jobs /\ jobs[opener[o].heir].task = "consistency"
                /\ behind # {} => Up!Live(jobs, opener[o].heir)

QueueInv == JobsOK /\ Up!SweepKept /\ BehindOK /\ ReadOK

LEMMA OldCount ==
    ASSUME OldIds
    PROVE  Cardinality(OldJobs) \in Nat /\ OldJobs = 1 .. Cardinality(OldJobs)
<1>1. PICK n \in Nat : OldJobs = 1 .. n
  BY DEF OldIds
<1>2. Cardinality(1 .. n) = n
  <2>1. CASE n = 0
    <3>1. 1 .. n = {}
      BY <2>1
    <3> QED
      BY <2>1, <3>1, FS_EmptySet
  <2>2. CASE n # 0
    <3>1. Cardinality(1 .. n) = n - 1 + 1
      BY <2>2, FS_Interval
    <3> QED
      BY <3>1
  <2> QED
    BY <2>1, <2>2
<1> QED
  BY <1>1, <1>2

LEMMA AtMostOne ==
    ASSUME NEW S, IsFiniteSet(S), Cardinality(S) <= 1, NEW x \in S, NEW y \in S
    PROVE  x = y
<1> SUFFICES ASSUME x # y PROVE FALSE
  OBVIOUS
<1>1. Cardinality({x}) = 1 /\ IsFiniteSet({x})
  BY FS_Singleton
<1>2. Cardinality({x} \cup {y}) = 2
  BY <1>1, FS_AddElement
<1>3. Cardinality({x} \cup {y}) <= Cardinality(S) /\ Cardinality(S) \in Nat
  BY FS_Subset, FS_CardinalityType
<1> QED
  BY <1>2, <1>3

LEMMA QueueStart ==
    ASSUME OldIds, Up!Init
    PROVE  QueueInv
<1> USE DEF Up!Init, Up!None
<1>1. Cardinality(OldJobs) \in Nat /\ OldJobs = 1 .. Cardinality(OldJobs) /\ IsFiniteSet(OldJobs)
  BY OldCount, FS_Interval
<1>2. /\ jobs \in [OldJobs -> [task : Up!Current \union Up!Retired,
                               status : {"pending"}, dep : OldJobs \union {0}]]
      /\ \A task \in Up!Current \union Up!Retired : Cardinality(Up!Of(jobs, {task})) <= 1
  BY SameCount DEF Up!Tables
<1>3. DOMAIN jobs = 1 .. Last /\ queued \in Nat /\ jobs \in [DOMAIN jobs -> JobType]
  <2>1. \A d \in OldJobs \union {0} : d \in Nat
    BY <1>1
  <2> QED
    BY <1>1, <1>2, <2>1 DEF Last, JobType
<1>4. ASSUME NEW x \in Up!LiveSweeps(jobs), NEW y \in Up!LiveSweeps(jobs),
             jobs[x].task = jobs[y].task
      PROVE  x = y
  <2> DEFINE S == Up!Of(jobs, {jobs[x].task})
  <2>1. x \in S /\ y \in S /\ jobs[x].task \in Up!Current \union Up!Retired
    BY <1>2, <1>4 DEF Up!LiveSweeps, Up!Of
  <2>2. IsFiniteSet(S)
    <3>1. S \subseteq OldJobs
      BY <1>2 DEF Up!Of
    <3> QED
      BY <1>1, <3>1, FS_Subset
  <2>3. Cardinality(S) <= 1
    BY <1>2, <2>1
  <2> HIDE DEF S
  <2> QED
    BY <2>1, <2>2, <2>3, AtMostOne
<1>5. BehindOK
  BY <1>2, <1>3 DEF BehindOK, Up!LiveSweeps, Up!Of, Up!Live
<1>6. ReadOK
  BY DEF ReadOK
<1>7. Up!SweepKept
  BY DEF Up!SweepKept
<1> QED
  BY <1>3, <1>4, <1>5, <1>6, <1>7 DEF QueueInv, JobsOK

LEMMA FinishQueue ==
    ASSUME QueueInv, NEW id \in Up!JobIds, Up!Finish(id)
    PROVE  QueueInv'
<1> USE DEF QueueInv, Up!Finish
<1>1. /\ DOMAIN jobs' = DOMAIN jobs /\ id \in DOMAIN jobs
      /\ jobs'[id].status = "done"
      /\ \A x \in DOMAIN jobs : jobs'[x].task = jobs[x].task /\ jobs'[x].dep = jobs[x].dep
      /\ \A x \in DOMAIN jobs : x # id => jobs'[x] = jobs[x]
      /\ jobs' \in [DOMAIN jobs -> JobType]
  <2>1. [jobs[id] EXCEPT !.status = "done"] \in JobType
    BY DEF JobsOK, JobType
  <2>2. /\ [jobs[id] EXCEPT !.status = "done"].status = "done"
        /\ [jobs[id] EXCEPT !.status = "done"].task = jobs[id].task
        /\ [jobs[id] EXCEPT !.status = "done"].dep = jobs[id].dep
    BY DEF JobsOK, JobType
  <2>3. jobs' = [jobs EXCEPT ![id] = [jobs[id] EXCEPT !.status = "done"]]
    BY DEF JobsOK
  <2> QED
    BY <2>1, <2>2, <2>3 DEF JobsOK
<1>2. Up!LiveSweeps(jobs') = Up!LiveSweeps(jobs) \ {id}
  BY <1>1 DEF Up!LiveSweeps, Up!Of, Up!Live
<1>3. JobsOK'
  <2>1. \A x, y \in Up!LiveSweeps(jobs') : jobs'[x].task = jobs'[y].task => x = y
    <3>1. \A x \in Up!LiveSweeps(jobs') : x \in Up!LiveSweeps(jobs) /\ jobs'[x].task = jobs[x].task
      BY <1>1, <1>2 DEF Up!LiveSweeps, Up!Of
    <3> QED
      BY <3>1 DEF JobsOK
  <2>2. Last' = Last /\ queued' = queued
    BY DEF Last
  <2> QED
    BY <1>1, <2>1, <2>2 DEF JobsOK
<1>4. CASE jobs[id].task \in Up!Sweeps
  BY <1>1, <1>3, <1>4 DEF Up!SweepKept, BehindOK, ReadOK
<1>5. CASE jobs[id].task \notin Up!Sweeps
  <2>1. Up!LiveSweeps(jobs') = Up!LiveSweeps(jobs)
    BY <1>2, <1>5 DEF Up!LiveSweeps, Up!Of
  <2>2. Up!SweepKept'
    BY <1>5, <2>1 DEF Up!SweepKept
  <2>3. id \notin behind
    BY DEF BehindOK, Up!Ready, Up!LiveSweeps, Up!Of, Up!Live, JobsOK, Up!None
  <2>4. BehindOK'
    BY <1>1, <1>5, <2>1, <2>3 DEF BehindOK, Up!Live
  <2>5. ReadOK'
    BY <1>1, <1>5 DEF ReadOK, Up!Live, Up!Sweeps
  <2> QED
    BY <1>3, <2>2, <2>4, <2>5
<1> QED
  BY <1>4, <1>5

LEMMA QueueOldQueue ==
    ASSUME OldIds, QueueInv, NEW task \in Up!Sweeps \union Up!Dead,
           NEW dep \in Up!JobIds \union {Up!None},
           Up!QueueOld(task, dep)
    PROVE  QueueInv'
<1> USE DEF QueueInv
<1> DEFINE id == Last + 1
           row == [task |-> task, status |-> "pending", dep |-> dep]
<1>1. /\ queued' = queued + 1 /\ Up!Of(jobs, {task}) = {}
      /\ jobs' = [i \in DOMAIN jobs \union {id} |-> IF i = id THEN row ELSE jobs[i]]
      /\ owed' = (owed \/ task \in Up!Sweeps)
      /\ UNCHANGED <<behind, opener>>
  BY SameCount DEF Up!QueueOld, Last
<1>2. /\ Last \in Nat /\ Last' = id /\ id \notin DOMAIN jobs /\ id \notin OldJobs
      /\ OldJobs = 1 .. Cardinality(OldJobs)
      /\ dep \in Nat
  BY <1>1, OldCount, SameCount DEF JobsOK, Last, Up!JobIds, Up!None
<1>3. row \in JobType
  BY <1>2 DEF JobType, Up!Current, Up!Retired, Up!Sweeps, Up!Dead, Up!Aliased
<1> HIDE DEF id, row
<1>4. /\ DOMAIN jobs' = DOMAIN jobs \union {id} /\ jobs'[id] = row
      /\ \A x \in DOMAIN jobs : x # id /\ jobs'[x] = jobs[x]
  BY <1>1, <1>2
<1>5. row.task = task /\ row.status = "pending" /\ row.dep = dep
  BY DEF row
<1>6. Up!LiveSweeps(jobs') = Up!LiveSweeps(jobs) \union (IF task \in Up!Sweeps THEN {id} ELSE {})
  BY <1>4, <1>5 DEF Up!LiveSweeps, Up!Of, Up!Live
<1>7. JobsOK'
  <2>1. jobs' \in [DOMAIN jobs' -> JobType] /\ DOMAIN jobs' \subseteq 1 .. Last' /\ queued' \in Nat
    BY <1>1, <1>2, <1>3, <1>4 DEF JobsOK, id
  <2>2. \A x \in Up!LiveSweeps(jobs) :
           jobs'[x] = jobs[x] /\ x \in DOMAIN jobs /\ jobs[x].task # task
    BY <1>1, <1>4 DEF Up!LiveSweeps, Up!Of
  <2>3. \A x, y \in Up!LiveSweeps(jobs') : jobs'[x].task = jobs'[y].task => x = y
    BY <1>4, <1>5, <1>6, <2>2 DEF JobsOK
  <2> QED
    BY <2>1, <2>3 DEF JobsOK
<1>8. Up!SweepKept'
  BY <1>1, <1>6 DEF Up!SweepKept
<1>9. BehindOK'
  BY <1>1, <1>2, <1>4, <1>6 DEF BehindOK, Up!Live
<1>10. ReadOK'
  BY <1>1, <1>4 DEF ReadOK, Up!Live
<1> QED
  BY <1>7, <1>8, <1>9, <1>10

\* The one live sweep of this build's name is the least.
LEMMA HeirIsOne ==
    ASSUME JobsOK, OldIds, NEW x \in Up!Of(jobs, {"consistency"})
    PROVE  Up!Heir(jobs) = x
<1>1. Up!Of(jobs, {"consistency"}) = {x}
  BY DEF JobsOK, Up!LiveSweeps, Up!Of, Up!Sweeps
<1>2. x \in Nat
  BY OldCount DEF JobsOK, Up!Of, Last
<1>3. Up!Min({x}) = x
  BY <1>2 DEF Up!Min
<1> QED
  BY <1>1, <1>3 DEF Up!Heir

LEMMA ReadQueue ==
    ASSUME OldIds, QueueInv, NEW o \in Openers, Up!ReadDoomed(o)
    PROVE  QueueInv'
<1> USE DEF QueueInv
<1>1. UNCHANGED Up!queue /\ opener' = [opener EXCEPT ![o] =
             [at |-> "retire", doomed |-> Up!Doomed(jobs),
              heir |-> IF Up!Doomed(jobs) = {} THEN Up!None ELSE Up!Heir(jobs)]]
  BY DEF Up!ReadDoomed, Up!Go
<1>2. JobsOK' /\ Up!SweepKept' /\ BehindOK'
  BY <1>1 DEF Up!queue, JobsOK, Up!SweepKept, BehindOK, Last
<1>3. Up!None \notin Up!Doomed(jobs)
  BY OldCount DEF JobsOK, Up!Doomed, Up!Of, Up!None
<1>4. ASSUME Up!Doomed(jobs) # {}
      PROVE  /\ Up!Heir(jobs) \in DOMAIN jobs /\ jobs[Up!Heir(jobs)].task = "consistency"
             /\ Up!Live(jobs, Up!Heir(jobs))
  <2>1. PICK x : x \in Up!Of(jobs, {"consistency"})
    BY <1>4 DEF Up!Doomed
  <2> QED
    BY <2>1, HeirIsOne DEF Up!Of
<1>5. ReadOK'
  BY <1>1, <1>3, <1>4 DEF ReadOK, Up!queue, Up!Live
<1> QED
  BY <1>2, <1>5

LEMMA RetaskedRow ==
    ASSUME JobsOK, NEW r, NEW id \in DOMAIN Up!Retasked(jobs, r)
    PROVE  /\ id \in DOMAIN jobs \ Up!Gone(jobs)
           /\ Up!Retasked(jobs, r)[id] =
                 [task |-> Up!NewTask(jobs[id].task), status |-> jobs[id].status,
                  dep |-> Up!NewDep(jobs, r, id)]
<1>1. id \in DOMAIN jobs \ Up!Gone(jobs)
  BY DEF Up!Retasked
<1>2. jobs[id] = [task |-> jobs[id].task, status |-> jobs[id].status, dep |-> jobs[id].dep]
  BY <1>1 DEF JobsOK, JobType
<1>3. Up!Retasked(jobs, r)[id] = [jobs[id] EXCEPT !.task = Up!NewTask(@),
                                                       !.dep = Up!NewDep(jobs, r, id)]
  BY <1>1 DEF Up!Retasked
<1> QED
  BY <1>1, <1>2, <1>3

LEMMA RetireQueue ==
    ASSUME OldIds, QueueInv, NEW o \in Openers, Up!Retire(o)
    PROVE  QueueInv'
<1> USE DEF QueueInv
<1>1. PICK r : r = opener[o] /\ r.at = "retire"
  BY DEF Up!Retire, Up!At
<1> DEFINE after == Up!Retasked(jobs, r)
<1>2. UNCHANGED <<queued, owed, behind>> /\ \E g : opener' = [opener EXCEPT ![o] = g] /\ g.at # "retire"
  <2>1. [at |-> "rebuild"].at # "retire" /\ [at |-> "closed"].at # "retire"
    OBVIOUS
  <2> QED
    BY <2>1 DEF Up!Retire, Up!Go, Up!Fail
<1>3. CASE jobs' = jobs
  BY <1>2, <1>3 DEF JobsOK, Up!SweepKept, BehindOK, ReadOK, Last
<1>4. CASE jobs' = after /\ Up!EdgesHold(after)
  <2>1. DOMAIN after = DOMAIN jobs \ Up!Gone(jobs) /\ after = [x \in DOMAIN after |-> after[x]]
    BY DEF Up!Retasked
  <2>2. \A x \in DOMAIN after :
           /\ after[x].task = Up!NewTask(jobs[x].task) /\ after[x].status = jobs[x].status
           /\ after[x].dep = Up!NewDep(jobs, r, x)
           /\ jobs[x].task \in Up!Current \union Up!Aliased
           /\ after[x].task \in Up!Current
           /\ (after[x].task \in Up!Sweeps <=> jobs[x].task \in Up!Sweeps)
    <3> SUFFICES ASSUME NEW x \in DOMAIN after
                 PROVE  /\ after[x].task = Up!NewTask(jobs[x].task) /\ after[x].status = jobs[x].status
                        /\ after[x].dep = Up!NewDep(jobs, r, x)
                        /\ jobs[x].task \in Up!Current \union Up!Aliased
                        /\ after[x].task \in Up!Current
                        /\ (after[x].task \in Up!Sweeps <=> jobs[x].task \in Up!Sweeps)
      OBVIOUS
    <3>1. x \in DOMAIN jobs \ Up!Gone(jobs) /\ jobs[x].task \in Up!Current \union Up!Retired
      BY <2>1 DEF JobsOK, JobType
    <3>2. jobs[x].task \in Up!Current \union Up!Aliased
      BY <3>1 DEF Up!Gone, Up!Retired
    <3> QED
      BY <3>2, RetaskedRow DEF Up!NewTask, Up!Current, Up!Aliased, Up!Sweeps
  <2> HIDE DEF after
  <2>3. Up!LiveSweeps(after) = Up!LiveSweeps(jobs) \cap DOMAIN after
    BY <2>1, <2>2 DEF Up!LiveSweeps, Up!Of, Up!Live
  <2>4. ASSUME NEW x \in DOMAIN after PROVE after[x].dep \in Nat
    <3>1. jobs[x].dep \in Nat /\ (r.doomed # {} => r.heir \in Nat)
      BY <1>1, <2>1, OldCount DEF JobsOK, JobType, ReadOK, Last
    <3>2. /\ Up!NewDep(jobs, r, x) \in {Up!None, r.heir, jobs[x].dep}
          /\ (Up!NewDep(jobs, r, x) = r.heir => r.doomed # {} \/ r.heir \in {Up!None, jobs[x].dep})
      BY DEF Up!NewDep, Up!ToDead
    <3> QED
      BY <2>2, <3>1, <3>2 DEF Up!None
  <2>5. JobsOK'
    <3>1. \A x, y \in Up!LiveSweeps(after) : after[x].task = after[y].task => x = y
      <4> SUFFICES ASSUME NEW x \in Up!LiveSweeps(after), NEW y \in Up!LiveSweeps(after) PROVE x = y
        OBVIOUS
      <4>1. /\ x \in Up!LiveSweeps(jobs) /\ y \in Up!LiveSweeps(jobs)
            /\ x \in DOMAIN jobs \ Up!Gone(jobs) /\ y \in DOMAIN jobs \ Up!Gone(jobs)
        BY <2>1, <2>3
      <4>2. /\ jobs[x].task \in {"consistency", "contradiction"}
            /\ jobs[y].task \in {"consistency", "contradiction"}
        BY <4>1 DEF Up!LiveSweeps, Up!Of, Up!Sweeps, Up!Aliased
      <4>3. jobs[x].task # jobs[y].task => FALSE
        BY <4>1, <4>2 DEF Up!Gone, Up!Doomed, Up!LiveSweeps, Up!Of, Up!Aliased
      <4> QED
        BY <4>1, <4>3 DEF JobsOK
    <3>2. after \in [DOMAIN after -> JobType]
      <4> SUFFICES ASSUME NEW x \in DOMAIN after PROVE after[x] \in JobType
        BY <2>1
      <4>1. after[x] = [task |-> Up!NewTask(jobs[x].task), status |-> jobs[x].status,
                        dep |-> Up!NewDep(jobs, r, x)]
        BY RetaskedRow DEF after
      <4>2. jobs[x].status \in {"pending", "done"}
        BY <2>1 DEF JobsOK, JobType
      <4> QED
        BY <2>2, <2>4, <4>1, <4>2 DEF JobType
    <3> QED
      BY <1>2, <1>4, <2>1, <3>1, <3>2 DEF JobsOK, Last
  <2>6. Up!SweepKept'
    <3> SUFFICES ASSUME Up!LiveSweeps(jobs) # {} PROVE Up!LiveSweeps(after) # {}
      BY <1>2, <1>4 DEF Up!SweepKept
    <3>1. CASE Up!Of(jobs, {"consistency"}) = {}
      <4>1. PICK x \in Up!LiveSweeps(jobs) : TRUE
        OBVIOUS
      <4>2. x \notin Up!Gone(jobs) /\ x \in DOMAIN jobs
        BY <3>1, <4>1 DEF Up!Gone, Up!Doomed, Up!LiveSweeps, Up!Of, Up!Sweeps, Up!Aliased, Up!Dead
      <4> QED
        BY <2>1, <2>3, <4>1, <4>2
    <3>2. CASE Up!Of(jobs, {"consistency"}) # {}
      <4>1. PICK x \in Up!Of(jobs, {"consistency"}) : TRUE
        BY <3>2
      <4>2. x \in Up!LiveSweeps(jobs) /\ x \notin Up!Gone(jobs) /\ x \in DOMAIN jobs
        BY <4>1 DEF Up!Gone, Up!Doomed, Up!LiveSweeps, Up!Of, Up!Sweeps, Up!Aliased, Up!Dead
      <4> QED
        BY <2>1, <2>3, <4>2
    <3> QED
      BY <3>1, <3>2
  <2>7. BehindOK'
    <3>1. ASSUME NEW x \in behind \cap DOMAIN after
          PROVE  /\ Up!Live(after, x) /\ after[x].task \notin Up!Sweeps
                 /\ after[x].dep \in Up!LiveSweeps(after)
      <4>1. /\ x \in DOMAIN jobs /\ Up!Live(jobs, x) /\ jobs[x].task \notin Up!Sweeps
            /\ jobs[x].dep \in Up!LiveSweeps(jobs)
        BY <2>1, <3>1 DEF BehindOK
      <4>2. after[x].dep \in DOMAIN after \union {Up!None}
        BY <1>4 DEF Up!EdgesHold
      <4>3. CASE jobs[x].dep \in r.doomed
        <5>1. r.heir \in DOMAIN jobs /\ jobs[r.heir].task = "consistency" /\ Up!Live(jobs, r.heir)
          BY <1>1, <3>1, <4>3 DEF ReadOK
        <5>2. x # r.heir
          BY <4>1, <5>1 DEF Up!Sweeps
        <5>3. after[x].dep = r.heir
          <6>1. Up!NewDep(jobs, r, x) = r.heir
            BY <4>3, <5>2 DEF Up!NewDep, Up!ToDead
          <6> QED
            BY <2>2, <3>1, <6>1
        <5>4. r.heir # Up!None /\ r.heir \in Up!LiveSweeps(jobs)
          BY <5>1, OldCount DEF JobsOK, Up!None, Up!LiveSweeps, Up!Of, Up!Sweeps
        <5> QED
          BY <2>2, <2>3, <4>1, <4>2, <5>3, <5>4 DEF Up!Live
      <4>4. CASE jobs[x].dep \notin r.doomed
        <5>1. jobs[jobs[x].dep].task \notin Up!Dead /\ jobs[x].dep \in DOMAIN jobs
          BY <4>1 DEF Up!LiveSweeps, Up!Of, Up!Sweeps, Up!Aliased, Up!Dead
        <5>2. after[x].dep = jobs[x].dep
          BY <2>2, <4>4, <5>1 DEF Up!NewDep, Up!ToDead
        <5>3. jobs[x].dep # Up!None
          BY <5>1, OldCount DEF JobsOK, Up!None
        <5> QED
          BY <2>2, <2>3, <4>1, <4>2, <5>2, <5>3 DEF Up!Live
      <4> QED
        BY <4>3, <4>4
    <3> QED
      BY <1>2, <1>4, <3>1 DEF BehindOK
  <2>8. ReadOK'
    <3>1. ASSUME NEW h \in DOMAIN jobs, jobs[h].task = "consistency"
          PROVE  h \in DOMAIN after /\ after[h].task = "consistency" /\ after[h].status = jobs[h].status
      <4>1. h \notin Up!Gone(jobs)
        BY <3>1 DEF Up!Gone, Up!Doomed, Up!Of, Up!Aliased, Up!Dead
      <4> QED
        BY <2>1, <2>2, <3>1, <4>1 DEF Up!NewTask, Up!Aliased
    <3>2. PICK g : opener' = [opener EXCEPT ![o] = g] /\ g.at # "retire"
      BY <1>2
    <3> QED
      BY <1>2, <1>4, <3>1, <3>2 DEF ReadOK, Up!Live
  <2> QED
    BY <2>5, <2>6, <2>7, <2>8
<1> QED
  BY <1>1, <1>3, <1>4 DEF Up!Retire

LEMMA RestQueue ==
    ASSUME QueueInv,
           \/ \E o \in Openers : Up!Open(o) \/ Up!Rebuild(o) \/ Up!LookForColumn(o) \/ Up!AddColumn(o)
                                 \/ Up!Stamp(o) \/ Up!Crash(o)
           \/ UNCHANGED Up!vars
    PROVE  QueueInv'
<1> USE DEF QueueInv
<1>1. /\ UNCHANGED <<jobs, queued, owed, behind>>
      /\ opener' = [x \in Openers |-> opener'[x]]
      /\ \A x \in Openers : opener'[x] = opener[x] \/ opener'[x].at # "retire"
  BY DEF Up!Open, Up!Rebuild, Up!LookForColumn, Up!AddColumn, Up!Stamp, Up!Crash, Up!vars,
     Up!queue, Up!Go, Up!Fail, ReadOK
<1> QED
  BY <1>1 DEF JobsOK, Up!SweepKept, BehindOK, ReadOK, Last

LEMMA QueueStep ==
    ASSUME OldIds, QueueInv, [Up!Next]_(Up!vars)
    PROVE  QueueInv'
BY FinishQueue, QueueOldQueue, ReadQueue, RetireQueue, RestQueue DEF Up!Next, Up!Climb

\* A sweep that is due waits for an earlier sweep only, any other job that is
\* due for an earlier job or for a sweep.
ChainOK ==
    \A x \in DOMAIN jobs : Up!Live(jobs, x) =>
        \/ /\ jobs[x].dep < x
           /\ jobs[x].task \in Up!Sweeps /\ jobs[x].dep \in DOMAIN jobs =>
                 jobs[jobs[x].dep].task \in Up!Sweeps
        \/ /\ jobs[x].task \notin Up!Sweeps /\ jobs[x].dep \in DOMAIN jobs
           /\ jobs[jobs[x].dep].task \in Up!Sweeps

\* Of the sweeps that are due only the heir may wait for a doomed one.
HeirWaits ==
    \A o \in Openers : opener[o].at = "retire" =>
        \A x \in Up!LiveSweeps(jobs) :
            jobs[x].dep \in opener[o].doomed => x = opener[o].heir

ChainInv == QueueInv /\ ChainOK /\ HeirWaits

LEMMA ChainStart ==
    ASSUME OldIds, ~Chains, Up!Init
    PROVE  ChainInv
<1>1. QueueInv
  BY QueueStart
<1>2. HeirWaits
  BY DEF Up!Init, HeirWaits
<1>3. ChainOK
  <2>1. /\ jobs \in [OldJobs -> [task : Up!Current \union Up!Retired, status : {"pending"},
                               dep : OldJobs \union {Up!None}]]
        /\ \A x \in OldJobs : jobs[x].dep < x
        /\ \A x \in Up!LiveSweeps(jobs) :
              jobs[x].dep # Up!None => jobs[jobs[x].dep].task \in Up!Sweeps
    BY DEF Up!Init, Up!Tables
  <2>2. Up!None \notin OldJobs
    BY OldCount DEF Up!None
  <2> QED
    BY <2>1, <2>2 DEF ChainOK, Up!LiveSweeps, Up!Of
<1> QED
  BY <1>1, <1>2, <1>3 DEF ChainInv

LEMMA FinishChain ==
    ASSUME OldIds, ChainInv, NEW id \in Up!JobIds, Up!Finish(id)
    PROVE  ChainInv'
<1> USE DEF ChainInv, QueueInv
<1>1. QueueInv'
  BY FinishQueue
<1>2. /\ DOMAIN jobs' = DOMAIN jobs /\ UNCHANGED opener
      /\ \A x \in DOMAIN jobs :
            /\ jobs'[x].task = jobs[x].task /\ jobs'[x].dep = jobs[x].dep
            /\ Up!Live(jobs', x) => Up!Live(jobs, x)
  <2>1. jobs' = [jobs EXCEPT ![id] = [jobs[id] EXCEPT !.status = "done"]] /\ id \in DOMAIN jobs
    BY DEF Up!Finish, JobsOK
  <2>2. /\ [jobs[id] EXCEPT !.status = "done"].status = "done"
        /\ [jobs[id] EXCEPT !.status = "done"].task = jobs[id].task
        /\ [jobs[id] EXCEPT !.status = "done"].dep = jobs[id].dep
    BY <2>1 DEF JobsOK, JobType
  <2> QED
    BY <2>1, <2>2 DEF Up!Finish, JobsOK, Up!Live
<1>3. ChainOK'
  BY <1>2 DEF ChainOK
<1>4. HeirWaits'
  BY <1>2 DEF HeirWaits, Up!LiveSweeps, Up!Of
<1> QED
  BY <1>1, <1>3, <1>4

LEMMA QueueOldChain ==
    ASSUME OldIds, ~Chains, ChainInv, NEW task \in Up!Sweeps \union Up!Dead,
           NEW dep \in Up!JobIds \union {Up!None},
           Up!QueueOld(task, dep)
    PROVE  ChainInv'
<1> USE DEF ChainInv, QueueInv
<1> DEFINE id == Last + 1
           row == [task |-> task, status |-> "pending", dep |-> dep]
<1>1. QueueInv'
  BY QueueOldQueue
<1>2. /\ jobs' = [i \in DOMAIN jobs \union {id} |-> IF i = id THEN row ELSE jobs[i]]
      /\ UNCHANGED opener /\ dep = Up!None
  BY SameCount DEF Up!QueueOld, Last
<1>3. /\ id \in Nat /\ id > 0 /\ id \notin DOMAIN jobs /\ Up!None \notin DOMAIN jobs \union {id}
  BY OldCount DEF JobsOK, Last, Up!None
<1>4. row.task = task /\ row.dep = dep
  OBVIOUS
<1> HIDE DEF id, row
<1>5. /\ DOMAIN jobs' = DOMAIN jobs \union {id} /\ jobs'[id] = row
      /\ \A x \in DOMAIN jobs : jobs'[x] = jobs[x]
  BY <1>2, <1>3
<1>6. ChainOK'
  <2>1. jobs'[id].dep < id /\ jobs'[id].dep \notin DOMAIN jobs'
    BY <1>2, <1>3, <1>4, <1>5 DEF Up!None
  <2>2. ASSUME NEW x \in DOMAIN jobs, Up!Live(jobs', x), jobs[x].dep = id
        PROVE  FALSE
    <3>1. Up!Live(jobs, x) /\ jobs[x].dep \notin DOMAIN jobs
      BY <1>3, <1>5, <2>2 DEF Up!Live
    <3>2. jobs[x].dep < x
      BY <3>1 DEF ChainOK
    <3>3. x \in Nat /\ x <= Last /\ Last \in Nat
      BY OldCount DEF JobsOK, Last
    <3> QED
      BY <2>2, <3>2, <3>3 DEF id
  <2> QED
    BY <1>3, <1>5, <2>1, <2>2 DEF ChainOK, Up!Live
<1>7. HeirWaits'
  <2>1. ASSUME NEW o \in Openers, opener[o].at = "retire" PROVE dep \notin opener[o].doomed
    BY <1>2, <2>1 DEF ReadOK
  <2> QED
    BY <1>2, <1>4, <1>5, <2>1 DEF HeirWaits, Up!LiveSweeps, Up!Of, Up!Live
<1> QED
  BY <1>1, <1>6, <1>7

LEMMA ReadChain ==
    ASSUME OldIds, ChainInv, NEW o \in Openers, Up!ReadDoomed(o)
    PROVE  ChainInv'
<1> USE DEF ChainInv, QueueInv
<1>1. QueueInv'
  BY ReadQueue
<1>2. jobs' = jobs /\ opener' = [opener EXCEPT ![o] =
             [at |-> "retire", doomed |-> Up!Doomed(jobs),
              heir |-> IF Up!Doomed(jobs) = {} THEN Up!None ELSE Up!Heir(jobs)]]
  BY DEF Up!ReadDoomed, Up!Go, Up!queue
<1>3. ASSUME NEW x \in Up!LiveSweeps(jobs), jobs[x].dep \in Up!Doomed(jobs)
      PROVE  Up!Doomed(jobs) # {} /\ x = Up!Heir(jobs)
  <2>1. jobs[x].dep \in Up!LiveSweeps(jobs) /\ jobs[jobs[x].dep].task = "contradiction"
    BY <1>3 DEF Up!Doomed, Up!LiveSweeps, Up!Of, Up!Sweeps, Up!Aliased
  <2>2. jobs[x].task # "contradiction"
    <3>1. SUFFICES ASSUME jobs[x].task = "contradiction" PROVE FALSE
      OBVIOUS
    <3>2. x = jobs[x].dep
      BY <2>1, <3>1 DEF JobsOK
    <3>3. x \in DOMAIN jobs /\ Up!Live(jobs, x) /\ x \in Nat /\ jobs[x].task \in Up!Sweeps
      BY OldCount DEF Up!LiveSweeps, Up!Of, JobsOK, Last
    <3>4. jobs[x].dep < x
      BY <3>3 DEF ChainOK
    <3> QED
      BY <3>2, <3>3, <3>4
  <2>3. x \in Up!Of(jobs, {"consistency"})
    BY <2>2 DEF Up!LiveSweeps, Up!Of, Up!Sweeps, Up!Aliased
  <2> QED
    BY <1>3, <2>3, HeirIsOne
<1>4. ChainOK'
  BY <1>2 DEF ChainOK
<1>5. HeirWaits'
  BY <1>2, <1>3 DEF HeirWaits, ReadOK
<1> QED
  BY <1>1, <1>4, <1>5

LEMMA RetireChain ==
    ASSUME OldIds, ChainInv, NEW o \in Openers, Up!Retire(o)
    PROVE  ChainInv'
<1> USE DEF ChainInv, QueueInv
<1>1. QueueInv'
  BY RetireQueue
<1>2. PICK r : r = opener[o] /\ r.at = "retire"
  BY DEF Up!Retire, Up!At
<1> DEFINE after == Up!Retasked(jobs, r)
<1>3. PICK g : opener' = [opener EXCEPT ![o] = g] /\ g.at # "retire"
  <2>1. [at |-> "rebuild"].at # "retire" /\ [at |-> "closed"].at # "retire"
    OBVIOUS
  <2> QED
    BY <2>1 DEF Up!Retire, Up!Go, Up!Fail
<1>4. CASE jobs' = jobs
  BY <1>1, <1>3, <1>4 DEF ChainOK, HeirWaits, ReadOK
<1>5. CASE jobs' = after /\ Up!EdgesHold(after)
  <2>1. DOMAIN after \subseteq DOMAIN jobs /\ Up!None \notin DOMAIN jobs
    BY OldCount DEF Up!Retasked, JobsOK, Up!None
  <2>2. \A x \in DOMAIN after :
           /\ after[x].status = jobs[x].status /\ after[x].dep = Up!NewDep(jobs, r, x)
           /\ after[x].task \in Up!Sweeps <=> jobs[x].task \in Up!Sweeps
           /\ after[x].dep \in DOMAIN after \union {Up!None}
    <3> SUFFICES ASSUME NEW x \in DOMAIN after
                 PROVE  /\ after[x].status = jobs[x].status /\ after[x].dep = Up!NewDep(jobs, r, x)
                        /\ after[x].task \in Up!Sweeps <=> jobs[x].task \in Up!Sweeps
      BY <1>5 DEF Up!EdgesHold
    <3>1. after[x].task = Up!NewTask(jobs[x].task)
      BY RetaskedRow
    <3> QED
      BY <3>1, RetaskedRow DEF Up!NewTask, Up!Current, Up!Aliased, Up!Sweeps
  <2> HIDE DEF after
  <2>3. ASSUME NEW x \in DOMAIN after, Up!Live(jobs, x)
        PROVE  \/ after[x].dep = Up!None
               \/ after[x].dep = jobs[x].dep
               \/ /\ jobs[x].task \notin Up!Sweeps /\ r.doomed # {} /\ after[x].dep = r.heir
    <3>1. CASE jobs[x].dep \in r.doomed
      <4>1. Up!NewDep(jobs, r, x) = IF x = r.heir THEN Up!None ELSE r.heir
        BY <3>1 DEF Up!NewDep
      <4>2. jobs[x].task \in Up!Sweeps => x = r.heir
        BY <1>2, <2>1, <2>3, <3>1 DEF HeirWaits, Up!LiveSweeps, Up!Of
      <4> QED
        BY <2>2, <3>1, <4>1, <4>2
    <3>2. CASE jobs[x].dep \notin r.doomed
      <4>1. Up!NewDep(jobs, r, x) \in {Up!None, jobs[x].dep}
        BY <3>2 DEF Up!NewDep, Up!ToDead
      <4> QED
        BY <2>2, <4>1
    <3> QED
      BY <3>1, <3>2
  <2>4. ASSUME NEW x \in DOMAIN after, Up!Live(after, x)
        PROVE  \/ /\ after[x].dep < x
                  /\ after[x].task \in Up!Sweeps /\ after[x].dep \in DOMAIN after =>
                        after[after[x].dep].task \in Up!Sweeps
               \/ /\ after[x].task \notin Up!Sweeps /\ after[x].dep \in DOMAIN after
                  /\ after[after[x].dep].task \in Up!Sweeps
    <3>1. x \in DOMAIN jobs /\ Up!Live(jobs, x) /\ x \in Nat /\ x > 0
      BY <2>1, <2>2, <2>4, OldCount DEF Up!Live, JobsOK, Last
    <3>2. CASE after[x].dep = Up!None
      BY <2>1, <3>1, <3>2 DEF Up!None
    <3>3. CASE after[x].dep = jobs[x].dep /\ after[x].dep # Up!None
      <4>1. after[x].dep \in DOMAIN after
        BY <2>2, <3>3
      <4> QED
        BY <2>1, <2>2, <3>1, <3>3, <4>1 DEF ChainOK
    <3>4. CASE /\ jobs[x].task \notin Up!Sweeps /\ r.doomed # {} /\ after[x].dep = r.heir
               /\ after[x].dep # Up!None
      <4>1. after[x].dep \in DOMAIN after /\ jobs[r.heir].task = "consistency"
        BY <1>2, <2>2, <3>4 DEF ReadOK
      <4>2. after[after[x].dep].task \in Up!Sweeps
        BY <2>2, <3>4, <4>1 DEF Up!Sweeps
      <4> QED
        BY <2>2, <3>4, <4>1, <4>2
    <3> QED
      BY <2>3, <3>1, <3>2, <3>3, <3>4
  <2>5. ChainOK'
    BY <1>5, <2>4 DEF ChainOK
  <2>6. HeirWaits'
    <3>1. ASSUME NEW p \in Openers, opener'[p].at = "retire", NEW x \in Up!LiveSweeps(after),
                 after[x].dep \in opener'[p].doomed
          PROVE  x = opener'[p].heir
      <4>1. p # o /\ opener'[p] = opener[p]
        BY <1>3, <3>1 DEF ReadOK
      <4>2. /\ x \in DOMAIN after /\ x \in Up!LiveSweeps(jobs) /\ Up!Live(jobs, x)
            /\ jobs[x].task \in Up!Sweeps
        BY <2>1, <2>2 DEF Up!LiveSweeps, Up!Of, Up!Live
      <4>3. after[x].dep # Up!None
        BY <3>1, <4>1 DEF ReadOK
      <4>4. after[x].dep = jobs[x].dep
        BY <2>3, <4>2, <4>3
      <4> QED
        BY <3>1, <4>1, <4>2, <4>4 DEF HeirWaits
    <3> QED
      BY <1>5, <3>1 DEF HeirWaits
  <2> QED
    BY <1>1, <2>5, <2>6
<1> QED
  BY <1>2, <1>4, <1>5 DEF Up!Retire

LEMMA RestChain ==
    ASSUME ChainInv,
           \/ \E o \in Openers : Up!Open(o) \/ Up!Rebuild(o) \/ Up!LookForColumn(o) \/ Up!AddColumn(o)
                                 \/ Up!Stamp(o) \/ Up!Crash(o)
           \/ UNCHANGED Up!vars
    PROVE  ChainInv'
<1> USE DEF ChainInv, QueueInv
<1>1. QueueInv'
  BY RestQueue
<1>2. /\ UNCHANGED jobs
      /\ \A x \in Openers : opener'[x] = opener[x] \/ opener'[x].at # "retire"
  BY DEF Up!Open, Up!Rebuild, Up!LookForColumn, Up!AddColumn, Up!Stamp, Up!Crash, Up!vars,
     Up!queue, Up!Go, Up!Fail, ReadOK
<1> QED
  BY <1>1, <1>2 DEF ChainOK, HeirWaits

LEMMA ChainStep ==
    ASSUME OldIds, ~Chains, ChainInv, [Up!Next]_(Up!vars)
    PROVE  ChainInv'
BY FinishChain, QueueOldChain, ReadChain, RetireChain, RestChain DEF Up!Next, Up!Climb

\* In a ring of live jobs the least sweep, or else the least job, has nothing
\* to wait for in the ring.
LEMMA ChainsEnd ==
    ASSUME OldIds, ChainInv
    PROVE  Up!NoneStuck
<1> SUFFICES ASSUME NEW S \in SUBSET DOMAIN jobs, S # {},
                    \A id \in S : Up!Live(jobs, id) /\ jobs[id].dep \in S
             PROVE  FALSE
  BY DEF Up!NoneStuck
<1> DEFINE Swept == {id \in S : jobs[id].task \in Up!Sweeps}
<1>1. S \subseteq Nat /\ \A id \in S : jobs[id].dep \in S /\ jobs[id].dep \in DOMAIN jobs
  BY OldCount DEF ChainInv, QueueInv, JobsOK, Last
<1>2. CASE Swept # {}
  <2>1. PICK m \in Swept : \A n \in Swept : m <= n
    BY <1>1, <1>2, LeastNumber
  <2>2. jobs[m].dep < m /\ jobs[m].dep \in Swept
    BY <1>1, <2>1 DEF ChainInv, ChainOK
  <2> QED
    BY <1>1, <2>1, <2>2
<1>3. CASE Swept = {}
  <2>1. PICK m \in S : \A n \in S : m <= n
    BY <1>1, LeastNumber
  <2>2. jobs[m].dep < m
    BY <1>1, <1>3, <2>1 DEF ChainInv, ChainOK
  <2> QED
    BY <1>1, <2>1, <2>2
<1> QED
  BY <1>2, <1>3

\* While this build's processes open a store of an earlier build, at once,
\* dying on any rung and failing half-way, and that build still queues and runs
\* jobs: a consistency sweep that was asked for is queued under one name or the
\* other until a sweep has run, and no job that was queued behind a sweep runs
\* before it (store.py _retire_removed_task_rows and _migrate).
THEOREM UpgradeKeepsSweeps ==
    ASSUME OldIds
    PROVE  Up!Spec => [](Up!SweepKept /\ Up!NotEarly)
<1>1. Up!Init => QueueInv
  BY QueueStart
<1>2. QueueInv /\ [Up!Next]_(Up!vars) => QueueInv'
  BY QueueStep
<1>3. QueueInv => Up!SweepKept /\ Up!NotEarly
  BY DEF QueueInv, BehindOK, Up!NotEarly, Up!Live
<1> QED
  BY <1>1, <1>2, <1>3, PTL DEF Up!Spec

\* And where a sweep only ever waits for a sweep, mending the edges of a row
\* that gives way to its heir leaves no ring of live jobs that wait for one
\* another (store.py _retire_removed_task_rows).
THEOREM UpgradeStrandsNoJob ==
    ASSUME OldIds, ~Chains
    PROVE  Up!Spec => []Up!NoneStuck
<1>1. Up!Init => ChainInv
  BY ChainStart
<1>2. ChainInv /\ [Up!Next]_(Up!vars) => ChainInv'
  BY ChainStep
<1>3. ChainInv => Up!NoneStuck
  BY ChainsEnd
<1> QED
  BY <1>1, <1>2, <1>3, PTL DEF Up!Spec

\* Jobs have ids of those the bounds allow and tasks the CHECK admits; a column
\* about to be added is one this build expects.
TableTypes ==
    /\ check \in {Up!Current, Up!Current \union Up!Retired}
    /\ DOMAIN jobs \subseteq Up!JobIds
    /\ \A id \in DOMAIN jobs : jobs[id].task \in check
    /\ columns \subseteq Columns
    /\ \A o \in Openers : opener[o].at = "add" => opener[o].column \in Columns

LEMMA TypesStep ==
    ASSUME OldIds, MaxQueued \in Nat, QueueInv, TableTypes, [Up!Next]_(Up!vars)
    PROVE  TableTypes'
<1> USE DEF TableTypes
<1>0. /\ queued \in Nat /\ opener = [o \in Openers |-> opener[o]]
      /\ jobs \in [DOMAIN jobs -> JobType] /\ "consistency" \in check
  BY DEF QueueInv, JobsOK, ReadOK, Up!Current
<1>1. ASSUME NEW id \in Up!JobIds, Up!Finish(id) PROVE TableTypes'
  <2>1. /\ jobs' = [jobs EXCEPT ![id].status = "done"]
        /\ UNCHANGED <<check, columns, opener>>
    BY <1>1 DEF Up!Finish
  <2>2. DOMAIN jobs' = DOMAIN jobs /\ \A x \in DOMAIN jobs : jobs'[x].task = jobs[x].task
    BY <1>0, <2>1 DEF JobType
  <2> QED
    BY <2>1, <2>2 DEF Up!JobIds
<1>2. ASSUME NEW task, NEW dep, Up!QueueOld(task, dep) PROVE TableTypes'
  <2> DEFINE id == Up!Cardinality(OldJobs) + queued + 1
  <2>1. /\ task \in check /\ queued < MaxQueued /\ UNCHANGED <<check, columns, opener>>
        /\ DOMAIN jobs' = DOMAIN jobs \union {id}
        /\ jobs' = [i \in DOMAIN jobs \union {id} |->
                       IF i = id THEN [task |-> task, status |-> "pending", dep |-> dep]
                       ELSE jobs[i]]
    BY <1>2 DEF Up!QueueOld
  <2>2. id \in Up!JobIds
    <3>1. queued + 1 \in 1 .. MaxQueued /\ Up!Cardinality(OldJobs) \in Nat
      BY <1>0, <2>1, OldCount, SameCount
    <3>2. id = Up!Cardinality(OldJobs) + (queued + 1)
      BY <1>0, <3>1
    <3> QED
      BY <3>1, <3>2 DEF Up!JobIds
  <2> HIDE DEF id
  <2>3. \A x \in DOMAIN jobs' : jobs'[x].task \in check
    BY <2>1
  <2> QED
    BY <2>1, <2>2, <2>3 DEF Up!JobIds
<1>3. ASSUME NEW o \in Openers, Up!Retire(o) PROVE TableTypes'
  <2>1. /\ jobs' = jobs \/ jobs' = Up!Retasked(jobs, opener[o])
        /\ UNCHANGED <<check, columns>>
        /\ \A p \in Openers : opener'[p] = opener[p] \/ opener'[p].at # "add"
    BY <1>0, <1>3 DEF Up!Retire, Up!Go, Up!Fail
  <2>2. DOMAIN jobs' \subseteq DOMAIN jobs /\ \A x \in DOMAIN jobs' : jobs'[x].task \in check
    <3>1. CASE jobs' = Up!Retasked(jobs, opener[o])
      <4>1. ASSUME NEW x \in DOMAIN jobs'
            PROVE  x \in DOMAIN jobs /\ jobs'[x].task = Up!NewTask(jobs[x].task)
        BY <1>0, <3>1 DEF Up!Retasked, JobType
      <4> QED
        BY <1>0, <4>1 DEF Up!NewTask
    <3> QED
      BY <2>1, <3>1
  <2> QED
    BY <2>1, <2>2 DEF Up!JobIds
<1>4. ASSUME NEW o \in Openers, Up!Rebuild(o) PROVE TableTypes'
  BY <1>0, <1>4 DEF Up!Rebuild, Up!Go, Up!Fail, Up!JobIds
<1>5. ASSUME NEW o \in Openers, Up!LookForColumn(o) PROVE TableTypes'
  BY <1>0, <1>5 DEF Up!LookForColumn, Up!Go, Up!queue, Up!JobIds
<1>6. ASSUME NEW o \in Openers, Up!AddColumn(o) PROVE TableTypes'
  BY <1>0, <1>6 DEF Up!AddColumn, Up!Go, Up!Fail, Up!At, Up!queue, Up!JobIds
<1>7. ASSUME NEW o \in Openers, Up!Open(o) \/ Up!ReadDoomed(o) \/ Up!Stamp(o) \/ Up!Crash(o)
      PROVE  TableTypes'
  <2>1. /\ UNCHANGED <<jobs, check, columns>>
        /\ \A p \in Openers : opener'[p] = opener[p] \/ opener'[p].at # "add"
    BY <1>0, <1>7 DEF Up!Open, Up!ReadDoomed, Up!Stamp, Up!Crash, Up!Go, Up!Fail, Up!queue
  <2> QED
    BY <2>1 DEF Up!JobIds
<1>8. CASE UNCHANGED Up!vars
  BY <1>8 DEF Up!vars, Up!queue, Up!JobIds
<1> QED
  BY <1>1, <1>2, <1>3, <1>4, <1>5, <1>6, <1>7, <1>8 DEF Up!Next, Up!Climb

\* All that the upgrade keeps together: the ids, tasks and columns of the tables,
\* the sweep that is owed, what waits for it, and no ring.
THEOREM UpgradeKeepsTheQueue ==
    ASSUME OldIds, MaxQueued \in Nat, ~Chains
    PROVE  Up!Spec => []QueueSurvives
<1> DEFINE Inv == ChainInv /\ TableTypes
<1>1. Up!Init => Inv
  <2> SUFFICES ASSUME Up!Init PROVE TableTypes
    BY ChainStart
  <2> QED
    BY DEF Up!Init, Up!Tables, TableTypes, Up!JobIds
<1>2. Inv /\ [Up!Next]_(Up!vars) => Inv'
  BY ChainStep, TypesStep DEF ChainInv
<1>3. Inv => QueueSurvives
  BY ChainsEnd DEF ChainInv, QueueInv, BehindOK, Up!NotEarly, Up!Live, QueueSurvives, Up!TypeOK,
     TableTypes
<1> HIDE DEF Inv
<1> QED
  BY <1>1, <1>2, <1>3, PTL DEF Up!Spec

-----------------------------------------------------------------------------
(* GitMirror: the order of rows, lines and files *)

LEMMA SameNumber ==
    ASSUME NEW S
    PROVE  Mirror!Cardinality(S) = Cardinality(S)
BY DEF Mirror!Cardinality, Cardinality

\* below gives what is before each member of a finite set in some order of it.
Orders(S, below) ==
    /\ IsFiniteSet(S) /\ below \in [S -> SUBSET S]
    /\ \A a \in S : a \notin below[a]
    /\ \A a, b \in S : a \in below[b] \/ b \in below[a] \/ a = b
    /\ \A a, b \in S : a \in below[b] => below[a] \subseteq below[b]

Numbers(S, below) ==
    /\ Cardinality(S) \in Nat
    /\ \A a \in S : Cardinality(below[a]) \in 0 .. Cardinality(S) - 1
    /\ \A a, b \in S : Cardinality(below[a]) = Cardinality(below[b]) => a = b
    /\ \A i \in 0 .. Cardinality(S) - 1 : \E a \in S : Cardinality(below[a]) = i

\* Counting what is before each member numbers them.
LEMMA Numbered ==
    ASSUME NEW S, NEW below, Orders(S, below)
    PROVE  Numbers(S, below)
<1> DEFINE n == Cardinality(S)
           number == [a \in S |-> Cardinality(below[a]) + 1]
<1>0. /\ IsFiniteSet(S) /\ below \in [S -> SUBSET S]
      /\ \A a \in S : a \notin below[a]
      /\ \A a, b \in S : a \in below[b] \/ b \in below[a] \/ a = b
      /\ \A a, b \in S : a \in below[b] => below[a] \subseteq below[b]
  BY DEF Orders
<1>1. n \in Nat
  BY <1>0, FS_CardinalityType
<1>2. ASSUME NEW a \in S
      PROVE  /\ IsFiniteSet(below[a]) /\ Cardinality(below[a]) \in Nat
             /\ Cardinality(below[a]) < n
  <2>1. below[a] \in SUBSET S /\ below[a] # S
    BY <1>0
  <2> QED
    BY <1>0, <2>1, FS_Subset, FS_CardinalityType
<1>3. ASSUME NEW a \in S, NEW b \in S, a \in below[b]
      PROVE  Cardinality(below[a]) # Cardinality(below[b])
  <2>1. below[a] \in SUBSET below[b] /\ below[a] # below[b]
    BY <1>0, <1>3
  <2>2. IsFiniteSet(below[b]) /\ Cardinality(below[b]) \in Nat /\ Cardinality(below[a]) \in Nat
    BY <1>2
  <2> QED
    BY <2>1, <2>2, FS_Subset
<1>4. \A a, b \in S : Cardinality(below[a]) = Cardinality(below[b]) => a = b
  BY <1>0, <1>3
<1>5. number \in [S -> 1 .. n]
  BY <1>1, <1>2
<1>6. number \in Injection(S, 1 .. n)
  <2>1. \A a, b \in S : number[a] = number[b] => a = b
    BY <1>2, <1>4
  <2> HIDE DEF number
  <2> QED
    BY <1>5, <2>1 DEF Injection, IsInjective
<1>7. IsFiniteSet(1 .. n) /\ Cardinality(1 .. n) = n
  <2>1. CASE n = 0
    <3>1. 1 .. n = {}
      BY <2>1
    <3> QED
      BY <2>1, <3>1, FS_EmptySet
  <2>2. CASE n # 0
    BY <1>1, <2>2, FS_Interval
  <2> QED
    BY <2>1, <2>2
<1>8. number \in Surjection(S, 1 .. n)
  <2> HIDE DEF number
  <2> QED
    BY <1>0, <1>6, <1>7, FS_Injection
<1>9. \A j \in 1 .. n : \E a \in S : number[a] = j
  <2> HIDE DEF number
  <2> QED
    BY <1>8 DEF Surjection
<1>10. \A i \in 0 .. n - 1 : \E a \in S : Cardinality(below[a]) = i
  <2> SUFFICES ASSUME NEW i \in 0 .. n - 1 PROVE \E a \in S : Cardinality(below[a]) = i
    OBVIOUS
  <2>1. i + 1 \in 1 .. n /\ i \in Nat
    BY <1>1
  <2>2. PICK a \in S : number[a] = i + 1
    BY <1>9, <2>1
  <2>3. Cardinality(below[a]) \in Nat
    BY <1>2
  <2> QED
    BY <2>1, <2>2, <2>3
<1>11. \A a \in S : Cardinality(below[a]) \in 0 .. n - 1
  BY <1>1, <1>2
<1> QED
  BY <1>1, <1>4, <1>10, <1>11 DEF Numbers

\* Of a finite set of numbers, each rank is that of one.
LEMMA RankNumbers ==
    ASSUME NEW S \in SUBSET Nat, IsFiniteSet(S)
    PROVE  /\ Cardinality(S) \in Nat /\ Mirror!Cardinality(S) = Cardinality(S)
           /\ \A g \in S : Mirror!Rank(S, g) \in 0 .. Cardinality(S) - 1
           /\ \A g, h \in S : Mirror!Rank(S, g) = Mirror!Rank(S, h) => g = h
           /\ \A i \in 0 .. Cardinality(S) - 1 : \E g \in S : Mirror!Rank(S, g) = i
<1> DEFINE below == [g \in S |-> {h \in S : h < g}]
<1>1. \A g, h \in S : g < h \/ h < g \/ g = h
  OBVIOUS
<1>2. \A g, h, k \in S : g < h /\ h < k => g < k
  <2>1. \A g, h, k \in Nat : g < h /\ h < k => g < k
    OBVIOUS
  <2> QED
    BY <2>1
<1>3. \A g \in S : ~(g < g)
  OBVIOUS
<1>4. below \in [S -> SUBSET S]
  OBVIOUS
<1>5. \A g, h \in S : g \in below[h] <=> g < h
  OBVIOUS
<1>6. \A g, h \in S : g \in below[h] => below[g] \subseteq below[h]
  BY <1>2, <1>4, <1>5
<1>7. \A g \in S : Mirror!Rank(S, g) = Cardinality(below[g])
  BY SameNumber DEF Mirror!Rank
<1> HIDE DEF below
<1>8. /\ \A a \in S : a \notin below[a]
      /\ \A a, b \in S : a \in below[b] \/ b \in below[a] \/ a = b
  BY <1>1, <1>3, <1>5
<1>9. Orders(S, below)
  BY <1>4, <1>6, <1>8 DEF Orders
<1>10. Numbers(S, below)
  BY <1>9, Numbered
<1> QED
  BY <1>7, <1>10, SameNumber DEF Numbers

\* The items at some positions are those and no others, each once, in order.
LEMMA PickedAt ==
    ASSUME NEW T, NEW items \in Seq(T), NEW ixs \in SUBSET (DOMAIN items)
    PROVE  /\ Mirror!At(items, ixs) \in Seq(T)
           /\ \A i \in ixs : \E j \in DOMAIN Mirror!At(items, ixs) :
                 Mirror!At(items, ixs)[j] = items[i]
           /\ \A j \in DOMAIN Mirror!At(items, ixs) : \E i \in ixs :
                 Mirror!At(items, ixs)[j] = items[i]
           /\ (\A i, k \in ixs : items[i] = items[k] => i = k)
                 => \A j, k \in DOMAIN Mirror!At(items, ixs) :
                       Mirror!At(items, ixs)[j] = Mirror!At(items, ixs)[k] => j = k
<1> DEFINE n == Cardinality(ixs)
           picks(j, i) == Mirror!Rank(ixs, i) = j - 1
           spot(j) == CHOOSE i \in ixs : picks(j, i)
           got == Mirror!At(items, ixs)
<1>1. ixs \in SUBSET Nat /\ IsFiniteSet(ixs)
  <2>1. DOMAIN items = 1 .. Len(items) /\ Len(items) \in Nat
    OBVIOUS
  <2>2. IsFiniteSet(1 .. Len(items))
    BY <2>1, FS_Interval
  <2> QED
    BY <2>1, <2>2, FS_Subset
<1>2. /\ n \in Nat /\ Mirror!Cardinality(ixs) = n
      /\ \A g \in ixs : Mirror!Rank(ixs, g) \in 0 .. n - 1
      /\ \A g, h \in ixs : Mirror!Rank(ixs, g) = Mirror!Rank(ixs, h) => g = h
      /\ \A i \in 0 .. n - 1 : \E g \in ixs : Mirror!Rank(ixs, g) = i
  BY <1>1, RankNumbers
<1> HIDE DEF n
<1>3. got = [j \in 1 .. n |-> items[spot(j)]]
  BY <1>2 DEF Mirror!At
<1>4. \A j \in 1 .. n : spot(j) \in ixs /\ picks(j, spot(j))
  <2> SUFFICES ASSUME NEW j \in 1 .. n PROVE spot(j) \in ixs /\ picks(j, spot(j))
    OBVIOUS
  <2>1. j - 1 \in 0 .. n - 1
    BY <1>2
  <2>2. \E g \in ixs : picks(j, g)
    BY <1>2, <2>1
  <2> HIDE DEF picks
  <2> QED
    BY <2>2
<1>5. \A i \in ixs : \E j \in 1 .. n : spot(j) = i
  <2> SUFFICES ASSUME NEW i \in ixs PROVE \E j \in 1 .. n : spot(j) = i
    OBVIOUS
  <2>1. Mirror!Rank(ixs, i) \in 0 .. n - 1
    BY <1>2
  <2> DEFINE j == Mirror!Rank(ixs, i) + 1
  <2>2. j \in 1 .. n /\ j - 1 = Mirror!Rank(ixs, i)
    BY <1>2, <2>1
  <2>3. spot(j) \in ixs /\ Mirror!Rank(ixs, spot(j)) = Mirror!Rank(ixs, i)
    BY <1>4, <2>2
  <2> QED
    BY <1>2, <2>2, <2>3
<1>6. \A j, k \in 1 .. n : spot(j) = spot(k) => j = k
  <2> SUFFICES ASSUME NEW j \in 1 .. n, NEW k \in 1 .. n, spot(j) = spot(k) PROVE j = k
    OBVIOUS
  <2>1. j - 1 = k - 1
    BY <1>4
  <2>2. j \in Int /\ k \in Int
    OBVIOUS
  <2> QED
    BY <2>1, <2>2
<1> HIDE DEF spot
<1>7. \A j \in 1 .. n : items[spot(j)] \in T
  BY <1>4
<1>8. got \in Seq(T) /\ DOMAIN got = 1 .. n /\ \A j \in 1 .. n : got[j] = items[spot(j)]
  BY <1>2, <1>3, <1>7
<1> HIDE DEF got
<1>9. \A i \in ixs : \E j \in DOMAIN got : got[j] = items[i]
  BY <1>5, <1>8
<1>10. \A j \in DOMAIN got : \E i \in ixs : got[j] = items[i]
  BY <1>4, <1>8
<1>11. ASSUME \A i, k \in ixs : items[i] = items[k] => i = k
       PROVE  \A j, k \in DOMAIN got : got[j] = got[k] => j = k
  BY <1>4, <1>6, <1>8, <1>11
<1> QED
  BY <1>8, <1>9, <1>10, <1>11 DEF got

LEMMA LinesFlattened ==
    ASSUME NEW T, NEW seqs \in Seq(Seq(T))
    PROVE  /\ Mirror!FlattenSeq(seqs) \in Seq(T)
           /\ Mirror!Range(Mirror!FlattenSeq(seqs)) = UNION {Mirror!Range(seqs[i]) : i \in DOMAIN seqs}
<1> DEFINE n == Len(seqs)
           Follows(f, m) == \A i \in 1 .. m : f[i] = IF i = 1 THEN seqs[i] ELSE f[i - 1] \o seqs[i]
           Shape(g) == g = [i \in 1 .. n |-> IF i = 1 THEN seqs[i] ELSE g[i - 1] \o seqs[i]]
<1>1. CASE n = 0
  <2>1. seqs = <<>> /\ Mirror!FlattenSeq(seqs) = seqs
    BY <1>1 DEF Mirror!FlattenSeq
  <2>2. DOMAIN seqs = {} /\ seqs \in Seq(T)
    BY <1>1, <2>1
  <2>3. Mirror!Range(seqs) = {} /\ UNION {Mirror!Range(seqs[i]) : i \in DOMAIN seqs} = {}
    BY <2>2 DEF Mirror!Range
  <2> QED
    BY <2>1, <2>2, <2>3
<1>2. CASE n # 0
  <2> DEFINE flat == CHOOSE g : Shape(g)
  <2>0. n \in Nat /\ n # 0 /\ \A i \in 1 .. n : seqs[i] \in Seq(T)
    BY <1>2
  <2>1. Mirror!FlattenSeq(seqs) = flat[n]
    BY <1>2 DEF Mirror!FlattenSeq
  <2> HIDE DEF n
  <2> DEFINE bad == {m \in 1 .. n : ~ \E f \in [1 .. m -> Seq(T)] : Follows(f, m)}
  <2>2. bad = {}
    <3> SUFFICES ASSUME bad # {} PROVE FALSE
      OBVIOUS
    <3>1. bad \in SUBSET Nat
      BY <2>0
    <3>2. PICK m \in bad : \A k \in bad : m <= k
      <4> HIDE DEF bad
      <4> QED
        BY <3>1, LeastNumber
    <3>3. CASE m = 1
      <4>1. [i \in 1 .. 1 |-> seqs[1]] \in [1 .. 1 -> Seq(T)]
        BY <2>0
      <4>2. Follows([i \in 1 .. 1 |-> seqs[1]], 1)
        BY <2>0
      <4> QED
        BY <3>3, <4>1, <4>2
    <3>4. CASE m # 1
      <4>0. m \in 1 .. n
        BY <3>2
      <4> HIDE DEF bad
      <4>1. m - 1 \in 1 .. n /\ m - 1 \notin bad /\ m \in Nat
        BY <2>0, <3>2, <3>4, <4>0
      <4> USE DEF bad
      <4>2. PICK f \in [1 .. m - 1 -> Seq(T)] : Follows(f, m - 1)
        BY <4>1
      <4> DEFINE g == [i \in 1 .. m |-> IF i = m THEN f[m - 1] \o seqs[m] ELSE f[i]]
      <4>3. m - 1 \in 1 .. m - 1 /\ m \in 1 .. n /\ \A i \in 1 .. m : i = m \/ i \in 1 .. m - 1
        BY <2>0, <3>4, <4>1
      <4>4. g \in [1 .. m -> Seq(T)]
        BY <2>0, <4>2, <4>3
      <4>5. \A i \in 1 .. m : g[i] = IF i = 1 THEN seqs[i] ELSE g[i - 1] \o seqs[i]
        <5> SUFFICES ASSUME NEW i \in 1 .. m
                     PROVE  g[i] = IF i = 1 THEN seqs[i] ELSE g[i - 1] \o seqs[i]
          OBVIOUS
        <5>1. CASE i = m
          <6>1. m - 1 \in 1 .. m /\ m - 1 # m /\ m \in 1 .. m
            BY <4>1, <4>3
          <6>2. g[m] = f[m - 1] \o seqs[m] /\ g[m - 1] = f[m - 1]
            BY <6>1
          <6> QED
            BY <3>4, <5>1, <6>2
        <5>2. CASE i # m
          <6>1. i \in 1 .. m - 1 /\ (i # 1 => i - 1 \in 1 .. m - 1 /\ i - 1 # m /\ i - 1 \in 1 .. m)
            BY <4>1, <4>3, <5>2
          <6>2. g[i] = f[i] /\ (i # 1 => g[i - 1] = f[i - 1])
            BY <5>2, <6>1
          <6> QED
            BY <4>2, <6>1, <6>2
        <5> QED
          BY <5>1, <5>2
      <4> QED
        BY <3>2, <4>4, <4>5
    <3> QED
      BY <3>3, <3>4
  <2>3. PICK f \in [1 .. n -> Seq(T)] : Follows(f, n)
    <3>1. n \in 1 .. n
      BY <2>0
    <3>2. n \notin bad
      BY <2>2
    <3> QED
      BY <3>1, <3>2
  <2>4. Shape(f)
    BY <2>3
  <2>5. Shape(flat)
    BY <2>4, Zenon
  <2>6. \A i \in 1 .. n : flat[i] = IF i = 1 THEN seqs[i] ELSE flat[i - 1] \o seqs[i]
    BY <2>5
  <2> HIDE DEF flat
  <2> DEFINE Upto(m) == UNION {Mirror!Range(seqs[i]) : i \in 1 .. m}
             wrong == {m \in 1 .. n : ~(flat[m] \in Seq(T) /\ Mirror!Range(flat[m]) = Upto(m))}
  <2>7. wrong = {}
    <3> SUFFICES ASSUME wrong # {} PROVE FALSE
      OBVIOUS
    <3>1. wrong \in SUBSET Nat
      BY <2>0
    <3>2. PICK m \in wrong : \A k \in wrong : m <= k
      <4> HIDE DEF wrong
      <4> QED
        BY <3>1, LeastNumber
    <3>3. CASE m = 1
      <4>0. 1 \in 1 .. n
        BY <2>0
      <4>1. flat[1] = seqs[1] /\ flat[1] \in Seq(T)
        BY <2>0, <2>6, <4>0
      <4>2. Upto(1) = Mirror!Range(seqs[1])
        OBVIOUS
      <4> QED
        BY <3>2, <3>3, <4>1, <4>2
    <3>4. CASE m # 1
      <4>0. m \in 1 .. n
        BY <3>2
      <4> HIDE DEF wrong
      <4>1. m - 1 \in 1 .. n /\ m - 1 \notin wrong /\ m \in 1 .. n
        BY <2>0, <3>2, <3>4, <4>0
      <4> USE DEF wrong
      <4>2. flat[m - 1] \in Seq(T) /\ Mirror!Range(flat[m - 1]) = Upto(m - 1)
        BY <4>1
      <4>3. flat[m] = flat[m - 1] \o seqs[m] /\ seqs[m] \in Seq(T)
        BY <2>0, <2>6, <3>4, <4>1
      <4>4. flat[m] \in Seq(T) /\ Mirror!Range(flat[m]) = Mirror!Range(flat[m - 1]) \cup Mirror!Range(seqs[m])
        <5>1. \A a, b \in Seq(T) : a \o b \in Seq(T) /\ Mirror!Range(a \o b) = Mirror!Range(a) \cup Mirror!Range(b)
          <6> SUFFICES ASSUME NEW a \in Seq(T), NEW b \in Seq(T)
                       PROVE  a \o b \in Seq(T) /\ Mirror!Range(a \o b) = Mirror!Range(a) \cup Mirror!Range(b)
            OBVIOUS
          <6>1. ASSUME NEW i \in DOMAIN b PROVE b[i] \in Mirror!Range(a \o b)
            <7>1. Len(a) + i \in DOMAIN (a \o b) /\ (a \o b)[Len(a) + i] = b[i]
              OBVIOUS
            <7> QED
              BY <7>1 DEF Mirror!Range
          <6>2. ASSUME NEW i \in DOMAIN a PROVE a[i] \in Mirror!Range(a \o b)
            <7>1. i \in DOMAIN (a \o b) /\ (a \o b)[i] = a[i]
              OBVIOUS
            <7> QED
              BY <7>1 DEF Mirror!Range
          <6>3. ASSUME NEW i \in DOMAIN (a \o b)
                PROVE  (a \o b)[i] \in Mirror!Range(a) \cup Mirror!Range(b)
            <7>1. \/ i \in DOMAIN a /\ (a \o b)[i] = a[i]
                  \/ i - Len(a) \in DOMAIN b /\ (a \o b)[i] = b[i - Len(a)]
              OBVIOUS
            <7> QED
              BY <7>1 DEF Mirror!Range
          <6> DEFINE c == a \o b
          <6>4. c \in Seq(T)
            OBVIOUS
          <6> HIDE DEF c
          <6>5. Mirror!Range(c) = {c[i] : i \in DOMAIN c}
            BY DEF Mirror!Range
          <6>6. Mirror!Range(a) = {a[i] : i \in DOMAIN a} /\ Mirror!Range(b) = {b[i] : i \in DOMAIN b}
            BY DEF Mirror!Range
          <6>7. \A i \in DOMAIN c : c[i] \in Mirror!Range(a) \cup Mirror!Range(b)
            BY <6>3 DEF c
          <6>8. /\ \A i \in DOMAIN b : b[i] \in Mirror!Range(c)
                /\ \A i \in DOMAIN a : a[i] \in Mirror!Range(c)
            BY <6>1, <6>2 DEF c
          <6>9. Mirror!Range(c) = Mirror!Range(a) \cup Mirror!Range(b)
            BY <6>5, <6>6, <6>7, <6>8
          <6> QED
            BY <6>4, <6>9 DEF c
        <5> QED
          BY <4>2, <4>3, <5>1
      <4>5. Upto(m) = Upto(m - 1) \cup Mirror!Range(seqs[m])
        <5>1. \A i : i \in 1 .. m <=> i \in 1 .. m - 1 \/ i = m
          BY <2>0, <4>1
        <5> QED
          BY <5>1
      <4> QED
        BY <3>2, <4>2, <4>4, <4>5
    <3> QED
      BY <3>3, <3>4
  <2>8. flat[n] \in Seq(T) /\ Mirror!Range(flat[n]) = Upto(n)
    <3>1. n \in 1 .. n
      BY <2>0
    <3> HIDE DEF wrong
    <3>2. n \notin wrong
      BY <2>7
    <3> USE DEF wrong
    <3> QED
      BY <3>1, <3>2
  <2>9. DOMAIN seqs = 1 .. n
    BY DEF n
  <2> QED
    BY <2>1, <2>8, <2>9
<1> QED
  BY <1>1, <1>2

\* What the code's arithmetic needs of the bounds.
MirrorSizes ==
    /\ MaxEvents \in Nat /\ MaxMinute \in Nat /\ MaxStops \in Nat /\ MaxLosses \in Nat
    /\ BatchRows \in Nat \ {0} /\ MaxBatches \in Nat \ {0}

\* In their order the names are numbered from 1, each once.
LEMMA NamesNumbered ==
    ASSUME MirrorSizes
    PROVE  /\ Mirror!Cardinality(Mirror!Names) \in Nat
           /\ \A k \in 1 .. Mirror!Cardinality(Mirror!Names) : Mirror!NameAt(k) \in Mirror!Names
           /\ \A f \in Mirror!Names : \E k \in 1 .. Mirror!Cardinality(Mirror!Names) :
                 Mirror!NameAt(k) = f
<1> DEFINE F == Mirror!Names
           below == [f \in F |-> Mirror!Ahead(f)]
<1>1. /\ IsFiniteSet(F)
      /\ \A f \in F : f[1] \in Nat /\ f[2] \in Nat /\ f = <<f[1], f[2]>>
  <2>1. IsFiniteSet(0 .. MaxMinute) /\ IsFiniteSet(1 .. MaxEvents)
    BY FS_Interval DEF MirrorSizes
  <2>2. IsFiniteSet((0 .. MaxMinute) \X (1 .. MaxEvents))
    BY <2>1, FS_Product
  <2> QED
    BY <2>2 DEF MirrorSizes, Mirror!Names, Mirror!Minutes, Mirror!EventIds
<1> DEFINE first(f, g) == f[1] < g[1] \/ (f[1] = g[1] /\ f[2] < g[2])
<1>2. \A f, g \in F : first(f, g) \/ first(g, f) \/ f = g
  <2> SUFFICES ASSUME NEW f \in F, NEW g \in F PROVE first(f, g) \/ first(g, f) \/ f = g
    OBVIOUS
  <2>1. f = <<f[1], f[2]>> /\ g = <<g[1], g[2]>>
    BY <1>1
  <2>2. f[1] \in Nat /\ f[2] \in Nat /\ g[1] \in Nat /\ g[2] \in Nat
    BY <1>1
  <2>3. first(f, g) \/ first(g, f) \/ (f[1] = g[1] /\ f[2] = g[2])
    BY <2>2
  <2> QED
    BY <2>1, <2>3
<1>3. \A f, g, h \in F : first(f, g) /\ first(g, h) => first(f, h)
  <2>1. \A a, b, c, d, m, n \in Nat :
           (a < c \/ (a = c /\ b < d)) /\ (c < m \/ (c = m /\ d < n)) => (a < m \/ (a = m /\ b < n))
    OBVIOUS
  <2> QED
    BY <1>1, <2>1
<1>4. \A f \in F : ~first(f, f)
  BY <1>1
<1> HIDE DEF F
<1>5. \A f \in F : Mirror!Ahead(f) = {g \in F : first(g, f)}
  BY DEF Mirror!Ahead, F
<1> HIDE DEF first
<1>6. below \in [F -> SUBSET F] /\ \A f, g \in F : g \in below[f] <=> first(g, f)
  BY <1>5
<1>7. /\ \A f \in F : f \notin below[f]
      /\ \A f, g \in F : f \in below[g] \/ g \in below[f] \/ f = g
      /\ \A f, g \in F : f \in below[g] => below[f] \subseteq below[g]
  <2>1. \A f, g \in F : f \in below[g] => below[f] \subseteq below[g]
    BY <1>3, <1>6
  <2> QED
    BY <1>2, <1>4, <1>6, <2>1
<1>8. \A f \in F : Mirror!Cardinality(Mirror!Ahead(f)) = Cardinality(below[f])
  BY SameNumber
<1>9. Orders(F, below)
  BY <1>1, <1>6, <1>7 DEF Orders
<1>10. Numbers(F, below)
  BY <1>9, Numbered
<1> DEFINE n == Cardinality(F)
           takes(k, f) == Mirror!Cardinality(Mirror!Ahead(f)) = k - 1
<1>11. n = Mirror!Cardinality(Mirror!Names) /\ n \in Nat
  BY <1>10, SameNumber DEF F, Numbers
<1>12. \A k \in 1 .. n : \E f \in F : takes(k, f)
  <2> SUFFICES ASSUME NEW k \in 1 .. n PROVE \E f \in F : takes(k, f)
    OBVIOUS
  <2>1. k - 1 \in 0 .. n - 1
    BY <1>11
  <2> HIDE DEF n
  <2>2. \E f \in F : Cardinality(below[f]) = k - 1
    BY <1>10, <2>1 DEF n, Numbers
  <2> QED
    BY <1>8, <2>2
<1>13. \A k : Mirror!NameAt(k) = CHOOSE f \in F : takes(k, f)
  BY DEF Mirror!NameAt, F
<1>14. \A k \in 1 .. n : Mirror!NameAt(k) \in F /\ takes(k, Mirror!NameAt(k))
  <2> HIDE DEF takes
  <2> QED
    BY <1>12, <1>13
<1>15. ASSUME NEW f \in F
       PROVE  \E k \in 1 .. n : Mirror!NameAt(k) = f
  <2> DEFINE k == Cardinality(below[f]) + 1
  <2>1. Cardinality(below[f]) \in 0 .. n - 1
    BY <1>10 DEF Numbers
  <2>2. k \in 1 .. n /\ k - 1 = Cardinality(below[f])
    BY <1>11, <2>1
  <2>3. Mirror!NameAt(k) \in F /\ Cardinality(below[Mirror!NameAt(k)]) = Cardinality(below[f])
    BY <1>8, <1>14, <2>2
  <2>4. Mirror!NameAt(k) = f
    BY <1>10, <2>3 DEF Numbers
  <2> QED
    BY <2>2, <2>4
<1> QED
  BY <1>11, <1>14, <1>15 DEF F

\* The replay reads every line of every file.
LEMMA EveryLine ==
    ASSUME MirrorSizes, files \in [Mirror!Names -> Seq(Mirror!EventIds)]
    PROVE  /\ Mirror!AllLines \in Seq(Mirror!EventIds)
           /\ Mirror!UpToUnreadable = Mirror!AllLines
           /\ Mirror!Range(Mirror!AllLines) = {e \in Mirror!EventIds : Mirror!InSomeFile(e)}
<1> DEFINE n == Mirror!Cardinality(Mirror!Names)
           T == Mirror!EventIds
           seqs == [k \in 1 .. n |-> files[Mirror!NameAt(k)]]
<1>1. /\ n \in Nat
      /\ \A k \in 1 .. n : Mirror!NameAt(k) \in Mirror!Names
      /\ \A f \in Mirror!Names : \E k \in 1 .. n : Mirror!NameAt(k) = f
  BY NamesNumbered
<1> HIDE DEF n, T
<1>2. seqs \in Seq(Seq(T)) /\ DOMAIN seqs = 1 .. n
  BY <1>1 DEF T
<1>3. Mirror!AllLines = Mirror!FlattenSeq(seqs)
  BY DEF Mirror!AllLines, n
<1>4. /\ Mirror!AllLines \in Seq(T)
      /\ Mirror!Range(Mirror!AllLines) = UNION {Mirror!Range(seqs[i]) : i \in 1 .. n}
  <2> HIDE DEF seqs
  <2> QED
    BY <1>2, <1>3, LinesFlattened
<1>5. \A e : (\E i \in 1 .. n : e \in Mirror!Range(seqs[i])) <=> Mirror!InSomeFile(e)
  BY <1>1 DEF Mirror!InSomeFile
<1>6. Mirror!Range(Mirror!AllLines) \subseteq T
  BY <1>4 DEF Mirror!Range
<1>7. {k \in DOMAIN Mirror!AllLines : Mirror!AllLines[k] \notin Mirror!EventIds} = {}
  BY <1>4 DEF T
<1>8. Mirror!UpToUnreadable = Mirror!AllLines
  BY <1>7 DEF Mirror!UpToUnreadable
<1>9. Mirror!Range(Mirror!AllLines) = {e \in T : Mirror!InSomeFile(e)}
  <2> HIDE DEF seqs
  <2> QED
    BY <1>4, <1>5, <1>6
<1> QED
  BY <1>4, <1>8, <1>9 DEF T

-----------------------------------------------------------------------------
(* GitMirror: the invariant *)

Captured == Mirror!EventIds
QueueRow == [event : Captured, mark : {"pending", "committed", "uncommitted"}]
FlushCall == [at : {"idle", "more", "write", "git", "mark"}, rows : SUBSET Nat,
              todo : SUBSET Nat, wrote : SUBSET Mirror!Names, batches : Nat, usable : BOOLEAN]

MirrorTypes ==
    /\ captured \in Seq(Captured)
    /\ minute \in [Captured -> Mirror!Minutes]
    /\ queue \in Seq(QueueRow)
    /\ files \in [Mirror!Names -> Seq(Captured)]
    /\ head \in [Mirror!Names -> Nat]
    /\ flush \in [Flushers -> FlushCall]
    /\ clock \in Mirror!Minutes /\ phase \in {"up", "lost"}
    /\ before \in Seq(Captured)
    /\ stops \in 0 .. MaxStops /\ losses \in 0 .. MaxLosses

\* The queue has a row for every event of the log, and the log no event twice.
RowPerEvent ==
    /\ Len(queue) = Len(captured)
    /\ \A k \in DOMAIN queue : queue[k].event = captured[k]

\* A line that is in a file, and one that is in its committed part.
LineOf(e, f) == \E k \in DOMAIN files[f] : files[f][k] = e
InHead(e) == \E f \in Mirror!Names : \E k \in 1 .. head[f] : files[f][k] = e
InAFile(e) == \E f \in Mirror!Names : LineOf(e, f)

\* What a call knows of its batch: the rows it has written are in the files it
\* has named, and once git has taken these the rows are in HEAD.
BatchOK(p) ==
    /\ flush[p].rows \subseteq DOMAIN queue
    /\ flush[p].at = "idle" => flush[p].batches = 0
    /\ flush[p].at = "more" => flush[p].batches < MaxBatches
    /\ flush[p].batches <= MaxBatches
    /\ flush[p].todo \subseteq flush[p].rows
    /\ flush[p].at \in {"write", "git", "mark"} =>
          /\ phase = "up"
          /\ \A g \in flush[p].rows \ flush[p].todo :
                \E f \in flush[p].wrote : LineOf(queue[g].event, f)
    /\ flush[p].at = "write" => flush[p].todo # {}
    /\ flush[p].at \in {"git", "mark"} => flush[p].todo = {}
    /\ flush[p].at = "mark" /\ flush[p].usable =>
          \A g \in flush[p].rows : InHead(queue[g].event)

MarkedOK ==
    \A g \in DOMAIN queue :
        /\ queue[g].mark = "committed" => InHead(queue[g].event)
        /\ queue[g].mark # "pending" => InAFile(queue[g].event)

BeforeOK ==
    /\ \A k \in DOMAIN before : InAFile(before[k])
    /\ phase = "up" =>
          \A k \in DOMAIN before : \E j \in DOMAIN captured : captured[j] = before[k]

MirrorInv ==
    /\ MirrorTypes
    /\ \A f \in Mirror!Names : head[f] <= Len(files[f])
    /\ RowPerEvent /\ Mirror!LogOnce
    /\ \A p \in Flushers : BatchOK(p)
    /\ MarkedOK /\ BeforeOK

\* The files only get longer, and git's part of them only gets longer.
FilesGrow ==
    /\ \A f \in Mirror!Names :
          /\ Len(files[f]) <= Len(files'[f])
          /\ \A k \in 1 .. Len(files[f]) : files'[f][k] = files[f][k]
    /\ \A f \in Mirror!Names : head[f] <= head'[f]

LEMMA LinesStay ==
    ASSUME MirrorInv, MirrorTypes', FilesGrow
    PROVE  /\ \A e, f : f \in Mirror!Names /\ LineOf(e, f) => LineOf(e, f)'
           /\ \A e : InAFile(e) => InAFile(e)'
           /\ \A e : InHead(e) => InHead(e)'
<1>1. \A f \in Mirror!Names :
         /\ DOMAIN files[f] = 1 .. Len(files[f]) /\ Len(files[f]) \in Nat
         /\ DOMAIN files'[f] = 1 .. Len(files'[f]) /\ Len(files'[f]) \in Nat
         /\ head[f] \in Nat /\ head'[f] \in Nat /\ head[f] <= Len(files[f])
  <2>1. \A f \in Mirror!Names : files[f] \in Seq(Captured) /\ files'[f] \in Seq(Captured)
    BY DEF MirrorInv, MirrorTypes
  <2>2. \A f \in Mirror!Names : head[f] \in Nat /\ head'[f] \in Nat /\ head[f] <= Len(files[f])
    BY DEF MirrorInv, MirrorTypes
  <2> QED
    BY <2>1, <2>2
<1>2. \A f \in Mirror!Names : \A k \in 1 .. Len(files[f]) :
         k \in 1 .. Len(files'[f]) /\ files'[f][k] = files[f][k]
  BY <1>1 DEF FilesGrow
<1>3. \A e, f : f \in Mirror!Names /\ LineOf(e, f) => LineOf(e, f)'
  <2> SUFFICES ASSUME NEW e, NEW f \in Mirror!Names, LineOf(e, f) PROVE LineOf(e, f)'
    OBVIOUS
  <2>1. PICK k \in DOMAIN files[f] : files[f][k] = e
    BY DEF LineOf
  <2>2. k \in DOMAIN files'[f] /\ files'[f][k] = e
    BY <1>1, <1>2, <2>1
  <2> QED
    BY <2>2 DEF LineOf
<1>4. \A f \in Mirror!Names : \A k \in 1 .. head[f] :
         k \in 1 .. head'[f] /\ files'[f][k] = files[f][k]
  BY <1>1, <1>2 DEF FilesGrow
<1>5. \A e : InHead(e) => InHead(e)'
  BY <1>4 DEF InHead
<1>6. \A e : InAFile(e) => InAFile(e)'
  BY <1>3 DEF InAFile
<1> QED
  BY <1>3, <1>5, <1>6

\* A call that a step leaves alone keeps its batch while rows stay and files grow.
LEMMA OtherCalls ==
    ASSUME MirrorInv, MirrorTypes', FilesGrow,
           phase' \in {phase, "up"},
           \A g \in DOMAIN queue : g \in DOMAIN queue' /\ queue'[g].event = queue[g].event,
           NEW p \in Flushers, flush'[p] = flush[p]
    PROVE  BatchOK(p)'
<1>1. BatchOK(p) /\ flush[p] \in FlushCall
  BY DEF MirrorInv, MirrorTypes
<1>2. flush[p].rows \subseteq DOMAIN queue /\ flush[p].wrote \subseteq Mirror!Names
  BY <1>1 DEF BatchOK, FlushCall
<1>3. \A g \in flush[p].rows :
         g \in DOMAIN queue' /\ queue'[g].event = queue[g].event
  BY <1>2
<1>4. \A g \in flush[p].rows : \A f \in flush[p].wrote :
         LineOf(queue[g].event, f) => LineOf(queue[g].event, f)'
  BY <1>2, LinesStay
<1>5. \A g \in flush[p].rows : InHead(queue[g].event) => InHead(queue[g].event)'
  BY <1>3, LinesStay DEF InHead
<1>6. /\ flush[p].at \in {"write", "git", "mark"} =>
          \A g \in flush[p].rows \ flush[p].todo :
             \E f \in flush[p].wrote : LineOf(queue[g].event, f)'
      /\ flush[p].at = "mark" /\ flush[p].usable =>
          \A g \in flush[p].rows : InHead(queue[g].event)'
  BY <1>1, <1>4, <1>5 DEF BatchOK
<1> QED
  BY <1>1, <1>3, <1>6 DEF BatchOK


LEMMA MirrorStart ==
    ASSUME MirrorSizes, Mirror!Init
    PROVE  MirrorInv
<1>1. /\ captured = <<>> /\ queue = <<>> /\ before = <<>> /\ phase = "up"
      /\ files = [f \in Mirror!Names |-> <<>>] /\ head = [f \in Mirror!Names |-> 0]
      /\ flush = [p \in Flushers |-> Mirror!Idle]
  BY DEF Mirror!Init
<1>2. DOMAIN queue = {} /\ DOMAIN before = {} /\ DOMAIN captured = {}
  BY <1>1
<1>3. Mirror!Idle \in FlushCall
  BY DEF Mirror!Idle, FlushCall
<1>4. MirrorTypes
  BY <1>1, <1>3 DEF Mirror!Init, MirrorTypes, MirrorSizes, Mirror!Minutes, Captured
<1>5. \A p \in Flushers : BatchOK(p)
  BY <1>1 DEF BatchOK, Mirror!Idle, MirrorSizes
<1>6. \A f \in Mirror!Names : head[f] <= Len(files[f])
  BY <1>1
<1> QED
  BY <1>1, <1>2, <1>4, <1>5, <1>6 DEF MirrorInv, RowPerEvent, MarkedOK, BeforeOK, Mirror!LogOnce

\* c is a with b after it.
Joins(a, b, c) ==
    /\ Len(a) \in Nat /\ Len(b) \in Nat
    /\ Len(c) = Len(a) + Len(b) /\ DOMAIN c = 1 .. Len(a) + Len(b)
    /\ \A j \in 1 .. Len(a) : j \in DOMAIN c /\ c[j] = a[j]
    /\ \A j \in DOMAIN c : j \notin 1 .. Len(a) =>
          j - Len(a) \in 1 .. Len(b) /\ c[j] = b[j - Len(a)]

LEMMA Joined ==
    ASSUME NEW T, NEW a \in Seq(T), NEW b \in Seq(T)
    PROVE  a \o b \in Seq(T) /\ Joins(a, b, a \o b)
BY DEF Joins

\* Events that are new to the log, with their rows.
LEMMA RowsAdded ==
    ASSUME MirrorInv, NEW fresh \in Seq(Captured),
           \A j, k \in DOMAIN fresh : fresh[j] = fresh[k] => j = k,
           \A k \in DOMAIN fresh : fresh[k] \notin Mirror!Range(captured),
           captured' = captured \o fresh,
           queue' = queue \o [k \in DOMAIN fresh |-> [event |-> fresh[k], mark |-> "pending"]],
           UNCHANGED <<files, head, flush, before>>
    PROVE  /\ captured' \in Seq(Captured) /\ queue' \in Seq(QueueRow)
           /\ RowPerEvent' /\ Mirror!LogOnce' /\ MarkedOK'
           /\ \A g \in DOMAIN queue : g \in DOMAIN queue' /\ queue'[g].event = queue[g].event
           /\ \A j \in DOMAIN captured : j \in DOMAIN captured' /\ captured'[j] = captured[j]
           /\ \A k \in DOMAIN fresh : \E j \in DOMAIN captured' : captured'[j] = fresh[k]
<1> DEFINE added == [k \in DOMAIN fresh |-> [event |-> fresh[k], mark |-> "pending"]]
           n == Len(captured)
           m == Len(fresh)
<1>1. /\ captured \in Seq(Captured) /\ queue \in Seq(QueueRow)
      /\ Len(queue) = n /\ \A k \in DOMAIN queue : queue[k].event = captured[k]
  BY DEF MirrorInv, MirrorTypes, RowPerEvent
<1>2. /\ added \in Seq(QueueRow) /\ Len(added) = m
      /\ \A k \in 1 .. m : added[k].event = fresh[k]
      /\ \A k \in 1 .. m : added[k].mark = "pending"
  <2>1. m \in Nat /\ DOMAIN fresh = 1 .. m /\ \A k \in 1 .. m : fresh[k] \in Captured
    OBVIOUS
  <2>2. \A k \in 1 .. m : [event |-> fresh[k], mark |-> "pending"] \in QueueRow
    BY <2>1 DEF QueueRow
  <2> HIDE DEF m
  <2> QED
    BY <2>1, <2>2
<1>3. n \in Nat /\ m \in Nat /\ DOMAIN captured = 1 .. n /\ DOMAIN fresh = 1 .. m
      /\ DOMAIN queue = 1 .. n
  BY <1>1
<1> HIDE DEF added, n, m
<1>4. /\ captured' \in Seq(Captured) /\ DOMAIN captured' = 1 .. n + m /\ Len(captured') = n + m
      /\ \A j \in 1 .. n : captured'[j] = captured[j]
      /\ \A j \in 1 .. n + m : j \notin 1 .. n => j - n \in 1 .. m /\ captured'[j] = fresh[j - n]
  BY <1>1, <1>3 DEF n, m
<1>5. /\ queue' \in Seq(QueueRow) /\ DOMAIN queue' = 1 .. n + m /\ Len(queue') = n + m
      /\ \A j \in 1 .. n : queue'[j] = queue[j]
      /\ \A j \in 1 .. n + m : j \notin 1 .. n => j - n \in 1 .. m /\ queue'[j] = added[j - n]
  <2>1. queue' = queue \o added
    BY DEF added
  <2> DEFINE both == queue \o added
  <2>2. both \in Seq(QueueRow) /\ Joins(queue, added, both)
    BY <1>1, <1>2, Joined
  <2> HIDE DEF both
  <2>3. queue' = both
    BY <2>1 DEF both
  <2> QED
    BY <1>1, <1>2, <2>2, <2>3 DEF Joins
<1>6. RowPerEvent'
  <2>1. ASSUME NEW j \in 1 .. n + m PROVE queue'[j].event = captured'[j]
    <3>1. CASE j \in 1 .. n
      BY <1>1, <1>3, <1>4, <1>5, <3>1
    <3>2. CASE j \notin 1 .. n
      <4>1. j - n \in 1 .. m /\ queue'[j] = added[j - n] /\ captured'[j] = fresh[j - n]
        BY <1>4, <1>5, <3>2
      <4> QED
        BY <1>2, <4>1
    <3> QED
      BY <3>1, <3>2
  <2> QED
    BY <1>4, <1>5, <2>1 DEF RowPerEvent
<1>7. Mirror!LogOnce'
  <2>1. SUFFICES ASSUME NEW i \in 1 .. n + m, NEW j \in 1 .. n + m, captured'[i] = captured'[j]
                 PROVE  i = j
    BY <1>4 DEF Mirror!LogOnce
  <2>2. \A k \in 1 .. n : \A l \in 1 .. m : fresh[l] # captured[k]
    BY <1>3 DEF Mirror!Range
  <2>3. CASE i \in 1 .. n /\ j \in 1 .. n
    BY <1>3, <1>4, <2>1, <2>3 DEF MirrorInv, Mirror!LogOnce
  <2>4. CASE i \notin 1 .. n /\ j \notin 1 .. n
    <3>1. i - n \in 1 .. m /\ j - n \in 1 .. m /\ fresh[i - n] = fresh[j - n]
      BY <1>4, <2>1, <2>4
    <3>2. i - n = j - n
      BY <1>3, <3>1
    <3> QED
      BY <1>3, <3>2
  <2>5. CASE i \in 1 .. n /\ j \notin 1 .. n
    BY <1>3, <1>4, <2>1, <2>2, <2>5
  <2>6. CASE i \notin 1 .. n /\ j \in 1 .. n
    BY <1>3, <1>4, <2>1, <2>2, <2>6
  <2> QED
    BY <2>3, <2>4, <2>5, <2>6
<1>8. MarkedOK'
  <2>1. SUFFICES ASSUME NEW g \in 1 .. n + m
                 PROVE  /\ queue'[g].mark = "committed" => InHead(queue[g].event)'
                        /\ queue'[g].mark # "pending" => InAFile(queue[g].event)'
    BY <1>5 DEF MarkedOK
  <2>2. CASE g \in 1 .. n
    <3>1. queue'[g] = queue[g]
      BY <1>5, <2>2
    <3>2. /\ queue[g].mark = "committed" => InHead(queue[g].event)
          /\ queue[g].mark # "pending" => InAFile(queue[g].event)
      BY <1>3, <2>2 DEF MirrorInv, MarkedOK
    <3> QED
      BY <3>1, <3>2 DEF InHead, InAFile, LineOf
  <2>3. CASE g \notin 1 .. n
    <3>1. g - n \in 1 .. m /\ queue'[g] = added[g - n]
      BY <1>5, <2>3
    <3>2. queue'[g].mark = "pending"
      BY <1>2, <3>1
    <3> QED
      BY <3>2
  <2> QED
    BY <2>2, <2>3
<1>9. \A k \in DOMAIN fresh : \E j \in DOMAIN captured' : captured'[j] = fresh[k]
  <2> SUFFICES ASSUME NEW k \in 1 .. m PROVE \E j \in 1 .. n + m : captured'[j] = fresh[k]
    BY <1>3, <1>4
  <2>1. n + k \in 1 .. n + m /\ n + k \notin 1 .. n /\ (n + k) - n = k
    BY <1>3
  <2> QED
    BY <1>4, <2>1
<1>10. \A j \in 1 .. n : j \in 1 .. n + m
  BY <1>3
<1> QED
  BY <1>3, <1>4, <1>5, <1>6, <1>7, <1>8, <1>9, <1>10

\* The conjuncts put together again, after a step that leaves files alone.
LEMMA AppendMirror ==
    ASSUME MirrorSizes, MirrorInv, NEW e \in Mirror!EventIds, Mirror!AppendEvent(e)
    PROVE  MirrorInv'
<1> DEFINE fresh == <<e>>
<1>1. /\ phase = "up" /\ e \notin Mirror!Range(captured)
      /\ captured' = Append(captured, e)
      /\ queue' = Append(queue, [event |-> e, mark |-> "pending"])
      /\ \E m \in Mirror!Minutes : minute' = [minute EXCEPT ![e] = m]
      /\ UNCHANGED <<files, head, flush, clock, phase, before, stops, losses>>
  BY DEF Mirror!AppendEvent, Mirror!mirror, Mirror!bounds
<1>2. captured \in Seq(Captured) /\ queue \in Seq(QueueRow)
  BY DEF MirrorInv, MirrorTypes
<1>3. /\ fresh \in Seq(Captured) /\ DOMAIN fresh = {1} /\ fresh[1] = e
      /\ [k \in DOMAIN fresh |-> [event |-> fresh[k], mark |-> "pending"]]
            = <<[event |-> e, mark |-> "pending"]>>
  BY DEF Captured
<1>4. captured' = captured \o fresh
  BY <1>1, <1>2 DEF Captured
<1>5. queue' = queue \o [k \in DOMAIN fresh |-> [event |-> fresh[k], mark |-> "pending"]]
  <2>1. [event |-> e, mark |-> "pending"] \in QueueRow
    BY DEF QueueRow, Captured
  <2> QED
    BY <1>1, <1>2, <1>3, <2>1
<1>6. /\ \A j, k \in DOMAIN fresh : fresh[j] = fresh[k] => j = k
      /\ \A k \in DOMAIN fresh : fresh[k] \notin Mirror!Range(captured)
  BY <1>1, <1>3
<1> HIDE DEF fresh
<1>7. /\ captured' \in Seq(Captured) /\ queue' \in Seq(QueueRow)
      /\ RowPerEvent' /\ Mirror!LogOnce' /\ MarkedOK'
      /\ \A g \in DOMAIN queue : g \in DOMAIN queue' /\ queue'[g].event = queue[g].event
      /\ \A j \in DOMAIN captured : j \in DOMAIN captured' /\ captured'[j] = captured[j]
  BY <1>1, <1>3, <1>4, <1>5, <1>6, RowsAdded
<1>8. minute' \in [Captured -> Mirror!Minutes]
  BY <1>1 DEF MirrorInv, MirrorTypes
<1>9. MirrorTypes'
  BY <1>1, <1>7, <1>8 DEF MirrorInv, MirrorTypes
<1>10. FilesGrow
  BY <1>1 DEF MirrorInv, MirrorTypes, FilesGrow
<1>11. \A p \in Flushers : BatchOK(p)'
  BY <1>1, <1>7, <1>9, <1>10, OtherCalls
<1>12. BeforeOK'
  BY <1>1, <1>7 DEF MirrorInv, BeforeOK, InAFile, LineOf
<1>13. \A f \in Mirror!Names : head'[f] <= Len(files'[f])
  BY <1>1 DEF MirrorInv
<1> QED
  BY <1>7, <1>9, <1>11, <1>12, <1>13 DEF MirrorInv


\* What is left to show of a step of one call.
CallStep(p, now) ==
    /\ flush' = [flush EXCEPT ![p] = now] /\ now \in FlushCall
    /\ UNCHANGED <<captured, minute, clock, phase, before, losses>>
    /\ stops' \in 0 .. MaxStops
    /\ queue' \in Seq(QueueRow) /\ DOMAIN queue' = DOMAIN queue
    /\ \A g \in DOMAIN queue : queue'[g].event = queue[g].event
    /\ files' \in [Mirror!Names -> Seq(Captured)] /\ head' \in [Mirror!Names -> Nat]
    /\ \A f \in Mirror!Names : head'[f] <= Len(files'[f])
    /\ FilesGrow

LEMMA CallTypes ==
    ASSUME MirrorInv, NEW p \in Flushers, NEW now, CallStep(p, now)
    PROVE  MirrorTypes' /\ flush'[p] = now
<1>1. flush' \in [Flushers -> FlushCall] /\ flush'[p] = now
  BY DEF MirrorInv, MirrorTypes, CallStep
<1> QED
  BY <1>1 DEF MirrorInv, MirrorTypes, CallStep

LEMMA CallKeeps ==
    ASSUME MirrorInv, NEW p \in Flushers, NEW now, CallStep(p, now), BatchOK(p)', MarkedOK'
    PROVE  MirrorInv'
<1>1. MirrorTypes' /\ FilesGrow
  BY CallTypes DEF CallStep
<1>2. ASSUME NEW q \in Flushers PROVE BatchOK(q)'
  <2>1. CASE q = p
    BY <2>1
  <2>2. CASE q # p
    <3>1. flush'[q] = flush[q]
      BY <2>2 DEF MirrorInv, MirrorTypes, CallStep
    <3>2. phase' \in {phase, "up"}
      BY DEF CallStep
    <3>3. \A g \in DOMAIN queue : g \in DOMAIN queue' /\ queue'[g].event = queue[g].event
      BY DEF CallStep
    <3> QED
      BY <1>1, <3>1, <3>2, <3>3, OtherCalls
  <2> QED
    BY <2>1, <2>2
<1>3. RowPerEvent' /\ Mirror!LogOnce'
  <2>1. queue \in Seq(QueueRow) /\ queue' \in Seq(QueueRow) /\ DOMAIN queue' = DOMAIN queue
    BY DEF MirrorInv, MirrorTypes, CallStep
  <2>2. Len(queue') = Len(queue)
    BY <2>1
  <2> QED
    BY <2>1, <2>2 DEF MirrorInv, RowPerEvent, Mirror!LogOnce, CallStep
<1>4. BeforeOK'
  <2>1. \A k \in DOMAIN before : InAFile(before[k])'
    BY <1>1, LinesStay DEF MirrorInv, BeforeOK, CallStep, InAFile
  <2> QED
    BY <2>1 DEF MirrorInv, BeforeOK, CallStep
<1> QED
  BY <1>1, <1>2, <1>3, <1>4 DEF MirrorInv, CallStep

\* A step that leaves the rows and the files as they are.
LEMMA FilesRest ==
    ASSUME MirrorInv, UNCHANGED <<queue, files, head>>
    PROVE  /\ FilesGrow /\ MarkedOK'
           /\ queue' \in Seq(QueueRow) /\ DOMAIN queue' = DOMAIN queue
           /\ \A g \in DOMAIN queue : queue'[g].event = queue[g].event
           /\ files' \in [Mirror!Names -> Seq(Captured)] /\ head' \in [Mirror!Names -> Nat]
           /\ \A f \in Mirror!Names : head'[f] <= Len(files'[f])
<1>1. MarkedOK'
  BY DEF MirrorInv, MarkedOK, InHead, InAFile, LineOf
<1>2. FilesGrow
  BY DEF MirrorInv, MirrorTypes, FilesGrow
<1> QED
  BY <1>1, <1>2 DEF MirrorInv, MirrorTypes

LEMMA PendingRows ==
    ASSUME MirrorInv
    PROVE  Mirror!Pending \in SUBSET Nat /\ Mirror!Pending \subseteq DOMAIN queue
           /\ DOMAIN queue \in SUBSET Nat /\ IsFiniteSet(DOMAIN queue)
<1>1. queue \in Seq(QueueRow)
  BY DEF MirrorInv, MirrorTypes
<1>2. DOMAIN queue = 1 .. Len(queue) /\ Len(queue) \in Nat
  BY <1>1
<1>3. IsFiniteSet(1 .. Len(queue))
  BY <1>2, FS_Interval
<1> QED
  BY <1>2, <1>3 DEF Mirror!Pending

LEMMA FlushReadMirror ==
    ASSUME MirrorSizes, MirrorInv, NEW p \in Flushers, Mirror!FlushRead(p)
    PROVE  MirrorInv'
<1> DEFINE batch == Mirror!Lowest(Mirror!Pending, BatchRows)
           now == [flush[p] EXCEPT !.at = "write", !.rows = batch, !.todo = batch,
                                    !.wrote = {}, !.batches = flush[p].batches + 1]
<1>1. /\ phase = "up" /\ flush[p].at \in {"idle", "more"} /\ Mirror!Pending # {}
      /\ flush' = [flush EXCEPT ![p] = now]
      /\ UNCHANGED <<captured, minute, queue, files, head, clock, phase, before, stops, losses>>
  BY DEF Mirror!FlushRead, Mirror!database, Mirror!mirror, Mirror!bounds
<1>2. Mirror!Pending \in SUBSET Nat /\ Mirror!Pending \subseteq DOMAIN queue
  BY PendingRows
<1>3. batch \subseteq Mirror!Pending
  BY DEF Mirror!Lowest
<1>4. batch # {}
  <2>1. PICK g \in Mirror!Pending : \A h \in Mirror!Pending : g <= h
    BY <1>1, <1>2, LeastNumber
  <2>2. {h \in Mirror!Pending : h < g} = {}
    <3>1. \A h \in Mirror!Pending : h \in Nat /\ g \in Nat /\ ~(h < g)
      BY <1>2, <2>1
    <3> QED
      BY <3>1
  <2>3. Mirror!Rank(Mirror!Pending, g) = 0
    BY <2>2, SameNumber, FS_EmptySet DEF Mirror!Rank
  <2>4. g \in batch
    BY <2>3 DEF Mirror!Lowest, MirrorSizes
  <2> QED
    BY <2>4
<1>5. BatchOK(p) /\ flush[p] \in FlushCall
  BY DEF MirrorInv, MirrorTypes
<1>6. flush[p].batches + 1 <= MaxBatches /\ flush[p].batches + 1 \in Nat
  <2>1. flush[p].batches \in Nat /\ flush[p].batches < MaxBatches
    BY <1>1, <1>5 DEF BatchOK, FlushCall, MirrorSizes
  <2> QED
    BY <2>1 DEF MirrorSizes
<1>7. batch \in SUBSET Nat /\ batch \subseteq DOMAIN queue
  BY <1>2, <1>3
<1> HIDE DEF batch
<1>8. ASSUME NEW n \in Nat, NEW c \in FlushCall
      PROVE  /\ [c EXCEPT !.at = "write", !.rows = batch, !.todo = batch, !.wrote = {},
                          !.batches = n] \in FlushCall
             /\ [c EXCEPT !.at = "write", !.rows = batch, !.todo = batch, !.wrote = {},
                          !.batches = n].at = "write"
             /\ [c EXCEPT !.at = "write", !.rows = batch, !.todo = batch, !.wrote = {},
                          !.batches = n].rows = batch
             /\ [c EXCEPT !.at = "write", !.rows = batch, !.todo = batch, !.wrote = {},
                          !.batches = n].todo = batch
             /\ [c EXCEPT !.at = "write", !.rows = batch, !.todo = batch, !.wrote = {},
                          !.batches = n].batches = n
  BY <1>7 DEF FlushCall
<1>9. /\ now \in FlushCall /\ now.at = "write" /\ now.rows = batch /\ now.todo = batch
      /\ now.batches = flush[p].batches + 1
  BY <1>5, <1>6, <1>8
<1> HIDE DEF now
<1>10. CallStep(p, now)
  BY <1>1, <1>9, FilesRest DEF CallStep, MirrorInv, MirrorTypes
<1>11. flush'[p] = now
  BY <1>10, CallTypes
<1>12. BatchOK(p)'
  BY <1>1, <1>4, <1>6, <1>7, <1>9, <1>11 DEF BatchOK
<1> QED
  BY <1>1, <1>10, <1>12, FilesRest, CallKeeps

LEMMA IdleCall ==
    /\ Mirror!Idle \in FlushCall /\ Mirror!Idle.at = "idle" /\ Mirror!Idle.batches = 0
    /\ Mirror!Idle.rows = {} /\ Mirror!Idle.todo = {}
BY DEF Mirror!Idle, FlushCall

LEMMA FlushEndMirror ==
    ASSUME MirrorSizes, MirrorInv, NEW p \in Flushers, Mirror!FlushEnd(p)
    PROVE  MirrorInv'
<1>1. /\ flush' = [flush EXCEPT ![p] = Mirror!Idle]
      /\ UNCHANGED <<captured, minute, queue, files, head, clock, phase, before, stops, losses>>
  BY DEF Mirror!FlushEnd, Mirror!database, Mirror!mirror, Mirror!bounds
<1>2. CallStep(p, Mirror!Idle)
  BY <1>1, IdleCall, FilesRest DEF CallStep, MirrorInv, MirrorTypes
<1>3. flush'[p] = Mirror!Idle
  BY <1>2, CallTypes
<1>4. BatchOK(p)'
  BY <1>1, <1>3, IdleCall DEF BatchOK, MirrorSizes
<1> QED
  BY <1>1, <1>2, <1>4, FilesRest, CallKeeps


\* In a file of whole lines a batch follows them.
LEMMA Extended ==
    ASSUME NEW a \in Seq(Captured), NEW b \in Seq(Captured)
    PROVE  Mirror!Extend(a, b) = a \o b
<1>1. CASE a # <<>>
  <2>1. Len(a) \in DOMAIN a
    BY <1>1
  <2>2. a[Len(a)] \in Captured
    BY <2>1
  <2>3. \A e \in Captured : e # Mirror!Torn
    BY DEF Captured, Mirror!EventIds, Mirror!Torn
  <2>4. Mirror!Last(a) # Mirror!Torn
    BY <2>2, <2>3 DEF Mirror!Last
  <2> QED
    BY <2>4 DEF Mirror!Extend
<1>2. CASE a = <<>>
  BY <1>2 DEF Mirror!Extend
<1> QED
  BY <1>1, <1>2

\* The lines of a group go to one file, and all rows of the group are in them.
LEMMA GroupLines ==
    ASSUME MirrorSizes, MirrorInv, NEW p \in Flushers, flush[p].at = "write"
    PROVE  /\ Mirror!FileOf(p) \in Mirror!Names
           /\ Mirror!Lines(p) \in Seq(Captured)
           /\ Mirror!Group(p) \subseteq flush[p].todo
           /\ \A g \in Mirror!Group(p) : \E j \in DOMAIN Mirror!Lines(p) :
                 Mirror!Lines(p)[j] = queue[g].event
<1>1. BatchOK(p) /\ queue \in Seq(QueueRow)
  BY DEF MirrorInv, MirrorTypes
<1>2. flush[p].todo # {} /\ flush[p].todo \subseteq DOMAIN queue
  BY <1>1 DEF BatchOK
<1>3. Mirror!Earliest(flush[p].todo) \in flush[p].todo
  <2>1. flush[p].todo \in SUBSET Nat
    BY <1>2, PendingRows
  <2>2. \E g \in flush[p].todo : \A h \in flush[p].todo : g <= h
    BY <1>2, <2>1, LeastNumber
  <2> QED
    BY <2>2 DEF Mirror!Earliest
<1>4. Mirror!First(p) \in Captured
  <2>1. queue[Mirror!Earliest(flush[p].todo)] \in QueueRow
    BY <1>1, <1>2, <1>3
  <2> QED
    BY <2>1 DEF Mirror!First, Mirror!EventOf, QueueRow
<1>5. Mirror!FileOf(p) \in Mirror!Names
  BY <1>4 DEF Mirror!FileOf, Mirror!Names, MirrorInv, MirrorTypes, Captured
<1>6. Mirror!Group(p) \subseteq flush[p].todo
  BY DEF Mirror!Group
<1> DEFINE grouped == Mirror!At(queue, Mirror!Group(p))
<1>7. Mirror!Group(p) \in SUBSET (DOMAIN queue)
  BY <1>2, <1>6
<1>8. /\ grouped \in Seq(QueueRow)
      /\ \A i \in Mirror!Group(p) : \E j \in DOMAIN grouped : grouped[j] = queue[i]
  BY <1>1, <1>7, PickedAt
<1>9. Mirror!Lines(p) = [j \in DOMAIN grouped |-> grouped[j].event]
  BY DEF Mirror!Lines
<1> HIDE DEF grouped
<1>10. Mirror!Lines(p) \in Seq(Captured) /\ DOMAIN Mirror!Lines(p) = DOMAIN grouped
  <2>1. DOMAIN grouped = 1 .. Len(grouped) /\ Len(grouped) \in Nat /\ \A j \in 1 .. Len(grouped) : grouped[j] \in QueueRow
    BY <1>8
  <2>2. \A j \in 1 .. Len(grouped) : grouped[j].event \in Captured
    BY <2>1 DEF QueueRow
  <2> QED
    BY <1>9, <2>1, <2>2
<1>11. \A g \in Mirror!Group(p) : \E j \in DOMAIN Mirror!Lines(p) :
          Mirror!Lines(p)[j] = queue[g].event
  BY <1>8, <1>9, <1>10
<1> QED
  BY <1>5, <1>6, <1>10, <1>11

\* Lines at the end of one file.
LEMMA LinesAdded ==
    ASSUME MirrorInv, NEW F \in Mirror!Names, NEW more \in Seq(Captured),
           files' = [files EXCEPT ![F] = Mirror!Extend(@, more)], head' = head, queue' = queue
    PROVE  /\ FilesGrow /\ MarkedOK'
           /\ files' \in [Mirror!Names -> Seq(Captured)] /\ head' \in [Mirror!Names -> Nat]
           /\ \A f \in Mirror!Names : head'[f] <= Len(files'[f])
           /\ \A g : \A f \in Mirror!Names :
                 LineOf(queue[g].event, f) => LineOf(queue[g].event, f)'
           /\ \A g : \A j \in DOMAIN more :
                 more[j] = queue[g].event => LineOf(queue[g].event, F)'
<1>1. /\ files \in [Mirror!Names -> Seq(Captured)] /\ head \in [Mirror!Names -> Nat]
      /\ \A f \in Mirror!Names : head[f] <= Len(files[f])
  BY DEF MirrorInv, MirrorTypes
<1>2. files[F] \in Seq(Captured) /\ files'[F] = files[F] \o more
  BY <1>1, Extended
<1>3. /\ files[F] \o more \in Seq(Captured)
      /\ Joins(files[F], more, files[F] \o more)
  BY <1>2, Joined
<1>4. files' \in [Mirror!Names -> Seq(Captured)]
      /\ \A f \in Mirror!Names : f # F => files'[f] = files[f]
  BY <1>1, <1>2, <1>3
<1>5. \A f \in Mirror!Names :
         /\ Len(files[f]) \in Nat /\ Len(files'[f]) \in Nat /\ Len(files[f]) <= Len(files'[f])
         /\ \A k \in 1 .. Len(files[f]) : k \in DOMAIN files'[f] /\ files'[f][k] = files[f][k]
  <2> SUFFICES ASSUME NEW f \in Mirror!Names
               PROVE  /\ Len(files[f]) \in Nat /\ Len(files'[f]) \in Nat
                      /\ Len(files[f]) <= Len(files'[f])
                      /\ \A k \in 1 .. Len(files[f]) :
                            k \in DOMAIN files'[f] /\ files'[f][k] = files[f][k]
    OBVIOUS
  <2>1. CASE f = F
    BY <1>2, <1>3, <2>1 DEF Joins
  <2>2. CASE f # F
    BY <1>1, <1>4, <2>2
  <2> QED
    BY <2>1, <2>2
<1>6. FilesGrow
  BY <1>1, <1>5 DEF FilesGrow
<1>7. \A f \in Mirror!Names : head'[f] <= Len(files'[f])
  BY <1>1, <1>5
<1>8. \A f \in Mirror!Names : DOMAIN files[f] = 1 .. Len(files[f])
  BY <1>1
<1>9. \A f \in Mirror!Names : \A e : LineOf(e, f) => LineOf(e, f)'
  BY <1>5, <1>8 DEF LineOf
<1>10. \A f \in Mirror!Names : \A k \in 1 .. head[f] :
          k \in 1 .. head'[f] /\ files'[f][k] = files[f][k]
  BY <1>1, <1>5
<1>11. \A e : InHead(e) => InHead(e)'
  BY <1>10 DEF InHead
<1>12. \A e : InAFile(e) => InAFile(e)'
  BY <1>9 DEF InAFile
<1>13. MarkedOK'
  <2>1. \A g \in DOMAIN queue :
           /\ queue[g].mark = "committed" => InHead(queue[g].event)
           /\ queue[g].mark # "pending" => InAFile(queue[g].event)
    BY DEF MirrorInv, MarkedOK
  <2>2. \A g : InHead(queue[g].event) => InHead(queue[g].event)'
    BY <1>11 DEF InHead
  <2>3. \A g : InAFile(queue[g].event) => InAFile(queue[g].event)'
    BY <1>12 DEF InAFile, LineOf
  <2> QED
    BY <2>1, <2>2, <2>3 DEF MarkedOK
<1>14. ASSUME NEW j \in DOMAIN more PROVE LineOf(more[j], F)'
  <2>1. /\ Len(files[F]) \in Nat /\ Len(more) \in Nat /\ j \in 1 .. Len(more)
        /\ DOMAIN files'[F] = 1 .. Len(files[F]) + Len(more)
    BY <1>2, <1>3 DEF Joins
  <2> DEFINE k == Len(files[F]) + j
  <2>2. k \in DOMAIN files'[F] /\ k \notin 1 .. Len(files[F]) /\ k - Len(files[F]) = j
    BY <2>1
  <2>3. files'[F][k] = more[j]
    BY <1>2, <1>3, <2>2 DEF Joins
  <2> QED
    BY <2>2, <2>3 DEF LineOf
<1>15. head' \in [Mirror!Names -> Nat]
  BY <1>1
<1>16. ASSUME NEW g, NEW f \in Mirror!Names, LineOf(queue[g].event, f)
       PROVE  LineOf(queue[g].event, f)'
  BY <1>5, <1>8, <1>16 DEF LineOf
<1>17. ASSUME NEW g, NEW j \in DOMAIN more, more[j] = queue[g].event
       PROVE  LineOf(queue[g].event, F)'
  BY <1>14, <1>17 DEF LineOf
<1> QED
  BY <1>4, <1>6, <1>7, <1>13, <1>15, <1>16, <1>17

LEMMA FlushWriteMirror ==
    ASSUME MirrorSizes, MirrorInv, NEW p \in Flushers, Mirror!FlushWrite(p)
    PROVE  MirrorInv'
<1>0. PICK F \in Mirror!Names : F = Mirror!FileOf(p)
  BY GroupLines DEF Mirror!FlushWrite
<1> DEFINE G == Mirror!Group(p)
           next == IF flush[p].todo = G THEN "git" ELSE "write"
           wrote == flush[p].wrote \cup {F}
           todo == flush[p].todo \ G
           Goes(c, at, w, t) == [c EXCEPT !.at = at, !.wrote = w, !.todo = t]
           now == Goes(flush[p], next, wrote, todo)
<1>1. /\ flush[p].at = "write"
      /\ files' = [files EXCEPT ![F] = Mirror!Extend(@, Mirror!Lines(p))]
      /\ flush' = [flush EXCEPT ![p] = now]
      /\ UNCHANGED <<captured, minute, queue, head, clock, phase, before, stops, losses>>
  BY <1>0 DEF Mirror!FlushWrite, Mirror!database, Mirror!bounds
<1>2. /\ F \in Mirror!Names /\ Mirror!Lines(p) \in Seq(Captured)
      /\ G \subseteq flush[p].todo
      /\ \A g \in G : \E j \in DOMAIN Mirror!Lines(p) : Mirror!Lines(p)[j] = queue[g].event
  BY <1>0, <1>1, GroupLines
<1> HIDE DEF G
<1>3. BatchOK(p) /\ flush[p] \in FlushCall
  BY DEF MirrorInv, MirrorTypes
<1>4. ASSUME NEW c \in FlushCall, NEW at \in {"git", "write"},
             NEW w \in SUBSET Mirror!Names, NEW t \in SUBSET Nat
      PROVE  /\ Goes(c, at, w, t) \in FlushCall
             /\ Goes(c, at, w, t).at = at /\ Goes(c, at, w, t).wrote = w
             /\ Goes(c, at, w, t).todo = t /\ Goes(c, at, w, t).rows = c.rows
             /\ Goes(c, at, w, t).batches = c.batches
  BY DEF FlushCall
<1>5. /\ next \in {"git", "write"} /\ (next = "git" <=> todo = {})
      /\ wrote \in SUBSET Mirror!Names /\ todo \in SUBSET Nat
  <2>1. flush[p].wrote \in SUBSET Mirror!Names /\ flush[p].todo \in SUBSET Nat
    BY <1>3 DEF FlushCall
  <2>2. flush[p].todo = G <=> todo = {}
    BY <1>2
  <2>3. next \in {"git", "write"} /\ (next = "git" <=> todo = {})
    BY <2>2
  <2> QED
    BY <1>2, <2>1, <2>3
<1> HIDE DEF next, Goes
<1>6. /\ now \in FlushCall /\ now.at = next /\ now.rows = flush[p].rows
      /\ now.todo = todo /\ now.wrote = wrote
      /\ now.batches = flush[p].batches
  BY <1>3, <1>4, <1>5
<1> HIDE DEF now
<1>7. /\ FilesGrow /\ MarkedOK'
      /\ files' \in [Mirror!Names -> Seq(Captured)] /\ head' \in [Mirror!Names -> Nat]
      /\ \A f \in Mirror!Names : head'[f] <= Len(files'[f])
      /\ \A g : \A f \in Mirror!Names :
            LineOf(queue[g].event, f) => LineOf(queue[g].event, f)'
      /\ \A g : \A j \in DOMAIN Mirror!Lines(p) :
            Mirror!Lines(p)[j] = queue[g].event => LineOf(queue[g].event, F)'
  <2>1. /\ files' = [files EXCEPT ![F] = Mirror!Extend(@, Mirror!Lines(p))]
        /\ head' = head /\ queue' = queue
    BY <1>1
  <2> QED
    BY <1>2, <2>1, LinesAdded
<1>8. CallStep(p, now)
  BY <1>1, <1>6, <1>7 DEF CallStep, MirrorInv, MirrorTypes
<1>9. flush'[p] = now
  BY <1>8, CallTypes
<1>10. ASSUME NEW g \in flush[p].rows \ todo
       PROVE  \E f \in wrote : LineOf(queue[g].event, f)'
  <2>1. CASE g \in G
    <3>1. LineOf(queue[g].event, F)'
      BY <1>2, <1>7, <2>1
    <3> QED
      BY <3>1
  <2>2. CASE g \notin G
    <3>1. PICK f \in flush[p].wrote : LineOf(queue[g].event, f)
      BY <1>1, <1>3, <2>2 DEF BatchOK
    <3>2. f \in Mirror!Names
      BY <1>3 DEF FlushCall
    <3>3. LineOf(queue[g].event, f) => LineOf(queue[g].event, f)'
      BY <1>7, <3>2
    <3> QED
      BY <3>1, <3>3
  <2> QED
    BY <2>1, <2>2
<1>11. BatchOK(p)'
  <2>1. phase' = "up" /\ DOMAIN queue' = DOMAIN queue
    BY <1>1, <1>3 DEF BatchOK
  <2>2. now.at \notin {"idle", "more", "mark"}
    BY <1>5, <1>6
  <2>3. /\ now.rows \subseteq DOMAIN queue /\ now.batches <= MaxBatches
        /\ now.todo \subseteq now.rows
    BY <1>3, <1>6 DEF BatchOK
  <2>4. \A g \in now.rows \ now.todo : \E f \in now.wrote : LineOf(queue[g].event, f)'
    BY <1>6, <1>10
  <2>5. (now.at = "write" => now.todo # {}) /\ (now.at \in {"git", "mark"} => now.todo = {})
    BY <1>5, <1>6
  <2> QED
    BY <1>9, <2>1, <2>2, <2>3, <2>4, <2>5 DEF BatchOK
<1> QED
  BY <1>7, <1>8, <1>11, CallKeeps


LEMMA CommittedMirror ==
    ASSUME MirrorSizes, MirrorInv, NEW p \in Flushers, Mirror!Committed(p)
    PROVE  MirrorInv'
<1> DEFINE Goes(c) == [c EXCEPT !.at = "mark"]
           now == Goes(flush[p])
<1>1. /\ flush[p].at = "git" /\ flush[p].usable
      /\ head' = [f \in Mirror!Names |->
                     IF f \in flush[p].wrote THEN Len(files[f]) ELSE head[f]]
      /\ UNCHANGED <<captured, minute, queue, files, clock, phase, before, stops, losses>>
  BY DEF Mirror!Committed, Mirror!Staged, Mirror!database, Mirror!bounds
<1>2. flush' = [flush EXCEPT ![p] = now]
  BY DEF Mirror!Committed, MirrorInv, MirrorTypes
<1>3. BatchOK(p) /\ flush[p] \in FlushCall
  BY DEF MirrorInv, MirrorTypes
<1>4. ASSUME NEW c \in FlushCall
      PROVE  /\ Goes(c) \in FlushCall /\ Goes(c).at = "mark" /\ Goes(c).rows = c.rows
             /\ Goes(c).todo = c.todo /\ Goes(c).wrote = c.wrote /\ Goes(c).batches = c.batches
  BY DEF FlushCall
<1> HIDE DEF Goes
<1>5. /\ now \in FlushCall /\ now.at = "mark" /\ now.rows = flush[p].rows
      /\ now.todo = flush[p].todo /\ now.wrote = flush[p].wrote
      /\ now.batches = flush[p].batches
  BY <1>3, <1>4
<1> HIDE DEF now
<1>6. /\ files \in [Mirror!Names -> Seq(Captured)] /\ head \in [Mirror!Names -> Nat]
      /\ \A f \in Mirror!Names : head[f] <= Len(files[f])
  BY DEF MirrorInv, MirrorTypes
<1>7. \A f \in Mirror!Names :
         Len(files[f]) \in Nat /\ head'[f] \in Nat /\ head[f] <= head'[f]
         /\ head'[f] <= Len(files[f])
  <2>1. \A f \in Mirror!Names : Len(files[f]) \in Nat /\ head[f] \in Nat
    BY <1>6
  <2> QED
    BY <1>1, <1>6, <2>1
<1>8. head' \in [Mirror!Names -> Nat]
  BY <1>1, <1>7
<1>9. FilesGrow
  BY <1>1, <1>6, <1>7 DEF FilesGrow
<1>10. CallStep(p, now)
  BY <1>1, <1>2, <1>5, <1>6, <1>7, <1>8, <1>9 DEF CallStep, MirrorInv, MirrorTypes
<1>11. MirrorTypes' /\ flush'[p] = now
  BY <1>10, CallTypes
<1>12. (\A e : InHead(e) => InHead(e)') /\ (\A e : InAFile(e) => InAFile(e)')
  BY <1>9, <1>11, LinesStay
<1>13. MarkedOK'
  <2>1. \A g \in DOMAIN queue :
           /\ queue[g].mark = "committed" => InHead(queue[g].event)
           /\ queue[g].mark # "pending" => InAFile(queue[g].event)
    BY DEF MirrorInv, MarkedOK
  <2>0. queue' = queue
    BY <1>1
  <2>2. \A g : InHead(queue[g].event) => InHead(queue[g].event)'
    BY <1>12, <2>0 DEF InHead
  <2>3. \A g : InAFile(queue[g].event) => InAFile(queue[g].event)'
    BY <1>12, <2>0 DEF InAFile, LineOf
  <2> QED
    BY <2>0, <2>1, <2>2, <2>3 DEF MarkedOK
<1>14. ASSUME NEW g \in flush[p].rows
       PROVE  InHead(queue[g].event)' /\ \E f \in flush[p].wrote : LineOf(queue[g].event, f)'
  <2>1. g \in flush[p].rows \ flush[p].todo
    BY <1>1, <1>3 DEF BatchOK
  <2>2. PICK f \in flush[p].wrote : LineOf(queue[g].event, f)
    BY <1>1, <1>3, <2>1 DEF BatchOK
  <2>3. f \in Mirror!Names
    BY <1>3 DEF FlushCall
  <2>4. PICK k \in DOMAIN files[f] : files[f][k] = queue[g].event
    BY <2>2 DEF LineOf
  <2>5. head'[f] = Len(files[f]) /\ DOMAIN files[f] = 1 .. Len(files[f])
    BY <1>1, <1>6, <2>3
  <2>6. queue' = queue /\ files' = files
    BY <1>1
  <2>7. InHead(queue[g].event)'
    BY <2>3, <2>4, <2>5, <2>6 DEF InHead
  <2>8. LineOf(queue[g].event, f)'
    BY <2>4, <2>6 DEF LineOf
  <2> QED
    BY <2>7, <2>8
<1>15. BatchOK(p)'
  <2>1. phase' = "up" /\ queue' = queue
    BY <1>1, <1>3 DEF BatchOK
  <2>2. /\ now.rows \subseteq DOMAIN queue /\ now.batches <= MaxBatches
        /\ now.todo \subseteq now.rows /\ now.todo = {}
    BY <1>1, <1>3, <1>5 DEF BatchOK
  <2>3. \A g \in now.rows : InHead(queue[g].event)'
    BY <1>5, <1>14
  <2>4. \A g \in now.rows \ now.todo : \E f \in now.wrote : LineOf(queue[g].event, f)'
    BY <1>5, <1>14
  <2> QED
    BY <1>5, <1>11, <2>1, <2>2, <2>3, <2>4 DEF BatchOK
<1> QED
  BY <1>10, <1>13, <1>15, CallKeeps

LEMMA UncommittedMirror ==
    ASSUME MirrorSizes, MirrorInv, NEW p \in Flushers, Mirror!Uncommitted(p)
    PROVE  MirrorInv'
<1> DEFINE Goes(c) == [c EXCEPT !.at = "mark", !.usable = FALSE]
           now == Goes(flush[p])
<1>1. /\ flush[p].at = "git"
      /\ UNCHANGED <<captured, minute, queue, files, head, clock, phase, before, stops, losses>>
  BY DEF Mirror!Uncommitted, Mirror!database, Mirror!mirror, Mirror!bounds
<1>2. flush' = [flush EXCEPT ![p] = now]
  BY DEF Mirror!Uncommitted, MirrorInv, MirrorTypes
<1>3. BatchOK(p) /\ flush[p] \in FlushCall
  BY DEF MirrorInv, MirrorTypes
<1>4. ASSUME NEW c \in FlushCall
      PROVE  /\ Goes(c) \in FlushCall /\ Goes(c).at = "mark" /\ Goes(c).rows = c.rows
             /\ Goes(c).todo = c.todo /\ Goes(c).wrote = c.wrote /\ Goes(c).batches = c.batches
             /\ Goes(c).usable = FALSE
  BY DEF FlushCall
<1> HIDE DEF Goes
<1>5. /\ now \in FlushCall /\ now.at = "mark" /\ now.rows = flush[p].rows
      /\ now.todo = flush[p].todo /\ now.wrote = flush[p].wrote
      /\ now.batches = flush[p].batches /\ now.usable = FALSE
  BY <1>3, <1>4
<1> HIDE DEF now
<1>6. CallStep(p, now)
  BY <1>1, <1>2, <1>5, FilesRest DEF CallStep, MirrorInv, MirrorTypes
<1>7. flush'[p] = now
  BY <1>6, CallTypes
<1>8. BatchOK(p)'
  <2>1. phase' = "up" /\ queue' = queue /\ files' = files
    BY <1>1, <1>3 DEF BatchOK
  <2>2. /\ now.rows \subseteq DOMAIN queue /\ now.batches <= MaxBatches
        /\ now.todo \subseteq now.rows /\ now.todo = {}
    BY <1>1, <1>3, <1>5 DEF BatchOK
  <2>3. \A g \in now.rows \ now.todo : \E f \in now.wrote : LineOf(queue[g].event, f)'
    <3>1. \A g \in now.rows \ now.todo : \E f \in now.wrote : LineOf(queue[g].event, f)
      BY <1>1, <1>3, <1>5 DEF BatchOK
    <3> QED
      BY <2>1, <3>1 DEF LineOf
  <2> QED
    BY <1>5, <1>7, <2>1, <2>2, <2>3 DEF BatchOK
<1> QED
  BY <1>1, <1>6, <1>8, FilesRest, CallKeeps

LEMMA FlushMarkMirror ==
    ASSUME MirrorSizes, MirrorInv, NEW p \in Flushers, Mirror!FlushMark(p)
    PROVE  MirrorInv'
<1> DEFINE Goes(c) == [c EXCEPT !.at = "more"]
           mark == IF flush[p].usable THEN "committed" ELSE "uncommitted"
           now == IF Mirror!GoesOn(p) THEN Goes(flush[p]) ELSE Mirror!Idle
<1>1. /\ flush[p].at = "mark"
      /\ queue' = Mirror!Marked(p, mark)
      /\ flush' = [flush EXCEPT ![p] = now]
      /\ UNCHANGED <<captured, minute, files, head, clock, phase, before, stops, losses>>
  BY DEF Mirror!FlushMark, Mirror!mirror, Mirror!bounds
<1>2. BatchOK(p) /\ flush[p] \in FlushCall /\ queue \in Seq(QueueRow)
  BY DEF MirrorInv, MirrorTypes
<1>3. ASSUME NEW c \in FlushCall
      PROVE  /\ Goes(c) \in FlushCall /\ Goes(c).at = "more" /\ Goes(c).rows = c.rows
             /\ Goes(c).todo = c.todo /\ Goes(c).wrote = c.wrote /\ Goes(c).batches = c.batches
  BY DEF FlushCall
<1> HIDE DEF Goes
<1>4. /\ now \in FlushCall /\ now.at \in {"idle", "more"}
      /\ now.rows \subseteq flush[p].rows /\ now.todo \subseteq now.rows
      /\ now.batches <= MaxBatches
      /\ now.at = "more" => now.batches < MaxBatches
      /\ now.at = "idle" => now.batches = 0
  <2>1. CASE Mirror!GoesOn(p)
    <3>1. now = Goes(flush[p]) /\ flush[p].batches < MaxBatches
      BY <2>1 DEF Mirror!GoesOn
    <3>2. flush[p].todo \subseteq flush[p].rows /\ flush[p].batches <= MaxBatches
      BY <1>2 DEF BatchOK
    <3> QED
      BY <1>2, <1>3, <3>1, <3>2
  <2>2. CASE ~Mirror!GoesOn(p)
    <3>1. now = Mirror!Idle
      BY <2>2
    <3> QED
      BY <3>1, IdleCall DEF MirrorSizes
  <2> QED
    BY <2>1, <2>2
<1> HIDE DEF now
<1>5. ASSUME NEW r \in QueueRow
      PROVE  /\ [r EXCEPT !.mark = mark] \in QueueRow
             /\ [r EXCEPT !.mark = mark].event = r.event
             /\ [r EXCEPT !.mark = mark].mark = mark
  BY DEF QueueRow
<1>6. DOMAIN queue = 1 .. Len(queue) /\ Len(queue) \in Nat /\ \A g \in DOMAIN queue : queue[g] \in QueueRow
  BY <1>2
<1>7. /\ DOMAIN queue' = DOMAIN queue
      /\ \A g \in DOMAIN queue :
            /\ queue'[g] \in QueueRow /\ queue'[g].event = queue[g].event
            /\ g \in flush[p].rows => queue'[g].mark = mark
            /\ g \notin flush[p].rows => queue'[g] = queue[g]
  <2>1. queue' = [g \in DOMAIN queue |->
                     IF g \in flush[p].rows THEN [queue[g] EXCEPT !.mark = mark] ELSE queue[g]]
    BY <1>1 DEF Mirror!Marked
  <2> HIDE DEF mark
  <2> QED
    BY <1>5, <1>6, <2>1
<1>8. queue' \in Seq(QueueRow)
  <2>1. queue' = [g \in 1 .. Len(queue) |-> queue'[g]]
    BY <1>1, <1>6 DEF Mirror!Marked
  <2> QED
    BY <1>6, <1>7, <2>1
<1>9. MarkedOK'
  <2>1. files' = files /\ head' = head
    BY <1>1
  <2>2. ASSUME NEW g \in DOMAIN queue, queue'[g].mark = "committed"
        PROVE  InHead(queue[g].event)
    <3>1. CASE g \in flush[p].rows
      <4>1. mark = "committed"
        BY <1>7, <2>2, <3>1
      <4>2. flush[p].usable
        BY <4>1
      <4> QED
        BY <1>1, <1>2, <3>1, <4>2 DEF BatchOK
    <3>2. CASE g \notin flush[p].rows
      BY <1>7, <2>2, <3>2 DEF MirrorInv, MarkedOK
    <3> QED
      BY <3>1, <3>2
  <2>3. ASSUME NEW g \in DOMAIN queue, queue'[g].mark # "pending"
        PROVE  InAFile(queue[g].event)
    <3>1. CASE g \in flush[p].rows
      <4>1. g \in flush[p].rows \ flush[p].todo
        BY <1>1, <1>2, <3>1 DEF BatchOK
      <4>2. PICK f \in flush[p].wrote : LineOf(queue[g].event, f)
        BY <1>1, <1>2, <4>1 DEF BatchOK
      <4>3. f \in Mirror!Names
        BY <1>2 DEF FlushCall
      <4> QED
        BY <4>2, <4>3 DEF InAFile
    <3>2. CASE g \notin flush[p].rows
      BY <1>7, <2>3, <3>2 DEF MirrorInv, MarkedOK
    <3> QED
      BY <3>1, <3>2
  <2>4. \A g \in DOMAIN queue :
           /\ InHead(queue[g].event) => InHead(queue[g].event)'
           /\ InAFile(queue[g].event) => InAFile(queue[g].event)'
    BY <1>7, <2>1 DEF InHead, InAFile, LineOf
  <2> QED
    BY <1>7, <2>2, <2>3, <2>4 DEF MarkedOK
<1>10. FilesGrow /\ (\A f \in Mirror!Names : head'[f] <= Len(files'[f]))
  BY <1>1 DEF MirrorInv, MirrorTypes, FilesGrow
<1>11. CallStep(p, now)
  BY <1>1, <1>4, <1>7, <1>8, <1>10 DEF CallStep, MirrorInv, MirrorTypes
<1>12. flush'[p] = now
  BY <1>11, CallTypes
<1>13. BatchOK(p)'
  <2>1. now.rows \subseteq DOMAIN queue'
    BY <1>2, <1>4, <1>7 DEF BatchOK
  <2>2. now.at \notin {"write", "git", "mark"}
    BY <1>4
  <2> QED
    BY <1>4, <1>12, <2>1, <2>2 DEF BatchOK
<1> QED
  BY <1>9, <1>11, <1>13, CallKeeps

\* What a call leaves that dies in the middle of a batch are whole lines of it.
LEMMA CrashMirror ==
    ASSUME MirrorSizes, ~Tearing, MirrorInv, NEW p \in Flushers, Mirror!Crash(p)
    PROVE  MirrorInv'
<1>1. /\ flush' = [flush EXCEPT ![p] = Mirror!Idle]
      /\ stops < MaxStops /\ stops' = stops + 1
      /\ UNCHANGED <<captured, minute, queue, head, clock, phase, before, losses>>
  BY DEF Mirror!Crash, Mirror!database
<1>2. stops' \in 0 .. MaxStops
  BY <1>1 DEF MirrorInv, MirrorTypes, MirrorSizes
<1>3. /\ FilesGrow /\ MarkedOK'
      /\ files' \in [Mirror!Names -> Seq(Captured)] /\ head' \in [Mirror!Names -> Nat]
      /\ \A f \in Mirror!Names : head'[f] <= Len(files'[f])
  <2>1. CASE flush[p].at = "write"
    <3>1. PICK part \in Mirror!Remains(p) :
             files' = [files EXCEPT ![Mirror!FileOf(p)] = Mirror!Extend(@, part)]
      BY <2>1 DEF Mirror!Crash
    <3>2. Mirror!FileOf(p) \in Mirror!Names /\ Mirror!Lines(p) \in Seq(Captured)
      BY <2>1, GroupLines
    <3>3. PICK k \in 0 .. Len(Mirror!Lines(p)) : part = SubSeq(Mirror!Lines(p), 1, k)
      BY <3>1 DEF Mirror!Remains
    <3>4. part \in Seq(Captured)
      BY <3>2, <3>3
    <3>5. head' = head /\ queue' = queue
      BY <1>1
    <3> QED
      BY <3>1, <3>2, <3>4, <3>5, LinesAdded
  <2>2. CASE flush[p].at # "write"
    BY <1>1, <2>2, FilesRest DEF Mirror!Crash
  <2> QED
    BY <2>1, <2>2
<1>4. CallStep(p, Mirror!Idle)
  BY <1>1, <1>2, <1>3, IdleCall DEF CallStep, MirrorInv, MirrorTypes
<1>5. flush'[p] = Mirror!Idle
  BY <1>4, CallTypes
<1>6. BatchOK(p)'
  BY <1>1, <1>5, IdleCall DEF BatchOK, MirrorSizes
<1> QED
  BY <1>3, <1>4, <1>6, CallKeeps


LEMMA DiskLossMirror ==
    ASSUME MirrorSizes, MirrorInv, Mirror!DiskLoss
    PROVE  MirrorInv'
<1> DEFINE marked == {k \in DOMAIN captured : captured[k] \in Mirror!Flushed}
<1>1. /\ phase' = "lost" /\ losses < MaxLosses /\ losses' = losses + 1
      /\ before' = Mirror!At(captured, marked)
      /\ captured' = <<>> /\ queue' = <<>>
      /\ minute' = [e \in Mirror!EventIds |-> IF Mirror!InSomeFile(e) THEN minute[e] ELSE 0]
      /\ flush' = [p \in Flushers |-> Mirror!Idle]
      /\ UNCHANGED <<files, head, clock, stops>>
  BY DEF Mirror!DiskLoss, Mirror!mirror
<1>2. captured \in Seq(Captured) /\ queue \in Seq(QueueRow) /\ marked \in SUBSET (DOMAIN captured)
  BY DEF MirrorInv, MirrorTypes
<1>3. /\ before' \in Seq(Captured)
      /\ \A j \in DOMAIN before' : \E i \in marked : before'[j] = captured[i]
  <2> HIDE DEF marked
  <2> QED
    BY <1>1, <1>2, PickedAt
<1>4. ASSUME NEW i \in marked PROVE InAFile(captured[i])
  <2>1. PICK g \in DOMAIN queue : queue[g].mark # "pending" /\ queue[g].event = captured[i]
    BY DEF Mirror!Flushed
  <2> QED
    BY <2>1 DEF MirrorInv, MarkedOK
<1> HIDE DEF marked
<1>5. \A j \in DOMAIN before' : \E i \in marked : before'[j] = captured[i] /\ InAFile(captured[i])
  BY <1>3, <1>4
<1>6. BeforeOK'
  BY <1>1, <1>5 DEF BeforeOK, InAFile, LineOf
<1>7. losses' \in 0 .. MaxLosses
  BY <1>1 DEF MirrorInv, MirrorTypes, MirrorSizes
<1>8. minute' \in [Captured -> Mirror!Minutes]
  <2>1. 0 \in Mirror!Minutes
    BY DEF MirrorSizes, Mirror!Minutes
  <2> QED
    BY <1>1, <2>1 DEF Captured, MirrorInv, MirrorTypes
<1>9. flush' \in [Flushers -> FlushCall]
  BY <1>1, IdleCall
<1>10. MirrorTypes'
  BY <1>1, <1>3, <1>7, <1>8, <1>9 DEF MirrorInv, MirrorTypes
<1>11. DOMAIN queue' = {} /\ DOMAIN captured' = {} /\ Len(queue') = Len(captured')
  BY <1>1
<1>12. \A p \in Flushers : BatchOK(p)'
  BY <1>1, IdleCall DEF BatchOK, MirrorSizes
<1>13. RowPerEvent' /\ Mirror!LogOnce' /\ MarkedOK'
  BY <1>11 DEF RowPerEvent, Mirror!LogOnce, MarkedOK
<1>14. \A f \in Mirror!Names : head'[f] <= Len(files'[f])
  BY <1>1 DEF MirrorInv
<1> QED
  BY <1>6, <1>10, <1>12, <1>13, <1>14 DEF MirrorInv

\* What a replay of some lines adds: their events that are new, each once.
LEMMA NewEventsHas ==
    ASSUME NEW lines \in Seq(Captured)
    PROVE  /\ Mirror!NewEvents(lines) \in Seq(Captured)
           /\ \A j, k \in DOMAIN Mirror!NewEvents(lines) :
                 Mirror!NewEvents(lines)[j] = Mirror!NewEvents(lines)[k] => j = k
           /\ \A k \in DOMAIN Mirror!NewEvents(lines) :
                 Mirror!NewEvents(lines)[k] \notin Mirror!Range(captured)
           /\ \A k \in DOMAIN lines :
                 \/ lines[k] \in Mirror!Range(captured)
                 \/ \E j \in DOMAIN Mirror!NewEvents(lines) :
                       Mirror!NewEvents(lines)[j] = lines[k]
<1> DEFINE ixs == {k \in DOMAIN lines : Mirror!IsNew(lines, k)}
           fresh == Mirror!NewEvents(lines)
<1>1. DOMAIN lines = 1 .. Len(lines) /\ Len(lines) \in Nat
  OBVIOUS
<1>2. \A k \in ixs : /\ k \in 1 .. Len(lines) /\ lines[k] \notin Mirror!Range(captured)
                     /\ \A j \in 1 .. k - 1 : lines[j] # lines[k]
  BY <1>1 DEF Mirror!IsNew
<1>3. \A i, k \in ixs : lines[i] = lines[k] => i = k
  <2> SUFFICES ASSUME NEW i \in ixs, NEW k \in ixs, lines[i] = lines[k], i # k PROVE FALSE
    OBVIOUS
  <2>1. i \in 1 .. k - 1 \/ k \in 1 .. i - 1
    BY <1>2
  <2> QED
    BY <1>2, <2>1
<1>4. ASSUME NEW k \in DOMAIN lines, lines[k] \notin Mirror!Range(captured)
      PROVE  \E i \in ixs : lines[i] = lines[k]
  <2> DEFINE same == {i \in DOMAIN lines : lines[i] = lines[k]}
  <2>1. same \in SUBSET Nat /\ same # {}
    BY <1>1
  <2>2. PICK i \in same : \A j \in same : i <= j
    <3> HIDE DEF same
    <3> QED
      BY <2>1, LeastNumber
  <2>3. \A j \in 1 .. i - 1 : lines[j] # lines[i]
    <3> SUFFICES ASSUME NEW j \in 1 .. i - 1, lines[j] = lines[i] PROVE FALSE
      OBVIOUS
    <3>1. i \in 1 .. Len(lines) /\ lines[i] = lines[k]
      BY <1>1, <2>2
    <3>2. j \in DOMAIN lines /\ ~(i <= j)
      BY <1>1, <3>1
    <3> QED
      BY <2>2, <3>1, <3>2
  <2>4. i \in ixs
    BY <1>4, <2>2, <2>3 DEF Mirror!IsNew
  <2> QED
    BY <2>2, <2>4
<1>5. ixs \in SUBSET (DOMAIN lines)
  OBVIOUS
<1>6. fresh = Mirror!At(lines, ixs)
  BY DEF Mirror!NewEvents
<1> HIDE DEF ixs, fresh
<1>7. /\ fresh \in Seq(Captured)
      /\ \A i \in ixs : \E j \in DOMAIN fresh : fresh[j] = lines[i]
      /\ \A j \in DOMAIN fresh : \E i \in ixs : fresh[j] = lines[i]
      /\ \A j, k \in DOMAIN fresh : fresh[j] = fresh[k] => j = k
  BY <1>3, <1>5, <1>6, PickedAt
<1>8. \A k \in DOMAIN fresh : fresh[k] \notin Mirror!Range(captured)
  BY <1>2, <1>7
<1>9. \A k \in DOMAIN lines :
         lines[k] \in Mirror!Range(captured) \/ \E j \in DOMAIN fresh : fresh[j] = lines[k]
  <2> SUFFICES ASSUME NEW k \in DOMAIN lines, lines[k] \notin Mirror!Range(captured)
               PROVE  \E j \in DOMAIN fresh : fresh[j] = lines[k]
    OBVIOUS
  <2>1. PICK i \in ixs : lines[i] = lines[k]
    BY <1>4
  <2> QED
    BY <1>7, <2>1
<1> QED
  BY <1>7, <1>8, <1>9 DEF fresh

LEMMA ReplayMirror ==
    ASSUME MirrorSizes, MirrorInv, NEW lines \in Seq(Captured), Mirror!ReplayLines(lines),
           phase = "lost",
           \/ phase' = "lost"
           \/ phase' = "up" /\ \A e : Mirror!InSomeFile(e) => e \in Mirror!Range(lines)
    PROVE  MirrorInv'
<1> DEFINE fresh == Mirror!NewEvents(lines)
<1>1. /\ captured' = captured \o fresh
      /\ queue' = queue \o [k \in DOMAIN fresh |-> [event |-> fresh[k], mark |-> "pending"]]
      /\ UNCHANGED <<minute, files, head, flush, clock, before, stops, losses>>
  BY DEF Mirror!ReplayLines, Mirror!mirror, Mirror!bounds
<1>2. /\ fresh \in Seq(Captured)
      /\ \A j, k \in DOMAIN fresh : fresh[j] = fresh[k] => j = k
      /\ \A k \in DOMAIN fresh : fresh[k] \notin Mirror!Range(captured)
      /\ \A k \in DOMAIN lines :
            lines[k] \in Mirror!Range(captured) \/ \E j \in DOMAIN fresh : fresh[j] = lines[k]
  BY NewEventsHas
<1> HIDE DEF fresh
<1>3. UNCHANGED <<files, head, flush, before>>
  BY <1>1
<1>4. /\ captured' \in Seq(Captured) /\ queue' \in Seq(QueueRow)
      /\ RowPerEvent' /\ Mirror!LogOnce' /\ MarkedOK'
      /\ \A g \in DOMAIN queue : g \in DOMAIN queue' /\ queue'[g].event = queue[g].event
      /\ \A j \in DOMAIN captured : j \in DOMAIN captured' /\ captured'[j] = captured[j]
      /\ \A k \in DOMAIN fresh : \E j \in DOMAIN captured' : captured'[j] = fresh[k]
  BY <1>1, <1>2, <1>3, RowsAdded
<1>5. MirrorTypes'
  BY <1>1, <1>4 DEF MirrorInv, MirrorTypes
<1>6. FilesGrow
  BY <1>1 DEF MirrorInv, MirrorTypes, FilesGrow
<1>7. \A p \in Flushers : BatchOK(p)'
  <2>1. phase' \in {phase, "up"}
    OBVIOUS
  <2> QED
    BY <1>1, <1>4, <1>5, <1>6, <2>1, OtherCalls
<1>8. BeforeOK'
  <2>1. \A k \in DOMAIN before : InAFile(before[k])
    BY DEF MirrorInv, BeforeOK
  <2>2. before' = before /\ files' = files
    BY <1>1
  <2>3. ASSUME phase' = "up", NEW k \in DOMAIN before
        PROVE  \E j \in DOMAIN captured' : captured'[j] = before[k]
    <3>1. Mirror!InSomeFile(before[k])
      BY <2>1 DEF InAFile, LineOf, Mirror!InSomeFile, Mirror!Range
    <3>2. PICK i \in DOMAIN lines : lines[i] = before[k]
      BY <2>3, <3>1 DEF Mirror!Range
    <3>3. CASE lines[i] \in Mirror!Range(captured)
      BY <1>4, <3>2, <3>3 DEF Mirror!Range
    <3>4. CASE \E j \in DOMAIN fresh : fresh[j] = lines[i]
      BY <1>4, <3>2, <3>4
    <3> QED
      BY <1>2, <3>3, <3>4
  <2> QED
    BY <2>1, <2>2, <2>3 DEF BeforeOK, InAFile, LineOf
<1>9. \A f \in Mirror!Names : head'[f] <= Len(files'[f])
  BY <1>1 DEF MirrorInv
<1> QED
  BY <1>4, <1>5, <1>7, <1>8, <1>9 DEF MirrorInv

LEMMA RestMirror ==
    ASSUME MirrorSizes, MirrorInv,
           \/ Mirror!MinutePasses
           \/ UNCHANGED Mirror!vars
    PROVE  MirrorInv'
<1>1. /\ UNCHANGED <<captured, minute, queue, files, head, flush, phase, before, stops, losses>>
      /\ clock' \in {clock, clock + 1} /\ (clock' # clock => clock < MaxMinute)
  BY DEF Mirror!MinutePasses, Mirror!vars, Mirror!database, Mirror!mirror, Mirror!bounds
<1>2. clock' \in Mirror!Minutes
  BY <1>1 DEF MirrorInv, MirrorTypes, Mirror!Minutes, MirrorSizes
<1>3. MirrorTypes'
  BY <1>1, <1>2 DEF MirrorInv, MirrorTypes
<1>4. \A p \in Flushers : BatchOK(p)'
  <2>1. \A p \in Flushers : BatchOK(p)
    BY DEF MirrorInv
  <2> QED
    BY <1>1, <2>1 DEF BatchOK, LineOf, InHead
<1>5. MarkedOK' /\ BeforeOK'
  BY <1>1, FilesRest DEF MirrorInv, BeforeOK, InAFile, LineOf
<1> QED
  BY <1>1, <1>3, <1>4, <1>5 DEF MirrorInv, RowPerEvent, Mirror!LogOnce

LEMMA MirrorStep ==
    ASSUME MirrorSizes, ~Tearing, MirrorInv, [Mirror!Next]_(Mirror!vars)
    PROVE  MirrorInv'
<1>1. CASE \E e \in Mirror!EventIds : Mirror!AppendEvent(e)
  BY <1>1, AppendMirror
<1>2. CASE \E p \in Flushers : Mirror!FlushStep(p)
  <2>1. PICK p \in Flushers : Mirror!FlushStep(p)
    BY <1>2
  <2> QED
    BY <2>1, FlushReadMirror, FlushEndMirror, FlushWriteMirror, CommittedMirror,
       UncommittedMirror, FlushMarkMirror DEF Mirror!FlushStep
<1>3. CASE \E p \in Flushers : Mirror!Crash(p)
  BY <1>3, CrashMirror
<1>4. CASE Mirror!DiskLoss
  BY <1>4, DiskLossMirror
<1>5. /\ Mirror!AllLines \in Seq(Captured) /\ Mirror!UpToUnreadable = Mirror!AllLines
      /\ Mirror!Range(Mirror!AllLines) = {e \in Captured : Mirror!InSomeFile(e)}
  <2>1. files \in [Mirror!Names -> Seq(Mirror!EventIds)]
    BY DEF MirrorInv, MirrorTypes, Captured
  <2> QED
    BY <2>1, EveryLine DEF Captured
<1>6. CASE Mirror!Replay
  <2>1. /\ phase = "lost" /\ phase' = "up" /\ Mirror!ReplayLines(Mirror!AllLines)
    BY <1>5, <1>6 DEF Mirror!Replay
  <2>2. \A e : Mirror!InSomeFile(e) => e \in Captured
    BY DEF Mirror!InSomeFile, Mirror!Range, MirrorInv, MirrorTypes
  <2>3. \A e : Mirror!InSomeFile(e) => e \in Mirror!Range(Mirror!AllLines)
    BY <1>5, <2>2
  <2> QED
    BY <1>5, <2>1, <2>3, ReplayMirror
<1>7. CASE Mirror!ReplayStopped
  <2>1. phase = "lost" /\ phase' = "lost"
    BY <1>7 DEF Mirror!ReplayStopped
  <2>2. PICK k \in DOMAIN Mirror!AllLines :
           Mirror!ReplayLines(SubSeq(Mirror!AllLines, 1, k))
    BY <1>5, <1>7 DEF Mirror!ReplayStopped
  <2>3. SubSeq(Mirror!AllLines, 1, k) \in Seq(Captured)
    BY <1>5, <2>2
  <2> QED
    BY <2>1, <2>2, <2>3, ReplayMirror
<1>8. CASE Mirror!MinutePasses \/ UNCHANGED Mirror!vars
  BY <1>8, RestMirror
<1> QED
  BY <1>1, <1>2, <1>3, <1>4, <1>6, <1>7, <1>8 DEF Mirror!Next

\* A log without an event twice is no longer than there are events.
LEMMA LogIsShort ==
    ASSUME MirrorSizes, MirrorInv
    PROVE  Len(captured) <= MaxEvents
<1> DEFINE n == Len(captured)
<1>1. captured \in Seq(Captured) /\ n \in Nat /\ DOMAIN captured = 1 .. n /\ MaxEvents \in Nat
  BY DEF MirrorInv, MirrorTypes, MirrorSizes
<1> HIDE DEF n
<1>2. captured \in [1 .. n -> 1 .. MaxEvents]
  BY <1>1 DEF Captured, Mirror!EventIds
<1>3. \A i, j \in 1 .. n : captured[i] = captured[j] => i = j
  BY <1>1 DEF MirrorInv, Mirror!LogOnce
<1>4. captured \in Injection(1 .. n, 1 .. MaxEvents)
  BY <1>2, <1>3 DEF Injection, IsInjective
<1>5. \A m \in Nat : IsFiniteSet(1 .. m) /\ Cardinality(1 .. m) = m
  <2> SUFFICES ASSUME NEW m \in Nat PROVE IsFiniteSet(1 .. m) /\ Cardinality(1 .. m) = m
    OBVIOUS
  <2>1. CASE m = 0
    <3>1. 1 .. m = {}
      BY <2>1
    <3> QED
      BY <2>1, <3>1, FS_EmptySet
  <2>2. CASE m # 0
    BY <2>2, FS_Interval
  <2> QED
    BY <2>1, <2>2
<1>6. Cardinality(1 .. n) <= Cardinality(1 .. MaxEvents)
  BY <1>1, <1>4, <1>5, FS_Injection
<1> QED
  BY <1>1, <1>5, <1>6 DEF n

LEMMA MirrorHolds ==
    ASSUME MirrorSizes, MirrorInv
    PROVE  /\ Mirror!TypeOK /\ Mirror!LogOnce /\ Mirror!CommittedInHead
           /\ Mirror!RecoveryComplete
<1>1. Mirror!CommittedInHead
  BY DEF MirrorInv, MarkedOK, InHead, Mirror!CommittedInHead, Mirror!EventOf
<1>2. Mirror!RecoveryComplete
  BY DEF MirrorInv, BeforeOK, Mirror!RecoveryComplete, Mirror!Range
<1>3. /\ captured \in Seq(Captured) /\ queue \in Seq(QueueRow) /\ Len(queue) <= MaxEvents
      /\ Len(captured) <= MaxEvents /\ DOMAIN queue \subseteq 1 .. MaxEvents
  <2>1. /\ captured \in Seq(Captured) /\ queue \in Seq(QueueRow) /\ Len(queue) = Len(captured)
        /\ Len(captured) <= MaxEvents
    BY LogIsShort DEF MirrorInv, MirrorTypes, RowPerEvent
  <2>2. DOMAIN queue = 1 .. Len(queue) /\ Len(queue) \in Nat /\ MaxEvents \in Nat
    BY <2>1 DEF MirrorSizes
  <2> QED
    BY <2>1, <2>2
<1>4. \A f \in Mirror!Names :
         /\ files[f] \in Seq(Mirror!EventIds \cup {Mirror!Torn, Mirror!Bad})
         /\ head[f] \in 0 .. Len(files[f])
  <2> SUFFICES ASSUME NEW f \in Mirror!Names
               PROVE  /\ files[f] \in Seq(Mirror!EventIds \cup {Mirror!Torn, Mirror!Bad})
                      /\ head[f] \in 0 .. Len(files[f])
    OBVIOUS
  <2>1. files[f] \in Seq(Captured) /\ head[f] \in Nat /\ head[f] <= Len(files[f])
    BY DEF MirrorInv, MirrorTypes
  <2>2. Len(files[f]) \in Nat /\ files[f] \in Seq(Captured \cup {Mirror!Torn, Mirror!Bad})
    BY <2>1
  <2> QED
    BY <2>1, <2>2 DEF Captured
<1>5. \A p \in Flushers : flush[p] \in Mirror!Flush /\ flush[p].rows \subseteq DOMAIN queue
  <2> SUFFICES ASSUME NEW p \in Flushers
               PROVE  flush[p] \in Mirror!Flush /\ flush[p].rows \subseteq DOMAIN queue
    OBVIOUS
  <2>1. flush[p] \in FlushCall /\ BatchOK(p)
    BY DEF MirrorInv, MirrorTypes
  <2>2. /\ flush[p].rows \subseteq DOMAIN queue /\ flush[p].todo \subseteq flush[p].rows
        /\ flush[p].batches \in 0 .. MaxBatches
    BY <2>1 DEF BatchOK, FlushCall, MirrorSizes
  <2>3. flush[p].rows \in SUBSET (1 .. MaxEvents) /\ flush[p].todo \in SUBSET (1 .. MaxEvents)
    BY <1>3, <2>2
  <2> QED
    BY <2>1, <2>2, <2>3 DEF FlushCall, Mirror!Flush
<1>6. files \in [Mirror!Names -> Seq(Mirror!EventIds \cup {Mirror!Torn, Mirror!Bad})]
  BY <1>4 DEF MirrorInv, MirrorTypes
<1>7. flush \in [Flushers -> Mirror!Flush]
  BY <1>5 DEF MirrorInv, MirrorTypes
<1>8. Mirror!TypeOK
  BY <1>3, <1>4, <1>5, <1>6, <1>7
     DEF MirrorInv, MirrorTypes, Mirror!TypeOK, Captured, QueueRow
<1> QED
  BY <1>1, <1>2, <1>8 DEF MirrorInv

\* While no crash cuts a line: no event is in the log twice, a row marked committed
\* is in HEAD whoever else flushed (gitmirror.py:5, store.py mark_git_flushed), and
\* after the file is lost a complete replay brings back every event marked before.
THEOREM MirrorBringsBack ==
    ASSUME MirrorSizes, ~Tearing
    PROVE  Mirror!Spec => []MirrorHonest
<1>1. Mirror!Init => MirrorInv
  BY MirrorStart
<1>2. MirrorInv /\ [Mirror!Next]_(Mirror!vars) => MirrorInv'
  BY MirrorStep
<1>3. MirrorInv => MirrorHonest
  BY MirrorHolds DEF MirrorHonest
<1> QED
  BY <1>1, <1>2, <1>3, PTL DEF Mirror!Spec

=============================================================================
