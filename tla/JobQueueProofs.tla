--------------------------- MODULE JobQueueProofs ---------------------------
(***************************************************************************)
(* Proofs about the queue of jobs, for every number of processes, threads  *)
(* and rows (JobQueue), and about one drain of it, for every budget and    *)
(* all shares (FairDrain).                                                 *)
(***************************************************************************)
EXTENDS QueueParts, FiniteSetTheorems, TLAPS

LEMMA BoundFacts ==
    /\ MaxId \in Nat /\ MaxCrashes \in Nat
    /\ AttemptBound \in Nat
    /\ 0 \in 0 .. AttemptBound /\ 0 \in 0 .. MaxId
    /\ \A n \in 0 .. AttemptBound : OneMore(n) \in 0 .. AttemptBound
BY ConstantsAssumption DEF ConstantsAssumption, AttemptBound, OneMore

LEMMA RowFacts ==
    /\ NoRow \in Row
    /\ \A w \in Works \cup {NoWork}, d \in 0 .. MaxId : FreshRow(w, d) \in Row
    /\ \A r \in Row, s \in Status, b \in BOOLEAN :
          [r EXCEPT !.status = s, !.due = b] \in Row
    /\ NoTxn \in Txn
<1>1. 0 \in 0 .. MaxId /\ 0 \in 0 .. AttemptBound
  BY BoundFacts
<1>2. NoRow \in Row
  BY <1>1 DEF Row, NoRow, Status
<1>3. ASSUME NEW w \in Works \cup {NoWork}, NEW d \in 0 .. MaxId
      PROVE  FreshRow(w, d) \in Row
  BY <1>1 DEF Row, FreshRow, Status
<1>4. ASSUME NEW r \in Row, NEW s \in Status, NEW b \in BOOLEAN
      PROVE  [r EXCEPT !.status = s, !.due = b] \in Row
  BY DEF Row
<1>5. NoTxn \in Txn
  BY <1>1 DEF Txn, NoTxn
<1> QED
  BY <1>2, <1>3, <1>4, <1>5

LEMMA TypeInit == Init => TypeOK
<1> SUFFICES ASSUME Init PROVE TypeOK
  OBVIOUS
<1>1. /\ 0 \in 0 .. MaxId /\ 0 \in 0 .. AttemptBound /\ 0 \in 0 .. MaxCrashes
      /\ 1 \in 1 .. MaxId + 1
  BY BoundFacts
<1>2. NoRow \in Row /\ NoTxn \in Txn
  BY RowFacts
<1> QED
  BY <1>1, <1>2 DEF Init, TypeOK, Owed

LEMMA TypeStep == TypeOK /\ [Next]_vars => TypeOK'
<1> SUFFICES ASSUME TypeOK, [Next]_vars PROVE TypeOK'
  OBVIOUS
<1>a. /\ MaxId \in Nat /\ MaxCrashes \in Nat /\ AttemptBound \in Nat
      /\ NoRow \in Row /\ NoTxn \in Txn
      /\ 0 \in 0 .. MaxId /\ 0 \in 0 .. AttemptBound
  BY BoundFacts, RowFacts
<1>d. \A i \in Ids : i \in 0 .. MaxId
  BY BoundFacts DEF Ids
<1>b. \A t \in Threads : /\ txn[t] \in Txn
                         /\ txn[t].row \in 0 .. MaxId /\ txn[t].dep \in 0 .. MaxId
                         /\ txn[t].work \in Works \cup {NoWork}
                         /\ txn[t].tries \in 0 .. AttemptBound
  BY DEF TypeOK, Txn
<1>c. \A i \in Ids : /\ jobs[i] \in Row /\ jobs[i].work \in Works \cup {NoWork}
                     /\ jobs[i].attempts \in 0 .. AttemptBound
  BY DEF TypeOK, Row
<1> USE <1>a
<1>1. ASSUME NEW t \in Threads, NEW w \in Works, EnqueueCollapsed(t, w) PROVE TypeOK'
  BY <1>1 DEF EnqueueCollapsed, TypeOK, Owed
<1>2. ASSUME NEW t \in Threads, NEW w \in Works, NEW d \in 0 .. MaxId,
             EnqueueProbe(t, w, d)
      PROVE TypeOK'
  <2> PICK r \in Rearmable(w) :
         txn' = [txn EXCEPT ![t] = [NoTxn EXCEPT !.op = "enqueue", !.work = w,
                                                 !.dep = d, !.row = r]]
    BY <1>2 DEF EnqueueProbe
  <2>1. r \in 0 .. MaxId
    <3>1. CASE w \in EmbedWorks /\ Finished(w) # {}
      BY <3>1 DEF Rearmable, Finished, Ids
    <3>2. CASE ~(w \in EmbedWorks /\ Finished(w) # {})
      BY <3>2 DEF Rearmable
    <3> QED
      BY <3>1, <3>2
  <2>2. [NoTxn EXCEPT !.op = "enqueue", !.work = w, !.dep = d, !.row = r] \in Txn
    BY <2>1 DEF NoTxn, Txn
  <2> QED
    BY <1>2, <2>2 DEF EnqueueProbe, TypeOK
<1>3. ASSUME NEW t \in Threads, EnqueueRearm(t) PROVE TypeOK'
  <2> DEFINE q == txn[t]
  <2>1. q.row \in Ids
    BY <1>3, <1>b DEF EnqueueRearm, Ids
  <2>2. jobs' \in [Ids -> Row]
    <3>1. \A i \in Ids : Rearmed(jobs[i]) \in Row
      BY <1>c DEF Row, Status, Rearmed
    <3> QED
      BY <1>3, <2>1, <1>c, <3>1 DEF EnqueueRearm, TypeOK
  <2>3. owed' \in [Works -> Owed]
    BY <1>3 DEF EnqueueRearm, Requested, TypeOK, Owed
  <2> QED
    BY <1>3, <2>2, <2>3 DEF EnqueueRearm, Ends, TypeOK
<1>4. ASSUME NEW t \in Threads, EnqueueInsert(t) PROVE TypeOK'
  <2> DEFINE q == txn[t]
  <2>2. FreshRow(q.work, q.dep) \in Row
    BY <1>b, RowFacts
  <2>3. jobs' \in [Ids -> Row] /\ nextId' \in 1 .. MaxId + 1
    <3>1. nextId \in Ids
      BY <1>4 DEF EnqueueInsert
    <3>2. jobs' = [jobs EXCEPT ![nextId] = FreshRow(q.work, q.dep)] /\ nextId' = nextId + 1
      BY <1>4 DEF EnqueueInsert
    <3> HIDE DEF q
    <3> QED
      BY <2>2, <3>1, <3>2 DEF TypeOK, Ids
  <2>4. owed' \in [Works -> Owed]
    BY <1>4 DEF EnqueueInsert, Requested, TypeOK, Owed
  <2> QED
    BY <1>4, <2>3, <2>4 DEF EnqueueInsert, Ends, TypeOK
<1>5. ASSUME NEW t \in Threads, EnqueueRefused(t) PROVE TypeOK'
  BY <1>5 DEF EnqueueRefused, Ends, TypeOK
<1>6. ASSUME NEW t \in Threads, NEW w \in Works, EnqueueInAppend(t, w) PROVE TypeOK'
  <2>1. nextId \in Ids
    BY <1>6 DEF EnqueueInAppend
  <2>2. FreshRow(w, 0) \in Row
    BY RowFacts
  <2>3. jobs' \in [Ids -> Row] /\ nextId' \in 1 .. MaxId + 1
    BY <1>6, <2>1, <2>2 DEF EnqueueInAppend, TypeOK, Ids
  <2> QED
    BY <1>6, <2>3 DEF EnqueueInAppend, Requested, TypeOK, Owed
<1>7. ASSUME NEW t \in Threads, ClaimProbe(t) PROVE TypeOK'
  <2> PICK i \in Ids, tasks \in Filters : ClaimRow(t, i, tasks)
    BY <1>7 DEF ClaimProbe
  <2>2. [NoTxn EXCEPT !.op = "claim", !.row = i, !.work = jobs[i].work,
                      !.tries = jobs[i].attempts] \in Txn
    BY <1>c, <1>d DEF NoTxn, Txn
  <2> QED
    BY <2>2 DEF ClaimRow, TypeOK
<1>8. ASSUME NEW t \in Threads, ClaimCommit(t) PROVE TypeOK'
  <2> DEFINE q == txn[t]
  <2>1. q.row \in 0 .. MaxId /\ q.tries \in 0 .. AttemptBound
    BY <1>b
  <2>2. jobs' \in [Ids -> Row]
    <3>1. \A i \in Ids : Claimed(jobs[i]) \in Row
      BY <1>c, BoundFacts DEF Row, Status, Claimed
    <3>2. jobs' = [jobs EXCEPT ![q.row] =
                     IF jobs[q.row].status = "absent" THEN jobs[q.row]
                     ELSE Claimed(jobs[q.row])]
      BY <1>8 DEF ClaimCommit
    <3> HIDE DEF q
    <3> QED
      BY <3>1, <3>2 DEF TypeOK
  <2> QED
    BY <1>8, <2>1, <2>2 DEF ClaimCommit, Ends, TypeOK, Owed
<1>9. ASSUME NEW t \in Threads, NEW s \in {"done", "failed", "pending"}, Settle(t, s)
      PROVE TypeOK'
  <2>1. jobs' \in [Ids -> Row]
    BY <1>9, <1>c, RowFacts DEF Settle, Moved, TypeOK, Status
  <2> QED
    BY <1>9, <2>1 DEF Settle, TypeOK
<1>10. ASSUME NEW t \in Threads, NEW lease \in {"builtin", "configured"},
              ReclaimProbe(t, lease)
       PROVE TypeOK'
  <2> DEFINE batch == Lowest(Stale(lease), ReclaimLimit)
             burnt == {i \in batch : jobs[i].attempts >= LeaseCap}
  <2>1. batch \subseteq Ids /\ burnt \subseteq Ids
    BY DEF Lowest, Stale
  <2>2. [NoTxn EXCEPT !.op = "reclaim", !.rows = batch, !.burnt = burnt] \in Txn
    BY <2>1 DEF NoTxn, Txn
  <2> QED
    BY <1>10, <2>2 DEF ReclaimProbe, TypeOK
<1>11. ASSUME NEW t \in Threads, ReclaimCommit(t) PROVE TypeOK'
  <2>1. jobs' \in [Ids -> Row]
    BY <1>11, <1>c, RowFacts DEF ReclaimCommit, TypeOK, Status
  <2> QED
    BY <1>11, <2>1 DEF ReclaimCommit, Ends, TypeOK
<1>12. ASSUME NEW t \in Threads, Prune(t) PROVE TypeOK'
  <2>1. jobs' \in [Ids -> Row]
    BY <1>12 DEF Prune, TypeOK
  <2> QED
    BY <1>12, <2>1 DEF Prune, TypeOK
<1>13. ASSUME NEW i \in Ids, TimePasses(i) PROVE TypeOK'
  BY <1>13 DEF TimePasses, TypeOK, Row
<1>14. ASSUME NEW p \in Procs, Crash(p) PROVE TypeOK'
  <2>1. crashes' \in 0 .. MaxCrashes
    BY <1>14 DEF Crash, TypeOK
  <2>2. txn' \in [Threads -> Txn] /\ held' \in [Threads -> 0 .. MaxId]
    BY <1>14 DEF Crash, TypeOK
  <2>3. tries' \in [Threads -> 0 .. AttemptBound]
    BY <1>14 DEF Crash, TypeOK
  <2> QED
    BY <1>14, <2>1, <2>2, <2>3 DEF Crash, TypeOK
<1>15. CASE UNCHANGED vars
  BY <1>15 DEF vars, TypeOK
<1> QED
  BY <1>1, <1>2, <1>3, <1>4, <1>5, <1>6, <1>7, <1>8, <1>9, <1>10, <1>11, <1>12,
     <1>13, <1>14, <1>15
     DEF Next, Enqueue, Run, Repair, Succeed, Fail, Defer

\* The table keeps its shape whatever the processes and threads interleave.
THEOREM TypeCorrect == Spec => []TypeOK
BY TypeInit, TypeStep, PTL DEF Spec

-----------------------------------------------------------------------------
(* One process: all the threads share the write lock, and none is so slow    *)
(* that the drain's lease ends under it.                                     *)

OneProcess ==
    /\ \A t, u \in Threads : ProcOf[t] = ProcOf[u]
    /\ SlowThreads = {}

LEMMA QueueInit == Init => QueueInv
<1> SUFFICES ASSUME Init PROVE QueueInv
  OBVIOUS
<1>1. \A i \in Ids : jobs[i].status = "absent"
  BY DEF Init, NoRow
<1>2. \A t \in Threads : txn[t].op = "none" /\ held[t] = 0
  BY DEF Init, NoTxn
<1>3. \A w \in Works : owed[w] = "no"
  BY DEF Init
<1> QED
  BY <1>1, <1>2, <1>3, TypeInit
     DEF QueueInv, OneWriter, EnqueueSnapshot, ClaimSnapshot, ReclaimSnapshot,
         LeaseHolds, FreeIds, ExclusiveRun, OneLiveRowPerWork, RequestKept, Live

\* Under one lock a transaction that begins is alone.
LEMMA Alone ==
    ASSUME OneProcess, NEW t \in Threads, CanBegin(t)
    PROVE  \A u \in Threads : txn[u].op = "none"
BY DEF OneProcess, CanBegin

\* What a step that touches only transactions must show.
LEMMA TxnStep ==
    ASSUME QueueInv, TypeOK', UNCHANGED <<jobs, nextId, held, owed>>,
           OneWriter', EnqueueSnapshot', ClaimSnapshot', ReclaimSnapshot'
    PROVE  QueueInv'
BY DEF QueueInv, LeaseHolds, FreeIds, ExclusiveRun, OneLiveRowPerWork, RequestKept, Live

\* A step that ends the only open transaction leaves no snapshot to preserve.
LEMMA NoneOpen ==
    ASSUME \A u \in Threads : txn'[u].op = "none"
    PROVE  OneWriter' /\ EnqueueSnapshot' /\ ClaimSnapshot' /\ ReclaimSnapshot'
BY DEF OneWriter, EnqueueSnapshot, ClaimSnapshot, ReclaimSnapshot

LEMMA EndsLast ==
    ASSUME TypeOK, OneWriter, NEW t \in Threads, txn[t].op # "none", Ends(t)
    PROVE  \A u \in Threads : txn'[u].op = "none"
BY DEF TypeOK, OneWriter, Ends, NoTxn

\* The table half of the invariant, named so that a step proves it at once.
TableInv ==
    /\ LeaseHolds /\ FreeIds
    /\ ExclusiveRun
    /\ OneLiveRowPerWork
    /\ RequestKept

LEMMA QueueInvSplit ==
    /\ QueueInv => TypeOK /\ OneWriter /\ EnqueueSnapshot /\ ClaimSnapshot
                   /\ ReclaimSnapshot /\ TableInv
    /\ TypeOK' /\ OneWriter' /\ EnqueueSnapshot' /\ ClaimSnapshot'
       /\ ReclaimSnapshot' /\ TableInv' => QueueInv'
BY DEF QueueInv, TableInv

\* A step that gives a row without a holder a new status.  The row is either new
\* or already live, or a lone pending row for its work.
LEMMA RowStep ==
    ASSUME QueueInv, NEW i \in Ids, UNCHANGED <<held, nextId>>,
           TypeOK', \A t \in Threads : held[t] # i,
           \A j \in Ids \ {i} : jobs'[j] = jobs[j],
           jobs[i].status # "absent" => jobs'[i].work = jobs[i].work,
           jobs'[i].status = "running" => ~jobs'[i].due,
           jobs[i].status = "absent" => jobs'[i].status = "absent",
           jobs'[i].status \in {"pending", "running"} =>
               Live(i) \/ \A j \in Ids : Live(j) => jobs[j].work # jobs'[i].work,
           \A w \in Works : owed'[w] = "yes" =>
               \/ jobs'[i].status = "pending" /\ jobs'[i].work = w
               \/ owed[w] = "yes" /\ (jobs[i].status # "pending" \/ jobs[i].work # w)
    PROVE  TableInv'
<1>0. /\ LeaseHolds /\ FreeIds /\ ExclusiveRun /\ OneLiveRowPerWork /\ RequestKept
      /\ TypeOK
  BY DEF QueueInv
<1>1. LeaseHolds'
  BY <1>0 DEF LeaseHolds
<1>2. FreeIds'
  BY <1>0 DEF FreeIds
<1>3. ExclusiveRun'
  BY <1>0 DEF ExclusiveRun, TypeOK, Ids
<1>4. OneLiveRowPerWork'
  BY <1>0 DEF OneLiveRowPerWork, Live
<1>5. RequestKept'
  BY <1>0 DEF RequestKept
<1> QED
  BY <1>1, <1>2, <1>3, <1>4, <1>5 DEF TableInv

LEMMA InsertStep ==
    ASSUME QueueInv, TypeOK', NEW w \in Works, NEW d, nextId \in Ids,
           \A j \in Ids : Live(j) => jobs[j].work # w,
           jobs' = [jobs EXCEPT ![nextId] = FreshRow(w, d)],
           nextId' = nextId + 1, UNCHANGED held, Requested(w)
    PROVE  TableInv'
<1>0. /\ LeaseHolds /\ FreeIds /\ ExclusiveRun /\ OneLiveRowPerWork /\ RequestKept
      /\ TypeOK /\ MaxId \in Nat
  BY BoundFacts DEF QueueInv
<1>1. /\ jobs'[nextId].status = "pending" /\ jobs'[nextId].work = w
      /\ \A j \in Ids \ {nextId} : jobs'[j] = jobs[j]
      /\ jobs[nextId].status = "absent"
  BY <1>0 DEF TypeOK, FreshRow, FreeIds, Ids
<1>2. \A v \in Works : owed'[v] = "yes" => v = w \/ owed[v] = "yes"
  BY <1>0 DEF Requested, TypeOK
<1>3. LeaseHolds'
  BY <1>0, <1>1 DEF LeaseHolds
<1>4. FreeIds'
  BY <1>0, <1>1 DEF FreeIds, Ids, TypeOK
<1>5. ExclusiveRun'
  <2>1. \A u \in Threads : held[u] # 0 => held[u] \in Ids \ {nextId}
    BY <1>0, <1>1 DEF ExclusiveRun, TypeOK, Ids
  <2> QED
    BY <1>0, <1>1, <2>1 DEF ExclusiveRun
<1>6. OneLiveRowPerWork'
  BY <1>0, <1>1 DEF OneLiveRowPerWork, Live
<1>7. RequestKept'
  BY <1>0, <1>1, <1>2 DEF RequestKept
<1> QED
  BY <1>3, <1>4, <1>5, <1>6, <1>7 DEF TableInv

LEMMA EnqueueStep ==
    ASSUME QueueInv, TypeOK', OneProcess, NEW t \in Threads, Enqueue(t)
    PROVE  QueueInv'
<1>0. /\ TypeOK /\ OneWriter /\ EnqueueSnapshot /\ FreeIds /\ ExclusiveRun /\ RequestKept
      /\ MaxId \in Nat
  BY BoundFacts DEF QueueInv
<1>1. ASSUME NEW w \in Works, EnqueueCollapsed(t, w) PROVE QueueInv'
  <2>1. RequestKept'
    <3> PICK i \in Twins(w) :
           owed' = [owed EXCEPT ![w] = IF jobs[i].status = "running" /\ @ # "yes"
                                       THEN "behind" ELSE "yes"]
      BY <1>1 DEF EnqueueCollapsed
    <3>1. i \in Ids /\ jobs[i].work = w /\ jobs[i].status \in {"pending", "running"}
      BY DEF Twins, Live
    <3>2. ASSUME NEW v \in Works, owed'[v] = "yes"
          PROVE  \E j \in Ids : jobs[j].status = "pending" /\ jobs[j].work = v
      BY <3>1, <3>2, <1>0 DEF RequestKept, TypeOK
    <3> QED
      BY <3>2, <1>1 DEF RequestKept, EnqueueCollapsed
  <2> QED
    BY <1>1, <2>1 DEF EnqueueCollapsed, QueueInv, OneWriter, EnqueueSnapshot,
       ClaimSnapshot, ReclaimSnapshot, LeaseHolds, FreeIds, ExclusiveRun,
       OneLiveRowPerWork, Live, Terminal
<1>2. ASSUME NEW w \in Works, NEW d \in 0 .. MaxId, EnqueueProbe(t, w, d) PROVE QueueInv'
  <2>1. \A u \in Threads : txn[u].op = "none"
    BY <1>2, Alone DEF EnqueueProbe
  <2> PICK r \in Rearmable(w) :
         txn' = [txn EXCEPT ![t] = [NoTxn EXCEPT !.op = "enqueue", !.work = w,
                                                 !.dep = d, !.row = r]]
    BY <1>2 DEF EnqueueProbe
  <2>2. /\ txn'[t].op = "enqueue" /\ txn'[t].work = w /\ txn'[t].row = r
        /\ \A u \in Threads \ {t} : txn'[u].op = "none"
    BY <1>0, <2>1 DEF TypeOK, NoTxn
  <2>3. /\ \A i \in Ids : Live(i) => jobs[i].work # w
        /\ r # 0 => Terminal(r) /\ jobs[r].work = w /\ w \in EmbedWorks
    BY <1>2 DEF EnqueueProbe, Twins, Rearmable, Finished
  <2>4. UNCHANGED <<jobs, nextId, held, owed>>
    BY <1>2 DEF EnqueueProbe
  <2>5. OneWriter' /\ ClaimSnapshot' /\ ReclaimSnapshot'
    BY <2>2 DEF OneWriter, ClaimSnapshot, ReclaimSnapshot
  <2>6. EnqueueSnapshot'
    BY <2>2, <2>3, <2>4 DEF EnqueueSnapshot, Live, Terminal
  <2> QED
    BY <2>4, <2>5, <2>6, TxnStep
<1>3. ASSUME EnqueueRearm(t) PROVE QueueInv'
  <2> DEFINE i == txn[t].row
  <2>1. /\ txn[t].op = "enqueue" /\ i \in Ids /\ txn[t].work \in Works
        /\ Terminal(i) /\ jobs[i].work = txn[t].work
        /\ \A j \in Ids : Live(j) => jobs[j].work # txn[t].work
    BY <1>0, <1>3 DEF EnqueueRearm, EnqueueSnapshot, TypeOK, Txn, Ids
  <2>2. /\ jobs'[i] = Rearmed(jobs[i])
        /\ \A j \in Ids \ {i} : jobs'[j] = jobs[j]
    BY <1>0, <1>3, <2>1 DEF EnqueueRearm, Terminal, TypeOK
  <2>3. jobs'[i].status = "pending" /\ jobs'[i].work = jobs[i].work
    BY <1>0, <2>1, <2>2 DEF Rearmed, TypeOK, Row
  <2>4. \A u \in Threads : held[u] # i
    BY <1>0, <2>1 DEF ExclusiveRun, Terminal, Ids
  <2>5. \A w \in Works : owed'[w] = "yes" => w = txn[t].work \/ owed[w] = "yes"
    BY <1>0, <1>3 DEF EnqueueRearm, Requested, TypeOK
  <2>6. UNCHANGED <<held, nextId>>
    BY <1>3 DEF EnqueueRearm
  <2>7. TableInv'
    <3> HIDE DEF i
    <3> QED
      BY <2>1, <2>2, <2>3, <2>4, <2>5, <2>6, RowStep DEF Terminal
  <2>8. \A u \in Threads : txn'[u].op = "none"
    BY <1>0, <1>3, <2>1, EndsLast DEF EnqueueRearm
  <2> QED
    BY <2>7, <2>8, NoneOpen, QueueInvSplit
<1>4. ASSUME EnqueueInsert(t) PROVE QueueInv'
  <2>1. /\ txn[t].op = "enqueue" /\ txn[t].work \in Works
        /\ \A j \in Ids : Live(j) => jobs[j].work # txn[t].work
    BY <1>0, <1>4 DEF EnqueueInsert, EnqueueSnapshot
  <2>2. /\ nextId \in Ids /\ jobs' = [jobs EXCEPT ![nextId] = FreshRow(txn[t].work, txn[t].dep)]
        /\ nextId' = nextId + 1 /\ UNCHANGED held /\ Requested(txn[t].work)
    BY <1>4 DEF EnqueueInsert
  <2>3. TableInv'
    BY <2>1, <2>2, InsertStep
  <2>4. \A u \in Threads : txn'[u].op = "none"
    BY <1>0, <1>4, <2>1, EndsLast DEF EnqueueInsert
  <2> QED
    BY <2>3, <2>4, NoneOpen, QueueInvSplit
<1>5. ASSUME EnqueueRefused(t) PROVE QueueInv'
  <2>1. \A u \in Threads : txn'[u].op = "none"
    BY <1>0, <1>5, EndsLast DEF EnqueueRefused
  <2>2. UNCHANGED <<jobs, nextId, held, owed>>
    BY <1>5 DEF EnqueueRefused
  <2> QED
    BY <2>1, <2>2, NoneOpen, TxnStep
<1>6. ASSUME NEW w \in Works, EnqueueInAppend(t, w) PROVE QueueInv'
  <2>1. \A u \in Threads : txn'[u].op = "none"
    BY <1>6, Alone DEF EnqueueInAppend
  <2>2. /\ nextId \in Ids /\ jobs' = [jobs EXCEPT ![nextId] = FreshRow(w, 0)]
        /\ nextId' = nextId + 1 /\ UNCHANGED held /\ Requested(w)
        /\ \A j \in Ids : Live(j) => jobs[j].work # w
    BY <1>6 DEF EnqueueInAppend, Twins
  <2>3. TableInv'
    BY <2>2, InsertStep
  <2> QED
    BY <2>1, <2>3, NoneOpen, QueueInvSplit
<1> QED
  BY <1>1, <1>2, <1>3, <1>4, <1>5, <1>6 DEF Enqueue

LEMMA RunStep ==
    ASSUME QueueInv, TypeOK', OneProcess, NEW t \in Threads, Run(t)
    PROVE  QueueInv'
<1>0. /\ TypeOK /\ OneWriter /\ ClaimSnapshot /\ ExclusiveRun /\ MaxId \in Nat
  BY BoundFacts DEF QueueInv
<1>1. ASSUME NEW i \in Ids, NEW tasks \in Filters, ClaimRow(t, i, tasks) PROVE QueueInv'
  <2>1. \A u \in Threads : txn[u].op = "none"
    BY <1>1, Alone DEF ClaimRow
  <2>2. /\ txn'[t].op = "claim" /\ txn'[t].work = jobs[i].work /\ txn'[t].row = i
        /\ \A u \in Threads \ {t} : txn'[u].op = "none"
    BY <1>0, <1>1, <2>1 DEF ClaimRow, TypeOK, NoTxn
  <2>3. held[t] = 0 /\ jobs[i].status = "pending" /\ UNCHANGED <<jobs, nextId, held, owed>>
    BY <1>1 DEF ClaimRow, Ready
  <2>4. OneWriter' /\ EnqueueSnapshot' /\ ReclaimSnapshot'
    BY <2>2 DEF OneWriter, EnqueueSnapshot, ReclaimSnapshot
  <2>5. ClaimSnapshot'
    BY <2>2, <2>3 DEF ClaimSnapshot
  <2> QED
    BY <2>3, <2>4, <2>5, TxnStep
<1>2. ASSUME ClaimCommit(t) PROVE QueueInv'
  <2> DEFINE i == txn[t].row
  <2>1. /\ txn[t].op = "claim" /\ i \in Ids /\ held[t] = 0
        /\ jobs[i].status = "pending" /\ jobs[i].work = txn[t].work
    BY <1>0, <1>2 DEF ClaimCommit, ClaimSnapshot
  <2>2. /\ jobs'[i] = Claimed(jobs[i])
        /\ \A j \in Ids \ {i} : jobs'[j] = jobs[j]
        /\ held' = [held EXCEPT ![t] = i]
        /\ owed' = [owed EXCEPT ![txn[t].work] = "no"] /\ nextId' = nextId
    BY <1>0, <1>2, <2>1 DEF ClaimCommit, TypeOK
  <2>3. jobs'[i].status = "running" /\ jobs'[i].work = jobs[i].work /\ ~jobs'[i].due
    BY <1>0, <2>1, <2>2 DEF Claimed, TypeOK, Row
  <2>4. \A u \in Threads : held[u] # i
    BY <1>0, <2>1 DEF ExclusiveRun, Ids
  <2>5. \A u \in Threads : held'[u] = IF u = t THEN i ELSE held[u]
    BY <1>0, <2>2 DEF TypeOK
  <2>6. \A w \in Works : owed'[w] = "yes" => owed[w] = "yes" /\ w # jobs[i].work
    BY <1>0, <2>1, <2>2 DEF TypeOK
  <2> HIDE DEF i
  <2>7. LeaseHolds'
    BY <2>2, <2>3, <2>5 DEF QueueInv, LeaseHolds
  <2>8. FreeIds'
    BY <2>1, <2>2, <2>3 DEF QueueInv, FreeIds
  <2>9. ExclusiveRun'
    <3> SUFFICES ASSUME NEW u \in Threads, held'[u] # 0
                 PROVE  /\ jobs'[held'[u]].status = "running"
                        /\ \A v \in Threads : held'[v] = held'[u] => v = u
      BY DEF ExclusiveRun
    <3>1. CASE u = t
      BY <3>1, <2>3, <2>4, <2>5
    <3>2. CASE u # t
      <4>1. held'[u] = held[u] /\ held[u] \in Ids \ {i}
        BY <3>2, <2>4, <2>5, <1>0 DEF TypeOK, Ids
      <4>2. jobs'[held[u]].status = "running"
        BY <4>1, <2>2, <1>0 DEF ExclusiveRun
      <4> QED
        BY <4>1, <4>2, <2>4, <2>5, <1>0 DEF ExclusiveRun
    <3> QED
      BY <3>1, <3>2
  <2>10. OneLiveRowPerWork'
    BY <2>1, <2>2, <2>3 DEF QueueInv, OneLiveRowPerWork, Live
  <2>11. RequestKept'
    BY <2>2, <2>6 DEF QueueInv, RequestKept
  <2>12. \A u \in Threads : txn'[u].op = "none"
    BY <1>0, <1>2, <2>1, EndsLast DEF ClaimCommit
  <2> QED
    BY <2>7, <2>8, <2>9, <2>10, <2>11, <2>12, NoneOpen, QueueInvSplit DEF TableInv
<1>3. ASSUME NEW s \in {"done", "failed", "pending"}, Settle(t, s) PROVE QueueInv'
  <2> DEFINE i == held[t]
  <2>1. i \in Ids /\ jobs[i].status = "running" /\ \A u \in Threads \ {t} : held[u] # i
    BY <1>0, <1>3 DEF Settle, ExclusiveRun, TypeOK, Ids
  <2>2. /\ jobs'[i] = [jobs[i] EXCEPT !.status = s, !.due = FALSE]
        /\ \A j \in Ids \ {i} : jobs'[j] = jobs[j]
        /\ held' = [held EXCEPT ![t] = 0] /\ UNCHANGED <<nextId, txn, owed>>
    BY <1>0, <1>3, <2>1 DEF Settle, Moved, TypeOK
  <2>3. jobs'[i].status = s /\ jobs'[i].work = jobs[i].work /\ ~jobs'[i].due
    BY <1>0, <2>1, <2>2 DEF TypeOK, Row
  <2>4. \A u \in Threads : held'[u] = IF u = t THEN 0 ELSE held[u]
    BY <1>0, <2>2 DEF TypeOK
  <2>5. \A u \in Threads : txn'[u].op = "none"
    BY <1>3, <2>2, Alone DEF Settle
  <2> HIDE DEF i
  <2>6. LeaseHolds'
    BY <2>1, <2>2, <2>3, <2>4 DEF QueueInv, LeaseHolds, Ids
  <2>7. FreeIds'
    BY <2>1, <2>2, <2>3 DEF QueueInv, FreeIds
  <2>8. ExclusiveRun'
    <3> SUFFICES ASSUME NEW u \in Threads, held'[u] # 0
                 PROVE  /\ jobs'[held'[u]].status = "running"
                        /\ \A v \in Threads : held'[v] = held'[u] => v = u
      BY DEF ExclusiveRun
    <3>1. u # t /\ held'[u] = held[u] /\ held[u] \in Ids \ {i}
      BY <2>1, <2>4, <1>0 DEF TypeOK, Ids
    <3>2. jobs'[held[u]].status = "running"
      BY <3>1, <2>2, <1>0 DEF ExclusiveRun
    <3> QED
      BY <3>1, <3>2, <2>4, <1>0 DEF ExclusiveRun
  <2>9. OneLiveRowPerWork'
    <3>1. \A j \in Ids : Live(j)' => Live(j) /\ jobs'[j].work = jobs[j].work
      BY <2>1, <2>2, <2>3 DEF Live
    <3> QED
      BY <3>1 DEF QueueInv, OneLiveRowPerWork
  <2>10. RequestKept'
    BY <2>1, <2>2 DEF QueueInv, RequestKept
  <2> QED
    BY <2>5, <2>6, <2>7, <2>8, <2>9, <2>10, NoneOpen, QueueInvSplit DEF TableInv
<1> QED
  BY <1>1, <1>2, <1>3 DEF Run, ClaimProbe, Succeed, Fail, Defer

LEMMA RepairStep ==
    ASSUME QueueInv, TypeOK', OneProcess, NEW t \in Threads, Repair(t)
    PROVE  QueueInv'
<1>0. /\ TypeOK /\ OneWriter /\ ReclaimSnapshot /\ ExclusiveRun /\ LeaseHolds
      /\ FreeIds /\ OneLiveRowPerWork /\ RequestKept /\ MaxId \in Nat
  BY BoundFacts DEF QueueInv
<1>1. ASSUME NEW lease \in {"builtin", "configured"}, ReclaimProbe(t, lease)
      PROVE  QueueInv'
  <2> DEFINE batch == Lowest(Stale(lease), ReclaimLimit)
  <2>1. \A u \in Threads : txn[u].op = "none"
    BY <1>1, Alone DEF ReclaimProbe
  <2>2. /\ txn'[t].op = "reclaim" /\ txn'[t].rows = batch
        /\ \A u \in Threads \ {t} : txn'[u].op = "none"
    BY <1>0, <1>1, <2>1 DEF ReclaimProbe, TypeOK, NoTxn
  <2>3. \A i \in batch : /\ i \in Ids /\ jobs[i].status = "running"
                         /\ \A u \in Threads : held[u] # i
    BY <1>0 DEF Lowest, Stale, HeldBy, LeaseHolds
  <2>4. UNCHANGED <<jobs, nextId, held, owed>>
    BY <1>1 DEF ReclaimProbe
  <2> HIDE DEF batch
  <2>5. OneWriter' /\ EnqueueSnapshot' /\ ClaimSnapshot'
    BY <2>2 DEF OneWriter, EnqueueSnapshot, ClaimSnapshot
  <2>6. ReclaimSnapshot'
    BY <2>2, <2>3, <2>4 DEF ReclaimSnapshot
  <2> QED
    BY <2>4, <2>5, <2>6, TxnStep
<1>2. ASSUME ReclaimCommit(t) PROVE QueueInv'
  <2> DEFINE rows == txn[t].rows
  <2>1. /\ txn[t].op = "reclaim" /\ rows \subseteq Ids
        /\ \A i \in rows : jobs[i].status = "running" /\ \A u \in Threads : held[u] # i
    BY <1>0, <1>2 DEF ReclaimCommit, ReclaimSnapshot, TypeOK, Txn
  <2>2. \A i \in Ids \ rows : jobs'[i] = jobs[i]
    BY <1>2 DEF ReclaimCommit
  <2>3. \A i \in rows : /\ jobs'[i].status \in {"pending", "failed"}
                        /\ jobs'[i].work = jobs[i].work
    <3> SUFFICES ASSUME NEW i \in rows
                 PROVE  /\ jobs'[i].status \in {"pending", "failed"}
                        /\ jobs'[i].work = jobs[i].work
      OBVIOUS
    <3>1. i \in Ids /\ jobs[i] \in Row /\ jobs[i].status = "running"
      BY <1>0, <2>1 DEF TypeOK
    <3>2. \/ jobs'[i] = [jobs[i] EXCEPT !.status = "failed", !.due = FALSE]
          \/ jobs'[i] = [jobs[i] EXCEPT !.status = "pending", !.due = TRUE]
      BY <1>2, <3>1 DEF ReclaimCommit
    <3> QED
      BY <3>1, <3>2 DEF Row
  <2>4. UNCHANGED <<nextId, held, owed>>
    BY <1>2 DEF ReclaimCommit
  <2>5. \A u \in Threads : txn'[u].op = "none"
    BY <1>0, <1>2, <2>1, EndsLast DEF ReclaimCommit
  <2> HIDE DEF rows
  <2>6. \A i \in Ids : Live(i)' => Live(i) /\ jobs'[i].work = jobs[i].work
    BY <2>1, <2>2, <2>3 DEF Live
  <2>7. LeaseHolds' /\ FreeIds' /\ OneLiveRowPerWork'
    <3>1. LeaseHolds'
      BY <1>0, <2>1, <2>2, <2>3, <2>4 DEF LeaseHolds
    <3>2. FreeIds'
      BY <1>0, <2>1, <2>2, <2>3, <2>4 DEF FreeIds
    <3>3. OneLiveRowPerWork'
      BY <1>0, <2>6 DEF OneLiveRowPerWork, Live
    <3> QED
      BY <3>1, <3>2, <3>3
  <2>8. ExclusiveRun'
    <3>1. \A u \in Threads : held[u] # 0 => held[u] \in Ids \ rows
      BY <1>0, <2>1 DEF TypeOK, Ids
    <3> QED
      BY <1>0, <2>2, <2>4, <3>1 DEF ExclusiveRun
  <2>9. RequestKept'
    BY <1>0, <2>1, <2>2, <2>4 DEF RequestKept
  <2> QED
    BY <2>5, <2>7, <2>8, <2>9, NoneOpen, QueueInvSplit DEF TableInv
<1>3. ASSUME Prune(t) PROVE QueueInv'
  <2> PICK gone \in SUBSET {i \in Ids : Terminal(i)} :
         jobs' = [i \in Ids |-> IF i \in gone THEN NoRow ELSE jobs[i]]
    BY <1>3 DEF Prune, Aged, OverCap, Lowest
  <2>1. \A u \in Threads : txn'[u].op = "none"
    BY <1>3, Alone DEF Prune
  <2>2. UNCHANGED <<nextId, held, owed>>
    BY <1>3 DEF Prune
  <2>3. \A i \in Ids \ gone : jobs'[i] = jobs[i]
    OBVIOUS
  <2>4. \A i \in gone : /\ jobs'[i].status = "absent"
                        /\ jobs[i].status \notin {"pending", "running"}
    BY DEF NoRow, Terminal
  <2>5. \A i \in Ids : Live(i)' => Live(i) /\ jobs'[i] = jobs[i]
    BY <2>3, <2>4 DEF Live
  <2>6. LeaseHolds' /\ FreeIds' /\ OneLiveRowPerWork'
    <3>1. LeaseHolds'
      BY <1>0, <2>2, <2>3, <2>4 DEF LeaseHolds
    <3>2. FreeIds'
      BY <1>0, <2>2, <2>3, <2>4 DEF FreeIds
    <3>3. OneLiveRowPerWork'
      BY <1>0, <2>5 DEF OneLiveRowPerWork, Live
    <3> QED
      BY <3>1, <3>2, <3>3
  <2>7. ExclusiveRun'
    <3>1. \A u \in Threads : held[u] # 0 => held[u] \in Ids /\ jobs[held[u]].status = "running"
      BY <1>0 DEF TypeOK, Ids, ExclusiveRun
    <3>2. \A u \in Threads : held[u] # 0 => held[u] \in Ids \ gone
      BY <2>4, <3>1
    <3> QED
      BY <1>0, <2>2, <2>3, <3>2 DEF ExclusiveRun
  <2>8. RequestKept'
    BY <1>0, <2>2, <2>3, <2>4 DEF RequestKept
  <2> QED
    BY <2>1, <2>6, <2>7, <2>8, NoneOpen, QueueInvSplit DEF TableInv
<1> QED
  BY <1>1, <1>2, <1>3 DEF Repair

LEMMA EnvironmentStep ==
    ASSUME QueueInv, TypeOK', OneProcess,
           (\E i \in Ids : TimePasses(i)) \/ (\E p \in Procs : Crash(p))
    PROVE  QueueInv'
<1>1. ASSUME NEW i \in Ids, TimePasses(i) PROVE QueueInv'
  <2>1. \A u \in Threads : jobs[i].status = "running" => held[u] # i
    BY <1>1 DEF TimePasses, OneProcess, HeldBy
  <2>2. \A j \in Ids : jobs'[j].status = jobs[j].status /\ jobs'[j].work = jobs[j].work
    BY <1>1 DEF TimePasses, QueueInv, TypeOK
  <2>3. \A j \in Ids \ {i} : jobs'[j] = jobs[j]
    BY <1>1 DEF TimePasses, QueueInv, TypeOK
  <2>4. UNCHANGED <<nextId, txn, held, owed>>
    BY <1>1 DEF TimePasses
  <2>5. \A j \in 0 .. MaxId : j # 0 => j \in Ids
    BY BoundFacts DEF Ids
  <2>6. LeaseHolds'
    BY <2>1, <2>2, <2>3, <2>4 DEF QueueInv, LeaseHolds
  <2>7. /\ OneWriter' /\ ClaimSnapshot' /\ FreeIds' /\ OneLiveRowPerWork' /\ RequestKept'
    BY <2>2, <2>4 DEF QueueInv, OneWriter, ClaimSnapshot, FreeIds, OneLiveRowPerWork,
                      RequestKept, Live
  <2>8. EnqueueSnapshot'
    BY <2>2, <2>4, <2>5 DEF QueueInv, EnqueueSnapshot, TypeOK, Txn, Live, Terminal
  <2>9. ReclaimSnapshot'
    BY <2>2, <2>4 DEF QueueInv, ReclaimSnapshot, TypeOK, Txn
  <2>10. ExclusiveRun'
    BY <2>2, <2>4, <2>5 DEF QueueInv, ExclusiveRun, TypeOK
  <2> QED
    BY <2>6, <2>7, <2>8, <2>9, <2>10, QueueInvSplit DEF TableInv
<1>2. ASSUME NEW p \in Procs, Crash(p) PROVE QueueInv'
  <2>1. /\ \A u \in Threads : txn'[u].op = "none" \/ txn'[u] = txn[u]
        /\ \A u \in Threads : held'[u] = 0 \/ held'[u] = held[u]
        /\ UNCHANGED <<jobs, nextId, owed>>
    BY <1>2 DEF Crash, NoTxn
  <2>2. /\ OneWriter /\ EnqueueSnapshot /\ ClaimSnapshot /\ ReclaimSnapshot
        /\ LeaseHolds /\ FreeIds /\ ExclusiveRun /\ OneLiveRowPerWork /\ RequestKept
        /\ TypeOK
    BY DEF QueueInv
  <2>3. \A i \in Ids : i # 0
    BY BoundFacts DEF Ids
  <2>4. OneWriter' /\ EnqueueSnapshot'
    BY <2>1, <2>2 DEF OneWriter, EnqueueSnapshot, Live, Terminal
  <2>5. ClaimSnapshot'
    BY <2>1, <2>2 DEF ClaimSnapshot
  <2>6. ReclaimSnapshot'
    BY <2>1, <2>2, <2>3 DEF ReclaimSnapshot, TypeOK, Txn
  <2>7. LeaseHolds' /\ FreeIds' /\ OneLiveRowPerWork' /\ RequestKept'
    BY <2>1, <2>2, <2>3 DEF LeaseHolds, FreeIds, OneLiveRowPerWork, RequestKept, Live
  <2>8. ExclusiveRun'
    BY <2>1, <2>2 DEF ExclusiveRun
  <2> QED
    BY <2>4, <2>5, <2>6, <2>7, <2>8, QueueInvSplit DEF TableInv
<1> QED
  BY <1>1, <1>2

LEMMA QueueStep ==
    ASSUME OneProcess
    PROVE  QueueInv /\ [Next]_vars => QueueInv'
<1> SUFFICES ASSUME QueueInv, [Next]_vars PROVE QueueInv'
  OBVIOUS
<1>1. TypeOK'
  BY TypeStep DEF QueueInv
<1>2. CASE UNCHANGED vars
  BY <1>1, <1>2 DEF vars, QueueInv, OneWriter, EnqueueSnapshot, ClaimSnapshot,
     ReclaimSnapshot, LeaseHolds, FreeIds, ExclusiveRun, OneLiveRowPerWork, RequestKept,
     Live, Terminal
<1>3. CASE Next
  BY <1>1, <1>3, EnqueueStep, RunStep, RepairStep, EnvironmentStep DEF Next
<1> QED
  BY <1>2, <1>3

\* In one process without slow workers a request is never lost, a claimed row has
\* one handler, and a unit of work has one live row, whatever the threads
\* interleave and whenever the process dies.
THEOREM OneProcessSafe ==
    ASSUME OneProcess
    PROVE  Spec => [](RequestKept /\ ExclusiveRun /\ OneLiveRowPerWork)
<1>1. QueueInv => RequestKept /\ ExclusiveRun /\ OneLiveRowPerWork
  BY DEF QueueInv
<1> QED
  BY <1>1, QueueInit, QueueStep, PTL DEF Spec

-----------------------------------------------------------------------------
(* Retention: the row another row waits for is never deleted. *)

\* The parent of a row that stays is not among those retention deletes: the rows
\* over the cap are unreferenced by the rows the age has left.
LEMMA GoneUnreferenced ==
    ASSUME NEW i \in Ids, NEW j \in Ids, jobs[j].dep = i,
           i \in Aged \cup OverCap(Ids \ Aged)
    PROVE  j \in Aged \cup OverCap(Ids \ Aged)
<1>1. i \notin Aged
  BY DEF Aged, Unreferenced
<1>2. i \in OverCap(Ids \ Aged)
  BY <1>1
<1>3. Unreferenced(i, Ids \ Aged)
  <2>1. CASE Cardinality({k \in Ids \ Aged : Terminal(k)}) <= MaxTerminal
    BY <1>2, <2>1 DEF OverCap
  <2>2. CASE ~(Cardinality({k \in Ids \ Aged : Terminal(k)}) <= MaxTerminal)
    BY <1>2, <2>2 DEF OverCap, Lowest
  <2> QED
    BY <2>1, <2>2
<1> QED
  BY <1>3 DEF Unreferenced

\* No step but retention removes a row, and none gives a row a parent that is
\* not there.
LEMMA DepsStep ==
    TypeOK /\ DepsResolve /\ [Next]_vars => DepsResolve'
<1> SUFFICES ASSUME TypeOK, DepsResolve, [Next]_vars PROVE DepsResolve'
  OBVIOUS
<1>a. /\ MaxId \in Nat /\ 0 \in 0 .. MaxId
      /\ \A d \in 0 .. MaxId : d # 0 => d \in Ids
      /\ \A i \in Ids : jobs[i] \in Row /\ jobs[i].dep \in 0 .. MaxId
      /\ \A t \in Threads : txn[t].row \in 0 .. MaxId /\ txn[t].dep \in 0 .. MaxId
  <2>1. MaxId \in Nat
    BY BoundFacts
  <2>2. \A d \in 0 .. MaxId : d # 0 => d \in Ids
    BY <2>1 DEF Ids
  <2>3. \A i \in Ids : jobs[i] \in Row /\ jobs[i].dep \in 0 .. MaxId
    BY DEF TypeOK, Row
  <2>4. \A t \in Threads : txn[t].row \in 0 .. MaxId /\ txn[t].dep \in 0 .. MaxId
    BY DEF TypeOK, Txn
  <2> QED
    BY <2>1, <2>2, <2>3, <2>4
<1>b. ASSUME \A i \in Ids : /\ jobs'[i].dep = jobs[i].dep
                            /\ jobs[i].status # "absent" => jobs'[i].status # "absent"
      PROVE  DepsResolve'
  BY <1>a, <1>b DEF DepsResolve
<1>c. ASSUME UNCHANGED jobs PROVE DepsResolve'
  BY <1>c DEF DepsResolve
<1>d. ASSUME NEW w, NEW d \in 0 .. MaxId, nextId \in Ids,
             d # 0 => jobs[d].status # "absent",
             jobs' = [jobs EXCEPT ![nextId] = FreshRow(w, d)]
      PROVE  DepsResolve'
  <2>1. /\ jobs'[nextId].dep = d /\ jobs'[nextId].status = "pending"
        /\ \A j \in Ids \ {nextId} : jobs'[j] = jobs[j]
    BY <1>d DEF TypeOK, FreshRow
  <2>2. \A j \in Ids : jobs[j].status # "absent" => jobs'[j].status # "absent"
    BY <2>1
  <2> SUFFICES ASSUME NEW i \in Ids, jobs'[i].dep # 0
               PROVE  jobs'[jobs'[i].dep].status # "absent"
    BY DEF DepsResolve
  <2>3. CASE i = nextId
    BY <2>1, <2>2, <2>3, <1>a, <1>d
  <2>4. CASE i # nextId
    <3>1. jobs'[i].dep = jobs[i].dep /\ jobs[i].dep \in Ids
      BY <2>1, <2>4, <1>a
    <3> QED
      BY <3>1, <2>2 DEF DepsResolve
  <2> QED
    BY <2>3, <2>4
<1>1. ASSUME NEW t \in Threads, EnqueueRearm(t) PROVE DepsResolve'
  <2>1. \A i \in Ids : \/ jobs'[i] = jobs[i]
                       \/ jobs[i].status # "absent" /\ jobs'[i] = Rearmed(jobs[i])
    BY <1>1 DEF EnqueueRearm, TypeOK
  <2> QED
    BY <2>1, <1>a, <1>b DEF Rearmed, Row
<1>2. ASSUME NEW t \in Threads, EnqueueInsert(t) PROVE DepsResolve'
  BY <1>2, <1>a, <1>d DEF EnqueueInsert
<1>3. ASSUME NEW t \in Threads, NEW w \in Works, EnqueueInAppend(t, w) PROVE DepsResolve'
  BY <1>3, <1>a, <1>d DEF EnqueueInAppend
<1>4. ASSUME NEW t \in Threads, ClaimCommit(t) PROVE DepsResolve'
  <2>1. \A i \in Ids : jobs'[i] = jobs[i] \/ jobs'[i] = Claimed(jobs[i])
    BY <1>4 DEF ClaimCommit, TypeOK
  <2> QED
    BY <2>1, <1>a, <1>b DEF Claimed, Row
<1>5. ASSUME NEW t \in Threads, NEW s \in Status \ {"absent"}, Settle(t, s) PROVE DepsResolve'
  <2>1. \A i \in Ids : \/ jobs'[i] = jobs[i]
                       \/ jobs'[i] = [jobs[i] EXCEPT !.status = s, !.due = FALSE]
    BY <1>5 DEF Settle, Moved, TypeOK
  <2> QED
    BY <2>1, <1>a, <1>b DEF Row
<1>6. ASSUME NEW t \in Threads, ReclaimCommit(t) PROVE DepsResolve'
  <2>1. \A i \in Ids : \/ jobs'[i] = jobs[i]
                       \/ jobs'[i] = [jobs[i] EXCEPT !.status = "failed", !.due = FALSE]
                       \/ jobs'[i] = [jobs[i] EXCEPT !.status = "pending", !.due = TRUE]
    BY <1>6 DEF ReclaimCommit
  <2> QED
    BY <2>1, <1>a, <1>b DEF Row
<1>7. ASSUME NEW t \in Threads, Prune(t) PROVE DepsResolve'
  <2> DEFINE gone == Aged \cup OverCap(Ids \ Aged)
  <2>1. \A i \in Ids : jobs'[i] = IF i \in gone THEN NoRow ELSE jobs[i]
    BY <1>7 DEF Prune
  <2>2. \A i, j \in Ids : jobs[j].dep = i /\ i \in gone => j \in gone
    BY GoneUnreferenced
  <2> HIDE DEF gone
  <2> QED
    BY <2>1, <2>2, <1>a DEF DepsResolve, NoRow
<1>8. ASSUME NEW i \in Ids, TimePasses(i) PROVE DepsResolve'
  <2>1. \A j \in Ids : jobs'[j] = jobs[j] \/ jobs'[j] = [jobs[j] EXCEPT !.due = TRUE]
    BY <1>8 DEF TimePasses, TypeOK
  <2> QED
    BY <2>1, <1>a, <1>b DEF Row
<1>9. ASSUME NEW t \in Threads, Succeed(t) \/ Fail(t) \/ \E b \in BOOLEAN : Defer(t, b)
      PROVE  DepsResolve'
  BY <1>5, <1>9 DEF Succeed, Fail, Defer, Status
<1>10. CASE UNCHANGED vars
  BY <1>10, <1>c DEF vars
<1>11. ASSUME NEW t \in Threads, Enqueue(t) PROVE DepsResolve'
  BY <1>11, <1>c, <1>1, <1>2, <1>3
     DEF Enqueue, EnqueueCollapsed, EnqueueProbe, EnqueueRefused
<1>12. ASSUME NEW t \in Threads, Run(t) PROVE DepsResolve'
  BY <1>12, <1>c, <1>4, <1>9 DEF Run, ClaimProbe, ClaimRow
<1>13. ASSUME NEW t \in Threads, Repair(t) PROVE DepsResolve'
  BY <1>13, <1>c, <1>6, <1>7 DEF Repair, ReclaimProbe
<1>14. ASSUME NEW p \in Procs, Crash(p) PROVE DepsResolve'
  BY <1>14, <1>c DEF Crash
<1> QED
  BY <1>8, <1>10, <1>11, <1>12, <1>13, <1>14 DEF Next

\* Whatever retention deletes and whoever crashes, in any number of processes:
\* the row a row waits for is in the table (prune_curation_jobs' dependency guard).
THEOREM ParentsOutlive == Spec => []DepsResolve
<1>1. Init => DepsResolve
  BY DEF Init, DepsResolve, NoRow
<1> QED
  BY <1>1, TypeInit, TypeStep, DepsStep, PTL DEF Spec
-----------------------------------------------------------------------------
(* The queue implements its promise. *)

Waiting == {jobs[i].work : i \in {j \in Ids : jobs[j].status = "pending"}}
Running == {jobs[i].work : i \in {j \in Ids : jobs[j].status = "running"}}

\* What a step can do to the live rows: nothing, make one for a work that has
\* none, start a pending one, or settle some running ones.
Unmoved ==
    \A i \in Ids : Live(i) \/ Live(i)' =>
        jobs'[i].status = jobs[i].status /\ jobs'[i].work = jobs[i].work
Asked(n, w) ==
    /\ ~Live(n) /\ \A i \in Ids : Live(i) => jobs[i].work # w
    /\ jobs'[n].status = "pending" /\ jobs'[n].work = w
    /\ \A j \in Ids \ {n} : jobs'[j] = jobs[j]
Started(n) ==
    /\ jobs[n].status = "pending"
    /\ jobs'[n].status = "running" /\ jobs'[n].work = jobs[n].work
    /\ \A j \in Ids \ {n} : jobs'[j] = jobs[j]
Settled(rows) ==
    /\ \A i \in rows : /\ jobs[i].status = "running" /\ jobs'[i].work = jobs[i].work
                       /\ jobs'[i].status \in {"pending", "done", "failed"}
    /\ \A j \in Ids \ rows : jobs'[j] = jobs[j]

Effect ==
    \/ Unmoved
    \/ \E n \in Ids, w \in Works : Asked(n, w)
    \/ \E n \in Ids : Started(n)
    \/ \E rows \in SUBSET Ids : Settled(rows)

\* Each operation has one of these effects: what its transaction has read is
\* still true when it writes.
LEMMA StepEffect ==
    ASSUME QueueInv, [Next]_vars
    PROVE  Effect
<1>a. /\ TypeOK /\ EnqueueSnapshot /\ ClaimSnapshot /\ ReclaimSnapshot
      /\ FreeIds /\ ExclusiveRun /\ MaxId \in Nat
  BY BoundFacts DEF QueueInv
<1>b. ASSUME UNCHANGED jobs PROVE Effect
  BY <1>b DEF Effect, Unmoved
<1>1. ASSUME NEW t \in Threads, EnqueueRearm(t) PROVE Effect
  <2> DEFINE n == txn[t].row
  <2>1. /\ n \in Ids /\ Terminal(n) /\ txn[t].work \in Works
        /\ jobs[n].work = txn[t].work
        /\ \A i \in Ids : Live(i) => jobs[i].work # txn[t].work
    <3>1. n # 0 /\ n \in 0 .. MaxId
      BY <1>1, <1>a DEF EnqueueRearm, TypeOK, Txn
    <3> QED
      BY <3>1, <1>1, <1>a DEF EnqueueRearm, EnqueueSnapshot, Ids
  <2>2. /\ jobs'[n] = Rearmed(jobs[n])
        /\ \A j \in Ids \ {n} : jobs'[j] = jobs[j]
    BY <1>1, <1>a, <2>1 DEF EnqueueRearm, TypeOK, Terminal
  <2>3. jobs'[n].status = "pending" /\ jobs'[n].work = jobs[n].work
    BY <1>a, <2>1, <2>2 DEF Rearmed, TypeOK, Row
  <2> HIDE DEF n
  <2>4. Asked(n, txn[t].work)
    BY <2>1, <2>2, <2>3 DEF Asked, Live, Terminal
  <2> QED
    BY <2>1, <2>4 DEF Effect
<1>2. ASSUME NEW w \in Works, NEW d, nextId \in Ids,
             \A i \in Ids : Live(i) => jobs[i].work # w,
             jobs' = [jobs EXCEPT ![nextId] = FreshRow(w, d)]
      PROVE  Effect
  <2>1. /\ jobs'[nextId].status = "pending" /\ jobs'[nextId].work = w
        /\ \A j \in Ids \ {nextId} : jobs'[j] = jobs[j]
    BY <1>2, <1>a DEF TypeOK, FreshRow
  <2>2. ~Live(nextId)
    BY <1>2, <1>a DEF FreeIds, Live, Ids
  <2>3. Asked(nextId, w)
    BY <2>1, <2>2, <1>2 DEF Asked
  <2> QED
    BY <2>3, <1>2 DEF Effect
<1>3. ASSUME NEW t \in Threads, EnqueueInsert(t) PROVE Effect
  BY <1>2, <1>3, <1>a DEF EnqueueInsert, EnqueueSnapshot
<1>4. ASSUME NEW t \in Threads, NEW w \in Works, EnqueueInAppend(t, w) PROVE Effect
  BY <1>2, <1>4 DEF EnqueueInAppend, Twins
<1>5. ASSUME NEW t \in Threads, ClaimCommit(t) PROVE Effect
  <2> DEFINE n == txn[t].row
  <2>1. n \in Ids /\ jobs[n].status = "pending"
    BY <1>5, <1>a DEF ClaimCommit, ClaimSnapshot
  <2>2. jobs'[n] = Claimed(jobs[n]) /\ \A j \in Ids \ {n} : jobs'[j] = jobs[j]
    BY <1>5, <1>a, <2>1 DEF ClaimCommit, TypeOK
  <2>3. jobs'[n].status = "running" /\ jobs'[n].work = jobs[n].work
    BY <1>a, <2>1, <2>2 DEF Claimed, TypeOK, Row
  <2> HIDE DEF n
  <2>4. Started(n)
    BY <2>1, <2>2, <2>3 DEF Started
  <2> QED
    BY <2>1, <2>4 DEF Effect
<1>6. ASSUME NEW t \in Threads, NEW s \in {"done", "failed", "pending"}, Settle(t, s)
      PROVE  Effect
  <2> DEFINE n == held[t]
  <2>1. n \in Ids /\ jobs[n].status = "running"
    BY <1>6, <1>a DEF Settle, ExclusiveRun, TypeOK, Ids
  <2>2. /\ jobs'[n] = [jobs[n] EXCEPT !.status = s, !.due = FALSE]
        /\ \A j \in Ids \ {n} : jobs'[j] = jobs[j]
    BY <1>6, <1>a, <2>1 DEF Settle, Moved, TypeOK
  <2>3. jobs'[n].status = s /\ jobs'[n].work = jobs[n].work
    BY <1>a, <2>1, <2>2 DEF TypeOK, Row
  <2> HIDE DEF n
  <2>4. {n} \in SUBSET Ids /\ Settled({n})
    BY <2>1, <2>2, <2>3 DEF Settled
  <2> QED
    BY <2>4 DEF Effect
<1>7. ASSUME NEW t \in Threads, ReclaimCommit(t) PROVE Effect
  <2> DEFINE rows == txn[t].rows
  <2>1. rows \in SUBSET Ids /\ \A i \in rows : jobs[i].status = "running"
    BY <1>7, <1>a DEF ReclaimCommit, ReclaimSnapshot, TypeOK, Txn
  <2>2. /\ \A j \in Ids \ rows : jobs'[j] = jobs[j]
        /\ \A i \in rows : \/ jobs'[i] = [jobs[i] EXCEPT !.status = "failed", !.due = FALSE]
                           \/ jobs'[i] = [jobs[i] EXCEPT !.status = "pending", !.due = TRUE]
    BY <1>7, <2>1 DEF ReclaimCommit
  <2>3. \A i \in rows : /\ jobs'[i].work = jobs[i].work
                        /\ jobs'[i].status \in {"pending", "failed"}
    <3> HIDE DEF rows
    <3>1. \A i \in Ids : jobs[i] \in Row
      BY <1>a DEF TypeOK
    <3> SUFFICES ASSUME NEW i \in rows
                 PROVE  /\ jobs'[i].work = jobs[i].work
                        /\ jobs'[i].status \in {"pending", "failed"}
      OBVIOUS
    <3>2. jobs[i] \in Row
      BY <2>1, <3>1
    <3> QED
      BY <2>2, <3>2 DEF Row
  <2> HIDE DEF rows
  <2>4. Settled(rows)
    BY <2>1, <2>2, <2>3 DEF Settled
  <2> QED
    BY <2>1, <2>4 DEF Effect
<1>8. ASSUME NEW t \in Threads, Prune(t) PROVE Effect
  <2> PICK gone \in SUBSET {i \in Ids : Terminal(i)} :
         jobs' = [i \in Ids |-> IF i \in gone THEN NoRow ELSE jobs[i]]
    BY <1>8 DEF Prune, Aged, OverCap, Lowest
  <2>1. Unmoved
    BY DEF Unmoved, Live, Terminal, NoRow
  <2> QED
    BY <2>1 DEF Effect
<1>9. ASSUME NEW i \in Ids, TimePasses(i) PROVE Effect
  <2>1. \A j \in Ids : jobs'[j].status = jobs[j].status /\ jobs'[j].work = jobs[j].work
    BY <1>9, <1>a DEF TimePasses, TypeOK
  <2> QED
    BY <2>1 DEF Effect, Unmoved
<1>10. ASSUME NEW p \in Procs, Crash(p) PROVE Effect
  BY <1>10, <1>b DEF Crash
<1>11. CASE UNCHANGED vars
  BY <1>11, <1>b DEF vars
<1>12. ASSUME NEW t \in Threads, Enqueue(t) PROVE Effect
  BY <1>12, <1>b, <1>1, <1>3, <1>4 DEF Enqueue, EnqueueCollapsed, EnqueueProbe, EnqueueRefused
<1>13. ASSUME NEW t \in Threads, Run(t) PROVE Effect
  <2>1. ASSUME NEW b \in BOOLEAN, Defer(t, b) PROVE Effect
    BY <2>1, <1>6 DEF Defer
  <2> QED
    BY <1>13, <1>b, <1>5, <1>6, <2>1 DEF Run, ClaimProbe, ClaimRow, Succeed, Fail
<1>14. ASSUME NEW t \in Threads, Repair(t) PROVE Effect
  BY <1>14, <1>b, <1>7, <1>8 DEF Repair, ReclaimProbe
<1> QED
  BY <1>9, <1>10, <1>11, <1>12, <1>13, <1>14 DEF Next

\* A live row stands for a work that somebody asked for.
LiveWorks == \A i \in Ids : Live(i) => jobs[i].work \in Works

LEMMA LiveWorksStep == LiveWorks /\ Effect => LiveWorks'
<1> SUFFICES ASSUME LiveWorks, Effect PROVE LiveWorks'
  OBVIOUS
<1>1. CASE Unmoved
  BY <1>1 DEF LiveWorks, Unmoved, Live
<1>2. ASSUME NEW n \in Ids, NEW w \in Works, Asked(n, w) PROVE LiveWorks'
  BY <1>2 DEF LiveWorks, Asked, Live
<1>3. ASSUME NEW n \in Ids, Started(n) PROVE LiveWorks'
  BY <1>3 DEF LiveWorks, Started, Live
<1>4. ASSUME NEW rows \in SUBSET Ids, Settled(rows) PROVE LiveWorks'
  BY <1>4 DEF LiveWorks, Settled, Live
<1> QED
  BY <1>1, <1>2, <1>3, <1>4 DEF Effect

\* Each effect is a step of the promise, or none.
LEMMA EffectMaps ==
    ASSUME OneLiveRowPerWork, LiveWorks, Effect
    PROVE  [Promise!Next]_<<Waiting, Running>>
<1> DEFINE Promised == [Promise!Next]_<<Waiting, Running>>
<1>1. CASE Unmoved
  <2>1. Waiting' = Waiting /\ Running' = Running
    BY <1>1 DEF Unmoved, Live, Waiting, Running
  <2> QED
    BY <2>1
<1>2. ASSUME NEW n \in Ids, NEW w \in Works, Asked(n, w) PROVE Promised
  <2>1. w \notin Waiting \cup Running
    BY <1>2 DEF Asked, Live, Waiting, Running
  <2>2. Waiting' = Waiting \cup {w}
    BY <1>2 DEF Asked, Live, Waiting
  <2>3. Running' = Running
    BY <1>2 DEF Asked, Live, Running
  <2>4. Promise!Request(w)
    BY <2>1, <2>2, <2>3 DEF Promise!Request, Waiting, Running
  <2> QED
    BY <2>4 DEF Promise!Next
<1>3. ASSUME NEW n \in Ids, Started(n) PROVE Promised
  <2> PICK w \in Works : w = jobs[n].work
    BY <1>3 DEF Started, LiveWorks, Live
  <2>1. w \in Waiting
    BY <1>3 DEF Started, Waiting
  <2>2. \A i \in Ids \ {n} : Live(i) => jobs[i].work # w
    BY <1>3 DEF Started, OneLiveRowPerWork, Live
  <2>3. Waiting' = Waiting \ {w}
    BY <1>3, <2>2 DEF Started, Live, Waiting
  <2>4. Running' = Running \cup {w}
    BY <1>3, <2>2 DEF Started, Live, Running
  <2>5. Promise!Start(w)
    BY <2>1, <2>3, <2>4 DEF Promise!Start, Waiting, Running
  <2> QED
    BY <2>5 DEF Promise!Next
<1>4. ASSUME NEW rows \in SUBSET Ids, Settled(rows) PROVE Promised
  <2> PICK retried \in SUBSET Running :
         retried = {jobs[i].work : i \in {j \in rows : jobs'[j].status = "pending"}}
    BY <1>4 DEF Settled, Running
  <2> PICK ended \in SUBSET Running :
         ended = {jobs[i].work : i \in {j \in rows : jobs'[j].status # "pending"}}
    BY <1>4 DEF Settled, Running
  <2>1. \A i \in rows, j \in Ids : Live(j) /\ jobs[i].work = jobs[j].work => i = j
    BY <1>4 DEF Settled, OneLiveRowPerWork, Live
  <2>3. retried \cap ended = {}
    BY <1>4, <2>1 DEF Settled, Live
  <2>4. Running' = Running \ (retried \cup ended)
    BY <1>4, <2>1 DEF Settled, Running, Live
  <2>5. Waiting' = Waiting \cup retried
    BY <1>4 DEF Settled, Waiting
  <2>6. Promise!Settle(retried, ended)
    BY <2>3, <2>4, <2>5 DEF Promise!Settle, Waiting, Running
  <2> QED
    BY <2>6 DEF Promise!Next, Running
<1> QED
  BY <1>1, <1>2, <1>3, <1>4 DEF Effect

\* The table, its transactions and its workers implement the life cycle of a
\* work: it never stops waiting unrun, never starts unasked, and never runs in
\* two places, in one process without slow workers.
THEOREM QueueKeepsPromise ==
    ASSUME OneProcess
    PROVE  Spec => KeepsPromise
<1>1. Init => QueueInv /\ LiveWorks
  BY QueueInit DEF Init, LiveWorks, Live, NoRow
<1>2. QueueInv /\ LiveWorks /\ [Next]_vars => (QueueInv /\ LiveWorks)'
  BY QueueStep, StepEffect, LiveWorksStep
<1>3. Init => Promise!Init
  BY DEF Init, Promise!Init, NoRow
<1>4. QueueInv /\ LiveWorks /\ [Next]_vars => [Promise!Next]_<<Waiting, Running>>
  BY StepEffect, EffectMaps DEF QueueInv
<1> QED
  BY <1>1, <1>2, <1>3, <1>4, PTL
     DEF Spec, KeepsPromise, Promise!Spec, Promise!lifecycle, Waiting, Running

-----------------------------------------------------------------------------
(* The split of a budget *)

Split == [Drain!Classes -> Nat]

LEMMA SameCount == \A S : Drain!Cardinality(S) = Cardinality(S)
BY DEF Drain!Cardinality, Cardinality

LEMMA SmallSets ==
    /\ Cardinality({}) = 0
    /\ \A x : Cardinality({x}) = 1
    /\ \A x, y : x # y => Cardinality({x, y}) = 2
<1>1. Cardinality({}) = 0
  BY FS_EmptySet
<1>2. \A x : IsFiniteSet({x}) /\ Cardinality({x}) = 1
  BY FS_Singleton
<1>3. ASSUME NEW x, NEW y, x # y PROVE Cardinality({x, y}) = 2
  <2>1. {x, y} = {x} \cup {y} /\ y \notin {x}
    BY <1>3
  <2>2. Cardinality({x} \cup {y}) = Cardinality({x}) + 1
    BY <1>2, <2>1, FS_AddElement
  <2> QED
    BY <1>2, <2>1, <2>2
<1> QED
  BY <1>1, <1>2, <1>3

LEMMA TotalInAnyOrder ==
    ASSUME NEW g \in Split, NEW c \in Drain!Classes, NEW d \in Drain!Classes, NEW e \in Drain!Classes,
           c # d, c # e, d # e
    PROVE  Drain!Total(g) = g[c] + g[d] + g[e]
<1>1. g["embed"] \in Nat /\ g["maintenance"] \in Nat /\ g["write_path"] \in Nat
  BY DEF Split, Drain!Classes
<1> QED
  BY <1>1 DEF Drain!Total, Drain!Classes

\* The parts of a budget by class, and what is left of each.
LEMMA Division ==
    ASSUME NEW a \in Nat, NEW t \in Nat, t > 0
    PROVE  a \div t \in Nat /\ a % t \in Nat /\ a % t < t /\ a = t * (a \div t) + (a % t)
OBVIOUS

Over(size, w) == size - Drain!Total([c \in Drain!Classes |-> Drain!Whole(size, w, c)])

LEMMA Parts ==
    ASSUME NEW size \in Nat, NEW w \in Split, Drain!Total(w) > 0
    PROVE  /\ Drain!Total(w) \in Nat
           /\ \A c \in Drain!Classes :
                  /\ Drain!Whole(size, w, c) \in Nat /\ Drain!Remainder(size, w, c) \in Nat
                  /\ Drain!Remainder(size, w, c) < Drain!Total(w)
                  /\ w[c] * size = Drain!Total(w) * Drain!Whole(size, w, c) + Drain!Remainder(size, w, c)
<1>1. Drain!Total(w) \in Nat /\ \A c \in Drain!Classes : w[c] \in Nat /\ w[c] * size \in Nat
  BY DEF Drain!Total, Split, Drain!Classes
<1>2. ASSUME NEW c \in Drain!Classes
      PROVE  /\ Drain!Whole(size, w, c) \in Nat /\ Drain!Remainder(size, w, c) \in Nat
             /\ Drain!Remainder(size, w, c) < Drain!Total(w)
             /\ w[c] * size = Drain!Total(w) * Drain!Whole(size, w, c) + Drain!Remainder(size, w, c)
  <2> PICK a, t : a = w[c] * size /\ t = Drain!Total(w)
    OBVIOUS
  <2>1. a \in Nat /\ t \in Nat /\ t > 0
    BY <1>1
  <2>2. Drain!Whole(size, w, c) = a \div t /\ Drain!Remainder(size, w, c) = a % t
    BY DEF Drain!Whole, Drain!Remainder
  <2>3. a \div t \in Nat /\ a % t \in Nat /\ a % t < t /\ a = t * (a \div t) + (a % t)
    BY <2>1, Division
  <2>4. w[c] * size = Drain!Total(w) * Drain!Whole(size, w, c) + Drain!Remainder(size, w, c)
    BY <2>2, <2>3
  <2> QED
    BY <2>2, <2>3, <2>4
<1> QED
  BY <1>1, <1>2

LEMMA UnitsLeft ==
    ASSUME NEW size \in Nat, NEW w \in Split, Drain!Total(w) > 0
    PROVE  /\ Over(size, w) \in 0 .. 2
           /\ Drain!Remainder(size, w, "embed") + Drain!Remainder(size, w, "maintenance")
                  + Drain!Remainder(size, w, "write_path") = Drain!Total(w) * Over(size, w)
<1> PICK t, a, b, c, wa, wb, wc, ra, rb, rc :
        /\ t = Drain!Total(w)
        /\ a = w["embed"] /\ b = w["maintenance"] /\ c = w["write_path"]
        /\ wa = Drain!Whole(size, w, "embed") /\ wb = Drain!Whole(size, w, "maintenance")
        /\ wc = Drain!Whole(size, w, "write_path")
        /\ ra = Drain!Remainder(size, w, "embed") /\ rb = Drain!Remainder(size, w, "maintenance")
        /\ rc = Drain!Remainder(size, w, "write_path")
  OBVIOUS
<1>1. /\ t \in Nat /\ t > 0 /\ a \in Nat /\ b \in Nat /\ c \in Nat /\ t = a + b + c
      /\ wa \in Nat /\ wb \in Nat /\ wc \in Nat
      /\ ra \in Nat /\ rb \in Nat /\ rc \in Nat /\ ra < t /\ rb < t /\ rc < t
      /\ a * size = t * wa + ra /\ b * size = t * wb + rb /\ c * size = t * wc + rc
  BY Parts DEF Drain!Total, Split, Drain!Classes
<1>2. Over(size, w) = size - (wa + wb + wc)
  BY <1>1 DEF Over, Drain!Total, Drain!Classes
<1>3. PICK over \in Int : over = size - (wa + wb + wc)
  BY <1>1
<1>4. ra + rb + rc = t * over
  <2>1. a * size + b * size + c * size = t * size
    BY <1>1
  <2>2. t * size = t * wa + t * wb + t * wc + t * over
    BY <1>1, <1>3
  <2>3. /\ t * wa \in Int /\ t * wb \in Int /\ t * wc \in Int /\ t * over \in Int
        /\ t * size \in Int /\ a * size \in Int /\ b * size \in Int /\ c * size \in Int
    BY <1>1
  <2>4. t * wa + ra + (t * wb + rb) + (t * wc + rc) = t * wa + t * wb + t * wc + t * over
    BY <1>1, <2>1, <2>2
  <2> QED
    <3> PICK x \in Int, y \in Int, z \in Int, o \in Int :
            x = t * wa /\ y = t * wb /\ z = t * wc /\ o = t * over
      BY <2>3
    <3>1. ra \in Int /\ rb \in Int /\ rc \in Int
      BY <1>1
    <3>2. x + ra + (y + rb) + (z + rc) = x + y + z + o
      BY <2>4
    <3>3. ra + rb + rc = o
      BY <3>1, <3>2
    <3> QED
      BY <3>3
<1>5. over >= 0
  <2>1. SUFFICES ASSUME over <= -1 PROVE FALSE
    BY <1>3
  <2>2. t * over <= -t
    BY <1>1, <2>1
  <2> QED
    BY <1>1, <1>4, <2>2
<1>6. over <= 2
  <2>1. SUFFICES ASSUME over >= 3 PROVE FALSE
    BY <1>3
  <2>2. t * over >= 3 * t
    BY <1>1, <2>1
  <2> QED
    BY <1>1, <1>4, <2>2
<1> QED
  BY <1>2, <1>3, <1>4, <1>5, <1>6

\* The classes stand in a row, by what is left of each and then by name.
LEMMA Row3 ==
    ASSUME NEW size \in Nat, NEW w \in Split, Drain!Total(w) > 0
    PROVE  \E f, s, t \in Drain!Classes :
               /\ f # s /\ f # t /\ s # t
               /\ Drain!Ahead(size, w, f) = {} /\ Drain!Ahead(size, w, s) = {f}
               /\ Drain!Ahead(size, w, t) = {f, s}
               /\ Drain!Remainder(size, w, f) >= Drain!Remainder(size, w, s)
               /\ Drain!Remainder(size, w, s) >= Drain!Remainder(size, w, t)
<1> PICK ra, rb, rc : /\ ra = Drain!Remainder(size, w, "embed")
                      /\ rb = Drain!Remainder(size, w, "maintenance")
                      /\ rc = Drain!Remainder(size, w, "write_path")
  OBVIOUS
<1>1. ra \in Nat /\ rb \in Nat /\ rc \in Nat
  BY Parts DEF Drain!Classes
<1>2. /\ Drain!Ahead(size, w, "embed") = (IF rb > ra THEN {"maintenance"} ELSE {})
                                  \cup (IF rc > ra THEN {"write_path"} ELSE {})
      /\ Drain!Ahead(size, w, "maintenance") = (IF ra >= rb THEN {"embed"} ELSE {})
                                        \cup (IF rc > rb THEN {"write_path"} ELSE {})
      /\ Drain!Ahead(size, w, "write_path") = (IF ra >= rc THEN {"embed"} ELSE {})
                                       \cup (IF rb >= rc THEN {"maintenance"} ELSE {})
  BY <1>1 DEF Drain!Ahead, Drain!Classes, Drain!Precedes, Drain!NameRank
<1>3. CASE ra >= rb /\ rb >= rc
  <2>1. /\ Drain!Ahead(size, w, "embed") = {} /\ Drain!Ahead(size, w, "maintenance") = {"embed"}
        /\ Drain!Ahead(size, w, "write_path") = {"embed", "maintenance"}
    BY <1>1, <1>2, <1>3
  <2> QED
    BY <1>3, <2>1 DEF Drain!Classes
<1>4. CASE ra >= rc /\ rc > rb
  <2>1. /\ Drain!Ahead(size, w, "embed") = {} /\ Drain!Ahead(size, w, "write_path") = {"embed"}
        /\ Drain!Ahead(size, w, "maintenance") = {"embed", "write_path"}
    BY <1>1, <1>2, <1>4
  <2> QED
    BY <1>1, <1>4, <2>1 DEF Drain!Classes
<1>5. CASE rb > ra /\ ra >= rc
  <2>1. /\ Drain!Ahead(size, w, "maintenance") = {} /\ Drain!Ahead(size, w, "embed") = {"maintenance"}
        /\ Drain!Ahead(size, w, "write_path") = {"maintenance", "embed"}
    BY <1>1, <1>2, <1>5
  <2> QED
    BY <1>1, <1>5, <2>1 DEF Drain!Classes
<1>6. CASE rb >= rc /\ rc > ra
  <2>1. /\ Drain!Ahead(size, w, "maintenance") = {} /\ Drain!Ahead(size, w, "write_path") = {"maintenance"}
        /\ Drain!Ahead(size, w, "embed") = {"maintenance", "write_path"}
    BY <1>1, <1>2, <1>6
  <2> QED
    BY <1>1, <1>6, <2>1 DEF Drain!Classes
<1>7. CASE rc > ra /\ ra >= rb
  <2>1. /\ Drain!Ahead(size, w, "write_path") = {} /\ Drain!Ahead(size, w, "embed") = {"write_path"}
        /\ Drain!Ahead(size, w, "maintenance") = {"write_path", "embed"}
    BY <1>1, <1>2, <1>7
  <2> QED
    BY <1>1, <1>7, <2>1 DEF Drain!Classes
<1>8. CASE rc > rb /\ rb > ra
  <2>1. /\ Drain!Ahead(size, w, "write_path") = {} /\ Drain!Ahead(size, w, "maintenance") = {"write_path"}
        /\ Drain!Ahead(size, w, "embed") = {"write_path", "maintenance"}
    BY <1>1, <1>2, <1>8
  <2> QED
    BY <1>1, <1>8, <2>1 DEF Drain!Classes
<1> QED
  BY <1>1, <1>3, <1>4, <1>5, <1>6, <1>7, <1>8

\* The units left over go to the first of that row, so nothing is lost or made,
\* and a class nothing is left of gets none.
LEMMA Rounding ==
    ASSUME NEW size \in Nat, NEW w \in Split, Drain!Total(w) > 0
    PROVE  LET q == Drain!LargestRemainder(size, w) IN
           /\ q \in Split /\ Drain!Total(q) = size
           /\ \A c \in Drain!Classes : Drain!Remainder(size, w, c) = 0 => q[c] = Drain!Whole(size, w, c)
<1> PICK over, tw : over = Over(size, w) /\ tw = Drain!Total(w)
  OBVIOUS
<1>1. PICK f, s, t \in Drain!Classes :
               /\ f # s /\ f # t /\ s # t
               /\ Drain!Ahead(size, w, f) = {} /\ Drain!Ahead(size, w, s) = {f}
               /\ Drain!Ahead(size, w, t) = {f, s}
               /\ Drain!Remainder(size, w, f) >= Drain!Remainder(size, w, s)
               /\ Drain!Remainder(size, w, s) >= Drain!Remainder(size, w, t)
  BY Row3
<1>2. PICK q, qf, qs, qt : /\ q = Drain!LargestRemainder(size, w)
                           /\ qf = Drain!Whole(size, w, f) /\ qs = Drain!Whole(size, w, s)
                           /\ qt = Drain!Whole(size, w, t)
  OBVIOUS
<1>3. over \in 0 .. 2 /\ qf \in Nat /\ qs \in Nat /\ qt \in Nat /\ tw \in Nat /\ tw > 0
  BY <1>2, UnitsLeft, Parts
<1>4. /\ q[f] = (IF 0 < over THEN qf + 1 ELSE qf)
      /\ q[s] = (IF 1 < over THEN qs + 1 ELSE qs)
      /\ q[t] = (IF 2 < over THEN qt + 1 ELSE qt)
      /\ q = [c \in Drain!Classes |-> q[c]]
  <2>1. q = [c \in Drain!Classes |-> IF Cardinality(Drain!Ahead(size, w, c)) < over
                               THEN Drain!Whole(size, w, c) + 1 ELSE Drain!Whole(size, w, c)]
    <3>1. over = size - Drain!Total([c \in Drain!Classes |-> Drain!Whole(size, w, c)])
      BY DEF Over
    <3> QED
      BY <1>2, <3>1, SameCount DEF Drain!LargestRemainder
  <2>2. /\ Cardinality(Drain!Ahead(size, w, f)) = 0 /\ Cardinality(Drain!Ahead(size, w, s)) = 1
        /\ Cardinality(Drain!Ahead(size, w, t)) = 2
    <3>1. Cardinality(Drain!Ahead(size, w, f)) = 0
      BY <1>1, SmallSets
    <3>2. Cardinality(Drain!Ahead(size, w, s)) = 1
      BY <1>1, SmallSets
    <3>3. Cardinality({f, s}) = 2
      BY <1>1, SmallSets
    <3> QED
      BY <1>1, <3>1, <3>2, <3>3
  <2> QED
    BY <1>1, <1>2, <2>1, <2>2
<1>5. \A g \in Split : Drain!Total(g) = g[f] + g[s] + g[t]
  BY <1>1, TotalInAnyOrder
<1>6. /\ \A c \in Drain!Classes : c \in {f, s, t}
      /\ Drain!Remainder(size, w, f) + Drain!Remainder(size, w, s) + Drain!Remainder(size, w, t) = tw * over
  <2>1. \A c \in Drain!Classes : c \in {f, s, t}
    BY <1>1 DEF Drain!Classes
  <2>2. \A c \in Drain!Classes : Drain!Remainder(size, w, c) \in Nat
    BY Parts
  <2>3. Drain!Remainder(size, w, "embed") + Drain!Remainder(size, w, "maintenance")
            + Drain!Remainder(size, w, "write_path") = tw * over
    BY UnitsLeft
  <2> QED
    BY <1>1, <2>1, <2>2, <2>3 DEF Drain!Classes
<1>7. q \in Split
  BY <1>3, <1>4, <1>6 DEF Split
<1>8. Drain!Total(q) = size
  <2>1. Drain!Total([c \in Drain!Classes |-> Drain!Whole(size, w, c)]) = qf + qs + qt
    BY <1>1, <1>2, <1>3, <1>6 DEF Drain!Total, Drain!Classes
  <2>2. size - (qf + qs + qt) = over
    BY <2>1 DEF Over
  <2>3. Drain!Total(q) = q[f] + q[s] + q[t]
    BY <1>5, <1>7
  <2> QED
    BY <1>3, <1>4, <2>2, <2>3
<1>9. ASSUME NEW c \in Drain!Classes, Drain!Remainder(size, w, c) = 0 PROVE q[c] = Drain!Whole(size, w, c)
  <2> PICK rf, rs, rt : /\ rf = Drain!Remainder(size, w, f)
                        /\ rs = Drain!Remainder(size, w, s)
                        /\ rt = Drain!Remainder(size, w, t)
    OBVIOUS
  <2>1. /\ rf \in Nat /\ rs \in Nat /\ rt \in Nat /\ rf < tw /\ rs < tw /\ rt < tw
        /\ rf + rs + rt = tw * over /\ rf >= rs /\ rs >= rt
    BY <1>1, <1>6, Parts
  <2>2. over = 1 => rf + rs + rt = tw
    BY <1>3, <2>1
  <2>3. over = 2 => rf + rs + rt = tw + tw
    BY <1>3, <2>1
  <2>4. CASE c = f
    <3>1. over = 0
      <4>1. rf + rs + rt = 0
        BY <1>9, <2>1, <2>4
      <4> QED
        BY <1>3, <2>2, <2>3, <4>1
    <3> QED
      BY <1>2, <1>4, <2>4, <3>1
  <2>5. CASE c = s
    <3>1. over < 2
      BY <1>3, <1>9, <2>1, <2>3, <2>5
    <3> QED
      BY <1>2, <1>3, <1>4, <2>5, <3>1
  <2>6. CASE c = t
    BY <1>2, <1>3, <1>4, <2>6
  <2> QED
    BY <1>6, <2>4, <2>5, <2>6
<1> QED
  BY <1>2, <1>7, <1>8, <1>9

\* The class a job is lent by has most, so lending keeps the total, takes no
\* class its last job, gives none to a class without a share, and with three
\* jobs or more always succeeds.
LEMMA DonorHasMost ==
    ASSUME NEW q \in Split
    PROVE  Drain!Donor(q) \in Drain!Classes /\ \A c \in Drain!Classes : q[c] <=
         q[Drain!Donor(q)]
<1> PICK a, b, c : a = q["embed"] /\ b = q["maintenance"] /\ c = q["write_path"]
  OBVIOUS
<1>1. a \in Nat /\ b \in Nat /\ c \in Nat
  BY DEF Split, Drain!Classes
<1> DEFINE Most(d) == \A e \in Drain!Classes : q[e] < q[d] \/ (q[e] = q[d] /\ ~Drain!Precedes(e, d))
<1>2. \E d \in Drain!Classes : Most(d)
  <2>1. CASE a >= b /\ a >= c
    <3>1. Most("embed")
      BY <1>1, <2>1 DEF Drain!Classes, Drain!Precedes, Drain!NameRank
    <3> QED
      BY <3>1 DEF Drain!Classes
  <2>2. CASE b > a /\ b >= c
    <3>1. Most("maintenance")
      BY <1>1, <2>2 DEF Drain!Classes, Drain!Precedes, Drain!NameRank
    <3> QED
      BY <3>1 DEF Drain!Classes
  <2>3. CASE c > a /\ c > b
    <3>1. Most("write_path")
      BY <1>1, <2>3 DEF Drain!Classes, Drain!Precedes, Drain!NameRank
    <3> QED
      BY <3>1 DEF Drain!Classes
  <2> QED
    BY <1>1, <2>1, <2>2, <2>3
<1>3. Drain!Donor(q) \in Drain!Classes /\ Most(Drain!Donor(q))
  BY <1>2 DEF Drain!Donor
<1> QED
  BY <1>3 DEF Split

Lent(q, w, c, r) ==
    /\ r \in Split /\ Drain!Total(r) = Drain!Total(q)
    /\ \A d \in Drain!Classes : q[d] > 0 => r[d] > 0
    /\ \A d \in Drain!Classes : r[d] > 0 => q[d] > 0 \/ w[d] > 0
    /\ Drain!Total(q) >= 3 /\ w[c] > 0 => r[c] > 0
    /\ q[c] > 0 \/ w[c] = 0 => r = q

LEMMA Lending ==
    ASSUME NEW q \in Split, NEW w \in Split, NEW c \in Drain!Classes, NEW r, r = Drain!Lend(q, w, c)
    PROVE  Lent(q, w, c, r)
<1> PICK d : d = Drain!Donor(q)
  OBVIOUS
<1>1. d \in Drain!Classes /\ \A e \in Drain!Classes : q[e] <= q[d]
  BY DonorHasMost
<1>2. \A e \in Drain!Classes : q[e] \in Nat /\ w[e] \in Nat
  BY DEF Split
<1>3. CASE w[c] > 0 /\ q[c] = 0 /\ q[d] > 1
  <2>1. d # c /\ r = [q EXCEPT ![d] = q[d] - 1, ![c] = 1]
    BY <1>2, <1>3 DEF Drain!Lend
  <2>2. /\ r[d] = q[d] - 1 /\ r[c] = 1
        /\ \A e \in Drain!Classes \ {c, d} : r[e] = q[e]
        /\ r = [e \in Drain!Classes |-> r[e]]
    BY <1>1, <2>1 DEF Split
  <2>3. \A e \in Drain!Classes : r[e] \in Nat
    BY <1>1, <1>2, <1>3, <2>2
  <2>4. r \in Split
    BY <2>2, <2>3 DEF Split
  <2>5. PICK e \in Drain!Classes : e # c /\ e # d /\ \A x \in Drain!Classes : x \in {c, d, e}
    BY <1>1, <2>1 DEF Drain!Classes
  <2>6. Drain!Total(r) = r[c] + r[d] + r[e] /\ Drain!Total(q) = q[c] + q[d] + q[e]
    <3>1. c # d /\ c # e /\ d # e /\ d \in Drain!Classes
      BY <1>1, <2>1, <2>5
    <3>2. Drain!Total(r) = r[c] + r[d] + r[e]
      BY <2>4, <3>1, TotalInAnyOrder
    <3>3. Drain!Total(q) = q[c] + q[d] + q[e]
      BY <3>1, TotalInAnyOrder
    <3> QED
      BY <3>2, <3>3
  <2>7. Drain!Total(r) = Drain!Total(q)
    BY <1>1, <1>2, <1>3, <2>2, <2>5, <2>6
  <2> QED
    BY <1>1, <1>2, <1>3, <2>2, <2>3, <2>4, <2>7 DEF Lent
<1>4. CASE ~(w[c] > 0 /\ q[c] = 0 /\ q[d] > 1)
  <2>1. r = q
    BY <1>4 DEF Drain!Lend
  <2>2. Drain!Total(q) >= 3 /\ w[c] > 0 => r[c] > 0
    <3>1. SUFFICES ASSUME Drain!Total(q) >= 3, w[c] > 0, q[c] = 0 PROVE FALSE
      BY <1>2, <2>1
    <3>2. q[d] <= 1
      BY <1>1, <1>2, <1>4, <3>1
    <3>3. \A e \in Drain!Classes : q[e] \in {0, 1}
      BY <1>1, <1>2, <3>2
    <3> QED
      BY <3>1, <3>3 DEF Drain!Total, Drain!Classes
  <2> QED
    BY <1>2, <2>1, <2>2 DEF Lent
<1> QED
  BY <1>3, <1>4

\* The quotas of a drain: they add up to its budget, are the declared shares
\* where those are whole jobs, and leave no class with a share without a job.
QuotasOf(size, w, q) ==
    /\ q \in Split /\ Drain!Total(q) = size
    /\ (Drain!Total(w) > 0 /\ \A c \in Drain!Classes : Drain!Remainder(size, w, c) = 0) =>
           \A c \in Drain!Classes : q[c] = Drain!Whole(size, w, c)
    /\ (size >= 3 /\ Drain!Total(w) > 0) => \A c \in Drain!Classes : w[c] > 0 <=> q[c] > 0

LEMMA QuotasRight ==
    ASSUME NEW size \in Nat, NEW w \in Split, NEW q, q = Drain!DrainQuotas(size, w)
    PROVE  QuotasOf(size, w, q)
<1>1. CASE size = 0
  <2>1. q = [c \in Drain!Classes |-> 0]
    BY <1>1 DEF Drain!DrainQuotas
  <2>2. q \in Split /\ Drain!Total(q) = 0
    BY <2>1 DEF Split, Drain!Total, Drain!Classes
  <2>3. ASSUME Drain!Total(w) > 0, NEW c \in Drain!Classes, Drain!Remainder(size, w, c) = 0
        PROVE Drain!Whole(size, w, c) = 0
    <3> PICK t, x : t = Drain!Total(w) /\ x = Drain!Whole(size, w, c)
      OBVIOUS
    <3>1. t \in Nat /\ t > 0 /\ x \in Nat /\ 0 = t * x + 0
      BY <1>1, <2>3, Parts DEF Split
    <3>2. x >= 1 => t * x >= t
      BY <3>1
    <3> QED
      BY <3>1, <3>2
  <2> QED
    BY <1>1, <2>1, <2>2, <2>3 DEF QuotasOf
<1>2. CASE size > 0
  <2> PICK v, q0, q1, q2 : /\ v = Drain!Weights(w) /\ q0 = Drain!LargestRemainder(size, v)
                           /\ q1 = Drain!Lend(q0, v, "embed") /\ q2 = Drain!Lend(q1, v, "maintenance")
    OBVIOUS
  <2>1. q = Drain!Lend(q2, v, "write_path")
    BY <1>2 DEF Drain!DrainQuotas
  <2>2. v \in Split /\ Drain!Total(v) > 0
    <3>1. CASE Drain!Total(w) > 0
      BY <3>1 DEF Drain!Weights
    <3>2. CASE ~(Drain!Total(w) > 0)
      <4>1. v = [c \in Drain!Classes |-> 1]
        BY <3>2 DEF Drain!Weights
      <4> QED
        BY <4>1 DEF Split, Drain!Total, Drain!Classes
    <3> QED
      BY <3>1, <3>2
  <2>3. /\ q0 \in Split /\ Drain!Total(q0) = size
        /\ \A c \in Drain!Classes : Drain!Remainder(size, v, c) = 0 => q0[c] = Drain!Whole(size, v, c)
    BY <2>2, Rounding
  <2>4. "embed" \in Drain!Classes /\ "maintenance" \in Drain!Classes /\ "write_path" \in Drain!Classes
    BY DEF Drain!Classes
  <2>5. Lent(q0, v, "embed", q1)
    BY <2>2, <2>3, <2>4, Lending
  <2>6. Lent(q1, v, "maintenance", q2)
    <3>1. q1 \in Split
      BY <2>5 DEF Lent
    <3> QED
      BY <2>2, <2>4, <3>1, Lending
  <2>7. Lent(q2, v, "write_path", q)
    <3>1. q2 \in Split
      BY <2>6 DEF Lent
    <3> QED
      BY <2>1, <2>2, <2>4, <3>1, Lending
  <2>8. q \in Split /\ Drain!Total(q) = size
    BY <2>3, <2>5, <2>6, <2>7 DEF Lent
  <2>9. ASSUME NEW c \in Drain!Classes, Drain!Remainder(size, v, c) = 0 PROVE v[c] > 0 <=> q0[c] > 0
    <3> PICK t, x, s : t = Drain!Total(v) /\ x = Drain!Whole(size, v, c) /\ s = v[c]
      OBVIOUS
    <3>1. t \in Nat /\ t > 0 /\ x \in Nat /\ s \in Nat /\ s * size = t * x + 0 /\ q0[c] = x
      BY <2>2, <2>3, <2>9, Parts DEF Split
    <3>2. x = 0 => s * size = 0
      BY <3>1
    <3>3. x > 0 => s * size > 0
      BY <3>1
    <3>4. s > 0 <=> s * size > 0
      BY <1>2, <3>1
    <3> QED
      BY <3>1, <3>2, <3>3, <3>4
  <2>10. ASSUME Drain!Total(w) > 0, \A c \in Drain!Classes : Drain!Remainder(size, w, c) = 0,
                NEW c \in Drain!Classes
         PROVE  q[c] = Drain!Whole(size, w, c)
    <3>1. v = w
      BY <2>10 DEF Drain!Weights
    <3>2. \A d \in Drain!Classes : q0[d] > 0 \/ v[d] = 0
      BY <2>2, <2>9, <2>10, <3>1 DEF Split
    <3>3. q1 = q0
      BY <2>4, <2>5, <3>2 DEF Lent
    <3>4. q2 = q0
      BY <2>4, <2>6, <3>2, <3>3 DEF Lent
    <3>5. q = q0
      BY <2>4, <2>7, <3>2, <3>4 DEF Lent
    <3> QED
      BY <2>3, <2>10, <3>1, <3>5
  <2>11. ASSUME size >= 3, Drain!Total(w) > 0, NEW c \in Drain!Classes PROVE w[c] > 0 <=> q[c] > 0
    <3>1. v = w
      BY <2>11 DEF Drain!Weights
    <3>2. w[c] > 0 => q[c] > 0
      BY <2>3, <2>5, <2>6, <2>7, <2>11, <3>1 DEF Lent, Drain!Classes
    <3>3. ASSUME w[c] = 0 PROVE Drain!Remainder(size, w, c) = 0
      <4> PICK t, x, r : t = Drain!Total(v) /\ x = Drain!Whole(size, w, c) /\ r = Drain!Remainder(size, w, c)
        OBVIOUS
      <4>1. t \in Nat /\ t > 0 /\ x \in Nat /\ r \in Nat /\ r < t /\ 0 = t * x + r
        BY <2>2, <3>1, <3>3, Parts
      <4>2. t * x >= 0
        BY <4>1
      <4> QED
        BY <4>1, <4>2
    <3>4. w[c] = 0 => q0[c] = 0
      BY <2>3, <2>9, <3>1, <3>3 DEF Split
    <3>5. w[c] = 0 => q[c] = 0
      BY <2>5, <2>6, <2>7, <3>1, <3>4 DEF Lent, Split
    <3>6. w[c] \in Nat /\ q[c] \in Nat
      BY <2>8 DEF Split
    <3> QED
      BY <3>2, <3>5, <3>6
  <2> QED
    BY <2>8, <2>10, <2>11 DEF QuotasOf
<1> QED
  BY <1>1, <1>2

-----------------------------------------------------------------------------
(* The rounds of a drain *)

\* What a class has had and may still have is its quota, unless it was found
\* empty; the classes served in the present round are one job ahead, at most.
Place == [write_path |-> 1, embed |-> 2, maintenance |-> 3]
Gone(c, a) == IF Place[c] < a THEN 1 ELSE 0

Sound ==
    /\ budget \in 0 .. MaxBudget /\ shares \in [Drain!Classes -> 0 .. MaxShare]
    /\ QuotasOf(budget, shares, Drain!Quotas)
    /\ phase \in {"quotas", "rest", "over"} /\ at \in 1 .. 3 /\ progressed \in BOOLEAN
    /\ left \in Split /\ ran \in Split /\ dry \subseteq Drain!Classes /\ spent \subseteq Drain!Classes
    /\ Drain!Done <= budget
    /\ \A c \in Drain!Classes : c \notin dry => ran[c] + left[c] >= Drain!Quotas[c]

InRounds ==
    /\ \A c \in Drain!Classes : ran[c] + left[c] <= Drain!Quotas[c]
    /\ \A c, d \in Drain!Classes : left[d] > 0 => ran[c] + Gone(d, at) <= ran[d] + Gone(c, at)
    /\ ~progressed => \A c \in Drain!Classes : Gone(c, at) = 1 => left[c] = 0

AfterRounds ==
    /\ \A c \in Drain!Classes : left[c] = 0
    /\ phase = "rest" => \A c \in Drain!Classes : Gone(c, at) = 1 => c \in spent
    /\ phase = "over" /\ Drain!Done < budget => spent = Drain!Classes

DrainInv ==
    /\ Sound
    /\ phase = "quotas" => InRounds
    /\ phase # "quotas" => AfterRounds

LEMMA SplitTotal ==
    ASSUME NEW f \in Split
    PROVE  Drain!Total(f) \in Nat /\ \A c \in Drain!Classes : f[c] \in Nat /\ f[c] <=
         Drain!Total(f)
<1>1. f["embed"] \in Nat /\ f["maintenance"] \in Nat /\ f["write_path"] \in Nat
  BY DEF Split, Drain!Classes
<1> QED
  BY <1>1 DEF Drain!Total, Drain!Classes

\* When the budget is spent no quota is left.
LEMMA SpentIsSpent ==
    ASSUME NEW f \in Split, NEW g \in Split, NEW q \in Split,
           \A c \in Drain!Classes : f[c] + g[c] <= q[c], Drain!Total(f) >= Drain!Total(q)
    PROVE  \A c \in Drain!Classes : g[c] = 0
<1>1. \A c \in Drain!Classes : f[c] \in Nat /\ g[c] \in Nat /\ q[c] \in Nat
  BY DEF Split
<1>2. /\ f["embed"] + g["embed"] <= q["embed"]
      /\ f["maintenance"] + g["maintenance"] <= q["maintenance"]
      /\ f["write_path"] + g["write_path"] <= q["write_path"]
  BY DEF Drain!Classes
<1>3. g["embed"] = 0 /\ g["maintenance"] = 0 /\ g["write_path"] = 0
  BY <1>1, <1>2 DEF Drain!Total, Drain!Classes
<1> QED
  BY <1>3 DEF Drain!Classes

LEMMA DrainStarts == ASSUME MaxBudget \in Nat, MaxShare \in Nat PROVE Drain!Init => DrainInv
<1> SUFFICES ASSUME Drain!Init PROVE DrainInv
  OBVIOUS
<1> PICK q : q = Drain!Quotas
  OBVIOUS
<1> PICK size \in Nat, w \in Split : size = budget /\ w = shares
  BY DEF Drain!Init, Split
<1>1. QuotasOf(size, w, q)
  BY QuotasRight DEF Drain!Quotas
<1>2. left = q /\ q \in Split /\ Drain!Total(q) = size
  BY <1>1 DEF Drain!Init, Drain!Quotas, QuotasOf
<1>3. ran = [c \in Drain!Classes |-> 0] /\ Drain!Done = 0
  BY DEF Drain!Init, Drain!Done, Drain!Total, Drain!Classes
<1>4. size = 0 => \A c \in Drain!Classes : q[c] = 0
  <2> SUFFICES ASSUME size = 0, NEW c \in Drain!Classes PROVE q[c] = 0
    OBVIOUS
  <2>1. Drain!Total(q) \in Nat /\ q[c] \in Nat /\ q[c] <= Drain!Total(q)
    BY <1>2, SplitTotal
  <2> QED
    BY <1>2, <2>1
<1>5. /\ budget \in 0 .. MaxBudget /\ shares \in [Drain!Classes -> 0 .. MaxShare]
      /\ phase = (IF size = 0 THEN "over" ELSE "quotas") /\ at = 1 /\ progressed = FALSE
      /\ dry = {} /\ spent = {}
  BY DEF Drain!Init
<1>6. ran \in Split /\ \A c \in Drain!Classes : ran[c] = 0 /\ Gone(c, 1) = 0
  BY <1>3 DEF Split, Gone, Place, Drain!Classes
<1>7. QuotasOf(budget, shares, Drain!Quotas)
  BY <1>1
<1>8. \A c \in Drain!Classes : q[c] \in Nat
  BY <1>2 DEF Split
<1>9. /\ \A c \in Drain!Classes : ran[c] + left[c] = Drain!Quotas[c]
      /\ \A c, d \in Drain!Classes : ran[c] + Gone(d, at) <= ran[d] + Gone(c, at)
      /\ \A c \in Drain!Classes : Gone(c, at) # 1
      /\ phase # "quotas" => size = 0 /\ phase = "over"
  BY <1>2, <1>5, <1>6, <1>8
<1>10. /\ left \in Split /\ ran \in Split /\ Drain!Done <= budget /\ (size = 0 => ~(Drain!Done < budget))
       /\ (phase # "quotas" => \A c \in Drain!Classes : left[c] = 0)
       /\ \A c \in Drain!Classes : ran[c] + left[c] >= Drain!Quotas[c] /\ ran[c] + left[c] <= Drain!Quotas[c]
  BY <1>2, <1>3, <1>4, <1>6, <1>8, <1>9
<1>11. Sound
  <2>1. progressed \in BOOLEAN
    <3>1. progressed = FALSE
      BY DEF Drain!Init
    <3> QED
      BY <3>1, Zenon
  <2>2. phase \in {"quotas", "rest", "over"} /\ at \in 1 .. 3
        /\ dry \subseteq Drain!Classes /\ spent \subseteq Drain!Classes
    BY <1>5
  <2> QED
    BY <1>5, <1>7, <1>10, <2>1, <2>2 DEF Sound
<1>12. InRounds
  BY <1>9, <1>10 DEF InRounds
<1>13. phase # "quotas" => AfterRounds
  BY <1>9, <1>10 DEF AfterRounds
<1> QED
  BY <1>11, <1>12, <1>13 DEF DrainInv

\* One class has been visited in its turn, and whether a job ran in this round.
Visited(moved) ==
    /\ left' \in Split /\ ran' \in Split /\ dry' \subseteq Drain!Classes
    /\ UNCHANGED <<budget, shares, spent>>
    /\ Drain!Total(ran') <= budget
    /\ \A c \in Drain!Classes : c \notin dry' => ran'[c] + left'[c] >= Drain!Quotas[c]
    /\ \A c \in Drain!Classes : ran'[c] + left'[c] <= Drain!Quotas[c]
    /\ \A c, d \in Drain!Classes : left'[d] > 0 =>
           ran'[c] + Gone(d, at + 1) <= ran'[d] + Gone(c, at + 1)
    /\ ~moved => \A c \in Drain!Classes : Gone(c, at + 1) = 1 => left'[c] = 0

LEMMA OnwardKeeps ==
    ASSUME MaxBudget \in Nat, DrainInv, phase = "quotas", NEW moved \in BOOLEAN, Visited(moved),
           NEW done, done = Drain!Total(ran'), Drain!Onward(done, moved)
    PROVE  DrainInv'
<1>1. QuotasOf(budget, shares, Drain!Quotas)' /\ Drain!Quotas' = Drain!Quotas
  <2>1. Drain!Quotas' = Drain!Quotas
    BY DEF Drain!Quotas, Visited
  <2> QED
    BY <2>1 DEF DrainInv, Sound, InRounds, AfterRounds, Visited
<1>2. /\ budget' \in 0 .. MaxBudget /\ shares' \in [Drain!Classes -> 0 .. MaxShare]
      /\ left' \in Split /\ ran' \in Split /\ dry' \subseteq Drain!Classes /\ spent' \subseteq Drain!Classes
      /\ Drain!Done' <= budget'
      /\ \A c \in Drain!Classes : c \notin dry' => ran'[c] + left'[c] >= Drain!Quotas'[c]
  BY <1>1 DEF DrainInv, Sound, InRounds, AfterRounds, Visited, Drain!Done
<1>5. Sound'
  <2>1. phase' \in {"quotas", "rest", "over"} /\ at' \in 1 .. 3 /\ progressed' \in BOOLEAN
    <3>1. CASE at < 3
      BY <3>1 DEF Drain!Onward, DrainInv, Sound
    <3>2. CASE ~(at < 3)
      <4>1. progressed' = FALSE
        BY <3>2 DEF Drain!Onward
      <4>2. progressed' \in BOOLEAN
        BY <4>1, Zenon
      <4> QED
        BY <3>2, <4>2 DEF Drain!Onward
    <3> QED
      BY <3>1, <3>2
  <2> QED
    BY <1>1, <1>2, <2>1 DEF Sound
<1>3. CASE at < 3
  <2>1. at' = at + 1 /\ at' \in 1 .. 3 /\ progressed' = moved /\ phase' = "quotas"
    BY <1>3 DEF Drain!Onward, DrainInv, Sound, InRounds, AfterRounds
  <2> QED
    BY <1>1, <1>5, <2>1 DEF DrainInv, InRounds, Visited
<1>4. CASE at = 3
  <2>1. at' = 1 /\ progressed' = FALSE
        /\ phase' = IF done = budget THEN "over" ELSE IF moved THEN "quotas" ELSE "rest"
    BY <1>4 DEF Drain!Onward
  <2>2. \A c \in Drain!Classes : Gone(c, at + 1) = 1 /\ Gone(c, 1) = 0
    BY <1>4 DEF Gone, Place, Drain!Classes
  <2>3. \A c \in Drain!Classes : ran'[c] \in Nat /\ left'[c] \in Nat
    BY <1>2 DEF Split
  <2>4. CASE done = budget
    <3> PICK f, g, q : f = ran' /\ g = left' /\ q = Drain!Quotas
      OBVIOUS
    <3>1. f \in Split /\ g \in Split /\ q \in Split /\ Drain!Total(q) = budget
      BY <1>2 DEF DrainInv, Sound, InRounds, AfterRounds, QuotasOf
    <3>2. (\A c \in Drain!Classes : f[c] + g[c] <= q[c]) /\ Drain!Total(f) >= Drain!Total(q)
      BY <2>4, <3>1 DEF DrainInv, Sound, InRounds, AfterRounds, Visited
    <3>3. \A c \in Drain!Classes : left'[c] = 0
      BY <3>1, <3>2, SpentIsSpent
    <3>4. phase' = "over" /\ ~(Drain!Done' < budget')
      BY <2>1, <2>4 DEF Drain!Done, Visited, DrainInv, Sound, InRounds, AfterRounds
    <3> QED
      BY <1>5, <2>1, <3>3, <3>4 DEF DrainInv, AfterRounds
  <2>5. CASE done # budget /\ moved
    <3>1. phase' = "quotas" /\ at' = 1
      BY <2>1, <2>5
    <3>2. \A c, d \in Drain!Classes : left'[d] > 0 => ran'[c] + Gone(d, 1) <= ran'[d] + Gone(c, 1)
      BY <2>2, <2>3 DEF Visited
    <3> QED
      BY <1>1, <1>5, <2>1, <2>2, <3>1, <3>2 DEF DrainInv, InRounds, Visited
  <2>6. CASE done # budget /\ ~moved
    <3>1. phase' = "rest" /\ at' = 1
      BY <2>1, <2>6
    <3>2. \A c \in Drain!Classes : left'[c] = 0
      BY <2>2, <2>6 DEF Visited
    <3> QED
      BY <1>5, <2>1, <2>2, <3>1, <3>2 DEF DrainInv, AfterRounds
  <2> QED
    BY <2>4, <2>5, <2>6
<1> QED
  BY <1>3, <1>4 DEF DrainInv, Sound, InRounds, AfterRounds

\* Only the class whose turn it is goes from waiting to served.
LEMMA TurnOfOne ==
    ASSUME NEW a \in 1 .. 3, NEW e, e = Drain!Turn[a]
    PROVE  /\ e \in Drain!Classes /\ Gone(e, a) = 0 /\ Gone(e, a + 1) = 1
           /\ \A c \in Drain!Classes : Gone(c, a) \in {0, 1} /\ Gone(c, a + 1) \in {0, 1}
           /\ \A c \in Drain!Classes \ {e} : Gone(c, a + 1) = Gone(c, a)
BY DEF Drain!Turn, Drain!Classes, Gone, Place

OneJobMore(f, e, g) ==
    /\ g \in Split /\ Drain!Total(g) = Drain!Total(f) + 1 /\ g[e] = f[e] + 1
    /\ \A c \in Drain!Classes \ {e} : g[c] = f[c]

LEMMA Single ==
    ASSUME NEW f \in Split, NEW e \in Drain!Classes, NEW g, g = [f EXCEPT ![e] = f[e] + 1]
    PROVE  OneJobMore(f, e, g)
<1>1. f["embed"] \in Nat /\ f["maintenance"] \in Nat /\ f["write_path"] \in Nat
  BY DEF Split, Drain!Classes
<1>2. g \in Split /\ g[e] = f[e] + 1 /\ \A c \in Drain!Classes \ {e} : g[c] = f[c]
  BY DEF Split
<1>3. Drain!Total(g) = Drain!Total(f) + 1
  BY <1>1, <1>2 DEF Drain!Total, Drain!Classes
<1> QED
  BY <1>2, <1>3 DEF OneJobMore

LEMMA RoundKeeps ==
    ASSUME MaxBudget \in Nat, DrainInv, Drain!Serve \/ Drain!Miss \/ Drain!Skip
    PROVE  DrainInv'
<1> PICK a \in 1 .. 3 : a = at
  BY DEF DrainInv, Sound, InRounds, AfterRounds
<1> PICK e : e = Drain!Turn[a]
  OBVIOUS
<1>1. /\ e \in Drain!Classes /\ Gone(e, a) = 0 /\ Gone(e, a + 1) = 1
      /\ \A c \in Drain!Classes : Gone(c, a) \in {0, 1} /\ Gone(c, a + 1) \in {0, 1}
      /\ \A c \in Drain!Classes \ {e} : Gone(c, a + 1) = Gone(c, a)
  BY TurnOfOne
<1>2. phase = "quotas" /\ Drain!Class = e
  BY DEF Drain!Serve, Drain!Miss, Drain!Skip, Drain!Class
<1>3. /\ left \in Split /\ ran \in Split /\ dry \subseteq Drain!Classes /\ Drain!Total(ran) <= budget
      /\ budget \in Nat /\ Drain!Quotas \in Split /\ Drain!Total(Drain!Quotas) = budget
      /\ \A c \in Drain!Classes : c \notin dry => ran[c] + left[c] >= Drain!Quotas[c]
      /\ \A c \in Drain!Classes : ran[c] + left[c] <= Drain!Quotas[c]
      /\ \A c, d \in Drain!Classes : left[d] > 0 => ran[c] + Gone(d, a) <= ran[d] + Gone(c, a)
      /\ ~progressed => \A c \in Drain!Classes : Gone(c, a) = 1 => left[c] = 0
      /\ progressed \in BOOLEAN
  BY <1>2 DEF DrainInv, Sound, InRounds, AfterRounds, Drain!Done, QuotasOf
<1>4. \A c \in Drain!Classes : ran[c] \in Nat /\ left[c] \in Nat /\ Drain!Quotas[c] \in Nat
  BY <1>3 DEF Split
<1>5. CASE Drain!Serve
  <2> PICK f, g, r : f = ran /\ g = ran' /\ r = left'
    OBVIOUS
  <2>1. /\ left[e] > 0 /\ Drain!Total(f) < budget /\ r = [left EXCEPT ![e] = left[e] - 1]
        /\ g = [f EXCEPT ![e] = f[e] + 1]
        /\ UNCHANGED <<budget, shares, dry, spent>> /\ Drain!Onward(Drain!Total(f) + 1, TRUE)
    BY <1>2, <1>5 DEF Drain!Serve, Drain!Done
  <2>2. g \in Split /\ Drain!Total(g) = Drain!Total(f) + 1 /\ g[e] = f[e] + 1
        /\ \A c \in Drain!Classes \ {e} : g[c] = f[c]
    <3>1. f \in Split /\ e \in Drain!Classes /\ g = [f EXCEPT ![e] = f[e] + 1]
      BY <1>1, <1>3, <2>1
    <3>2. OneJobMore(f, e, g)
      BY <3>1, Single
    <3> QED
      BY <3>2 DEF OneJobMore
  <2>3. /\ r[e] = left[e] - 1 /\ \A c \in Drain!Classes \ {e} : r[c] = left[c]
        /\ r = [c \in Drain!Classes |-> r[c]]
    BY <1>1, <1>3, <2>1 DEF Split
  <2>4. r \in Split
    <3>1. \A c \in Drain!Classes : r[c] \in Nat
      BY <1>1, <1>4, <2>1, <2>3
    <3> QED
      BY <2>3, <3>1 DEF Split
  <2>5. Drain!Total(f) \in Nat
    BY <1>3, SplitTotal
  <2>6. \A c \in Drain!Classes : g[c] + r[c] = f[c] + left[c]
    BY <1>4, <2>2, <2>3
  <2>7. \A c, d \in Drain!Classes : r[d] > 0 => g[c] + Gone(d, a + 1) <= g[d] + Gone(c, a + 1)
    <3> SUFFICES ASSUME NEW c \in Drain!Classes, NEW d \in Drain!Classes, r[d] > 0
                 PROVE  g[c] + Gone(d, a + 1) <= g[d] + Gone(c, a + 1)
      OBVIOUS
    <3>1. left[d] > 0
      BY <1>1, <1>4, <2>1, <2>3
    <3>2. f[c] + Gone(d, a) <= f[d] + Gone(c, a)
      BY <1>3, <3>1
    <3> QED
      BY <1>1, <1>4, <2>2, <3>2
  <2>8. Visited(TRUE)
    BY <1>3, <2>1, <2>2, <2>4, <2>5, <2>6, <2>7 DEF Visited
  <2>9. PICK done : done = Drain!Total(ran')
    OBVIOUS
  <2>10. Drain!Onward(done, TRUE)
    BY <2>1, <2>2, <2>9
  <2> QED
    BY <1>2, <2>8, <2>9, <2>10, OnwardKeeps
<1>6. CASE Drain!Miss \/ Drain!Skip
  <2> PICK m \in BOOLEAN : m = progressed
    BY <1>3
  <2> PICK f, r, done : f = ran /\ r = left' /\ done = Drain!Total(ran')
    OBVIOUS
  <2>1. /\ UNCHANGED <<budget, shares, ran, spent>> /\ Drain!Onward(Drain!Total(f), m)
        /\ \/ r = [left EXCEPT ![e] = 0] /\ dry' = dry \cup {e}
           \/ r = left /\ dry' = dry /\ (left[e] = 0 \/ Drain!Total(f) = budget)
    BY <1>2, <1>6 DEF Drain!Miss, Drain!Skip, Drain!Done
  <2>2. /\ r[e] = 0 /\ \A c \in Drain!Classes \ {e} : r[c] = left[c]
        /\ r = [c \in Drain!Classes |-> r[c]] /\ dry \subseteq dry' /\ dry' \subseteq Drain!Classes
        /\ r[e] = left[e] \/ e \in dry'
    <3>1. CASE r = [left EXCEPT ![e] = 0] /\ dry' = dry \cup {e}
      BY <1>1, <1>3, <3>1 DEF Split
    <3>2. CASE r = left /\ dry' = dry /\ left[e] = 0
      BY <1>1, <1>3, <3>2 DEF Split
    <3>3. CASE r = left /\ dry' = dry /\ Drain!Total(f) = budget
      <4> PICK g, q : g = left /\ q = Drain!Quotas
        OBVIOUS
      <4>1. g[e] = 0
        BY <1>1, <1>3, <3>3, SpentIsSpent
      <4> QED
        BY <1>1, <1>3, <3>3, <4>1 DEF Split
    <3> QED
      BY <2>1, <3>1, <3>2, <3>3
  <2>3. r \in Split
    <3>1. \A c \in Drain!Classes : r[c] \in Nat
      BY <1>1, <1>4, <2>2
    <3> QED
      BY <2>2, <3>1 DEF Split
  <2>4. \A c \in Drain!Classes : /\ f[c] + r[c] <= f[c] + left[c]
                                 /\ c \notin dry' => r[c] = left[c]
    <3> TAKE c \in Drain!Classes
    <3>1. c = e \/ c # e
      OBVIOUS
    <3> QED
      BY <1>1, <1>4, <2>2, <3>1
  <2>5. \A c, d \in Drain!Classes : r[d] > 0 => f[c] + Gone(d, a + 1) <= f[d] + Gone(c, a + 1)
    <3> SUFFICES ASSUME NEW c \in Drain!Classes, NEW d \in Drain!Classes, r[d] > 0
                 PROVE  f[c] + Gone(d, a + 1) <= f[d] + Gone(c, a + 1)
      OBVIOUS
    <3>1. d # e /\ left[d] > 0
      BY <2>2
    <3>2. f[c] + Gone(d, a) <= f[d] + Gone(c, a)
      BY <1>3, <3>1
    <3> QED
      BY <1>1, <1>4, <3>1, <3>2
  <2>6. ~m => \A c \in Drain!Classes : Gone(c, a + 1) = 1 => r[c] = 0
    BY <1>1, <1>3, <2>2
  <2>7. Visited(m)
    <3>1. \A c \in Drain!Classes : c \notin dry' => f[c] + r[c] >= Drain!Quotas[c]
      BY <1>3, <2>2, <2>4
    <3>2. \A c \in Drain!Classes : f[c] + r[c] <= Drain!Quotas[c]
      <4> TAKE c \in Drain!Classes
      <4>1. f[c] + left[c] <= Drain!Quotas[c]
        BY <1>3
      <4>2. f[c] + r[c] <= f[c] + left[c]
        BY <2>4
      <4>3. f[c] \in Nat /\ left[c] \in Nat /\ r[c] \in Nat /\ Drain!Quotas[c] \in Nat
        BY <1>4, <2>3 DEF Split
      <4> QED
        BY <4>1, <4>2, <4>3
    <3> QED
      BY <1>3, <2>1, <2>2, <2>3, <2>5, <2>6, <3>1, <3>2 DEF Visited
  <2>8. Drain!Onward(done, m)
    BY <2>1
  <2> QED
    BY <1>2, <2>7, <2>8, OnwardKeeps
<1> QED
  BY <1>5, <1>6

\* What is left of the budget goes to whoever has work.
LEMMA RestKeeps ==
    ASSUME MaxBudget \in Nat, DrainInv, Drain!ServeRest \/ Drain!MissRest
    PROVE  DrainInv'
<1> PICK a \in 1 .. 3 : a = at
  BY DEF DrainInv, Sound, InRounds, AfterRounds
<1> PICK e : e = Drain!Turn[a]
  OBVIOUS
<1>1. /\ e \in Drain!Classes /\ Gone(e, a) = 0 /\ Gone(e, a + 1) = 1
      /\ \A c \in Drain!Classes \ {e} : Gone(c, a + 1) = Gone(c, a)
  BY TurnOfOne
<1>2. /\ phase = "rest" /\ Drain!Class = e /\ Drain!Done < budget
      /\ UNCHANGED <<budget, shares, left, progressed, dry>>
  BY DEF Drain!ServeRest, Drain!MissRest, Drain!Class
<1>3. Drain!Quotas' = Drain!Quotas /\ QuotasOf(budget, shares, Drain!Quotas)'
  <2>1. Drain!Quotas' = Drain!Quotas
    BY <1>2 DEF Drain!Quotas
  <2> QED
    BY <1>2, <2>1 DEF DrainInv, Sound, InRounds, AfterRounds
<1>4. \A c \in Drain!Classes : ran[c] \in Nat /\ left[c] \in Nat /\ Drain!Quotas[c] \in Nat
  BY DEF DrainInv, Sound, InRounds, AfterRounds, QuotasOf, Split
<1>5. CASE Drain!ServeRest
  <2> PICK f, g : f = ran /\ g = ran'
    OBVIOUS
  <2>1. /\ g = [f EXCEPT ![e] = f[e] + 1] /\ UNCHANGED <<at, spent>>
        /\ phase' = IF Drain!Done + 1 = budget THEN "over" ELSE "rest"
    BY <1>2, <1>5 DEF Drain!ServeRest
  <2>2. g \in Split /\ Drain!Total(g) = Drain!Total(f) + 1 /\ g[e] = f[e] + 1
        /\ \A c \in Drain!Classes \ {e} : g[c] = f[c]
    <3>1. f \in Split /\ e \in Drain!Classes /\ g = [f EXCEPT ![e] = f[e] + 1]
      BY <1>1, <2>1 DEF DrainInv, Sound
    <3>2. OneJobMore(f, e, g)
      BY <3>1, Single
    <3> QED
      BY <3>2 DEF OneJobMore
  <2>3. Drain!Total(f) \in Nat
    BY SplitTotal DEF DrainInv, Sound, InRounds, AfterRounds
  <2>4. Drain!Done' = Drain!Done + 1 /\ Drain!Done \in Nat /\ budget \in Nat
    BY <2>2, <2>3 DEF Drain!Done, DrainInv, Sound, InRounds, AfterRounds
  <2>5. \A c \in Drain!Classes : ran'[c] >= ran[c] /\ ran'[c] \in Nat
    BY <1>4, <2>2 DEF Split
  <2>6. \A c \in Drain!Classes : c \notin dry' => ran'[c] + left'[c] >= Drain!Quotas'[c]
    BY <1>2, <1>3, <1>4, <2>5 DEF DrainInv, Sound, InRounds, AfterRounds
  <2> QED
    BY <1>2, <1>3, <2>1, <2>2, <2>4, <2>6 DEF DrainInv, Sound, InRounds, AfterRounds
<1>6. CASE Drain!MissRest
  <2>1. /\ UNCHANGED ran /\ spent' = spent \cup {e}
        /\ \/ a < 3 /\ at' = a + 1 /\ phase' = "rest"
           \/ a = 3 /\ at' = a /\ phase' = "over"
    BY <1>2, <1>6 DEF Drain!MissRest
  <2>2. Drain!Done' = Drain!Done
    BY <2>1 DEF Drain!Done
  <2>3. \A c \in Drain!Classes : Gone(c, a + 1) = 1 => c \in spent'
    BY <1>1, <1>2, <2>1 DEF DrainInv, Sound, InRounds, AfterRounds
  <2>4. a = 3 => spent' = Drain!Classes
    <3>1. a = 3 => \A c \in Drain!Classes : Gone(c, a + 1) = 1
      BY DEF Gone, Place, Drain!Classes
    <3> QED
      BY <1>1, <2>1, <2>3, <3>1 DEF DrainInv, Sound, InRounds, AfterRounds
  <2> QED
    BY <1>1, <1>2, <1>3, <2>1, <2>2, <2>3, <2>4 DEF DrainInv, Sound, InRounds, AfterRounds
<1> QED
  BY <1>5, <1>6

LEMMA DrainKeeps ==
    ASSUME MaxBudget \in Nat, DrainInv, [Drain!Next]_(Drain!vars) PROVE DrainInv'
<1>1. CASE UNCHANGED Drain!vars
  BY <1>1 DEF Drain!vars, DrainInv, Sound, InRounds, AfterRounds, Drain!Done,
       Drain!Quotas
<1> QED
  BY <1>1, RoundKeeps, RestKeeps DEF Drain!Next

LEMMA DrainOwes == ASSUME MaxBudget \in Nat, MaxShare \in Nat, DrainInv PROVE Drain!TypeOK /\ Drain!DrainFair
<1> PICK f, g, q, w : f = ran /\ g = left /\ q = Drain!Quotas /\ w = shares
  OBVIOUS
<1> PICK size \in Nat : size = budget
  BY DEF DrainInv, Sound, InRounds, AfterRounds
<1>1. /\ f \in Split /\ g \in Split /\ q \in Split
      /\ QuotasOf(size, w, q) /\ Drain!Total(q) = size /\ Drain!Total(f) <= size
  BY DEF DrainInv, Sound, InRounds, AfterRounds, QuotasOf, Drain!Done
<1>2. \A c \in Drain!Classes : /\ f[c] \in Nat /\ g[c] \in Nat /\ q[c] \in Nat
                                 /\ f[c] <= Drain!Total(f) /\ q[c] <= size
  BY <1>1, SplitTotal DEF Split
<1>3. \A c \in Drain!Classes : f[c] \in 0 .. MaxBudget /\ g[c] \in 0 .. MaxBudget
  <2> TAKE c \in Drain!Classes
  <2>1. size \in 0 .. MaxBudget /\ Drain!Total(f) \in Nat
    BY <1>1, SplitTotal DEF DrainInv, Sound, InRounds, AfterRounds
  <2>2. g[c] <= size
    BY <1>2 DEF DrainInv, Sound, InRounds, AfterRounds
  <2> QED
    BY <1>1, <1>2, <2>1, <2>2
<1>4. Drain!TypeOK
  BY <1>1, <1>3 DEF DrainInv, Sound, InRounds, AfterRounds, Drain!TypeOK, Split
<1>5. Drain!QuotasSum /\ Drain!QuotasExact /\ Drain!QuotasFloor
  BY <1>1 DEF QuotasOf, Drain!QuotasSum, Drain!QuotasExact, Drain!QuotasFloor
<1>6. Drain!ShareServed /\ Drain!NoIdleBudget
  BY <1>2 DEF DrainInv, Sound, InRounds, AfterRounds, Drain!ShareServed, Drain!NoIdleBudget
<1>7. Drain!RoundRobin
  <2> SUFFICES ASSUME phase = "quotas", NEW c \in Drain!Classes, NEW d \in Drain!Classes, g[d] > 0
               PROVE  f[c] <= f[d] + 1
    BY DEF Drain!RoundRobin
  <2>1. f[c] + Gone(d, at) <= f[d] + Gone(c, at)
    BY DEF DrainInv, Sound, InRounds, AfterRounds
  <2>2. Gone(c, at) \in {0, 1} /\ Gone(d, at) \in {0, 1}
    BY DEF Gone
  <2> QED
    BY <1>2, <2>1, <2>2
<1> QED
  BY <1>4, <1>5, <1>6, <1>7 DEF Drain!DrainFair

\* What a drain owes, for every budget and all shares, whatever the handlers
\* enqueue and other workers take while it runs: its quotas add up to the
\* budget and are the declared shares, every class has its quota or was found
\* empty, no class runs ahead of one that waits, and budget is left over only
\* when all were found empty (store.drain_quotas, CurationWorker.drain).
THEOREM DrainIsFair ==
    ASSUME MaxBudget \in Nat, MaxShare \in Nat
    PROVE  Drain!Spec => []DrainFair
<1>1. DrainInv => DrainFair
  BY DrainOwes DEF DrainFair
<1> QED
  BY <1>1, DrainStarts, DrainKeeps, PTL DEF Drain!Spec
=============================================================================
