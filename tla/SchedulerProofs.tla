--------------------------- MODULE SchedulerProofs ---------------------------
(***************************************************************************)
(* Proofs about Scheduler, for every number of entries and processes, every *)
(* schedule and every host.                                                 *)
(***************************************************************************)
EXTENDS Scheduler, TLAPS

-----------------------------------------------------------------------------
(* Type correctness *)

\* Of the constants and of arithmetic modulo them.
LEMMA Modulo ==
    ASSUME NEW a \in Nat, NEW b \in Nat \ {0}
    PROVE  a % b \in 0 .. b - 1
  OBVIOUS

\* Of NextCursor and of the entry after the chosen one.
LEMMA CursorFacts ==
    ASSUME TypeOK, NEW p \in Procs
    PROVE  /\ \A reach \in Reaches : NextCursor(p, reach) \in Entries
           /\ \A e \in Entries : (e + 1) % N \in Entries
  <1>1. /\ cursor[p] \in Entries /\ N \in Nat \ {0} /\ 0 \in Entries
        /\ Reaches \subseteq 1 .. N
    BY EntriesAssumption, HostAssumption DEF TypeOK, Entries
  <1>2. ASSUME NEW reach \in Reaches PROVE (cursor[p] + reach) % N \in Entries
    <2>1. cursor[p] + reach \in Nat
      BY <1>1 DEF Entries
    <2>. QED  BY <1>1, <2>1, Modulo DEF Entries
  <1>3. ASSUME NEW e \in Entries PROVE (e + 1) % N \in Entries
    <2>1. e + 1 \in Nat
      BY DEF Entries
    <2>. QED  BY <1>1, <2>1, Modulo DEF Entries
  <1>. QED  BY <1>1, <1>2, <1>3 DEF NextCursor

\* Of the tables and of every process, in the initial states.
LEMMA TypeInit == Init => TypeOK
  <1>. SUFFICES ASSUME Init PROVE TypeOK
    OBVIOUS
  <1>1. 0 \in Entries /\ 0 \in Lags /\ MaxLag \in Lags /\ 0 \in 0 .. Lifetime
        /\ 0 \in 0 .. Pace /\ 0 \in 0 .. MaxCrashes
    BY EntriesAssumption, HostAssumption, BoundsAssumption DEF Entries, Lags
  <1>2. anchor \in [Entries -> Lags]
    BY <1>1 DEF Init
  <1>. QED  BY <1>1, <1>2 DEF Init, TypeOK, Anchor

\* Of a process that starts.
LEMMA TypeStarted ==
    ASSUME TypeOK, NEW p \in Procs, Started(p)
    PROVE  /\ floor' \in [Procs -> [Entries -> Lags]]
           /\ cursor' \in [Procs -> Entries]
           /\ pc' \in [Procs -> {"idle", "confirm", "enqueue", "record"}]
           /\ hand' \in [Procs -> Entries]
           /\ fire' \in [Procs -> Lags]
           /\ calls' \in [Procs -> 0 .. Lifetime]
  <1>1. 0 \in Entries /\ 0 \in Lags /\ 0 \in 0 .. Lifetime
    BY EntriesAssumption, HostAssumption, BoundsAssumption DEF Entries, Lags
  <1>. QED  BY <1>1 DEF TypeOK, Started, Goto, Anchor

LEMMA TypeStep ==
    ASSUME TypeOK, [Next]_vars
    PROVE  TypeOK'
  <1>. USE DEF TypeOK
  <1>1. ASSUME NEW p \in Procs, Decide(p) PROVE TypeOK'
    <2>1. calls' \in [Procs -> 0 .. Lifetime] /\ paced' \in 0 .. Pace
      BY <1>1, HostAssumption DEF Decide, UpTo
    <2>2. PICK reach \in Reaches :
             \/ /\ cursor' = [cursor EXCEPT ![p] = NextCursor(p, reach)]
                /\ UNCHANGED <<pc, hand, fire>>
             \/ \E e \in Due(p, reach) :
                   /\ cursor' = [cursor EXCEPT ![p] = (e + 1) % N]
                   /\ hand' = [hand EXCEPT ![p] = e]
                   /\ fire' = [fire EXCEPT ![p] = 0]
                   /\ Goto(p, "confirm")
      BY <1>1 DEF Decide
    <2>3. Due(p, reach) \subseteq Entries /\ 0 \in Lags
      BY BoundsAssumption DEF Due, Reached, Lags
    <2>4. cursor' \in [Procs -> Entries] /\ hand' \in [Procs -> Entries]
          /\ fire' \in [Procs -> Lags]
          /\ pc' \in [Procs -> {"idle", "confirm", "enqueue", "record"}]
      <3>1. CASE /\ cursor' = [cursor EXCEPT ![p] = NextCursor(p, reach)]
                 /\ UNCHANGED <<pc, hand, fire>>
        BY <3>1, CursorFacts
      <3>2. CASE \E e \in Due(p, reach) :
                    /\ cursor' = [cursor EXCEPT ![p] = (e + 1) % N]
                    /\ hand' = [hand EXCEPT ![p] = e]
                    /\ fire' = [fire EXCEPT ![p] = 0]
                    /\ Goto(p, "confirm")
        <4>1. PICK e \in Due(p, reach) :
                    /\ cursor' = [cursor EXCEPT ![p] = (e + 1) % N]
                    /\ hand' = [hand EXCEPT ![p] = e]
                    /\ fire' = [fire EXCEPT ![p] = 0]
                    /\ Goto(p, "confirm")
          BY <3>2
        <4>2. e \in Entries /\ (e + 1) % N \in Entries
          BY <2>3, CursorFacts
        <4>. QED  BY <4>1, <4>2, <2>3 DEF Goto
      <3>. QED  BY <2>2, <3>1, <3>2
    <2>. QED  BY <1>1, <2>1, <2>4 DEF Decide, tables, history
  <1>2. ASSUME NEW p \in Procs, Confirm(p) PROVE TypeOK'
    BY <1>2 DEF Confirm, Goto, tables, host, history, Lags, Never
  <1>3. ASSUME NEW p \in Procs, Enqueue(p) PROVE TypeOK'
    BY <1>3 DEF Enqueue, Goto, host
  <1>4. ASSUME NEW p \in Procs, Record(p) PROVE TypeOK'
    BY <1>4 DEF Record, Goto, host, history
  <1>5. ASSUME NEW p \in Procs, Restart(p) PROVE TypeOK'
    BY <1>5, TypeStarted DEF Restart, Started, tables
  <1>6. ASSUME NEW p \in Procs, Crash(p) PROVE TypeOK'
    <2>1. crashes' \in 0 .. MaxCrashes
      BY <1>6, BoundsAssumption DEF Crash
    <2>2. Started(p) /\ cut' \subseteq Entries
      BY <1>6 DEF Crash
    <2>. QED  BY <2>1, <2>2, TypeStarted DEF Started, tables
  <1>7. ASSUME JobDone PROVE TypeOK'
    BY <1>7 DEF JobDone, memory, host, history
  <1>8. ASSUME ClockTick PROVE TypeOK'
    <2>1. clock' \in Times
      <3>1. clock + 1 \in Nat /\ Day \in Nat \ {0}
        BY EntriesAssumption DEF Times
      <3>. QED  BY <3>1, <1>8, Modulo DEF ClockTick, Times
    <2>2. anchor' \in [Entries -> Lags] /\ row' \in [Entries -> Lags \cup {Never}]
          /\ floor' \in [Procs -> [Entries -> Lags]] /\ fire' \in [Procs -> Lags]
      <3>1. MaxLag \in Nat
        BY BoundsAssumption
      <3>2. anchor' \in [Entries -> Lags] /\ row' \in [Entries -> Lags \cup {Never}]
        BY <1>8, <3>1 DEF ClockTick, Later, UpTo, Lags, Never
      <3>3. floor' \in [Procs -> [Entries -> Lags]]
        BY <1>8, <3>1 DEF ClockTick, Later, UpTo, Lags, Never
      <3>4. fire' \in [Procs -> Lags]
        BY <1>8, <3>1 DEF ClockTick, Later, UpTo, Lags, Never
      <3>. QED  BY <3>2, <3>3, <3>4
    <2>3. paced' \in 0 .. Pace
      BY <1>8, HostAssumption DEF ClockTick
    <2>. QED  BY <1>8, <2>1, <2>2, <2>3 DEF ClockTick
  <1>9. ASSUME UNCHANGED vars PROVE TypeOK'
    BY <1>9 DEF vars, tables, memory, host, history
  <1>. QED  BY <1>1, <1>2, <1>3, <1>4, <1>5, <1>6, <1>7, <1>8, <1>9 DEF Next, HookStep

\* Every variable of the scheduler keeps its type: the cursor always names an
\* entry, whatever the budget cut off, and a lag never runs past its bound.
THEOREM TypeCorrect == Spec => []TypeOK
  BY TypeInit, TypeStep, PTL DEF Spec

-----------------------------------------------------------------------------
(* Honest watermarks *)

\* A process about to write a row has enqueued the entry for that instant.
RecordInv == \A p \in Procs : pc[p] = "record" /\ fire[p] = 0 => hand[p] \in served
Honest == MarkHonest /\ RecordInv

LEMMA HonestStep ==
    ASSUME TypeOK, Honest, [Next]_vars
    PROVE  Honest'
  <1>. USE DEF Honest, MarkHonest, RecordInv
  <1>1. ASSUME NEW p \in Procs, Decide(p) PROVE Honest'
    BY <1>1 DEF Decide, Goto, tables, history, TypeOK
  <1>2. ASSUME NEW p \in Procs, Confirm(p) PROVE Honest'
    BY <1>2 DEF Confirm, Goto, tables, history, TypeOK
  <1>3. ASSUME NEW p \in Procs, Enqueue(p) PROVE Honest'
    BY <1>3 DEF Enqueue, Goto, TypeOK
  <1>4. ASSUME NEW p \in Procs, Record(p) PROVE Honest'
    BY <1>4 DEF Record, Goto, history, TypeOK
  <1>5. ASSUME NEW p \in Procs, Restart(p) \/ Crash(p) PROVE Honest'
    BY <1>5 DEF Restart, Crash, Started, Goto, tables, TypeOK
  <1>6. ASSUME JobDone PROVE Honest'
    BY <1>6 DEF JobDone, memory, history
  <1>7. ASSUME ClockTick PROVE Honest'
    <2>1. PICK firing \in SUBSET Entries :
             /\ row' = [e \in Entries |-> Later(row[e], e \in firing)]
             /\ fire' = [p \in Procs |-> Later(fire[p], pc[p] # "idle" /\ hand[p] \in firing)]
             /\ served' = served \ firing
      BY <1>7 DEF ClockTick
    <2>2. UNCHANGED <<pc, hand>>
      BY <1>7 DEF ClockTick
    <2>3. ASSUME NEW e \in Entries, row'[e] = 0 PROVE e \in served'
      <3>1. row'[e] = Later(row[e], e \in firing) /\ row[e] \in Lags \cup {Never}
        BY <2>1 DEF TypeOK
      <3>2. e \notin firing
        BY <3>1, <2>3, BoundsAssumption DEF Later, UpTo, Lags, Never
      <3>. QED  BY <3>1, <3>2, <2>1, <2>3 DEF Later
    <2>4. ASSUME NEW p \in Procs, pc'[p] = "record", fire'[p] = 0
          PROVE  hand'[p] \in served'
      <3>1. fire'[p] = Later(fire[p], pc[p] # "idle" /\ hand[p] \in firing)
            /\ fire[p] \in Lags /\ pc[p] = "record"
        BY <2>1, <2>2, <2>4 DEF TypeOK
      <3>2. hand[p] \notin firing
        BY <3>1, <2>4, BoundsAssumption DEF Later, UpTo, Lags, Never
      <3>. QED  BY <3>1, <3>2, <2>1, <2>2, <2>4 DEF Later
    <2>. QED  BY <2>3, <2>4
  <1>8. ASSUME UNCHANGED vars PROVE Honest'
    BY <1>8 DEF vars, tables, memory, host, history
  <1>. QED  BY <1>1, <1>2, <1>3, <1>4, <1>5, <1>6, <1>7, <1>8 DEF Next, HookStep

\* No instant is lost: however many processes share the store, and wherever they
\* die, a row that claims its latest instant was enqueued for is right.
THEOREM MarksAreHonest == Spec => []MarkHonest
  <1>1. Init => Honest
    BY DEF Init, Honest, MarkHonest, RecordInv, Never
  <1>2. TypeOK /\ Honest /\ [Next]_vars => Honest'
    BY HonestStep
  <1>3. Honest => MarkHonest
    BY DEF Honest
  <1>. QED  BY <1>1, <1>2, <1>3, TypeCorrect, PTL DEF Spec

-----------------------------------------------------------------------------
(* Nothing before the first instant of a store *)

\* Lags keep their order when the clock moves: a mark of an entry ages with the
\* store's first event, and so does the instant a hook is working for.
LEMMA LaterFacts ==
    ASSUME NEW a \in Lags, NEW b \in Lags, NEW e, NEW firing
    PROVE  /\ Later(a, e \in firing) \in Lags
           /\ a <= b => Later(a, e \in firing) <= Later(b, e \in firing)
           /\ a < b /\ a + 1 < MaxLag => Later(a, e \in firing) < Later(b, e \in firing)
  BY BoundsAssumption DEF Later, UpTo, Lags, Never

\* No mark is older than the store, and a hook works for an instant after its birth.
Born ==
    /\ \A e \in Entries : row[e] <= anchor[e]
    /\ \A p \in Procs, e \in Entries : floor[p][e] <= anchor[e]
    /\ \A p \in Procs : pc[p] # "idle" => fire[p] < anchor[hand[p]]

\* Of a tick: the lags of the entries that fire grow, of the others stay.
LEMMA TickFacts ==
    ASSUME TypeOK, ClockTick
    PROVE  \E firing \in SUBSET Entries :
              /\ \A e \in Entries :
                    /\ anchor'[e] = Later(anchor[e], e \in firing)
                    /\ row'[e] = Later(row[e], e \in firing)
                    /\ \A p \in Procs : floor'[p][e] = Later(floor[p][e], e \in firing)
              /\ \A p \in Procs : pc[p] # "idle" =>
                    /\ fire'[p] = Later(fire[p], hand[p] \in firing)
                    /\ fire[p] + 1 < MaxLag
              /\ served' = served \ firing /\ cut' = cut \ firing
              /\ UNCHANGED <<pc, hand>>
  <1>. DEFINE firing == {e \in Entries : clock' \in Fires[e]}
  <1>1. /\ anchor' = [e \in Entries |-> Later(anchor[e], e \in firing)]
        /\ row' = [e \in Entries |-> Later(row[e], e \in firing)]
        /\ floor' = [p \in Procs |-> [e \in Entries |-> Later(floor[p][e], e \in firing)]]
        /\ fire' = [p \in Procs |-> Later(fire[p], pc[p] # "idle" /\ hand[p] \in firing)]
        /\ served' = served \ firing /\ cut' = cut \ firing
        /\ \A p \in Procs : pc[p] # "idle" => fire[p] + 1 < MaxLag
        /\ UNCHANGED <<pc, hand>>
    BY DEF ClockTick
  <1>2. firing \in SUBSET Entries
    OBVIOUS
  <1>. HIDE DEF firing
  <1>3. \A p \in Procs : pc[p] # "idle" => fire'[p] = Later(fire[p], hand[p] \in firing)
    BY <1>1 DEF Later
  <1>4. \A e \in Entries :
           /\ anchor'[e] = Later(anchor[e], e \in firing)
           /\ row'[e] = Later(row[e], e \in firing)
           /\ \A p \in Procs : floor'[p][e] = Later(floor[p][e], e \in firing)
    BY <1>1 DEF Later
  <1>. QED  BY <1>1, <1>2, <1>3, <1>4

LEMMA BornStep ==
    ASSUME TypeOK, Born, [Next]_vars
    PROVE  Born'
  <1>. USE DEF Born
  <1>0. 0 \in Lags /\ Never \notin Lags /\ \A lag \in Lags : lag \in Int /\ Never <= lag /\ 0 <= lag
    BY BoundsAssumption DEF Lags, Never
  <1>1. ASSUME NEW p \in Procs, Decide(p) PROVE Born'
    <2>1. UNCHANGED <<tables, floor>>
      BY <1>1 DEF Decide
    <2>2. \/ UNCHANGED <<pc, hand, fire>>
          \/ \E e \in Entries :
                /\ floor[p][e] > 0
                /\ hand' = [hand EXCEPT ![p] = e]
                /\ fire' = [fire EXCEPT ![p] = 0]
                /\ Goto(p, "confirm")
      BY <1>1 DEF Decide, Due, Reached
    <2>3. CASE UNCHANGED <<pc, hand, fire>>
      BY <2>1, <2>3 DEF tables
    <2>4. CASE \E e \in Entries :
                /\ floor[p][e] > 0
                /\ hand' = [hand EXCEPT ![p] = e]
                /\ fire' = [fire EXCEPT ![p] = 0]
                /\ Goto(p, "confirm")
      <3>1. PICK e \in Entries :
                /\ floor[p][e] > 0
                /\ hand' = [hand EXCEPT ![p] = e]
                /\ fire' = [fire EXCEPT ![p] = 0]
                /\ Goto(p, "confirm")
        BY <2>4
      <3>2. 0 < anchor[e]
        BY <3>1, <1>0 DEF TypeOK
      <3>. QED  BY <2>1, <3>1, <3>2 DEF tables, Goto, TypeOK
    <2>. QED  BY <2>2, <2>3, <2>4
  <1>2. ASSUME NEW p \in Procs, Confirm(p) PROVE Born'
    BY <1>2 DEF Confirm, Goto, tables, TypeOK
  <1>3. ASSUME NEW p \in Procs, Enqueue(p) PROVE Born'
    BY <1>3 DEF Enqueue, Goto, TypeOK
  <1>4. ASSUME NEW p \in Procs, Record(p) PROVE Born'
    <2>1. fire[p] <= anchor[hand[p]]
      BY <1>4, <1>0 DEF Record, TypeOK
    <2>. QED  BY <1>4, <2>1 DEF Record, Goto, TypeOK
  <1>5. ASSUME NEW p \in Procs, Restart(p) \/ Crash(p) PROVE Born'
    <2>1. \A e \in Entries : anchor[e] <= anchor[e]
      BY <1>0 DEF TypeOK
    <2>. QED  BY <1>5, <2>1 DEF Restart, Crash, Started, Anchor, Goto, tables, TypeOK
  <1>6. ASSUME JobDone PROVE Born'
    BY <1>6 DEF JobDone, memory
  <1>7. ASSUME ClockTick PROVE Born'
    <2>1. PICK firing \in SUBSET Entries :
              /\ \A e \in Entries :
                    /\ anchor'[e] = Later(anchor[e], e \in firing)
                    /\ row'[e] = Later(row[e], e \in firing)
                    /\ \A p \in Procs : floor'[p][e] = Later(floor[p][e], e \in firing)
              /\ \A p \in Procs : pc[p] # "idle" =>
                    /\ fire'[p] = Later(fire[p], hand[p] \in firing)
                    /\ fire[p] + 1 < MaxLag
              /\ UNCHANGED <<pc, hand>>
      BY <1>7, TickFacts
    <2>2. ASSUME NEW e \in Entries PROVE row'[e] <= anchor'[e]
      <3>1. anchor[e] \in Lags /\ row[e] \in Lags \cup {Never} /\ row[e] <= anchor[e]
        BY DEF TypeOK
      <3>2. CASE row[e] = Never
        BY <3>1, <3>2, <2>1, <1>0, LaterFacts DEF Later
      <3>3. CASE row[e] \in Lags
        <4>1. Later(row[e], e \in firing) <= Later(anchor[e], e \in firing)
          BY <3>1, <3>3, LaterFacts
        <4>. QED  BY <4>1, <2>1
      <3>. QED  BY <3>1, <3>2, <3>3
    <2>3. ASSUME NEW p \in Procs, NEW e \in Entries PROVE floor'[p][e] <= anchor'[e]
      BY <2>1, LaterFacts DEF TypeOK
    <2>4. ASSUME NEW p \in Procs, pc'[p] # "idle" PROVE fire'[p] < anchor'[hand'[p]]
      <3>1. pc[p] # "idle" /\ hand'[p] = hand[p] /\ hand[p] \in Entries
            /\ fire[p] \in Lags /\ anchor[hand[p]] \in Lags
        BY <2>1, <2>4 DEF TypeOK
      <3>2. fire[p] < anchor[hand[p]]
        BY <3>1
      <3>3. Later(fire[p], hand[p] \in firing) < Later(anchor[hand[p]], hand[p] \in firing)
        <4>1. fire[p] + 1 < MaxLag
          BY <3>1, <2>1
        <4>. QED  BY <4>1, <3>1, <3>2, LaterFacts
      <3>. QED  BY <3>1, <3>3, <2>1
    <2>. QED  BY <2>2, <2>3, <2>4
  <1>8. ASSUME UNCHANGED vars PROVE Born'
    BY <1>8 DEF vars, tables, memory
  <1>. QED  BY <1>1, <1>2, <1>3, <1>4, <1>5, <1>6, <1>7, <1>8 DEF Next, HookStep

LEMMA BornInit == Init => Born
  <1>. SUFFICES ASSUME Init PROVE Born
    OBVIOUS
  <1>1. \A e \in Entries : anchor[e] \in {0, MaxLag} /\ MaxLag \in Nat
    BY BoundsAssumption DEF Init
  <1>. QED  BY <1>1 DEF Init, Born, Anchor, Never

\* However many processes share the store, a hook enqueues an entry only for an
\* instant that came after the store's first event.
THEOREM NothingBeforeBirth == Spec => InertAtBirth
  <1>1. TypeOK /\ Born /\ [Next]_vars =>
           [\A p \in Procs : Enqueue(p) => anchor[hand[p]] > fire[p]]_vars
    BY BoundsAssumption DEF Born, Enqueue, TypeOK, Lags
  <1>2. TypeOK /\ Born /\ [Next]_vars => Born'
    BY BornStep
  <1>. QED  BY <1>1, <1>2, BornInit, TypeCorrect, PTL DEF Spec, InertAtBirth

-----------------------------------------------------------------------------
(* One process asks once *)

Alone == \A p, q \in Procs : p = q

\* What the process that serves an entry's latest instant leaves behind: the row,
\* or itself on the way to it, or the mark of its death there.  Between its read
\* of the row and the enqueue nobody else moves the row.
Traced ==
    /\ \A e \in served : \/ e \in cut
                         \/ row[e] = 0
                         \/ \E p \in Procs : pc[p] = "record" /\ hand[p] = e /\ fire[p] = 0
    /\ \A p \in Procs : pc[p] # "idle" /\ fire[p] # 0 => hand[p] \notin served
    /\ \A p \in Procs : pc[p] = "enqueue" => row[hand[p]] = Never \/ fire[p] < row[hand[p]]

LEMMA TracedStep ==
    ASSUME Alone, TypeOK, Traced, [Next]_vars
    PROVE  Traced'
  <1>. USE DEF Traced
  <1>0. 0 \in Lags /\ Never \notin Lags /\ \A lag \in Lags : lag \in Int /\ 0 <= lag
    BY BoundsAssumption DEF Lags, Never
  <1>1. ASSUME NEW p \in Procs, Decide(p) PROVE Traced'
    <2>1. UNCHANGED <<tables, history>> /\ pc[p] = "idle"
      BY <1>1 DEF Decide
    <2>2. \/ UNCHANGED <<pc, hand, fire>>
          \/ \E e \in Entries :
                /\ hand' = [hand EXCEPT ![p] = e]
                /\ fire' = [fire EXCEPT ![p] = 0]
                /\ Goto(p, "confirm")
      BY <1>1 DEF Decide, Due, Reached
    <2>3. CASE UNCHANGED <<pc, hand, fire>>
      BY <2>1, <2>3 DEF tables, history
    <2>4. CASE \E e \in Entries :
                /\ hand' = [hand EXCEPT ![p] = e]
                /\ fire' = [fire EXCEPT ![p] = 0]
                /\ Goto(p, "confirm")
      BY <2>1, <2>4 DEF tables, history, Goto, TypeOK
    <2>. QED  BY <2>2, <2>3, <2>4
  <1>2. ASSUME NEW p \in Procs, Confirm(p) PROVE Traced'
    <2>1. hand[p] \in Entries /\ fire[p] \in Lags /\ row[hand[p]] \in Lags \cup {Never}
      BY DEF TypeOK
    <2>2. ~AlreadyFired(p) => row[hand[p]] = Never \/ fire[p] < row[hand[p]]
      BY <2>1, <1>0 DEF AlreadyFired
    <2>3. UNCHANGED <<row, hand, fire, served, cut>> /\ pc[p] = "confirm"
          /\ pc' = [pc EXCEPT ![p] = IF AlreadyFired(p) THEN "idle" ELSE "enqueue"]
      BY <1>2 DEF Confirm, Goto, tables, history
    <2>. QED  BY <2>2, <2>3 DEF TypeOK
  <1>3. ASSUME NEW p \in Procs, Enqueue(p) PROVE Traced'
    BY <1>3 DEF Enqueue, Goto, TypeOK, Alone
  <1>4. ASSUME NEW p \in Procs, Record(p) PROVE Traced'
    BY <1>4 DEF Record, Goto, history, TypeOK, Alone
  <1>5. ASSUME NEW p \in Procs, Restart(p) \/ Crash(p) PROVE Traced'
    <2>1. UNCHANGED <<row, served>> /\ \A q \in Procs : pc'[q] = "idle"
      BY <1>5 DEF Restart, Crash, Started, Goto, tables, TypeOK, Alone
    <2>2. cut \subseteq cut' /\ (pc[p] = "record" => hand[p] \in cut')
      BY <1>5 DEF Restart, Crash
    <2>. QED  BY <2>1, <2>2 DEF Alone
  <1>6. ASSUME JobDone PROVE Traced'
    BY <1>6 DEF JobDone, memory, history
  <1>7. ASSUME ClockTick PROVE Traced'
    <2>1. PICK firing \in SUBSET Entries :
              /\ \A e \in Entries : row'[e] = Later(row[e], e \in firing)
              /\ \A p \in Procs : pc[p] # "idle" =>
                    /\ fire'[p] = Later(fire[p], hand[p] \in firing)
                    /\ fire[p] + 1 < MaxLag
              /\ served' = served \ firing /\ cut' = cut \ firing
              /\ UNCHANGED <<pc, hand>>
      BY <1>7, TickFacts
    <2>2. ASSUME NEW e \in served'
          PROVE  \/ e \in cut'
                 \/ row'[e] = 0
                 \/ \E p \in Procs : pc'[p] = "record" /\ hand'[p] = e /\ fire'[p] = 0
      <3>1. e \in served /\ e \notin firing /\ e \in Entries
        BY <2>1, <2>2 DEF TypeOK
      <3>. QED  BY <3>1, <2>1 DEF Later
    <2>3. ASSUME NEW p \in Procs, pc'[p] # "idle", fire'[p] # 0
          PROVE  hand'[p] \notin served'
      <3>1. CASE hand[p] \in firing
        BY <3>1, <2>1
      <3>2. CASE hand[p] \notin firing
        BY <3>2, <2>1, <2>3 DEF Later
      <3>. QED  BY <3>1, <3>2
    <2>4. ASSUME NEW p \in Procs, pc'[p] = "enqueue"
          PROVE  row'[hand'[p]] = Never \/ fire'[p] < row'[hand'[p]]
      <3>1. pc[p] = "enqueue" /\ hand'[p] = hand[p] /\ hand[p] \in Entries
            /\ fire[p] \in Lags /\ row[hand[p]] \in Lags \cup {Never}
        BY <2>1, <2>4 DEF TypeOK
      <3>2. CASE row[hand[p]] = Never
        BY <3>1, <3>2, <2>1 DEF Later
      <3>3. CASE row[hand[p]] # Never
        <4>1. row[hand[p]] \in Lags /\ fire[p] < row[hand[p]]
          BY <3>1, <3>3
        <4>2. fire[p] + 1 < MaxLag
          BY <3>1, <2>1
        <4>3. Later(fire[p], hand[p] \in firing) < Later(row[hand[p]], hand[p] \in firing)
          BY <3>1, <4>1, <4>2, LaterFacts
        <4>. QED  BY <4>3, <3>1, <2>1
      <3>. QED  BY <3>2, <3>3
    <2>. QED  BY <2>2, <2>3, <2>4
  <1>8. ASSUME UNCHANGED vars PROVE Traced'
    BY <1>8 DEF vars, tables, memory, history
  <1>. QED  BY <1>1, <1>2, <1>3, <1>4, <1>5, <1>6, <1>7, <1>8 DEF Next, HookStep

\* With one process no instant is enqueued for twice, through restarts and crashes,
\* unless it died before it wrote the row; and never one before the store's birth.
THEOREM FiresOnce ==
    ASSUME Alone
    PROVE  Spec => FiresRight
  <1>1. TypeOK /\ Traced /\ [Next]_vars =>
           [\A p \in Procs : Enqueue(p) /\ fire[p] = 0 /\ hand[p] \in served =>
               hand[p] \in live \cup cut]_vars
    BY DEF Traced, Enqueue, TypeOK, Never, Alone
  <1>2. TypeOK /\ Traced /\ [Next]_vars => Traced'
    BY TracedStep
  <1>3. Init => Traced
    BY DEF Init, Traced
  <1>4. Spec => OncePerInstant
    BY <1>1, <1>2, <1>3, TypeCorrect, PTL DEF Spec, OncePerInstant
  <1>. QED  BY <1>4, TypeCorrect, NothingBeforeBirth, PTL DEF FiresRight
=============================================================================
