--------------------------- MODULE BackgroundProofs ---------------------------
(***************************************************************************)
(* What walks a table beside its writers.  First Sweeps: for every table,  *)
(* budget and number of abandoned runs, one sweeper that commits after it  *)
(* has handled its page covers the table in every lap.  Then WriteBack: an *)
(* open batch is still true of the live store, because nobody else writes  *)
(* it meanwhile; and a row ahead of the walk does not equal the copy, so   *)
(* that a restart can tell a batch that was committed from one that was    *)
(* not.                                                                    *)
(*                                                                         *)
(* Last Federation: a page of new rows leaves none behind below its last   *)
(* row, and where ids only grow no row appears there later; a run that has *)
(* looked a pointer up finds it unchanged, if no other run writes; and a   *)
(* text is only ever copied from where a text is.                          *)
(*                                                                         *)
(* And Extraction: a turn that is not read has its job, and what the last  *)
(* read turn told of an attribute is what is active, but for a turn read   *)
(* late; where no process died the turns are read in order.  The digest    *)
(* tells the facts, or a job that will see to it is in the queue, at hand  *)
(* or under the lease of a dead worker.                                    *)
(***************************************************************************)
EXTENDS BackgroundParts, Sequences, FiniteSetTheorems, NaturalsInduction, WellFoundedInduction,
        TLAPS

-----------------------------------------------------------------------------
(* Sweeps *)

\* Keys and cursors are numbers, and Start is no key (rowids count from 1).
LEMMA KeyFacts ==
    /\ \A k \in Keys : k \in Nat /\ k # Start
    /\ \A k \in Keys \cup {Start} : k \in Nat
<1>1. \A k \in Keys : k \in Nat /\ k # 0
  BY KeysAssumption
<1>2. \A k \in {0} : k \in Nat
  OBVIOUS
<1> QED
  BY <1>1, <1>2 DEF Start

\* Every variable of a run and of the store keeps its type, whichever
\* processes sweep (next_row_page, next_distinct_page, commit).
THEOREM TypeCorrect == Spec => []TypeOK
<1>1. Init => TypeOK
  BY KeysAssumption, AbortsAssumption DEF Init, TypeOK, Start
<1>2. TypeOK /\ [Next]_vars => TypeOK'
  <2> SUFFICES ASSUME TypeOK, [Next]_vars PROVE TypeOK'
    OBVIOUS
  <2> USE KeysAssumption, AbortsAssumption DEF TypeOK, Goto, history, AfterPage
  <2>1. ASSUME NEW s \in Sweepers, Resume(s) PROVE TypeOK'
    BY <2>1 DEF Resume
  <2>2. ASSUME NEW s \in Sweepers, Scan(s) PROVE TypeOK'
    <3>1. PICK P \in SUBSET Ahead(from[s]) :
             /\ ShortPage(s, P) \/ FullPage(s, P)
             /\ todo' = [todo EXCEPT ![s] = P]
      BY <2>2 DEF Scan
    <3>2. P \subseteq Keys
      BY DEF Ahead
    <3>3. /\ upto' \in [Sweepers -> Keys \cup {Start}]
          /\ pc' \in [Sweepers -> {"idle", "scan", "count", "work", "commit"}]
      BY <3>1, <3>2 DEF ShortPage, FullPage
    <3> QED
      BY <2>2, <3>1, <3>2, <3>3 DEF Scan
  <2>3. ASSUME NEW s \in Sweepers, Count(s) PROVE TypeOK'
    BY <2>3 DEF Count, NextCursor
  <2>4. ASSUME NEW s \in Sweepers, Handle(s) PROVE TypeOK'
    BY <2>4 DEF Handle
  <2>5. ASSUME NEW s \in Sweepers, PageHandled(s) PROVE TypeOK'
    BY <2>5 DEF PageHandled
  <2>6. ASSUME NEW s \in Sweepers, Commit(s) PROVE TypeOK'
    BY <2>6 DEF Commit
  <2>7. ASSUME NEW s \in Sweepers, Abandon(s) PROVE TypeOK'
    BY <2>7 DEF Abandon
  <2>8. CASE BecomesEligible
    BY <2>8 DEF BecomesEligible, run
  <2>9. CASE BecomesIneligible
    BY <2>9 DEF BecomesIneligible, run
  <2>10. CASE UNCHANGED vars
    BY <2>10 DEF vars
  <2> QED
    BY <2>1, <2>2, <2>3, <2>4, <2>5, <2>6, <2>7, <2>8, <2>9, <2>10
    DEF Next, RunStep
<1> QED
  BY <1>1, <1>2, PTL DEF Spec

-----------------------------------------------------------------------------
(* One sweeper that handles its page before it commits.                    *)

OneSweeper == CommitFirst = FALSE /\ \E w : Sweepers = {w}

\* The page a run reads holds every key up to the cursor it goes on with: all
\* keys ahead when the page is short, those up to its last key when it is full.
LEMMA PageCovers ==
    ASSUME TypeOK, NEW s \in Sweepers, NEW P \in SUBSET Ahead(from[s]),
           IsPage(P, from[s]), ShortPage(s, P) \/ FullPage(s, P)
    PROVE  \A k \in steady : \/ k <= from[s]
                             \/ k \in P
                             \/ /\ upto'[s] # Start
                                /\ ~(k <= upto'[s])
<1> SUFFICES ASSUME NEW k \in steady, ~(k <= from[s]), k \notin P
             PROVE  upto'[s] # Start /\ ~(k <= upto'[s])
  OBVIOUS
<1>1. k \in Ahead(from[s]) /\ k \in Nat /\ from[s] \in Nat
  <2>1. k \in eligible /\ k \in Keys /\ from[s] \in Keys \cup {Start}
    BY DEF TypeOK
  <2>2. k \in Nat /\ from[s] \in Nat
    BY <2>1, KeyFacts
  <2> QED
    BY <2>1, <2>2 DEF Ahead
<1>2. Cardinality(P) = Budget
  BY <1>1 DEF IsPage
<1>3. FullPage(s, P)
  BY <1>2, BudgetAssumption DEF ShortPage
<1>4. PICK last \in P : upto' = [upto EXCEPT ![s] = last]
  BY <1>3 DEF FullPage
<1>5. last < k
  BY <1>1, <1>4 DEF IsPage
<1>6. last \in Keys /\ upto'[s] = last
  BY <1>4 DEF TypeOK, Ahead
<1> QED
  BY <1>1, <1>5, <1>6, KeysAssumption DEF Start

\* The inductive step: what a sweeper has covered survives its own next step,
\* an abandoned run, and any change of the table.
LEMMA SweepStep ==
    ASSUME TypeOK, SweepInv, OneSweeper, [Next]_vars
    PROVE  SweepInv'
<1>1. PICK w : Sweepers = {w}
  BY DEF OneSweeper
<1>2. w \in Sweepers /\ RunCovers(w) /\ NothingPassedOver /\ QuietMeansDone
  BY <1>1 DEF SweepInv
<1>3. SUFFICES NothingPassedOver' /\ QuietMeansDone' /\ RunCovers(w)'
  BY <1>1 DEF SweepInv
<1>4. /\ Keys \subseteq Nat /\ 0 \notin Keys /\ steady \subseteq Keys
      /\ cursor \in Nat /\ upto[w] \in Nat /\ from[w] \in Nat
  <2>1. /\ steady \subseteq Keys /\ cursor \in Keys \cup {Start}
        /\ upto[w] \in Keys \cup {Start} /\ from[w] \in Keys \cup {Start}
    BY <1>2 DEF TypeOK
  <2>2. cursor \in Nat /\ upto[w] \in Nat /\ from[w] \in Nat
    BY <2>1, KeyFacts
  <2>3. Keys \subseteq Nat /\ 0 \notin Keys
    BY KeyFacts DEF Start
  <2> QED
    BY <2>1, <2>2, <2>3
<1>5. CommitFirst = FALSE
  BY DEF OneSweeper
<1> USE <1>2, <1>4, <1>5 DEF NothingPassedOver, QuietMeansDone, RunCovers, Covered
<1>6. CASE Resume(w)
  BY <1>6 DEF Resume, Goto, history, TypeOK
<1>7. CASE Scan(w)
  <2>1. PICK P \in SUBSET Ahead(from[w]) :
           /\ IsPage(P, from[w])
           /\ ShortPage(w, P) \/ FullPage(w, P)
           /\ todo' = [todo EXCEPT ![w] = P]
    BY <1>7 DEF Scan
  <2>2. \A k \in steady : \/ k <= from[w]
                          \/ k \in P
                          \/ upto'[w] # Start /\ ~(k <= upto'[w])
    BY <2>1, PageCovers
  <2>3. todo'[w] = P /\ UNCHANGED <<from, cursor, steady, seen, missed>>
    BY <2>1, <1>7 DEF Scan, TypeOK, history
  <2>5. pc'[w] = "count" => upto'[w] # Start
    BY <2>1, KeysAssumption, <1>7
    DEF Scan, ShortPage, FullPage, Goto, AfterPage, TypeOK, Ahead, Start
  <2>4. pc'[w] \in {"count", "work"} /\ from[w] = cursor
    BY <2>1, <1>7 DEF Scan, ShortPage, FullPage, Goto, AfterPage, TypeOK
  <2> QED
    BY <2>2, <2>3, <2>4, <2>5
<1>8. CASE Count(w)
  <2>1. /\ upto'[w] = NextCursor(upto[w]) /\ pc'[w] = "work" /\ pc[w] = "count"
        /\ UNCHANGED <<from, cursor, todo, steady, seen, missed>>
    BY <1>8 DEF Count, Goto, AfterPage, TypeOK, history
  <2>2. CASE Ahead(upto[w]) = {}
    <3>1. \A k \in steady : k <= upto[w]
      BY <2>2 DEF Ahead, TypeOK
    <3> QED
      BY <2>1, <3>1
  <2>3. CASE Ahead(upto[w]) # {}
    <3>1. upto'[w] = upto[w]
      BY <2>1, <2>3 DEF NextCursor
    <3> QED
      BY <2>1, <3>1
  <2> QED
    BY <2>2, <2>3
<1>9. CASE Handle(w)
  <2>1. PICK k \in todo[w] : /\ todo' = [todo EXCEPT ![w] = @ \ {k}]
                             /\ seen' = seen \cup {k}
    BY <1>9 DEF Handle
  <2>2. /\ todo'[w] = todo[w] \ {k} /\ pc[w] = "work"
        /\ UNCHANGED <<pc, from, upto, cursor, steady, missed>>
    BY <2>1, <1>9 DEF Handle, TypeOK
  <2> QED
    BY <2>1, <2>2
<1>10. CASE PageHandled(w)
  BY <1>10 DEF PageHandled, Goto, history, TypeOK
<1>11. CASE Commit(w)
  <2>1. /\ cursor' = upto[w] /\ pc'[w] = "idle"
        /\ todo[w] = {} /\ from[w] = cursor
        /\ IF upto[w] = Start
           THEN steady' = eligible /\ seen' = {} /\ missed' = steady \ seen
           ELSE UNCHANGED history
    BY <1>11 DEF Commit, Goto, TypeOK
  <2>2. \A k \in steady : (upto[w] = Start \/ k <= upto[w]) => k \in seen
    BY <2>1, <1>11 DEF Commit
  <2>3. CASE upto[w] = Start
    <3>1. missed' = {}
      BY <2>1, <2>2, <2>3
    <3>2. \A k \in steady' : ~(k <= cursor')
      <4>1. steady' \subseteq Keys /\ cursor' = 0
        BY <2>1, <2>3 DEF Start, TypeOK
      <4> QED
        BY <4>1
    <3> QED
      BY <2>1, <3>1, <3>2
  <2>4. CASE upto[w] # Start
    BY <2>1, <2>2, <2>4 DEF history
  <2> QED
    BY <2>3, <2>4
<1>12. CASE Abandon(w)
  BY <1>12 DEF Abandon, Goto, history, TypeOK
<1>13. CASE BecomesEligible
  BY <1>13 DEF BecomesEligible, run, history
<1>14. CASE BecomesIneligible
  BY <1>14 DEF BecomesIneligible, run
<1>15. CASE UNCHANGED vars
  BY <1>15 DEF vars
<1> QED
  BY <1>1, <1>6, <1>7, <1>8, <1>9, <1>10, <1>11, <1>12, <1>13, <1>14, <1>15
  DEF Next, RunStep

\* With one sweeper that commits last, no steady key is passed over and a lap
\* that reports nothing remaining has handled every one (sweeps.commit).
THEOREM SweepsCover ==
    ASSUME OneSweeper
    PROVE  Spec => [](NothingPassedOver /\ QuietMeansDone)
<1>1. Init => SweepInv
  BY KeysAssumption
  DEF Init, SweepInv, NothingPassedOver, QuietMeansDone, RunCovers, Start
<1>2. TypeOK /\ SweepInv /\ [Next]_vars => SweepInv'
  BY SweepStep
<1>3. SweepInv => NothingPassedOver /\ QuietMeansDone
  BY DEF SweepInv
<1> QED
  BY <1>1, <1>2, <1>3, TypeCorrect, PTL DEF Spec

-----------------------------------------------------------------------------
(* WriteBack *)

BackConstants ==
    /\ Order \in Seq(BackKeys)
    /\ \A k \in BackKeys : \E i \in 1 .. Len(Order) : Order[i] = k
    /\ \A i, j \in 1 .. Len(Order) : Order[i] = Order[j] => i = j
    /\ Batch \in Nat \ {0} /\ MaxTexts \in Nat \ {0} /\ MaxCrashes \in Nat

\* What the migration makes of a row, if anything.
Converted == Back!Row("new", 1, TRUE)
Changed(k) == copy[k] # Back!Manifest[k]

\* A row that the tool need not carry back.
Settled(k) == live[k] # Back!Manifest[k] \/ k \in queued

\* What an open batch writes is still true of the live store.
HeldOK ==
    tool = "held" => \A k \in disk.inflight.rows : live[k] # Back!Gone /\ text[k] = 1 /\ Changed(k)

BackInv ==
    /\ Back!TypeOK
    /\ \A k \in BackKeys : copy[k] \in {Back!Manifest[k], Converted}
    /\ HeldOK

LEMMA BackStart ==
    ASSUME BackConstants, Back!Init
    PROVE  BackInv
<1>1. Back!Manifest \in [BackKeys -> Back!Entries]
  BY DEF Back!Manifest, Back!Entries, Back!Row, BackConstants
<1> QED
  BY <1>1 DEF BackInv, Back!Init, Back!TypeOK, HeldOK, Back!NoFlight, BackConstants

LEMMA CursorInOrder ==
    ASSUME BackConstants, Back!TypeOK
    PROVE  Len(Order) \in Nat /\ disk.cursor \in Nat /\ disk.cursor <= Len(Order)
BY DEF BackConstants, Back!TypeOK

LEMMA PageInOrder ==
    ASSUME BackConstants, Back!TypeOK
    PROVE  /\ Back!PageEnd \in 0 .. Len(Order) /\ disk.cursor <= Back!PageEnd
           /\ Back!Page \subseteq BackKeys
           /\ Back!Page # {} => Back!PageEnd > disk.cursor
<1>1. Len(Order) \in Nat /\ \A i \in 1 .. Len(Order) : Order[i] \in BackKeys
  BY DEF BackConstants
<1>2. disk.cursor \in 0 .. Len(Order)
  BY DEF Back!TypeOK
<1>3. Back!PageEnd \in 0 .. Len(Order) /\ disk.cursor <= Back!PageEnd
  BY <1>1, <1>2 DEF Back!PageEnd, BackConstants
<1>4. \A i \in disk.cursor + 1 .. Back!PageEnd : i \in 1 .. Len(Order)
  BY <1>1, <1>2, <1>3
<1>5. Back!Page \subseteq BackKeys
  BY <1>1, <1>4 DEF Back!Page
<1>6. Back!Page # {} => Back!PageEnd > disk.cursor
  BY <1>2, <1>3 DEF Back!Page
<1> QED
  BY <1>3, <1>5, <1>6

LEMMA Renamed ==
    ASSUME NEW r \in Back!Entries
    PROVE  [r EXCEPT !.tag = "new"] \in Back!Entries
<1>1. r = [tag |-> r.tag, of |-> r.of, whole |-> r.whole] /\ r.of \in 0 .. MaxTexts
              /\ r.whole \in BOOLEAN
  BY DEF Back!Entries
<1>2. [r EXCEPT !.tag = "new"] = [tag |-> "new", of |-> r.of, whole |-> r.whole]
  BY <1>1
<1> QED
  BY <1>1, <1>2 DEF Back!Entries

LEMMA Retagged ==
    ASSUME NEW t, NEW n, NEW w
    PROVE  [Back!Row(t, n, w) EXCEPT !.tag = "new"] = Back!Row("new", n, w)
BY DEF Back!Row

LEMMA RowTypes ==
    ASSUME MaxTexts \in Nat \ {0}
    PROVE  /\ Back!Gone \in Back!Entries /\ Back!Blank \in Back!Entries
           /\ \A n \in 1 .. MaxTexts, w \in BOOLEAN : Back!Row("new", n, w) \in Back!Entries
BY DEF Back!Gone, Back!Blank, Back!Row, Back!Entries

LEMMA AgentTypes ==
    ASSUME BackConstants, Back!TypeOK, Back!Agent
    PROVE  Back!TypeOK'
<1>1. PICK k \in BackKeys : Back!Rewrite(k) \/ Back!Delete(k) \/ Back!Heal(k) \/ Back!Embed(k)
  BY DEF Back!Agent
<1> DEFINE num == MaxTexts \in Nat \ {0}
<1>2. num
  BY DEF BackConstants
<1>3. /\ UNCHANGED <<copy, tool, disk, kills>>
      /\ text' \in [BackKeys -> 1 .. MaxTexts] /\ queued' \subseteq BackKeys
  <2>1. text[k] < MaxTexts => text[k] + 1 \in 1 .. MaxTexts
    BY <1>2 DEF Back!TypeOK
  <2> QED
    BY <1>1, <2>1 DEF Back!Rewrite, Back!Delete, Back!Heal, Back!Embed, Back!TypeOK
<1>4. \E r \in Back!Entries : live' = [live EXCEPT ![k] = r]
  <2>1. CASE Back!Rewrite(k)
    <3>1. text[k] + 1 \in 1 .. MaxTexts
      BY <1>2, <2>1 DEF Back!Rewrite, Back!TypeOK
    <3>2. Back!Row("new", text[k] + 1, TRUE) \in Back!Entries /\ Back!Blank \in Back!Entries
      BY <1>2, <3>1, RowTypes
    <3> QED
      BY <2>1, <3>2 DEF Back!Rewrite
  <2>2. CASE Back!Delete(k)
    BY <1>2, <2>2, RowTypes DEF Back!Delete, Back!TypeOK
  <2>3. CASE Back!Heal(k)
    <3>1. live[k] \in Back!Entries /\ [live[k] EXCEPT !.tag = "new"] \in Back!Entries
      BY Renamed DEF Back!TypeOK
    <3>2. live = [live EXCEPT ![k] = live[k]]
      BY DEF Back!TypeOK
    <3>3. \/ live' = live
          \/ live' = [live EXCEPT ![k] = [live[k] EXCEPT !.tag = "new"]]
      BY <2>3 DEF Back!Heal
    <3> QED
      BY <3>1, <3>2, <3>3
  <2>4. CASE Back!Embed(k)
    <3>1. live[k] \in Back!Entries /\ live = [live EXCEPT ![k] = live[k]]
      BY DEF Back!TypeOK
    <3>2. Back!Row("new", text[k], ~(OldBuild /\ k \in AtRisk)) \in Back!Entries
      BY <1>2, RowTypes DEF Back!TypeOK
    <3> QED
      BY <2>4, <3>1, <3>2 DEF Back!Embed
  <2> QED
    BY <1>1, <2>1, <2>2, <2>3, <2>4
<1> QED
  BY <1>3, <1>4 DEF Back!TypeOK

LEMMA ToolTypes ==
    ASSUME BackConstants, BackInv, Back!Tool \/ Back!MigrationStops \/ Back!Crash
    PROVE  Back!TypeOK'
<1> USE DEF BackInv
<1>1. Back!PageEnd \in 0 .. Len(Order) /\ Back!Page \subseteq BackKeys /\ Len(Order) \in Nat
              /\ MaxCrashes \in Nat
  BY PageInOrder DEF BackConstants
<1>2. Converted \in Back!Entries
  BY DEF Converted, Back!Row, Back!Entries, BackConstants
<1>3. CASE Back!Retag
  <2>1. \A k \in BackKeys : [copy[k] EXCEPT !.tag = "new"] \in Back!Entries
    BY Renamed DEF Back!TypeOK
  <2> QED
    BY <1>3, <2>1 DEF Back!Retag, Back!TypeOK
<1>4. CASE Back!Reembed
  BY <1>1, <1>2, <1>4 DEF Back!Reembed, Back!TypeOK, Converted
<1>5. CASE Back!Migrated \/ Back!MigrationStops
  BY <1>1, <1>5 DEF Back!Migrated, Back!MigrationStops, Back!TypeOK
<1>6. CASE Back!ApplyBatch
  <2>1. {k \in Back!Candidates : Back!Accepted(k)} \subseteq BackKeys
    BY <1>1 DEF Back!Candidates
  <2> QED
    BY <1>1, <1>6, <2>1 DEF Back!ApplyBatch, Back!TypeOK
<1>7. CASE Back!Commit
  BY <1>7 DEF Back!Commit, Back!TypeOK
<1>8. CASE Back!SaveCursor
  BY <1>1, <1>8 DEF Back!SaveCursor, Back!TypeOK, Back!NoFlight
<1>9. CASE Back!ReconcileInflight
  BY <1>1, <1>9 DEF Back!ReconcileInflight, Back!TypeOK, Back!NoFlight
<1>10. CASE Back!Complete \/ Back!Crash
  BY <1>1, <1>10 DEF Back!Complete, Back!Crash, Back!TypeOK
<1> QED
  BY <1>3, <1>4, <1>5, <1>6, <1>7, <1>8, <1>9, <1>10 DEF Back!Tool

LEMMA CopyConverts ==
    ASSUME BackConstants, BackInv, Back!Tool \/ Back!MigrationStops
                   \/ Back!Crash, NEW k \in BackKeys
    PROVE  /\ copy'[k] \in {Back!Manifest[k], Converted}
           /\ copy'[k] # copy[k] => tool \in {"survey", "reembed"}
<1> USE DEF BackInv
<1>1. CASE Back!Retag
  <2>1. Back!Manifest[k] = Back!Row(IF k \in Aliased THEN "alias" ELSE "old", 1, TRUE)
    BY DEF Back!Manifest
  <2>2. Back!Manifest[k].tag = "alias" => [Back!Manifest[k] EXCEPT !.tag = "new"] = Converted
    <3>1. CASE k \in Aliased
      <4>1. PICK n, w : n = 1 /\ w = TRUE
        OBVIOUS
      <4>2. Back!Manifest[k] = Back!Row("alias", n, w) /\ Converted = Back!Row("new", n, w)
        BY <2>1, <3>1, <4>1 DEF Converted
      <4> QED
        BY <4>2, Retagged
    <3>2. CASE k \notin Aliased
      BY <2>1, <3>2 DEF Back!Row
    <3> QED
      BY <3>1, <3>2
  <2>3. copy'[k] = IF copy[k].tag = "alias" THEN [copy[k] EXCEPT !.tag = "new"] ELSE copy[k]
    BY <1>1 DEF Back!Retag, Back!Classify, Back!TypeOK
  <2> QED
    <3>1. copy'[k] \in {Back!Manifest[k], Converted}
      <4>1. Converted.tag = "new"
        BY DEF Converted, Back!Row
      <4> QED
        BY <2>2, <2>3, <4>1
    <3> QED
      BY <1>1, <3>1 DEF Back!Retag
<1>2. CASE Back!Reembed
  BY <1>2 DEF Back!Reembed, Back!TypeOK, Converted
<1>3. CASE UNCHANGED copy
  BY <1>3
<1> QED
  BY <1>1, <1>2, <1>3 DEF Back!Tool, Back!Migrated, Back!MigrationStops, Back!ApplyBatch,
     Back!Commit, Back!SaveCursor,
     Back!ReconcileInflight, Back!Complete, Back!Crash

LEMMA BackStep ==
    ASSUME BackConstants, BackInv, [Back!Next]_(Back!vars)
    PROVE  BackInv'
<1> USE DEF BackInv
<1>1. CASE Back!Agent
  <2>1. UNCHANGED <<copy, tool, disk>> /\ tool # "held"
    BY <1>1 DEF Back!Agent, Back!Rewrite, Back!Delete, Back!Heal, Back!Embed, Back!AgentMayWrite
  <2>2. Back!Manifest' = Back!Manifest
    BY DEF Back!Manifest
  <2> QED
    BY <1>1, <2>1, <2>2, AgentTypes DEF HeldOK
<1>2. CASE Back!Tool \/ Back!MigrationStops \/ Back!Crash
  <2>1. \A k \in BackKeys : copy'[k] \in {Back!Manifest[k], Converted}
    BY <1>2, CopyConverts
  <2>2. HeldOK'
    <3> SUFFICES ASSUME tool' = "held" PROVE HeldOK'
      BY DEF HeldOK
    <3>1. Back!ApplyBatch
      BY <1>2 DEF Back!Tool, Back!Retag, Back!Reembed, Back!Migrated, Back!MigrationStops,
         Back!Commit, Back!SaveCursor,
         Back!ReconcileInflight, Back!Complete, Back!Crash
    <3>2. disk'.inflight.rows = {k \in Back!Candidates : Back!Accepted(k)}
                  /\ UNCHANGED <<copy, live, text>>
      BY <3>1 DEF Back!ApplyBatch, Back!TypeOK
    <3> QED
      BY <3>2 DEF HeldOK, Back!Candidates, Back!Accepted, Changed, Back!Manifest
  <2> QED
    BY <1>2, <2>1, <2>2, ToolTypes
<1>3. CASE UNCHANGED Back!vars
  BY <1>3 DEF Back!vars, Back!TypeOK, HeldOK, Changed, Back!Manifest
<1> QED
  BY <1>1, <1>2, <1>3 DEF Back!Next

LEMMA WritesOnlyTrue ==
    ASSUME BackInv, [Back!Next]_(Back!vars), tool = "held", tool' = "committed",
           NEW k \in BackKeys, live'[k] # live[k]
    PROVE  live'[k] = Back!Row("new", text[k], TRUE)
<1>1. Back!Commit
  BY DEF Back!Next, Back!Agent, Back!Rewrite, Back!Delete, Back!Heal, Back!Embed, Back!Tool,
     Back!Retag, Back!Reembed, Back!Migrated, Back!ApplyBatch, Back!SaveCursor,
     Back!ReconcileInflight, Back!Complete, Back!MigrationStops, Back!Crash, Back!vars
<1>2. k \in disk.inflight.rows /\ live'[k] = copy[k]
  BY <1>1 DEF Back!Commit
<1> QED
  BY <1>2 DEF BackInv, HeldOK, Changed, Converted

LEMMA GoneStays ==
    ASSUME BackInv, [Back!Next]_(Back!vars), NEW k \in BackKeys, live[k] = Back!Gone
    PROVE  live'[k] = Back!Gone
<1>1. CASE Back!Agent
  <2>1. PICK j \in BackKeys : Back!Rewrite(j) \/ Back!Delete(j) \/ Back!Heal(j) \/ Back!Embed(j)
    BY <1>1 DEF Back!Agent
  <2>2. live[j] = Back!Gone => live'[j] = Back!Gone
    BY <2>1 DEF Back!Rewrite, Back!Delete, Back!Heal, Back!Embed, BackInv, Back!TypeOK, Back!Gone,
       Back!Row
  <2>3. j # k => live'[k] = live[k]
    BY <2>1 DEF Back!Rewrite, Back!Delete, Back!Heal, Back!Embed, BackInv, Back!TypeOK
  <2> QED
    BY <2>2, <2>3
<1>2. CASE Back!Commit
  BY <1>2 DEF Back!Commit, BackInv, HeldOK
<1> QED
  BY <1>1, <1>2 DEF Back!Next, Back!Tool, Back!Retag, Back!Reembed, Back!Migrated,
     Back!ApplyBatch, Back!SaveCursor,
     Back!ReconcileInflight, Back!Complete, Back!MigrationStops, Back!Crash, Back!vars

\* Whenever the agent writes, deletes or heals and wherever migration and tool
\* are killed: what a batch commits is the vector of the whole text the row has
\* at that moment, and a row that was forgotten never comes back
\* (writeback_vectors.py _candidates, _apply_batch).
THEOREM BackWritesTrue ==
    ASSUME BackConstants
    PROVE  Back!Spec => Back!WritesTrue /\ Back!ForgottenStaysForgotten
<1>1. Back!Init => BackInv
  BY BackStart
<1>2. BackInv /\ [Back!Next]_(Back!vars) => BackInv'
  BY BackStep
<1>3. BackInv /\ [Back!Next]_(Back!vars) => [tool = "held" /\ tool' = "committed" =>
         \A k \in BackKeys : live'[k] # live[k]
                 => live'[k] = Back!Row("new", text[k], TRUE)]_(Back!vars)
  BY WritesOnlyTrue
<1>4. BackInv /\ [Back!Next]_(Back!vars) => [\A k \in BackKeys : live[k] = Back!Gone
              => live'[k] = Back!Gone]_(Back!vars)
  BY GoneStays
<1> QED
  BY <1>1, <1>2, <1>3, <1>4, PTL DEF Back!Spec, Back!WritesTrue, Back!ForgottenStaysForgotten

-----------------------------------------------------------------------------

\* The agent is not heard while the tool is down, and of a text past the old
\* clamp it embeds the head only, so that what equals the copy there was carried
\* back.
TellsApart == QuietWhileDown /\ (OldBuild \/ AtRisk = {}) /\ AtRisk \cap Aliased = {}

Behind(k) == \E i \in 1 .. disk.cursor : Order[i] = k

WalkOK ==
    /\ \A k \in BackKeys : text[k] # 1 => live[k] # Back!Manifest[k]
    /\ \A k \in AtRisk \cap BackKeys : live[k].tag # "alias"
    /\ tool \notin {"survey", "reembed"} => \A k \in BackKeys : Behind(k)
               /\ Changed(k) => Settled(k)
    /\ tool = "done" => disk.cursor = Len(Order)

FlightOK ==
    /\ tool \in {"survey", "reembed", "walk"} => disk.inflight = Back!NoFlight
    /\ tool \in {"held", "committed", "down"} =>
          disk.inflight = Back!NoFlight \/ (disk.inflight.after = Back!PageEnd
                  /\ disk.inflight.rows \subseteq Back!Candidates)
    /\ tool = "held" => disk.inflight.rows = {k \in Back!Candidates : Back!Accepted(k)}
    /\ tool = "committed" \/ (tool = "down" /\ Back!Reconciled(disk.inflight)) =>
          \A k \in Back!Page : Changed(k) => Settled(k)

\* Ahead of the walk nothing equals the copy where the snapshot is not asked.
FreshOK ==
    \A k \in AtRisk \cap BackKeys : live[k] = Converted =>
        /\ tool \notin {"survey", "reembed"}
        /\ Behind(k) \/ (tool \in {"committed", "down"} /\ k \in disk.inflight.rows)

WalkInv == BackInv /\ WalkOK /\ FlightOK /\ FreshOK

LEMMA WalkStart ==
    ASSUME BackConstants, TellsApart, Back!Init
    PROVE  WalkInv
<1>1. BackInv
  BY BackStart
<1>2. \A k \in BackKeys : live[k] = Back!Row(IF k \in Aliased THEN "alias" ELSE "old", 1, TRUE)
              /\ text[k] = 1
  BY DEF Back!Init, Back!Manifest
<1>3. \A k \in AtRisk \cap BackKeys : live[k].tag = "old"
  <2> SUFFICES ASSUME NEW k \in AtRisk \cap BackKeys PROVE live[k].tag = "old"
    OBVIOUS
  <2>1. k \notin Aliased
    BY DEF TellsApart
  <2>2. PICK w : w = TRUE
    OBVIOUS
  <2>3. live[k] = Back!Row("old", 1, w)
    BY <1>2, <2>1, <2>2
  <2> QED
    BY <2>3 DEF Back!Row
<1>6. WalkOK
  BY <1>2, <1>3 DEF WalkOK, Back!Init
<1>4. FlightOK
  BY DEF FlightOK, Back!Init
<1>5. FreshOK
  <2>1. Converted.tag = "new"
    BY DEF Converted, Back!Row
  <2> QED
    BY <1>3, <2>1 DEF FreshOK
<1> QED
  BY <1>1, <1>4, <1>5, <1>6 DEF WalkInv

\* What the agent does to a row.
LEMMA AgentRow ==
    ASSUME BackConstants, TellsApart, BackInv, WalkOK, Back!Agent, NEW k \in BackKeys
    PROVE  /\ live[k] # Back!Manifest[k] => live'[k] # Back!Manifest[k]
           /\ Settled(k) => live'[k] # Back!Manifest[k] \/ k \in queued'
           /\ text'[k] # 1 => text[k] # 1 \/ live'[k] # Back!Manifest[k]
           /\ k \in AtRisk => live'[k].tag # "alias"
           /\ k \in AtRisk /\ live'[k] = Converted => live[k] = Converted
<1>1. PICK j \in BackKeys : Back!Rewrite(j) \/ Back!Delete(j) \/ Back!Heal(j) \/ Back!Embed(j)
  BY DEF Back!Agent
<1>2. Back!Manifest[k].tag \in {"old", "alias"} /\ Back!Manifest[k].of = 1
  BY DEF Back!Manifest, Back!Row
<1>3. live \in [BackKeys -> Back!Entries] /\ text \in [BackKeys -> 1 .. MaxTexts] /\ MaxTexts \in Nat
  BY DEF BackInv, Back!TypeOK, BackConstants
<1>4. k \in AtRisk => live[k].tag # "alias"
  BY DEF WalkOK
<1>5. CASE j # k
  <2>1. live'[k] = live[k] /\ text'[k] = text[k] /\ (k \in queued => k \in queued')
    BY <1>1, <1>3, <1>5 DEF Back!Rewrite, Back!Delete, Back!Heal, Back!Embed
  <2> QED
    BY <1>4, <2>1 DEF Settled
<1>6. CASE j = k /\ Back!Rewrite(k)
  <2>1. live'[k] = Back!Row("new", text[k] + 1, TRUE) \/ live'[k] = Back!Blank
    BY <1>3, <1>6 DEF Back!Rewrite
  <2>2. live'[k].tag \in {"new", "null"} /\ live'[k] # Converted
    BY <1>3, <2>1 DEF Back!Row, Back!Blank, Converted
  <2> QED
    BY <1>2, <2>2
<1>7. CASE j = k /\ Back!Delete(k)
  <2>1. live'[k].tag = "gone" /\ live'[k] # Converted /\ UNCHANGED text
    BY <1>3, <1>7 DEF Back!Delete, Back!Gone, Back!Row, Converted
  <2> QED
    BY <1>2, <2>1
<1>8. CASE j = k /\ Back!Heal(k)
  <2>1. CASE live[k].tag = "alias"
    <3>1. live'[k].tag = "new" /\ UNCHANGED text
      BY <1>3, <1>8, <2>1 DEF Back!Heal, Back!Entries
    <3> QED
      BY <1>2, <1>4, <2>1, <3>1
  <2>2. CASE live[k].tag # "alias"
    BY <1>4, <1>8, <2>2 DEF Back!Heal, Settled
  <2> QED
    BY <2>1, <2>2
<1>9. CASE j = k /\ Back!Embed(k)
  <2>1. CASE live[k] = Back!Gone \/ live[k].tag = "new"
    <3>1. live[k].tag \in {"gone", "new"} /\ UNCHANGED <<live, text>>
      BY <1>9, <2>1 DEF Back!Embed, Back!Gone, Back!Row
    <3> QED
      BY <1>2, <1>4, <3>1
  <2>2. CASE ~(live[k] = Back!Gone \/ live[k].tag = "new")
    <3>1. live'[k] = Back!Row("new", text[k], ~(OldBuild /\ k \in AtRisk)) /\ UNCHANGED text
      BY <1>3, <1>9, <2>2 DEF Back!Embed
    <3>2. live'[k].tag = "new"
      BY <3>1 DEF Back!Row
    <3>3. k \in AtRisk => live'[k] # Converted
      <4> SUFFICES ASSUME k \in AtRisk PROVE live'[k] # Converted
        OBVIOUS
      <4>1. OldBuild
        BY DEF TellsApart
      <4>2. PICK w : w = (~(OldBuild /\ k \in AtRisk)) /\ w = FALSE
        BY <4>1
      <4>5. live'[k] = Back!Row("new", text[k], w)
        BY <3>1, <4>2
      <4>3. live'[k].whole = FALSE
        BY <4>2, <4>5 DEF Back!Row
      <4>4. Converted.whole = TRUE
        BY DEF Converted, Back!Row
      <4> QED
        BY <4>3, <4>4
    <3> QED
      BY <1>2, <3>1, <3>2, <3>3
  <2> QED
    BY <2>1, <2>2
<1> QED
  BY <1>1, <1>5, <1>6, <1>7, <1>8, <1>9

LEMMA AgentWalk ==
    ASSUME BackConstants, TellsApart, WalkInv, Back!Agent
    PROVE  WalkOK' /\ FlightOK' /\ FreshOK'
<1> USE DEF WalkInv
<1>1. UNCHANGED <<copy, tool, disk>> /\ tool \notin {"held", "down"}
  BY DEF Back!Agent, Back!Rewrite, Back!Delete, Back!Heal, Back!Embed, Back!AgentMayWrite,
     TellsApart
<1>2. /\ UNCHANGED <<Back!PageEnd, Back!Page, Back!Candidates>>
      /\ \A k \in BackKeys : (Behind(k)' <=> Behind(k)) /\ (Changed(k)' <=> Changed(k))
                 /\ (Settled(k) => Settled(k)')
  BY <1>1, AgentRow DEF Back!PageEnd, Back!Page, Back!Candidates, Behind, Changed, Settled,
     Back!Manifest
<1>3. Back!Page \subseteq BackKeys
  BY PageInOrder DEF BackInv
<1>4. WalkOK'
  BY <1>1, <1>2, AgentRow DEF WalkOK, Back!Manifest
<1>5. FlightOK'
  BY <1>1, <1>2, <1>3 DEF FlightOK
<1>6. FreshOK'
  <2>1. \A k \in AtRisk \cap BackKeys : live'[k] = Converted => live[k] = Converted
    BY AgentRow
  <2> QED
    BY <1>1, <1>2, <2>1 DEF FreshOK, Converted
<1> QED
  BY <1>4, <1>5, <1>6

\* A row of the page is not one behind the cursor.
LEMMA PageAhead ==
    ASSUME BackConstants, Back!TypeOK, NEW k \in Back!Page
    PROVE  /\ ~Behind(k)
           /\ \E i \in 1 .. Back!PageEnd : Order[i] = k
<1>1. /\ Len(Order) \in Nat /\ disk.cursor \in 0 .. Len(Order)
      /\ Back!PageEnd \in 0 .. Len(Order) /\ disk.cursor <= Back!PageEnd
  BY PageInOrder, CursorInOrder
<1>2. PICK i \in disk.cursor + 1 .. Back!PageEnd : Order[i] = k
  BY DEF Back!Page
<1>3. i \in 1 .. Back!PageEnd /\ i \in 1 .. Len(Order)
  BY <1>1
<1>4. \A j \in 1 .. disk.cursor : j \in 1 .. Len(Order) /\ j # i
  BY <1>1
<1>5. \A j \in 1 .. Len(Order) : Order[i] = Order[j] => i = j
  BY <1>3 DEF BackConstants
<1> QED
  BY <1>2, <1>3, <1>4, <1>5 DEF Behind

\* Once the page is accounted for the cursor may pass it.
LEMMA CursorPasses ==
    ASSUME BackConstants, BackInv, UNCHANGED <<copy, live, queued>>, disk'.cursor = Back!PageEnd,
           \A k \in BackKeys : Behind(k) /\ Changed(k) => Settled(k),
           \A k \in Back!Page : Changed(k)
                   => Settled(k), NEW k \in BackKeys, Behind(k)', Changed(k)'
    PROVE  Settled(k)'
<1>1. PICK i \in 1 .. Back!PageEnd : Order[i] = k
  BY DEF Behind
<1>2. disk.cursor \in Nat /\ Back!PageEnd \in Nat
  BY PageInOrder, CursorInOrder DEF BackInv
<1>3. CASE i <= disk.cursor
  <2>1. i \in 1 .. disk.cursor
    BY <1>2, <1>3
  <2>2. Behind(k)
    BY <1>1, <2>1 DEF Behind
  <2> QED
    BY <2>2 DEF Changed, Settled, Back!Manifest
<1>4. CASE i > disk.cursor
  <2>1. k \in Back!Page
    BY <1>1, <1>2, <1>4 DEF Back!Page
  <2> QED
    BY <2>1 DEF Changed, Settled, Back!Manifest
<1> QED
  BY <1>2, <1>3, <1>4

\* What was behind the cursor stays behind it, and the page is behind the next.
LEMMA BehindGrows ==
    ASSUME BackConstants, Back!TypeOK, disk'.cursor = Back!PageEnd, NEW k, Behind(k)
                   \/ k \in Back!Page
    PROVE  Behind(k)'
<1>1. disk.cursor \in Nat /\ Back!PageEnd \in Nat /\ disk.cursor <= Back!PageEnd
  BY PageInOrder DEF Back!TypeOK, BackConstants
<1>2. \E i \in 1 .. Back!PageEnd : Order[i] = k
  BY <1>1, PageAhead DEF Behind
<1> QED
  BY <1>2 DEF Behind

LEMMA MigrationWalk ==
    ASSUME BackConstants, WalkInv, Back!Retag \/ Back!Reembed \/ Back!Migrated
                   \/ Back!MigrationStops
    PROVE  WalkOK' /\ FlightOK' /\ FreshOK'
<1> USE DEF WalkInv
<1>1. /\ UNCHANGED <<live, text, queued>> /\ tool \in {"survey", "reembed"}
      /\ disk'.inflight = disk.inflight
      /\ \/ tool' \in {"survey", "reembed"}
         \/ tool' = "walk" /\ disk'.cursor = 0
  BY DEF Back!Retag, Back!Reembed, Back!Migrated, Back!MigrationStops, BackInv, Back!TypeOK
<1>2. disk'.cursor = 0 => \A k : ~Behind(k)'
  BY DEF Behind
<1>3. WalkOK'
  BY <1>1, <1>2 DEF WalkOK, Back!Manifest
<1>4. FlightOK'
  BY <1>1 DEF FlightOK, Back!NoFlight
<1>5. FreshOK'
  BY <1>1 DEF FreshOK, Converted
<1> QED
  BY <1>3, <1>4, <1>5

LEMMA ApplyWalk ==
    ASSUME BackConstants, WalkInv, Back!ApplyBatch
    PROVE  WalkOK' /\ FlightOK' /\ FreshOK'
<1> USE DEF WalkInv
<1>1. /\ UNCHANGED <<copy, live, text, queued>> /\ tool = "walk" /\ tool' = "held"
      /\ disk' = [cursor |-> disk.cursor,
                  inflight |-> [rows |-> {k \in Back!Candidates : Back!Accepted(k)},
                          after |-> Back!PageEnd]]
  BY DEF Back!ApplyBatch, BackInv, Back!TypeOK
<1>2. /\ UNCHANGED <<Back!PageEnd, Back!Page, Back!Candidates>>
      /\ \A k : (Behind(k)' <=> Behind(k)) /\ (Changed(k)' <=> Changed(k))
                 /\ (Settled(k)' <=> Settled(k))
      /\ \A k : Back!Accepted(k)' <=> Back!Accepted(k)
  BY <1>1 DEF Back!PageEnd, Back!Page, Back!Candidates, Behind, Changed, Settled, Back!Manifest,
     Back!Accepted
<1>3. WalkOK'
  BY <1>1, <1>2 DEF WalkOK, Back!Manifest
<1>4. FlightOK'
  BY <1>1, <1>2 DEF FlightOK
<1>5. FreshOK'
  BY <1>1, <1>2 DEF FreshOK, Converted
<1> QED
  BY <1>3, <1>4, <1>5

LEMMA CommitWalk ==
    ASSUME BackConstants, WalkInv, Back!Commit
    PROVE  WalkOK' /\ FlightOK' /\ FreshOK'
<1> USE DEF WalkInv
<1>1. /\ UNCHANGED <<copy, text, queued, disk>> /\ tool = "held" /\ tool' = "committed"
      /\ live' = [k \in BackKeys |-> IF k \in disk.inflight.rows THEN copy[k] ELSE live[k]]
      /\ disk.inflight.rows = {k \in Back!Candidates : Back!Accepted(k)}
  BY DEF Back!Commit, FlightOK
<1>2. /\ UNCHANGED <<Back!PageEnd, Back!Page, Back!Candidates>>
      /\ \A k : (Behind(k)' <=> Behind(k)) /\ (Changed(k)' <=> Changed(k))
  BY <1>1 DEF Back!PageEnd, Back!Page, Back!Candidates, Behind, Changed, Back!Manifest
<1>3. \A k \in disk.inflight.rows : k \in Back!Page /\ Changed(k) /\ text[k] = 1
  BY <1>1 DEF Back!Candidates, Changed, Back!Accepted
<1>4. Back!Page \subseteq BackKeys
  BY PageInOrder DEF BackInv
<1>5. \A k \in BackKeys : (live[k] # Back!Manifest[k] => live'[k] # Back!Manifest[k])
              /\ (Settled(k) => Settled(k)')
  BY <1>1, <1>3 DEF Changed, Settled, Back!Manifest
<1>6. ASSUME NEW k \in Back!Page, Changed(k) PROVE Settled(k)'
  <2>1. CASE k \in disk.inflight.rows
    BY <1>1, <1>4, <1>6, <2>1 DEF Changed, Settled, Back!Manifest
  <2>2. CASE k \notin disk.inflight.rows
    <3>1. ~Back!Accepted(k)
      BY <1>1, <1>6, <2>2 DEF Back!Candidates, Changed
    <3>2. Back!Gone # Back!Manifest[k]
      BY <1>4 DEF Back!Gone, Back!Manifest, Back!Row
    <3>3. Settled(k)
      BY <1>4, <3>1, <3>2 DEF Back!Accepted, Settled, WalkOK
    <3> QED
      BY <1>4, <1>5, <3>3
  <2> QED
    BY <2>1, <2>2
<1>7. WalkOK'
  <2>1. \A k \in BackKeys : live'[k].tag = "alias" => live[k].tag = "alias"
    <3>1. \A k \in disk.inflight.rows \cap BackKeys : copy[k].tag = "new"
      BY <1>3 DEF BackInv, Changed, Converted, Back!Row
    <3> QED
      BY <1>1, <3>1
  <2> QED
    BY <1>1, <1>2, <1>5, <2>1 DEF WalkOK, Back!Manifest
<1>8. FlightOK'
  BY <1>1, <1>2, <1>4, <1>6 DEF FlightOK
<1>9. FreshOK'
  BY <1>1, <1>2 DEF FreshOK, Converted
<1> QED
  BY <1>7, <1>8, <1>9

LEMMA SaveWalk ==
    ASSUME BackConstants, WalkInv, Back!SaveCursor
    PROVE  WalkOK' /\ FlightOK' /\ FreshOK'
<1> USE DEF WalkInv
<1>1. /\ UNCHANGED <<copy, live, text, queued>> /\ tool \in {"committed", "walk"} /\ tool' = "walk"
      /\ disk' = [cursor |-> Back!PageEnd, inflight |-> Back!NoFlight]
  BY DEF Back!SaveCursor
<1>2. \A k \in Back!Page : Changed(k) => Settled(k)
  BY DEF Back!SaveCursor, FlightOK, Back!Candidates, Changed
<1>3. WalkOK'
  <2>1. ASSUME NEW k \in BackKeys, Behind(k)', Changed(k)' PROVE Settled(k)'
    BY <1>1, <1>2, <2>1, CursorPasses DEF WalkOK
  <2> QED
    BY <1>1, <2>1 DEF WalkOK, Back!Manifest
<1>4. FlightOK'
  BY <1>1 DEF FlightOK, Back!NoFlight
<1>5. FreshOK'
  <2> SUFFICES ASSUME NEW k \in AtRisk \cap BackKeys, live'[k] = Converted PROVE Behind(k)'
    BY <1>1 DEF FreshOK, Converted
  <2>1. Behind(k) \/ k \in Back!Page
    BY <1>1 DEF FreshOK, FlightOK, Back!NoFlight, Back!Candidates
  <2> QED
    BY <1>1, <2>1, BehindGrows DEF BackInv
<1> QED
  BY <1>3, <1>4, <1>5

LEMMA CrashWalk ==
    ASSUME BackConstants, TellsApart, WalkInv, Back!Crash
    PROVE  WalkOK' /\ FlightOK' /\ FreshOK'
<1> USE DEF WalkInv
<1>1. UNCHANGED <<copy, live, text, queued, disk>> /\ tool \in {"walk", "held", "committed"}
              /\ tool' = "down"
  BY DEF Back!Crash
<1>2. /\ UNCHANGED <<Back!PageEnd, Back!Page, Back!Candidates>>
      /\ \A k : (Behind(k)' <=> Behind(k)) /\ (Changed(k)' <=> Changed(k))
                 /\ (Settled(k)' <=> Settled(k))
  BY <1>1 DEF Back!PageEnd, Back!Page, Back!Candidates, Behind, Changed, Settled, Back!Manifest
<1>3. ASSUME Back!Reconciled(disk.inflight) PROVE tool = "committed"
  <2>1. PICK k \in disk.inflight.rows : live[k] = copy[k]
    BY <1>3 DEF Back!Reconciled
  <2>2. tool # "walk"
    BY DEF FlightOK, Back!NoFlight
  <2>3. CASE tool = "held"
    <3>1. k \in Back!Candidates /\ Back!Accepted(k)
      BY <2>3 DEF FlightOK
    <3>2. k \in Back!Page /\ k \in BackKeys /\ copy[k] # Back!Manifest[k] /\ copy[k] = Converted
      BY <3>1, PageInOrder DEF Back!Candidates, BackInv
    <3>3. k \in AtRisk /\ live[k] = Converted
      BY <2>1, <3>1, <3>2 DEF Back!Accepted
    <3>4. Behind(k)
      BY <2>3, <3>2, <3>3 DEF FreshOK
    <3> QED
      BY <3>2, <3>4, PageAhead DEF BackInv
  <2> QED
    BY <1>1, <2>2, <2>3
<1>4. WalkOK'
  BY <1>1, <1>2 DEF WalkOK, Back!Manifest
<1>5. FlightOK'
  BY <1>1, <1>2, <1>3 DEF FlightOK, Back!Reconciled
<1>6. FreshOK'
  BY <1>1, <1>2 DEF FreshOK, Converted
<1> QED
  BY <1>4, <1>5, <1>6

LEMMA ReconcileWalk ==
    ASSUME BackConstants, WalkInv, Back!ReconcileInflight
    PROVE  WalkOK' /\ FlightOK' /\ FreshOK'
<1> USE DEF WalkInv
<1>1. /\ UNCHANGED <<copy, live, text, queued>> /\ tool = "down" /\ tool' = "walk"
      /\ disk'.inflight = Back!NoFlight
      /\ disk'.cursor = IF Back!Reconciled(disk.inflight) THEN disk.inflight.after ELSE disk.cursor
  BY DEF Back!ReconcileInflight
<1>2. FlightOK'
  BY <1>1 DEF FlightOK
<1>3. CASE Back!Reconciled(disk.inflight)
  <2>1. disk.inflight # Back!NoFlight
    BY <1>3 DEF Back!Reconciled, Back!NoFlight
  <2>2. disk'.cursor = Back!PageEnd /\ disk.inflight.rows \subseteq Back!Page
    BY <1>1, <1>3, <2>1 DEF FlightOK, Back!Candidates
  <2>3. ASSUME NEW k \in BackKeys, Behind(k)', Changed(k)' PROVE Settled(k)'
    BY <1>1, <1>3, <2>2, <2>3, CursorPasses DEF WalkOK, FlightOK
  <2>4. WalkOK'
    BY <1>1, <2>3 DEF WalkOK, Back!Manifest
  <2>5. FreshOK'
    <3> SUFFICES ASSUME NEW k \in AtRisk \cap BackKeys, live'[k] = Converted PROVE Behind(k)'
      BY <1>1 DEF FreshOK, Converted
    <3>1. Behind(k) \/ k \in Back!Page
      BY <1>1, <2>2 DEF FreshOK
    <3> QED
      BY <2>2, <3>1, BehindGrows DEF BackInv
  <2> QED
    BY <1>2, <2>4, <2>5
<1>4. CASE ~Back!Reconciled(disk.inflight)
  <2>1. \A k : (Behind(k)' <=> Behind(k)) /\ (Changed(k)' <=> Changed(k))
                /\ (Settled(k)' <=> Settled(k))
    BY <1>1, <1>4 DEF Behind, Changed, Settled, Back!Manifest
  <2>2. WalkOK'
    BY <1>1, <2>1 DEF WalkOK, Back!Manifest
  <2>3. ASSUME NEW k \in AtRisk \cap BackKeys, live[k] = Converted, k \in disk.inflight.rows
        PROVE FALSE
    <3>1. copy[k] # Back!Manifest[k]
      BY <1>1, <2>3 DEF FlightOK, Back!NoFlight, Back!Candidates
    <3>2. live[k] = copy[k]
      BY <2>3, <3>1 DEF BackInv
    <3> QED
      BY <1>4, <2>3, <3>2 DEF Back!Reconciled
  <2>4. FreshOK'
    BY <1>1, <2>1, <2>3 DEF FreshOK, Converted
  <2> QED
    BY <1>2, <2>2, <2>4
<1> QED
  BY <1>3, <1>4

LEMMA CompleteWalk ==
    ASSUME WalkInv, Back!Complete \/ UNCHANGED Back!vars
    PROVE  WalkOK' /\ FlightOK' /\ FreshOK'
<1> USE DEF WalkInv
<1>1. /\ UNCHANGED <<copy, live, text, queued, disk>>
      /\ tool' = tool \/ (tool = "walk" /\ tool' = "done" /\ disk.cursor = Len(Order))
  BY DEF Back!Complete, Back!vars
<1>2. /\ UNCHANGED <<Back!PageEnd, Back!Page, Back!Candidates>>
      /\ \A k : (Behind(k)' <=> Behind(k)) /\ (Changed(k)' <=> Changed(k))
                 /\ (Settled(k)' <=> Settled(k))
      /\ \A k : Back!Accepted(k)' <=> Back!Accepted(k)
  BY <1>1 DEF Back!PageEnd, Back!Page, Back!Candidates, Behind, Changed, Settled, Back!Manifest,
     Back!Accepted
<1>3. WalkOK'
  BY <1>1, <1>2 DEF WalkOK, Back!Manifest
<1>4. FlightOK'
  BY <1>1, <1>2 DEF FlightOK, Back!Reconciled
<1>5. FreshOK'
  BY <1>1, <1>2 DEF FreshOK, Converted
<1> QED
  BY <1>3, <1>4, <1>5

LEMMA WalkStep ==
    ASSUME BackConstants, TellsApart, WalkInv, [Back!Next]_(Back!vars)
    PROVE  WalkInv'
<1>1. BackInv'
  BY BackStep DEF WalkInv
<1>2. WalkOK' /\ FlightOK' /\ FreshOK'
  BY AgentWalk, MigrationWalk, ApplyWalk, CommitWalk, SaveWalk, CrashWalk, ReconcileWalk,
     CompleteWalk DEF Back!Next, Back!Tool
<1> QED
  BY <1>1, <1>2 DEF WalkInv

LEMMA WalkHonest ==
    ASSUME BackConstants, WalkInv
    PROVE  Back!NoneLeftBehind /\ Back!CursorIsHonest
<1> USE DEF WalkInv
<1>1. Back!NoneLeftBehind
  <2> SUFFICES ASSUME tool = "done", NEW k \in BackKeys, copy[k] # Back!Manifest[k]
               PROVE  live[k] # Back!Manifest[k] \/ k \in queued
    BY DEF Back!NoneLeftBehind
  <2>1. Behind(k)
    BY DEF WalkOK, Behind, BackConstants
  <2> QED
    BY <2>1 DEF WalkOK, Changed, Settled
<1>2. Back!CursorIsHonest
  <2> SUFFICES ASSUME tool \in {"walk", "held", "committed", "down"}, NEW i \in 1 .. disk.cursor,
                      copy[Order[i]] # Back!Manifest[Order[i]]
               PROVE  live[Order[i]] # Back!Manifest[Order[i]] \/ Order[i] \in queued
    BY DEF Back!CursorIsHonest
  <2>1. Order[i] \in BackKeys
    <3>1. i \in 1 .. Len(Order)
      BY DEF BackInv, Back!TypeOK, BackConstants
    <3> QED
      BY <3>1 DEF BackConstants
  <2>2. Behind(Order[i])
    BY DEF Behind
  <2> QED
    BY <2>1, <2>2 DEF WalkOK, Changed, Settled
<1> QED
  BY <1>1, <1>2

\* As long as what equals the copy ahead of the walk can only have been carried
\* back: no kill makes the walk step over a batch that was not committed, and
\* when the tool says it is complete no converted row holds the vector of before
\* (writeback_vectors.py _reconcile_inflight, run).
THEOREM BackLeavesNone ==
    ASSUME BackConstants, TellsApart
    PROVE  Back!Spec => [](Back!NoneLeftBehind /\ Back!CursorIsHonest)
<1>1. Back!Init => WalkInv
  BY WalkStart
<1>2. WalkInv /\ [Back!Next]_(Back!vars) => WalkInv'
  BY WalkStep
<1>3. WalkInv => Back!NoneLeftBehind /\ Back!CursorIsHonest
  BY WalkHonest
<1> QED
  BY <1>1, <1>2, <1>3, PTL DEF Back!Spec

\* The whole of what the tool promises: what it commits is the vector of the
\* row's text, no forgotten row comes back, and what it says it passed it passed
\* (writeback_vectors.py _candidates, _apply_batch, _reconcile_inflight, run).
THEOREM VectorsCarriedBack ==
    ASSUME BackConstants, TellsApart
    PROVE  Back!Spec => CarriedBack
<1>1. Back!Init => WalkInv
  BY WalkStart
<1>2. WalkInv /\ [Back!Next]_(Back!vars) => WalkInv'
  BY WalkStep
<1>3. WalkInv => BackInv /\ Back!TypeOK /\ Back!NoneLeftBehind /\ Back!CursorIsHonest
  BY WalkHonest DEF WalkInv, BackInv
<1>4. BackInv /\ [Back!Next]_(Back!vars) => [tool = "held" /\ tool' = "committed" =>
         \A k \in BackKeys : live'[k] # live[k]
                 => live'[k] = Back!Row("new", text[k], TRUE)]_(Back!vars)
  BY WritesOnlyTrue
<1>5. BackInv /\ [Back!Next]_(Back!vars) => [\A k \in BackKeys : live[k] = Back!Gone
              => live'[k] = Back!Gone]_(Back!vars)
  BY GoneStays
<1> QED
  BY <1>1, <1>2, <1>3, <1>4, <1>5, PTL DEF Back!Spec, Back!WritesTrue,
     Back!ForgottenStaysForgotten, CarriedBack

-----------------------------------------------------------------------------
(* Federation *)

\* Ids of rows are numbers, and there are finitely many.
RowsOK == Rows \subseteq Nat \ {0} /\ IsFiniteSet(Rows) /\ RowBudget \in Nat

Item == [row : Rows, text : Nat \ {0}]
Pointer == [id : Nat, text : Nat]

\* A run between two rows, and what it comes back to from the middle of one.
Run == {"ingest", "rescan"}
Parts == {"at", "left", "used", "began", "watermark", "cursor"}
RunOK(w) ==
    /\ DOMAIN w = Parts /\ w = [x \in Parts |-> w[x]]
    /\ w.at \in Run /\ w.watermark \in Nat /\ w.left \in Seq(Item)
Frame(s) == IF sweeps[s].at \in Run THEN sweeps[s] ELSE sweeps[s].saved

SweepOK(s) ==
    \/ sweeps[s].at = "rest"
    \/ sweeps[s].at \in Run /\ RunOK(sweeps[s])
    \/ /\ sweeps[s].at \in {"write", "drop", "event"}
       /\ RunOK(sweeps[s].saved) /\ sweeps[s].saved.left # <<>>
       /\ sweeps[s].at = "write" => sweeps[s].found \in Pointer
       /\ sweeps[s].at # "write" => pointers[Head(sweeps[s].saved.left).row] # Fed!NoPointer
       /\ sweeps[s].at = "drop" =>
             sweeps[s] = [at |-> "drop", id |-> sweeps[s].id, saved |-> sweeps[s].saved]

TableOK ==
    /\ source \in [Rows -> Nat] /\ texts \in Nat /\ highest \in Nat
    /\ pointers \in [Rows -> Pointer] /\ minted \in Nat
    /\ state.watermark \in Nat
    /\ sweeps = [s \in Runners |-> sweeps[s]]
    /\ \A s \in Runners : SweepOK(s)

Held(r) == pointers[r] # Fed!NoPointer
Waits(w, r) == w.at = "ingest" /\ \E i \in DOMAIN w.left : w.left[i].row = r

\* No row that is there is past a watermark, written or to be written, without
\* a pointer, save those the run has still to come to.
PassOK ==
    numbering = "serial" =>
        /\ \A r \in Fed!Present : r <= highest
        /\ state.watermark <= highest
        /\ \A r \in Fed!Present : r <= state.watermark => Held(r)
        /\ \A s \in Runners : sweeps[s].at # "rest" =>
              /\ Frame(s).watermark <= highest
              /\ \A r \in Fed!Present : r <= Frame(s).watermark => Held(r) \/ Waits(Frame(s), r)

PassInv == TableOK /\ PassOK

LEMMA SameCount ==
    ASSUME NEW S
    PROVE  Fed!Cardinality(S) = Cardinality(S)
BY DEF Fed!Cardinality, Cardinality

LEMMA LeastNumber ==
    ASSUME NEW S \in SUBSET Nat, S # {}
    PROVE  \E m \in S : \A n \in S : m <= n
<1> DEFINE R == {ss \in Nat \X Nat : ss[1] < ss[2]}
<1>1. IsWellFoundedOn(R, Nat)
  BY NatLessThanWellFounded DEF OpToRel
<1>2. \A m, n \in Nat : <<n, m>> \in R <=> n < m
  OBVIOUS
<1> HIDE DEF R
<1>3. PICK m \in S : \A n \in S : ~ (<<n, m>> \in R)
  BY <1>1, WFMin
<1>4. \A n \in S : n \in Nat /\ m \in Nat /\ ~ (n < m)
  BY <1>2, <1>3
<1> QED
  BY <1>4

LEMMA GreatestNumber ==
    ASSUME NEW S, IsFiniteSet(S), S \subseteq Int, S # {}
    PROVE  \E m \in S : \A y \in S : y <= m
<1>1. PICK f : f \in Bijection(1 .. Cardinality(S), S) /\ Cardinality(S) \in Nat
  BY FS_CardinalityType DEF ExistsBijection
<1> DEFINE n == Cardinality(S)
<1>2. f \in [1 .. n -> S] /\ \A s \in S : \E i \in 1 .. n : f[i] = s
  BY <1>1 DEF Bijection, Injection, Surjection
<1>3. n \in Nat /\ n # 0 /\ 1 \in 1 .. n
  <2>1. PICK s \in S : TRUE
    OBVIOUS
  <2>2. PICK i \in 1 .. n : f[i] = s
    BY <1>2, <2>1
  <2> QED
    BY <1>1, <2>2
<1>9. \A i \in 1 .. n : f[i] \in Int
  BY <1>2
<1> HIDE DEF n
<1> DEFINE ends == {k \in Nat : k <= n /\ \E m \in 1 .. n : \A i \in 1 .. n - k : f[i] <= f[m]}
<1>4. n - 1 \in ends
  <2>1. \A i \in 1 .. n - (n - 1) : i = 1
    BY <1>3
  <2>2. f[1] \in Int
    BY <1>9, <1>3
  <2> QED
    BY <1>3, <2>1, <2>2
<1>5. PICK k \in ends : \A j \in ends : k <= j
  <2>1. ends \subseteq Nat /\ ends # {}
    BY <1>4
  <2> HIDE DEF ends
  <2> QED
    BY <2>1, LeastNumber
<1>6. k = 0
  <2> SUFFICES ASSUME k # 0 PROVE FALSE
    OBVIOUS
  <2>1. PICK m \in 1 .. n : \A i \in 1 .. n - k : f[i] <= f[m]
    OBVIOUS
  <2> DEFINE e == n - k + 1
  <2>2. e \in 1 .. n /\ f[e] \in Int /\ f[m] \in Int
    BY <1>9, <1>3, <1>5
  <2>3. \A i \in 1 .. n - (k - 1) : i \in 1 .. n - k \/ i = e
    BY <1>3, <1>5
  <2>4. \A i \in 1 .. n : f[i] \in Int
    BY <1>9
  <2>5. k - 1 \in Nat /\ k - 1 <= n /\ \A i \in 1 .. n - (k - 1) : i \in 1 .. n
    BY <1>3, <1>5
  <2>6. CASE f[e] <= f[m]
    BY <2>1, <2>3, <2>5, <2>6, <1>5
  <2>7. CASE f[m] < f[e]
    <3>1. \A i \in 1 .. n - (k - 1) : f[i] <= f[e]
      BY <2>1, <2>2, <2>3, <2>4, <2>5, <2>7
    <3>2. k - 1 \in ends
      BY <2>2, <2>5, <3>1
    <3> QED
      BY <3>2, <1>5
  <2> QED
    BY <2>2, <2>6, <2>7
<1>7. \E x \in S : \A y \in S : x >= y
  <2>1. PICK m \in 1 .. n : \A i \in 1 .. n : f[i] <= f[m]
    BY <1>3, <1>5, <1>6
  <2> QED
    BY <1>2, <2>1
<1> QED
  BY <1>7

LEMMA Topmost ==
    ASSUME NEW S \in SUBSET Nat, IsFiniteSet(S), NEW floor \in Nat
    PROVE  /\ Fed!TopOf(S, floor) \in S \cup {floor}
           /\ \A q \in S \cup {floor} : q <= Fed!TopOf(S, floor)
<1>1. IsFiniteSet(S \cup {floor})
  BY FS_AddElement
<1>2. \E m \in S \cup {floor} : \A y \in S \cup {floor} : y <= m
  <2>1. S \cup {floor} \subseteq Int /\ S \cup {floor} # {}
    OBVIOUS
  <2> QED
    BY <1>1, <2>1, GreatestNumber
<1> QED
  BY <1>2 DEF Fed!TopOf

\* In a finite set of numbers every rank is that of one number.
LEMMA RankOfOne ==
    ASSUME NEW S \in SUBSET Nat, IsFiniteSet(S)
    PROVE  /\ \A i \in 1 .. Cardinality(S) : \E q \in S : Cardinality({p \in S : p <= q}) = i
           /\ \A q \in S : Cardinality({p \in S : p <= q}) \in 1 .. Cardinality(S)
           /\ \A q, r \in S :
                 Cardinality({p \in S : p <= q}) = Cardinality({p \in S : p <= r}) => q = r
           /\ Cardinality(S) \in Nat
<1> DEFINE n == Cardinality(S)
           atMost(q) == {p \in S : p <= q}
           rank == [q \in S |-> Cardinality(atMost(q))]
<1>1. n \in Nat
  BY FS_CardinalityType
<1>2. ASSUME NEW q \in S
      PROVE  IsFiniteSet(atMost(q)) /\ Cardinality(atMost(q)) \in Nat /\ Cardinality(atMost(q)) <= n
             /\ q \in atMost(q)
  <2>1. atMost(q) \in SUBSET S /\ q \in atMost(q)
    OBVIOUS
  <2> HIDE DEF atMost
  <2> QED
    BY <2>1, FS_Subset, FS_CardinalityType
<1>3. \A q \in S : Cardinality(atMost(q)) # 0
  <2> HIDE DEF atMost
  <2> QED
    BY <1>2, FS_EmptySet
<1>4. ASSUME NEW q \in S, NEW r \in S, q < r
      PROVE  Cardinality(atMost(q)) # Cardinality(atMost(r))
  <2>1. atMost(q) \in SUBSET atMost(r) /\ r \notin atMost(q) /\ r \in atMost(r)
    <3>1. q \in Nat /\ r \in Nat /\ \A p \in S : p \in Nat
      OBVIOUS
    <3>2. \A p \in S : p <= q => p <= r
      BY <1>4, <3>1
    <3>3. atMost(q) \subseteq atMost(r)
      BY <3>2
    <3>4. ~(r <= q) /\ r <= r
      BY <1>4, <3>1
    <3> QED
      BY <3>3, <3>4
  <2> HIDE DEF atMost
  <2> QED
    BY <1>2, <2>1, FS_Subset
<1>5. \A q, r \in S : Cardinality(atMost(q)) = Cardinality(atMost(r)) => q = r
  <2>1. \A q, r \in S : q < r \/ r < q \/ q = r
    OBVIOUS
  <2> HIDE DEF atMost
  <2> QED
    BY <1>4, <2>1
<1> HIDE DEF atMost
<1>6. rank \in Injection(S, 1 .. n)
  BY <1>1, <1>2, <1>3, <1>5 DEF Injection, IsInjective
<1>7. IsFiniteSet(1 .. n) /\ Cardinality(1 .. n) = n
  <2>1. CASE n = 0
    <3>1. 1 .. n = {}
      BY <2>1
    <3> QED
      BY <2>1, <3>1, FS_EmptySet
  <2>2. CASE n # 0
    BY <1>1, <2>2, FS_Interval
  <2> QED
    BY <2>1, <2>2
<1>8. rank \in Surjection(S, 1 .. n)
  BY <1>6, <1>7, FS_Injection
<1>9. \A i \in 1 .. n : \E q \in S : rank[q] = i
  BY <1>8 DEF Surjection
<1>10. \A q \in S : Cardinality(atMost(q)) \in 1 .. n
  BY <1>1, <1>2, <1>3
<1>11. \A i \in 1 .. n : \E q \in S : Cardinality(atMost(q)) = i
  BY <1>9
<1> USE DEF atMost
<1> QED
  BY <1>1, <1>5, <1>10, <1>11

\* A page has the rows asked for, each with its text.
LEMMA PageHas ==
    ASSUME RowsOK, source \in [Rows -> Nat], NEW S \in SUBSET Fed!Present
    PROVE  /\ Fed!Page(S) \in Seq(Item)
           /\ \A r \in S : \E i \in DOMAIN Fed!Page(S) : Fed!Page(S)[i].row = r
<1>1. S \in SUBSET Nat /\ IsFiniteSet(S) /\ S \subseteq Rows
  BY FS_Subset DEF RowsOK, Fed!Present
<1> DEFINE rank(q) == Cardinality({p \in S : p <= q})
           n == Cardinality(S)
           row(i) == CHOOSE q \in S : rank(q) = i
<1>2. /\ \A i \in 1 .. n : \E q \in S : rank(q) = i
      /\ \A q \in S : rank(q) \in 1 .. n
      /\ \A q, r \in S : rank(q) = rank(r) => q = r
      /\ n \in Nat
  BY <1>1, RankOfOne
<1>3. Fed!Page(S) = [i \in 1 .. n |-> [row |-> row(i), text |-> source[row(i)]]]
  BY SameCount DEF Fed!Page
<1> HIDE DEF rank, n
<1>4. \A i \in 1 .. n : row(i) \in S /\ rank(row(i)) = i
  BY <1>2
<1> HIDE DEF row
<1>5. \A i \in 1 .. n : [row |-> row(i), text |-> source[row(i)]] \in Item
  BY <1>1, <1>4 DEF Item, Fed!Present, Fed!None
<1>6. \A q \in S : row(rank(q)) = q
  BY <1>2, <1>4
<1> QED
  BY <1>2, <1>3, <1>5, <1>6

LEMMA LeastIn ==
    ASSUME NEW S, NEW n
    PROVE  Fed!Least(S, n) \in SUBSET S
BY DEF Fed!Least

\* Below the top of a page of new rows there is no row that is not in it.
LEMMA NewBelow ==
    ASSUME RowsOK, NEW floor \in Nat, NEW r \in Fed!Present, floor < r,
           r <= Fed!TopOf(Fed!Least({q \in Fed!Present : q > floor}, RowBudget), floor)
    PROVE  r \in Fed!Least({q \in Fed!Present : q > floor}, RowBudget)
<1> DEFINE S == {q \in Fed!Present : q > floor}
           m == Fed!TopOf(Fed!Least(S, RowBudget), floor)
           below(x) == {q \in S : q < x}
<1>1. S \in SUBSET Nat /\ IsFiniteSet(S) /\ r \in S /\ Fed!Least(S, RowBudget) \in SUBSET S
  BY FS_Subset, LeastIn DEF RowsOK, Fed!Present
<1>2. IsFiniteSet(Fed!Least(S, RowBudget)) /\ Fed!Least(S, RowBudget) \in SUBSET Nat
  BY <1>1, FS_Subset
<1>3. m \in Fed!Least(S, RowBudget) \cup {floor}
  BY <1>2, Topmost
<1>4. m \in Fed!Least(S, RowBudget) /\ m \in S /\ r <= m
  BY <1>1, <1>3
<1>5. below(r) \in SUBSET below(m) /\ below(m) \in SUBSET S
  BY <1>1, <1>4
<1>6. Cardinality(below(m)) < RowBudget
  BY SameCount, <1>4 DEF Fed!Least
<1>7. IsFiniteSet(below(m)) /\ Cardinality(below(m)) \in Nat
  BY <1>1, <1>5, FS_Subset, FS_CardinalityType
<1>8. Cardinality(below(r)) <= Cardinality(below(m)) /\ Cardinality(below(r)) \in Nat
  BY <1>5, <1>7, FS_Subset, FS_CardinalityType
<1>9. Cardinality(below(r)) < RowBudget
  BY <1>6, <1>7, <1>8 DEF RowsOK
<1> QED
  BY SameCount, <1>1, <1>9 DEF Fed!Least

LEMMA TailHas ==
    ASSUME NEW left \in Seq(Item), left # <<>>
    PROVE  /\ Tail(left) \in Seq(Item) /\ Head(left) \in Item
           /\ \A i \in DOMAIN left : \/ i = 1 /\ left[i] = Head(left)
                                     \/ i - 1 \in DOMAIN Tail(left) /\ Tail(left)[i - 1] = left[i]
OBVIOUS

LEMMA PassStart ==
    ASSUME RowsOK, Fed!Init
    PROVE  PassInv
BY DEF Fed!Init, PassInv, TableOK, PassOK, SweepOK, Fed!Present, Pointer, Fed!NoPointer,
   Fed!Resting, Fed!None

\* What no step but the owner's touches, and what follows for the rows.
LEMMA OwnerStep ==
    ASSUME RowsOK, PassInv, Fed!Insert \/ Fed!Edit \/ Fed!Delete
    PROVE  PassInv'
<1> USE DEF PassInv
<1>1. /\ UNCHANGED <<numbering, pointers, minted, state, sweeps>>
      /\ texts' \in Nat /\ source' \in [Rows -> Nat]
  <2>1. source \in [Rows -> Nat] /\ texts \in Nat
    BY DEF TableOK
  <2>2. ASSUME NEW r \in Rows, Fed!Write(r)
        PROVE  /\ UNCHANGED <<numbering, pointers, minted, state, sweeps>>
               /\ texts' \in Nat /\ source' \in [Rows -> Nat]
    BY <2>1, <2>2 DEF Fed!Write, Fed!sweepVars
  <2>3. CASE Fed!Insert \/ Fed!Edit
    BY <2>2, <2>3 DEF Fed!Insert, Fed!Edit, Fed!Present
  <2>4. CASE Fed!Delete
    <3>1. PICK r \in Fed!Present : source' = [source EXCEPT ![r] = 0]
      BY <2>4 DEF Fed!Delete, Fed!None
    <3>2. source' \in [Rows -> Nat]
      BY <2>1, <3>1
    <3> QED
      BY <2>1, <2>4, <3>2 DEF Fed!Delete, Fed!sweepVars
  <2> QED
    BY <2>3, <2>4
<1>2. /\ highest' \in Nat /\ highest <= highest'
      /\ numbering = "serial" =>
             \A r \in Fed!Present' : r \in Fed!Present \/ (r > highest /\ r <= highest')
  <2>1. CASE Fed!Insert
    <3>1. PICK r \in Rows \ Fed!Present :
             Fed!NextId(r) /\ highest' = Fed!TopOf({r}, highest) /\ Fed!Write(r)
      BY <2>1 DEF Fed!Insert
    <3>2. r \in Nat /\ {r} \in SUBSET Nat /\ IsFiniteSet({r}) /\ highest \in Nat
      BY FS_Singleton DEF RowsOK, TableOK
    <3>3. highest' \in {r, highest} /\ r <= highest' /\ highest <= highest'
      BY <3>1, <3>2, Topmost
    <3>4. Fed!Present' \subseteq Fed!Present \cup {r}
      BY <3>1 DEF Fed!Present, Fed!Write, TableOK
    <3>5. numbering = "serial" => r = highest + 1
      BY <3>1 DEF Fed!NextId
    <3> QED
      BY <3>2, <3>3, <3>4, <3>5
  <2>2. CASE Fed!Edit \/ Fed!Delete
    <3>1. source \in [Rows -> Nat] /\ highest \in Nat
      BY DEF TableOK
    <3>2. PICK r \in Fed!Present : \E v : source' = [source EXCEPT ![r] = v]
      BY <2>2 DEF Fed!Edit, Fed!Delete, Fed!Write
    <3>3. UNCHANGED highest
      BY <2>2 DEF Fed!Edit, Fed!Delete
    <3>4. Fed!Present' \subseteq Fed!Present
      BY <3>1, <3>2 DEF Fed!Present
    <3> QED
      BY <3>1, <3>3, <3>4
  <2> QED
    BY <2>1, <2>2
<1>3. TableOK'
  BY <1>1, <1>2 DEF TableOK, SweepOK, RunOK
<1>4. PassOK'
  <2> SUFFICES ASSUME numbering = "serial" PROVE PassOK'
    BY <1>1 DEF PassOK
  <2>1. /\ \A r \in Fed!Present : r <= highest
        /\ state.watermark <= highest
        /\ \A r \in Fed!Present : r <= state.watermark => Held(r)
        /\ \A s \in Runners : sweeps[s].at # "rest" =>
              /\ Frame(s).watermark <= highest
              /\ \A r \in Fed!Present : r <= Frame(s).watermark => Held(r) \/ Waits(Frame(s), r)
    BY DEF PassOK
  <2>2. highest \in Nat /\ highest' \in Nat /\ state.watermark \in Nat
        /\ (\A r \in Rows : r \in Nat) /\ Fed!Present \subseteq Rows /\ Fed!Present' \subseteq Rows
    BY <1>2 DEF TableOK, RowsOK, Fed!Present
  <2>3. \A s \in Runners : sweeps[s].at # "rest" => Frame(s).watermark \in Nat
    BY DEF TableOK, SweepOK, RunOK, Frame, Run
  <2>4. \A s \in Runners : Frame(s)' = Frame(s)
    BY <1>1 DEF Frame
  <2>5. \A r : Held(r)' <=> Held(r)
    BY <1>1 DEF Held
  <2>6. \A w, r : Waits(w, r) <=> w.at = "ingest" /\ \E i \in DOMAIN w.left : w.left[i].row = r
    BY DEF Waits
  <2>7. /\ \A r \in Fed!Present' : r <= highest'
        /\ state.watermark <= highest'
        /\ \A r \in Fed!Present' : r <= state.watermark => Held(r)
        /\ \A s \in Runners : sweeps[s].at # "rest" =>
              /\ Frame(s).watermark <= highest'
              /\ \A r \in Fed!Present' : r <= Frame(s).watermark => Held(r) \/ Waits(Frame(s), r)
    BY <1>2, <2>1, <2>2, <2>3
  <2> QED
    BY <1>1, <2>4, <2>5, <2>7 DEF PassOK, Waits
<1> QED
  BY <1>3, <1>4

LEMMA SweepStartStep ==
    ASSUME RowsOK, PassInv, NEW s \in Runners, Fed!SweepStart(s)
    PROVE  PassInv'
<1> USE DEF PassInv
<1> DEFINE new == Fed!Least({r \in Fed!Present : r > state.watermark}, RowBudget)
           w == [at |-> "ingest", left |-> Fed!Page(new), used |-> Cardinality(new),
                 began |-> state, watermark |-> Fed!TopOf(new, state.watermark),
                 cursor |-> state.cursor]
<1>1. /\ UNCHANGED <<Fed!table, pointers, minted, state>>
      /\ sweeps' = [sweeps EXCEPT ![s] = w]
  BY SameCount DEF Fed!SweepStart
<1>2. /\ new \in SUBSET Fed!Present /\ new \in SUBSET Nat /\ IsFiniteSet(new)
      /\ state.watermark \in Nat /\ \A r \in new : r \in Rows
  <2>1. new \in SUBSET Fed!Present /\ Fed!Present \in SUBSET Rows
    BY LeastIn DEF Fed!Present
  <2> HIDE DEF new
  <2> QED
    BY <2>1, FS_Subset DEF RowsOK, TableOK
<1>3. /\ Fed!Page(new) \in Seq(Item)
      /\ \A r \in new : \E i \in DOMAIN Fed!Page(new) : Fed!Page(new)[i].row = r
  BY <1>2, PageHas DEF TableOK
<1>4. /\ Fed!TopOf(new, state.watermark) \in new \cup {state.watermark}
      /\ \A q \in new \cup {state.watermark} : q <= Fed!TopOf(new, state.watermark)
  BY <1>2, Topmost
<1>5. \A r \in Fed!Present :
         r > state.watermark /\ r <= Fed!TopOf(new, state.watermark) => r \in new
  BY <1>2, NewBelow DEF RowsOK
<1>6. w.at = "ingest" /\ w.left = Fed!Page(new) /\ w.watermark = Fed!TopOf(new, state.watermark)
  OBVIOUS
<1> HIDE DEF new, w
<1>7. sweeps'[s] = w /\ \A x \in Runners : x # s => sweeps'[x] = sweeps[x]
  BY <1>1 DEF TableOK
<1>8. TableOK'
  <2>1. RunOK(w)
    <3>1. DOMAIN w = Parts /\ w = [x \in Parts |-> w[x]]
      BY DEF w, Parts
    <3> QED
      BY <1>2, <1>3, <1>4, <1>6, <3>1 DEF RunOK, Run
  <2> QED
    BY <1>1, <1>6, <1>7, <2>1 DEF TableOK, SweepOK, Fed!table, Run
<1>9. PassOK'
  <2>1. \A x \in Runners : Frame(x)' = IF x = s THEN w ELSE Frame(x)
    BY <1>6, <1>7 DEF Frame, Run
  <2>2. ASSUME numbering = "serial"
        PROVE  /\ w.watermark <= highest
               /\ \A r \in Fed!Present : r <= w.watermark => Held(r) \/ Waits(w, r)
    <3>1. \A r \in Fed!Present : r \in Nat /\ (r <= state.watermark => Held(r)) /\ r <= highest
      BY <2>2 DEF PassOK, Fed!Present, RowsOK
    <3>2. state.watermark <= highest
      BY <2>2 DEF PassOK
    <3>3. \A r \in new : Waits(w, r)
      BY <1>3, <1>6 DEF Waits
    <3>4. w.watermark \in Nat /\ w.watermark <= highest
      BY <1>2, <1>4, <1>6, <3>1, <3>2
    <3>5. ASSUME NEW r \in Fed!Present, r <= w.watermark PROVE Held(r) \/ Waits(w, r)
      <4>1. r <= state.watermark \/ r > state.watermark
        BY <1>2, <3>1
      <4> QED
        BY <1>5, <1>6, <3>1, <3>3, <3>5, <4>1
    <3> QED
      BY <3>4, <3>5
  <2> QED
    BY <1>1, <1>7, <2>1, <2>2 DEF PassOK, Fed!table, Fed!Present, Held, Waits
<1> QED
  BY <1>8, <1>9

\* A step of one run that takes no pointer away.
LEMMA RunKeeps ==
    ASSUME RowsOK, PassInv, NEW s \in Runners, NEW w,
           UNCHANGED <<Fed!table, state>>, sweeps' = [sweeps EXCEPT ![s] = w],
           pointers' \in [Rows -> Pointer], minted' \in Nat,
           \A r \in Rows : Held(r) => Held(r)',
           SweepOK(s)',
           numbering = "serial" /\ w.at # "rest" =>
               /\ Frame(s)'.watermark <= highest
               /\ \A r \in Fed!Present : r <= Frame(s)'.watermark => Held(r)' \/ Waits(Frame(s), r)'
    PROVE  PassInv'
<1> USE DEF PassInv
<1>1. sweeps'[s] = w /\ \A x \in Runners : x # s => sweeps'[x] = sweeps[x]
  BY DEF TableOK
<1>2. Fed!Present' = Fed!Present /\ Fed!Present \subseteq Rows
  BY DEF Fed!Present, Fed!table
<1>3. ASSUME NEW x \in Runners, x # s PROVE SweepOK(x)'
  <2>1. SweepOK(x) /\ sweeps'[x] = sweeps[x]
    BY <1>1, <1>3 DEF TableOK
  <2>2. CASE sweeps[x].at \notin {"write", "drop", "event"}
    BY <2>1, <2>2 DEF SweepOK, RunOK, Run
  <2>3. CASE sweeps[x].at \in {"write", "drop", "event"}
    <3>1. RunOK(sweeps[x].saved) /\ sweeps[x].saved.left # <<>>
      BY <2>1, <2>3 DEF SweepOK, Run
    <3>2. Head(sweeps[x].saved.left).row \in Rows
      BY <3>1, TailHas DEF RunOK, Item
    <3> QED
      BY <2>1, <2>3, <3>1, <3>2 DEF SweepOK, RunOK, Held, Run
  <2> QED
    BY <2>2, <2>3
<1>4. TableOK'
  <2>1. sweeps' = [x \in Runners |-> sweeps'[x]]
    BY DEF TableOK
  <2>2. \A x \in Runners : SweepOK(x)'
    BY <1>3
  <2> QED
    BY <2>1, <2>2 DEF TableOK, Fed!table
<1>5. \A x \in Runners : x # s => Frame(x)' = Frame(x)
  BY <1>1 DEF Frame
<1>6. PassOK'
  BY <1>1, <1>2, <1>5 DEF PassOK, Fed!table, Waits
<1> QED
  BY <1>4, <1>6

LEMMA Shorten ==
    ASSUME NEW r, RunOK(r), r.left # <<>>
    PROVE  /\ RunOK(Fed!Onward(r))
           /\ Fed!Onward(r).at = r.at /\ Fed!Onward(r).watermark = r.watermark
           /\ \A row : Waits(r, row) => Waits(Fed!Onward(r), row) \/ row = Head(r.left).row
<1> DEFINE w == Fed!Onward(r)
<1>1. /\ r.left \in Seq(Item) /\ Tail(r.left) \in Seq(Item)
      /\ \A i \in DOMAIN r.left :
            \/ i = 1 /\ r.left[i] = Head(r.left)
            \/ i - 1 \in DOMAIN Tail(r.left) /\ Tail(r.left)[i - 1] = r.left[i]
  BY TailHas DEF RunOK
<1>2. DOMAIN w = Parts /\ w = [x \in Parts |-> w[x]] /\ w.at = r.at /\ w.left = Tail(r.left)
      /\ w.watermark = r.watermark
  BY DEF RunOK, Parts, Fed!Onward
<1> HIDE DEF w
<1>3. RunOK(w)
  BY <1>1, <1>2 DEF RunOK
<1>4. ASSUME NEW row, Waits(r, row), row # Head(r.left).row PROVE Waits(w, row)
  BY <1>1, <1>2, <1>4 DEF Waits
<1> USE DEF w
<1> QED
  BY <1>2, <1>3, <1>4

LEMMA RescanStep ==
    ASSUME RowsOK, PassInv, NEW s \in Runners, Fed!Rescan(s)
    PROVE  PassInv'
<1> USE DEF PassInv
<1> DEFINE room == RowBudget - sweeps[s].used
           rows == Fed!LapRows(sweeps[s], room)
           lapping == room > 0 /\ sweeps[s].began.watermark > 0
           page == IF lapping THEN Fed!Page(rows) ELSE <<>>
           onto == IF ~lapping THEN sweeps[s].cursor
                     ELSE IF Cardinality(rows) >= room THEN Fed!TopOf(rows, 0) ELSE 0
           w == [sweeps[s] EXCEPT !.at = "rescan", !.left = page, !.cursor = onto]
<1>1. /\ sweeps[s].at = "ingest" /\ sweeps[s].left = <<>>
      /\ sweeps' = [sweeps EXCEPT ![s] = w]
      /\ UNCHANGED <<Fed!table, pointers, minted, state>>
  BY SameCount DEF Fed!Rescan
<1>2. rows \in SUBSET Fed!Present
  BY LeastIn DEF Fed!LapRows, Fed!Present
<1> HIDE DEF rows
<1>3. page \in Seq(Item)
  BY <1>2, PageHas DEF TableOK
<1> HIDE DEF page, onto
<1>4. RunOK(sweeps[s]) /\ Frame(s) = sweeps[s]
  BY <1>1 DEF TableOK, SweepOK, Frame, Run
<1>5. RunOK(w) /\ w.at = "rescan" /\ w.watermark = sweeps[s].watermark
  BY <1>3, <1>4 DEF RunOK, Parts, Run
<1> HIDE DEF w
<1>6. sweeps'[s] = w /\ Frame(s)' = w /\ SweepOK(s)'
  BY <1>1, <1>5 DEF TableOK, Frame, SweepOK, RunOK, Run
<1>7. numbering = "serial" =>
               /\ w.watermark <= highest
               /\ \A r \in Fed!Present : r <= w.watermark => Held(r)
  BY <1>1, <1>4, <1>5 DEF PassOK, Waits
<1> QED
  BY <1>1, <1>6, <1>7, RunKeeps DEF TableOK, Held

LEMMA LookUpStep ==
    ASSUME RowsOK, PassInv, NEW s \in Runners, Fed!LookUp(s)
    PROVE  PassInv'
<1> USE DEF PassInv
<1> DEFINE r == sweeps[s]
           row == Head(r.left)
           short == Fed!Onward(r)
           look == [at |-> "write", found |-> pointers[row.row], saved |-> r]
<1>1. /\ r.at \in Run /\ r.left # <<>> /\ UNCHANGED <<Fed!table, pointers, minted, state>>
      /\ \/ pointers[row.row].text = row.text /\ sweeps' = [sweeps EXCEPT ![s] = short]
         \/ sweeps' = [sweeps EXCEPT ![s] = look]
  <2>1. UNCHANGED <<Fed!table, pointers, minted, state>>
    BY DEF Fed!LookUp
  <2>2. r.at \in Run /\ r.left # <<>>
    BY DEF Fed!LookUp, Fed!Working, Run
  <2>3. pointers[row.row].text = row.text => sweeps' = [sweeps EXCEPT ![s] = short]
    BY DEF Fed!LookUp
  <2>4. pointers[row.row].text # row.text => sweeps' = [sweeps EXCEPT ![s] = look]
    BY DEF Fed!LookUp
  <2> HIDE DEF r, row, short, look
  <2> QED
    BY <2>1, <2>2, <2>3, <2>4
<1>2. RunOK(r) /\ Frame(s) = r
  BY <1>1 DEF TableOK, SweepOK, Frame, Run
<1>3. row \in Item /\ row.row \in Rows /\ row.text # 0
  BY <1>1, <1>2, TailHas DEF RunOK, Item
<1> HIDE DEF r, row
<1>4. CASE pointers[row.row].text = row.text /\ sweeps' = [sweeps EXCEPT ![s] = short]
  <2>1. /\ RunOK(short) /\ short.at = r.at /\ short.watermark = r.watermark
        /\ \A x : Waits(r, x) => Waits(short, x) \/ x = row.row
    BY <1>1, <1>2, Shorten DEF row
  <2> HIDE DEF short
  <2>2. Held(row.row)
    BY <1>3, <1>4 DEF Held, Fed!NoPointer
  <2>3. sweeps'[s] = short /\ Frame(s)' = short /\ SweepOK(s)'
    BY <1>4, <2>1, <1>1 DEF TableOK, Frame, SweepOK, RunOK, Run
  <2>4. numbering = "serial" =>
               /\ short.watermark <= highest
               /\ \A x \in Fed!Present : x <= short.watermark => Held(x) \/ Waits(short, x)
    <3>1. sweeps[s].at # "rest"
      BY <1>1 DEF r, Run
    <3> QED
      BY <1>2, <2>1, <2>2, <3>1 DEF PassOK
  <2> QED
    BY <1>1, <1>4, <2>3, <2>4, RunKeeps DEF TableOK, Held, Waits
<1>5. CASE sweeps' = [sweeps EXCEPT ![s] = look]
  <2>1. look.at = "write" /\ look.saved = r /\ look.found = pointers[row.row]
    OBVIOUS
  <2> HIDE DEF look
  <2>2. sweeps'[s] = look /\ Frame(s)' = r
    BY <1>5, <2>1 DEF TableOK, Frame, Run
  <2>3. SweepOK(s)'
    BY <1>1, <1>2, <1>3, <2>1, <2>2 DEF SweepOK, RunOK, TableOK
  <2>4. numbering = "serial" =>
               /\ r.watermark <= highest
               /\ \A x \in Fed!Present : x <= r.watermark => Held(x) \/ Waits(r, x)
    <3>1. sweeps[s].at # "rest"
      BY <1>1 DEF r, Run
    <3> QED
      BY <1>2, <3>1 DEF PassOK
  <2> QED
    BY <1>1, <1>5, <2>2, <2>3, <2>4, RunKeeps DEF TableOK, Held, Waits
<1> QED
  BY <1>1, <1>4, <1>5

LEMMA WritePointerStep ==
    ASSUME RowsOK, PassInv, NEW s \in Runners, Fed!WritePointer(s)
    PROVE  PassInv'
<1> USE DEF PassInv
<1> DEFINE r == sweeps[s].saved
           row == Head(r.left)
           found == sweeps[s].found
           id == Fed!IdOf(found)
           w == [at |-> IF found.id = 0 THEN "event" ELSE "drop", id |-> id, saved |-> r]
<1>1. /\ sweeps[s].at = "write" /\ UNCHANGED <<Fed!table, state>>
      /\ pointers' = [pointers EXCEPT ![row.row] = [id |-> id, text |-> row.text]]
      /\ minted' = IF id > minted THEN id ELSE minted
      /\ sweeps' = [sweeps EXCEPT ![s] = w]
  BY DEF Fed!WritePointer, Fed!Row
<1>2. RunOK(r) /\ r.left # <<>> /\ found \in Pointer /\ Frame(s) = r
  BY <1>1 DEF TableOK, SweepOK, Frame, Run
<1>3. row \in Item /\ row.row \in Rows /\ row.text \in Nat /\ row.text # 0
  BY <1>1, <1>2, TailHas DEF RunOK, Item
<1>4. id \in Nat /\ minted' \in Nat
  BY <1>1, <1>2 DEF Fed!IdOf, TableOK, Pointer
<1>5. w.at \in {"event", "drop"} /\ w.saved = r /\ w = [at |-> w.at, id |-> w.id, saved |-> w.saved]
  OBVIOUS
<1> HIDE DEF r, row, found, id, w
<1>6. /\ pointers' \in [Rows -> Pointer]
      /\ \E x \in Rows : x = row.row /\ pointers'[x] # Fed!NoPointer
      /\ \A x \in Rows : x # row.row => pointers'[x] = pointers[x]
  <2>1. [id |-> id, text |-> row.text] \in Pointer /\ [id |-> id, text |-> row.text] # Fed!NoPointer
    BY <1>3, <1>4 DEF Pointer, Fed!NoPointer
  <2>2. pointers \in [Rows -> Pointer]
    BY DEF TableOK
  <2> DEFINE p == [id |-> id, text |-> row.text]
  <2> HIDE DEF p
  <2>3. PICK x \in Rows : x = row.row
    BY <1>3
  <2>4. pointers' = [pointers EXCEPT ![x] = p]
    BY <1>1, <2>3 DEF p
  <2>5. p \in Pointer /\ p # Fed!NoPointer
    BY <2>1 DEF p
  <2> QED
    BY <2>2, <2>3, <2>4, <2>5
<1>7. sweeps'[s] = w /\ Frame(s)' = r
  BY <1>1, <1>5 DEF TableOK, Frame, Run
<1>8. SweepOK(s)'
  <2>1. sweeps'[s].at \in {"drop", "event"} /\ sweeps'[s].saved = r
    BY <1>5, <1>7
  <2>2. \E x \in Rows : x = Head(r.left).row /\ pointers'[x] # Fed!NoPointer
    BY <1>6 DEF row
  <2>3. sweeps'[s] = [at |-> sweeps'[s].at, id |-> sweeps'[s].id, saved |-> sweeps'[s].saved]
    BY <1>5, <1>7
  <2> QED
    BY <1>2, <2>1, <2>2, <2>3 DEF SweepOK, RunOK
<1>9. \A x \in Rows : Held(x) => Held(x)'
  <2> SUFFICES ASSUME NEW x \in Rows, Held(x) PROVE Held(x)'
    OBVIOUS
  <2>1. CASE x = row.row
    BY <1>6, <2>1 DEF Held
  <2>2. CASE x # row.row
    BY <1>6, <2>2 DEF Held
  <2> QED
    BY <2>1, <2>2
<1>10. numbering = "serial" =>
               /\ r.watermark <= highest
               /\ \A x \in Fed!Present : x <= r.watermark => Held(x) \/ Waits(r, x)
  BY <1>1, <1>2 DEF PassOK
<1>11. Fed!Present \subseteq Rows
  BY DEF Fed!Present
<1>12. \A x \in Fed!Present : Waits(r, x) => Waits(Frame(s), x)'
  BY <1>7 DEF Waits
<1>13. numbering = "serial" =>
               /\ Frame(s)'.watermark <= highest
               /\ \A x \in Fed!Present : x <= Frame(s)'.watermark => Held(x)' \/ Waits(Frame(s), x)'
  BY <1>7, <1>9, <1>10, <1>11, <1>12
<1> HIDE DEF PassInv
<1> QED
  BY <1>1, <1>4, <1>6, <1>8, <1>9, <1>13, RunKeeps

LEMMA DropVectorStep ==
    ASSUME RowsOK, PassInv, NEW s \in Runners, Fed!DropVector(s)
    PROVE  PassInv'
<1> USE DEF PassInv
<1>1. /\ sweeps[s].at = "drop" /\ UNCHANGED <<Fed!table, pointers, minted, state>>
      /\ sweeps' = [sweeps EXCEPT ![s] = [sweeps[s] EXCEPT !.at = "event"]]
  BY DEF Fed!DropVector
<1> DEFINE w == [sweeps[s] EXCEPT !.at = "event"]
<1>2. sweeps[s] = [at |-> "drop", id |-> sweeps[s].id, saved |-> sweeps[s].saved]
      /\ Frame(s) = sweeps[s].saved
  BY <1>1 DEF TableOK, SweepOK, Frame, Run
<1>3. w.at = "event" /\ w.saved = sweeps[s].saved
  BY <1>2
<1> HIDE DEF w
<1>4. sweeps'[s] = w /\ Frame(s)' = sweeps[s].saved
  BY <1>1, <1>3 DEF TableOK, Frame, Run, w
<1>5. SweepOK(s)'
  BY <1>1, <1>3, <1>4 DEF SweepOK, RunOK, TableOK, Run
<1>6. numbering = "serial" =>
               /\ Frame(s).watermark <= highest
               /\ \A x \in Fed!Present : x <= Frame(s).watermark => Held(x) \/ Waits(Frame(s), x)
  BY <1>1 DEF PassOK
<1> QED
  BY <1>1, <1>2, <1>4, <1>5, <1>6, RunKeeps DEF TableOK, Held, Waits

LEMMA AppendStep ==
    ASSUME RowsOK, PassInv, NEW s \in Runners, Fed!AppendFederated(s)
    PROVE  PassInv'
<1> USE DEF PassInv
<1> DEFINE r == sweeps[s].saved
           w == Fed!Onward(r)
<1>1. /\ sweeps[s].at = "event" /\ UNCHANGED <<Fed!table, pointers, minted, state>>
      /\ sweeps' = [sweeps EXCEPT ![s] = w]
  <2>1. sweeps' = [sweeps EXCEPT ![s] = w]
    BY DEF Fed!AppendFederated
  <2>2. sweeps[s].at = "event" /\ UNCHANGED <<Fed!table, pointers, minted, state>>
    BY DEF Fed!AppendFederated
  <2> QED
    BY <2>1, <2>2
<1>2. RunOK(r) /\ r.left # <<>> /\ Held(Head(r.left).row) /\ Frame(s) = r
  BY <1>1 DEF TableOK, SweepOK, Frame, Run, Held
<1>3. /\ RunOK(w) /\ w.at = r.at /\ w.watermark = r.watermark
      /\ \A x : Waits(r, x) => Waits(w, x) \/ x = Head(r.left).row
  BY <1>2, Shorten
<1> HIDE DEF w, r
<1>4. sweeps'[s] = w /\ Frame(s)' = w /\ SweepOK(s)'
  BY <1>1, <1>2, <1>3 DEF TableOK, Frame, SweepOK, RunOK, Run
<1>5. numbering = "serial" =>
               /\ w.watermark <= highest
               /\ \A x \in Fed!Present : x <= w.watermark => Held(x) \/ Waits(w, x)
  BY <1>1, <1>2, <1>3 DEF PassOK
<1> QED
  BY <1>1, <1>4, <1>5, RunKeeps DEF TableOK, Held, Waits

LEMMA SweepEndStep ==
    ASSUME RowsOK, PassInv, NEW s \in Runners, Fed!SweepEnd(s)
    PROVE  PassInv'
<1> USE DEF PassInv
<1>1. /\ sweeps[s].at = "rescan" /\ UNCHANGED <<Fed!table, pointers, minted>>
      /\ state' = [watermark |-> sweeps[s].watermark, cursor |-> sweeps[s].cursor]
      /\ sweeps' = [sweeps EXCEPT ![s] = Fed!Resting]
  BY DEF Fed!SweepEnd
<1>2. RunOK(sweeps[s]) /\ Frame(s) = sweeps[s]
  BY <1>1 DEF TableOK, SweepOK, Frame, Run
<1>3. sweeps'[s].at = "rest" /\ \A x \in Runners : x # s => sweeps'[x] = sweeps[x]
  BY <1>1 DEF TableOK, Fed!Resting
<1>4. state'.watermark = sweeps[s].watermark /\ sweeps[s].watermark \in Nat
  BY <1>1, <1>2 DEF RunOK
<1>5. TableOK'
  BY <1>1, <1>3, <1>4 DEF TableOK, SweepOK, RunOK, Fed!table
<1>6. PassOK'
  BY <1>1, <1>2, <1>3, <1>4 DEF PassOK, Fed!table, Fed!Present, Held, Waits, Frame
<1> QED
  BY <1>5, <1>6

LEMMA CrashStep ==
    ASSUME RowsOK, PassInv, NEW s \in Runners, Fed!Crash(s)
    PROVE  PassInv'
<1> USE DEF PassInv
<1>1. /\ UNCHANGED <<Fed!table, pointers, minted, state>>
      /\ sweeps' = [sweeps EXCEPT ![s] = Fed!Resting]
  BY DEF Fed!Crash
<1>2. sweeps'[s] = Fed!Resting /\ Fed!Resting.at = "rest" /\ SweepOK(s)'
  BY <1>1 DEF TableOK, SweepOK, Fed!Resting
<1> QED
  BY <1>1, <1>2, RunKeeps DEF TableOK, Held

LEMMA OtherStep ==
    ASSUME PassInv, Fed!Backlog \/ Fed!Embed \/ UNCHANGED Fed!vars
    PROVE  PassInv'
<1> USE DEF PassInv
<1>1. UNCHANGED <<Fed!table, pointers, minted, state, sweeps>>
  BY DEF Fed!Backlog, Fed!Embed, Fed!EmbedStart, Fed!EmbedEnd, Fed!vars, Fed!sweepVars
<1> QED
  BY <1>1 DEF TableOK, PassOK, SweepOK, RunOK, Fed!table, Fed!Present, Held, Waits, Frame

LEMMA PassStep ==
    ASSUME RowsOK, PassInv, [Fed!Next]_(Fed!vars)
    PROVE  PassInv'
BY OwnerStep, SweepStartStep, RescanStep, LookUpStep, WritePointerStep, DropVectorStep, AppendStep,
   SweepEndStep, CrashStep, OtherStep DEF Fed!Next, Fed!Sweep

\* Where an id is handed out once, no row at or below the watermark is without
\* a pointer, for any number of rows, texts and sweeps that run at once or die:
\* what lies below it is never read as a new row again (curation.py
\* _sweep_local_db).
THEOREM RowsPassedAreHeld ==
    ASSUME RowsOK
    PROVE  Fed!Spec => []Fed!PassedRowsHeld
<1>1. Fed!Init => PassInv
  BY PassStart
<1>2. PassInv /\ [Fed!Next]_(Fed!vars) => PassInv'
  BY PassStep
<1>3. PassInv => Fed!PassedRowsHeld
  BY DEF PassInv, PassOK, Fed!PassedRowsHeld, Held
<1> QED
  BY <1>1, <1>2, <1>3, PTL DEF Fed!Spec

OneSweep == \A s, t \in Runners : s = t

\* A run that has looked a pointer up still has it as it is.
FoundOK ==
    \A s \in Runners : sweeps[s].at = "write" =>
        /\ \E r \in Rows : r = Fed!Row(s).row /\ sweeps[s].found = pointers[r]

LEMMA FoundStep ==
    ASSUME OneSweep, PassInv, FoundOK, [Fed!Next]_(Fed!vars)
    PROVE  FoundOK' /\ \A r \in Rows : pointers[r].id # 0 => pointers'[r].id = pointers[r].id
<1> DEFINE Kept == \A r \in Rows : pointers[r].id # 0 => pointers'[r].id = pointers[r].id
<1>1. sweeps = [s \in Runners |-> sweeps[s]] /\ pointers \in [Rows -> Pointer]
  BY DEF PassInv, TableOK
<1>2. ASSUME NEW s \in Runners, Fed!LookUp(s) PROVE FoundOK' /\ Kept
  <2> DEFINE row == Head(sweeps[s].left)
             look == [at |-> "write", found |-> pointers[row.row], saved |-> sweeps[s]]
             short == Fed!Onward(sweeps[s])
  <2>1. /\ pointers' = pointers
        /\ sweeps' = [sweeps EXCEPT ![s] = short] \/ sweeps' = [sweeps EXCEPT ![s] = look]
        /\ sweeps[s].at \in Run /\ sweeps[s].left # <<>>
    <3>1. pointers' = pointers
      BY <1>2 DEF Fed!LookUp
    <3>2. sweeps[s].at \in Run /\ sweeps[s].left # <<>>
      BY <1>2 DEF Fed!LookUp, Fed!Working, Run
    <3>3. pointers[row.row].text = row.text => sweeps' = [sweeps EXCEPT ![s] = short]
      BY <1>2 DEF Fed!LookUp
    <3>4. pointers[row.row].text # row.text => sweeps' = [sweeps EXCEPT ![s] = look]
      BY <1>2 DEF Fed!LookUp
    <3> HIDE DEF row, short, look
    <3> QED
      BY <3>1, <3>2, <3>3, <3>4
  <2>2. RunOK(sweeps[s])
    BY <2>1 DEF PassInv, TableOK, SweepOK, Run
  <2>3. row.row \in Rows
    BY <2>1, <2>2, TailHas DEF RunOK, Item
  <2>4. RunOK(short)
    BY <2>1, <2>2, Shorten
  <2>5. short.at # "write"
    BY <2>4 DEF RunOK, Run
  <2>6. look.at = "write" /\ look.found = pointers[row.row] /\ Head(look.saved.left).row = row.row
    OBVIOUS
  <2> HIDE DEF row, look, short
  <2> QED
    BY <1>1, <2>1, <2>3, <2>5, <2>6 DEF OneSweep, FoundOK, Fed!Row
<1>3. ASSUME NEW s \in Runners, Fed!WritePointer(s) PROVE FoundOK' /\ Kept
  <2>1. sweeps'[s].at # "write"
    BY <1>1, <1>3 DEF Fed!WritePointer
  <2>2. PICK r \in Rows : r = Fed!Row(s).row /\ sweeps[s].found = pointers[r]
    BY <1>3 DEF FoundOK, Fed!WritePointer
  <2>3. pointers' = [pointers EXCEPT ![r] =
                       [id |-> Fed!IdOf(pointers[r]), text |-> Fed!Row(s).text]]
    BY <1>3, <2>2 DEF Fed!WritePointer
  <2>4. pointers[r].id # 0 => Fed!IdOf(pointers[r]) = pointers[r].id
    BY DEF Fed!IdOf
  <2> QED
    BY <1>1, <2>1, <2>3, <2>4 DEF FoundOK, OneSweep
<1>4. ASSUME pointers' = pointers,
             \A s \in Runners : sweeps'[s] = sweeps[s] \/ sweeps'[s].at # "write"
      PROVE  FoundOK' /\ Kept
  BY <1>4 DEF FoundOK, Fed!Row
<1>5. ASSUME NEW s \in Runners,
             \/ Fed!SweepStart(s) \/ Fed!Rescan(s) \/ Fed!DropVector(s) \/ Fed!AppendFederated(s)
             \/ Fed!SweepEnd(s) \/ Fed!Crash(s)
      PROVE  FoundOK' /\ Kept
  <2>1. pointers' = pointers
    BY <1>5 DEF Fed!SweepStart, Fed!Rescan, Fed!DropVector, Fed!AppendFederated, Fed!SweepEnd,
       Fed!Crash
  <2>2. \E w : sweeps' = [sweeps EXCEPT ![s] = w] /\ w.at # "write"
    <3>1. CASE Fed!SweepStart(s)
      <4> DEFINE new == Fed!Least({r \in Fed!Present : r > state.watermark}, RowBudget)
                 w == [at |-> "ingest", left |-> Fed!Page(new), used |-> Cardinality(new),
                       began |-> state, watermark |-> Fed!TopOf(new, state.watermark),
                       cursor |-> state.cursor]
      <4>1. sweeps' = [sweeps EXCEPT ![s] = w]
        BY SameCount, <3>1 DEF Fed!SweepStart
      <4>2. w.at # "write"
        OBVIOUS
      <4> HIDE DEF w
      <4> QED
        BY <4>1, <4>2
    <3>2. CASE Fed!Rescan(s)
      <4> DEFINE room == RowBudget - sweeps[s].used
                 rows == Fed!LapRows(sweeps[s], room)
                 lapping == room > 0 /\ sweeps[s].began.watermark > 0
                 page == IF lapping THEN Fed!Page(rows) ELSE <<>>
                 onto == IF ~lapping THEN sweeps[s].cursor
                           ELSE IF Cardinality(rows) >= room THEN Fed!TopOf(rows, 0) ELSE 0
                 w == [sweeps[s] EXCEPT !.at = "rescan", !.left = page, !.cursor = onto]
      <4>1. sweeps' = [sweeps EXCEPT ![s] = w] /\ sweeps[s].at = "ingest"
        BY SameCount, <3>2 DEF Fed!Rescan
      <4> HIDE DEF page, onto
      <4>2. RunOK(sweeps[s])
        BY <4>1 DEF PassInv, TableOK, SweepOK, Run
      <4>3. w.at = "rescan"
        BY <4>2 DEF RunOK, Parts
      <4> HIDE DEF w
      <4> QED
        BY <4>1, <4>3
    <3>3. CASE Fed!DropVector(s)
      <4>1. sweeps[s] = [at |-> "drop", id |-> sweeps[s].id, saved |-> sweeps[s].saved]
        BY <3>3 DEF Fed!DropVector, PassInv, TableOK, SweepOK, Run
      <4> DEFINE w == [sweeps[s] EXCEPT !.at = "event"]
      <4>2. sweeps' = [sweeps EXCEPT ![s] = w]
        BY <3>3 DEF Fed!DropVector
      <4>3. w.at # "write"
        BY <4>1
      <4> HIDE DEF w
      <4> QED
        BY <4>2, <4>3
    <3>4. CASE Fed!AppendFederated(s)
      <4> DEFINE r == sweeps[s].saved
                 w == Fed!Onward(r)
      <4>1. sweeps' = [sweeps EXCEPT ![s] = w] /\ sweeps[s].at = "event"
        BY <3>4 DEF Fed!AppendFederated
      <4>2. RunOK(r) /\ r.left # <<>>
        BY <4>1 DEF PassInv, TableOK, SweepOK, Run
      <4>3. w.at \in Run
        BY <4>2, Shorten DEF RunOK
      <4> HIDE DEF w
      <4> QED
        BY <4>1, <4>3 DEF Run
    <3>5. CASE Fed!SweepEnd(s) \/ Fed!Crash(s)
      BY <3>5 DEF Fed!SweepEnd, Fed!Crash, Fed!Resting
    <3> QED
      BY <1>5, <3>1, <3>2, <3>3, <3>4, <3>5
  <2> QED
    BY <1>1, <1>4, <2>1, <2>2
<1>6. ASSUME Fed!Insert \/ Fed!Edit \/ Fed!Delete \/ Fed!Backlog \/ Fed!Embed \/ UNCHANGED Fed!vars
      PROVE  FoundOK' /\ Kept
  <2>1. UNCHANGED <<pointers, sweeps>>
    BY <1>6 DEF Fed!Insert, Fed!Edit, Fed!Delete, Fed!Write, Fed!Backlog, Fed!Embed,
       Fed!EmbedStart, Fed!EmbedEnd, Fed!vars, Fed!sweepVars
  <2> QED
    BY <1>4, <2>1
<1> QED
  BY <1>2, <1>3, <1>5, <1>6 DEF Fed!Next, Fed!Sweep

\* And with one sweep at a time a pointer keeps its id for good, through every
\* edit of its row and every sweep that died (curation.py _federate_row).
THEOREM PointersKeepIds ==
    ASSUME RowsOK, OneSweep
    PROVE  Fed!Spec => Fed!PointerKept
<1>1. Fed!Init => PassInv /\ FoundOK
  BY PassStart DEF Fed!Init, FoundOK, Fed!Resting
<1>2. PassInv /\ FoundOK /\ [Fed!Next]_(Fed!vars) => (PassInv /\ FoundOK)'
  BY PassStep, FoundStep
<1>3. PassInv /\ FoundOK /\ [Fed!Next]_(Fed!vars) =>
        [\A r \in Rows : pointers[r].id # 0 => pointers'[r].id = pointers[r].id]_(Fed!vars)
  BY FoundStep
<1> QED
  BY <1>1, <1>2, <1>3, PTL DEF Fed!Spec, Fed!PointerKept

-----------------------------------------------------------------------------

\* Rows are numbered from one, so that a row is its own rank at most.
Numbered == Rows = 1 .. Cardinality(Rows) /\ MaxVersion \in Nat

Place == 0 .. Cardinality(Rows)
Text == 0 .. MaxVersion

\* What a run was told of the table when it started, it still holds.
FrameOK(w) ==
    /\ \A i \in DOMAIN w.left : w.left[i].text \in Text
    /\ w.watermark \in Place /\ w.cursor \in Place

TextsOK ==
    /\ texts \in Text
    /\ \A r \in Rows : source[r] \in Text
    /\ \A r \in Rows : pointers[r].text \in Text /\ pointers[r].id \in 0 .. minted
FramesOK ==
    /\ state.watermark \in Place /\ state.cursor \in Place
    /\ \A s \in Runners : sweeps[s].at # "rest" => FrameOK(Frame(s))
VectorsOK ==
    /\ vectors \in [Rows -> Text]
    /\ jobs \in [Rows -> Seq(Text)]
    /\ embedding # <<>> => \E r \in Rows, v \in Text : embedding = <<r, v>>
FedInv == PassInv /\ FoundOK /\ TextsOK /\ FramesOK /\ VectorsOK

LEMMA RowsArePlaces ==
    ASSUME RowsOK, Numbered
    PROVE  (\A r \in Rows : r \in Place) /\ 0 \in Place
<1> DEFINE n == Cardinality(Rows)
<1>1. n \in Nat
  BY FS_CardinalityType DEF RowsOK
<1>2. Rows = 1 .. n /\ Place = 0 .. n
  BY DEF Numbered, Place
<1> HIDE DEF n
<1> QED
  BY <1>1, <1>2

LEMMA FedStart ==
    ASSUME RowsOK, Numbered, Fed!Init
    PROVE  FedInv
<1>1. PassInv /\ FoundOK
  BY PassStart DEF Fed!Init, FoundOK, Fed!Resting
<1>2. 0 \in Text /\ 0 \in Place
  BY RowsArePlaces DEF Numbered, Text
<1>3. TextsOK /\ FramesOK
  BY <1>2 DEF Fed!Init, TextsOK, FramesOK, Fed!None, Fed!NoPointer, Fed!Resting
<1>4. VectorsOK
  BY <1>2 DEF Fed!Init, VectorsOK, Fed!None
<1> QED
  BY <1>1, <1>3, <1>4 DEF FedInv

\* A text that is written is the next one, of those there may be.
LEMMA OwnerBounds ==
    ASSUME Numbered, FedInv, Fed!Insert \/ Fed!Edit \/ Fed!Delete
    PROVE  TextsOK' /\ FramesOK' /\ VectorsOK'
<1>1. /\ UNCHANGED <<pointers, minted, state, sweeps, vectors, jobs, embedding>>
      /\ texts < MaxVersion /\ texts' = texts + 1
      /\ \E r \in Rows : \E v \in {0, texts + 1} : source' = [source EXCEPT ![r] = v]
  BY DEF Fed!Insert, Fed!Edit, Fed!Delete, Fed!Write, Fed!sweepVars, Fed!vectorVars, Fed!Present,
     Fed!None
<1>2. source \in [Rows -> Nat] /\ texts \in Text /\ \A r \in Rows : source[r] \in Text
  BY DEF FedInv, PassInv, TableOK, TextsOK
<1>3. texts' \in Text /\ 0 \in Text
  BY <1>1, <1>2 DEF Numbered, Text
<1>4. \A r \in Rows : source'[r] \in Text
  BY <1>1, <1>2, <1>3
<1>5. TextsOK'
  BY <1>1, <1>3, <1>4 DEF FedInv, TextsOK
<1> QED
  BY <1>1, <1>5 DEF FedInv, FramesOK, VectorsOK, FrameOK, Frame

\* A page that is read holds texts of the table.
LEMMA PageTexts ==
    ASSUME RowsOK, source \in [Rows -> Nat], \A r \in Rows : source[r] \in Text,
           NEW S \in SUBSET Fed!Present
    PROVE  \A i \in DOMAIN Fed!Page(S) : Fed!Page(S)[i].text \in Text
<1> DEFINE row(i) == CHOOSE q \in S : Cardinality({p \in S : p <= q}) = i
           n == Cardinality(S)
<1>1. S \in SUBSET Nat /\ IsFiniteSet(S) /\ S \subseteq Rows
  BY FS_Subset DEF RowsOK, Fed!Present
<1>2. Fed!Page(S) = [i \in 1 .. n |-> [row |-> row(i), text |-> source[row(i)]]]
  BY SameCount DEF Fed!Page
<1>3. \A i \in 1 .. n : row(i) \in S
  BY <1>1, RankOfOne
<1> HIDE DEF row, n
<1>4. \A i \in 1 .. n : source[row(i)] \in Text
  BY <1>1, <1>3
<1> QED
  BY <1>2, <1>4

\* A step of one run that leaves table and state alone.
LEMMA FrameKeeps ==
    ASSUME FedInv, NEW s \in Runners, UNCHANGED <<state>>,
           sweeps' = [sweeps EXCEPT ![s] = sweeps'[s]],
           sweeps'[s].at # "rest" => FrameOK(Frame(s)')
    PROVE  FramesOK'
<1>1. \A x \in Runners : x # s => sweeps'[x] = sweeps[x]
  BY DEF FedInv, PassInv, TableOK
<1>2. \A x \in Runners : x # s => Frame(x)' = Frame(x)
  BY <1>1 DEF Frame
<1>3. \A x \in Runners : sweeps'[x].at # "rest" => FrameOK(Frame(x)')
  BY <1>1, <1>2 DEF FedInv, FramesOK
<1>4. \A x \in Runners : FrameOK(Frame(x)') <=> FrameOK(Frame(x))'
  BY DEF FrameOK
<1> QED
  BY <1>3, <1>4 DEF FedInv, FramesOK

LEMMA SweepStartBounds ==
    ASSUME RowsOK, Numbered, FedInv, NEW s \in Runners, Fed!SweepStart(s)
    PROVE  TextsOK' /\ FramesOK' /\ VectorsOK'
<1> DEFINE new == Fed!Least({r \in Fed!Present : r > state.watermark}, RowBudget)
           w == [at |-> "ingest", left |-> Fed!Page(new), used |-> Cardinality(new),
                 began |-> state, watermark |-> Fed!TopOf(new, state.watermark),
                 cursor |-> state.cursor]
<1>1. /\ UNCHANGED <<Fed!table, pointers, minted, vectors, state, Fed!vectorVars>>
      /\ sweeps' = [sweeps EXCEPT ![s] = w]
  BY SameCount DEF Fed!SweepStart
<1>2. TextsOK' /\ VectorsOK'
  BY <1>1 DEF FedInv, TextsOK, VectorsOK, Fed!table, Fed!vectorVars
<1>3. new \in SUBSET Fed!Present /\ new \in SUBSET Rows /\ state.watermark \in Nat
      /\ state.watermark \in Place /\ state.cursor \in Place
  <2>1. new \in SUBSET Fed!Present /\ Fed!Present \in SUBSET Rows
    BY LeastIn DEF Fed!Present
  <2> HIDE DEF new
  <2> QED
    BY <2>1 DEF FedInv, PassInv, TableOK, FramesOK
<1>4. w.at = "ingest" /\ w.left = Fed!Page(new) /\ w.cursor = state.cursor
      /\ w.watermark = Fed!TopOf(new, state.watermark)
  OBVIOUS
<1> HIDE DEF new, w
<1>5. \A i \in DOMAIN w.left : w.left[i].text \in Text
  BY <1>3, <1>4, PageTexts DEF FedInv, PassInv, TableOK, TextsOK
<1>6. w.watermark \in Place
  <2>1. new \in SUBSET Nat /\ IsFiniteSet(new)
    BY <1>3, FS_Subset DEF RowsOK
  <2>2. w.watermark \in new \cup {state.watermark}
    BY <1>3, <1>4, <2>1, Topmost
  <2>3. \A r \in Rows : r \in Place
    BY RowsArePlaces
  <2> QED
    BY <1>3, <2>2, <2>3
<1>7. sweeps'[s] = w
  BY <1>1 DEF FedInv, PassInv, TableOK
<1>8. Frame(s)' = w /\ FrameOK(w)
  BY <1>3, <1>4, <1>5, <1>6, <1>7 DEF Frame, Run, FrameOK
<1>9. FramesOK'
  BY <1>1, <1>7, <1>8, FrameKeeps
<1> QED
  BY <1>2, <1>9

LEMMA RescanBounds ==
    ASSUME RowsOK, Numbered, FedInv, NEW s \in Runners, Fed!Rescan(s)
    PROVE  TextsOK' /\ FramesOK' /\ VectorsOK'
<1> DEFINE room == RowBudget - sweeps[s].used
           rows == Fed!LapRows(sweeps[s], room)
           lapping == room > 0 /\ sweeps[s].began.watermark > 0
           page == IF lapping THEN Fed!Page(rows) ELSE <<>>
           onto == IF ~lapping THEN sweeps[s].cursor
                     ELSE IF Cardinality(rows) >= room THEN Fed!TopOf(rows, 0) ELSE 0
           w == [sweeps[s] EXCEPT !.at = "rescan", !.left = page, !.cursor = onto]
<1>1. /\ sweeps[s].at = "ingest"
      /\ sweeps' = [sweeps EXCEPT ![s] = w]
      /\ UNCHANGED <<Fed!table, pointers, minted, vectors, state, Fed!vectorVars>>
  BY SameCount DEF Fed!Rescan
<1>2. TextsOK' /\ VectorsOK'
  BY <1>1 DEF FedInv, TextsOK, VectorsOK, Fed!table, Fed!vectorVars
<1>3. rows \in SUBSET Fed!Present /\ rows \in SUBSET Rows
  BY LeastIn DEF Fed!LapRows, Fed!Present
<1> HIDE DEF rows
<1>4. \A i \in DOMAIN page : page[i].text \in Text
  BY <1>3, PageTexts DEF FedInv, PassInv, TableOK, TextsOK
<1>5. RunOK(sweeps[s]) /\ Frame(s) = sweeps[s] /\ FrameOK(sweeps[s])
  BY <1>1 DEF FedInv, PassInv, TableOK, SweepOK, Frame, Run, FramesOK
<1>6. onto \in Place
  <2>1. rows \in SUBSET Nat /\ IsFiniteSet(rows)
    BY <1>3, FS_Subset DEF RowsOK
  <2>2. Fed!TopOf(rows, 0) \in rows \cup {0}
    BY <2>1, Topmost
  <2>3. \A r \in Rows : r \in Place
    BY RowsArePlaces
  <2>4. 0 \in Place
    BY RowsArePlaces
  <2> QED
    BY <1>3, <1>5, <2>2, <2>3, <2>4 DEF FrameOK
<1> HIDE DEF page, onto
<1>7. w.at = "rescan" /\ w.left = page /\ w.cursor = onto /\ w.watermark = sweeps[s].watermark
  BY <1>5 DEF RunOK, Parts
<1> HIDE DEF w
<1>8. sweeps'[s] = w
  BY <1>1 DEF FedInv, PassInv, TableOK
<1>9. Frame(s)' = w /\ FrameOK(w)
  BY <1>4, <1>5, <1>6, <1>7, <1>8 DEF Frame, Run, FrameOK
<1>10. FramesOK'
  BY <1>1, <1>8, <1>9, FrameKeeps
<1> QED
  BY <1>2, <1>10

\* What is left of a page after its first row.
LEMMA OnwardFrame ==
    ASSUME NEW r, RunOK(r), r.left # <<>>, FrameOK(r)
    PROVE  FrameOK(Fed!Onward(r)) /\ Head(r.left).text \in Text
<1> DEFINE w == Fed!Onward(r)
<1>1. w.left = Tail(r.left) /\ w.watermark = r.watermark /\ w.cursor = r.cursor
  BY DEF RunOK, Parts, Fed!Onward
<1>2. r.left \in Seq(Item)
  BY DEF RunOK
<1>3. \A i \in DOMAIN Tail(r.left) : i + 1 \in DOMAIN r.left /\ Tail(r.left)[i] = r.left[i + 1]
  BY <1>2
<1>4. 1 \in DOMAIN r.left /\ Head(r.left) = r.left[1]
  BY <1>2
<1> HIDE DEF w
<1>5. FrameOK(w)
  BY <1>1, <1>3 DEF FrameOK
<1> USE DEF w
<1> QED
  BY <1>4, <1>5 DEF FrameOK

LEMMA LookUpBounds ==
    ASSUME FedInv, NEW s \in Runners, Fed!LookUp(s)
    PROVE  TextsOK' /\ FramesOK' /\ VectorsOK'
<1> DEFINE r == sweeps[s]
           row == Head(r.left)
           short == Fed!Onward(r)
           look == [at |-> "write", found |-> pointers[row.row], saved |-> r]
<1>1. UNCHANGED <<Fed!table, pointers, minted, vectors, state, Fed!vectorVars>>
      /\ r.at \in Run /\ r.left # <<>>
  BY DEF Fed!LookUp, Fed!Working, Run
<1>2. sweeps' = [sweeps EXCEPT ![s] = short] \/ sweeps' = [sweeps EXCEPT ![s] = look]
  <2>1. pointers[row.row].text = row.text => sweeps' = [sweeps EXCEPT ![s] = short]
    BY DEF Fed!LookUp
  <2>2. pointers[row.row].text # row.text => sweeps' = [sweeps EXCEPT ![s] = look]
    BY DEF Fed!LookUp
  <2> HIDE DEF r, row, short, look
  <2> QED
    BY <2>1, <2>2
<1>3. TextsOK' /\ VectorsOK'
  BY <1>1 DEF FedInv, TextsOK, VectorsOK, Fed!table, Fed!vectorVars
<1>4. RunOK(r) /\ Frame(s) = r /\ FrameOK(r)
  BY <1>1 DEF FedInv, PassInv, TableOK, SweepOK, Frame, Run, FramesOK
<1>5. RunOK(short) /\ short.at = r.at /\ FrameOK(short)
  BY <1>1, <1>4, OnwardFrame, Shorten
<1>6. look.at = "write" /\ look.saved = r
  OBVIOUS
<1> HIDE DEF r, row, short, look
<1>7. sweeps'[s] = short \/ sweeps'[s] = look
  BY <1>2 DEF FedInv, PassInv, TableOK
<1>8. FrameOK(Frame(s)')
  BY <1>1, <1>4, <1>5, <1>6, <1>7 DEF Frame, Run
<1>9. sweeps' = [sweeps EXCEPT ![s] = sweeps'[s]]
  BY <1>2 DEF FedInv, PassInv, TableOK
<1>10. FramesOK'
  BY <1>1, <1>8, <1>9, FrameKeeps
<1> QED
  BY <1>3, <1>10

LEMMA WritePointerBounds ==
    ASSUME FedInv, NEW s \in Runners, Fed!WritePointer(s)
    PROVE  TextsOK' /\ FramesOK' /\ VectorsOK'
<1> DEFINE r == sweeps[s].saved
           row == Head(r.left)
           found == sweeps[s].found
           id == Fed!IdOf(found)
           w == [at |-> IF found.id = 0 THEN "event" ELSE "drop", id |-> id, saved |-> r]
           p == [id |-> id, text |-> row.text]
<1>1. /\ sweeps[s].at = "write"
      /\ UNCHANGED <<Fed!table, vectors, state, Fed!vectorVars>>
      /\ pointers' = [pointers EXCEPT ![row.row] = p]
      /\ minted' = IF id > minted THEN id ELSE minted
      /\ sweeps' = [sweeps EXCEPT ![s] = w]
  BY DEF Fed!WritePointer, Fed!Row
<1>2. RunOK(r) /\ r.left # <<>> /\ found \in Pointer /\ Frame(s) = r /\ FrameOK(r)
  BY <1>1 DEF FedInv, PassInv, TableOK, SweepOK, Frame, Run, FramesOK
<1>3. row.text \in Text
  BY <1>2, OnwardFrame
<1>4. id \in Nat /\ minted \in Nat /\ minted' \in Nat /\ id <= minted' /\ minted <= minted'
  BY <1>1, <1>2 DEF Fed!IdOf, FedInv, PassInv, TableOK, Pointer
<1>5. w.at \in {"event", "drop"} /\ w.saved = r /\ p.id = id /\ p.text = row.text
  OBVIOUS
<1> HIDE DEF r, row, found, id, w, p
<1>6. VectorsOK'
  BY <1>1 DEF FedInv, VectorsOK, Fed!vectorVars
<1>7. TextsOK'
  <2>1. \A x \in Rows : pointers'[x] = pointers[x] \/ pointers'[x] = p
    BY <1>1 DEF FedInv, PassInv, TableOK
  <2>2. \A x \in Rows : pointers'[x].text \in Text
    BY <1>3, <1>5, <2>1 DEF FedInv, TextsOK
  <2>3. \A x \in Rows : pointers'[x].id \in 0 .. minted'
    BY <1>4, <1>5, <2>1 DEF FedInv, TextsOK
  <2> QED
    BY <1>1, <2>2, <2>3 DEF FedInv, TextsOK, Fed!table
<1>8. sweeps'[s] = w
  BY <1>1 DEF FedInv, PassInv, TableOK
<1>9. Frame(s)' = r
  BY <1>5, <1>8 DEF Frame, Run
<1>10. FramesOK'
  BY <1>1, <1>2, <1>8, <1>9, FrameKeeps
<1> QED
  BY <1>6, <1>7, <1>10

LEMMA DropVectorBounds ==
    ASSUME Numbered, FedInv, NEW s \in Runners, Fed!DropVector(s)
    PROVE  TextsOK' /\ FramesOK' /\ VectorsOK'
<1> DEFINE w == [sweeps[s] EXCEPT !.at = "event"]
<1>1. /\ sweeps[s].at = "drop"
      /\ UNCHANGED <<Fed!table, pointers, minted, state, Fed!vectorVars>>
      /\ sweeps' = [sweeps EXCEPT ![s] = w]
      /\ \E r : vectors' = [vectors EXCEPT ![r] = 0]
  BY DEF Fed!DropVector, Fed!None
<1>2. sweeps[s] = [at |-> "drop", id |-> sweeps[s].id, saved |-> sweeps[s].saved]
      /\ Frame(s) = sweeps[s].saved /\ FrameOK(Frame(s))
  BY <1>1 DEF FedInv, PassInv, TableOK, SweepOK, Frame, Run, FramesOK
<1>3. w.at = "event" /\ w.saved = sweeps[s].saved
  BY <1>2
<1> HIDE DEF w
<1>4. TextsOK'
  BY <1>1 DEF FedInv, TextsOK, Fed!table
<1>5. VectorsOK'
  <2>1. 0 \in Text /\ vectors \in [Rows -> Text]
    BY DEF Numbered, Text, FedInv, VectorsOK
  <2>2. vectors' \in [Rows -> Text]
    BY <1>1, <2>1
  <2> QED
    BY <1>1, <2>2 DEF FedInv, VectorsOK, Fed!vectorVars
<1>6. sweeps'[s] = w
  BY <1>1 DEF FedInv, PassInv, TableOK
<1>7. Frame(s)' = Frame(s)
  BY <1>2, <1>3, <1>6 DEF Frame, Run
<1>8. FramesOK'
  BY <1>1, <1>2, <1>6, <1>7, FrameKeeps
<1> QED
  BY <1>4, <1>5, <1>8

LEMMA AppendBounds ==
    ASSUME FedInv, NEW s \in Runners, Fed!AppendFederated(s)
    PROVE  TextsOK' /\ FramesOK' /\ VectorsOK'
<1> DEFINE r == sweeps[s].saved
           w == Fed!Onward(r)
<1>1. /\ sweeps[s].at = "event"
      /\ UNCHANGED <<Fed!table, pointers, minted, vectors, state, Fed!vectorVars>>
  BY DEF Fed!AppendFederated
<1>2. sweeps' = [sweeps EXCEPT ![s] = w]
  BY DEF Fed!AppendFederated
<1>3. RunOK(r) /\ r.left # <<>> /\ Frame(s) = r /\ FrameOK(r)
  BY <1>1 DEF FedInv, PassInv, TableOK, SweepOK, Frame, Run, FramesOK
<1>4. RunOK(w) /\ w.at = r.at /\ FrameOK(w)
  BY <1>3, OnwardFrame, Shorten
<1> HIDE DEF w, r
<1>5. TextsOK' /\ VectorsOK'
  BY <1>1 DEF FedInv, TextsOK, VectorsOK, Fed!table, Fed!vectorVars
<1>6. sweeps'[s] = w
  BY <1>2 DEF FedInv, PassInv, TableOK
<1>7. Frame(s)' = w
  BY <1>4, <1>6 DEF Frame, RunOK
<1>8. FramesOK'
  BY <1>1, <1>2, <1>4, <1>6, <1>7, FrameKeeps
<1> QED
  BY <1>5, <1>8

LEMMA SweepEndBounds ==
    ASSUME FedInv, NEW s \in Runners, Fed!SweepEnd(s) \/ Fed!Crash(s)
    PROVE  TextsOK' /\ FramesOK' /\ VectorsOK'
<1>1. /\ UNCHANGED <<Fed!table, pointers, minted, vectors, Fed!vectorVars>>
      /\ sweeps' = [sweeps EXCEPT ![s] = Fed!Resting]
  BY DEF Fed!SweepEnd, Fed!Crash
<1>2. TextsOK' /\ VectorsOK'
  BY <1>1 DEF FedInv, TextsOK, VectorsOK, Fed!table, Fed!vectorVars
<1>3. sweeps'[s].at = "rest" /\ \A x \in Runners : x # s => sweeps'[x] = sweeps[x]
  BY <1>1 DEF FedInv, PassInv, TableOK, Fed!Resting
<1>4. \A x \in Runners : x # s => Frame(x)' = Frame(x)
  BY <1>3 DEF Frame
<1>5. state'.watermark \in Place /\ state'.cursor \in Place
  <2>1. CASE Fed!SweepEnd(s)
    <3>1. /\ sweeps[s].at = "rescan"
          /\ state' = [watermark |-> sweeps[s].watermark, cursor |-> sweeps[s].cursor]
      BY <2>1 DEF Fed!SweepEnd
    <3>2. FrameOK(sweeps[s])
      BY <3>1 DEF FedInv, FramesOK, Frame, Run
    <3> QED
      BY <3>1, <3>2 DEF FrameOK
  <2>2. CASE Fed!Crash(s)
    BY <2>2 DEF Fed!Crash, FedInv, FramesOK
  <2> QED
    BY <2>1, <2>2
<1>6. \A x \in Runners : sweeps'[x].at # "rest" => FrameOK(Frame(x)')
  BY <1>3, <1>4 DEF FedInv, FramesOK
<1>7. \A x \in Runners : FrameOK(Frame(x)') <=> FrameOK(Frame(x))'
  BY DEF FrameOK
<1>8. FramesOK'
  BY <1>5, <1>6, <1>7 DEF FramesOK
<1> QED
  BY <1>2, <1>8

LEMMA EmbedBounds ==
    ASSUME Numbered, FedInv, Fed!Backlog \/ Fed!Embed \/ UNCHANGED Fed!vars
    PROVE  TextsOK' /\ FramesOK' /\ VectorsOK'
<1>1. UNCHANGED <<Fed!table, pointers, minted, state, sweeps>>
  BY DEF Fed!Backlog, Fed!Embed, Fed!EmbedStart, Fed!EmbedEnd, Fed!vars, Fed!sweepVars
<1>2. TextsOK' /\ FramesOK'
  BY <1>1 DEF FedInv, TextsOK, FramesOK, FrameOK, Frame, Fed!table
<1>3. vectors \in [Rows -> Text] /\ jobs \in [Rows -> Seq(Text)]
      /\ (embedding # <<>> => \E r \in Rows, v \in Text : embedding = <<r, v>>)
  BY DEF FedInv, VectorsOK
<1>4. CASE Fed!Backlog
  <2>1. PICK r \in Rows : jobs' = [jobs EXCEPT ![r] = Append(jobs[r], pointers[r].text)]
    BY <1>4 DEF Fed!Backlog
  <2>2. jobs[r] \in Seq(Text) /\ pointers[r].text \in Text
    BY <1>3 DEF FedInv, TextsOK
  <2>3. Append(jobs[r], pointers[r].text) \in Seq(Text)
    BY <2>2
  <2>4. jobs' \in [Rows -> Seq(Text)]
    BY <1>3, <2>1, <2>3
  <2> QED
    BY <1>2, <1>3, <1>4, <2>4 DEF Fed!Backlog, VectorsOK
<1>5. CASE Fed!EmbedStart
  <2>1. PICK r \in Rows :
           /\ jobs[r] # <<>>
           /\ \/ jobs' = [jobs EXCEPT ![r] = <<>>] /\ UNCHANGED embedding
              \/ embedding' = <<r, Fed!NewestText(r)>> /\ UNCHANGED jobs
    BY <1>5 DEF Fed!EmbedStart
  <2>2. jobs[r] \in Seq(Text) /\ jobs[r][Len(jobs[r])] \in Text /\ <<>> \in Seq(Text)
    BY <1>3, <2>1
  <2>3. Fed!NewestText(r) \in Text
    BY <2>2 DEF Fed!NewestText, Fed!Last
  <2>4. jobs' \in [Rows -> Seq(Text)]
    BY <1>3, <2>1, <2>2
  <2>5. embedding' # <<>> => \E q \in Rows, v \in Text : embedding' = <<q, v>>
    BY <1>3, <2>1, <2>3
  <2> QED
    BY <1>2, <1>3, <1>5, <2>4, <2>5 DEF Fed!EmbedStart, VectorsOK
<1>6. CASE Fed!EmbedEnd
  <2>1. PICK r \in Rows, v \in Text : embedding = <<r, v>>
    BY <1>3, <1>6 DEF Fed!EmbedEnd
  <2>2. vectors' = [vectors EXCEPT ![r] = v] /\ jobs' = [jobs EXCEPT ![r] = <<>>]
        /\ embedding' = <<>>
    BY <1>6, <2>1 DEF Fed!EmbedEnd
  <2>3. vectors' \in [Rows -> Text] /\ jobs' \in [Rows -> Seq(Text)]
    BY <1>3, <2>2
  <2> QED
    BY <1>2, <2>2, <2>3 DEF VectorsOK
<1>7. CASE UNCHANGED Fed!vars
  BY <1>2, <1>3, <1>7 DEF Fed!vars, Fed!vectorVars, VectorsOK
<1> QED
  BY <1>4, <1>5, <1>6, <1>7 DEF Fed!Embed

LEMMA FedStep ==
    ASSUME RowsOK, Numbered, OneSweep, FedInv, [Fed!Next]_(Fed!vars)
    PROVE  FedInv'
<1>1. PassInv' /\ FoundOK'
  BY PassStep, FoundStep DEF FedInv
<1>2. TextsOK' /\ FramesOK' /\ VectorsOK'
  BY OwnerBounds, SweepStartBounds, RescanBounds, LookUpBounds, WritePointerBounds,
     DropVectorBounds, AppendBounds, SweepEndBounds, EmbedBounds DEF Fed!Next, Fed!Sweep
<1> QED
  BY <1>1, <1>2 DEF FedInv

\* The pointers to the rows of another database are honest: no id they have and
\* no text they hold was made up, no row below the watermark is without one, and
\* a pointer keeps its id, for any number of rows, of texts and of sweeps that
\* died (curation.py _sweep_local_db, _federate_row).
THEOREM PointersAreHonest ==
    ASSUME RowsOK, Numbered, OneSweep
    PROVE  Fed!Spec => PointersHonest
<1>1. Fed!Init => FedInv
  BY FedStart
<1>2. FedInv /\ [Fed!Next]_(Fed!vars) => FedInv'
  BY FedStep
<1>3. FedInv => Fed!TypeOK /\ Fed!PassedRowsHeld
  <2> SUFFICES ASSUME FedInv PROVE Fed!TypeOK /\ Fed!PassedRowsHeld
    OBVIOUS
  <2>1. Fed!PassedRowsHeld
    BY DEF FedInv, PassInv, PassOK, Fed!PassedRowsHeld, Held
  <2>2. Fed!TypeOK
    BY SameCount DEF FedInv, TextsOK, FramesOK, VectorsOK, Text, Place, Fed!TypeOK
  <2> QED
    BY <2>1, <2>2
<1>4. FedInv /\ [Fed!Next]_(Fed!vars) =>
        [\A r \in Rows : pointers[r].id # 0 => pointers'[r].id = pointers[r].id]_(Fed!vars)
  BY FoundStep DEF FedInv
<1> QED
  BY <1>1, <1>2, <1>3, <1>4, PTL DEF Fed!Spec, Fed!PointerKept, PointersHonest

-----------------------------------------------------------------------------
(* Extraction *)

\* Of one runner and what it hears: an attribute has one value in a turn.
Mine == CHOOSE r \in Extractors : TRUE
Words == UNION {{Heard[t][v][i] : i \in DOMAIN Heard[t][v]} : t \in Turns, v \in Versions}
HeardOnce ==
    /\ Extractors = {Mine}
    /\ Cardinality(Turns) \in Nat /\ Turns = 1 .. Cardinality(Turns)
    /\ 1 \in Versions /\ Versions \subseteq Nat \ {0}
    /\ \A t \in Turns, v \in Versions :
          /\ Heard[t][v] \in Seq(Words)
          /\ \A i, j \in DOMAIN Heard[t][v] :
                Heard[t][v][i][1] = Heard[t][v][j][1] => Heard[t][v][i] = Heard[t][v][j]
    /\ MinFacts \in Nat \ {0} /\ MaxFaults \in Nat /\ MaxForgets = 0
    /\ RowLimit \in Int

FactRow == [item : Words, turn : Turns, status : {"active", "superseded", "retracted"}]
JobTasks == {"extract", "digest", "reextract"}
QueuedJob == [task : JobTasks, turn : Nat, running : BOOLEAN]

\* Two sequences end to end.
LEMMA EndToEnd ==
    ASSUME NEW M, NEW a \in Seq(M), NEW b \in Seq(M)
    PROVE  /\ a \o b \in Seq(M) /\ Len(a \o b) = Len(a) + Len(b)
           /\ \A i \in 1 .. Len(a) + Len(b) :
                 (a \o b)[i] = IF i <= Len(a) THEN a[i] ELSE b[i - Len(a)]
OBVIOUS

\* ... and a sequence without its k-th.
LEMMA Spliced ==
    ASSUME NEW M, NEW s \in Seq(M), NEW k \in 1 .. Len(s)
    PROVE  LET o == SubSeq(s, 1, k - 1) \o SubSeq(s, k + 1, Len(s)) IN
           /\ o \in Seq(M) /\ Len(o) = Len(s) - 1
           /\ \A i \in 1 .. Len(s) - 1 : o[i] = IF i < k THEN s[i] ELSE s[i + 1]
<1> k \in Nat /\ Len(s) \in Nat /\ 1 <= k /\ k <= Len(s)
  OBVIOUS
<1>1. SubSeq(s, 1, k - 1) \in Seq(M) /\ SubSeq(s, k + 1, Len(s)) \in Seq(M)
  OBVIOUS
<1>2. PICK a \in Seq(M), b \in Seq(M) : a = SubSeq(s, 1, k - 1) /\ b = SubSeq(s, k + 1, Len(s))
  BY <1>1
<1>3. Len(a) = k - 1 /\ Len(b) = Len(s) - k
  BY <1>2
<1>4. \A i \in 1 .. k - 1 : a[i] = s[i]
  BY <1>2
<1>5. \A i \in 1 .. Len(s) - k : b[i] = s[k + i]
  BY <1>2
<1>6. a \o b \in Seq(M) /\ Len(a \o b) = Len(a) + Len(b)
  BY EndToEnd
<1>7. \A i \in 1 .. Len(a) + Len(b) : (a \o b)[i] = IF i <= Len(a) THEN a[i] ELSE b[i - Len(a)]
  BY EndToEnd
<1>8. PICK c \in Seq(M) : c = a \o b
  BY <1>6
<1>9. Len(c) = Len(s) - 1
  <2>1. Len(c) = Len(a) + Len(b)
    BY <1>6, <1>8
  <2> QED
    BY <1>3, <2>1
<1>10. \A i \in 1 .. Len(s) - 1 : c[i] = IF i <= k - 1 THEN a[i] ELSE b[i - (k - 1)]
  BY <1>3, <1>7, <1>8
<1>11. ASSUME NEW i \in 1 .. Len(s) - 1 PROVE c[i] = IF i < k THEN s[i] ELSE s[i + 1]
  <2>1. CASE i < k
    <3>1. c[i] = a[i]
      BY <1>10, <2>1
    <3>2. a[i] = s[i]
      BY <1>4, <2>1
    <3> QED
      BY <2>1, <3>1, <3>2
  <2>2. CASE i >= k
    <3>1. i - (k - 1) \in 1 .. Len(s) - k /\ k + (i - (k - 1)) = i + 1
      BY <2>2
    <3>2. b[i - (k - 1)] = s[i + 1]
      BY <1>5, <3>1
    <3>3. c[i] = b[i - (k - 1)]
      BY <1>10, <2>2
    <3> QED
      BY <2>2, <3>2, <3>3
  <2> QED
    BY <2>1, <2>2
<1> QED
  BY <1>2, <1>8, <1>9, <1>11

\* A sequence without the places of one element, or as it was.
LEMMA OmittedHas ==
    ASSUME NEW M, NEW s \in Seq(M), NEW at, at \subseteq DOMAIN s,
           \A i, j \in at : i = j
    PROVE  LET o == Extract!Omitting(s, at) IN
           /\ o \in Seq(M)
           /\ \A i \in DOMAIN o : \E k \in DOMAIN s \ at : o[i] = s[k]
           /\ \A k \in DOMAIN s \ at : \E i \in DOMAIN o : o[i] = s[k]
           /\ \A i, j \in DOMAIN o : i < j =>
                 \E k, l \in DOMAIN s \ at : k < l /\ o[i] = s[k] /\ o[j] = s[l]
<1> DEFINE o == Extract!Omitting(s, at)
<1>1. CASE at = {}
  BY <1>1 DEF Extract!Omitting
<1>2. CASE at # {}
  <2>1. PICK k \in DOMAIN s : at = {k} /\ (CHOOSE i \in at : TRUE) = k
    BY <1>2
  <2>2. o = SubSeq(s, 1, k - 1) \o SubSeq(s, k + 1, Len(s))
    BY <1>2, <2>1 DEF Extract!Omitting, Extract!RemoveAt
  <2>3. k \in 1 .. Len(s) /\ Len(s) \in Nat /\ DOMAIN s = 1 .. Len(s)
    BY <2>1
  <2> HIDE DEF o
  <2>4. /\ o \in Seq(M) /\ Len(o) = Len(s) - 1
        /\ \A i \in 1 .. Len(s) - 1 : o[i] = IF i < k THEN s[i] ELSE s[i + 1]
    BY <2>2, <2>3, Spliced
  <2>5. DOMAIN o = 1 .. Len(s) - 1
    BY <2>3, <2>4
  <2>6. \A i \in DOMAIN o : \E j \in DOMAIN s \ at : o[i] = s[j]
    <3> SUFFICES ASSUME NEW i \in DOMAIN o PROVE \E j \in DOMAIN s \ at : o[i] = s[j]
      OBVIOUS
    <3>1. CASE i < k
      BY <2>1, <2>3, <2>4, <2>5, <3>1
    <3>2. CASE i >= k
      <4>1. i + 1 \in DOMAIN s \ at
        BY <2>1, <2>3, <2>5, <3>2
      <4> QED
        BY <2>3, <2>4, <2>5, <3>2, <4>1
    <3> QED
      BY <2>3, <2>5, <3>1, <3>2
  <2>7. \A j \in DOMAIN s \ at : \E i \in DOMAIN o : o[i] = s[j]
    <3> SUFFICES ASSUME NEW j \in DOMAIN s \ at PROVE \E i \in DOMAIN o : o[i] = s[j]
      OBVIOUS
    <3>1. CASE j < k
      BY <2>1, <2>3, <2>4, <2>5, <3>1
    <3>2. CASE j > k
      <4>1. j - 1 \in DOMAIN o /\ j - 1 >= k
        BY <2>1, <2>3, <2>5, <3>2
      <4>2. o[j - 1] = s[j]
        BY <2>3, <2>4, <2>5, <3>2, <4>1
      <4> QED
        BY <4>1, <4>2
    <3> QED
      BY <2>1, <2>3, <3>1, <3>2
  <2>8. ASSUME NEW i \in DOMAIN o, NEW j \in DOMAIN o, i < j
        PROVE  \E x, y \in DOMAIN s \ at : x < y /\ o[i] = s[x] /\ o[j] = s[y]
    <3> DEFINE g(x) == IF x < k THEN x ELSE x + 1
    <3>1. /\ g(i) \in DOMAIN s \ at /\ g(j) \in DOMAIN s \ at /\ o[i] = s[g(i)] /\ o[j] = s[g(j)]
      BY <2>1, <2>3, <2>4, <2>5
    <3>2. g(i) < g(j)
      BY <2>3, <2>5, <2>8
    <3> HIDE DEF g
    <3> QED
      BY <3>1, <3>2
  <2> QED
    BY <2>4, <2>6, <2>7, <2>8 DEF o
<1> QED
  BY <1>1, <1>2

-----------------------------------------------------------------------------
(* The facts *)

OneActive(rows) ==
    \A i, j \in DOMAIN rows :
        /\ rows[i].status = "active" /\ rows[j].status = "active"
        /\ rows[i].item[1] = rows[j].item[1]
        => i = j
OneRow(rows) ==
    \A i, j \in DOMAIN rows :
        rows[i].item[1] = rows[j].item[1] /\ rows[i].turn = rows[j].turn => i = j

\* What is active of an attribute.
Of(rows, a) == {f \in Extract!Active(rows) : f.item[1] = a}
Values(rows, a) == {f.item : f \in Of(rows, a)}

LEMMA ActiveIs ==
    ASSUME NEW rows \in Seq(FactRow)
    PROVE  /\ \A f \in Extract!Active(rows) : f \in FactRow /\ f.status = "active"
           /\ \A f \in Extract!Active(rows) : \E i \in DOMAIN rows : rows[i] = f
           /\ \A i \in DOMAIN rows : rows[i].status = "active" => rows[i] \in Extract!Active(rows)
<1>1. \A i \in DOMAIN rows : rows[i] \in FactRow
  OBVIOUS
<1> QED
  BY <1>1 DEF Extract!Active, Extract!ToSet

LEMMA ActiveFinite ==
    ASSUME NEW rows \in Seq(FactRow)
    PROVE  IsFiniteSet(Extract!Active(rows))
<1>1. rows \in [DOMAIN rows -> Extract!ToSet(rows)]
  BY DEF Extract!ToSet
<1>2. rows \in Surjection(DOMAIN rows, Extract!ToSet(rows))
  BY <1>1 DEF Surjection, Extract!ToSet
<1>3. IsFiniteSet(DOMAIN rows)
  <2>1. DOMAIN rows = 1 .. Len(rows) /\ Len(rows) \in Nat
    OBVIOUS
  <2> QED
    BY <2>1, FS_Interval
<1>4. IsFiniteSet(Extract!ToSet(rows))
  BY <1>2, <1>3, FS_Surjection
<1>5. Extract!Active(rows) \subseteq Extract!ToSet(rows)
  BY DEF Extract!Active
<1> QED
  BY <1>4, <1>5, FS_Subset

LEMMA SupersededHas ==
    ASSUME NEW rows \in Seq(FactRow), OneRow(rows), NEW a
    PROVE  LET s == Extract!Superseding(rows, a) IN
           /\ s \in Seq(FactRow) /\ OneRow(s) /\ DOMAIN s = DOMAIN rows
           /\ \A i \in DOMAIN rows : rows[i].item[1] # a => s[i] = rows[i]
           /\ \A i \in DOMAIN rows : s[i].item[1] = rows[i].item[1]
           /\ \A i \in DOMAIN rows : s[i].item[1] = a => s[i].status # "active"
<1> DEFINE s == Extract!Superseding(rows, a)
<1>1. DOMAIN rows = 1 .. Len(rows) /\ Len(rows) \in Nat /\ \A i \in DOMAIN rows : rows[i] \in FactRow
  OBVIOUS
<1>2. DOMAIN s = DOMAIN rows
  BY DEF Extract!Superseding
<1>3. ASSUME NEW i \in DOMAIN rows
      PROVE  /\ s[i] \in FactRow /\ s[i].item = rows[i].item /\ s[i].turn = rows[i].turn
             /\ rows[i].item[1] # a => s[i] = rows[i]
             /\ rows[i].item[1] = a => s[i].status # "active"
  <2>1. s[i] = IF rows[i].item[1] = a /\ rows[i].status = "active"
               THEN [rows[i] EXCEPT !.status = "superseded"] ELSE rows[i]
    BY DEF Extract!Superseding
  <2>2. rows[i] \in FactRow
    BY <1>1
  <2> QED
    BY <2>1, <2>2 DEF FactRow
<1> HIDE DEF s
<1>4. s \in Seq(FactRow)
  <2>1. s \in [1 .. Len(rows) -> FactRow]
    <3>1. s = [i \in 1 .. Len(rows) |-> s[i]]
      BY <1>1, <1>2 DEF s, Extract!Superseding
    <3> QED
      BY <1>1, <1>3, <3>1
  <2> QED
    BY <1>1, <2>1
<1>5. OneRow(s)
  BY <1>2, <1>3 DEF OneRow
<1> QED
  BY <1>2, <1>3, <1>4, <1>5 DEF s

LEMMA StoredHas ==
    ASSUME NEW rows \in Seq(FactRow), OneRow(rows), OneActive(rows), NEW t \in Turns, NEW item \in Words
    PROVE  LET new == Extract!StoreFact(rows, t, item) IN
           /\ new \in Seq(FactRow) /\ OneRow(new) /\ OneActive(new)
           /\ \A a : a # item[1] => Of(new, a) = Of(rows, a)
           /\ Values(new, item[1]) = {item}
           /\ Cardinality(Extract!Active(new)) >= Cardinality(Extract!Active(rows))
<1> DEFINE new == Extract!StoreFact(rows, t, item)
           A == Extract!Active(rows)
<1>0. IsFiniteSet(A) /\ Cardinality(A) \in Nat
  BY ActiveFinite, FS_CardinalityType
<1>1. CASE \E f \in A : f.item = item
  <2>1. new = rows
    BY <1>1 DEF Extract!StoreFact
  <2>2. Values(rows, item[1]) = {item}
    <3>1. PICK f \in A : f.item = item
      BY <1>1
    <3>2. ASSUME NEW g \in Of(rows, item[1]) PROVE g.item = item
      <4>1. PICK i \in DOMAIN rows, j \in DOMAIN rows :
                rows[i] = f /\ rows[j] = g /\ f.status = "active" /\ g.status = "active"
        BY <3>1, <3>2, ActiveIs DEF Of
      <4>2. g.item[1] = f.item[1]
        BY <3>1, <3>2 DEF Of
      <4> QED
        BY <3>1, <4>1, <4>2 DEF OneActive
    <3>3. f \in Of(rows, item[1])
      BY <3>1 DEF Of
    <3> QED
      BY <3>1, <3>2, <3>3 DEF Values
  <2> QED
    BY <1>0, <2>1, <2>2, OneActive(rows), OneRow(rows)
<1>2. CASE ~ \E f \in A : f.item = item
  <2> DEFINE s == Extract!Superseding(rows, item[1])
             at == {i \in DOMAIN s : s[i].item[1] = item[1] /\ s[i].turn = t}
             o == Extract!Omitting(s, at)
             r == [item |-> item, turn |-> t, status |-> "active"]
  <2>1. new = Append(o, r)
    BY <1>2 DEF Extract!StoreFact, Extract!Without
  <2>2. /\ s \in Seq(FactRow) /\ OneRow(s) /\ DOMAIN s = DOMAIN rows
        /\ \A i \in DOMAIN rows : rows[i].item[1] # item[1] => s[i] = rows[i]
        /\ \A i \in DOMAIN rows : s[i].item[1] = rows[i].item[1]
        /\ \A i \in DOMAIN rows : s[i].item[1] = item[1] => s[i].status # "active"
    BY SupersededHas
  <2>18. \A i \in DOMAIN rows : rows[i].item[1] # item[1] => s[i] = rows[i]
    BY <2>2
  <2>19. \A i \in DOMAIN rows : s[i].item[1] = rows[i].item[1]
    BY <2>2
  <2> HIDE DEF s
  <2>3. at \subseteq DOMAIN s /\ \A i, j \in at : i = j
    BY <2>2 DEF OneRow
  <2> HIDE DEF at, new, A
  <2>4. /\ o \in Seq(FactRow)
        /\ \A i \in DOMAIN o : \E k \in DOMAIN s \ at : o[i] = s[k]
        /\ \A k \in DOMAIN s \ at : \E i \in DOMAIN o : o[i] = s[k]
        /\ \A i, j \in DOMAIN o : i < j =>
              \E k, l \in DOMAIN s \ at : k < l /\ o[i] = s[k] /\ o[j] = s[l]
    <3>1. s \in Seq(FactRow)
      BY <2>2
    <3>2. PICK z \in Seq(FactRow) : z = s
      BY <3>1
    <3>3. PICK c : c = at
      OBVIOUS
    <3>4. c \subseteq DOMAIN z /\ \A i, j \in c : i = j
      BY <2>3, <3>2, <3>3
    <3>5. PICK q : q = Extract!Omitting(z, c)
      OBVIOUS
    <3>6. /\ q \in Seq(FactRow)
          /\ \A i \in DOMAIN q : \E k \in DOMAIN z \ c : q[i] = z[k]
          /\ \A k \in DOMAIN z \ c : \E i \in DOMAIN q : q[i] = z[k]
          /\ \A i, j \in DOMAIN q : i < j =>
                \E k, l \in DOMAIN z \ c : k < l /\ q[i] = z[k] /\ q[j] = z[l]
      BY <3>4, <3>5, OmittedHas
    <3>7. o = q
      BY <3>2, <3>3, <3>5
    <3> HIDE DEF o
    <3> QED
      BY <3>2, <3>3, <3>6, <3>7
  <2> HIDE DEF o
  <2>5. DOMAIN o = 1 .. Len(o) /\ Len(o) \in Nat /\ DOMAIN s = 1 .. Len(s) /\ Len(s) \in Nat
    BY <2>2, <2>4
  <2>6. r \in FactRow
    BY DEF FactRow
  <2>7. /\ new \in Seq(FactRow) /\ Len(new) = Len(o) + 1 /\ DOMAIN new = 1 .. Len(o) + 1
        /\ \A i \in DOMAIN o : new[i] = o[i]
        /\ new[Len(o) + 1] = r
    <3> HIDE DEF r
    <3> QED
      BY <2>1, <2>4, <2>5, <2>6
  <2>8. \A i \in DOMAIN new : i = Len(o) + 1 \/ i \in DOMAIN o
    BY <2>5, <2>7
  <2>9. /\ r.item = item /\ r.turn = t /\ r.status = "active"
    OBVIOUS
  <2> HIDE DEF r
  <2>10. ASSUME NEW i \in DOMAIN o
         PROVE  /\ ~(o[i].item[1] = item[1] /\ o[i].turn = t)
                /\ o[i].status = "active" => o[i].item[1] # item[1]
    <3>1. PICK k \in DOMAIN s \ at : o[i] = s[k]
      BY <2>4
    <3>2. ~(s[k].item[1] = item[1] /\ s[k].turn = t)
      BY DEF at
    <3>3. s[k].item[1] = item[1] => s[k].status # "active"
      BY <2>2
    <3> QED
      BY <3>1, <3>2, <3>3
  <2>11. ASSUME NEW i \in DOMAIN o, NEW j \in DOMAIN o, i # j
         PROVE  /\ ~(o[i].item[1] = o[j].item[1] /\ o[i].turn = o[j].turn)
                /\ ~(/\ o[i].status = "active" /\ o[j].status = "active"
                     /\ o[i].item[1] = o[j].item[1])
    <3>1. PICK k \in DOMAIN s \ at, l \in DOMAIN s \ at : k # l /\ o[i] = s[k] /\ o[j] = s[l]
      <4>1. i < j \/ j < i
        BY <2>5, <2>11
      <4>2. \A k, l \in DOMAIN s : k < l => k # l
        BY <2>5
      <4> QED
        BY <2>4, <4>1, <4>2
    <3>2. ~(o[i].item[1] = o[j].item[1] /\ o[i].turn = o[j].turn)
      BY <2>2, <3>1 DEF OneRow
    <3>3. ASSUME o[i].status = "active", o[j].status = "active", o[i].item[1] = o[j].item[1]
          PROVE  FALSE
      <4>1. s[k].item[1] # item[1] /\ s[l].item[1] # item[1]
        BY <2>2, <3>1, <3>3
      <4>2. s[k] = rows[k] /\ s[l] = rows[l]
        <5>1. k \in DOMAIN rows /\ l \in DOMAIN rows
          BY <2>2
        <5>2. rows[k].item[1] # item[1] /\ rows[l].item[1] # item[1]
          BY <2>19, <4>1, <5>1
        <5> QED
          BY <2>18, <5>1, <5>2
      <4> QED
        BY <2>2, <3>1, <3>3, <4>2 DEF OneActive
    <3> QED
      BY <3>2, <3>3
  <2>12. ASSUME NEW i \in DOMAIN new, NEW j \in DOMAIN new, i # j
         PROVE  /\ ~(new[i].item[1] = new[j].item[1] /\ new[i].turn = new[j].turn)
                /\ ~(/\ new[i].status = "active" /\ new[j].status = "active"
                     /\ new[i].item[1] = new[j].item[1])
    <3>1. CASE i \in DOMAIN o /\ j \in DOMAIN o
      BY <2>7, <2>11, <2>12, <3>1
    <3>2. CASE i \in DOMAIN o /\ j = Len(o) + 1
      BY <2>7, <2>9, <2>10, <3>2
    <3>3. CASE j \in DOMAIN o /\ i = Len(o) + 1
      BY <2>7, <2>9, <2>10, <3>3
    <3> QED
      BY <2>8, <2>12, <3>1, <3>2, <3>3
  <2>13. OneRow(new) /\ OneActive(new)
    BY <2>12 DEF OneRow, OneActive
  <2> DEFINE Rest == {f \in A : f.item[1] # item[1]}
  <2>14. Extract!Active(new) = Rest \cup {r}
    <3>1. ASSUME NEW f \in Extract!Active(new) PROVE f \in Rest \cup {r}
      <4>1. PICK i \in DOMAIN new : new[i] = f /\ f.status = "active"
        BY <2>7, <3>1, ActiveIs
      <4>2. CASE i \in DOMAIN o
        <5>1. PICK k \in DOMAIN s \ at : f = s[k]
          BY <2>4, <2>7, <4>1, <4>2
        <5>2. f.item[1] # item[1] /\ k \in DOMAIN rows
          BY <2>2, <4>1, <5>1
        <5>3. f = rows[k]
          <6>1. rows[k].item[1] # item[1]
            BY <2>19, <5>1, <5>2
          <6> QED
            BY <2>18, <5>1, <5>2, <6>1
        <5> QED
          BY <4>1, <5>2, <5>3, ActiveIs DEF A
      <4> QED
        BY <2>7, <2>8, <4>1, <4>2
    <3>2. ASSUME NEW f \in Rest PROVE f \in Extract!Active(new)
      <4>1. PICK k \in DOMAIN rows : rows[k] = f /\ f.status = "active"
        BY ActiveIs DEF A
      <4>2. s[k] = f /\ k \in DOMAIN s \ at
        BY <2>2, <4>1 DEF at
      <4>3. PICK i \in DOMAIN o : o[i] = f
        BY <2>4, <4>2
      <4>4. i \in DOMAIN new /\ new[i] = f
        BY <2>5, <2>7, <4>3
      <4> QED
        BY <2>7, <4>1, <4>4, ActiveIs
    <3>3. r \in Extract!Active(new)
      BY <2>5, <2>7, <2>9, ActiveIs
    <3> QED
      BY <3>1, <3>2, <3>3
  <2>15. \A a : a # item[1] => Of(new, a) = Of(rows, a)
    BY <2>9, <2>14 DEF Of, A
  <2>16. Values(new, item[1]) = {item}
    <3>1. Of(new, item[1]) = {r}
      BY <2>9, <2>14 DEF Of
    <3> QED
      BY <2>9, <3>1 DEF Values
  <2>17. Cardinality(Extract!Active(new)) >= Cardinality(A)
    <3>1. IsFiniteSet(Rest) /\ r \notin Rest
      BY <1>0, <2>9, FS_Subset
    <3>2. Cardinality(Rest) \in Nat /\ Cardinality(Rest \cup {r}) = Cardinality(Rest) + 1
      BY <3>1, FS_CardinalityType, FS_AddElement
    <3>3. CASE A = Rest
      <4>1. Cardinality(A) = Cardinality(Rest)
        BY <3>3
      <4> QED
        BY <2>14, <3>2, <4>1
    <3>4. CASE A # Rest
      <4>1. PICK f \in A : f.item[1] = item[1]
        BY <3>4
      <4>2. \A g \in A : g.item[1] = item[1] => g = f
        <5> SUFFICES ASSUME NEW g \in A, g.item[1] = item[1] PROVE g = f
          OBVIOUS
        <5>1. PICK i \in DOMAIN rows, j \in DOMAIN rows :
                  rows[i] = f /\ rows[j] = g /\ f.status = "active" /\ g.status = "active"
          BY ActiveIs DEF A
        <5> QED
          BY <4>1, <5>1 DEF OneActive
      <4>3. A = Rest \cup {f} /\ f \notin Rest
        BY <4>1, <4>2
      <4>4. Cardinality(A) = Cardinality(Rest) + 1
        BY <3>1, <4>3, FS_AddElement
      <4> QED
        BY <2>14, <3>2, <4>4
    <3> QED
      BY <3>3, <3>4
  <2> QED
    BY <2>7, <2>13, <2>15, <2>16, <2>17 DEF new, A
<1> QED
  BY <1>1, <1>2

SameSize == \A S : Extract!Cardinality(S) = Cardinality(S)
LEMMA CountedAlike == SameSize
BY DEF SameSize, Extract!Cardinality, Cardinality
-----------------------------------------------------------------------------
(* The queue *)

JobsOnce(q) ==
    \A i, k \in DOMAIN q : q[i].task = q[k].task /\ q[i].turn = q[k].turn => i = k
Ascending(q) ==
    \A i, k \in DOMAIN q :
        i < k /\ q[i].task = "extract" /\ q[k].task = "extract" => q[i].turn < q[k].turn

\* What is asked for, wherever in the queue.
Requests(q) == {<<q[i].task, q[i].turn>> : i \in DOMAIN q}

\* e is q with this request, p is q but for marks of a job that runs, o is q
\* without the job of this request.
Asks(q, e, task, t) ==
    /\ e \in Seq(QueuedJob) /\ JobsOnce(e)
    /\ Requests(e) = Requests(q) \cup {<<task, t>>}
    /\ \A i \in DOMAIN e : e[i].running => \E k \in DOMAIN q : e[i] = q[k]
    /\ /\ Ascending(q)
       /\ task = "extract" => \A i \in DOMAIN q : q[i].task = "extract" => q[i].turn < t
       => Ascending(e)
Alike(q, p) ==
    /\ p \in Seq(QueuedJob) /\ DOMAIN p = DOMAIN q
    /\ \A i \in DOMAIN q : p[i].task = q[i].task /\ p[i].turn = q[i].turn
Serves(q, o, task, t) ==
    /\ o \in Seq(QueuedJob) /\ JobsOnce(o)
    /\ Requests(o) = Requests(q) \ {<<task, t>>}
    /\ \A i \in DOMAIN o :
          \E k \in DOMAIN q : o[i] = q[k] /\ <<q[k].task, q[k].turn>> # <<task, t>>
    /\ Ascending(q) => Ascending(o)

LEMMA EnqueuedHas ==
    ASSUME NEW q \in Seq(QueuedJob), JobsOnce(q), NEW task \in JobTasks, NEW t \in Nat
    PROVE  Asks(q, Extract!Enqueue(q, task, t), task, t)
<1> DEFINE e == Extract!Enqueue(q, task, t)
<1>0. DOMAIN q = 1 .. Len(q) /\ Len(q) \in Nat
  OBVIOUS
<1>1. CASE \E i \in DOMAIN q : q[i].task = task /\ q[i].turn = t
  <2>1. e = q
    BY <1>1 DEF Extract!Enqueue
  <2> HIDE DEF e
  <2>2. Requests(e) = Requests(q) \cup {<<task, t>>}
    BY <1>1, <2>1 DEF Requests
  <2>3. Asks(q, e, task, t)
    BY <2>1, <2>2 DEF Asks
  <2> QED
    BY <2>3 DEF e
<1>2. CASE ~ \E i \in DOMAIN q : q[i].task = task /\ q[i].turn = t
  <2> DEFINE j == [task |-> task, turn |-> t, running |-> FALSE]
  <2>1. e = Append(q, j)
    BY <1>2 DEF Extract!Enqueue
  <2>2. j \in QueuedJob
    BY DEF QueuedJob
  <2>3. j.task = task /\ j.turn = t /\ ~j.running
    OBVIOUS
  <2>4. PICK row \in QueuedJob : row = j
    BY <2>2
  <2> HIDE DEF e, j
  <2>5. /\ e \in Seq(QueuedJob) /\ DOMAIN e = 1 .. Len(q) + 1
        /\ \A i \in DOMAIN q : e[i] = q[i]
        /\ e[Len(q) + 1] = j
    <3>1. e = Append(q, row)
      BY <2>1, <2>4
    <3> QED
      BY <1>0, <2>4, <3>1
  <2>6. \A i \in DOMAIN e : i \in DOMAIN q \/ i = Len(q) + 1
    BY <1>0, <2>5
  <2>7. JobsOnce(e)
    <3> SUFFICES ASSUME NEW i \in DOMAIN e, NEW k \in DOMAIN e,
                        e[i].task = e[k].task, e[i].turn = e[k].turn
                 PROVE  i = k
      BY DEF JobsOnce
    <3>1. CASE i \in DOMAIN q /\ k \in DOMAIN q
      BY <2>5, <3>1 DEF JobsOnce
    <3>2. CASE i = Len(q) + 1 /\ k \in DOMAIN q
      BY <1>2, <2>3, <2>5, <3>2
    <3>3. CASE k = Len(q) + 1 /\ i \in DOMAIN q
      BY <1>2, <2>3, <2>5, <3>3
    <3> QED
      BY <2>6, <3>1, <3>2, <3>3
  <2>8. Len(q) + 1 \in DOMAIN e /\ DOMAIN q \subseteq DOMAIN e
    BY <1>0, <2>5
  <2>9. Requests(e) = Requests(q) \cup {<<task, t>>}
    <3>1. ASSUME NEW x \in Requests(e) PROVE x \in Requests(q) \cup {<<task, t>>}
      <4>1. PICK i \in DOMAIN e : x = <<e[i].task, e[i].turn>>
        BY DEF Requests
      <4> QED
        BY <2>3, <2>5, <2>6, <4>1 DEF Requests
    <3>2. ASSUME NEW x \in Requests(q) PROVE x \in Requests(e)
      <4>1. PICK i \in DOMAIN q : x = <<q[i].task, q[i].turn>>
        BY DEF Requests
      <4> QED
        BY <2>5, <2>8, <4>1 DEF Requests
    <3>3. <<task, t>> \in Requests(e)
      BY <2>3, <2>5, <2>8 DEF Requests
    <3> QED
      BY <3>1, <3>2, <3>3
  <2>10. \A i \in DOMAIN e : e[i].running => \E k \in DOMAIN q : e[i] = q[k]
    BY <2>3, <2>5, <2>6
  <2>11. ASSUME Ascending(q),
                task = "extract" => \A i \in DOMAIN q : q[i].task = "extract" => q[i].turn < t
         PROVE  Ascending(e)
    <3> SUFFICES ASSUME NEW i \in DOMAIN e, NEW l \in DOMAIN e,
                        i < l, e[i].task = "extract", e[l].task = "extract"
                 PROVE  e[i].turn < e[l].turn
      BY DEF Ascending
    <3>1. i \in DOMAIN q
      BY <1>0, <2>5, <2>6
    <3>2. e[i] = q[i]
      BY <2>5, <3>1
    <3>3. CASE l \in DOMAIN q
      BY <2>5, <2>11, <3>1, <3>2, <3>3 DEF Ascending
    <3>4. CASE l = Len(q) + 1
      BY <2>3, <2>5, <2>11, <3>1, <3>2, <3>4
    <3> QED
      BY <2>6, <3>3, <3>4
  <2>12. Asks(q, e, task, t)
    BY <2>5, <2>7, <2>9, <2>10, <2>11 DEF Asks
  <2> QED
    BY <2>12 DEF e
<1> QED
  BY <1>1, <1>2

LEMMA ServedHas ==
    ASSUME NEW q \in Seq(QueuedJob), JobsOnce(q), NEW job
    PROVE  Serves(q, Extract!Done(q, job), job.task, job.turn)
<1> DEFINE o == Extract!Done(q, job)
           at == {i \in DOMAIN q : q[i].task = job.task /\ q[i].turn = job.turn}
<1>1. at \subseteq DOMAIN q /\ \A i, j \in at : i = j
  BY DEF JobsOnce
<1>2. o = Extract!Omitting(q, at)
  BY DEF Extract!Done
<1>3. \A k \in DOMAIN q : k \notin at <=> <<q[k].task, q[k].turn>> # <<job.task, job.turn>>
  OBVIOUS
<1> HIDE DEF o, at
<1>4. PICK c : c = at
  OBVIOUS
<1>5. /\ o \in Seq(QueuedJob)
      /\ \A i \in DOMAIN o : \E k \in DOMAIN q \ c : o[i] = q[k]
      /\ \A k \in DOMAIN q \ c : \E i \in DOMAIN o : o[i] = q[k]
      /\ \A i, j \in DOMAIN o : i < j =>
            \E k, l \in DOMAIN q \ c : k < l /\ o[i] = q[k] /\ o[j] = q[l]
  BY <1>1, <1>2, <1>4, OmittedHas
<1>6. DOMAIN o \subseteq Nat /\ DOMAIN q \subseteq Nat
  BY <1>5
<1>7. JobsOnce(o)
  <2> SUFFICES ASSUME NEW i \in DOMAIN o, NEW j \in DOMAIN o, i # j
               PROVE  ~(o[i].task = o[j].task /\ o[i].turn = o[j].turn)
    BY DEF JobsOnce
  <2>1. i < j \/ j < i
    BY <1>6
  <2>2. PICK k \in DOMAIN q, l \in DOMAIN q : k # l /\ o[i] = q[k] /\ o[j] = q[l]
    BY <1>5, <1>6, <2>1
  <2> QED
    BY <2>2 DEF JobsOnce
<1>8. Requests(o) = Requests(q) \ {<<job.task, job.turn>>}
  <2>1. ASSUME NEW x \in Requests(o) PROVE x \in Requests(q) \ {<<job.task, job.turn>>}
    <3>1. PICK i \in DOMAIN o : x = <<o[i].task, o[i].turn>>
      BY DEF Requests
    <3>2. PICK k \in DOMAIN q \ c : o[i] = q[k]
      BY <1>5
    <3> QED
      BY <1>3, <1>4, <3>1, <3>2 DEF Requests
  <2>2. ASSUME NEW x \in Requests(q), x # <<job.task, job.turn>> PROVE x \in Requests(o)
    <3>1. PICK k \in DOMAIN q : x = <<q[k].task, q[k].turn>>
      BY DEF Requests
    <3>2. k \in DOMAIN q \ c
      BY <1>3, <1>4, <2>2, <3>1
    <3>3. PICK i \in DOMAIN o : o[i] = q[k]
      BY <1>5, <3>2
    <3> QED
      BY <3>1, <3>3 DEF Requests
  <2> QED
    BY <2>1, <2>2
<1>9. \A i \in DOMAIN o :
          \E k \in DOMAIN q : o[i] = q[k] /\ <<q[k].task, q[k].turn>> # <<job.task, job.turn>>
  BY <1>3, <1>4, <1>5
<1>10. ASSUME Ascending(q) PROVE Ascending(o)
  <2> SUFFICES ASSUME NEW i \in DOMAIN o, NEW j \in DOMAIN o,
                      i < j, o[i].task = "extract", o[j].task = "extract"
               PROVE  o[i].turn < o[j].turn
    BY DEF Ascending
  <2>1. PICK k \in DOMAIN q, l \in DOMAIN q : k < l /\ o[i] = q[k] /\ o[j] = q[l]
    BY <1>5
  <2> QED
    BY <1>10, <2>1 DEF Ascending
<1> QED
  BY <1>5, <1>7, <1>8, <1>9, <1>10 DEF Serves, o

LEMMA AlikeHas ==
    ASSUME NEW q, NEW p, Alike(q, p)
    PROVE  /\ Requests(p) = Requests(q)
           /\ JobsOnce(q) => JobsOnce(p)
           /\ Ascending(q) => Ascending(p)
<1>1. DOMAIN p = DOMAIN q /\ \A i \in DOMAIN q : p[i].task = q[i].task /\ p[i].turn = q[i].turn
  BY DEF Alike
<1> QED
  BY <1>1 DEF Requests, JobsOnce, Ascending

\* The job at this place is taken up; or some places are given up.
LEMMA TakenUp ==
    ASSUME NEW q \in Seq(QueuedJob), NEW k \in DOMAIN q
    PROVE  LET p == [q EXCEPT ![k].running = TRUE] IN
           Alike(q, p) /\ \A i \in DOMAIN p : p[i].running => i = k \/ q[i].running
<1> DEFINE p == [q EXCEPT ![k].running = TRUE]
<1>1. DOMAIN q = 1 .. Len(q) /\ Len(q) \in Nat /\ \A i \in DOMAIN q : q[i] \in QueuedJob
  OBVIOUS
<1>2. \A i \in DOMAIN q : p[i] = IF i = k THEN [q[k] EXCEPT !.running = TRUE] ELSE q[i]
  BY <1>1
<1>3. ASSUME NEW i \in DOMAIN q
      PROVE  /\ p[i] \in QueuedJob /\ p[i].task = q[i].task /\ p[i].turn = q[i].turn
             /\ p[i].running => i = k \/ q[i].running
  BY <1>1, <1>2 DEF QueuedJob
<1>4. p = [i \in 1 .. Len(q) |-> p[i]]
  BY <1>1
<1> HIDE DEF p
<1>5. p \in [1 .. Len(q) -> QueuedJob]
  BY <1>1, <1>3, <1>4
<1>6. p \in Seq(QueuedJob) /\ DOMAIN p = DOMAIN q
  BY <1>1, <1>5
<1> QED
  BY <1>3, <1>6 DEF Alike, p

LEMMA GivenUp ==
    ASSUME NEW q \in Seq(QueuedJob), NEW places
    PROVE  LET p == [i \in DOMAIN q |->
                        IF i \in places THEN [q[i] EXCEPT !.running = FALSE] ELSE q[i]]
           IN  Alike(q, p) /\ \A i \in DOMAIN p : p[i].running => q[i].running
<1> DEFINE p == [i \in DOMAIN q |->
                    IF i \in places THEN [q[i] EXCEPT !.running = FALSE] ELSE q[i]]
<1>1. DOMAIN q = 1 .. Len(q) /\ Len(q) \in Nat /\ \A i \in DOMAIN q : q[i] \in QueuedJob
  OBVIOUS
<1>2. \A i \in DOMAIN q : p[i] = IF i \in places THEN [q[i] EXCEPT !.running = FALSE] ELSE q[i]
  OBVIOUS
<1>3. p = [i \in 1 .. Len(q) |-> p[i]]
  BY <1>1
<1> HIDE DEF p
<1>4. ASSUME NEW i \in DOMAIN q
      PROVE  /\ p[i] \in QueuedJob /\ p[i].task = q[i].task /\ p[i].turn = q[i].turn
             /\ p[i].running => q[i].running
  BY <1>1, <1>2 DEF QueuedJob
<1>5. p \in [1 .. Len(q) -> QueuedJob]
  BY <1>1, <1>3, <1>4
<1>6. p \in Seq(QueuedJob) /\ DOMAIN p = DOMAIN q
  BY <1>1, <1>5
<1> QED
  BY <1>4, <1>6 DEF Alike, p

-----------------------------------------------------------------------------
(* The jobs *)

\* A job at hand is at one of its steps; a turn with something left to tell
\* tells something.
HandOK(h, v, n) ==
    \/ h = Extract!Idle
    \/ /\ h.at \in {"emit", "ask"}
       /\ h = [at |-> h.at, job |-> h.job, left |-> h.left]
       /\ h.job \in QueuedJob /\ h.job.task = "extract"
       /\ h.left \in Seq(Words)
       /\ \A x \in Extract!ToSet(h.left) : x \in Extract!ToSet(Heard[h.job.turn][v])
    \/ /\ h.at = "digest"
       /\ h = [at |-> h.at, job |-> h.job, line |-> h.line, anchor |-> h.anchor, drop |-> h.drop]
       /\ h.job \in QueuedJob /\ h.job.task = "digest"
    \/ /\ h.at = "page"
       /\ h = [at |-> h.at, job |-> h.job, page |-> h.page]
       /\ h.job \in QueuedJob /\ h.job.task = "reextract"
       /\ h.page \subseteq 1 .. n

JobsTyped ==
    /\ said \in 0 .. Cardinality(Turns) /\ version \in Versions
    /\ facts \in Seq(FactRow) /\ OneRow(facts) /\ OneActive(facts)
    /\ read \subseteq (1 .. said) \X Versions
    /\ forgotten = {} /\ faults \in 0 .. MaxFaults /\ unasked \in BOOLEAN
    /\ hand = [r \in Extractors |-> hand[Mine]] /\ HandOK(hand[Mine], version, said)

\* The job at hand is in the queue.
QueueOK(q, h, n) ==
    /\ q \in Seq(QueuedJob) /\ JobsOnce(q)
    /\ \A t : <<"extract", t>> \in Requests(q) => t \in 1 .. n
    /\ \A t : <<"digest", t>> \in Requests(q) => t = 0
    /\ h # Extract!Idle => <<h.job.task, h.job.turn>> \in Requests(q)
JobsQueued == QueueOK(queue, hand[Mine], said)

\* What a turn tells of an attribute, by the first extractor.
Tells(t, a) == {x \in Extract!ToSet(Heard[t][1]) : x[1] = a}

\* Of the turns that were read, the last that tells a is what is active of a,
\* where no turn read late tells a; or one not read yet is that tells a, by
\* the half of it that an interrupted job has told.
ReadOf(rd, n) == {t \in 1 .. n : <<t, 1>> \in rd}
Believed(rows, n, done, excused) ==
    \A t \in done : \A a :
        /\ Tells(t, a) # {} /\ \A u \in done : t < u => Tells(u, a) = {}
        /\ \A u \in excused : Tells(u, a) = {}
        => \/ Values(rows, a) = Tells(t, a)
           \/ \E v \in (1 .. n) \ done : Tells(v, a) # {} /\ Values(rows, a) = Tells(v, a)

\* What is no longer left of a turn was told.
ToldOf(rows, t, left) ==
    \A x \in Extract!ToSet(Heard[t][1]) :
        x \in Extract!ToSet(left) \/ Values(rows, x[1]) = {x}

\* Each turn that is not read has its job, so that no reextract job is asked
\* for, and the job at hand has told what it has not left.
ReadingOK(n, rows, rd, lt, q, h) ==
    /\ \A t \in 1 .. n : <<t, 1>> \notin rd => <<"extract", t>> \in Requests(q)
    /\ \A t : <<"reextract", t>> \notin Requests(q)
    /\ h.at = "emit" => <<h.job.turn, 1>> \notin rd /\ ToldOf(rows, h.job.turn, h.left)
    /\ h.at = "ask" => <<h.job.turn, 1>> \in rd
    /\ Believed(rows, n, ReadOf(rd, n), lt)
Reading == version = 1 => ReadingOK(said, facts, read, late, queue, hand[Mine])

\* If no process died, the turns are read in their order.
InTurnOK(n, rd, lt, q, h) ==
    /\ Ascending(q)
    /\ \A i \in DOMAIN q : q[i].running =>
           h # Extract!Idle /\ <<q[i].task, q[i].turn>> = <<h.job.task, h.job.turn>>
    /\ \A t, u \in 1 .. n : <<u, 1>> \in rd /\ t < u => <<t, 1>> \in rd
    /\ h.at = "emit" => \A t \in 1 .. n : t < h.job.turn => <<t, 1>> \in rd
    /\ lt = {}
InTurn == version = 1 /\ faults = 0 => InTurnOK(said, read, late, queue, hand[Mine])

Awaited(q) == <<"digest", 0>> \in Requests(q)
Enough(rows) == Cardinality(Extract!Active(rows)) >= MinFacts
ShownOf(ds) == {d \in ds : d.status = "active"}
Telling(ds, rows) ==
    IF Enough(rows) THEN \E d \in ShownOf(ds) : d.line = Extract!LineOf(rows)
                    ELSE ShownOf(ds) = {}

\* One digest is shown, of facts that are enough for one.
DigestOK(ds, rows, h) ==
    /\ \A d \in ds : d = [anchor |-> d.anchor, line |-> d.line, status |-> d.status]
    /\ \A d, e \in ShownOf(ds) : d = e
    /\ ShownOf(ds) # {} => Enough(rows)
    /\ h.at = "digest" =>
           /\ Enough(rows) /\ h.line = Extract!LineOf(rows)
           /\ \A d \in ShownOf(ds) : d.anchor # h.anchor => d.anchor \in h.drop

\* It tells the facts, or a job that will see to it is in the queue, or the
\* job at hand will ask for one, or an interrupted job that runs again will.
AsksLater(h, v) == h.at \in {"emit", "ask"} /\ Heard[h.job.turn][v] # <<>>
Untold(n, rd) == \E t \in 1 .. n : <<t, 1>> \notin rd /\ Heard[t][1] # <<>>
Fresh ==
    ~unasked /\ (faults = 0 \/ version = 1) =>
        \/ Telling(digests, facts) \/ Awaited(queue) \/ AsksLater(hand[Mine], version)
        \/ faults # 0 /\ Untold(said, read)

DigestInv == DigestOK(digests, facts, hand[Mine]) /\ Fresh

JobsInv == JobsTyped /\ JobsQueued /\ Reading /\ InTurn /\ DigestInv

-----------------------------------------------------------------------------
(* What a step of the jobs does to the queue *)

LEMMA AskedOK ==
    ASSUME NEW q, NEW h, NEW n \in Nat, QueueOK(q, h, n), NEW k \in Nat, n <= k,
           NEW task \in JobTasks, NEW t \in Nat,
           task = "extract" => t \in 1 .. k, task = "digest" => t = 0
    PROVE  LET e == Extract!Enqueue(q, task, t) IN
           QueueOK(e, h, k) /\ Asks(q, e, task, t)
<1> DEFINE e == Extract!Enqueue(q, task, t)
<1>1. q \in Seq(QueuedJob) /\ JobsOnce(q)
  BY DEF QueueOK
<1>2. Asks(q, e, task, t)
  BY <1>1, EnqueuedHas
<1> HIDE DEF e
<1>3. e \in Seq(QueuedJob) /\ JobsOnce(e) /\ Requests(e) = Requests(q) \cup {<<task, t>>}
  BY <1>2 DEF Asks
<1>4. ASSUME NEW u, <<"extract", u>> \in Requests(e) PROVE u \in 1 .. k
  <2>1. CASE <<"extract", u>> \in Requests(q)
    <3>1. u \in 1 .. n
      BY <2>1 DEF QueueOK
    <3> QED
      BY <3>1
  <2>2. CASE <<"extract", u>> = <<task, t>>
    BY <2>2
  <2> QED
    BY <1>3, <1>4, <2>1, <2>2
<1>5. ASSUME NEW u, <<"digest", u>> \in Requests(e) PROVE u = 0
  <2>1. CASE <<"digest", u>> \in Requests(q)
    BY <2>1 DEF QueueOK
  <2>2. CASE <<"digest", u>> = <<task, t>>
    BY <2>2
  <2> QED
    BY <1>3, <1>5, <2>1, <2>2
<1>6. h # Extract!Idle => <<h.job.task, h.job.turn>> \in Requests(e)
  BY <1>3 DEF QueueOK
<1>7. QueueOK(e, h, k)
  BY <1>3, <1>4, <1>5, <1>6 DEF QueueOK
<1> QED
  BY <1>2, <1>7 DEF e

LEMMA ServedOK ==
    ASSUME NEW q, NEW h, NEW n, QueueOK(q, h, n), NEW job
    PROVE  LET o == Extract!Done(q, job) IN
           QueueOK(o, Extract!Idle, n) /\ Serves(q, o, job.task, job.turn)
<1> DEFINE o == Extract!Done(q, job)
<1>1. q \in Seq(QueuedJob) /\ JobsOnce(q)
  BY DEF QueueOK
<1>2. Serves(q, o, job.task, job.turn)
  BY <1>1, ServedHas
<1> HIDE DEF o
<1>3. o \in Seq(QueuedJob) /\ JobsOnce(o) /\ Requests(o) \subseteq Requests(q)
  BY <1>2 DEF Serves
<1>4. QueueOK(o, Extract!Idle, n)
  BY <1>3 DEF QueueOK
<1> QED
  BY <1>2, <1>4 DEF o

LEMMA AlikeOK ==
    ASSUME NEW q, NEW h, NEW n, QueueOK(q, h, n), NEW p, Alike(q, p), NEW g,
           g # Extract!Idle => <<g.job.task, g.job.turn>> \in Requests(q)
    PROVE  QueueOK(p, g, n)
BY AlikeHas DEF QueueOK, Alike

\* The turns that wait keep their jobs and their order.
LEMMA ReadingAsked ==
    ASSUME NEW n, NEW rows, NEW rd, NEW lt, NEW q, NEW h, ReadingOK(n, rows, rd, lt, q, h),
           NEW e, NEW t, Asks(q, e, "digest", t)
    PROVE  ReadingOK(n, rows, rd, lt, e, h)
<1>1. Requests(e) = Requests(q) \cup {<<"digest", t>>}
  BY DEF Asks
<1>2. \A u \in 1 .. n : <<u, 1>> \notin rd => <<"extract", u>> \in Requests(e)
  BY <1>1 DEF ReadingOK
<1>3. ASSUME NEW u PROVE <<"reextract", u>> \notin Requests(e)
  <2>1. <<"reextract", u>> \notin Requests(q)
    BY DEF ReadingOK
  <2>2. <<"reextract", u>> # <<"digest", t>>
    OBVIOUS
  <2> QED
    BY <1>1, <2>1, <2>2
<1> QED
  BY <1>2, <1>3 DEF ReadingOK

LEMMA ReadingServed ==
    ASSUME NEW n, NEW rows, NEW rd, NEW lt, NEW q, NEW h, ReadingOK(n, rows, rd, lt, q, h),
           NEW o, NEW task, NEW t, Serves(q, o, task, t), task = "extract" => <<t, 1>> \in rd
    PROVE  ReadingOK(n, rows, rd, lt, o, Extract!Idle)
<1>1. Requests(o) = Requests(q) \ {<<task, t>>}
  BY DEF Serves
<1>2. ASSUME NEW u \in 1 .. n, <<u, 1>> \notin rd PROVE <<"extract", u>> \in Requests(o)
  <2>1. <<"extract", u>> \in Requests(q)
    BY <1>2 DEF ReadingOK
  <2>2. <<"extract", u>> # <<task, t>>
    BY <1>2
  <2> QED
    BY <1>1, <2>1, <2>2
<1>3. ASSUME NEW u PROVE <<"reextract", u>> \notin Requests(o)
  <2>1. <<"reextract", u>> \notin Requests(q)
    BY DEF ReadingOK
  <2> QED
    BY <1>1, <2>1
<1>4. Extract!Idle.at = "idle"
  BY DEF Extract!Idle
<1> QED
  BY <1>2, <1>3, <1>4 DEF ReadingOK

LEMMA InTurnServed ==
    ASSUME NEW n, NEW rd, NEW lt, NEW q, NEW h, InTurnOK(n, rd, lt, q, h),
           NEW o, NEW task, NEW t, Serves(q, o, task, t),
           h # Extract!Idle => <<h.job.task, h.job.turn>> = <<task, t>>
    PROVE  InTurnOK(n, rd, lt, o, Extract!Idle)
<1>1. Ascending(o)
  BY DEF Serves, InTurnOK
<1>2. ASSUME NEW i \in DOMAIN o, o[i].running PROVE FALSE
  <2>1. PICK k \in DOMAIN q : o[i] = q[k] /\ <<q[k].task, q[k].turn>> # <<task, t>>
    BY DEF Serves
  <2>2. h # Extract!Idle /\ <<q[k].task, q[k].turn>> = <<h.job.task, h.job.turn>>
    BY <1>2, <2>1 DEF InTurnOK
  <2> QED
    BY <2>1, <2>2
<1>3. Extract!Idle.at = "idle"
  BY DEF Extract!Idle
<1> QED
  BY <1>1, <1>2, <1>3 DEF InTurnOK

-----------------------------------------------------------------------------
(* What a turn tells *)

LEMMA TellsOne ==
    ASSUME HeardOnce, NEW t \in Turns, NEW v \in Versions
    PROVE  /\ \A x \in Extract!ToSet(Heard[t][v]) : x \in Words
           /\ \A x, y \in Extract!ToSet(Heard[t][v]) : x[1] = y[1] => x = y
<1>1. /\ Heard[t][v] \in Seq(Words)
      /\ \A i, j \in DOMAIN Heard[t][v] :
            Heard[t][v][i][1] = Heard[t][v][j][1] => Heard[t][v][i] = Heard[t][v][j]
  BY DEF HeardOnce
<1>2. PICK s \in Seq(Words) : s = Heard[t][v]
  BY <1>1
<1>3. \A i \in DOMAIN s : s[i] \in Words
  OBVIOUS
<1>4. \A i, j \in DOMAIN s : s[i][1] = s[j][1] => s[i] = s[j]
  BY <1>1, <1>2
<1>5. \A x : x \in Extract!ToSet(s) <=> \E i \in DOMAIN s : x = s[i]
  BY DEF Extract!ToSet
<1> QED
  BY <1>2, <1>3, <1>4, <1>5

LEMMA TellsThat ==
    ASSUME HeardOnce, NEW t \in Turns, NEW x \in Extract!ToSet(Heard[t][1])
    PROVE  x \in Words /\ Tells(t, x[1]) = {x}
<1>1. 1 \in Versions
  BY DEF HeardOnce
<1> QED
  BY <1>1, TellsOne DEF Tells

\* One more item of a turn that is not read yet is told.
LEMMA TellMore ==
    ASSUME HeardOnce, NEW rows \in Seq(FactRow), OneRow(rows), OneActive(rows),
           NEW n \in Nat, NEW done, NEW excused, Believed(rows, n, done, excused),
           NEW k \in Turns, k \in (1 .. n) \ done,
           NEW left, ToldOf(rows, k, left),
           NEW x \in Extract!ToSet(Heard[k][1]), NEW rest,
           \A y \in Extract!ToSet(left) : y = x \/ y \in Extract!ToSet(rest)
    PROVE  LET new == Extract!StoreFact(rows, k, x) IN
           Believed(new, n, done, excused) /\ ToldOf(new, k, rest)
<1> DEFINE new == Extract!StoreFact(rows, k, x)
<1>1. x \in Words /\ Tells(k, x[1]) = {x}
  BY TellsThat
<1>2. /\ \A a : a # x[1] => Of(new, a) = Of(rows, a)
      /\ Values(new, x[1]) = {x}
  BY <1>1, StoredHas
<1> HIDE DEF new
<1>3. \A a : a # x[1] => Values(new, a) = Values(rows, a)
  BY <1>2 DEF Values
<1>4. Believed(new, n, done, excused)
  <2> SUFFICES ASSUME NEW t \in done, NEW a,
                      Tells(t, a) # {}, \A u \in done : t < u => Tells(u, a) = {},
                      \A u \in excused : Tells(u, a) = {}
               PROVE  \/ Values(new, a) = Tells(t, a)
                      \/ \E v \in (1 .. n) \ done : Tells(v, a) # {} /\ Values(new, a) = Tells(v, a)
    BY DEF Believed
  <2>1. CASE a = x[1]
    BY <1>1, <1>2, <2>1
  <2>2. CASE a # x[1]
    <3>1. Values(new, a) = Values(rows, a)
      BY <1>3, <2>2
    <3>2. \/ Values(rows, a) = Tells(t, a)
          \/ \E v \in (1 .. n) \ done : Tells(v, a) # {} /\ Values(rows, a) = Tells(v, a)
      BY DEF Believed
    <3> QED
      BY <3>1, <3>2
  <2> QED
    BY <2>1, <2>2
<1>5. ToldOf(new, k, rest)
  <2> SUFFICES ASSUME NEW y \in Extract!ToSet(Heard[k][1]), y \notin Extract!ToSet(rest)
               PROVE  Values(new, y[1]) = {y}
    BY DEF ToldOf
  <2>1. CASE y[1] = x[1]
    <3>1. y \in Tells(k, x[1])
      BY <2>1 DEF Tells
    <3> QED
      BY <1>1, <1>2, <2>1, <3>1
  <2>2. CASE y[1] # x[1]
    <3>1. y \notin Extract!ToSet(left)
      BY <2>2
    <3>2. Values(rows, y[1]) = {y}
      BY <3>1 DEF ToldOf
    <3> QED
      BY <1>3, <2>2, <3>2
  <2> QED
    BY <2>1, <2>2
<1> QED
  BY <1>4, <1>5 DEF new

\* The turn is read: late, if a later one was read before.
LEMMA TellAll ==
    ASSUME HeardOnce, NEW rows, NEW n \in Nat, NEW done, done \subseteq 1 .. n,
           NEW excused, Believed(rows, n, done, excused),
           NEW k \in Turns, k \in (1 .. n) \ done, ToldOf(rows, k, <<>>),
           NEW late1, late1 = IF \E u \in done : k < u THEN excused \cup {k} ELSE excused
    PROVE  Believed(rows, n, done \cup {k}, late1)
<1> SUFFICES ASSUME NEW t \in done \cup {k}, NEW a,
                    Tells(t, a) # {}, \A u \in done \cup {k} : t < u => Tells(u, a) = {},
                    \A u \in late1 : Tells(u, a) = {}
             PROVE  \/ Values(rows, a) = Tells(t, a)
                    \/ \E v \in (1 .. n) \ (done \cup {k}) :
                          Tells(v, a) # {} /\ Values(rows, a) = Tells(v, a)
  BY DEF Believed
<1>1. CASE t = k
  <2>1. PICK x : x \in Tells(k, a)
    BY <1>1
  <2>2. x \in Extract!ToSet(Heard[k][1]) /\ x[1] = a
    BY <2>1 DEF Tells
  <2>3. x \notin Extract!ToSet(<<>>)
    BY DEF Extract!ToSet
  <2>4. Values(rows, x[1]) = {x}
    BY <2>2, <2>3 DEF ToldOf
  <2>5. Tells(k, x[1]) = {x}
    BY <2>2, TellsThat
  <2> QED
    BY <1>1, <2>2, <2>4, <2>5
<1>2. CASE t # k
  <2>1. t \in done /\ t \in 1 .. n
    BY <1>2
  <2>2. Tells(k, a) = {}
    <3>1. CASE t < k
      BY <3>1
    <3>2. CASE k < t
      BY <2>1, <3>2
    <3> QED
      BY <1>2, <2>1, <3>1, <3>2
  <2>3. (\A u \in done : t < u => Tells(u, a) = {}) /\ \A u \in excused : Tells(u, a) = {}
    OBVIOUS
  <2>4. \/ Values(rows, a) = Tells(t, a)
        \/ \E v \in (1 .. n) \ done : Tells(v, a) # {} /\ Values(rows, a) = Tells(v, a)
    BY <2>1, <2>3 DEF Believed
  <2> QED
    BY <2>2, <2>4
<1> QED
  BY <1>1, <1>2

-----------------------------------------------------------------------------
(* The steps of the jobs *)

LEMMA OneRunner == ASSUME HeardOnce PROVE Extractors = {Mine} /\ Mine \in Extractors
BY DEF HeardOnce

LEMMA HandSet ==
    ASSUME HeardOnce, hand = [r \in Extractors |-> hand[Mine]],
           NEW x, hand' = [hand EXCEPT ![Mine] = x]
    PROVE  hand'[Mine] = x /\ hand' = [r \in Extractors |-> hand'[Mine]]
BY OneRunner

LEMMA IdleDigest ==
    ASSUME NEW ds, NEW rows, NEW h, DigestOK(ds, rows, h), NEW g, g.at # "digest"
    PROVE  DigestOK(ds, rows, g)
BY DEF DigestOK

LEMMA IdleIs == Extract!Idle.at = "idle"
BY DEF Extract!Idle

\* The first of a sequence and what follows it.
LEMMA FirstAndRest ==
    ASSUME NEW M, NEW s \in Seq(M), s # <<>>
    PROVE  /\ Head(s) \in Extract!ToSet(s) /\ Head(s) \in M /\ Tail(s) \in Seq(M)
           /\ \A x \in Extract!ToSet(s) : x = Head(s) \/ x \in Extract!ToSet(Tail(s))
           /\ \A x \in Extract!ToSet(Tail(s)) : x \in Extract!ToSet(s)
<1>1. DOMAIN s = 1 .. Len(s) /\ Len(s) \in Nat /\ Len(s) # 0 /\ 1 \in DOMAIN s
  OBVIOUS
<1>2. Head(s) = s[1] /\ Tail(s) \in Seq(M) /\ Len(Tail(s)) = Len(s) - 1
      /\ DOMAIN Tail(s) = 1 .. Len(s) - 1 /\ \A i \in 1 .. Len(s) - 1 : Tail(s)[i] = s[i + 1]
  BY <1>1
<1>3. \A x : x \in Extract!ToSet(s) <=> \E i \in DOMAIN s : x = s[i]
  BY DEF Extract!ToSet
<1>4. \A x : x \in Extract!ToSet(Tail(s)) <=> \E i \in DOMAIN Tail(s) : x = Tail(s)[i]
  BY DEF Extract!ToSet
<1>5. \A i \in DOMAIN s : s[i] \in M
  OBVIOUS
<1>6. ASSUME NEW i \in DOMAIN s, i # 1 PROVE s[i] \in Extract!ToSet(Tail(s))
  <2>1. i - 1 \in DOMAIN Tail(s) /\ (i - 1) + 1 = i
    BY <1>1, <1>2, <1>6
  <2>2. Tail(s)[i - 1] = s[i]
    BY <1>2, <2>1
  <2> QED
    BY <1>4, <2>1, <2>2
<1>7. ASSUME NEW i \in DOMAIN Tail(s) PROVE Tail(s)[i] \in Extract!ToSet(s)
  <2>1. i + 1 \in DOMAIN s /\ Tail(s)[i] = s[i + 1]
    BY <1>1, <1>2
  <2> QED
    BY <1>3, <2>1
<1>8. Head(s) \in Extract!ToSet(s) /\ Head(s) \in M
  BY <1>1, <1>2, <1>3, <1>5
<1>9. \A x \in Extract!ToSet(s) : x = Head(s) \/ x \in Extract!ToSet(Tail(s))
  BY <1>2, <1>3, <1>6
<1>10. \A x \in Extract!ToSet(Tail(s)) : x \in Extract!ToSet(s)
  BY <1>4, <1>7
<1> QED
  BY <1>2, <1>8, <1>9, <1>10

\* The digest reads every row that there is.
LEMMA RowsAll ==
    ASSUME NEW M, NEW rows \in Seq(M), facts = rows, RowLimit \in Int, Len(rows) <= RowLimit
    PROVE  Extract!RowsRead = facts
<1>1. SubSeq(rows, 1, Len(rows)) = rows
  OBVIOUS
<1>2. PICK n \in Nat : n = Len(rows)
  OBVIOUS
<1>3. (IF n < RowLimit THEN n ELSE RowLimit) = n
  BY <1>2
<1>4. PICK k : k = IF n < RowLimit THEN n ELSE RowLimit
  OBVIOUS
<1>5. Extract!RowsRead = SubSeq(facts, 1, k)
  BY <1>2, <1>4 DEF Extract!RowsRead
<1>6. k = n
  BY <1>3, <1>4
<1>7. SubSeq(rows, 1, n) = rows
  BY <1>1, <1>2
<1> QED
  BY <1>5, <1>6, <1>7, Zenon

LEMMA NothingToTell ==
    ASSUME HeardOnce, NEW h, facts \in Seq(FactRow), DigestOK(digests, facts, h)
    PROVE  /\ Extract!Pointless(facts) => Telling(digests, facts)
           /\ ~Extract!Pointless(facts) => Enough(facts)
<1>1. Extract!Shown = ShownOf(digests)
  BY DEF Extract!Shown, ShownOf
<1>2. Cardinality(Extract!Active(facts)) \in Nat /\ MinFacts \in Nat
  BY ActiveFinite, FS_CardinalityType DEF HeardOnce
<1>3. Extract!Cardinality(Extract!Active(facts)) = Cardinality(Extract!Active(facts))
  BY CountedAlike DEF SameSize
<1>4. Extract!Cardinality(Extract!Active(facts)) < MinFacts <=> ~Enough(facts)
  BY <1>2, <1>3 DEF Enough
<1>5. ~Enough(facts) => Telling(digests, facts)
  BY DEF DigestOK, Telling
<1>6. ASSUME Enough(facts),
             Extract!Shown = {[anchor |-> Extract!Anchor(facts), line |-> Extract!LineOf(facts),
                               status |-> "active"]}
      PROVE  Telling(digests, facts)
  <2> DEFINE d == [anchor |-> Extract!Anchor(facts), line |-> Extract!LineOf(facts),
                   status |-> "active"]
  <2>1. d.line = Extract!LineOf(facts)
    OBVIOUS
  <2>2. d \in ShownOf(digests)
    BY <1>1, <1>6
  <2> QED
    BY <1>6, <2>1, <2>2 DEF Telling
<1> QED
  BY <1>4, <1>5, <1>6 DEF Extract!Pointless

\* A job that waits and is the oldest, when there is any.
LEMMA OldestIs ==
    ASSUME queue \in Seq(QueuedJob), Extract!Pending # {}
    PROVE  /\ Extract!Oldest \in DOMAIN queue
           /\ \A k \in DOMAIN queue : ~queue[k].running => Extract!Oldest <= k
<1>1. Extract!Pending \in SUBSET Nat /\ Extract!Pending \subseteq DOMAIN queue
  BY DEF Extract!Pending
<1>2. \E i \in Extract!Pending : \A k \in Extract!Pending : i <= k
  BY <1>1, LeastNumber
<1>3. /\ Extract!Oldest \in Extract!Pending
      /\ \A k \in Extract!Pending : Extract!Oldest <= k
  BY <1>2 DEF Extract!Oldest
<1>4. \A k \in DOMAIN queue : ~queue[k].running => k \in Extract!Pending
  BY DEF Extract!Pending
<1> QED
  BY <1>1, <1>3, <1>4

\* The job at hand is put down, or taken up from the queue.
LEMMA ReadingAlike ==
    ASSUME NEW n, NEW rows, NEW rd, NEW lt, NEW q, NEW h, ReadingOK(n, rows, rd, lt, q, h),
           NEW p, Requests(p) = Requests(q), NEW g, g.at \notin {"emit", "ask"}
    PROVE  ReadingOK(n, rows, rd, lt, p, g)
BY DEF ReadingOK

LEMMA JobsStart == HeardOnce /\ Extract!Init => JobsInv
<1> SUFFICES ASSUME HeardOnce, Extract!Init PROVE JobsInv
  OBVIOUS
<1>1. /\ said = 0 /\ version = 1 /\ facts = <<>> /\ read = {} /\ queue = <<>>
      /\ hand = [r \in Extractors |-> Extract!Idle] /\ digests = {} /\ forgotten = {} /\ faults = 0
      /\ late = {} /\ unasked = FALSE
  BY DEF Extract!Init
<1>2. hand[Mine] = Extract!Idle /\ hand = [r \in Extractors |-> hand[Mine]]
  BY <1>1, OneRunner
<1>3. JobsTyped
  <2>1. <<>> \in Seq(FactRow) /\ OneRow(<<>>) /\ OneActive(<<>>)
    BY DEF OneRow, OneActive
  <2>2. HandOK(hand[Mine], version, said)
    BY <1>2 DEF HandOK
  <2>3. /\ Cardinality(Turns) \in Nat /\ 1 \in Versions /\ MaxFaults \in Nat
    BY DEF HeardOnce
  <2>4. 0 \in 0 .. Cardinality(Turns) /\ 0 \in 0 .. MaxFaults
    BY <2>3
  <2>5. read \subseteq (1 .. said) \X Versions
    BY <1>1
  <2> QED
    BY <1>1, <1>2, <2>1, <2>2, <2>3, <2>4, <2>5 DEF JobsTyped
<1>4. Requests(<<>>) = {} /\ Extract!Idle.at = "idle"
  BY IdleIs DEF Requests
<1>5. JobsQueued
  <2>1. QueueOK(<<>>, Extract!Idle, 0)
    BY <1>4 DEF QueueOK, JobsOnce
  <2> QED
    BY <1>1, <1>2, <2>1 DEF JobsQueued
<1>6. Reading
  <2>1. ReadOf({}, 0) = {} /\ 1 .. 0 = {}
    BY DEF ReadOf
  <2>2. Believed(facts, 0, ReadOf({}, 0), {})
    BY <2>1 DEF Believed
  <2>3. ReadingOK(0, facts, {}, {}, <<>>, Extract!Idle)
    BY <1>4, <2>1, <2>2 DEF ReadingOK
  <2> QED
    BY <1>1, <1>2, <2>3 DEF Reading
<1>7. InTurn
  <2>1. InTurnOK(0, {}, {}, <<>>, Extract!Idle)
    BY <1>4 DEF InTurnOK, Ascending
  <2> QED
    BY <1>1, <1>2, <2>1 DEF InTurn
<1>8. DigestInv
  <2>1. Cardinality({}) = 0 /\ MinFacts \in Nat \ {0}
    BY FS_EmptySet DEF HeardOnce
  <2>2. hand[Mine].at = "idle"
    BY <1>2, IdleIs
  <2>3. DigestOK(digests, facts, hand[Mine])
    BY <1>1, <2>2 DEF DigestOK, ShownOf
  <2>4. Extract!Active(<<>>) = {}
    BY DEF Extract!Active, Extract!ToSet
  <2>5. ~Enough(facts) /\ ShownOf(digests) = {}
    <3>1. Extract!Active(facts) = {}
      BY <1>1, <2>4
    <3>2. Cardinality(Extract!Active(facts)) = 0
      BY <2>1, <3>1
    <3>3. ~Enough(facts)
      BY <2>1, <3>2 DEF Enough
    <3> QED
      BY <1>1, <3>3 DEF ShownOf
  <2> QED
    BY <2>3, <2>5 DEF DigestInv, Fresh, Telling
<1> QED
  BY <1>3, <1>5, <1>6, <1>7, <1>8 DEF JobsInv

LEMMA NothingForgotten == ASSUME HeardOnce, JobsInv, Extract!Forget PROVE FALSE
<1>1. forgotten = {} /\ MaxForgets = 0
  BY DEF JobsInv, JobsTyped, HeardOnce
<1>2. Extract!Cardinality(forgotten) < MaxForgets
  BY DEF Extract!Forget
<1>3. Extract!Cardinality(forgotten) = Cardinality(forgotten)
  BY CountedAlike DEF SameSize
<1>4. Cardinality(forgotten) = 0
  BY <1>1, FS_EmptySet
<1> QED
  BY <1>1, <1>2, <1>3, <1>4

LEMMA SayStep == ASSUME HeardOnce, JobsInv, Extract!Say PROVE JobsInv'
<1>1. /\ said + 1 \in Turns /\ said' = said + 1
      /\ queue' = Extract!Enqueue(queue, "extract", said + 1)
      /\ version' = version /\ facts' = facts /\ read' = read /\ hand' = hand
      /\ digests' = digests /\ forgotten' = forgotten /\ faults' = faults
      /\ late' = late /\ unasked' = unasked
  BY DEF Extract!Say, Extract!history
<1>2. Cardinality(Turns) \in Nat /\ Turns = 1 .. Cardinality(Turns)
  BY DEF HeardOnce
<1>3. said \in Nat /\ read \subseteq (1 .. said) \X Versions
  BY <1>2 DEF JobsInv, JobsTyped
<1>4. PICK h : h = hand[Mine]
  OBVIOUS
<1>5. PICK n \in Nat, k \in Nat : n = said /\ k = n + 1 /\ k = said'
  BY <1>1, <1>3
<1>6. QueueOK(queue, h, n) /\ HandOK(h, version, n)
  BY <1>4, <1>5 DEF JobsInv, JobsQueued, JobsTyped
<1>7. JobsTyped'
  <2>1. said + 1 \in 0 .. Cardinality(Turns) /\ said' \in 0 .. Cardinality(Turns)
    BY <1>1, <1>2, <1>3
  <2>2. 1 .. n \subseteq 1 .. k
    BY <1>5
  <2>3. read' \subseteq (1 .. said') \X Versions
    BY <1>1, <1>3, <1>5, <2>2
  <2>4. HandOK(h, version, k)
    BY <1>6, <2>2 DEF HandOK
  <2> QED
    BY <1>1, <1>4, <1>5, <2>1, <2>3, <2>4 DEF JobsInv, JobsTyped
<1>8. QueueOK(queue', h, k) /\ Asks(queue, queue', "extract", k)
  <2>1. k \in 1 .. k /\ n <= k /\ "extract" \in JobTasks
    BY <1>5 DEF JobTasks
  <2> QED
    BY <1>1, <1>5, <1>6, <2>1, AskedOK
<1>9. JobsQueued'
  BY <1>1, <1>4, <1>5, <1>8 DEF JobsQueued
<1>10. Requests(queue') = Requests(queue) \cup {<<"extract", k>>}
  BY <1>8 DEF Asks
<1>11. \A t \in 1 .. k : <<t, 1>> \in read => t \in 1 .. n
  BY <1>3, <1>5
<1>12. Reading'
  <2> SUFFICES ASSUME version = 1 PROVE ReadingOK(k, facts, read, late, queue', h)
    BY <1>1, <1>4, <1>5 DEF Reading
  <2>1. ReadingOK(n, facts, read, late, queue, h)
    BY <1>4, <1>5 DEF JobsInv, Reading
  <2>2. ASSUME NEW t \in 1 .. k, <<t, 1>> \notin read PROVE <<"extract", t>> \in Requests(queue')
    <3>1. CASE t = k
      BY <1>10, <3>1
    <3>2. CASE t # k
      <4>1. t \in 1 .. n
        BY <1>5, <3>2
      <4> QED
        BY <1>10, <2>1, <2>2, <4>1 DEF ReadingOK
    <3> QED
      BY <3>1, <3>2
  <2>3. ASSUME NEW t PROVE <<"reextract", t>> \notin Requests(queue')
    <3>1. <<"reextract", t>> \notin Requests(queue) /\ <<"reextract", t>> # <<"extract", k>>
      BY <2>1 DEF ReadingOK
    <3> QED
      BY <1>10, <3>1
  <2>4. ReadOf(read, k) = ReadOf(read, n)
    BY <1>5, <1>11 DEF ReadOf
  <2>5. Believed(facts, k, ReadOf(read, k), late)
    <3>1. Believed(facts, n, ReadOf(read, n), late)
      BY <2>1 DEF ReadingOK
    <3>2. (1 .. n) \ ReadOf(read, n) \subseteq (1 .. k) \ ReadOf(read, k)
      BY <1>5, <2>4
    <3> QED
      BY <2>4, <3>1, <3>2 DEF Believed
  <2> QED
    BY <2>1, <2>2, <2>3, <2>5 DEF ReadingOK
<1>13. InTurn'
  <2> SUFFICES ASSUME version = 1, faults = 0 PROVE InTurnOK(k, read, late, queue', h)
    BY <1>1, <1>4, <1>5 DEF InTurn
  <2>1. InTurnOK(n, read, late, queue, h)
    BY <1>4, <1>5 DEF JobsInv, InTurn
  <2>2. Ascending(queue')
    <3>1. ASSUME NEW i \in DOMAIN queue, queue[i].task = "extract" PROVE queue[i].turn < k
      <4>1. <<"extract", queue[i].turn>> \in Requests(queue)
        BY <3>1 DEF Requests
      <4>2. queue[i].turn \in 1 .. n
        BY <1>6, <4>1 DEF QueueOK
      <4> QED
        BY <1>5, <4>2
    <3> QED
      BY <1>8, <2>1, <3>1 DEF Asks, InTurnOK
  <2>3. \A i \in DOMAIN queue' : queue'[i].running =>
           h # Extract!Idle /\ <<queue'[i].task, queue'[i].turn>> = <<h.job.task, h.job.turn>>
    BY <1>8, <2>1 DEF Asks, InTurnOK
  <2>4. ASSUME NEW t \in 1 .. k, NEW u \in 1 .. k, <<u, 1>> \in read, t < u PROVE <<t, 1>> \in read
    <3>1. u \in 1 .. n /\ t \in 1 .. n
      BY <1>5, <1>11, <2>4
    <3> QED
      BY <2>1, <2>4, <3>1 DEF InTurnOK
  <2>5. ASSUME h.at = "emit", NEW t \in 1 .. k, t < h.job.turn PROVE <<t, 1>> \in read
    <3>1. h # Extract!Idle /\ h.job.task = "extract"
      BY <1>6, <2>5, IdleIs DEF HandOK
    <3>2. h.job.turn \in 1 .. n
      BY <1>6, <3>1 DEF QueueOK
    <3>3. t \in 1 .. n
      BY <1>5, <2>5, <3>2
    <3> QED
      BY <2>1, <2>5, <3>3 DEF InTurnOK
  <2> QED
    BY <2>1, <2>2, <2>3, <2>4, <2>5 DEF InTurnOK
<1>14. DigestInv'
  <2>1. Awaited(queue) => Awaited(queue')
    BY <1>10 DEF Awaited
  <2>2. Untold(said, read) => Untold(said', read)
    <3>1. 1 .. n \subseteq 1 .. k
      BY <1>5
    <3> QED
      BY <1>5, <3>1 DEF Untold
  <2> QED
    BY <1>1, <2>1, <2>2 DEF JobsInv, DigestInv, Fresh
<1> QED
  BY <1>7, <1>9, <1>12, <1>13, <1>14 DEF JobsInv

LEMMA UpgradeStep == ASSUME HeardOnce, JobsInv, Extract!Upgrade PROVE JobsInv'
<1>1. /\ \A r \in Extractors : hand[r] = Extract!Idle
      /\ version + 1 \in Versions /\ version' = version + 1
      /\ said' = said /\ facts' = facts /\ read' = read /\ queue' = queue /\ hand' = hand
      /\ digests' = digests /\ forgotten' = forgotten /\ faults' = faults
      /\ late' = late /\ unasked' = unasked
  BY DEF Extract!Upgrade, Extract!history
<1>2. hand[Mine] = Extract!Idle
  BY <1>1, OneRunner
<1>3. version \in Nat \ {0}
  BY DEF HeardOnce, JobsInv, JobsTyped
<1>4. version' # 1
  BY <1>1, <1>3
<1>5. JobsTyped'
  <2>1. HandOK(hand'[Mine], version', said')
    BY <1>1, <1>2 DEF HandOK
  <2> QED
    BY <1>1, <2>1 DEF JobsInv, JobsTyped
<1>6. JobsQueued'
  BY <1>1 DEF JobsInv, JobsQueued
<1>7. Reading' /\ InTurn'
  BY <1>4 DEF Reading, InTurn
<1>8. DigestInv'
  <2>1. ~AsksLater(hand[Mine], version)
    BY <1>2, IdleIs DEF AsksLater
  <2> QED
    BY <1>1, <1>4, <2>1 DEF JobsInv, DigestInv, Fresh
<1> QED
  BY <1>5, <1>6, <1>7, <1>8 DEF JobsInv

\* While the first extractor runs, each turn it has not read has its job.
LEMMA NoneMissing == ASSUME HeardOnce, JobsInv, version = 1 PROVE ~Extract!Schedule
<1> SUFFICES ASSUME Extract!Schedule PROVE FALSE
  OBVIOUS
<1>1. PICK t \in Extract!Unread :
          \A i \in DOMAIN queue : queue[i].task = "extract" => queue[i].turn # t
  BY DEF Extract!Schedule
<1>2. t \in 1 .. said /\ <<t, 1>> \notin read
  BY <1>1 DEF Extract!Unread
<1>3. <<"extract", t>> \in Requests(queue)
  BY <1>2 DEF JobsInv, Reading, ReadingOK
<1> QED
  BY <1>1, <1>3 DEF Requests

LEMMA ScheduleStep == ASSUME HeardOnce, JobsInv, Extract!Schedule PROVE JobsInv'
<1>1. /\ queue' = Extract!Enqueue(queue, "reextract", 0)
      /\ said' = said /\ version' = version /\ facts' = facts /\ read' = read /\ hand' = hand
      /\ digests' = digests /\ forgotten' = forgotten /\ faults' = faults
      /\ late' = late /\ unasked' = unasked
  BY DEF Extract!Schedule, Extract!history
<1>2. version # 1
  BY NoneMissing
<1>3. said \in Nat /\ QueueOK(queue, hand[Mine], said)
  BY DEF JobsInv, JobsTyped, JobsQueued, HeardOnce
<1>4. QueueOK(queue', hand[Mine], said) /\ Asks(queue, queue', "reextract", 0)
  <2>1. "reextract" \in JobTasks /\ 0 \in Nat /\ said <= said
    BY <1>3 DEF JobTasks
  <2> QED
    BY <1>1, <1>3, <2>1, AskedOK
<1>5. JobsTyped' /\ JobsQueued'
  BY <1>1, <1>4 DEF JobsInv, JobsTyped, JobsQueued
<1>6. Reading' /\ InTurn'
  BY <1>1, <1>2 DEF Reading, InTurn
<1>7. DigestInv'
  <2>1. Awaited(queue) => Awaited(queue')
    BY <1>4 DEF Awaited, Asks
  <2> QED
    BY <1>1, <2>1 DEF JobsInv, DigestInv, Fresh
<1> QED
  BY <1>5, <1>6, <1>7 DEF JobsInv

\* The job stays in the queue; what it had not told is told when it runs again.
LEMMA InterruptStep ==
    ASSUME HeardOnce, JobsInv, NEW r \in Extractors, Extract!Interrupt(r) PROVE JobsInv'
<1>0. r = Mine
  BY OneRunner
<1>1. PICK h : h = hand[Mine]
  OBVIOUS
<1>2. /\ faults < MaxFaults /\ h # Extract!Idle /\ faults' = faults + 1
      /\ hand' = [hand EXCEPT ![Mine] = Extract!Idle]
      /\ unasked' = (unasked \/ h.at = "ask")
      /\ said' = said /\ version' = version /\ facts' = facts /\ read' = read
      /\ queue' = queue /\ digests' = digests /\ forgotten' = forgotten /\ late' = late
  BY <1>0, <1>1 DEF Extract!Interrupt
<1>3. hand'[Mine] = Extract!Idle /\ hand' = [q \in Extractors |-> hand'[Mine]]
  BY <1>2, HandSet DEF JobsInv, JobsTyped
<1>4. MaxFaults \in Nat /\ faults \in Nat
  BY DEF HeardOnce, JobsInv, JobsTyped
<1>5. JobsTyped'
  <2>1. HandOK(hand'[Mine], version', said')
    BY <1>3 DEF HandOK
  <2>2. faults' \in 0 .. MaxFaults
    BY <1>2, <1>4 DEF JobsInv, JobsTyped
  <2>3. unasked' \in BOOLEAN
    BY <1>2
  <2> QED
    BY <1>2, <1>3, <2>1, <2>2, <2>3 DEF JobsInv, JobsTyped
<1>6. QueueOK(queue, h, said) /\ HandOK(h, version, said)
  BY <1>1 DEF JobsInv, JobsQueued, JobsTyped
<1>7. JobsQueued'
  <2>1. QueueOK(queue, Extract!Idle, said)
    BY <1>6 DEF QueueOK
  <2> QED
    BY <1>2, <1>3, <2>1 DEF JobsQueued
<1>8. Reading'
  <2>1. Extract!Idle.at \notin {"emit", "ask"}
    BY IdleIs
  <2> QED
    BY <1>1, <1>2, <1>3, <2>1, ReadingAlike DEF JobsInv, Reading
<1>9. faults' # 0
  BY <1>2, <1>4
<1>10. InTurn'
  BY <1>9 DEF InTurn
<1>11. DigestInv'
  <2>1. DigestOK(digests, facts, hand'[Mine])
    BY <1>3, IdleDigest, IdleIs DEF JobsInv, DigestInv
  <2>2. Fresh'
    <3> SUFFICES ASSUME ~unasked', version = 1
                 PROVE  Telling(digests, facts) \/ Awaited(queue) \/ Untold(said, read)
      BY <1>2, <1>9 DEF Fresh
    <3>1. ~unasked /\ h.at # "ask"
      BY <1>2 DEF JobsInv, JobsTyped
    <3>2. CASE AsksLater(h, version)
      <4>1. h.at = "emit" /\ Heard[h.job.turn][1] # <<>>
        BY <3>1, <3>2 DEF AsksLater
      <4>2. h.job.task = "extract"
        BY <1>2, <1>6, <4>1 DEF HandOK
      <4>3. h.job.turn \in 1 .. said
        BY <1>2, <1>6, <4>2 DEF QueueOK
      <4>4. <<h.job.turn, 1>> \notin read
        BY <1>1, <4>1 DEF JobsInv, Reading, ReadingOK
      <4> QED
        BY <4>1, <4>3, <4>4 DEF Untold
    <3>3. CASE ~AsksLater(h, version)
      BY <1>1, <3>1, <3>3 DEF JobsInv, DigestInv, Fresh
    <3> QED
      BY <3>2, <3>3
  <2> QED
    BY <1>2, <2>1, <2>2 DEF DigestInv
<1> QED
  BY <1>5, <1>7, <1>8, <1>10, <1>11 DEF JobsInv

LEMMA ReclaimStep ==
    ASSUME HeardOnce, JobsInv, NEW r \in Extractors, Extract!Reclaim(r) PROVE JobsInv'
<1>0. r = Mine
  BY OneRunner
<1>1. /\ hand[Mine] = Extract!Idle
      /\ said' = said /\ version' = version /\ facts' = facts /\ read' = read /\ hand' = hand
      /\ digests' = digests /\ forgotten' = forgotten /\ faults' = faults
      /\ late' = late /\ unasked' = unasked
  BY <1>0 DEF Extract!Reclaim, Extract!history
<1>2. PICK expired : queue' = [i \in DOMAIN queue |->
                        IF i \in expired THEN [queue[i] EXCEPT !.running = FALSE] ELSE queue[i]]
  BY DEF Extract!Reclaim
<1>3. QueueOK(queue, Extract!Idle, said)
  BY <1>1 DEF JobsInv, JobsQueued
<1>4. Alike(queue, queue') /\ \A i \in DOMAIN queue' : queue'[i].running => queue[i].running
  <2>1. PICK q \in Seq(QueuedJob) : q = queue
    BY <1>3 DEF QueueOK
  <2>2. queue' = [i \in DOMAIN q |-> IF i \in expired THEN [q[i] EXCEPT !.running = FALSE] ELSE q[i]]
    BY <1>2, <2>1
  <2>3. Alike(q, queue') /\ \A i \in DOMAIN queue' : queue'[i].running => q[i].running
    BY <2>2, GivenUp
  <2> QED
    BY <2>1, <2>3
<1>5. Requests(queue') = Requests(queue) /\ (Ascending(queue) => Ascending(queue'))
  BY <1>4, AlikeHas
<1>6. JobsTyped'
  BY <1>1 DEF JobsInv, JobsTyped
<1>7. JobsQueued'
  <2>1. QueueOK(queue', Extract!Idle, said)
    BY <1>3, <1>4, AlikeOK
  <2> QED
    BY <1>1, <2>1 DEF JobsQueued
<1>8. Reading'
  <2>1. hand[Mine].at \notin {"emit", "ask"}
    BY <1>1, IdleIs
  <2> QED
    BY <1>1, <1>5, <2>1, ReadingAlike DEF JobsInv, Reading
<1>9. InTurn'
  <2> SUFFICES ASSUME version = 1, faults = 0 PROVE InTurnOK(said, read, late, queue', hand[Mine])
    BY <1>1 DEF InTurn
  <2>1. InTurnOK(said, read, late, queue, hand[Mine])
    BY DEF JobsInv, InTurn
  <2>2. \A i \in DOMAIN queue' : ~queue'[i].running
    <3>1. DOMAIN queue' = DOMAIN queue
      BY <1>4 DEF Alike
    <3> QED
      BY <1>1, <1>4, <2>1, <3>1 DEF InTurnOK
  <2> QED
    BY <1>5, <2>1, <2>2 DEF InTurnOK
<1>10. DigestInv'
  <2>1. Awaited(queue') <=> Awaited(queue)
    BY <1>5 DEF Awaited
  <2> QED
    BY <1>1, <2>1 DEF JobsInv, DigestInv, Fresh
<1> QED
  BY <1>6, <1>7, <1>8, <1>9, <1>10 DEF JobsInv

\* What a claim does to the queue: the oldest job runs, and it is at hand.
LEMMA Claimed ==
    ASSUME queue \in Seq(QueuedJob), Extract!Pending # {},
           NEW k, k = Extract!Oldest,
           NEW p, p = [queue EXCEPT ![Extract!Oldest].running = TRUE]
    PROVE  /\ k \in DOMAIN queue /\ queue[k] \in QueuedJob
           /\ <<queue[k].task, queue[k].turn>> \in Requests(queue)
           /\ \A i \in DOMAIN queue : ~queue[i].running => k <= i
           /\ Alike(queue, p) /\ Requests(p) = Requests(queue)
           /\ \A i \in DOMAIN p : p[i].running => i = k \/ queue[i].running
<1>1. k \in DOMAIN queue /\ \A i \in DOMAIN queue : ~queue[i].running => k <= i
  BY OldestIs
<1>2. PICK q \in Seq(QueuedJob) : q = queue
  OBVIOUS
<1>3. Alike(q, p) /\ \A i \in DOMAIN p : p[i].running => i = k \/ q[i].running
  BY <1>1, <1>2, TakenUp
<1>4. Requests(p) = Requests(q)
  BY <1>3, AlikeHas
<1>5. q[k] \in QueuedJob /\ <<q[k].task, q[k].turn>> \in Requests(q)
  BY <1>1, <1>2 DEF Requests
<1> QED
  BY <1>1, <1>2, <1>3, <1>4, <1>5

LEMMA InTurnTaken ==
    ASSUME NEW n, NEW rd, NEW lt, NEW q, InTurnOK(n, rd, lt, q, Extract!Idle),
           NEW k \in DOMAIN q, NEW p, Alike(q, p),
           \A i \in DOMAIN p : p[i].running => i = k \/ q[i].running,
           NEW g, g # Extract!Idle, g.job = q[k],
           g.at = "emit" => \A t \in 1 .. n : t < g.job.turn => <<t, 1>> \in rd
    PROVE  InTurnOK(n, rd, lt, p, g)
<1>1. Ascending(p)
  BY AlikeHas DEF InTurnOK
<1>2. DOMAIN p = DOMAIN q /\ \A i \in DOMAIN q : p[i].task = q[i].task /\ p[i].turn = q[i].turn
  BY DEF Alike
<1>3. \A i \in DOMAIN q : ~q[i].running
  BY DEF InTurnOK
<1>4. \A i \in DOMAIN p : p[i].running => <<p[i].task, p[i].turn>> = <<g.job.task, g.job.turn>>
  BY <1>2, <1>3
<1> QED
  BY <1>1, <1>4 DEF InTurnOK

\* A turn that was read is done with, another is begun.
LEMMA ClaimExtractStep ==
    ASSUME HeardOnce, JobsInv, NEW r \in Extractors, Extract!ClaimExtract(r) PROVE JobsInv'
<1>0. r = Mine
  BY OneRunner
<1>1. /\ hand[Mine] = Extract!Idle /\ Extract!Pending # {}
      /\ queue[Extract!Oldest].task = "extract"
  BY <1>0 DEF Extract!ClaimExtract, Extract!CanClaim
<1>2. JobsTyped /\ QueueOK(queue, Extract!Idle, said) /\ hand[Mine].at = "idle"
  BY <1>1, IdleIs DEF JobsInv, JobsQueued
<1>3. PICK k, job : k = Extract!Oldest /\ job = queue[k]
  OBVIOUS
<1>4. /\ k \in DOMAIN queue /\ job \in QueuedJob
      /\ <<job.task, job.turn>> \in Requests(queue)
      /\ \A i \in DOMAIN queue : ~queue[i].running => k <= i
  BY <1>1, <1>2, <1>3, Claimed DEF QueueOK
<1>5. job.task = "extract" /\ job.turn \in 1 .. said /\ said \in Nat
  BY <1>1, <1>2, <1>3, <1>4 DEF QueueOK, JobsTyped, HeardOnce
<1>6. /\ said' = said /\ version' = version /\ facts' = facts /\ read' = read
      /\ digests' = digests /\ forgotten' = forgotten /\ faults' = faults
      /\ late' = late /\ unasked' = unasked
  BY DEF Extract!ClaimExtract, Extract!history
<1>7. DigestOK(digests, facts, hand[Mine]) /\ Fresh
  BY DEF JobsInv, DigestInv
<1>8. CASE Extract!AlreadyRead(job.turn)
  <2>1. queue' = Extract!Done(queue, job) /\ hand' = hand
    BY <1>0, <1>3, <1>8 DEF Extract!ClaimExtract
  <2>2. QueueOK(queue', Extract!Idle, said) /\ Serves(queue, queue', job.task, job.turn)
    BY <1>2, <2>1, ServedOK
  <2>3. JobsTyped' /\ JobsQueued'
    BY <1>1, <1>2, <1>6, <2>1, <2>2 DEF JobsTyped, JobsQueued
  <2>4. <<job.turn, version>> \in read
    BY <1>5, <1>8 DEF Extract!AlreadyRead, Extract!Unread
  <2>5. Reading'
    <3> SUFFICES ASSUME version = 1
                 PROVE  ReadingOK(said, facts, read, late, queue', Extract!Idle)
      BY <1>1, <1>6, <2>1 DEF Reading
    <3>1. ReadingOK(said, facts, read, late, queue, Extract!Idle)
      BY <1>1 DEF JobsInv, Reading
    <3> QED
      BY <2>2, <2>4, <3>1, ReadingServed
  <2>6. InTurn'
    <3> SUFFICES ASSUME version = 1, faults = 0
                 PROVE  InTurnOK(said, read, late, queue', Extract!Idle)
      BY <1>1, <1>6, <2>1 DEF InTurn
    <3>1. InTurnOK(said, read, late, queue, Extract!Idle)
      BY <1>1 DEF JobsInv, InTurn
    <3> QED
      BY <2>2, <3>1, InTurnServed
  <2>7. DigestInv'
    <3>1. Awaited(queue) => Awaited(queue')
      BY <1>5, <2>2 DEF Awaited, Serves
    <3> QED
      BY <1>6, <1>7, <2>1, <3>1 DEF DigestInv, Fresh
  <2> QED
    BY <2>3, <2>5, <2>6, <2>7 DEF JobsInv
<1>9. CASE ~Extract!AlreadyRead(job.turn)
  <2> DEFINE h == [at |-> "emit", job |-> job, left |-> Extract!Items(job.turn)]
  <2>1. /\ queue' = [queue EXCEPT ![Extract!Oldest].running = TRUE]
        /\ hand' = [hand EXCEPT ![Mine] = h]
    BY <1>0, <1>3, <1>9 DEF Extract!ClaimExtract
  <2>2. hand'[Mine] = h /\ hand' = [q \in Extractors |-> hand'[Mine]]
    <3> HIDE DEF h
    <3> QED
      BY <1>2, <2>1, HandSet DEF JobsTyped
  <2>3. h.at = "emit" /\ h.job = job /\ h.left = Heard[job.turn][version] /\ h # Extract!Idle
    BY DEF Extract!Items, Extract!Idle
  <2>4. job.turn \in Turns /\ version \in Versions
    BY <1>2, <1>5 DEF JobsTyped, HeardOnce
  <2>5. Heard[job.turn][version] \in Seq(Words)
    BY <2>4 DEF HeardOnce
  <2>6. h = [at |-> h.at, job |-> h.job, left |-> h.left]
    BY <2>3
  <2> HIDE DEF h
  <2>7. HandOK(h, version, said)
    BY <1>4, <1>5, <2>3, <2>5, <2>6 DEF HandOK
  <2>8. JobsTyped'
    BY <1>2, <1>6, <2>2, <2>7 DEF JobsTyped
  <2>9. /\ Alike(queue, queue') /\ Requests(queue') = Requests(queue)
        /\ \A i \in DOMAIN queue' : queue'[i].running => i = k \/ queue[i].running
    BY <1>1, <1>2, <1>3, <2>1, Claimed DEF QueueOK
  <2>10. JobsQueued'
    <3>1. QueueOK(queue', h, said)
      BY <1>2, <1>4, <2>3, <2>9, AlikeOK
    <3> QED
      BY <1>6, <2>2, <3>1 DEF JobsQueued
  <2>11. <<job.turn, version>> \notin read
    BY <1>9 DEF Extract!AlreadyRead, Extract!Unread
  <2>12. Reading'
    <3> SUFFICES ASSUME version = 1 PROVE ReadingOK(said, facts, read, late, queue', h)
      BY <1>6, <2>2 DEF Reading
    <3>1. ReadingOK(said, facts, read, late, queue, hand[Mine])
      BY DEF JobsInv, Reading
    <3>2. ToldOf(facts, job.turn, h.left)
      BY <2>3 DEF ToldOf
    <3> QED
      BY <2>3, <2>9, <2>11, <3>1, <3>2 DEF ReadingOK
  <2>13. InTurn'
    <3> SUFFICES ASSUME version = 1, faults = 0 PROVE InTurnOK(said, read, late, queue', h)
      BY <1>6, <2>2 DEF InTurn
    <3>1. InTurnOK(said, read, late, queue, Extract!Idle)
      BY <1>1 DEF JobsInv, InTurn
    <3>2. ASSUME NEW t \in 1 .. said, t < job.turn PROVE <<t, 1>> \in read
      <4>1. SUFFICES ASSUME <<t, 1>> \notin read PROVE FALSE
        OBVIOUS
      <4>2. <<"extract", t>> \in Requests(queue)
        BY <4>1 DEF JobsInv, Reading, ReadingOK
      <4>3. PICK i \in DOMAIN queue : queue[i].task = "extract" /\ queue[i].turn = t
        BY <4>2 DEF Requests
      <4>4. k <= i
        BY <1>4, <3>1 DEF InTurnOK
      <4>5. k # i /\ i \in Nat /\ k \in Nat
        BY <1>2, <1>3, <1>4, <1>5, <3>2, <4>3 DEF QueueOK
      <4>6. k < i
        BY <4>4, <4>5
      <4>7. queue[k].turn < queue[i].turn
        BY <1>3, <1>4, <1>5, <3>1, <4>3, <4>6 DEF InTurnOK, Ascending
      <4> QED
        BY <1>3, <1>5, <3>2, <4>3, <4>7
    <3> QED
      BY <1>3, <1>4, <2>3, <2>9, <3>1, <3>2, InTurnTaken
  <2>14. DigestInv'
    <3>1. DigestOK(digests, facts, h)
      BY <1>7, <2>3, IdleDigest
    <3>2. Awaited(queue) => Awaited(queue')
      BY <2>9 DEF Awaited
    <3>3. ~AsksLater(hand[Mine], version)
      BY <1>2 DEF AsksLater
    <3> QED
      BY <1>6, <1>7, <2>2, <3>1, <3>2, <3>3 DEF DigestInv, Fresh
  <2> QED
    BY <2>8, <2>10, <2>12, <2>13, <2>14 DEF JobsInv
<1> QED
  BY <1>8, <1>9

LEMMA EmitStep ==
    ASSUME HeardOnce, JobsInv, NEW r \in Extractors, Extract!Emit(r) PROVE JobsInv'
<1>0. r = Mine
  BY OneRunner
<1>1. PICK h : h = hand[Mine]
  OBVIOUS
<1>2. /\ h.at = "emit" /\ h.left # <<>>
      /\ facts' = Extract!StoreFact(facts, h.job.turn, Head(h.left))
      /\ hand' = [hand EXCEPT ![Mine].left = Tail(h.left)]
      /\ said' = said /\ version' = version /\ read' = read /\ queue' = queue
      /\ digests' = digests /\ forgotten' = forgotten /\ faults' = faults
      /\ late' = late /\ unasked' = unasked
  BY <1>0, <1>1 DEF Extract!Emit, Extract!history
<1>3. JobsTyped /\ QueueOK(queue, h, said) /\ said \in Nat
  BY <1>1 DEF JobsInv, JobsQueued, JobsTyped, HeardOnce
<1>4. h # Extract!Idle
  BY <1>2, IdleIs
<1>5. /\ h = [at |-> h.at, job |-> h.job, left |-> h.left]
      /\ h.job \in QueuedJob /\ h.job.task = "extract" /\ h.left \in Seq(Words)
      /\ \A x \in Extract!ToSet(h.left) : x \in Extract!ToSet(Heard[h.job.turn][version])
  BY <1>1, <1>2, <1>3, <1>4 DEF JobsTyped, HandOK
<1>6. PICK t : t = h.job.turn
  OBVIOUS
<1>7. t \in 1 .. said /\ t \in Turns
  BY <1>3, <1>4, <1>5, <1>6 DEF QueueOK, JobsTyped, HeardOnce
<1>8. PICK x : x = Head(h.left)
  OBVIOUS
<1>9. PICK rest : rest = Tail(h.left)
  OBVIOUS
<1>10. /\ x \in Extract!ToSet(h.left) /\ x \in Words /\ rest \in Seq(Words)
       /\ \A y \in Extract!ToSet(h.left) : y = x \/ y \in Extract!ToSet(rest)
       /\ \A y \in Extract!ToSet(rest) : y \in Extract!ToSet(h.left)
  BY <1>2, <1>5, <1>8, <1>9, FirstAndRest
<1>11. PICK g : g = [h EXCEPT !.left = rest]
  OBVIOUS
<1>12. g.at = "emit" /\ g.job = h.job /\ g.left = rest /\ g = [at |-> g.at, job |-> g.job, left |-> g.left]
  BY <1>2, <1>5, <1>11
<1>13. hand'[Mine] = g /\ hand' = [q \in Extractors |-> hand'[Mine]]
  <2>1. hand' = [hand EXCEPT ![Mine] = g]
    BY <1>1, <1>2, <1>9, <1>11
  <2> QED
    BY <1>3, <2>1, HandSet DEF JobsTyped
<1>14. PICK rows \in Seq(FactRow) : rows = facts /\ OneRow(rows) /\ OneActive(rows)
  BY <1>3 DEF JobsTyped
<1>15. PICK new : new = Extract!StoreFact(rows, t, x)
  OBVIOUS
<1>16. facts' = new
  BY <1>2, <1>6, <1>8, <1>14, <1>15
<1>17. /\ new \in Seq(FactRow) /\ OneRow(new) /\ OneActive(new)
       /\ Cardinality(Extract!Active(new)) >= Cardinality(Extract!Active(rows))
  BY <1>7, <1>10, <1>14, <1>15, StoredHas
<1>18. JobsTyped'
  <2>1. HandOK(g, version, said)
    BY <1>5, <1>10, <1>12 DEF HandOK
  <2> QED
    BY <1>2, <1>3, <1>13, <1>16, <1>17, <2>1 DEF JobsTyped
<1>19. g # Extract!Idle
  BY <1>12, IdleIs
<1>20. JobsQueued'
  <2>1. QueueOK(queue, g, said)
    BY <1>3, <1>4, <1>12 DEF QueueOK
  <2> QED
    BY <1>2, <1>13, <2>1 DEF JobsQueued
<1>21. Reading'
  <2> SUFFICES ASSUME version = 1 PROVE ReadingOK(said, new, read, late, queue, g)
    BY <1>2, <1>13, <1>16 DEF Reading
  <2>1. ReadingOK(said, rows, read, late, queue, h)
    BY <1>1, <1>14 DEF JobsInv, Reading
  <2>2. /\ <<t, 1>> \notin read /\ ToldOf(rows, t, h.left)
        /\ Believed(rows, said, ReadOf(read, said), late)
    BY <1>2, <1>6, <2>1 DEF ReadingOK
  <2>3. x \in Extract!ToSet(Heard[t][1])
    BY <1>5, <1>6, <1>10
  <2>4. t \in (1 .. said) \ ReadOf(read, said)
    BY <1>7, <2>2 DEF ReadOf
  <2>5. Believed(new, said, ReadOf(read, said), late) /\ ToldOf(new, t, rest)
    BY <1>3, <1>7, <1>10, <1>14, <1>15, <2>2, <2>3, <2>4, TellMore
  <2> QED
    BY <1>2, <1>6, <1>12, <2>1, <2>2, <2>5 DEF ReadingOK
<1>22. InTurn'
  BY <1>1, <1>2, <1>4, <1>12, <1>13, <1>19 DEF JobsInv, InTurn, InTurnOK
<1>23. DigestInv'
  <2>1. DigestOK(digests, rows, h) /\ Fresh
    BY <1>1, <1>14 DEF JobsInv, DigestInv
  <2>2. Enough(rows) => Enough(new)
    <3>1. MinFacts \in Int
      BY DEF HeardOnce
    <3>2. Cardinality(Extract!Active(rows)) \in Nat /\ Cardinality(Extract!Active(new)) \in Nat
      BY <1>14, <1>17, ActiveFinite, FS_CardinalityType
    <3> QED
      BY <1>17, <3>1, <3>2 DEF Enough
  <2>3. DigestOK(digests, new, g)
    BY <1>12, <2>1, <2>2 DEF DigestOK
  <2>4. AsksLater(g, version)
    <3>1. x \in Extract!ToSet(Heard[t][version])
      BY <1>5, <1>6, <1>10
    <3>2. Heard[t][version] # <<>>
      BY <3>1 DEF Extract!ToSet
    <3> QED
      BY <1>6, <1>12, <3>2 DEF AsksLater
  <2> QED
    BY <1>2, <1>13, <1>16, <2>3, <2>4 DEF DigestInv, Fresh
<1> QED
  BY <1>18, <1>20, <1>21, <1>22, <1>23 DEF JobsInv

LEMMA RecordStep ==
    ASSUME HeardOnce, JobsInv, NEW r \in Extractors, Extract!Record(r) PROVE JobsInv'
<1>0. r = Mine
  BY OneRunner
<1>1. PICK h, t : h = hand[Mine] /\ t = h.job.turn
  OBVIOUS
<1>2. /\ h.at = "emit" /\ h.left = <<>>
      /\ read' = read \cup {<<t, version>>}
      /\ late' = IF \E u \in t + 1 .. said : <<u, version>> \in read THEN late \cup {t} ELSE late
      /\ hand' = [hand EXCEPT ![Mine].at = "ask"]
      /\ said' = said /\ version' = version /\ facts' = facts /\ queue' = queue
      /\ digests' = digests /\ forgotten' = forgotten /\ faults' = faults /\ unasked' = unasked
  BY <1>0, <1>1 DEF Extract!Record
<1>3. JobsTyped /\ QueueOK(queue, h, said) /\ said \in Nat
  BY <1>1 DEF JobsInv, JobsQueued, JobsTyped, HeardOnce
<1>4. h # Extract!Idle
  BY <1>2, IdleIs
<1>5. /\ h = [at |-> h.at, job |-> h.job, left |-> h.left]
      /\ h.job \in QueuedJob /\ h.job.task = "extract" /\ h.left \in Seq(Words)
      /\ \A x \in Extract!ToSet(h.left) : x \in Extract!ToSet(Heard[h.job.turn][version])
  BY <1>1, <1>2, <1>3, <1>4 DEF JobsTyped, HandOK
<1>6. t \in 1 .. said /\ t \in Turns
  BY <1>1, <1>3, <1>4, <1>5 DEF QueueOK, JobsTyped, HeardOnce
<1>7. PICK g : g = [h EXCEPT !.at = "ask"]
  OBVIOUS
<1>8. g.at = "ask" /\ g.job = h.job /\ g.left = h.left /\ g = [at |-> g.at, job |-> g.job, left |-> g.left]
  BY <1>2, <1>5, <1>7
<1>9. hand'[Mine] = g /\ hand' = [q \in Extractors |-> hand'[Mine]]
  <2>1. hand' = [hand EXCEPT ![Mine] = g]
    BY <1>1, <1>2, <1>7
  <2> QED
    BY <1>3, <2>1, HandSet DEF JobsTyped
<1>10. JobsTyped'
  <2>1. HandOK(g, version, said)
    BY <1>5, <1>8 DEF HandOK
  <2>2. read' \subseteq (1 .. said) \X Versions
    BY <1>2, <1>3, <1>6 DEF JobsTyped
  <2> QED
    BY <1>2, <1>3, <1>9, <2>1, <2>2 DEF JobsTyped
<1>11. g # Extract!Idle
  BY <1>8, IdleIs
<1>12. JobsQueued'
  <2>1. QueueOK(queue, g, said)
    BY <1>3, <1>4, <1>8 DEF QueueOK
  <2> QED
    BY <1>2, <1>9, <2>1 DEF JobsQueued
<1>13. Reading'
  <2> SUFFICES ASSUME version = 1 PROVE ReadingOK(said, facts, read', late', queue, g)
    BY <1>2, <1>9 DEF Reading
  <2>1. ReadingOK(said, facts, read, late, queue, h)
    BY <1>1 DEF JobsInv, Reading
  <2>2. PICK n, done, rows, excused, excused1 :
            /\ n \in Nat /\ n = said /\ done = ReadOf(read, said) /\ rows = facts
            /\ excused = late /\ excused1 = late'
    BY <1>3
  <2>3. /\ <<t, 1>> \notin read /\ ToldOf(rows, t, <<>>)
        /\ Believed(rows, n, done, excused)
    BY <1>1, <1>2, <2>1, <2>2 DEF ReadingOK
  <2>4. n \in Nat /\ t \in (1 .. n) \ done /\ done \subseteq 1 .. n
    BY <1>6, <2>2, <2>3 DEF ReadOf
  <2>5. read' = read \cup {<<t, 1>>}
    BY <1>2
  <2>6. ReadOf(read', n) = done \cup {t}
    BY <2>2, <2>4, <2>5 DEF ReadOf
  <2>7. excused1 = IF \E u \in done : t < u THEN excused \cup {t} ELSE excused
    <3>1. (\E u \in t + 1 .. said : <<u, version>> \in read) <=> \E u \in done : t < u
      BY <2>2, <2>4 DEF ReadOf
    <3> QED
      BY <1>2, <2>2, <3>1
  <2>8. Believed(facts, n, ReadOf(read', n), late')
    <3>1. Believed(rows, n, done \cup {t}, excused1)
      BY <1>6, <2>3, <2>4, <2>7, TellAll
    <3> QED
      BY <2>2, <2>6, <3>1
  <2>9. <<h.job.turn, 1>> \in read'
    BY <1>1, <2>5
  <2>10. \A u \in 1 .. said : <<u, 1>> \notin read' => <<"extract", u>> \in Requests(queue)
    BY <2>1, <2>5 DEF ReadingOK
  <2>11. ASSUME NEW u PROVE <<"reextract", u>> \notin Requests(queue)
    BY <2>1 DEF ReadingOK
  <2> QED
    BY <1>8, <2>2, <2>8, <2>9, <2>10, <2>11 DEF ReadingOK
<1>14. InTurn'
  <2> SUFFICES ASSUME version = 1, faults = 0 PROVE InTurnOK(said, read', late', queue, g)
    BY <1>2, <1>9 DEF InTurn
  <2>1. InTurnOK(said, read, late, queue, h)
    BY <1>1 DEF JobsInv, InTurn
  <2>2. read' = read \cup {<<t, 1>>}
    BY <1>2
  <2>3. <<t, 1>> \notin read
    BY <1>1, <1>2 DEF JobsInv, Reading, ReadingOK
  <2>4. \A u \in 1 .. said : u < t => <<u, 1>> \in read
    <3>1. h.at = "emit"
      BY <1>2
    <3>2. ASSUME NEW u \in 1 .. said, u < h.job.turn PROVE <<u, 1>> \in read
      BY <2>1, <3>1, <3>2 DEF InTurnOK
    <3>3. h.job.turn = t
      BY <1>1
    <3> QED
      BY <3>2, <3>3
  <2>5. ASSUME NEW u \in 1 .. said, NEW w \in 1 .. said, <<w, 1>> \in read', u < w
        PROVE  <<u, 1>> \in read'
    <3>1. CASE w = t
      BY <2>2, <2>4, <2>5, <3>1
    <3>2. CASE w # t
      <4>1. <<w, 1>> \in read
        BY <2>2, <2>5, <3>2
      <4>2. <<u, 1>> \in read
        BY <2>1, <2>5, <4>1 DEF InTurnOK
      <4> QED
        BY <2>2, <4>2
    <3> QED
      BY <3>1, <3>2
  <2>6. late' = {}
    <3>1. ASSUME NEW u \in t + 1 .. said, <<u, version>> \in read PROVE FALSE
      <4>1. u \in 1 .. said /\ t < u
        BY <1>6, <3>1
      <4>2. <<t, 1>> \in read
        BY <1>6, <2>1, <3>1, <4>1 DEF InTurnOK
      <4> QED
        BY <2>3, <4>2
    <3>2. late = {}
      BY <2>1 DEF InTurnOK
    <3> QED
      BY <1>2, <3>1, <3>2
  <2> QED
    BY <1>4, <1>8, <1>11, <2>1, <2>5, <2>6 DEF InTurnOK
<1>15. DigestInv'
  <2>1. DigestOK(digests, facts, h) /\ Fresh
    BY <1>1 DEF JobsInv, DigestInv
  <2>2. DigestOK(digests, facts, g)
    BY <1>8, <2>1, IdleDigest
  <2>3. AsksLater(h, version) => AsksLater(g, version)
    BY <1>8 DEF AsksLater
  <2>4. ASSUME version = 1, Untold(said, read) PROVE Untold(said, read') \/ AsksLater(g, version)
    <3>1. PICK u \in 1 .. said : <<u, 1>> \notin read /\ Heard[u][1] # <<>>
      BY <2>4 DEF Untold
    <3>2. CASE u = t
      BY <1>1, <1>8, <2>4, <3>1, <3>2 DEF AsksLater
    <3>3. CASE u # t
      <4>1. <<u, 1>> \notin read'
        BY <1>2, <3>1, <3>3
      <4> QED
        BY <3>1, <4>1 DEF Untold
    <3> QED
      BY <3>2, <3>3
  <2>5. Fresh'
    <3> SUFFICES ASSUME ~unasked, faults = 0 \/ version = 1
                 PROVE  \/ Telling(digests, facts) \/ Awaited(queue) \/ AsksLater(g, version)
                        \/ faults # 0 /\ Untold(said, read')
      BY <1>2, <1>9 DEF Fresh
    <3>1. \/ Telling(digests, facts) \/ Awaited(queue) \/ AsksLater(h, version)
          \/ faults # 0 /\ Untold(said, read)
      BY <1>1, <2>1 DEF Fresh
    <3> QED
      BY <2>3, <2>4, <3>1
  <2> QED
    BY <1>2, <1>9, <2>2, <2>5 DEF DigestInv
<1> QED
  BY <1>10, <1>12, <1>13, <1>14, <1>15 DEF JobsInv

LEMMA AskDigestStep ==
    ASSUME HeardOnce, JobsInv, NEW r \in Extractors, Extract!AskDigest(r) PROVE JobsInv'
<1>0. r = Mine
  BY OneRunner
<1>1. PICK h : h = hand[Mine]
  OBVIOUS
<1>2. PICK q : q = IF Extract!Items(h.job.turn) = <<>> THEN queue
                   ELSE Extract!Enqueue(queue, "digest", 0)
  OBVIOUS
<1>3. /\ h.at = "ask" /\ queue' = Extract!Done(q, h.job)
      /\ hand' = [hand EXCEPT ![Mine] = Extract!Idle]
      /\ said' = said /\ version' = version /\ facts' = facts /\ read' = read
      /\ digests' = digests /\ forgotten' = forgotten /\ faults' = faults
      /\ late' = late /\ unasked' = unasked
  BY <1>0, <1>1, <1>2 DEF Extract!AskDigest, Extract!history
<1>4. JobsTyped /\ QueueOK(queue, h, said) /\ said \in Nat
  BY <1>1 DEF JobsInv, JobsQueued, JobsTyped, HeardOnce
<1>5. h # Extract!Idle
  BY <1>3, IdleIs
<1>6. h.job \in QueuedJob /\ h.job.task = "extract"
  BY <1>1, <1>3, <1>4, <1>5 DEF JobsTyped, HandOK
<1>7. hand'[Mine] = Extract!Idle /\ hand' = [x \in Extractors |-> hand'[Mine]]
  BY <1>3, <1>4, HandSet DEF JobsTyped
<1>8. /\ QueueOK(q, h, said)
      /\ q = queue \/ Asks(queue, q, "digest", 0)
      /\ Awaited(queue) => Awaited(q)
      /\ AsksLater(h, version) => Awaited(q)
  <2>1. CASE Extract!Items(h.job.turn) = <<>>
    <3>1. q = queue
      BY <1>2, <2>1
    <3>2. ~AsksLater(h, version)
      BY <2>1 DEF AsksLater, Extract!Items
    <3> QED
      BY <1>4, <3>1, <3>2
  <2>2. CASE Extract!Items(h.job.turn) # <<>>
    <3>1. q = Extract!Enqueue(queue, "digest", 0)
      BY <1>2, <2>2
    <3>2. "digest" \in JobTasks /\ 0 \in Nat /\ said <= said
      BY <1>4 DEF JobTasks
    <3>3. QueueOK(q, h, said) /\ Asks(queue, q, "digest", 0)
      BY <1>4, <3>1, <3>2, AskedOK
    <3>4. Awaited(q)
      BY <3>3 DEF Asks, Awaited
    <3> QED
      BY <3>3, <3>4
  <2> QED
    BY <2>1, <2>2
<1>9. QueueOK(queue', Extract!Idle, said) /\ Serves(q, queue', h.job.task, h.job.turn)
  BY <1>3, <1>8, ServedOK
<1>10. JobsTyped'
  <2>1. HandOK(hand'[Mine], version, said)
    BY <1>7 DEF HandOK
  <2> QED
    BY <1>3, <1>4, <1>7, <2>1 DEF JobsTyped
<1>11. JobsQueued'
  BY <1>3, <1>7, <1>9 DEF JobsQueued
<1>12. Reading'
  <2> SUFFICES ASSUME version = 1
               PROVE  ReadingOK(said, facts, read, late, queue', Extract!Idle)
    BY <1>3, <1>7 DEF Reading
  <2>1. ReadingOK(said, facts, read, late, queue, h)
    BY <1>1 DEF JobsInv, Reading
  <2>2. ReadingOK(said, facts, read, late, q, h)
    BY <1>8, <2>1, ReadingAsked
  <2>3. <<h.job.turn, 1>> \in read
    BY <1>3, <2>1 DEF ReadingOK
  <2> QED
    BY <1>9, <2>2, <2>3, ReadingServed
<1>13. InTurn'
  <2> SUFFICES ASSUME version = 1, faults = 0
               PROVE  InTurnOK(said, read, late, queue', Extract!Idle)
    BY <1>3, <1>7 DEF InTurn
  <2>1. InTurnOK(said, read, late, queue, h)
    BY <1>1 DEF JobsInv, InTurn
  <2>2. InTurnOK(said, read, late, q, h)
    <3>1. CASE q = queue
      BY <2>1, <3>1
    <3>2. CASE Asks(queue, q, "digest", 0)
      <4>1. Ascending(q)
        BY <2>1, <3>2 DEF InTurnOK, Asks
      <4>2. \A i \in DOMAIN q : q[i].running =>
               h # Extract!Idle /\ <<q[i].task, q[i].turn>> = <<h.job.task, h.job.turn>>
        BY <2>1, <3>2 DEF InTurnOK, Asks
      <4> QED
        BY <2>1, <4>1, <4>2 DEF InTurnOK
    <3> QED
      BY <1>8, <3>1, <3>2
  <2> QED
    BY <1>9, <2>2, InTurnServed
<1>14. DigestInv'
  <2>1. DigestOK(digests, facts, h) /\ Fresh
    BY <1>1 DEF JobsInv, DigestInv
  <2>2. DigestOK(digests, facts, hand'[Mine])
    BY <1>7, <2>1, IdleDigest, IdleIs
  <2>3. Awaited(q) => Awaited(queue')
    BY <1>6, <1>9 DEF Awaited, Serves
  <2> QED
    BY <1>1, <1>3, <1>8, <2>1, <2>2, <2>3 DEF DigestInv, Fresh
<1> QED
  BY <1>10, <1>11, <1>12, <1>13, <1>14 DEF JobsInv

LEMMA ClaimDigestStep ==
    ASSUME HeardOnce, JobsInv, RowLimit \in Int, Len(facts) <= RowLimit,
           NEW r \in Extractors, Extract!ClaimDigest(r)
    PROVE  JobsInv'
<1>0. r = Mine
  BY OneRunner
<1>1. /\ hand[Mine] = Extract!Idle /\ Extract!Pending # {}
      /\ queue[Extract!Oldest].task = "digest"
  BY <1>0 DEF Extract!ClaimDigest, Extract!CanClaim
<1>2. JobsTyped /\ QueueOK(queue, Extract!Idle, said) /\ hand[Mine].at = "idle"
  BY <1>1, IdleIs DEF JobsInv, JobsQueued
<1>3. PICK k, job : k = Extract!Oldest /\ job = queue[k]
  OBVIOUS
<1>4. k \in DOMAIN queue /\ job \in QueuedJob /\ <<job.task, job.turn>> \in Requests(queue)
  BY <1>1, <1>2, <1>3, Claimed DEF QueueOK
<1>5. job.task = "digest" /\ job.turn = 0 /\ facts \in Seq(FactRow)
  BY <1>1, <1>2, <1>3, <1>4 DEF QueueOK, JobsTyped
<1>6. /\ said' = said /\ version' = version /\ facts' = facts /\ read' = read
      /\ digests' = digests /\ forgotten' = forgotten /\ faults' = faults
      /\ late' = late /\ unasked' = unasked
  BY DEF Extract!ClaimDigest, Extract!history
<1>7. DigestOK(digests, facts, hand[Mine])
  BY DEF JobsInv, DigestInv
<1>8. Extract!RowsRead = facts
  <2>1. PICK rows \in Seq(FactRow) : rows = facts
    BY <1>5
  <2>2. Len(rows) <= RowLimit
    BY <2>1
  <2> QED
    BY <2>1, <2>2, RowsAll
<1>9. CASE Extract!Pointless(facts)
  <2>1. queue' = Extract!Done(queue, job) /\ hand' = hand
    BY <1>0, <1>3, <1>8, <1>9 DEF Extract!ClaimDigest
  <2>2. QueueOK(queue', Extract!Idle, said) /\ Serves(queue, queue', job.task, job.turn)
    BY <1>2, <2>1, ServedOK
  <2>3. JobsTyped' /\ JobsQueued'
    BY <1>1, <1>2, <1>6, <2>1, <2>2 DEF JobsTyped, JobsQueued
  <2>4. Reading'
    <3> SUFFICES ASSUME version = 1
                 PROVE  ReadingOK(said, facts, read, late, queue', Extract!Idle)
      BY <1>1, <1>6, <2>1 DEF Reading
    <3>1. ReadingOK(said, facts, read, late, queue, Extract!Idle)
      BY <1>1 DEF JobsInv, Reading
    <3> QED
      BY <1>5, <2>2, <3>1, ReadingServed
  <2>5. InTurn'
    <3> SUFFICES ASSUME version = 1, faults = 0
                 PROVE  InTurnOK(said, read, late, queue', Extract!Idle)
      BY <1>1, <1>6, <2>1 DEF InTurn
    <3>1. InTurnOK(said, read, late, queue, Extract!Idle)
      BY <1>1 DEF JobsInv, InTurn
    <3> QED
      BY <2>2, <3>1, InTurnServed
  <2>6. DigestInv'
    <3>1. Telling(digests, facts)
      BY <1>5, <1>7, <1>9, NothingToTell
    <3> QED
      BY <1>6, <1>7, <2>1, <3>1 DEF DigestInv, Fresh
  <2> QED
    BY <2>3, <2>4, <2>5, <2>6 DEF JobsInv
<1>10. CASE ~Extract!Pointless(facts)
  <2> DEFINE h == [at |-> "digest", job |-> job, line |-> Extract!LineOf(facts),
                   anchor |-> Extract!Anchor(facts),
                   drop |-> Extract!Outdated(Extract!Anchor(facts))]
  <2>1. /\ queue' = [queue EXCEPT ![Extract!Oldest].running = TRUE]
        /\ hand' = [hand EXCEPT ![Mine] = h]
    BY <1>0, <1>3, <1>8, <1>10 DEF Extract!ClaimDigest
  <2>2. hand'[Mine] = h /\ hand' = [q \in Extractors |-> hand'[Mine]]
    <3> HIDE DEF h
    <3> QED
      BY <1>2, <2>1, HandSet DEF JobsTyped
  <2>3. h.at = "digest" /\ h.job = job /\ h.line = Extract!LineOf(facts) /\ h # Extract!Idle
        /\ h.anchor = Extract!Anchor(facts) /\ h.drop = Extract!Outdated(h.anchor)
    BY DEF Extract!Idle
  <2>4. h = [at |-> h.at, job |-> h.job, line |-> h.line, anchor |-> h.anchor, drop |-> h.drop]
    BY <2>3
  <2> HIDE DEF h
  <2>5. HandOK(h, version, said)
    BY <1>4, <1>5, <2>3, <2>4 DEF HandOK
  <2>6. JobsTyped'
    BY <1>2, <1>6, <2>2, <2>5 DEF JobsTyped
  <2>7. /\ Alike(queue, queue') /\ Requests(queue') = Requests(queue)
        /\ \A i \in DOMAIN queue' : queue'[i].running => i = k \/ queue[i].running
    BY <1>1, <1>2, <1>3, <2>1, Claimed DEF QueueOK
  <2>8. JobsQueued'
    <3>1. QueueOK(queue', h, said)
      BY <1>2, <1>4, <2>3, <2>7, AlikeOK
    <3> QED
      BY <1>6, <2>2, <3>1 DEF JobsQueued
  <2>9. Reading'
    <3> SUFFICES ASSUME version = 1 PROVE ReadingOK(said, facts, read, late, queue', h)
      BY <1>6, <2>2 DEF Reading
    <3>1. ReadingOK(said, facts, read, late, queue, hand[Mine])
      BY DEF JobsInv, Reading
    <3>2. h.at \notin {"emit", "ask"}
      BY <2>3
    <3> QED
      BY <2>7, <3>1, <3>2, ReadingAlike
  <2>10. InTurn'
    <3> SUFFICES ASSUME version = 1, faults = 0 PROVE InTurnOK(said, read, late, queue', h)
      BY <1>6, <2>2 DEF InTurn
    <3>1. InTurnOK(said, read, late, queue, Extract!Idle)
      BY <1>1 DEF JobsInv, InTurn
    <3> QED
      BY <1>3, <1>4, <2>3, <2>7, <3>1, InTurnTaken
  <2>11. DigestOK(digests, facts, h)
    <3>1. Enough(facts)
      BY <1>5, <1>7, <1>10, NothingToTell
    <3>2. \A d \in ShownOf(digests) : d.anchor # h.anchor => d.anchor \in h.drop
      BY <2>3 DEF ShownOf, Extract!Outdated, Extract!Shown
    <3> QED
      BY <1>7, <2>3, <3>1, <3>2 DEF DigestOK
  <2>12. Awaited(queue')
    BY <1>4, <1>5, <2>7 DEF Awaited
  <2>13. DigestInv'
    BY <1>6, <2>2, <2>11, <2>12 DEF DigestInv, Fresh
  <2> QED
    BY <2>6, <2>8, <2>9, <2>10, <2>13 DEF JobsInv
<1> QED
  BY <1>9, <1>10

LEMMA RetractDigestStep ==
    ASSUME HeardOnce, JobsInv, NEW r \in Extractors, Extract!RetractDigest(r) PROVE JobsInv'
<1>0. r = Mine
  BY OneRunner
<1>1. PICK h : h = hand[Mine]
  OBVIOUS
<1>2. h.at = "digest"
  BY <1>0, <1>1 DEF Extract!RetractDigest
<1>3. PICK a \in h.drop :
        /\ digests' = {IF d.anchor = a THEN [d EXCEPT !.status = "retracted"] ELSE d : d \in digests}
        /\ hand' = [hand EXCEPT ![Mine].drop = h.drop \ {a}]
  BY <1>0, <1>1 DEF Extract!RetractDigest
<1>4. /\ said' = said /\ version' = version /\ facts' = facts /\ read' = read /\ queue' = queue
      /\ forgotten' = forgotten /\ faults' = faults /\ late' = late /\ unasked' = unasked
  BY DEF Extract!RetractDigest, Extract!history
<1>5. JobsTyped /\ QueueOK(queue, h, said)
  BY <1>1 DEF JobsInv, JobsQueued
<1>6. h # Extract!Idle
  BY <1>2, IdleIs
<1>7. /\ h = [at |-> h.at, job |-> h.job, line |-> h.line, anchor |-> h.anchor, drop |-> h.drop]
      /\ h.job \in QueuedJob /\ h.job.task = "digest"
  BY <1>1, <1>2, <1>5, <1>6 DEF JobsTyped, HandOK
<1>8. PICK g : g = [h EXCEPT !.drop = h.drop \ {a}]
  OBVIOUS
<1>9. /\ g.at = "digest" /\ g.job = h.job /\ g.line = h.line /\ g.anchor = h.anchor
      /\ g.drop = h.drop \ {a}
      /\ g = [at |-> g.at, job |-> g.job, line |-> g.line, anchor |-> g.anchor, drop |-> g.drop]
  BY <1>2, <1>7, <1>8
<1>10. hand'[Mine] = g /\ hand' = [q \in Extractors |-> hand'[Mine]]
  <2>1. hand' = [hand EXCEPT ![Mine] = g]
    BY <1>1, <1>3, <1>8
  <2> QED
    BY <1>5, <2>1, HandSet DEF JobsTyped
<1>11. JobsTyped'
  <2>1. HandOK(g, version, said)
    BY <1>7, <1>9 DEF HandOK
  <2> QED
    BY <1>4, <1>5, <1>10, <2>1 DEF JobsTyped
<1>12. g # Extract!Idle
  BY <1>9, IdleIs
<1>13. JobsQueued'
  <2>1. QueueOK(queue, g, said)
    BY <1>5, <1>6, <1>9 DEF QueueOK
  <2> QED
    BY <1>4, <1>10, <2>1 DEF JobsQueued
<1>14. Reading'
  <2>1. g.at \notin {"emit", "ask"}
    BY <1>9
  <2> QED
    BY <1>4, <1>10, <2>1, ReadingAlike DEF JobsInv, Reading
<1>15. InTurn'
  BY <1>1, <1>2, <1>4, <1>6, <1>9, <1>10, <1>12 DEF JobsInv, InTurn, InTurnOK
<1>16. DigestOK(digests, facts, h)
  BY <1>1 DEF JobsInv, DigestInv
<1>17. ASSUME NEW e \in digests'
       PROVE  /\ e = [anchor |-> e.anchor, line |-> e.line, status |-> e.status]
              /\ e.status = "active" => e \in ShownOf(digests) /\ e.anchor # a
  <2>1. PICK d \in digests : e = IF d.anchor = a THEN [d EXCEPT !.status = "retracted"] ELSE d
    BY <1>3
  <2>2. d = [anchor |-> d.anchor, line |-> d.line, status |-> d.status]
    BY <1>16 DEF DigestOK
  <2>3. CASE d.anchor = a
    <3>1. e = [d EXCEPT !.status = "retracted"]
      BY <2>1, <2>3
    <3>2. e = [anchor |-> d.anchor, line |-> d.line, status |-> "retracted"]
      BY <2>2, <3>1
    <3> QED
      BY <3>2
  <2>4. CASE d.anchor # a
    <3>1. e = d
      BY <2>1, <2>4
    <3> QED
      BY <2>2, <2>4, <3>1 DEF ShownOf
  <2> QED
    BY <2>3, <2>4
<1>18. DigestOK(digests', facts, g)
  <2>1. \A d \in ShownOf(digests') : d \in ShownOf(digests) /\ d.anchor # a
    BY <1>17 DEF ShownOf
  <2>2. \A d \in digests' : d = [anchor |-> d.anchor, line |-> d.line, status |-> d.status]
    BY <1>17
  <2>3. \A d, e \in ShownOf(digests') : d = e
    BY <1>16, <2>1 DEF DigestOK
  <2>4. ShownOf(digests') # {} => Enough(facts)
    BY <1>16, <2>1 DEF DigestOK
  <2>5. /\ Enough(facts) /\ g.line = Extract!LineOf(facts)
        /\ \A d \in ShownOf(digests') : d.anchor # g.anchor => d.anchor \in g.drop
    BY <1>2, <1>9, <1>16, <2>1 DEF DigestOK
  <2> QED
    BY <2>2, <2>3, <2>4, <2>5 DEF DigestOK
<1>19. Awaited(queue)
  BY <1>5, <1>6, <1>7 DEF QueueOK, Awaited
<1>20. DigestInv'
  BY <1>4, <1>10, <1>18, <1>19 DEF DigestInv, Fresh
<1> QED
  BY <1>11, <1>13, <1>14, <1>15, <1>20 DEF JobsInv

\* The note of this anchor is the only one, and tells the facts.
LEMMA AssertDigestStep ==
    ASSUME HeardOnce, JobsInv, NEW r \in Extractors, Extract!AssertDigest(r) PROVE JobsInv'
<1>0. r = Mine
  BY OneRunner
<1>1. PICK h : h = hand[Mine]
  OBVIOUS
<1>2. PICK new : new = [anchor |-> h.anchor, line |-> h.line, status |-> "active"]
  OBVIOUS
<1>3. /\ h.at = "digest" /\ h.drop = {}
      /\ digests' = IF \E d \in ShownOf(digests) : d.line = new.line THEN digests
                    ELSE {d \in digests : d.anchor # new.anchor} \cup {new}
      /\ queue' = Extract!Done(queue, h.job)
      /\ hand' = [hand EXCEPT ![Mine] = Extract!Idle]
      /\ said' = said /\ version' = version /\ facts' = facts /\ read' = read
      /\ forgotten' = forgotten /\ faults' = faults /\ late' = late /\ unasked' = unasked
  BY <1>0, <1>1, <1>2 DEF Extract!AssertDigest, Extract!Shown, ShownOf, Extract!history
<1>4. JobsTyped /\ QueueOK(queue, h, said)
  BY <1>1 DEF JobsInv, JobsQueued
<1>5. h # Extract!Idle
  BY <1>3, IdleIs
<1>6. h.job \in QueuedJob /\ h.job.task = "digest"
  BY <1>1, <1>3, <1>4, <1>5 DEF JobsTyped, HandOK
<1>7. hand'[Mine] = Extract!Idle /\ hand' = [x \in Extractors |-> hand'[Mine]]
  BY <1>3, <1>4, HandSet DEF JobsTyped
<1>8. QueueOK(queue', Extract!Idle, said) /\ Serves(queue, queue', h.job.task, h.job.turn)
  BY <1>3, <1>4, ServedOK
<1>9. JobsTyped' /\ JobsQueued'
  <2>1. HandOK(hand'[Mine], version, said)
    BY <1>7 DEF HandOK
  <2> QED
    BY <1>3, <1>4, <1>7, <1>8, <2>1 DEF JobsTyped, JobsQueued
<1>10. Reading'
  <2> SUFFICES ASSUME version = 1
               PROVE  ReadingOK(said, facts, read, late, queue', Extract!Idle)
    BY <1>3, <1>7 DEF Reading
  <2>1. ReadingOK(said, facts, read, late, queue, h)
    BY <1>1 DEF JobsInv, Reading
  <2> QED
    BY <1>6, <1>8, <2>1, ReadingServed
<1>11. InTurn'
  <2> SUFFICES ASSUME version = 1, faults = 0
               PROVE  InTurnOK(said, read, late, queue', Extract!Idle)
    BY <1>3, <1>7 DEF InTurn
  <2>1. InTurnOK(said, read, late, queue, h)
    BY <1>1 DEF JobsInv, InTurn
  <2> QED
    BY <1>8, <2>1, InTurnServed
<1>12. DigestOK(digests, facts, h)
  BY <1>1 DEF JobsInv, DigestInv
<1>13. /\ Enough(facts) /\ h.line = Extract!LineOf(facts)
       /\ \A d \in ShownOf(digests) : d.anchor = h.anchor
  BY <1>3, <1>12 DEF DigestOK
<1>14. new.anchor = h.anchor /\ new.line = h.line /\ new.status = "active"
       /\ new = [anchor |-> new.anchor, line |-> new.line, status |-> new.status]
  BY <1>2
<1>15. DigestOK(digests', facts, hand'[Mine]) /\ Telling(digests', facts)
  <2>1. CASE \E d \in ShownOf(digests) : d.line = new.line
    <3>1. digests' = digests
      BY <1>3, <2>1
    <3>2. DigestOK(digests, facts, hand'[Mine])
      BY <1>7, <1>12, IdleDigest, IdleIs
    <3> QED
      BY <1>13, <1>14, <2>1, <3>1, <3>2 DEF Telling
  <2>2. CASE ~\E d \in ShownOf(digests) : d.line = new.line
    <3>1. digests' = {d \in digests : d.anchor # new.anchor} \cup {new}
      BY <1>3, <2>2
    <3>2. \A d \in digests' : d = new \/ (d \in digests /\ d.anchor # new.anchor)
      BY <3>1
    <3>3. \A d \in ShownOf(digests') : d = new
      BY <1>13, <1>14, <3>2 DEF ShownOf
    <3>4. new \in ShownOf(digests')
      BY <1>14, <3>1 DEF ShownOf
    <3>5. \A d \in digests' : d = [anchor |-> d.anchor, line |-> d.line, status |-> d.status]
      BY <1>12, <1>14, <3>2 DEF DigestOK
    <3>6. hand'[Mine].at # "digest"
      BY <1>7, IdleIs
    <3>7. DigestOK(digests', facts, hand'[Mine])
      BY <1>13, <3>3, <3>5, <3>6 DEF DigestOK
    <3> QED
      BY <1>13, <1>14, <3>4, <3>7 DEF Telling
  <2> QED
    BY <2>1, <2>2
<1>16. DigestInv'
  BY <1>3, <1>15 DEF DigestInv, Fresh
<1> QED
  BY <1>9, <1>10, <1>11, <1>16 DEF JobsInv

\* While the first extractor runs, there is no reextract job.
LEMMA NoSweep ==
    ASSUME JobsInv, version = 1, NEW t, <<"reextract", t>> \in Requests(queue) PROVE FALSE
BY DEF JobsInv, Reading, ReadingOK

LEMMA ClaimReextractStep ==
    ASSUME HeardOnce, JobsInv, NEW r \in Extractors, Extract!ClaimReextract(r) PROVE JobsInv'
<1>0. r = Mine
  BY OneRunner
<1> DEFINE h == [at |-> "page", job |-> queue[Extract!Oldest], page |-> Extract!Unread]
<1>1. /\ hand[Mine] = Extract!Idle /\ Extract!Pending # {}
      /\ queue[Extract!Oldest].task = "reextract"
      /\ queue' = [queue EXCEPT ![Extract!Oldest].running = TRUE]
      /\ hand' = [hand EXCEPT ![Mine] = h]
      /\ said' = said /\ version' = version /\ facts' = facts /\ read' = read
      /\ digests' = digests /\ forgotten' = forgotten /\ faults' = faults
      /\ late' = late /\ unasked' = unasked
  BY <1>0 DEF Extract!ClaimReextract, Extract!CanClaim, Extract!history
<1>2. JobsTyped /\ QueueOK(queue, Extract!Idle, said)
  BY <1>1 DEF JobsInv, JobsQueued
<1>3. PICK k, job : k = Extract!Oldest /\ job = queue[k]
  OBVIOUS
<1>4. /\ k \in DOMAIN queue /\ job \in QueuedJob /\ <<job.task, job.turn>> \in Requests(queue)
      /\ Alike(queue, queue') /\ Requests(queue') = Requests(queue)
  BY <1>1, <1>2, <1>3, Claimed DEF QueueOK
<1>5. job.task = "reextract"
  BY <1>1, <1>3
<1>6. h.at = "page" /\ h.job = job /\ h.page = Extract!Unread /\ h # Extract!Idle
      /\ h = [at |-> h.at, job |-> h.job, page |-> h.page]
  BY <1>3 DEF Extract!Idle
<1>7. hand'[Mine] = h /\ hand' = [q \in Extractors |-> hand'[Mine]]
  <2> HIDE DEF h
  <2> QED
    BY <1>1, <1>2, HandSet DEF JobsTyped
<1> HIDE DEF h
<1>8. JobsTyped'
  <2>1. h.page \subseteq 1 .. said
    BY <1>6 DEF Extract!Unread
  <2>2. HandOK(h, version, said)
    BY <1>4, <1>5, <1>6, <2>1 DEF HandOK
  <2> QED
    BY <1>1, <1>2, <1>7, <2>2 DEF JobsTyped
<1>9. JobsQueued'
  <2>1. QueueOK(queue', h, said)
    BY <1>2, <1>4, <1>6, AlikeOK
  <2> QED
    BY <1>1, <1>7, <2>1 DEF JobsQueued
<1>10. version' # 1
  BY <1>1, <1>4, <1>5, NoSweep
<1>11. Reading' /\ InTurn'
  BY <1>10 DEF Reading, InTurn
<1>12. DigestInv'
  <2>1. DigestOK(digests, facts, hand'[Mine])
    BY <1>6, <1>7, IdleDigest DEF JobsInv, DigestInv
  <2>2. Awaited(queue) => Awaited(queue')
    BY <1>4 DEF Awaited
  <2>3. ~AsksLater(hand[Mine], version)
    BY <1>1, IdleIs DEF AsksLater
  <2> QED
    BY <1>1, <2>1, <2>2, <2>3 DEF JobsInv, DigestInv, Fresh
<1> QED
  BY <1>8, <1>9, <1>11, <1>12 DEF JobsInv

\* What is at hand of a sweep; a sweep is run by a later extractor.
LEMMA SweepAt ==
    ASSUME HeardOnce, JobsInv, NEW h, h = hand[Mine], h.at = "page"
    PROVE  /\ JobsTyped /\ QueueOK(queue, h, said) /\ said \in Nat
           /\ h # Extract!Idle /\ h = [at |-> h.at, job |-> h.job, page |-> h.page]
           /\ h.job \in QueuedJob /\ h.job.task = "reextract" /\ h.page \subseteq 1 .. said
           /\ version # 1
<1>1. JobsTyped /\ QueueOK(queue, h, said) /\ said \in Nat
  BY DEF JobsInv, JobsQueued, JobsTyped, HeardOnce
<1>2. h # Extract!Idle
  BY IdleIs
<1>3. /\ h = [at |-> h.at, job |-> h.job, page |-> h.page]
      /\ h.job \in QueuedJob /\ h.job.task = "reextract" /\ h.page \subseteq 1 .. said
  BY <1>1, <1>2 DEF JobsTyped, HandOK
<1>4. <<"reextract", h.job.turn>> \in Requests(queue)
  BY <1>1, <1>2, <1>3 DEF QueueOK
<1>5. version # 1
  BY <1>4, NoSweep
<1> QED
  BY <1>1, <1>2, <1>3, <1>5

LEMMA AskAgainStep ==
    ASSUME HeardOnce, JobsInv, NEW r \in Extractors, Extract!AskAgain(r) PROVE JobsInv'
<1>0. r = Mine
  BY OneRunner
<1>1. PICK h : h = hand[Mine]
  OBVIOUS
<1>2. /\ h.at = "page"
      /\ said' = said /\ version' = version /\ facts' = facts /\ read' = read
      /\ digests' = digests /\ forgotten' = forgotten /\ faults' = faults
      /\ late' = late /\ unasked' = unasked
  BY <1>0, <1>1 DEF Extract!AskAgain, Extract!history
<1>3. PICK t \in h.page : /\ queue' = Extract!Enqueue(queue, "extract", t)
                          /\ hand' = [hand EXCEPT ![Mine].page = h.page \ {t}]
  BY <1>0, <1>1 DEF Extract!AskAgain
<1>4. /\ JobsTyped /\ QueueOK(queue, h, said) /\ said \in Nat
      /\ h # Extract!Idle /\ h = [at |-> h.at, job |-> h.job, page |-> h.page]
      /\ h.job \in QueuedJob /\ h.job.task = "reextract" /\ h.page \subseteq 1 .. said
      /\ version # 1
  BY <1>1, <1>2, SweepAt
<1>5. PICK g : g = [h EXCEPT !.page = h.page \ {t}]
  OBVIOUS
<1>6. /\ g.at = "page" /\ g.job = h.job /\ g.page = h.page \ {t}
      /\ g = [at |-> g.at, job |-> g.job, page |-> g.page]
  BY <1>2, <1>4, <1>5
<1>7. hand'[Mine] = g /\ hand' = [q \in Extractors |-> hand'[Mine]]
  <2>1. hand' = [hand EXCEPT ![Mine] = g]
    BY <1>1, <1>3, <1>5
  <2> QED
    BY <1>4, <2>1, HandSet DEF JobsTyped
<1>8. JobsTyped'
  <2>1. HandOK(g, version, said)
    BY <1>4, <1>6 DEF HandOK
  <2> QED
    BY <1>2, <1>4, <1>7, <2>1 DEF JobsTyped
<1>9. QueueOK(queue', h, said) /\ Asks(queue, queue', "extract", t)
  <2>1. t \in 1 .. said /\ t \in Nat /\ "extract" \in JobTasks /\ said <= said
    BY <1>4 DEF JobTasks
  <2> QED
    BY <1>3, <1>4, <2>1, AskedOK
<1>10. JobsQueued'
  <2>1. QueueOK(queue', g, said)
    BY <1>4, <1>6, <1>9 DEF QueueOK
  <2> QED
    BY <1>2, <1>7, <2>1 DEF JobsQueued
<1>11. Reading' /\ InTurn'
  BY <1>2, <1>4 DEF Reading, InTurn
<1>12. DigestInv'
  <2>1. DigestOK(digests, facts, hand'[Mine])
    BY <1>6, <1>7, IdleDigest DEF JobsInv, DigestInv
  <2>2. Awaited(queue) => Awaited(queue')
    BY <1>9 DEF Awaited, Asks
  <2>3. ~AsksLater(hand[Mine], version)
    BY <1>1, <1>2 DEF AsksLater
  <2> QED
    BY <1>2, <2>1, <2>2, <2>3 DEF JobsInv, DigestInv, Fresh
<1> QED
  BY <1>8, <1>10, <1>11, <1>12 DEF JobsInv

LEMMA PageDoneStep ==
    ASSUME HeardOnce, JobsInv, NEW r \in Extractors, Extract!PageDone(r) PROVE JobsInv'
<1>0. r = Mine
  BY OneRunner
<1>1. PICK h : h = hand[Mine]
  OBVIOUS
<1>2. /\ h.at = "page" /\ queue' = Extract!Done(queue, h.job)
      /\ hand' = [hand EXCEPT ![Mine] = Extract!Idle]
      /\ said' = said /\ version' = version /\ facts' = facts /\ read' = read
      /\ digests' = digests /\ forgotten' = forgotten /\ faults' = faults
      /\ late' = late /\ unasked' = unasked
  BY <1>0, <1>1 DEF Extract!PageDone, Extract!history
<1>3. /\ JobsTyped /\ QueueOK(queue, h, said) /\ h.job.task = "reextract" /\ version # 1
  BY <1>1, <1>2, SweepAt
<1>4. hand'[Mine] = Extract!Idle /\ hand' = [x \in Extractors |-> hand'[Mine]]
  BY <1>2, <1>3, HandSet DEF JobsTyped
<1>5. QueueOK(queue', Extract!Idle, said) /\ Serves(queue, queue', h.job.task, h.job.turn)
  BY <1>2, <1>3, ServedOK
<1>6. JobsTyped' /\ JobsQueued'
  <2>1. HandOK(hand'[Mine], version, said)
    BY <1>4 DEF HandOK
  <2> QED
    BY <1>2, <1>3, <1>4, <1>5, <2>1 DEF JobsTyped, JobsQueued
<1>7. Reading' /\ InTurn'
  BY <1>2, <1>3 DEF Reading, InTurn
<1>8. DigestInv'
  <2>1. DigestOK(digests, facts, hand'[Mine])
    BY <1>4, IdleDigest, IdleIs DEF JobsInv, DigestInv
  <2>2. Awaited(queue) => Awaited(queue')
    BY <1>3, <1>5 DEF Awaited, Serves
  <2>3. ~AsksLater(hand[Mine], version)
    BY <1>1, <1>2 DEF AsksLater
  <2> QED
    BY <1>2, <2>1, <2>2, <2>3 DEF JobsInv, DigestInv, Fresh
<1> QED
  BY <1>6, <1>7, <1>8 DEF JobsInv

JobsSame == UNCHANGED Extract!vars
LEMMA JobsStutter == ASSUME HeardOnce, JobsInv, JobsSame PROVE JobsInv'
<1>1. /\ said' = said /\ version' = version /\ facts' = facts /\ read' = read
      /\ queue' = queue /\ hand' = hand
      /\ digests' = digests /\ forgotten' = forgotten /\ faults' = faults
      /\ late' = late /\ unasked' = unasked
  BY DEF JobsSame, Extract!vars
<1>2. JobsTyped' /\ JobsQueued'
  BY <1>1 DEF JobsInv, JobsTyped, JobsQueued
<1>3. Reading' /\ InTurn'
  BY <1>1 DEF JobsInv, Reading, InTurn
<1>4. DigestInv'
  BY <1>1 DEF JobsInv, DigestInv, Fresh
<1> QED
  BY <1>2, <1>3, <1>4 DEF JobsInv

RowsWithin == Len(facts) <= RowLimit
LEMMA JobsStep ==
    HeardOnce /\ JobsInv /\ RowsWithin /\ [Extract!Next]_(Extract!vars) => JobsInv'
<1> SUFFICES ASSUME HeardOnce, JobsInv, RowsWithin, [Extract!Next]_(Extract!vars) PROVE JobsInv'
  OBVIOUS
<1>0. RowLimit \in Int /\ Len(facts) <= RowLimit
  BY DEF HeardOnce, RowsWithin
<1>1. CASE Extract!Say
  BY <1>1, SayStep
<1>2. CASE Extract!Upgrade
  BY <1>2, UpgradeStep
<1>3. CASE Extract!Schedule
  BY <1>3, ScheduleStep
<1>4. CASE Extract!Forget
  BY <1>4, NothingForgotten
<1>5. ASSUME NEW r \in Extractors, Extract!Run(r) PROVE JobsInv'
  <2>1. CASE Extract!Reclaim(r)
    BY <2>1, ReclaimStep
  <2>2. CASE Extract!ClaimExtract(r)
    BY <2>2, ClaimExtractStep
  <2>3. CASE Extract!Emit(r)
    BY <2>3, EmitStep
  <2>4. CASE Extract!Record(r)
    BY <2>4, RecordStep
  <2>5. CASE Extract!AskDigest(r)
    BY <2>5, AskDigestStep
  <2>6. CASE Extract!ClaimDigest(r)
    BY <1>0, <2>6, ClaimDigestStep
  <2>7. CASE Extract!RetractDigest(r)
    BY <2>7, RetractDigestStep
  <2>8. CASE Extract!AssertDigest(r)
    BY <2>8, AssertDigestStep
  <2>9. CASE Extract!ClaimReextract(r)
    BY <2>9, ClaimReextractStep
  <2>10. CASE Extract!AskAgain(r)
    BY <2>10, AskAgainStep
  <2>11. CASE Extract!PageDone(r)
    BY <2>11, PageDoneStep
  <2> QED
    BY <1>5, <2>1, <2>2, <2>3, <2>4, <2>5, <2>6, <2>7, <2>8, <2>9, <2>10, <2>11 DEF Extract!Run
<1>6. ASSUME NEW r \in Extractors, Extract!Interrupt(r) PROVE JobsInv'
  BY <1>6, InterruptStep
<1>7. CASE UNCHANGED Extract!vars
  BY <1>7, JobsStutter DEF JobsSame
<1> QED
  BY <1>1, <1>2, <1>3, <1>4, <1>5, <1>6, <1>7 DEF Extract!Next

LEMMA JobsAreTyped == ASSUME HeardOnce, JobsInv PROVE Extract!TypeOK
<1>1. /\ Cardinality(Turns) \in Nat /\ Turns = 1 .. Cardinality(Turns)
      /\ Extractors = {Mine}
  BY DEF HeardOnce
<1>2. JobsTyped
  BY DEF JobsInv
<1>3. Extract!Cardinality(Turns) = Cardinality(Turns)
  BY CountedAlike DEF SameSize
<1>4. \A f \in Extract!Told : f.turn \in Turns /\ f.status \in {"active", "superseded", "retracted"}
  <2> SUFFICES ASSUME NEW f \in Extract!Told
               PROVE  f.turn \in Turns /\ f.status \in {"active", "superseded", "retracted"}
    OBVIOUS
  <2>1. PICK i \in DOMAIN facts : f = facts[i]
    BY DEF Extract!Told, Extract!ToSet
  <2>2. f \in FactRow
    BY <1>2, <2>1 DEF JobsTyped
  <2> QED
    BY <2>2 DEF FactRow
<1>5. read \subseteq Turns \X Versions
  <2>1. said \in 0 .. Cardinality(Turns) /\ read \subseteq (1 .. said) \X Versions
    BY <1>2 DEF JobsTyped
  <2>2. 1 .. said \subseteq Turns
    BY <1>1, <2>1
  <2> QED
    BY <2>1, <2>2
<1>6. hand[Mine].at \in {"idle", "emit", "ask", "digest", "page"}
  <2>1. HandOK(hand[Mine], version, said)
    BY <1>2 DEF JobsTyped
  <2> QED
    BY <2>1, IdleIs DEF HandOK
<1> QED
  BY <1>1, <1>2, <1>3, <1>4, <1>5, <1>6 DEF Extract!TypeOK, JobsTyped

LEMMA QuietJobs ==
    ASSUME HeardOnce, JobsInv, Extract!Quiet
    PROVE  Requests(queue) = {} /\ hand[Mine].at = "idle"
<1>1. Requests(queue) = {}
  BY DEF Extract!Quiet, Requests
<1>2. hand[Mine] = Extract!Idle
  BY <1>1 DEF JobsInv, JobsQueued, QueueOK
<1> QED
  BY <1>1, <1>2, IdleIs

LEMMA LatestIsBelieved == ASSUME HeardOnce, JobsInv PROVE Extract!LatestWins
<1> SUFFICES ASSUME Extract!Quiet, version = 1,
                    NEW a, NEW t \in Turns, t \in Extract!LastSaying(a),
                    \A u \in late : Extract!Says(u, a) = {}
             PROVE  {f.item : f \in {g \in Extract!Active(facts) : g.item[1] = a}} = Extract!Says(t, a)
  BY DEF Extract!LatestWins, Extract!LatestBut
<1>1. ReadingOK(said, facts, read, late, queue, hand[Mine])
  BY DEF JobsInv, Reading
<1>2. said \in Nat
  BY DEF JobsInv, JobsTyped, HeardOnce
<1>3. ReadOf(read, said) = 1 .. said
  <2>1. ASSUME NEW u \in 1 .. said, <<u, 1>> \notin read PROVE FALSE
    <3>1. <<"extract", u>> \in Requests(queue)
      BY <1>1, <2>1 DEF ReadingOK
    <3>2. Requests(queue) = {}
      BY QuietJobs
    <3> QED
      BY <3>1, <3>2
  <2> QED
    BY <2>1 DEF ReadOf
<1>4. \A u : Extract!Says(u, a) = Tells(u, a)
  BY DEF Extract!Says, Extract!Items, Tells
<1>5. /\ t \in 1 .. said /\ Tells(t, a) # {}
      /\ \A u \in t + 1 .. said : Tells(u, a) = {}
  BY <1>4 DEF Extract!LastSaying
<1>6. Values(facts, a) = Tells(t, a)
  <2>1. Believed(facts, said, 1 .. said, late)
    BY <1>1, <1>3 DEF ReadingOK
  <2>2. \A u \in 1 .. said : t < u => Tells(u, a) = {}
    BY <1>2, <1>5
  <2>3. \A u \in late : Tells(u, a) = {}
    BY <1>4
  <2> QED
    BY <1>5, <2>1, <2>2, <2>3 DEF Believed
<1> QED
  BY <1>4, <1>6 DEF Values, Of

LEMMA TurnsInTurn == ASSUME HeardOnce, JobsInv PROVE Extract!ReadInTurn
BY DEF JobsInv, InTurn, InTurnOK, Extract!ReadInTurn

LEMMA DigestIsHonest ==
    ASSUME HeardOnce, JobsInv PROVE Extract!OneDigest /\ Extract!DigestTellsFacts
<1>1. Extract!Shown = ShownOf(digests)
  BY DEF Extract!Shown, ShownOf
<1>2. DigestOK(digests, facts, hand[Mine]) /\ Fresh /\ facts \in Seq(FactRow)
  BY DEF JobsInv, DigestInv, JobsTyped
<1>3. Extract!OneDigest
  <2>1. Cardinality(ShownOf(digests)) = 0 \/ Cardinality(ShownOf(digests)) = 1
    <3>1. CASE ShownOf(digests) = {}
      BY <3>1, FS_EmptySet
    <3>2. CASE ShownOf(digests) # {}
      <4>1. PICK d : d \in ShownOf(digests)
        BY <3>2
      <4>2. ShownOf(digests) = {d}
        BY <1>2, <4>1 DEF DigestOK
      <4>3. Cardinality({d}) = 1
        BY FS_Singleton
      <4> QED
        BY <4>2, <4>3
    <3> QED
      BY <3>1, <3>2
  <2>2. Extract!Cardinality(ShownOf(digests)) = Cardinality(ShownOf(digests))
    BY CountedAlike DEF SameSize
  <2>3. Extract!Cardinality(Extract!Shown) <= 1
    BY <1>1, <2>1, <2>2
  <2> QED
    BY <2>3 DEF Extract!OneDigest
<1>4. ASSUME Extract!Quiet, ~unasked, faults = 0 \/ version = 1 PROVE Telling(digests, facts)
  <2>1. Requests(queue) = {} /\ hand[Mine].at = "idle"
    BY <1>4, QuietJobs
  <2>2. ~Awaited(queue) /\ ~AsksLater(hand[Mine], version)
    BY <2>1 DEF Awaited, AsksLater
  <2>3. ~(faults # 0 /\ Untold(said, read))
    <3>1. ASSUME faults # 0, Untold(said, read) PROVE FALSE
      <4>1. PICK t \in 1 .. said : <<t, 1>> \notin read
        BY <3>1 DEF Untold
      <4>2. <<"extract", t>> \in Requests(queue)
        BY <1>4, <3>1, <4>1 DEF JobsInv, Reading, ReadingOK
      <4> QED
        BY <2>1, <4>2
    <3> QED
      BY <3>1
  <2> QED
    BY <1>2, <1>4, <2>2, <2>3 DEF Fresh
<1>5. Extract!Cardinality(Extract!Active(facts)) < MinFacts <=> ~Enough(facts)
  <2>1. Cardinality(Extract!Active(facts)) \in Nat /\ MinFacts \in Nat
    BY <1>2, ActiveFinite, FS_CardinalityType DEF HeardOnce
  <2>2. Extract!Cardinality(Extract!Active(facts)) = Cardinality(Extract!Active(facts))
    BY CountedAlike DEF SameSize
  <2> QED
    BY <2>1, <2>2 DEF Enough
<1>6. Extract!DigestTellsFacts
  BY <1>1, <1>4, <1>5 DEF Extract!DigestTellsFacts, Telling
<1> QED
  BY <1>3, <1>6

\* With one runner, turns that tell one value of an attribute, nothing the
\* agent forgets and no more rows than the digest job reads, the jobs of
\* _task_extract and _task_digest leave what the last turn said, but where a
\* job that lay under its dead worker's lease read its turn late; they read
\* the turns in order where none died; and they leave at most one digest,
\* which tells the active facts once no job is left, whatever died on the way
\* but between a turn's record and its request.
THEOREM DigestsTellFacts ==
    HeardOnce => (Extract!Spec /\ [](Len(facts) <= RowLimit) => []DigestHonest)
<1> SUFFICES ASSUME HeardOnce PROVE Extract!Spec /\ []RowsWithin => []DigestHonest
  BY DEF RowsWithin
<1>1. Extract!Init => JobsInv
  BY JobsStart
<1>2. JobsInv /\ RowsWithin /\ [Extract!Next]_(Extract!vars) => JobsInv'
  BY JobsStep
<1>3. JobsInv => DigestHonest
  BY JobsAreTyped, LatestIsBelieved, TurnsInTurn, DigestIsHonest DEF DigestHonest
<1> QED
  BY <1>1, <1>2, <1>3, PTL DEF Extract!Spec
=============================================================================
