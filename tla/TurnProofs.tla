------------------------------ MODULE TurnProofs ------------------------------
(***************************************************************************)
(* Proofs about a session and its turns, for every number of turns,        *)
(* crashes, failing handlers, rewinds and starting processes.              *)
(***************************************************************************)
EXTENDS Sessions, FiniteSetTheorems, TLAPS

-----------------------------------------------------------------------------
(* Type correctness *)

\* The turn whose extraction is under way was captured, and once its record is
\* written it counts as extracted, until its job is settled.
InHand ==
    /\ at["worker"] = "emit" => turn \in 1 .. n
    /\ at["worker"] \in {"watermark", "advance", "complete"} => turn \in extracted

\* Of the initial state.
LEMMA TypeInit == Init => TypeOK /\ InHand
  <1>. SUFFICES ASSUME Init PROVE TypeOK /\ InHand
    OBVIOUS
  <1>1. IsFiniteSet({}) /\ Cardinality({}) = 0
    BY FS_EmptySet
  <1>2. 0 \in 0 .. 0 /\ 0 \in 0 .. MaxTurns /\ 0 \in 0 .. MaxCrashes
        /\ 0 \in 0 .. MaxRewinds /\ 0 \in 0 .. MaxStarts /\ 0 <= MaxFailures
    BY BoundsAssumption
  <1>. QED  BY <1>1, <1>2, BoundsAssumption DEF Init, TypeOK, InHand, NoRow, None, Parties

\* Of every step of finalize_session.
LEMMA TypeFinalize ==
    ASSUME TypeOK, InHand, NEW t \in Parties, Finalize(t)
    PROVE  TypeOK' /\ InHand'
  <1>. USE BoundsAssumption DEF TypeOK, InHand, Parties, Live, Done
  <1>1. CASE FinalizeRead(t)
    BY <1>1 DEF FinalizeRead, row, log, summary, locals, history,
         bounds, Finish, Load
  <1>2. CASE FinalizePending(t)
    BY <1>2 DEF FinalizePending, row, log, summary, locals,
         history, bounds, Load, Highest
  <1>3. CASE FinalizeEnqueue(t)
    BY <1>3 DEF FinalizeEnqueue, row, log, summary, locals,
         history, bounds
  <1>4. CASE FinalizeSummarize(t)
    BY <1>4 DEF FinalizeSummarize, row, log, summary, locals,
         history, bounds, Goto
  <1>5. CASE FinalizeUpsert(t)
    BY <1>5 DEF FinalizeUpsert, row, log, summary, locals,
         history, bounds, Finish, Load
  <1>. QED  BY <1>1, <1>2, <1>3, <1>4, <1>5 DEF Finalize

\* Of every step of the worker, the host, the clock and the processes.
LEMMA TypeStep ==
    ASSUME TypeOK, InHand, [Next]_vars
    PROVE  TypeOK' /\ InHand'
  <1>. USE BoundsAssumption DEF TypeOK, InHand, Parties, Live, Done, row,
       log, summary,
                                locals, history, bounds
  <1>1. CASE TurnStart
    BY <1>1 DEF TurnStart, Touch
  <1>2. CASE Observe
    BY <1>2 DEF Observe, Goto
  <1>3. CASE ObserveTouch
    BY <1>3 DEF ObserveTouch, Touch, Goto
  <1>4. CASE RewindRead
    BY <1>4 DEF RewindRead, Load
  <1>5. CASE RewindWrite
    BY <1>5 DEF RewindWrite, Finish, Load
  <1>6. CASE SwitchFromParent
    BY <1>6 DEF SwitchFromParent
  <1>7. CASE SessionEnd
    BY <1>7 DEF SessionEnd, Goto
  <1>8. CASE Recover
    BY <1>8 DEF Recover, Goto
  <1>9. CASE ExtractAgain
    BY <1>9 DEF ExtractAgain
  <1>10. CASE ExtractSkip
    BY <1>10 DEF ExtractSkip, Abandoned
  <1>11. CASE ExtractStart
    BY <1>11 DEF ExtractStart, Abandoned, Goto
  <1>12. CASE ExtractRecord
    BY <1>12 DEF ExtractRecord, Goto
  <1>13. CASE ExtractFail
    BY <1>13 DEF ExtractFail, Goto
  <1>14. CASE WatermarkRead
    BY <1>14 DEF WatermarkRead, Goto
  <1>15. CASE WatermarkWrite
    BY <1>15 DEF WatermarkWrite, Goto
  <1>16. CASE ExtractComplete
    BY <1>16 DEF ExtractComplete, Goto
  <1>17. CASE SummarizeRead
    BY <1>17 DEF SummarizeRead, Load
  <1>18. CASE SummarizeWrite
    <2>1. index' \in 0 .. n' \cup {None} /\ n' = n
      BY <1>18 DEF SummarizeWrite
    <2>2. high' = [high EXCEPT !["worker"] = 0] /\ high' \in [Parties -> 0 .. n]
      BY <1>18 DEF SummarizeWrite, Finish, Load
    <2>3. at' = [at EXCEPT !["worker"] = "idle"] /\ summarize' = FALSE
      BY <1>18 DEF SummarizeWrite, Finish, Load
    <2>4. UNCHANGED <<row, log, todo, turn, history, bounds>>
      BY <1>18 DEF SummarizeWrite
    <2>. HIDE DEF Parties
    <2>. QED  BY <2>1, <2>2, <2>3, <2>4 DEF Parties
  <1>19. CASE ReaperList
    BY <1>19 DEF ReaperList, Goto, Reapable
  <1>20. CASE ReaperMarkIdle
    BY <1>20 DEF ReaperMarkIdle, Goto
  <1>21. CASE Backfill
    BY <1>21 DEF Backfill, Backfillable
  <1>22. CASE TimePasses
    BY <1>22 DEF TimePasses
  <1>23. CASE Crash
    BY <1>23 DEF Crash
  <1>24. CASE OtherProcessStarts
    BY <1>24 DEF OtherProcessStarts, Goto
  <1>25. CASE \E t \in Parties : Finalize(t)
    BY <1>25, TypeFinalize
  <1>26. CASE UNCHANGED vars
    BY <1>26 DEF vars
  <1>. QED
    BY <1>1, <1>2, <1>3, <1>4, <1>5, <1>6, <1>7, <1>8, <1>9, <1>10, <1>11, <1>12, <1>13, <1>14,
       <1>15, <1>16, <1>17, <1>18, <1>19, <1>20, <1>21, <1>22, <1>23, <1>24, <1>25, <1>26
       DEF Next, HostStep, Extract, WorkerStep

\* Every reachable state is well typed: in particular no watermark, rewind point,
\* queue or summary names a turn that was never captured.
THEOREM TypeCorrect == Spec => []TypeOK
  <1>1. Init => TypeOK /\ InHand
    BY TypeInit
  <1>2. TypeOK /\ InHand /\ [Next]_vars => TypeOK' /\ InHand'
    BY TypeStep
  <1>. QED  BY <1>1, <1>2, PTL DEF Spec

-----------------------------------------------------------------------------
(* No turn is lost *)

\* Of every step: a job is settled only for a turn that is recorded, or that
\* failed, and nothing else removes a turn from the three sets.
LEMMA NoTurnLostStep ==
    ASSUME TypeOK, InHand, NoTurnLost, [Next]_vars
    PROVE  NoTurnLost'
  <1>1. CASE UNCHANGED log /\ UNCHANGED failed
    BY <1>1 DEF NoTurnLost, log
  <1>2. CASE Observe
    <2>1. 1 .. (n + 1) = (1 .. n) \cup {n + 1}
      BY DEF TypeOK
    <2>. QED  BY <1>2, <2>1 DEF Observe, NoTurnLost
  <1>3. CASE ExtractAgain
    BY <1>3 DEF ExtractAgain, NoTurnLost, history
  <1>4. CASE ExtractSkip
    BY <1>4 DEF ExtractSkip, NoTurnLost, history
  <1>5. CASE ExtractRecord
    BY <1>5 DEF ExtractRecord, NoTurnLost, history
  <1>6. CASE ExtractFail
    BY <1>6 DEF ExtractFail, NoTurnLost
  <1>7. CASE ExtractComplete
    BY <1>7 DEF ExtractComplete, NoTurnLost, InHand, history
  <1>8. ASSUME NEW t \in Parties, Finalize(t)
        PROVE  NoTurnLost'
    <2>1. CASE FinalizeEnqueue(t)
      BY <2>1 DEF FinalizeEnqueue, NoTurnLost, history
    <2>2. CASE FinalizeRead(t) \/ FinalizePending(t) \/ FinalizeSummarize(t) \/ FinalizeUpsert(t)
      BY <2>2, <1>1 DEF FinalizeRead, FinalizePending, FinalizeSummarize,
           FinalizeUpsert,
                        log, history
    <2>. QED  BY <1>8, <2>1, <2>2 DEF Finalize
  <1>9. CASE TurnStart \/ ObserveTouch \/ RewindRead \/ RewindWrite \/ SwitchFromParent
             \/ SessionEnd \/ Recover
    BY <1>9, <1>1 DEF TurnStart, ObserveTouch, RewindRead, RewindWrite,
         SwitchFromParent,
                      SessionEnd, Recover, log, history
  <1>10. CASE ExtractStart \/ WatermarkRead \/ WatermarkWrite \/ SummarizeRead
              \/ SummarizeWrite \/ ReaperList \/ ReaperMarkIdle \/ Backfill
    BY <1>10, <1>1 DEF ExtractStart, WatermarkRead, WatermarkWrite,
         SummarizeRead,
                       SummarizeWrite, ReaperList, ReaperMarkIdle, Backfill, log, history
  <1>11. CASE TimePasses \/ Crash \/ OtherProcessStarts \/ UNCHANGED vars
    BY <1>11, <1>1 DEF TimePasses, Crash, OtherProcessStarts, vars,
         log, history
  <1>. QED
    BY <1>2, <1>3, <1>4, <1>5, <1>6, <1>7, <1>8, <1>9, <1>10, <1>11
       DEF Next, HostStep, Extract, WorkerStep, Parties

\* I7, I12: whatever threads interleave and whenever the process dies, a captured
\* turn is recorded, queued, or its own handler raised.
THEOREM TurnsAreKept == Spec => []NoTurnLost
  <1>1. Init => TypeOK /\ InHand /\ NoTurnLost
    <2>1. Init => NoTurnLost
      BY DEF Init, NoTurnLost
    <2>. QED  BY <2>1, TypeInit
  <1>2. TypeOK /\ InHand /\ NoTurnLost /\ [Next]_vars
        => TypeOK' /\ InHand' /\ NoTurnLost'
    BY TypeStep, NoTurnLostStep
  <1>. QED  BY <1>1, <1>2, PTL DEF Spec
=============================================================================
