----------------------------- MODULE QueueParts ------------------------------
(***************************************************************************)
(* The work that is done in the background, side by side: the queue of     *)
(* jobs, of which this module is an extension, and one drain of it.  They  *)
(* share no state: a drain may find any queue.                             *)
(***************************************************************************)
EXTENDS JobQueue

CONSTANTS
    MaxBudget, MaxShare     \* FairDrain

VARIABLES
    budget, shares, phase, at, left, ran, progressed, dry, spent

Drain == INSTANCE FairDrain
drainVars == <<budget, shares, phase, at, left, ran, progressed, dry, spent>>

-----------------------------------------------------------------------------
(* What a drain owes is kept. *)
DrainFair == Drain!TypeOK /\ Drain!DrainFair

(* Of the queue, JobQueue defines what is kept. *)
=============================================================================
