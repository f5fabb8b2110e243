------------------------------ MODULE MCQueue -------------------------------
(* TLC instances of the work that is done in the background: the queue of   *)
(* jobs, and one drain of it.  They share no state here, because the drain  *)
(* may find any queue, so a behaviour is one of one of them: part says of   *)
(* which, and the others rest.  The queue is there twice: two threads of    *)
(* one process drain it, or one process drains it while another, whose      *)
(* write lock is its own, only adds to it.                                  *)
EXTENDS QueueParts, TLC

CONSTANTS
    Parts,  \* the components looked at
    gateway, cron, t1, t2, extract, digest, embed

VARIABLES
    part,
    jobs2, nextId2, txn2, held2, tries2, owed2, crashes2    \* the second queue

(* One process with two threads, or two processes with one thread each.     *)
OneProcess == (t1 :> gateway) @@ (t2 :> gateway)
TwoProcesses == (t1 :> gateway) @@ (t2 :> cron)

(* A claim of any task, or of one class.                                    *)
AnyTask == {Works}
ByClass == {Works, Works \cap {extract}, Works \cap {embed}, Works \cap {digest}}

(* The queue of a gateway that drains and a dashboard that only enqueues,   *)
(* and no embed jobs of its own: those it may re-arm are the gateway's.     *)
Beside == INSTANCE JobQueue
    WITH ProcOf <- TwoProcesses, Procs <- {gateway, cron}, Workers <- {t1}, EmbedWorks <- {},
         jobs <- jobs2, nextId <- nextId2, txn <- txn2, held <- held2, tries <- tries2,
         owed <- owed2, crashes <- crashes2
besideVars == <<jobs2, nextId2, txn2, held2, tries2, owed2, crashes2>>

-----------------------------------------------------------------------------
(* A component rests in one of its initial states. *)
DrainRests ==
    /\ budget = 0 /\ phase = "over" /\ at = 1 /\ progressed = FALSE /\ dry = {} /\ spent = {}
    /\ shares = [c \in Drain!Classes |-> 0] /\ left = shares /\ ran = shares

PartsInit ==
    /\ part \in Parts
    /\ Init /\ Beside!Init
    /\ IF part = "drain" THEN Drain!Init ELSE DrainRests

PartsNext ==
    \/ part = "queue" /\ Next /\ UNCHANGED <<part, besideVars, drainVars>>
    \/ part = "beside" /\ Beside!Next /\ UNCHANGED <<part, vars, drainVars>>
    \/ part = "drain" /\ Drain!Next /\ UNCHANGED <<part, vars, besideVars>>

PartsSpec == PartsInit /\ [][PartsNext]_<<part, vars, besideVars, drainVars>>

(* Both fair: what is asked of the queue is asked while its part runs.      *)
FairPartsSpec ==
    /\ PartsSpec
    /\ \A i \in Ids : WF_vars(part = "queue" /\ TimePasses(i))
    /\ \A t \in Threads :
           /\ WF_vars(part = "queue" /\ (EnqueueRearm(t) \/ EnqueueInsert(t) \/ EnqueueRefused(t)))
           /\ WF_vars(part = "queue" /\ ClaimCommit(t))
           /\ WF_vars(part = "queue" /\ ReclaimCommit(t))
           /\ SF_vars(part = "queue" /\ (Succeed(t) \/ Fail(t) \/ \E b \in BOOLEAN : Defer(t, b)))
    /\ \A i \in Ids :
           SF_vars(part = "queue" /\ \E t \in Threads, tasks \in Filters : ClaimRow(t, i, tasks))
    /\ SF_vars(part = "queue" /\ \E t \in Workers : ReclaimProbe(t, "builtin"))
    /\ WF_drainVars(part = "drain" /\ Drain!Next)

-----------------------------------------------------------------------------
(* What another process adds between two statements of the one that drains  *)
(* is not lost either, although both may insert a row for one work; and a   *)
(* row it is about to insert gets no parent that retention takes away       *)
(* between its probe and its insert.                                        *)
BesideKept == Beside!TypeOK /\ Beside!RequestKept /\ Beside!DepsResolve

(* Every request is served, no row stays with a worker that is gone, and a  *)
(* drain returns.                                                           *)
AllServed == RequestServed /\ AbandonedRecovered /\ Drain!Returns
=============================================================================
