------------------------------ MODULE MCModels ------------------------------
(* TLC instances of what asks a model that may be away: the requests that   *)
(* ride on the host's own model calls, and the vectors the embedding        *)
(* endpoint makes.  They share no state, so a behaviour is one of one of    *)
(* them: part says of which, and the other rests.                           *)
EXTENDS ModelParts

CONSTANTS Parts     \* the components looked at

VARIABLES part

(* Every belief and then a session's summary, as the heal scans them.       *)
ThenSummaries == SetToSeq(Beliefs) \o SetToSeq(Summaries)

-----------------------------------------------------------------------------
(* A component rests in one of its initial states. *)
PartsInit ==
    /\ part \in Parts
    /\ Init
    /\ Vector!Init /\ (part # "vectors" => model = "m1" /\ live /\ endpoint = "up")

PartsNext ==
    \/ part = "host" /\ Next /\ UNCHANGED <<part, vectorVars>>
    \/ part = "vectors" /\ Vector!Next /\ UNCHANGED <<part, vars>>

VectorWork(w) ==
    \/ Vector!SummarizeWrite(w) \/ Vector!EmbedAnswered(w) \/ Vector!EmbedDeferred(w)
    \/ Vector!EmbedRefused(w) \/ Vector!EmbedReturn(w)

(* The fairness of either, asked of its own part.                           *)
PartsSpec ==
    /\ PartsInit /\ [][PartsNext]_<<part, vars, vectorVars>>
    /\ \A s \in Sessions :
        /\ SF_vars(part = "host" /\ PreLook(s))
        /\ WF_vars(part = "host" /\ (PreTake(s) \/ PreMark(s)))
        /\ SF_vars(part = "host" /\ TurnLook(s))
        /\ WF_vars(part = "host" /\ (TurnResolve(s) \/ Drain(s) \/ TurnOffer(s)))
    /\ WF_vectorVars(part = "vectors" /\ Vector!CooldownOver)
    /\ WF_vectorVars(part = "vectors" /\ Vector!EndpointReturns)
    /\ WF_vectorVars(part = "vectors" /\ Vector!EmbedderMismatchHeal)
    /\ WF_vectorVars(part = "vectors" /\ VectorWork("w1"))
    /\ \A t \in Vector!Targets : SF_vectorVars(part = "vectors" /\ Vector!Resolve("w1", t))
    /\ SF_vectorVars(part = "vectors" /\ Vector!SummarizeRead("w1", "s1"))

-----------------------------------------------------------------------------
(* Of CurrentIsTrue the part that only some constants give. *)
NoHole == Vector!NoHole

(* What was asked of a model is answered or given up, and every outage      *)
(* heals.                                                                   *)
EventuallyServed == EveryRequestResolves /\ (part = "vectors" => Vector!Converges)
=============================================================================
