------------------------------ MODULE MCMemory ------------------------------
(* TLC instances of what is believed and what is answered from it: the      *)
(* beliefs and their log, the questions that teach the store, and the gate  *)
(* before a short answer.  They share no state, so a behaviour is one of    *)
(* one of them: part says of which, and the other ones rest.                *)
EXTENDS Beliefs

CONSTANTS
    Parts,          \* the components looked at
    nothing,        \* of Answering: no value
    MaxUnlearned    \* of Answering: how many beliefs are unlearned

VARIABLES
    part,
    said, queued, extracted, value, status, forbidden, unlearning, q,
    pool, facts, links, replaced, chosen

(* Two turns that tell different values. *)
Ask == INSTANCE Answering WITH
    Turns <- {1, 2}, Says <- <<"teacher", "nurse">>, Promoted <- 0, None <- nothing
askVars == <<said, queued, extracted, value, status, forbidden, unlearning, q>>

(* Four turns and a summary row in two sessions, and two facts. *)
Gate == INSTANCE Precision WITH
    Events <- 1 .. 4, Summaries <- {5}, Sessions <- {"a", "b"},
    SessionOf <- <<"a", "b", "a", "b", "a">>, Scores <- {5, 6}, Grid <- 3, HeadSize <- 3,
    Share <- 3, Of <- 5, Margin <- 0, OfMargin <- 1, Facts <- {"x", "y"},
    ToldBy <- [x |-> 3, y |-> 2], ChainMax <- 10, None <- 0
gateVars == <<pool, facts, links, replaced, chosen>>

-----------------------------------------------------------------------------
(* A store that has been told the two facts the rule concludes from. *)
Told ==
    /\ \E t \in Turns :
           log = <<[type |-> "asserted", slot |-> SlotA, value |-> Ground, turn |-> t, wins |-> TRUE],
                   [type |-> "asserted", slot |-> SlotB, value |-> Concluded, turn |-> t,
                    wins |-> TRUE]>>
    /\ proj = Replay(log)
    /\ deriving = {} /\ withdrawing = {} /\ rebuilding = Idle

(* Each component has one initial state, in which it may rest; the beliefs  *)
(* are empty or, as part "told", have two facts.                            *)
PartsInit ==
    /\ part \in Parts /\ Ask!Init /\ Gate!Init
    /\ IF part = "told" THEN Told ELSE Init

PartsNext ==
    \/ part \in {"beliefs", "told"} /\ Next /\ UNCHANGED <<part, askVars, gateVars>>
    \/ part = "ask" /\ Ask!Next /\ UNCHANGED <<part, vars, gateVars>>
    \/ part = "gate" /\ Gate!Next /\ UNCHANGED <<part, vars, askVars>>

PartsSpec ==
    /\ PartsInit /\ [][PartsNext]_<<part, vars, askVars, gateVars>>
    /\ \A t \in {1, 2} : WF_askVars(part = "ask" /\ Ask!Extract(t))

-----------------------------------------------------------------------------
(* What the components keep; one that rests need not be looked at. *)

(* A question that no belief answered is learned from.                      *)
MissIsLearned == Ask!MissIsLearned
UnlearnedStays == Ask!UnlearnedStays
PromotedHolds == Ask!PromotedHolds

(* The gate says the same of a set of candidates however they came, and     *)
(* never of a head that an update is known of.                              *)
GateHonest == [](part = "gate" => Gate!OrderBlind) /\ Gate!LinkedIsNotCut
ReplacedIsNotCut == Gate!ReplacedIsNotCut
=============================================================================
