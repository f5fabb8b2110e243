----------------------------- MODULE ModelParts -----------------------------
(***************************************************************************)
(* What asks a model that may be away, side by side: the requests that     *)
(* ride on the host's own model calls, of which this module is an          *)
(* extension, and the vectors the embedding endpoint makes.  They share no *)
(* state; the beliefs that have a vector are those whose aliases are asked *)
(* for.                                                                    *)
(***************************************************************************)
EXTENDS HostModel

CONSTANTS
    Summaries,      \* of Vectors: sessions with a summary; the rest as there
    Lost, Restated, Order, Workers, Models, Budget, MaxTurns, MaxOutages, MaxSwitches, MaxReasserts

VARIABLES
    standing, text, turns, vec, job, at, model, live, cooling, endpoint, refused, kept, spent

Vector == INSTANCE Vectors WITH Sessions <- Summaries
vectorVars == <<standing, text, turns, vec, job, at, model, live, cooling, endpoint, refused, kept, spent>>

-----------------------------------------------------------------------------
(* A vector that is not looked at again is right, and none is missing.      *)
CurrentIsTrue ==
    Vector!TypeOK /\ Vector!HonestTag /\ Vector!CurrentIsTrue /\ Vector!OnlyRefusedHoles

(* Of the requests, HostModel defines what is kept: AppliedWell. *)
=============================================================================
