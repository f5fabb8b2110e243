--------------------------- MODULE MCBackground ----------------------------
(* TLC instances of the background work that goes over a store in pages and *)
(* keeps a cursor: the sweeps, the federation sweep, the write-back of      *)
(* migrated vectors, and the extraction jobs.  The components share no      *)
(* state, so a behaviour is one of one of them: part says of which, and the *)
(* others rest.                                                             *)
EXTENDS BackgroundParts, Sequences

CONSTANTS Parts        \* the components looked at

VARIABLES part

(* Three turns and two extractors.  The second extractor hears a fact in    *)
(* the first turn, where the other heard nothing, so that the anchor of the *)
(* digest moves, and nothing in the last, where the other heard two.        *)
City == <<"city", "paris">>
Moved == <<"city", "rome">>
Job == <<"job", "acme">>
Hearing == << << <<>>, <<City, Job>> >>,
              << <<City>>, <<City>> >>,
              << <<Job, Moved>>, <<>> >> >>

(* Rows to carry back in the order of the walk: the first under a stale     *)
(* spelling of the right model, the second with a text past the old clamp.  *)
Walked == <<1, 2, 3>>

-----------------------------------------------------------------------------
(* A component rests in one of its initial states. *)
SweepsRest == Init /\ eligible = {}
FederateRests == Fed!Init /\ numbering = "serial"

PartsInit ==
    /\ part \in Parts
    /\ Extract!Init /\ Back!Init
    /\ \/ part = "sweeps" /\ Init /\ FederateRests
       \/ part \in {"extract", "back"} /\ SweepsRest /\ FederateRests
       \/ part = "federate" /\ SweepsRest /\ Fed!Init

SweepsOnly == part = "sweeps" /\ UNCHANGED <<part, extractVars, backVars, federateVars>>
ExtractOnly == part = "extract" /\ UNCHANGED <<part, vars, backVars, federateVars>>
BackOnly == part = "back" /\ UNCHANGED <<part, vars, extractVars, federateVars>>
FederateOnly == part = "federate" /\ UNCHANGED <<part, vars, extractVars, backVars>>

PartsNext ==
    \/ SweepsOnly /\ Next
    \/ ExtractOnly /\ Extract!Next
    \/ BackOnly /\ Back!Next
    \/ FederateOnly /\ Fed!Next

PartsSpec ==
    /\ PartsInit /\ [][PartsNext]_<<part, vars, extractVars, backVars, federateVars>>
    /\ \A s \in Sweepers : WF_vars(part = "sweeps" /\ RunStep(s))
    /\ WF_extractVars(part = "extract" /\ Extract!Run(1))
    /\ WF_extractVars(part = "extract" /\ Extract!Schedule)
    /\ WF_backVars(part = "back" /\ Back!Tool)
    /\ WF_federateVars(part = "federate" /\ Fed!Sweep("s1"))

-----------------------------------------------------------------------------
(* What is eventually done; what is kept BackgroundParts defines. *)

(* Every turn is read by the extractor of now, and every row of an external *)
(* table has its pointer and its vector.                                    *)
AllReached == Extract!TurnsRead /\ Fed!Mirrored
=============================================================================
