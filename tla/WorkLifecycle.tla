---------------------------- MODULE WorkLifecycle ----------------------------
(***************************************************************************)
(* What the curation queue promises to whoever asks it for work: a unit of *)
(* work that was requested waits until a worker starts it, runs in one     *)
(* place at a time, and either ends or waits again.  It never stops        *)
(* waiting unrun and never starts unasked.                                 *)
(***************************************************************************)
EXTENDS FiniteSets

CONSTANT Works

VARIABLES
    waiting,  \* the works requested and not yet started
    running   \* the works a worker has started and nobody has settled

lifecycle == <<waiting, running>>

Init == waiting = {} /\ running = {}

Request(w) ==
    /\ w \notin waiting \cup running
    /\ waiting' = waiting \cup {w}
    /\ UNCHANGED running

Start(w) ==
    /\ w \in waiting
    /\ waiting' = waiting \ {w}
    /\ running' = running \cup {w}

\* A worker settles its work, or one sweep gives back or gives up the works of
\* several workers that died.
Settle(retried, ended) ==
    /\ retried \cap ended = {}
    /\ running' = running \ (retried \cup ended)
    /\ waiting' = waiting \cup retried

Next ==
    \/ \E w \in Works : Request(w) \/ Start(w)
    \/ \E retried, ended \in SUBSET running : Settle(retried, ended)

Spec == Init /\ [][Next]_lifecycle
=============================================================================
