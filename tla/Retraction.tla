----------------------------- MODULE Retraction -----------------------------
(* The clean-up of beliefs about the user that the user never said           *)
(* (scripts/retract_misattributed.py), run beside the agent that goes on     *)
(* writing the store.  The script reads which events hold the user's words,  *)
(* then the justifications, then one table of beliefs after the other; what  *)
(* it decided to retract it appends in batches, waiting for the write lock.  *)
EXTENDS Integers, FiniteSets, FiniteSetsExt, Sequences

CONSTANTS
    Facts,          \* beliefs held up by the user's saying their very text
    Episodes,       \* beliefs held up by any words of the user
    OwnerOf,        \* the owner of each belief, by its place in the order of names
    Captured,       \* events in the log when the script is first started
    Batch,          \* belief ids per `retracted` event
    Retries,        \* appends tried under a held write lock
    Live,           \* whether the agent writes while the script runs
    MaxWrites,      \* bound on what the agent writes
    MaxDeaths       \* bound on runs of the script that die

RowKeys == Facts \cup Episodes
Tables == <<Facts, Episodes>>
Channels == {"transcript", "tool"}

VARIABLES
    log,            \* event |-> the texts the user says in it; absent before it is written
    belief,         \* [active, channels, just, prov] of each belief
    pc,             \* what the script does next
    human,          \* event |-> whether it holds the user's words (first pass)
    just,           \* the justifications as the second pass read them
    todo,           \* beliefs still to retract
    tries,          \* appends of the first batch refused so far
    writes, deaths,
    told,           \* history: beliefs the user had said when the run began
    unsaid          \* history: beliefs that were due for retraction when the
                    \* run began and that the agent left alone since

script == <<pc, human, just, todo, tries>>
agent == <<log, writes>>
vars == <<log, belief, script, writes, deaths, told, unsaid>>

\* The events a belief rests on: its justifications and its provenance, through
\* the assertion to the event that was observed.
Observed(b, justified) == justified[b] \cup belief[b].prov

\* The text of a fact in the user's words of an event; for an episode any words.
Says(e, b) == IF b \in Episodes THEN log[e] # {} ELSE b \in log[e]

\* Every channel a belief came from is transcript extraction.
OnlyExtracted(b) == belief[b].channels = {"transcript"}

Justified == [b \in RowKeys |-> belief[b].just]

Supported(b) == \E e \in Observed(b, Justified) \cap DOMAIN log : Says(e, b)

Told == {b \in RowKeys : belief[b].active /\ Supported(b)}
Due(b) == belief[b].active /\ OnlyExtracted(b) /\ ~Supported(b)

---------------------------------------------------------------------------

Init ==
    \* Turns already captured, and beliefs drawn from any of them, or none.
    /\ log \in [1 .. Captured -> SUBSET Facts]
    /\ \E support \in [RowKeys -> {s \in SUBSET DOMAIN log : Cardinality(s) <= 1}],
          vouched \in {s \in SUBSET RowKeys : Cardinality(s) <= 1},
          assertedOnly \in BOOLEAN :
          belief = [b \in RowKeys |->
                       [active |-> TRUE,
                        channels |-> IF b \in vouched THEN Channels ELSE {"transcript"},
                        just |-> IF assertedOnly THEN {} ELSE support[b],
                        prov |-> IF assertedOnly THEN support[b] ELSE {}]]
    /\ pc = "humans" /\ human = << >> /\ just = << >> /\ todo = {} /\ tries = 0
    /\ writes = 0 /\ deaths = 0
    /\ told = Told
    /\ unsaid = {b \in RowKeys : Due(b)}

NextEvent == Cardinality(DOMAIN log) + 1

(* The agent.                                                               *)

\* A turn is captured, with whatever of the texts the user says in it, and what
\* is extracted from it is asserted: a new support, or the belief again.
AgentTurn ==
    /\ (Live \/ pc = "idle") /\ writes < MaxWrites
    /\ \E words \in SUBSET Facts, b \in RowKeys :
          /\ IF b \in Facts THEN b \in words ELSE words # {}
          /\ log' = Append(log, words)
          /\ belief' = [belief EXCEPT ![b] = [active |-> TRUE,
                           channels |-> IF @.active THEN @.channels \cup {"transcript"}
                                        ELSE {"transcript"},
                           just |-> @.just \cup {NextEvent}, prov |-> @.prov \cup {NextEvent}]]
          /\ unsaid' = unsaid \ {b}
    /\ writes' = writes + 1
    /\ UNCHANGED <<script, deaths, told>>

---------------------------------------------------------------------------
(* The script.                                                              *)

\* human_events: one pass over the observed events, judged by their attribution.
HumanEvents ==
    /\ pc = "humans"
    /\ human' = [e \in DOMAIN log |-> log[e] # {}]
    /\ pc' = "justifications"
    /\ UNCHANGED <<agent, belief, just, todo, tries, deaths, told, unsaid>>

JustificationMap ==
    /\ pc = "justifications"
    /\ just' = Justified
    /\ pc' = "facts"
    /\ UNCHANGED <<agent, belief, human, todo, tries, deaths, told, unsaid>>

Judged_OfProvenance(b) ==
    \E e \in belief[b].prov \cap DOMAIN human : human[e] /\ Says(e, b)

\* _judge: only an event the first pass saw to hold the user's words supports.
Judged(b) ==
    \E e \in Observed(b, just) \cap DOMAIN human : human[e] /\ Says(e, b)

\* A SELECT over one table: every row of it is judged in the same snapshot.
ScanTable(k) ==
    /\ pc = <<"facts", "episodes">>[k]
    /\ todo' = todo \cup {b \in Tables[k] : belief[b].active /\ OnlyExtracted(b) /\ ~Judged(b)}
    /\ pc' = <<"episodes", "group">>[k]
    /\ UNCHANGED <<agent, belief, human, just, tries, deaths, told, unsaid>>

\* apply: the ids are put under their owners, and the store is opened.
Group ==
    /\ pc = "group"
    /\ pc' = "append"
    /\ UNCHANGED <<agent, belief, human, just, todo, tries, deaths, told, unsaid>>

\* The ids of the next event: owners in order of name, the ids of one owner
\* Batch at a time, in the order the scan met them, which is any.
Chunk(ids) ==
    LET mine == {b \in todo : OwnerOf[b] = Min({OwnerOf[c] : c \in todo})}
    IN  ids \in kSubset(Min({Batch, Cardinality(mine)}), mine)

\* _on_retracted: the ids of the event, whatever they rest on by now.
AppendBatch ==
    /\ pc = "append" /\ todo # {}
    /\ \E ids \in SUBSET todo :
          /\ Chunk(ids)
          /\ belief' = [b \in RowKeys |->
                           IF b \in ids THEN [belief[b] EXCEPT !.active = FALSE, !.just = {}]
                           ELSE belief[b]]
          /\ todo' = todo \ ids
    /\ tries' = 0
    /\ UNCHANGED <<agent, pc, human, just, deaths, told, unsaid>>

\* _append_with_retry: the live agent holds the write lock.
Locked ==
    /\ pc = "append" /\ todo # {} /\ Live
    /\ tries + 1 < Retries \/ deaths < MaxDeaths
    /\ tries' = tries + 1
    /\ pc' = IF tries' = Retries THEN "idle" ELSE pc
    /\ deaths' = IF tries' = Retries THEN deaths + 1 ELSE deaths
    /\ UNCHANGED <<agent, belief, human, just, todo, told, unsaid>>

Finish ==
    /\ pc = "append" /\ todo = {}
    /\ pc' = "done"
    /\ UNCHANGED <<agent, belief, human, just, todo, tries, deaths, told, unsaid>>

Die ==
    /\ pc \notin {"idle", "done"} /\ deaths < MaxDeaths
    /\ pc' = "idle" /\ deaths' = deaths + 1
    /\ UNCHANGED <<agent, belief, human, just, todo, tries, told, unsaid>>

\* The operator runs it again, from the start.
Rerun ==
    /\ pc = "idle"
    /\ pc' = "humans" /\ human' = << >> /\ just' = << >> /\ todo' = {} /\ tries' = 0
    /\ told' = Told
    /\ unsaid' = {b \in RowKeys : Due(b)}
    /\ UNCHANGED <<agent, belief, deaths>>

Script ==
    \/ HumanEvents
    \/ JustificationMap
    \/ \E k \in 1 .. 2 : ScanTable(k)
    \/ Group
    \/ AppendBatch
    \/ Finish
    \/ Rerun

Next == AgentTurn \/ Script \/ Locked \/ Die

Spec == Init /\ [][Next]_vars

---------------------------------------------------------------------------

\* A belief the user had said when the script began is never retracted by it,
\* whatever the agent writes meanwhile and wherever an earlier run died.
SaidIsKept == \A b \in told : belief[b].active

\* Nor is a belief retracted whose other channels vouch for it, or one that an
\* event in the log shows the user saying when it is retracted: the script does
\* not look again at what it read, so the agent's turns since can be lost.
OnlyUnsaid ==
    [][\A b \in RowKeys : belief[b].active /\ ~belief'[b].active => Due(b)]_vars

\* A run that ends has retracted every belief that was due when it began and
\* that the agent left alone.
CleanWhenDone == pc = "done" => \A b \in unsaid : ~belief[b].active

\* What the script leaves behind, whatever ran beside it or was cut short.
TakesBackUnsaid == SaidIsKept /\ CleanWhenDone

=============================================================================
