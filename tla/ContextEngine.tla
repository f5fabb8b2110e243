--------------------------- MODULE ContextEngine ---------------------------
(***************************************************************************)
(* Compaction of a conversation (context.py).  The host hands the window   *)
(* to compress(); the engine keeps the settled prefix of its last pass,    *)
(* the protected head and tail and what else fits, makes every other turn  *)
(* durable, records how to restore it, and puts one note ("handoff") that  *)
(* names the folded turns where they were.                                 *)
(*                                                                         *)
(* Engine memory - the settled prefix and the list of folded turns - is    *)
(* per session and per process; after a restart the list is read back from *)
(* the notes in the window.  The host rotates to a child session after a   *)
(* compaction.  Costs are counted in turns; a tool call and its results    *)
(* are one turn.  Which turns score best is left open.                     *)
(***************************************************************************)
EXTENDS Integers, Sequences, FiniteSets, SequencesExt

CONSTANTS
    ProtectFirst,   \* turns kept at the head of a first pass
    ProtectLast,    \* turns kept at the tail
    Budget,         \* what a pass compacts down to
    Trigger,        \* length of a window the host asks to compact
    MaxTurns,       \* bound: turns of the conversation
    MaxFaults,      \* bound: times the store loses the race for its lock
    MaxRestarts,    \* bound: process restarts
    MaxSessions     \* bound: sessions the conversation is rotated through

VARIABLES
    window,         \* what the host holds: turns and notes
    said,           \* turns so far
    settled,        \* the output of the last pass (_locked_prefix)
    pool,           \* folded turns, oldest first (_handoff_asks, _handoff_steps)
    core,           \* the store is attached
    session,        \* the session the engine serves
    durable,        \* turns with an observed event
    folds,          \* <<session, turn>> of the folded events
    gone,           \* turns a pass without the store dropped
    faults, restarts

store == <<durable, folds>>
vars == <<window, said, settled, pool, core, session, durable, folds, gone, faults, restarts>>

Turn(n) == [is |-> "turn", ids |-> <<n>>]
Note(ids) == [is |-> "note", ids |-> ids]
IsTurn(item) == item.is = "turn"

TurnsOf(w) == {w[i].ids[1] : i \in {j \in DOMAIN w : IsTurn(w[j])}}
NamedIn(w) == UNION {ToSet(w[i].ids) : i \in {j \in DOMAIN w : ~IsTurn(w[j])}}

Smaller(a, b) == IF a < b THEN a ELSE b

(* The items at some positions, in their order. *)
At(items, ixs) ==
    [j \in 1 .. Cardinality(ixs) |->
        items[CHOOSE i \in ixs : Cardinality({h \in ixs : h <= i}) = j]]
TurnsAt(items, ixs) == At(items, {i \in ixs : IsTurn(items[i])})

----------------------------------------------------------------------------
(* What a pass decides *)

(* The window still starts with this much of what the last pass settled.   *)
MatchLocked ==
    Cardinality({k \in 1..Smaller(Len(window), Len(settled)) : SubSeq(window, 1, k) = SubSeq(settled, 1, k)})

(* Most of the budget is settled, or nothing is: start over from the head. *)
RebaseAt(k) == k = 0 \/ 10 * k > 6 * Budget

(* Mutant: a fresh engine copy does not read the notes of the one before.  *)
Adopted_Not(rebase) == pool

(* A rebase takes the earlier notes out; an engine that has no list reads  *)
(* it from them.                                                           *)
Adopted(rebase) ==
    IF rebase /\ pool = <<>>
    THEN FlattenSeq([i \in DOMAIN window |-> IF IsTurn(window[i]) THEN <<>> ELSE window[i].ids])
    ELSE pool

(* What a pass leaves alone, what it decides on, and the list it starts    *)
(* from.                                                                   *)
Plan ==
    LET k == MatchLocked IN
    IF RebaseAt(k)
    THEN [rebase |-> TRUE, locked |-> <<>>, fresh |-> TurnsAt(window, DOMAIN window), pool |-> Adopted(TRUE)]
    ELSE [rebase |-> FALSE, locked |-> SubSeq(window, 1, k),
          fresh |-> SubSeq(window, k + 1, Len(window)), pool |-> pool]

HeadOf(p) == IF p.rebase THEN 1..Smaller(ProtectFirst, Len(p.fresh)) ELSE {}
TailOf(p) == {i \in DOMAIN p.fresh \ HeadOf(p) : i > Len(p.fresh) - ProtectLast}

NeedsFold(p) == Len(p.locked) + Len(p.fresh) > Budget

(* Room for fresh turns, after a place for the note.                       *)
FreshRoom(p) == Budget - Len(p.locked) - (IF NeedsFold(p) THEN 1 ELSE 0)

(* The fresh turns a pass may keep: what is protected as far as it fits,   *)
(* the newest turn first, then whichever score best.                       *)
Keepable(p) ==
    LET required == HeadOf(p) \cup TailOf(p) IN
    {kept \in SUBSET DOMAIN p.fresh :
        /\ Cardinality(kept) <= FreshRoom(p)
        /\ NeedsFold(p) \/ kept = DOMAIN p.fresh
        /\ IF Cardinality(required) <= FreshRoom(p)
           THEN required \subseteq kept
           ELSE kept \subseteq required /\ Len(p.fresh) \in kept}

(* Turns a pass folds, oldest first; an older note among them leaves none. *)
FoldedIds(p, kept) ==
    LET out == TurnsAt(p.fresh, DOMAIN p.fresh \ kept) IN [j \in DOMAIN out |-> out[j].ids[1]]

(* A note names what it may, if the budget leaves a place for it: all that *)
(* was ever folded on a rebase, what this pass folded otherwise.           *)
Handoff(p, kept, ids) ==
    IF ids = <<>> \/ (~NeedsFold(p) /\ Len(p.locked) + Cardinality(kept) = Budget) THEN <<>> ELSE <<Note(ids)>>

(* On a rebase the note follows the head, else the settled prefix.         *)
Compacted(p, kept, ids) ==
    p.locked \o At(p.fresh, kept \cap HeadOf(p)) \o Handoff(p, kept, ids)
             \o At(p.fresh, kept \ HeadOf(p))

FirstPassSmall(p) == p.rebase /\ Len(p.fresh) <= ProtectFirst + ProtectLast

----------------------------------------------------------------------------
(* compress() with the store *)

Compacts == core /\ Len(window) >= Trigger

NothingToFold ==
    /\ Compacts
    /\ LET p == Plan IN FirstPassSmall(p) /\ pool' = p.pool
    /\ UNCHANGED <<window, said, settled, core, session, store, gone, faults, restarts>>

(* Mutant: a fold makes no record of where its chunks are. *)
Archive_NoRecord(ids) == durable' = durable \cup ToSet(ids) /\ folds' = folds

(* _ensure_durable and _fold: the text as observed events, then the record *)
(* that leads from its id to them, under the session being served.         *)
Archive(ids) ==
    /\ durable' = durable \cup ToSet(ids)
    /\ folds' = folds \cup {<<session, n>> : n \in ToSet(ids)}

Compress ==
    /\ Compacts
    /\ LET p == Plan IN
         /\ ~FirstPassSmall(p)
         /\ \E kept \in Keepable(p) :
              LET ids == FoldedIds(p, kept) IN
              /\ Archive(ids)
              /\ pool' = p.pool \o ids
              /\ window' = Compacted(p, kept, IF p.rebase THEN pool' ELSE ids)
    /\ settled' = window'
    /\ UNCHANGED <<said, core, session, gone, faults, restarts>>

(* A pass that cannot archive evicts nothing: the list goes back to what   *)
(* it was and the host keeps its window.                                   *)
Abandoned(p, kept) == window' = window /\ pool' = p.pool

(* Turns are archived in batches, a transaction each: the batches before   *)
(* the one that fails stay.                                                *)
FoldFails ==
    /\ Compacts
    /\ faults < MaxFaults
    /\ faults' = faults + 1
    /\ LET p == Plan IN
         /\ ~FirstPassSmall(p)
         /\ \E kept \in Keepable(p) :
              LET ids == FoldedIds(p, kept) IN
              /\ \E done \in 0..Len(ids) - 1 : Archive(SubSeq(ids, 1, done))
              /\ Abandoned(p, kept)
    /\ UNCHANGED <<said, settled, core, session, gone, restarts>>

(* Without the store the middle is dropped and the note says so.  Earlier  *)
(* notes in the middle go with it.                                         *)
HeuristicKept ==
    {i \in DOMAIN window : i <= ProtectFirst \/ i > Len(window) - ProtectLast}
Heuristic(base) ==
    LET dropped == TurnsOf([i \in 1..Len(window) |-> IF i \in HeuristicKept THEN Note(<<>>) ELSE window[i]])
    IN /\ window' = SubSeq(window, 1, ProtectFirst) \o <<Note(<<>>)>>
                      \o SubSeq(window, Len(window) - ProtectLast + 1, Len(window))
       /\ gone' = gone \cup dropped
       /\ pool' = base

(* A write after the folds fails (the digest, the recall): compress() ends *)
(* in the heuristic, with the list already extended.                       *)
LateFailure ==
    /\ Compacts
    /\ Len(window) > ProtectFirst + ProtectLast
    /\ faults < MaxFaults
    /\ faults' = faults + 1
    /\ LET p == Plan IN
         /\ ~FirstPassSmall(p)
         /\ \E kept \in Keepable(p) :
              /\ FoldedIds(p, kept) # <<>>
              /\ Archive(FoldedIds(p, kept))
              /\ Heuristic(p.pool \o FoldedIds(p, kept))
    /\ UNCHANGED <<said, settled, core, session, restarts>>

(* compress() with no store attached. *)
CompressWithout ==
    /\ ~core
    /\ Len(window) >= Trigger /\ Len(window) > ProtectFirst + ProtectLast
    /\ Heuristic(pool)
    /\ UNCHANGED <<said, settled, core, session, store, faults, restarts>>

(* The retry that a later compress() makes when one is due.                *)
Reinit ==
    /\ ~core
    /\ core' = TRUE
    /\ UNCHANGED <<window, said, settled, pool, session, store, gone, faults, restarts>>

(* should_compress_preflight: candidates are stored ahead of the pass.     *)
Preflight ==
    /\ core
    /\ Len(window) < Trigger /\ Len(window) > Budget
    /\ \E ids \in SUBSET TurnsOf(SubSeq(window, ProtectFirst + 1, Len(window) - ProtectLast)) :
         durable' = durable \cup ids
    /\ UNCHANGED <<window, said, settled, pool, core, session, folds, gone, faults, restarts>>

----------------------------------------------------------------------------
(* The host *)

Say ==
    /\ said < MaxTurns
    /\ Len(window) < Trigger + 1
    /\ said' = said + 1
    /\ window' = Append(window, Turn(said + 1))
    /\ UNCHANGED <<settled, pool, core, session, store, gone, faults, restarts>>

(* on_session_start forgets what belonged to the session before, and its   *)
(* init may lose the race for the lock.                                    *)
SessionStart ==
    /\ settled' = <<>>
    /\ pool' = <<>>
    /\ \/ core' = TRUE /\ faults' = faults
       \/ core' = FALSE /\ faults < MaxFaults /\ faults' = faults + 1

(* After a compaction the conversation goes on in a child session.         *)
Rotate ==
    /\ settled = window /\ window # <<>>
    /\ session < MaxSessions
    /\ session' = session + 1
    /\ SessionStart
    /\ UNCHANGED <<window, said, store, gone, restarts>>

(* The process restarts and resumes the session with the window the host   *)
(* saved.                                                                  *)
Restart ==
    /\ restarts < MaxRestarts
    /\ restarts' = restarts + 1
    /\ SessionStart
    /\ UNCHANGED <<window, said, session, store, gone>>

----------------------------------------------------------------------------
Init ==
    /\ window = <<>> /\ said = 0
    /\ settled = <<>> /\ pool = <<>>
    /\ core = TRUE /\ session = 1
    /\ durable = {} /\ folds = {} /\ gone = {}
    /\ faults = 0 /\ restarts = 0

Pass == NothingToFold \/ Compress \/ FoldFails \/ LateFailure \/ CompressWithout \/ Preflight

Next == Pass \/ Reinit \/ Say \/ Rotate \/ Restart

Spec == Init /\ [][Next]_vars

----------------------------------------------------------------------------
(* Properties *)

TypeOK ==
    /\ said \in 0..MaxTurns
    /\ TurnsOf(window) \subseteq 1..said
    /\ NamedIn(window) \cup ToSet(pool) \subseteq 1..said
    /\ durable \subseteq 1..said /\ gone \subseteq 1..said
    /\ folds \subseteq (1..MaxSessions) \X (1..said)
    /\ core \in BOOLEAN
    /\ session \in 1..MaxSessions /\ faults \in 0..MaxFaults /\ restarts \in 0..MaxRestarts

(* I17: at any time everything that was said is in the window, or can be   *)
(* restored from the events some session folded it as, or went in a pass   *)
(* that had no store and said so.                                          *)
Recoverable(n) == n \in durable /\ \E s \in 1..session : <<s, n>> \in folds
NoneVanished == \A n \in 1..said : n \in TurnsOf(window) \cup gone \/ Recoverable(n)
NothingVanishes == TypeOK /\ NoneVanished

(* A pass that has the store forgets no folded turn, whatever fails in it: *)
(* each stays named in the window or in the engine's list, through         *)
(* rebases, abandoned batches, a note there was no room for and a list     *)
(* read back after a restart.                                              *)
Known == TurnsOf(window) \cup NamedIn(window) \cup ToSet(pool)
RemembersFolds ==
    [][Pass /\ core => \A n \in Known : n \in Known' \/ n \in gone']_vars

(* A pass with the store lands within the budget it was given.             *)
WithinBudget == [][Compress => Len(window') <= Budget]_vars

(* A pass that extends keeps what the provider has cached: the settled     *)
(* prefix is not touched, whatever it folds after it.                      *)
PrefixStays == [][Compress /\ ~RebaseAt(MatchLocked) => IsPrefix(SubSeq(window, 1, MatchLocked), window')]_vars

(* The three together. *)
FoldsNeatly == WithinBudget /\ PrefixStays /\ RemembersFolds

(* "chronicle_expand(span_id) restores a folded turn by its id": every     *)
(* turn a note names can be restored in the session that is reading it.    *)
NamesResolve == \A n \in NamedIn(window) : <<session, n>> \in folds

(* The same of a pass without the store, which takes earlier notes away.   *)
HeuristicKeepsNames ==
    [][CompressWithout => NamedIn(window) \subseteq Known']_vars

(* "a restart must not lose earlier folds": what a note once named stays   *)
(* named or listed when the process restarts.                              *)
RestartKeepsNames ==
    [][Restart => \A n \in ToSet(pool) : n \in TurnsOf(window) \cup NamedIn(window)]_vars
============================================================================
