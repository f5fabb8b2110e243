------------------------------ MODULE Beliefs ------------------------------
(***************************************************************************)
(* The belief store as a projection of the event log.                      *)
(*                                                                         *)
(* MemoryStore.append_event stores an event and reduces it in the same     *)
(* transaction, so one action here is one appended event with everything   *)
(* its handler in reducer.py does.  Three things work on the projection    *)
(* beside the log: tools.set_acl and the hourly consistency sweep write    *)
(* rows directly, health prunes old retracted rows, and a rebuild empties *)
(* every projection table and replays the log event by event.  The         *)
(* derivation engine reads its premises and appends what follows from them *)
(* later, while other threads append.                                      *)
(*                                                                         *)
(* One owner and one kind of belief (facts) are kept: a slot stands for    *)
(* (entity, predicate, qualifiers, owner, domain).  Confidence is kept as  *)
(* the one comparison that steers a handler, "wins" of an assertion.       *)
(***************************************************************************)
EXTENDS Integers, FiniteSets, Sequences, SequencesExt

CONSTANTS
    Slots,          \* (entity, predicate, qualifiers, owner, domain) tuples
    Values,         \* texts a fact can have
    Turns,          \* observed events, the source_event of what was extracted
    Agents,         \* principals other than the owner
    Flagged,        \* slots whose domain flags a contradiction for review
    SlotA, SlotB,   \* the two antecedents of the derivation rule
    Ground,         \* the value of SlotA that names the subject of SlotB
    Concluded,      \* the text the rule concludes, a fact of SlotA
    MaxEvents,      \* bound on the length of the log
    LiveRebuild,    \* other threads append while a rebuild is running
    Pruning         \* health prunes retracted rows that are old

ASSUME RuleAssumption ==
    /\ SlotA \in Slots /\ SlotB \in Slots
    /\ Ground \in Values /\ Concluded \in Values

VARIABLES
    log,            \* events: the append-only log
    proj,           \* the projection tables the reducer writes
    deriving,       \* premises the derivation engine read, {} between two runs
    withdrawing,    \* the belief a withdrawal of consent has yet to retract
    rebuilding      \* how many events the running rebuild has replayed, or Idle

vars == <<log, proj, deriving, withdrawing, rebuilding>>

Idle == -1

AssertedId(s, t) == <<"asserted", s, t>>
CorrectedId(s, n) == <<"corrected", s, n>>
DerivedId(p) == <<"derived", p>>

OpenAcl == [private |-> FALSE, allow |-> {}, deny |-> {}]

Empty == [bel |-> <<>>, just |-> {}, con |-> {}]

----------------------------------------------------------------------------
(* Reading the projection *)

Some(S) == CHOOSE x \in S : TRUE

Known(P) == DOMAIN P.bel
ActiveIds(P) == {b \in Known(P) : P.bel[b].status = "active"}

(* Two facts may merge only when they say it of the same thing. *)
InScope(P, b, s) == P.bel[b].slot = s

ActiveIn(P, s) == {b \in ActiveIds(P) : InScope(P, b, s)}

(* What an assertion about the slot finds and may contradict: with no order *)
(* asked for, the row that stands first in the table.                      *)
FirstIn(P, s) ==
    Some({b \in ActiveIn(P, s) : \A c \in ActiveIn(P, s) : P.bel[b].at <= P.bel[c].at})

(* The active fact of the slot with the same text, if there is one. *)
Duplicates(P, s, v) == {b \in ActiveIn(P, s) : P.bel[b].value = v}

(* Dependents that hang on a derivation rule: a rule is a conjunction of    *)
(* its premises.  Every other support names an event, which no belief does. *)
Dependents(just, b) == {j.id : j \in {k \in just : k.support = b}} \ {b}

----------------------------------------------------------------------------
(* What the reducer does to one belief *)

Justify(P, b, support, rule) ==
    [P EXCEPT !.just = @ \cup {[id |-> b, support |-> support, rule |-> rule]}]

SetStatus(P, b, st) == [P EXCEPT !.bel[b].status = st]

(* The place of a row: its own if it was there before, or after all others. *)
PlaceOf(P, b) ==
    IF b \in Known(P) THEN P.bel[b].at ELSE Max({0} \cup {P.bel[c].at : c \in Known(P)}) + 1

(* A duplicate that is active already takes the new row's place. *)
StoredId(P, b, s, v) ==
    IF Duplicates(P, s, v) # {} THEN Some(Duplicates(P, s, v)) ELSE b

Insert(P, b, s, v, st) ==
    IF Duplicates(P, s, v) # {} THEN P
    ELSE [P EXCEPT !.bel = [c \in Known(P) \cup {b} |->
              IF c = b THEN [slot |-> s, value |-> v, status |-> st, acl |-> OpenAcl,
                             at |-> PlaceOf(P, b)]
              ELSE P.bel[c]]]

(* Status, own justifications and open contradictions go together. *)
RetractAll(P, ids) ==
    [bel  |-> [b \in Known(P) |->
                  IF b \in ids THEN [P.bel[b] EXCEPT !.status = "retracted"] ELSE P.bel[b]],
     just |-> {j \in P.just : j.id \notin ids},
     con  |-> {c \in P.con : c \cap ids = {}}]

Retract(P, b) == RetractAll(P, {b})

(* Everything that hangs on b through derivations: the least set with its   *)
(* dependents and theirs.                                                   *)
Fallen(just, b) ==
    LET ids == {j.id : j \in just}
        closed(S) == Dependents(just, b) \subseteq S /\ \A c \in S : Dependents(just, c) \subseteq S
    IN  {d \in ids : \A S \in SUBSET ids : closed(S) => d \in S}

(* Mutant: a derived belief with another support survives its premise. *)
Cascade_KeepsSupported(P, b) ==
    RetractAll(P, {d \in Fallen(P.just, b) : \A j \in P.just : j.id = d => j.support = b})

Cascade(P, b) == RetractAll(P, Fallen(P.just, b))

----------------------------------------------------------------------------
(* Handlers, one per event type *)

ReplaceBy(P, old, b, s, v) == Insert(SetStatus(P, old, "superseded"), b, s, v, "active")

ApplyFactConflict(P, old, e) ==
    LET b == AssertedId(e.slot, e.turn)
        settled == SetStatus(P, old, "superseded")
        winner == StoredId(settled, b, e.slot, e.value)
        loser == StoredId(P, b, e.slot, e.value)
        newer == Justify(ReplaceBy(P, old, b, e.slot, e.value), winner, e.turn, "extraction")
        draft == Justify(Insert(P, b, e.slot, e.value, "draft"), loser, e.turn, "extraction")
        flag(Q, new) == IF new = old THEN Q ELSE [Q EXCEPT !.con = @ \cup {{old, new}}]
    IN  IF P.bel[old].value = e.value THEN Justify(P, old, e.turn, "extraction")
        ELSE IF e.slot \notin Flagged THEN newer
        ELSE IF e.wins THEN flag(newer, winner)
        ELSE flag(draft, loser)

OnAsserted(P, e) ==
    IF ActiveIn(P, e.slot) # {}
    THEN ApplyFactConflict(P, FirstIn(P, e.slot), e)
    ELSE Justify(Insert(P, AssertedId(e.slot, e.turn), e.slot, e.value, "active"),
                 AssertedId(e.slot, e.turn), e.turn, "extraction")

(* Mutant: the corrected row gets no support of its own. *)
OnCorrected_Unsupported(P, e) ==
    IF e.belief \notin Known(P) THEN Cascade(P, e.belief)
    ELSE LET s == P.bel[e.belief].slot
         IN  Cascade(ReplaceBy(P, e.belief, CorrectedId(s, e.n), s, e.value), e.belief)

OnCorrected(P, e) ==
    IF e.belief \notin Known(P) THEN Cascade(P, e.belief)
    ELSE LET s == P.bel[e.belief].slot
             b == CorrectedId(s, e.n)
             new == StoredId(SetStatus(P, e.belief, "superseded"), b, s, e.value)
         IN  Cascade(Justify(ReplaceBy(P, e.belief, b, s, e.value), new, <<"event", e.n>>, "correction"),
                     e.belief)

OnRetracted(P, e) == Cascade(Retract(P, e.belief), e.belief)

Matching(P, v) == {b \in Known(P) : P.bel[b].value = v}

(* Every fact with the text goes, whatever hangs on it stays. *)
OnForbidden(P, e) == RetractAll(P, Matching(P, e.value))

OnDerived(P, e) ==
    LET b == DerivedId(e.premises)
        stored == StoredId(P, b, SlotA, Concluded)
        Q == Insert(P, b, SlotA, Concluded, "active")
    IN  [Q EXCEPT !.just = @ \cup {[id |-> stored, support |-> p, rule |-> "rule"] : p \in e.premises}]

OnGrant(P, e) ==
    IF e.belief \notin Known(P) THEN P
    ELSE [P EXCEPT !.bel[e.belief].acl.allow = @ \cup {e.agent}, !.bel[e.belief].acl.deny = @ \ {e.agent}]

OnRevoke(P, e) ==
    IF e.belief \notin Known(P) THEN P
    ELSE [P EXCEPT !.bel[e.belief].acl.deny = @ \cup {e.agent}, !.bel[e.belief].acl.allow = @ \ {e.agent}]

Reduce(P, e) ==
    CASE e.type = "asserted" -> OnAsserted(P, e)
      [] e.type = "corrected" -> OnCorrected(P, e)
      [] e.type = "retracted" -> OnRetracted(P, e)
      [] e.type = "forbidden" -> OnForbidden(P, e)
      [] e.type = "derived" -> OnDerived(P, e)
      [] e.type = "grant" -> OnGrant(P, e)
      [] e.type = "revoke" -> OnRevoke(P, e)

(* The projection after the first n events. *)
After(events, n) ==
    LET state[k \in Nat] == IF k = 0 THEN Empty ELSE Reduce(state[k - 1], events[k])
    IN  state[n]

Replay(events) == After(events, Len(events))

----------------------------------------------------------------------------
(* Appending: the store commits the event and its reduction together *)

(* health.rebuild_fts takes no lock; LiveRebuild = FALSE leaves it alone.   *)
Free == rebuilding = Idle \/ LiveRebuild

AppendEvent(e) ==
    /\ Len(log) < MaxEvents
    /\ Free
    /\ log' = Append(log, e)
    /\ proj' = Reduce(proj, e)
    /\ UNCHANGED rebuilding

(* Extraction and remember, and a second extraction of a turn already read. *)
AssertFact ==
    \E s \in Slots, v \in Values, t \in Turns, w \in BOOLEAN :
        /\ w \/ (s \in Flagged /\ ActiveIn(proj, s) # {})
        /\ AppendEvent([type |-> "asserted", slot |-> s, value |-> v, turn |-> t, wins |-> w])
        /\ UNCHANGED <<deriving, withdrawing>>

Correct ==
    \E b \in Known(proj), v \in Values :
        /\ AppendEvent([type |-> "corrected", belief |-> b, value |-> v, n |-> Len(log) + 1])
        /\ UNCHANGED <<deriving, withdrawing>>

(* forget, and health retracting a belief nothing supports. *)
Forget ==
    \E b \in Known(proj) :
        /\ AppendEvent([type |-> "retracted", belief |-> b])
        /\ UNCHANGED <<deriving, withdrawing>>

(* withdraw_consent forbids the text, and with a second event retracts the  *)
(* belief it was asked about.                                              *)
ForbidText ==
    /\ withdrawing = {}
    /\ \E b \in Known(proj) :
           /\ AppendEvent([type |-> "forbidden", value |-> proj.bel[b].value])
           /\ withdrawing' = {b}
    /\ UNCHANGED deriving

RetractWithdrawn ==
    /\ \E b \in withdrawing : AppendEvent([type |-> "retracted", belief |-> b])
    /\ withdrawing' = {}
    /\ UNCHANGED deriving

Grant ==
    \E b \in Known(proj), a \in Agents :
        /\ AppendEvent([type |-> "grant", belief |-> b, agent |-> a])
        /\ UNCHANGED <<deriving, withdrawing>>

Revoke ==
    \E b \in Known(proj), a \in Agents :
        /\ AppendEvent([type |-> "revoke", belief |-> b, agent |-> a])
        /\ UNCHANGED <<deriving, withdrawing>>

(* The engine reads the active facts outside any transaction ... *)
DeriveRead ==
    /\ deriving = {}
    /\ \E p \in ActiveIn(proj, SlotA), q \in ActiveIn(proj, SlotB) :
           p # q /\ proj.bel[p].value = Ground /\ deriving' = {p, q}
    /\ UNCHANGED <<log, proj, withdrawing, rebuilding>>

(* ... and appends what it concluded, whatever has become of them. *)
DeriveAppend ==
    /\ deriving # {}
    /\ AppendEvent([type |-> "derived", premises |-> deriving])
    /\ deriving' = {}
    /\ UNCHANGED withdrawing

----------------------------------------------------------------------------
(* Writes that are not in the log *)

SetAcl ==
    \E b \in Known(proj), private \in BOOLEAN :
        /\ Free /\ Agents # {}
        /\ proj' = [proj EXCEPT !.bel[b].acl = [OpenAcl EXCEPT !.private = private]]
        /\ UNCHANGED <<log, deriving, withdrawing, rebuilding>>

(* Where several active facts disagree and at least two were not derived,  *)
(* two of them are put up for review; then every contradiction one of      *)
(* whose sides is not active is closed.                                    *)
Crowded(P) ==
    {s \in Slots : /\ \E b, c \in ActiveIn(P, s) : P.bel[b].value # P.bel[c].value
                   /\ Cardinality({b \in ActiveIn(P, s) : b[1] # "derived"}) > 1}

ConsistencySweep ==
    /\ Free
    /\ \E pair \in [Crowded(proj) -> kSubset(2, ActiveIds(proj))] :
           /\ \A s \in Crowded(proj) : pair[s] \subseteq ActiveIn(proj, s)
           /\ proj' = [proj EXCEPT !.con =
                          {d \in @ \cup Range(pair) : d \subseteq ActiveIds(proj)}]
    /\ UNCHANGED <<log, deriving, withdrawing, rebuilding>>

(* Retracted rows last seen before the retention window, in any number; a   *)
(* retraction does not count as seeing, so a row may go soon after it.      *)
Prune ==
    /\ Free /\ Pruning
    /\ \E gone \in SUBSET {b \in Known(proj) : proj.bel[b].status = "retracted"} :
           /\ gone # {}
           /\ proj' = [proj EXCEPT !.bel = [b \in Known(proj) \ gone |-> proj.bel[b]]]
    /\ UNCHANGED <<log, deriving, withdrawing, rebuilding>>

RebuildStart ==
    /\ rebuilding = Idle
    /\ log # <<>>
    /\ proj' = Empty
    /\ rebuilding' = 0
    /\ UNCHANGED <<log, deriving, withdrawing>>

RebuildStep ==
    /\ rebuilding # Idle
    /\ rebuilding < Len(log)
    /\ proj' = Reduce(proj, log[rebuilding + 1])
    /\ rebuilding' = rebuilding + 1
    /\ UNCHANGED <<log, deriving, withdrawing>>

RebuildEnd ==
    /\ rebuilding = Len(log)
    /\ rebuilding' = Idle
    /\ UNCHANGED <<log, proj, deriving, withdrawing>>

----------------------------------------------------------------------------
Init ==
    /\ log = <<>>
    /\ proj = Empty
    /\ deriving = {}
    /\ withdrawing = {}
    /\ rebuilding = Idle

Next ==
    \/ AssertFact
    \/ Correct
    \/ Forget
    \/ ForbidText
    \/ RetractWithdrawn
    \/ Grant
    \/ Revoke
    \/ DeriveRead
    \/ DeriveAppend
    \/ SetAcl
    \/ ConsistencySweep
    \/ Prune
    \/ RebuildStart
    \/ RebuildStep
    \/ RebuildEnd

Spec == Init /\ [][Next]_vars

----------------------------------------------------------------------------
(* Properties *)

Statuses == {"active", "draft", "superseded", "retracted"}

(* Every row is well formed and every open contradiction has two sides.    *)
TypeOK ==
    /\ \A b \in Known(proj) : /\ proj.bel[b].slot \in Slots
                              /\ proj.bel[b].value \in Values
                              /\ proj.bel[b].status \in Statuses
    /\ \A c \in proj.con : Cardinality(c) = 2
    /\ rebuilding \in -1..Len(log)

(* The rows stand in the table as a replay of the log would write them.     *)
InLogOrder ==
    LET R == Replay(log) IN
    \A b, c \in Known(proj) \cap Known(R) :
        proj.bel[b].at < proj.bel[c].at => R.bel[b].at < R.bel[c].at

(* Replaying the log gives the rows the store has, whatever was written     *)
(* beside the log meanwhile: a row that is missing was pruned, a text, a   *)
(* status and the supports are those of the replay (invariant I3, and what *)
(* prune_retracted_beliefs says of replay).  It fails with pruning.        *)
ReplayAgrees ==
    LET R == Replay(log) IN
    rebuilding = Idle =>
        /\ Known(proj) \subseteq Known(R)
        /\ \A b \in Known(R) :
               IF b \in Known(proj)
               THEN /\ proj.bel[b].value = R.bel[b].value
                    /\ proj.bel[b].status = R.bel[b].status
               ELSE R.bel[b].status = "retracted"
        /\ proj.just = R.just

(* What holds of it: as long as the rows stand in the order of the log, so  *)
(* that no pruned row was written again behind a younger one, they are     *)
(* those of the replay, after pruning, sweeps and rebuilds too.            *)
ReplayKept == []InLogOrder => []ReplayAgrees

(* Nothing is believed without a support, during a rebuild included         *)
(* (invariant I5, which health checks and repairs).                        *)
Justified == \A b \in ActiveIds(proj) : \E j \in proj.just : j.id = b

TakesBack(e, p) == e.type \in {"retracted", "corrected"} /\ e.belief = p
DerivesFrom(e, p) == e.type = "derived" /\ p \in e.premises

(* A retraction or a correction of a premise leaves nothing active that was *)
(* derived from it before, along any chain of rows and merged duplicates;   *)
(* only a row that a conclusion was merged into may have itself as premise. *)
CascadeComplete ==
    rebuilding = Idle =>
        \A j \in proj.just :
            j.rule = "rule" /\ j.id # j.support /\ j.id \in ActiveIds(proj) =>
                \A i \in DOMAIN log : TakesBack(log[i], j.support) =>
                    \E k \in i + 1 .. Len(log) : DerivesFrom(log[k], j.support)

(* Only a correction or a derivation can leave a slot with more active      *)
(* facts than it had, once it has one: an assertion takes one of them out   *)
(* of use, merges into one or stays a draft.                                *)
NoMoreValues ==
    [][log' # log /\ Last(log').type \notin {"corrected", "derived"} =>
          \A s \in Slots : Cardinality(ActiveIn(proj', s)) > 1 =>
              Cardinality(ActiveIn(proj', s)) <= Cardinality(ActiveIn(proj, s))]_vars

(* The rows stay those of the log while they stand in its order, whatever   *)
(* was derived from what was taken back is gone, and no assertion crowds a  *)
(* slot.                                                                   *)
LogIsTruth == [](TypeOK /\ CascadeComplete) /\ ReplayKept /\ NoMoreValues

(* A rebuild re-derives every column of every row it emptied, who may read  *)
(* a row included (store.py: PROJECTION_TABLES come from the log alone).   *)
AclFromLog ==
    rebuilding = Idle => \A b \in Known(proj) : proj.bel[b].acl = Replay(log).bel[b].acl

(* The rule a belief was derived by is a conjunction: while it is active,   *)
(* so is every premise.                                                    *)
PremisesHold ==
    rebuilding = Idle =>
        \A j \in proj.just : j.rule = "rule" /\ j.id \in ActiveIds(proj)
                                => j.support \in ActiveIds(proj)

(* A contradiction put up for review stays up until one of the two beliefs  *)
(* is retracted.                                                           *)
ReviewKept ==
    [][\A c \in proj.con : c \in proj'.con
          \/ \E b \in c : b \notin Known(proj') \/ proj'.bel[b].status = "retracted"]_vars

============================================================================
