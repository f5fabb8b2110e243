----------------------------- MODULE Precision -----------------------------
(* The precision gate of a context read: has retrieval converged on one session,
   so that only that session is packed?  Candidates arrive in whatever order the
   channels produced them, while other threads record facts, link a newer value
   to an older one and replace values; the gate then decides from scores, ids
   and sessions, and steps back when the store knows of a later value.

   Code: retrieval.py _precision_tie_buckets, _precision_order, _precision_head,
   _precision_decision, _head_has_live_update; store.py get_supersede_chain. *)
EXTENDS Integers, Sequences, FiniteSets, SequencesExt

CONSTANTS
  Events,        \* recorded turns; the order of their ids is the order of 1, 2, ...
  Summaries,     \* ids of session-summary rows, above those of the events
  Sessions,
  SessionOf,     \* event or summary -> its session
  Scores,        \* the scores a candidate may have, on a scale of integers
  Grid,          \* 1 / _PRECISION_TIE_EPS: buckets between 0 and the best score
  HeadSize,      \* _PRECISION_HEAD
  Share, Of,     \* context.precision_concentration, as the fraction Share / Of
  Margin, OfMargin,            \* context.precision_margin, the same way
  Facts,         \* facts, each told by one event
  ToldBy,        \* fact -> that event
  ChainMax,      \* max_nodes of the walk over the links
  None

Candidates == Events \cup Summaries

VARIABLES
  pool,      \* the candidates in the order they arrived, with their scores
  facts,     \* facts asserted so far
  links,     \* supersede_candidates: pairs <<newer, older>>
  replaced,  \* facts whose superseded_by was set by an ordinary replacement
  chosen     \* what the gate decided: the leading candidate, or None

vars == <<pool, facts, links, replaced, chosen>>
-----------------------------------------------------------------------------
(* Ordering and ties. *)

Largest(S) == CHOOSE x \in S : \A y \in S : y <= x
Best(p) == Largest({0} \cup {p[k].score : k \in DOMAIN p})

\* round(score / ref / eps), halves to the even neighbour.
Bucket(best, score) ==
  LET whole == (score * Grid) \div best  rest == 2 * ((score * Grid) % best)
  IN  IF rest > best \/ (rest = best /\ whole % 2 = 1) THEN whole + 1 ELSE whole

\* _precision_order: by bucket, the best first, then by id.
Ordered(p) ==
  LET best == Best(p)
      before(c, d) == IF best = 0 THEN c.id < d.id
                      ELSE \/ Bucket(best, c.score) > Bucket(best, d.score)
                           \/ /\ Bucket(best, c.score) = Bucket(best, d.score)
                              /\ c.id < d.id
  IN  SortSeq(p, before)

\* As it was: the first HeadSize, whatever is tied with the last of them.
Head_Fixed(p) == SubSeq(p, 1, IF Len(p) < HeadSize THEN Len(p) ELSE HeadSize)

\* _precision_head: the first HeadSize and all that are tied with the last.
HeadOf(p) ==
  LET best == Best(p)
      first == SubSeq(p, 1, IF Len(p) < HeadSize THEN Len(p) ELSE HeadSize)
  IN  IF Len(p) <= HeadSize \/ best = 0 THEN first
      ELSE LET edge == Bucket(best, p[HeadSize].score)
           IN  SelectSeq(p, LAMBDA c : Bucket(best, c.score) = edge \/ c \in ToSet(first))
-----------------------------------------------------------------------------
(* The later value. *)

\* get_supersede_chain: the facts reached over links, at most ChainMax of them.
Chain(f) ==
  LET next(S) == S \cup {g \in Facts : \E h \in S : <<g, h>> \in links \/ <<h, g>> \in links}
      reach[n \in 0..ChainMax] == IF n = 0 THEN {f}
                                  ELSE IF Cardinality(reach[n - 1]) >= ChainMax THEN reach[n - 1]
                                  ELSE next(reach[n - 1])
  IN  reach[ChainMax]

\* _head_has_live_update: some turn of the head told a fact that has a link.
HasLiveUpdate(head) ==
  \E k \in DOMAIN head : \E f \in facts :
    head[k].id \in Events /\ ToldBy[f] = head[k].id /\ Cardinality(Chain(f)) > 1
-----------------------------------------------------------------------------
Modal(head) ==
  LET votes(s) == Cardinality({k \in DOMAIN head : SessionOf[head[k].id] = s})
      first(s) == SelectInSeq(head, LAMBDA c : SessionOf[c.id] = s)
  IN  CHOOSE s \in Sessions : \A t \in Sessions :
        \/ votes(s) > votes(t)
        \/ votes(s) = votes(t) /\ (votes(t) = 0 \/ first(s) <= first(t))

\* _precision_decision: every doubt ends in None.
Decision(p) ==
  LET ordered == Ordered(p)
      head    == HeadOf(ordered)
      modal   == Modal(head)
      votes   == Cardinality({k \in DOMAIN head : SessionOf[head[k].id] = modal})
      lead    == head[1]
      gap     == lead.score - head[2].score
  IN  IF /\ Len(head) >= HeadSize
         /\ lead.score > 0
         /\ Cardinality({SessionOf[p[k].id] : k \in DOMAIN p}) >= 2
         /\ votes * Of >= Share * Len(head)
         /\ SessionOf[lead.id] = modal
         /\ lead.id \in Events
         /\ (IF gap > 0 THEN gap ELSE 0) * OfMargin >= Margin * lead.score
         /\ ~HasLiveUpdate(head)
      THEN lead.id ELSE None
-----------------------------------------------------------------------------
Init == pool = <<>> /\ facts = {} /\ links = {} /\ replaced = {} /\ chosen = None

\* A channel adds a candidate.
Arrive(c, score) ==
  /\ \A k \in DOMAIN pool : pool[k].id # c
  /\ pool' = Append(pool, [id |-> c, score |-> score])
  /\ chosen' = None
  /\ UNCHANGED <<facts, links, replaced>>

\* A fact is asserted that neither is near to another nor replaces one.
AssertNew(f) ==
  /\ f \notin facts
  /\ facts' = facts \cup {f}
  /\ chosen' = None
  /\ UNCHANGED <<pool, links, replaced>>

\* A fact near to an older one is asserted: the two are linked.
AssertNear(f, old) ==
  /\ f \notin facts /\ old \in facts
  /\ facts' = facts \cup {f}
  /\ links' = links \cup {<<f, old>>}
  /\ chosen' = None
  /\ UNCHANGED <<pool, replaced>>

\* A fact of a single-valued predicate takes the place of the value there was.
AssertInstead(f, old) ==
  /\ f \notin facts /\ old \in facts \ replaced
  /\ facts' = facts \cup {f}
  /\ replaced' = replaced \cup {old}
  /\ chosen' = None
  /\ UNCHANGED <<pool, links>>

Decide ==
  /\ chosen' = Decision(pool)
  /\ UNCHANGED <<pool, facts, links, replaced>>

Next ==
  \/ \E c \in Candidates, s \in Scores : Arrive(c, s)
  \/ \E f \in Facts : AssertNew(f)
  \/ \E f, old \in Facts : AssertNear(f, old) \/ AssertInstead(f, old)
  \/ Decide

Spec == Init /\ [][Next]_vars
-----------------------------------------------------------------------------
(* The head, said of the set of candidates alone: those that fewer than
   HeadSize others beat by a whole bucket. *)
TrueHead ==
  LET best == Best(pool)
      above(c) == {d \in ToSet(pool) : Bucket(best, d.score) > Bucket(best, c.score)}
  IN  {c \in ToSet(pool) : Cardinality(above(c)) < HeadSize}

(* The gate's answer is a function of the scores, ids and sessions and not of
   the order the channels filled the pool in (retrieval.py _precision_head:
   "The claim is only that it returns ONE number"): it converges on a session
   only when that session holds its share of the set TrueHead, and the leader is
   the lowest id of the best bucket. *)
OrderBlind ==
  chosen # None =>
    LET s == SessionOf[chosen]
        mine == {c \in TrueHead : SessionOf[c.id] = s}
        lead == CHOOSE c \in ToSet(pool) : c.id = chosen
    IN  /\ Cardinality(mine) * Of >= Share * Cardinality(TrueHead)
        /\ \A t \in Sessions :
             Cardinality({c \in TrueHead : SessionOf[c.id] = t}) <= Cardinality(mine)
        /\ \A d \in ToSet(pool) :
             /\ Bucket(Best(pool), d.score) <= Bucket(Best(pool), lead.score)
             /\ Bucket(Best(pool), d.score) = Bucket(Best(pool), lead.score) => chosen <= d.id

(* The cut is not taken while a turn of the head told a fact that is linked to
   another (_head_has_live_update: the whole head, not the leader alone). *)
LinkedIsNotCut ==
  [][chosen' # None =>
       \A f \in facts : (\E c \in TrueHead : c.id = ToldBy[f]) =>
         \A g \in facts : <<f, g>> \notin links /\ <<g, f>> \notin links]_chosen

(* The cut is not taken while a fact the head tells has been replaced
   (_head_has_live_update: "does the store already know of a LATER value for
   something the head asserts? If so the precision cut must not happen"). *)
ReplacedIsNotCut ==
  chosen # None => \A f \in replaced : \A c \in TrueHead : c.id # ToldBy[f]
=============================================================================
