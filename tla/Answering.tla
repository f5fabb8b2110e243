----------------------------- MODULE Answering -----------------------------
(* Questions about one subject, answered from beliefs when they are sure enough
   and otherwise by reading the turns: what was read is promoted to a fact, and
   a miss sends the turns that answered it to extraction.  Beliefs can be
   unlearned at any moment, also between the steps of a question.

   Code: retrieval.py _answer_inner, _read_and_extract, _promote_from_span;
   curation.py _task_extract; forgetting.py unlearn; reducer.py. *)
EXTENDS Naturals, Sequences, FiniteSets

CONSTANTS
  Turns,         \* turns that say of the subject what it is
  Says,          \* turn -> the value it tells
  Promoted,      \* the row of facts promoted while answering: all share one id
  None,
  MaxUnlearned   \* bound on the beliefs unlearned

Rows == Turns \cup {Promoted}      \* a fact row is known by what it came from

VARIABLES
  said,       \* turns recorded
  queued,     \* turns with an extract job
  extracted,  \* turns with a record of their extraction
  value,      \* row -> the value it holds, or None while it does not exist
  status,     \* row -> "active", "draft" or "retracted"
  forbidden,  \* tombstoned values
  unlearning, \* the row whose retraction is still to be written, or None
  q           \* the question being answered

vars == <<said, queued, extracted, value, status, forbidden, unlearning, q>>

Idle == [at |-> "idle"]
Holds(r, s) == value[r] # None /\ status[r] = s

Init ==
  /\ said = {} /\ queued = {} /\ extracted = {} /\ forbidden = {}
  /\ value = [r \in Rows |-> None]
  /\ status = [r \in Rows |-> "retracted"]
  /\ unlearning = None
  /\ q = Idle

\* A turn is recorded and its extraction queued; the job may be lost with a
\* full retry budget before it ever ran.
Say(t) ==
  /\ t \notin said
  /\ said' = said \cup {t}
  /\ queued' \in {queued, queued \cup {t}}
  /\ UNCHANGED <<extracted, value, status, forbidden, unlearning, q>>

\* _task_extract: once per turn; what it asserts is a fact or only a draft.
Extract(t) ==
  /\ t \in queued
  /\ queued' = queued \ {t}
  /\ extracted' = extracted \cup {t}
  /\ IF t \in extracted THEN UNCHANGED <<value, status>>
     ELSE /\ value' = [value EXCEPT ![t] = Says[t]]
          /\ \E s \in {"active", "draft"} : status' = [status EXCEPT ![t] = s]
  /\ UNCHANGED <<said, forbidden, unlearning, q>>

\* unlearn, the forbidden event: every belief of that value goes.  No turn is
\* erased, since none consists of the value alone.
Forbid(r) ==
  /\ unlearning = None /\ Holds(r, "active") /\ Cardinality(forbidden) < MaxUnlearned
  /\ forbidden' = forbidden \cup {value[r]}
  /\ status' = [x \in Rows |-> IF value[x] = value[r] THEN "retracted" ELSE status[x]]
  /\ unlearning' = r
  /\ UNCHANGED <<said, queued, extracted, value, q>>

\* unlearn, the retracted event, which names the row and not the value.
Retract ==
  /\ unlearning # None
  /\ status' = [status EXCEPT ![unlearning] = "retracted"]
  /\ unlearning' = None
  /\ UNCHANGED <<said, queued, extracted, value, forbidden, q>>

\* search: the beliefs found, each as it stood then.
Search(found) ==
  /\ q = Idle
  /\ \A r \in found : Holds(r, "active") \/ Holds(r, "draft")
  /\ q' = [at |-> "found", active |-> {r \in found : status[r] = "active"}, found |-> found]
  /\ UNCHANGED <<said, queued, extracted, value, status, forbidden, unlearning>>

\* A belief in force supports the question and is sure enough.
FromBeliefs ==
  /\ q.at = "found" /\ q.active # {}
  /\ q' = [at |-> "told", missed |-> FALSE, turns |-> <<>>]
  /\ UNCHANGED <<said, queued, extracted, value, status, forbidden, unlearning>>

\* retrieve_raw: the turns that mention the subject, best first.
Raw(turns) ==
  /\ q.at = "found" /\ \A i \in DOMAIN turns : turns[i] \in said
  /\ q' = [at |-> "raw", turns |-> turns, found |-> q.found]
  /\ UNCHANGED <<said, queued, extracted, value, status, forbidden, unlearning>>

\* No support: nothing is written.
Refuse ==
  /\ q.at = "raw"
  /\ q' = [at |-> "told", missed |-> FALSE, turns |-> <<>>]
  /\ UNCHANGED <<said, queued, extracted, value, status, forbidden, unlearning>>

\* _promote_from_span and the reducer's refetch policy: a promoted fact in force
\* is only refreshed, one that is gone is written anew under the same id.
Promote(v) ==
  IF Holds(Promoted, "active") THEN UNCHANGED <<value, status>>
  ELSE /\ value' = [value EXCEPT ![Promoted] = v]
       /\ status' = [status EXCEPT ![Promoted] = "active"]

\* As it would be if only the turn that was read were sent to extraction.
Missed_Best(turns, best) == {best}

\* A miss sends the first two turns to extraction.
Missed(turns, best) == {turns[i] : i \in 1..(IF Len(turns) < 2 THEN Len(turns) ELSE 2)}

\* _read_and_extract: the span that shares most words is read, whichever place
\* it has; `low` says the best belief scored under miss_threshold.
Read(best, low) ==
  /\ q.at = "raw" /\ \E i \in DOMAIN q.turns : q.turns[i] = best
  /\ Promote(Says[best])
  /\ queued' = IF low THEN queued \cup Missed(q.turns, best) ELSE queued
  /\ q' = [at |-> "told", missed |-> low, turns |-> q.turns]
  /\ UNCHANGED <<said, extracted, forbidden, unlearning>>

Done ==
  /\ q.at = "told"
  /\ q' = Idle
  /\ UNCHANGED <<said, queued, extracted, value, status, forbidden, unlearning>>

Rankings == {s \in UNION {[1..n -> Turns] : n \in 1..Cardinality(Turns)} :
               \A i, j \in DOMAIN s : s[i] = s[j] => i = j}

Next ==
  \/ \E t \in Turns : Say(t) \/ Extract(t)
  \/ \E r \in Rows : Forbid(r)
  \/ Retract
  \/ \E found \in SUBSET Rows : Search(found)
  \/ FromBeliefs \/ Refuse \/ Done
  \/ \E turns \in Rankings : Raw(turns)
  \/ \E best \in Turns, low \in BOOLEAN : Read(best, low)

Spec == Init /\ [][Next]_vars /\ \A t \in Turns : WF_vars(Extract(t))
-----------------------------------------------------------------------------
TypeOK ==
  /\ said \subseteq Turns /\ queued \subseteq said /\ extracted \subseteq said
  /\ \A r \in Rows : value[r] \in {None} \cup {Says[t] : t \in Turns}
  /\ q.at \in {"idle", "found", "raw", "told"}

(* A question no belief answered teaches the store: the first two turns of its
   ranking are extracted in the end, also those whose own job was lost
   (retrieval.py _answer_inner, log_miss and the extract jobs after it). *)
MissIsLearned ==
  \A t \in Turns :
    q.at = "told" /\ q.missed /\ (\E i \in 1..2 : i <= Len(q.turns) /\ q.turns[i] = t)
      ~> t \in extracted

(* What was unlearned stays so: no fact in force holds a forbidden value once
   unlearn is over (tools.py withdraw_consent, forgetting.py unlearn). *)
UnlearnedStays ==
  unlearning = None => \A r \in Rows : Holds(r, "active") => value[r] \notin forbidden

(* The id the answer reports as promoted holds the value that was read
   (_promote_from_span returns it as such). *)
PromotedHolds ==
  [][\A t \in Turns : (\E low \in BOOLEAN : Read(t, low)) => value'[Promoted] = Says[t]]_vars
=============================================================================
