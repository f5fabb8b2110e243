---------------------------- MODULE BeliefsProofs ----------------------------
(* Theorems about Beliefs for every number of slots, values, turns, agents    *)
(* and events.                                                                *)
EXTENDS Beliefs, SequenceTheorems, FiniteSetTheorems, WellFoundedInduction, TLAPS

Row(slot, value, status, acl, at) ==
    [slot |-> slot, value |-> value, status |-> status, acl |-> acl, at |-> at]

RowOK(r) ==
    \E slot \in Slots, value \in Values, status \in Statuses, at \in Nat :
        \E acl : r = Row(slot, value, status, acl, at)

(* The projection as the proofs need it: three tables, finitely many rows,    *)
(* each in a place of its own or another's, below some last place.            *)
Tables(P) ==
    /\ P = [bel |-> P.bel, just |-> P.just, con |-> P.con]
    /\ P.bel = [b \in Known(P) |-> P.bel[b]]
    /\ \A b \in Known(P) : RowOK(P.bel[b])
    /\ IsFiniteSet(Known(P))
    /\ \E last \in Nat : \A b \in Known(P) : P.bel[b].at <= last
    /\ \A c \in P.con : Cardinality(c) = 2

Supported(P) == \A b \in ActiveIds(P) : \E j \in P.just : j.id = b

Sound(P) == Tables(P) /\ Supported(P)

(* The rows of Q are those of P, what they say and where they stand included. *)
Keeps(P, Q) ==
    /\ Known(Q) = Known(P)
    /\ \A c \in Known(P) : /\ Q.bel[c].slot = P.bel[c].slot
                           /\ Q.bel[c].value = P.bel[c].value
                           /\ Q.bel[c].at = P.bel[c].at

(* Two projections that differ in access lists and contradictions only.       *)
Same(P, R) ==
    /\ Keeps(P, R)
    /\ \A c \in Known(P) : R.bel[c].status = P.bel[c].status
    /\ R.just = P.just

-----------------------------------------------------------------------------
(* Numbers and places *)

LEMMA LeastNumber ==
    ASSUME NEW S \in SUBSET Nat, S # {}
    PROVE  \E m \in S : \A n \in S : m <= n
<1> DEFINE R == {ss \in Nat \X Nat : ss[1] < ss[2]}
<1>1. IsWellFoundedOn(R, Nat)
  BY NatLessThanWellFounded DEF OpToRel
<1>2. \A m, n \in Nat : <<n, m>> \in R <=> n < m
  OBVIOUS
<1> HIDE DEF R
<1>3. PICK m \in S : \A n \in S : ~ (<<n, m>> \in R)
  BY <1>1, WFMin
<1>4. \A n \in S : n \in Nat /\ m \in Nat /\ ~ (n < m)
  BY <1>2, <1>3
<1> QED
  BY <1>4

LEMMA MaxOfBounded ==
    ASSUME NEW S \in SUBSET Nat, 0 \in S, NEW last \in Nat, \A x \in S : x <= last
    PROVE  Max(S) \in S /\ \A y \in S : y <= Max(S)
<1> DEFINE bounds == {n \in Nat : \A x \in S : x <= n}
<1>1. PICK m \in bounds : \A n \in bounds : m <= n
  <2>1. last \in bounds /\ bounds \subseteq Nat
    OBVIOUS
  <2> HIDE DEF bounds
  <2> QED
    BY <2>1, LeastNumber
<1>2. m \in S
  <2> SUFFICES ASSUME m \notin S PROVE FALSE
    OBVIOUS
  <2>1. m # 0
    OBVIOUS
  <2>2. m - 1 \in Nat /\ \A x \in S : x <= m - 1
    BY <1>1, <2>1
  <2> QED
    BY <1>1, <2>2
<1>3. \E x \in S : \A y \in S : x >= y
  BY <1>1, <1>2
<1>4. Max(S) \in S /\ \A y \in S : Max(S) >= y
  BY <1>3 DEF Max
<1> QED
  BY <1>4

LEMMA RowTypes ==
    ASSUME NEW r, RowOK(r)
    PROVE  r.slot \in Slots /\ r.value \in Values /\ r.status \in Statuses /\ r.at \in Nat
<1> PICK slot \in Slots, value \in Values, status \in Statuses, at \in Nat :
        \E acl : r = Row(slot, value, status, acl, at)
  BY DEF RowOK
<1> QED
  BY DEF Row

\* A new row stands after all others, an old one where it stood.
LEMMA PlaceIsLast ==
    ASSUME NEW P, Tables(P), NEW b
    PROVE  PlaceOf(P, b) \in Nat
<1> DEFINE places == {P.bel[c].at : c \in Known(P)}
<1>1. \A c \in Known(P) : P.bel[c].at \in Nat
  BY RowTypes DEF Tables
<1>2. PICK last \in Nat : \A c \in Known(P) : P.bel[c].at <= last
  BY DEF Tables
<1>3. /\ {0} \cup places \in SUBSET Nat /\ 0 \in {0} \cup places
      /\ \A x \in {0} \cup places : x <= last
  BY <1>1, <1>2
<1> HIDE DEF places
<1>4. Max({0} \cup places) \in Nat
  BY <1>3, MaxOfBounded
<1> QED
  BY <1>1, <1>4 DEF PlaceOf, places

LEMMA RowStep ==
    ASSUME NEW r, RowOK(r), NEW x
    PROVE  /\ x \in Statuses => RowOK([r EXCEPT !.status = x])
           /\ [r EXCEPT !.status = x].status = x
           /\ [r EXCEPT !.status = x].slot = r.slot
           /\ [r EXCEPT !.status = x].value = r.value
           /\ [r EXCEPT !.status = x].at = r.at
           /\ RowOK([r EXCEPT !.acl = x])
           /\ [r EXCEPT !.acl = x].status = r.status
           /\ [r EXCEPT !.acl = x].slot = r.slot
           /\ [r EXCEPT !.acl = x].value = r.value
           /\ [r EXCEPT !.acl = x].at = r.at
<1> DEFINE p == [r EXCEPT !.status = x]
           q == [r EXCEPT !.acl = x]
<1> PICK slot \in Slots, value \in Values, status \in Statuses, at \in Nat :
        \E acl : r = Row(slot, value, status, acl, at)
  BY DEF RowOK
<1> PICK acl : r = Row(slot, value, status, acl, at)
  OBVIOUS
<1>1. /\ p = Row(slot, value, x, acl, at) /\ p.status = x
      /\ p.slot = r.slot /\ p.value = r.value /\ p.at = r.at
  BY DEF Row
<1>2. /\ q = Row(slot, value, status, x, at) /\ q.status = r.status
      /\ q.slot = r.slot /\ q.value = r.value /\ q.at = r.at
  BY DEF Row
<1> HIDE DEF p, q
<1>3. x \in Statuses => RowOK(p)
  BY <1>1, Zenon DEF RowOK
<1>4. RowOK(q)
  BY <1>2, Zenon DEF RowOK
<1> QED
  BY <1>1, <1>2, <1>3, <1>4 DEF p, q

-----------------------------------------------------------------------------
(* What each helper does to the tables *)

LEMMA EmptySound == Sound(Empty)
<1>1. Known(Empty) = {} /\ Empty.con = {}
  BY DEF Empty, Known
<1>2. IsFiniteSet(Known(Empty))
  BY <1>1, FS_EmptySet
<1>3. \E last \in Nat : \A b \in Known(Empty) : Empty.bel[b].at <= last
  BY <1>1
<1>4. Empty.bel = [b \in Known(Empty) |-> Empty.bel[b]]
  BY DEF Empty, Known
<1> QED
  BY <1>1, <1>2, <1>3, <1>4 DEF Sound, Tables, Supported, Empty, ActiveIds

\* New rows at the old places: the tables stay well formed.
LEMMA KeptTables ==
    ASSUME NEW P, Tables(P), NEW Q, Keeps(P, Q),
           Q = [bel |-> Q.bel, just |-> Q.just, con |-> Q.con],
           Q.bel = [b \in Known(P) |-> Q.bel[b]],
           \A b \in Known(P) : RowOK(Q.bel[b]),
           \A c \in Q.con : Cardinality(c) = 2
    PROVE  Tables(Q)
<1>1. \E last \in Nat : \A b \in Known(Q) : Q.bel[b].at <= last
  BY DEF Tables, Keeps
<1> QED
  BY <1>1 DEF Tables, Keeps

LEMMA StatusEffect ==
    ASSUME NEW P, Tables(P), NEW b, NEW st \in Statuses
    PROVE  /\ Tables(SetStatus(P, b, st))
           /\ Keeps(P, SetStatus(P, b, st))
           /\ SetStatus(P, b, st).just = P.just
           /\ \A c \in Known(P) : SetStatus(P, b, st).bel[c].status
                                     = IF c = b THEN st ELSE P.bel[c].status
<1> DEFINE Q == SetStatus(P, b, st)
<1>0. /\ P = [bel |-> P.bel, just |-> P.just, con |-> P.con]
      /\ P.bel = [c \in Known(P) |-> P.bel[c]]
      /\ \A c \in Known(P) : RowOK(P.bel[c])
  BY DEF Tables
<1>1. Q = [bel |-> Q.bel, just |-> P.just, con |-> P.con]
  BY <1>0 DEF SetStatus
<1>2. Q.bel = [c \in Known(P) |-> IF c = b THEN [P.bel[c] EXCEPT !.status = st] ELSE P.bel[c]]
  BY <1>0 DEF SetStatus
<1> HIDE DEF Q
<1>3. Known(Q) = Known(P)
  BY <1>2 DEF Known
<1>4. \A c \in Known(P) :
          /\ RowOK([P.bel[c] EXCEPT !.status = st])
          /\ [P.bel[c] EXCEPT !.status = st].status = st
          /\ [P.bel[c] EXCEPT !.status = st].slot = P.bel[c].slot
          /\ [P.bel[c] EXCEPT !.status = st].value = P.bel[c].value
          /\ [P.bel[c] EXCEPT !.status = st].at = P.bel[c].at
  <2> TAKE c \in Known(P)
  <2>1. RowOK(P.bel[c])
    BY <1>0
  <2> QED
    BY <2>1, RowStep
<1>5. \A c \in Known(P) : RowOK(Q.bel[c])
  BY <1>0, <1>2, <1>4
<1>6. Keeps(P, Q) /\ \A c \in Known(P) : Q.bel[c].status = IF c = b THEN st ELSE P.bel[c].status
  BY <1>2, <1>3, <1>4 DEF Keeps
<1>7. Q.just = P.just /\ Q.con = P.con
  BY <1>1
<1>8. Q.bel = [c \in Known(P) |-> Q.bel[c]]
  BY <1>2
<1>9. Tables(Q)
  BY <1>1, <1>5, <1>6, <1>7, <1>8, KeptTables DEF Tables
<1> QED
  BY <1>6, <1>7, <1>9 DEF Q

LEMMA AclEffect ==
    ASSUME NEW P, Tables(P), NEW b, NEW acl
    PROVE  Tables([P EXCEPT !.bel[b].acl = acl]) /\ Same(P, [P EXCEPT !.bel[b].acl = acl])
<1> DEFINE Q == [P EXCEPT !.bel[b].acl = acl]
<1>0. /\ P = [bel |-> P.bel, just |-> P.just, con |-> P.con]
      /\ P.bel = [c \in Known(P) |-> P.bel[c]]
      /\ \A c \in Known(P) : RowOK(P.bel[c])
  BY DEF Tables
<1>1. Q = [bel |-> Q.bel, just |-> P.just, con |-> P.con]
  BY <1>0
<1>2. Q.bel = [c \in Known(P) |-> IF c = b THEN [P.bel[c] EXCEPT !.acl = acl] ELSE P.bel[c]]
  BY <1>0
<1> HIDE DEF Q
<1>3. Known(Q) = Known(P)
  BY <1>2 DEF Known
<1>4. \A c \in Known(P) :
          /\ RowOK([P.bel[c] EXCEPT !.acl = acl])
          /\ [P.bel[c] EXCEPT !.acl = acl].status = P.bel[c].status
          /\ [P.bel[c] EXCEPT !.acl = acl].slot = P.bel[c].slot
          /\ [P.bel[c] EXCEPT !.acl = acl].value = P.bel[c].value
          /\ [P.bel[c] EXCEPT !.acl = acl].at = P.bel[c].at
  BY <1>0, RowStep
<1>5. \A c \in Known(P) : RowOK(Q.bel[c])
  BY <1>0, <1>2, <1>4
<1>6. Keeps(P, Q) /\ \A c \in Known(P) : Q.bel[c].status = P.bel[c].status
  BY <1>2, <1>3, <1>4 DEF Keeps
<1>7. Q.just = P.just /\ Q.con = P.con
  BY <1>1
<1>8. Q.bel = [c \in Known(P) |-> Q.bel[c]]
  BY <1>2
<1>9. Tables(Q)
  BY <1>1, <1>5, <1>6, <1>7, <1>8, KeptTables DEF Tables
<1> QED
  BY <1>6, <1>7, <1>9 DEF Q, Same

NewHere(P, s, v) == Duplicates(P, s, v) = {}

Inserted(P, Q, b, s, v, st) ==
    /\ Tables(Q)
    /\ Known(Q) = Known(P) \cup {b}
    /\ Q.just = P.just
    /\ Q.bel[b] = Row(s, v, st, OpenAcl, PlaceOf(P, b))
    /\ \A c \in Known(P) \ {b} : Q.bel[c] = P.bel[c]

LEMMA InsertEffect ==
    ASSUME NEW P, Tables(P), NEW b, NEW s \in Slots, NEW v \in Values, NEW st \in Statuses,
           NewHere(P, s, v)
    PROVE  Inserted(P, Insert(P, b, s, v, st), b, s, v, st)
<1> DEFINE Q == Insert(P, b, s, v, st)
           row == Row(s, v, st, OpenAcl, PlaceOf(P, b))
<1>0. /\ P = [bel |-> P.bel, just |-> P.just, con |-> P.con]
      /\ \A c \in Known(P) : RowOK(P.bel[c])
      /\ IsFiniteSet(Known(P))
      /\ \A c \in P.con : Cardinality(c) = 2
  BY DEF Tables
<1>1. Q = [bel |-> [c \in Known(P) \cup {b} |-> IF c = b THEN row ELSE P.bel[c]],
           just |-> P.just, con |-> P.con]
  BY <1>0 DEF Insert, Row, NewHere
<1>2. PlaceOf(P, b) \in Nat
  BY PlaceIsLast
<1>3. RowOK(row) /\ row.at = PlaceOf(P, b)
  <2>1. row.at = PlaceOf(P, b)
    BY DEF Row
  <2> QED
    BY <1>2, <2>1, Zenon DEF RowOK
<1> HIDE DEF Q, row
<1>4. /\ Known(Q) = Known(P) \cup {b} /\ Q.just = P.just /\ Q.con = P.con
      /\ Q.bel = [c \in Known(P) \cup {b} |-> IF c = b THEN row ELSE P.bel[c]]
  BY <1>1 DEF Known
<1>5. /\ Q.bel[b] = row /\ \A c \in Known(P) \ {b} : Q.bel[c] = P.bel[c]
      /\ Q.bel = [c \in Known(Q) |-> Q.bel[c]]
  BY <1>4
<1>6. \A c \in Known(Q) : RowOK(Q.bel[c])
  BY <1>0, <1>3, <1>4, <1>5
<1>7. IsFiniteSet(Known(Q))
  BY <1>0, <1>4, FS_AddElement
<1>8. \E last \in Nat : \A c \in Known(Q) : Q.bel[c].at <= last
  <2>1. PICK last \in Nat : \A c \in Known(P) : P.bel[c].at <= last
    BY DEF Tables
  <2>2. \A c \in Known(P) : P.bel[c].at \in Nat
    BY <1>0, RowTypes
  <2>3. \A c \in Known(Q) : Q.bel[c].at <= last + PlaceOf(P, b)
    <3> TAKE c \in Known(Q)
    <3>1. CASE c = b
      BY <3>1, <1>2, <1>3, <1>5
    <3>2. CASE c # b
      BY <3>2, <1>2, <1>4, <1>5, <2>1, <2>2
    <3> QED
      BY <3>1, <3>2
  <2>4. last + PlaceOf(P, b) \in Nat
    BY <1>2
  <2> QED
    BY <2>3, <2>4
<1>9. Q = [bel |-> Q.bel, just |-> Q.just, con |-> Q.con]
  BY <1>1
<1>10. Tables(Q)
  BY <1>0, <1>4, <1>5, <1>6, <1>7, <1>8, <1>9 DEF Tables
<1> QED
  BY <1>4, <1>5, <1>10 DEF Q, row, Inserted

LEMMA JustifyEffect ==
    ASSUME NEW P, Tables(P), NEW b, NEW support, NEW rule
    PROVE  /\ Tables(Justify(P, b, support, rule))
           /\ Justify(P, b, support, rule).bel = P.bel
           /\ Justify(P, b, support, rule).just
                 = P.just \cup {[id |-> b, support |-> support, rule |-> rule]}
<1> DEFINE Q == Justify(P, b, support, rule)
           new == [id |-> b, support |-> support, rule |-> rule]
<1>1. Q = [bel |-> P.bel, just |-> P.just \cup {new}, con |-> P.con]
  BY DEF Justify, Tables
<1> HIDE DEF Q, new
<1>2. Q.bel = P.bel /\ Q.con = P.con /\ Q.just = P.just \cup {new} /\ Known(Q) = Known(P)
  BY <1>1 DEF Known
<1>3. Q = [bel |-> Q.bel, just |-> Q.just, con |-> Q.con]
  BY <1>1
<1>4. Tables(Q)
  BY <1>2, <1>3 DEF Tables
<1> QED
  BY <1>2, <1>4 DEF Q, new

LEMMA ConEffect ==
    ASSUME NEW P, Tables(P), NEW con, \A c \in con : Cardinality(c) = 2
    PROVE  Tables([P EXCEPT !.con = con]) /\ Same(P, [P EXCEPT !.con = con])
<1> DEFINE Q == [P EXCEPT !.con = con]
<1>1. Q = [bel |-> P.bel, just |-> P.just, con |-> con]
  BY DEF Tables
<1> HIDE DEF Q
<1>2. Q.bel = P.bel /\ Q.just = P.just /\ Q.con = con /\ Known(Q) = Known(P)
  BY <1>1 DEF Known
<1>3. Q = [bel |-> Q.bel, just |-> Q.just, con |-> Q.con]
  BY <1>1
<1>4. Tables(Q)
  BY <1>2, <1>3 DEF Tables
<1> QED
  BY <1>2, <1>4 DEF Q, Same, Keeps

LEMMA RetractEffect ==
    ASSUME NEW P, Tables(P), NEW ids
    PROVE  /\ Tables(RetractAll(P, ids))
           /\ Keeps(P, RetractAll(P, ids))
           /\ RetractAll(P, ids).just = {j \in P.just : j.id \notin ids}
           /\ \A c \in Known(P) : RetractAll(P, ids).bel[c].status
                                     = IF c \in ids THEN "retracted" ELSE P.bel[c].status
<1> DEFINE Q == RetractAll(P, ids)
<1>0. /\ \A c \in Known(P) : RowOK(P.bel[c])
      /\ \A c \in P.con : Cardinality(c) = 2
      /\ "retracted" \in Statuses
  BY DEF Tables, Statuses
<1>1. Q = [bel |-> Q.bel, just |-> Q.just, con |-> Q.con]
  BY DEF RetractAll
<1>2. /\ Q.bel = [b \in Known(P) |->
                    IF b \in ids THEN [P.bel[b] EXCEPT !.status = "retracted"] ELSE P.bel[b]]
      /\ Q.just = {j \in P.just : j.id \notin ids}
      /\ Q.con = {c \in P.con : c \cap ids = {}}
  BY DEF RetractAll
<1> HIDE DEF Q
<1>3. Known(Q) = Known(P)
  BY <1>2 DEF Known
<1>4. \A c \in Known(P) :
          /\ RowOK([P.bel[c] EXCEPT !.status = "retracted"])
          /\ [P.bel[c] EXCEPT !.status = "retracted"].status = "retracted"
          /\ [P.bel[c] EXCEPT !.status = "retracted"].slot = P.bel[c].slot
          /\ [P.bel[c] EXCEPT !.status = "retracted"].value = P.bel[c].value
          /\ [P.bel[c] EXCEPT !.status = "retracted"].at = P.bel[c].at
  BY <1>0, RowStep
<1>5. \A c \in Known(P) : RowOK(Q.bel[c])
  BY <1>0, <1>2, <1>4
<1>6. /\ Keeps(P, Q)
      /\ \A c \in Known(P) : Q.bel[c].status = IF c \in ids THEN "retracted" ELSE P.bel[c].status
  BY <1>2, <1>3, <1>4 DEF Keeps
<1>7. Q.bel = [c \in Known(P) |-> Q.bel[c]] /\ \A c \in Q.con : Cardinality(c) = 2
  BY <1>0, <1>2
<1>8. Tables(Q)
  BY <1>1, <1>5, <1>6, <1>7, KeptTables
<1> QED
  BY <1>2, <1>6, <1>8 DEF Q

-----------------------------------------------------------------------------
(* Every handler keeps the tables well formed and every active row supported. *)

\* A row that goes in is the one StoredId names, and no other row comes up.
LEMMA InsertActive ==
    ASSUME NEW P, Tables(P), NEW b, NEW s \in Slots, NEW v \in Values, NEW st \in Statuses
    PROVE  /\ Tables(Insert(P, b, s, v, st))
           /\ Insert(P, b, s, v, st).just = P.just
           /\ ActiveIds(Insert(P, b, s, v, st)) \subseteq ActiveIds(P) \cup {StoredId(P, b, s, v)}
<1>1. CASE Duplicates(P, s, v) # {}
  BY <1>1 DEF Insert
<1>2. CASE Duplicates(P, s, v) = {}
  <2> DEFINE Q == Insert(P, b, s, v, st)
  <2>0. NewHere(P, s, v)
    BY <1>2 DEF NewHere
  <2>1. Inserted(P, Q, b, s, v, st)
    BY <2>0, InsertEffect
  <2>2. StoredId(P, b, s, v) = b
    BY <1>2 DEF StoredId
  <2> HIDE DEF Q
  <2>3. ActiveIds(Q) \subseteq ActiveIds(P) \cup {b}
    BY <2>1 DEF ActiveIds, Inserted
  <2> QED
    BY <2>1, <2>2, <2>3 DEF Q, Inserted
<1> QED
  BY <1>1, <1>2

LEMMA JustifyStep ==
    ASSUME NEW P, Tables(P), NEW b, NEW support, NEW rule,
           \A c \in ActiveIds(P) \ {b} : \E j \in P.just : j.id = c
    PROVE  Sound(Justify(P, b, support, rule))
<1> DEFINE Q == Justify(P, b, support, rule)
           new == [id |-> b, support |-> support, rule |-> rule]
<1>1. Tables(Q) /\ Q.bel = P.bel /\ Q.just = P.just \cup {new}
  BY JustifyEffect
<1>2. new.id = b
  OBVIOUS
<1> HIDE DEF Q, new
<1>3. ActiveIds(Q) = ActiveIds(P)
  BY <1>1 DEF Known, ActiveIds
<1>4. Supported(Q)
  BY <1>1, <1>2, <1>3 DEF Supported
<1> QED
  BY <1>1, <1>4 DEF Sound, Q

\* Whatever ids are retracted, the rest keeps its supports.
LEMMA RetractStep ==
    ASSUME NEW P, Sound(P), NEW ids
    PROVE  Sound(RetractAll(P, ids))
<1> DEFINE Q == RetractAll(P, ids)
<1>1. /\ Tables(Q) /\ Keeps(P, Q) /\ Q.just = {j \in P.just : j.id \notin ids}
      /\ \A c \in Known(P) : Q.bel[c].status = IF c \in ids THEN "retracted" ELSE P.bel[c].status
  BY RetractEffect DEF Sound
<1> HIDE DEF Q
<1>2. ActiveIds(Q) \subseteq ActiveIds(P) \ ids
  BY <1>1 DEF ActiveIds, Keeps
<1>3. Supported(Q)
  BY <1>1, <1>2 DEF Sound, Supported
<1> QED
  BY <1>1, <1>3 DEF Sound, Q

\* No other active rows and the same supports: still sound.
LEMMA SameSound ==
    ASSUME NEW P, NEW Q, Sound(P), Tables(Q), Q.just = P.just,
           ActiveIds(Q) \subseteq ActiveIds(P)
    PROVE  Sound(Q)
BY DEF Sound, Supported

\* A row that is put in and justified at once under the name it is stored by.
LEMMA AddStep ==
    ASSUME NEW P, Sound(P), NEW b, NEW s \in Slots, NEW v \in Values, NEW st \in Statuses,
           NEW support, NEW rule
    PROVE  Sound(Justify(Insert(P, b, s, v, st), StoredId(P, b, s, v), support, rule))
<1> DEFINE Q == Insert(P, b, s, v, st)
           stored == StoredId(P, b, s, v)
<1>1. /\ Tables(Q) /\ Q.just = P.just
      /\ ActiveIds(Q) \subseteq ActiveIds(P) \cup {stored}
  BY InsertActive DEF Sound
<1> HIDE DEF Q, stored
<1>2. \A c \in ActiveIds(Q) \ {stored} : \E j \in Q.just : j.id = c
  BY <1>1 DEF Sound, Supported
<1> QED
  BY <1>1, <1>2, JustifyStep DEF Q, stored

\* Rows put up for review, a new access list: only other columns change.
LEMMA ConStep ==
    ASSUME NEW P, Sound(P), NEW con, \A c \in con : Cardinality(c) = 2
    PROVE  Sound([P EXCEPT !.con = con])
<1> DEFINE Q == [P EXCEPT !.con = con]
<1>1. Tables(Q) /\ Same(P, Q)
  BY ConEffect DEF Sound
<1> HIDE DEF Q
<1>2. ActiveIds(Q) \subseteq ActiveIds(P)
  BY <1>1 DEF Same, Keeps, ActiveIds
<1> QED
  BY <1>1, <1>2, SameSound DEF Same, Q

LEMMA AclStep ==
    ASSUME NEW P, Sound(P), NEW b, NEW acl
    PROVE  Sound([P EXCEPT !.bel[b].acl = acl])
<1> DEFINE Q == [P EXCEPT !.bel[b].acl = acl]
<1>1. Tables(Q) /\ Same(P, Q)
  BY AclEffect DEF Sound
<1> HIDE DEF Q
<1>2. ActiveIds(Q) \subseteq ActiveIds(P)
  BY <1>1 DEF Same, Keeps, ActiveIds
<1> QED
  BY <1>1, <1>2, SameSound DEF Same, Q

LEMMA SetStep ==
    ASSUME NEW P, Sound(P), NEW b, NEW st \in Statuses, st # "active"
    PROVE  Sound(SetStatus(P, b, st))
<1> DEFINE Q == SetStatus(P, b, st)
<1>1. /\ Tables(Q) /\ Keeps(P, Q) /\ Q.just = P.just
      /\ \A c \in Known(P) : Q.bel[c].status = IF c = b THEN st ELSE P.bel[c].status
  BY StatusEffect DEF Sound
<1> HIDE DEF Q
<1>2. ActiveIds(Q) \subseteq ActiveIds(P)
  BY <1>1 DEF Keeps, ActiveIds
<1> QED
  BY <1>1, <1>2, SameSound DEF Q

LEMMA ReplaceStep ==
    ASSUME NEW P, Sound(P), NEW old, NEW b, NEW s \in Slots, NEW v \in Values,
           NEW support, NEW rule
    PROVE  Sound(Justify(ReplaceBy(P, old, b, s, v),
                         StoredId(SetStatus(P, old, "superseded"), b, s, v), support, rule))
<1> DEFINE Q == SetStatus(P, old, "superseded")
<1>1. {"active", "superseded"} \subseteq Statuses
  BY DEF Statuses
<1>2. Sound(Q)
  BY <1>1, SetStep
<1> HIDE DEF Q
<1>3. Sound(Justify(Insert(Q, b, s, v, "active"), StoredId(Q, b, s, v), support, rule))
  BY <1>1, <1>2, AddStep
<1> QED
  BY <1>3 DEF Q, ReplaceBy

LEMMA AgainStep ==
    ASSUME NEW P, Sound(P), NEW b, NEW support, NEW rule
    PROVE  Sound(Justify(P, b, support, rule))
BY JustifyStep DEF Sound, Supported

LEMMA FlagStep ==
    ASSUME NEW P, Sound(P), NEW x, NEW y, x # y
    PROVE  Sound([P EXCEPT !.con = P.con \cup {{x, y}}])
<1>1. Cardinality({x, y}) = 2
  <2>1. /\ IsFiniteSet({x}) /\ Cardinality({x}) = 1
        /\ {x, y} = {x} \cup {y} /\ y \notin {x}
    BY FS_Singleton
  <2> QED
    BY <2>1, FS_AddElement
<1>2. \A c \in P.con \cup {{x, y}} : Cardinality(c) = 2
  BY <1>1 DEF Sound, Tables
<1> QED
  BY <1>2, ConStep

LEMMA ConflictStep ==
    ASSUME NEW P, Sound(P), NEW old, NEW e, e.slot \in Slots, e.value \in Values
    PROVE  Sound(ApplyFactConflict(P, old, e))
<1> DEFINE b == AssertedId(e.slot, e.turn)
           winner == StoredId(SetStatus(P, old, "superseded"), b, e.slot, e.value)
           loser == StoredId(P, b, e.slot, e.value)
           newer == Justify(ReplaceBy(P, old, b, e.slot, e.value), winner, e.turn, "extraction")
           draft == Justify(Insert(P, b, e.slot, e.value, "draft"), loser, e.turn, "extraction")
           flag(Q, new) == IF new = old THEN Q ELSE [Q EXCEPT !.con = @ \cup {{old, new}}]
<1>1. Sound(newer)
  BY ReplaceStep
<1>2. Sound(draft)
  BY AddStep DEF Statuses
<1>3. Sound(Justify(P, old, e.turn, "extraction"))
  BY AgainStep
<1>4. ASSUME NEW Q, Sound(Q), NEW new PROVE Sound(flag(Q, new))
  <2>1. CASE new = old
    BY <1>4, <2>1
  <2>2. CASE new # old
    <3>1. Sound([Q EXCEPT !.con = Q.con \cup {{old, new}}])
      BY <1>4, <2>2, FlagStep
    <3> QED
      BY <2>2, <3>1
  <2> QED
    BY <2>1, <2>2
<1>5. Sound(flag(newer, winner)) /\ Sound(flag(draft, loser))
  BY <1>1, <1>2, <1>4
<1>6. ApplyFactConflict(P, old, e) \in {Justify(P, old, e.turn, "extraction"), newer,
                                       flag(newer, winner), flag(draft, loser)}
  BY DEF ApplyFactConflict
<1> QED
  BY <1>1, <1>3, <1>5, <1>6

LEMMA AssertedStep ==
    ASSUME NEW P, Sound(P), NEW e, e.slot \in Slots, e.value \in Values
    PROVE  Sound(OnAsserted(P, e))
<1> DEFINE b == AssertedId(e.slot, e.turn)
<1>1. CASE ActiveIn(P, e.slot) # {}
  BY <1>1, ConflictStep DEF OnAsserted
<1>2. CASE ActiveIn(P, e.slot) = {}
  <2>1. StoredId(P, b, e.slot, e.value) = b
    BY <1>2 DEF StoredId, Duplicates
  <2>2. Sound(Justify(Insert(P, b, e.slot, e.value, "active"),
                      StoredId(P, b, e.slot, e.value), e.turn, "extraction"))
    BY AddStep DEF Statuses
  <2> QED
    BY <1>2, <2>1, <2>2 DEF OnAsserted
<1> QED
  BY <1>1, <1>2

LEMMA CorrectedStep ==
    ASSUME NEW P, Sound(P), NEW e, e.value \in Values
    PROVE  Sound(OnCorrected(P, e))
<1>1. CASE e.belief \notin Known(P)
  BY <1>1, RetractStep DEF OnCorrected, Cascade
<1>2. CASE e.belief \in Known(P)
  <2> DEFINE s == P.bel[e.belief].slot
             b == CorrectedId(s, e.n)
             new == StoredId(SetStatus(P, e.belief, "superseded"), b, s, e.value)
             Q == Justify(ReplaceBy(P, e.belief, b, s, e.value), new, <<"event", e.n>>, "correction")
  <2>1. s \in Slots
    BY <1>2, RowTypes DEF Sound, Tables
  <2>2. Sound(Q)
    <3> HIDE DEF s
    <3> QED
      BY <2>1, ReplaceStep
  <2>3. OnCorrected(P, e) = Cascade(Q, e.belief)
    BY <1>2 DEF OnCorrected
  <2> HIDE DEF Q
  <2> QED
    BY <2>2, <2>3, RetractStep DEF Cascade
<1> QED
  BY <1>1, <1>2

\* The supports of a derived row, one for each premise.
DerivedSupports(P, e) ==
    {[id |-> StoredId(P, DerivedId(e.premises), SlotA, Concluded), support |-> p, rule |-> "rule"] :
        p \in e.premises}

LEMMA DerivedEffect ==
    ASSUME NEW P, Tables(P), NEW e
    PROVE  /\ Tables(OnDerived(P, e))
           /\ OnDerived(P, e).bel = Insert(P, DerivedId(e.premises), SlotA, Concluded, "active").bel
           /\ OnDerived(P, e).just = P.just \cup DerivedSupports(P, e)
<1> DEFINE Q == Insert(P, DerivedId(e.premises), SlotA, Concluded, "active")
           R == OnDerived(P, e)
<1>1. Tables(Q) /\ Q.just = P.just
  BY InsertActive, RuleAssumption DEF Statuses
<1>2. R = [Q EXCEPT !.just = Q.just \cup DerivedSupports(P, e)]
  BY DEF OnDerived, DerivedSupports
<1> HIDE DEF Q, R
<1>3. R = [bel |-> Q.bel, just |-> Q.just \cup DerivedSupports(P, e), con |-> Q.con]
  BY <1>1, <1>2 DEF Tables
<1>4. R.bel = Q.bel /\ R.just = Q.just \cup DerivedSupports(P, e) /\ R.con = Q.con
      /\ Known(R) = Known(Q)
  BY <1>3 DEF Known
<1>5. R = [bel |-> R.bel, just |-> R.just, con |-> R.con]
  BY <1>3, <1>4
<1>6. Tables(R)
  BY <1>1, <1>4, <1>5 DEF Tables
<1> QED
  BY <1>1, <1>4, <1>6 DEF R, Q

LEMMA DerivedStep ==
    ASSUME NEW P, Sound(P), NEW e, e.premises # {}
    PROVE  Sound(OnDerived(P, e))
<1> DEFINE stored == StoredId(P, DerivedId(e.premises), SlotA, Concluded)
           Q == Insert(P, DerivedId(e.premises), SlotA, Concluded, "active")
           R == OnDerived(P, e)
           new == DerivedSupports(P, e)
<1>1. ActiveIds(Q) \subseteq ActiveIds(P) \cup {stored}
  BY InsertActive, RuleAssumption DEF Sound, Statuses
<1>2. Tables(R) /\ R.bel = Q.bel /\ R.just = P.just \cup new
  BY DerivedEffect DEF Sound
<1>3. \E j \in new : j.id = stored
  <2> PICK p \in e.premises : TRUE
    OBVIOUS
  <2> HIDE DEF stored
  <2>1. [id |-> stored, support |-> p, rule |-> "rule"] \in new
    BY DEF stored, DerivedSupports
  <2>2. [id |-> stored, support |-> p, rule |-> "rule"].id = stored
    OBVIOUS
  <2> HIDE DEF new
  <2> QED
    BY <2>1, <2>2
<1> HIDE DEF Q, R, new, stored
<1>4. ActiveIds(R) = ActiveIds(Q)
  BY <1>2 DEF Known, ActiveIds
<1>5. Supported(R)
  BY <1>1, <1>2, <1>3, <1>4 DEF Sound, Supported
<1> QED
  BY <1>2, <1>5 DEF Sound, R

\* An event of the log: of a type the reducer knows, about a slot and a text
\* there is, a derivation with premises.
EventOK(e) ==
    /\ e.type \in {"asserted", "corrected", "retracted", "forbidden", "derived", "grant", "revoke"}
    /\ e.type = "asserted" => e.slot \in Slots /\ e.value \in Values
    /\ e.type = "corrected" => e.value \in Values
    /\ e.type = "derived" => e.premises # {}

LEMMA ReduceStep ==
    ASSUME NEW P, Sound(P), NEW e, EventOK(e)
    PROVE  Sound(Reduce(P, e))
<1>1. e.type = "asserted" => Sound(OnAsserted(P, e))
  BY AssertedStep DEF EventOK
<1>2. e.type = "corrected" => Sound(OnCorrected(P, e))
  BY CorrectedStep DEF EventOK
<1>3. Sound(OnRetracted(P, e))
  BY RetractStep DEF OnRetracted, Retract, Cascade
<1>4. Sound(OnForbidden(P, e))
  BY RetractStep DEF OnForbidden
<1>5. e.type = "derived" => Sound(OnDerived(P, e))
  BY DerivedStep DEF EventOK
<1>6. Sound(OnGrant(P, e))
  BY AclStep DEF OnGrant
<1>7. Sound(OnRevoke(P, e))
  BY AclStep DEF OnRevoke
<1> QED
  BY <1>1, <1>2, <1>3, <1>4, <1>5, <1>6, <1>7 DEF Reduce, EventOK

-----------------------------------------------------------------------------
(* The same event does the same to two projections that are the same.         *)

LEMMA SameTrans ==
    ASSUME NEW P, NEW Q, NEW R, Same(P, Q)
    PROVE  Same(Q, P) /\ (Same(Q, R) => Same(P, R))
BY DEF Same, Keeps

\* What is read from one is what is read from the other.
SameViews(P, R, s, v, b) ==
    /\ ActiveIds(R) = ActiveIds(P)
    /\ ActiveIn(R, s) = ActiveIn(P, s)
    /\ FirstIn(R, s) = FirstIn(P, s)
    /\ NewHere(R, s, v) <=> NewHere(P, s, v)
    /\ StoredId(R, b, s, v) = StoredId(P, b, s, v)
    /\ PlaceOf(R, b) = PlaceOf(P, b)
    /\ Matching(R, v) = Matching(P, v)

LEMMA ViewsAgree ==
    ASSUME NEW P, NEW R, Same(P, R), NEW s, NEW v, NEW b
    PROVE  SameViews(P, R, s, v, b)
<1>0. /\ Known(R) = Known(P)
      /\ \A c \in Known(P) : /\ R.bel[c].slot = P.bel[c].slot
                             /\ R.bel[c].value = P.bel[c].value
                             /\ R.bel[c].at = P.bel[c].at
                             /\ R.bel[c].status = P.bel[c].status
  BY DEF Same, Keeps
<1>1. ActiveIds(R) = ActiveIds(P) /\ ActiveIds(P) \subseteq Known(P)
  BY <1>0 DEF ActiveIds
<1>2. ActiveIn(R, s) = ActiveIn(P, s) /\ ActiveIn(P, s) \subseteq Known(P)
  BY <1>0, <1>1 DEF ActiveIn, InScope
<1>3. FirstIn(R, s) = FirstIn(P, s)
  <2>1. {d \in ActiveIn(R, s) : \A c \in ActiveIn(R, s) : R.bel[d].at <= R.bel[c].at}
          = {d \in ActiveIn(P, s) : \A c \in ActiveIn(P, s) : P.bel[d].at <= P.bel[c].at}
    BY <1>0, <1>2
  <2> QED
    BY <2>1 DEF FirstIn
<1>4. Duplicates(R, s, v) = Duplicates(P, s, v)
  BY <1>0, <1>2 DEF Duplicates
<1>5. (NewHere(R, s, v) <=> NewHere(P, s, v)) /\ StoredId(R, b, s, v) = StoredId(P, b, s, v)
  BY <1>4 DEF NewHere, StoredId
<1>6. PlaceOf(R, b) = PlaceOf(P, b)
  <2>1. {R.bel[c].at : c \in Known(R)} = {P.bel[c].at : c \in Known(P)}
    BY <1>0
  <2> QED
    BY <1>0, <2>1 DEF PlaceOf
<1>7. Matching(R, v) = Matching(P, v)
  BY <1>0 DEF Matching
<1> QED
  BY <1>1, <1>2, <1>3, <1>5, <1>6, <1>7 DEF SameViews

LEMMA SameStatus ==
    ASSUME NEW P, NEW R, Tables(P), Tables(R), Same(P, R), NEW b, NEW st \in Statuses
    PROVE  Same(SetStatus(P, b, st), SetStatus(R, b, st))
<1> DEFINE Q == SetStatus(P, b, st)
           S == SetStatus(R, b, st)
<1>1. /\ Keeps(P, Q) /\ Q.just = P.just
      /\ \A c \in Known(P) : Q.bel[c].status = IF c = b THEN st ELSE P.bel[c].status
  BY StatusEffect
<1>2. /\ Keeps(R, S) /\ S.just = R.just
      /\ \A c \in Known(R) : S.bel[c].status = IF c = b THEN st ELSE R.bel[c].status
  BY StatusEffect
<1> HIDE DEF Q, S
<1> QED
  BY <1>1, <1>2 DEF Same, Keeps, Q, S

LEMMA SameRetract ==
    ASSUME NEW P, NEW R, Tables(P), Tables(R), Same(P, R), NEW ids
    PROVE  Same(RetractAll(P, ids), RetractAll(R, ids))
<1> DEFINE Q == RetractAll(P, ids)
           S == RetractAll(R, ids)
<1>1. /\ Keeps(P, Q) /\ Q.just = {j \in P.just : j.id \notin ids}
      /\ \A c \in Known(P) : Q.bel[c].status = IF c \in ids THEN "retracted" ELSE P.bel[c].status
  BY RetractEffect
<1>2. /\ Keeps(R, S) /\ S.just = {j \in R.just : j.id \notin ids}
      /\ \A c \in Known(R) : S.bel[c].status = IF c \in ids THEN "retracted" ELSE R.bel[c].status
  BY RetractEffect
<1> HIDE DEF Q, S
<1> QED
  BY <1>1, <1>2 DEF Same, Keeps, Q, S

LEMMA SameInsert ==
    ASSUME NEW P, NEW R, Tables(P), Tables(R), Same(P, R),
           NEW b, NEW s \in Slots, NEW v \in Values, NEW st \in Statuses
    PROVE  Same(Insert(P, b, s, v, st), Insert(R, b, s, v, st))
<1> DEFINE Q == Insert(P, b, s, v, st)
           S == Insert(R, b, s, v, st)
<1>0. (NewHere(R, s, v) <=> NewHere(P, s, v)) /\ PlaceOf(R, b) = PlaceOf(P, b)
  BY ViewsAgree DEF SameViews
<1>1. CASE NewHere(P, s, v)
  <2>1. Inserted(P, Q, b, s, v, st) /\ Inserted(R, S, b, s, v, st)
    BY <1>0, <1>1, InsertEffect
  <2>2. Q.bel[b] = S.bel[b]
    BY <1>0, <2>1 DEF Inserted
  <2> HIDE DEF Q, S
  <2>3. Known(S) = Known(Q) /\ Known(Q) = Known(P) \cup {b} /\ S.just = Q.just
    BY <2>1 DEF Inserted, Same, Keeps
  <2>4. \A c \in Known(P) \ {b} : /\ Q.bel[c] = P.bel[c] /\ S.bel[c] = R.bel[c]
                                  /\ R.bel[c].slot = P.bel[c].slot
                                  /\ R.bel[c].value = P.bel[c].value
                                  /\ R.bel[c].at = P.bel[c].at
                                  /\ R.bel[c].status = P.bel[c].status
    BY <2>1 DEF Inserted, Same, Keeps
  <2>5. \A c \in Known(Q) : /\ S.bel[c].slot = Q.bel[c].slot
                            /\ S.bel[c].value = Q.bel[c].value
                            /\ S.bel[c].at = Q.bel[c].at
                            /\ S.bel[c].status = Q.bel[c].status
    BY <2>2, <2>3, <2>4
  <2> QED
    BY <2>3, <2>5 DEF Same, Keeps, Q, S
<1>2. CASE ~ NewHere(P, s, v)
  <2>1. Q = P /\ S = R
    BY <1>0, <1>2 DEF NewHere, Insert
  <2> QED
    BY <2>1
<1> QED
  BY <1>1, <1>2

LEMMA SameJustify ==
    ASSUME NEW P, NEW R, Tables(P), Tables(R), Same(P, R), NEW b, NEW support, NEW rule
    PROVE  Same(Justify(P, b, support, rule), Justify(R, b, support, rule))
<1> DEFINE Q == Justify(P, b, support, rule)
           S == Justify(R, b, support, rule)
           new == [id |-> b, support |-> support, rule |-> rule]
<1>1. Q.bel = P.bel /\ Q.just = P.just \cup {new} /\ S.bel = R.bel /\ S.just = R.just \cup {new}
  BY JustifyEffect
<1> HIDE DEF Q, S, new
<1> QED
  BY <1>1 DEF Same, Keeps, Known, Q, S

LEMMA SameReplace ==
    ASSUME NEW P, NEW R, Tables(P), Tables(R), Same(P, R), NEW old, NEW b,
           NEW s \in Slots, NEW v \in Values
    PROVE  /\ Same(ReplaceBy(P, old, b, s, v), ReplaceBy(R, old, b, s, v))
           /\ Tables(ReplaceBy(P, old, b, s, v)) /\ Tables(ReplaceBy(R, old, b, s, v))
           /\ StoredId(SetStatus(P, old, "superseded"), b, s, v)
                = StoredId(SetStatus(R, old, "superseded"), b, s, v)
<1> DEFINE Q == SetStatus(P, old, "superseded")
           S == SetStatus(R, old, "superseded")
<1>0. {"active", "superseded"} \subseteq Statuses
  BY DEF Statuses
<1>1. Tables(Q) /\ Tables(S) /\ Same(Q, S)
  BY <1>0, StatusEffect, SameStatus
<1> HIDE DEF Q, S
<1>2. Same(Insert(Q, b, s, v, "active"), Insert(S, b, s, v, "active"))
  BY <1>0, <1>1, SameInsert
<1>3. Tables(Insert(Q, b, s, v, "active")) /\ Tables(Insert(S, b, s, v, "active"))
  BY <1>0, <1>1, InsertActive
<1>4. StoredId(Q, b, s, v) = StoredId(S, b, s, v)
  BY <1>1, ViewsAgree DEF SameViews
<1> QED
  BY <1>2, <1>3, <1>4 DEF ReplaceBy, Q, S

\* The first row of a slot with active rows is one of them.
LEMMA FirstIsThere ==
    ASSUME NEW P, Tables(P), NEW s, ActiveIn(P, s) # {}
    PROVE  FirstIn(P, s) \in ActiveIn(P, s)
<1> DEFINE places == {P.bel[b].at : b \in ActiveIn(P, s)}
           firsts == {b \in ActiveIn(P, s) : \A c \in ActiveIn(P, s) : P.bel[b].at <= P.bel[c].at}
<1>1. ActiveIn(P, s) \subseteq Known(P)
  BY DEF ActiveIn, ActiveIds
<1>2. \A b \in Known(P) : P.bel[b].at \in Nat
  BY RowTypes DEF Tables
<1>3. places \in SUBSET Nat /\ places # {}
  BY <1>1, <1>2
<1> HIDE DEF places
<1>4. PICK m \in places : \A n \in places : m <= n
  BY <1>3, LeastNumber
<1>5. firsts # {} /\ firsts \subseteq ActiveIn(P, s)
  BY <1>4 DEF places
<1> HIDE DEF firsts
<1>6. Some(firsts) \in firsts
  BY <1>5 DEF Some
<1> QED
  BY <1>5, <1>6 DEF FirstIn, firsts

LEMMA SameConflict ==
    ASSUME NEW P, NEW R, Sound(P), Sound(R), Same(P, R), NEW old \in Known(P),
           NEW e, e.slot \in Slots, e.value \in Values
    PROVE  Same(ApplyFactConflict(P, old, e), ApplyFactConflict(R, old, e))
<1> DEFINE b == AssertedId(e.slot, e.turn)
           winner == StoredId(SetStatus(P, old, "superseded"), b, e.slot, e.value)
           loser == StoredId(P, b, e.slot, e.value)
           newer(Q) == Justify(ReplaceBy(Q, old, b, e.slot, e.value), winner, e.turn, "extraction")
           draft(Q) == Justify(Insert(Q, b, e.slot, e.value, "draft"), loser, e.turn, "extraction")
           flag(Q, new) == IF new = old THEN Q ELSE [Q EXCEPT !.con = @ \cup {{old, new}}]
<1>0. Tables(P) /\ Tables(R) /\ "draft" \in Statuses /\ P.bel[old].value = R.bel[old].value
  BY DEF Sound, Statuses, Same, Keeps
<1>1. /\ loser = StoredId(R, b, e.slot, e.value)
      /\ winner = StoredId(SetStatus(R, old, "superseded"), b, e.slot, e.value)
  BY <1>0, ViewsAgree, SameReplace DEF SameViews
<1>2. Same(newer(P), newer(R)) /\ Same(draft(P), draft(R))
  <2>1. /\ Same(ReplaceBy(P, old, b, e.slot, e.value), ReplaceBy(R, old, b, e.slot, e.value))
        /\ Tables(ReplaceBy(P, old, b, e.slot, e.value))
        /\ Tables(ReplaceBy(R, old, b, e.slot, e.value))
    BY <1>0, SameReplace
  <2>2. /\ Same(Insert(P, b, e.slot, e.value, "draft"), Insert(R, b, e.slot, e.value, "draft"))
        /\ Tables(Insert(P, b, e.slot, e.value, "draft"))
        /\ Tables(Insert(R, b, e.slot, e.value, "draft"))
    BY <1>0, SameInsert, InsertActive
  <2> QED
    BY <2>1, <2>2, SameJustify
<1>3. /\ Tables(newer(P)) /\ Tables(newer(R))
      /\ Tables(draft(P)) /\ Tables(draft(R))
  BY <1>1, ReplaceStep, AddStep DEF Sound, Statuses
<1>4. ASSUME NEW Q, NEW S, Tables(Q), Tables(S), Same(Q, S), NEW new
      PROVE  Same(flag(Q, new), flag(S, new))
  <2>1. CASE new = old
    BY <1>4, <2>1
  <2>2. CASE new # old
    <3> DEFINE F(X) == [X EXCEPT !.con = X.con \cup {{old, new}}]
    <3>1. ASSUME NEW X, Tables(X) PROVE F(X).bel = X.bel /\ F(X).just = X.just
      BY <3>1 DEF Tables
    <3>2. /\ F(Q).bel = Q.bel /\ F(Q).just = Q.just /\ flag(Q, new) = F(Q)
          /\ F(S).bel = S.bel /\ F(S).just = S.just /\ flag(S, new) = F(S)
      BY <1>4, <2>2, <3>1
    <3> HIDE DEF F, flag
    <3> QED
      BY <1>4, <3>2 DEF Same, Keeps, Known
  <2> QED
    BY <2>1, <2>2
<1>5. /\ Same(flag(newer(P), winner), flag(newer(R), winner))
      /\ Same(flag(draft(P), loser), flag(draft(R), loser))
  BY <1>2, <1>3, <1>4
<1>6. Same(Justify(P, old, e.turn, "extraction"), Justify(R, old, e.turn, "extraction"))
  BY <1>0, SameJustify
<1>7. ASSUME NEW Q \in {P, R}
      PROVE  ApplyFactConflict(Q, old, e) =
                 IF P.bel[old].value = e.value THEN Justify(Q, old, e.turn, "extraction")
                 ELSE IF e.slot \notin Flagged THEN newer(Q)
                 ELSE IF e.wins THEN flag(newer(Q), winner)
                 ELSE flag(draft(Q), loser)
  BY <1>0, <1>1 DEF ApplyFactConflict
<1> HIDE DEF newer, draft, flag, winner, loser
<1> QED
  BY <1>2, <1>5, <1>6, <1>7

LEMMA SameAsserted ==
    ASSUME NEW P, NEW R, Sound(P), Sound(R), Same(P, R),
           NEW e, e.slot \in Slots, e.value \in Values
    PROVE  Same(OnAsserted(P, e), OnAsserted(R, e))
<1> DEFINE b == AssertedId(e.slot, e.turn)
<1>1. Tables(P) /\ Tables(R) /\ "active" \in Statuses
  BY DEF Sound, Statuses
<1>2. ActiveIn(R, e.slot) = ActiveIn(P, e.slot) /\ FirstIn(R, e.slot) = FirstIn(P, e.slot)
  BY ViewsAgree DEF SameViews
<1>3. CASE ActiveIn(P, e.slot) # {}
  <2>1. FirstIn(P, e.slot) \in Known(P)
    BY <1>1, <1>3, FirstIsThere DEF ActiveIn, ActiveIds
  <2>2. Same(ApplyFactConflict(P, FirstIn(P, e.slot), e), ApplyFactConflict(R, FirstIn(P, e.slot), e))
    BY <2>1, SameConflict
  <2> QED
    BY <1>2, <1>3, <2>2 DEF OnAsserted
<1>4. CASE ActiveIn(P, e.slot) = {}
  <2> DEFINE Q == Insert(P, b, e.slot, e.value, "active")
             S == Insert(R, b, e.slot, e.value, "active")
  <2>1. Same(Q, S) /\ Tables(Q) /\ Tables(S)
    BY <1>1, SameInsert, InsertActive
  <2>2. OnAsserted(P, e) = Justify(Q, b, e.turn, "extraction")
    BY <1>4 DEF OnAsserted
  <2>3. OnAsserted(R, e) = Justify(S, b, e.turn, "extraction")
    BY <1>2, <1>4 DEF OnAsserted
  <2> HIDE DEF Q, S
  <2> QED
    BY <2>1, <2>2, <2>3, SameJustify
<1> QED
  BY <1>3, <1>4

LEMMA SameCascade ==
    ASSUME NEW P, NEW R, Tables(P), Tables(R), Same(P, R), NEW b
    PROVE  Same(Cascade(P, b), Cascade(R, b))
<1>1. R.just = P.just
  BY DEF Same
<1> QED
  BY <1>1, SameRetract DEF Cascade

LEMMA SameCorrected ==
    ASSUME NEW P, NEW R, Sound(P), Sound(R), Same(P, R), NEW e, e.value \in Values
    PROVE  Same(OnCorrected(P, e), OnCorrected(R, e))
<1>0. Tables(P) /\ Tables(R) /\ Known(R) = Known(P)
  BY DEF Sound, Same, Keeps
<1>1. CASE e.belief \notin Known(P)
  BY <1>0, <1>1, SameCascade DEF OnCorrected
<1>2. CASE e.belief \in Known(P)
  <2> DEFINE s == P.bel[e.belief].slot
             b == CorrectedId(s, e.n)
             new == StoredId(SetStatus(P, e.belief, "superseded"), b, s, e.value)
             Q == ReplaceBy(P, e.belief, b, s, e.value)
             S == ReplaceBy(R, e.belief, b, s, e.value)
             J(X) == Justify(X, new, <<"event", e.n>>, "correction")
  <2>1. s \in Slots
    BY <1>0, <1>2, RowTypes DEF Tables
  <2>2. s = R.bel[e.belief].slot
    BY <1>2 DEF Same, Keeps
  <2>3. /\ Same(Q, S) /\ Tables(Q) /\ Tables(S)
        /\ new = StoredId(SetStatus(R, e.belief, "superseded"), b, s, e.value)
    <3> HIDE DEF s, b
    <3> QED
      BY <1>0, <2>1, SameReplace
  <2>4. OnCorrected(P, e) = Cascade(J(Q), e.belief)
    BY <1>2 DEF OnCorrected
  <2>5. OnCorrected(R, e) = Cascade(J(S), e.belief)
    <3> DEFINE T(x) == Cascade(Justify(ReplaceBy(R, e.belief, CorrectedId(x, e.n), x, e.value),
                                  StoredId(SetStatus(R, e.belief, "superseded"),
                                           CorrectedId(x, e.n), x, e.value),
                                  <<"event", e.n>>, "correction"), e.belief)
    <3>1. OnCorrected(R, e) = T(R.bel[e.belief].slot)
      BY <1>0, <1>2 DEF OnCorrected
    <3>2. T(R.bel[e.belief].slot) = T(s)
      BY <2>2
    <3>3. T(s) = Cascade(J(S), e.belief)
      BY <2>3
    <3> QED
      BY <3>1, <3>2, <3>3
  <2> HIDE DEF Q, S, new
  <2>6. Same(J(Q), J(S)) /\ Tables(J(Q)) /\ Tables(J(S))
    BY <2>3, SameJustify, JustifyEffect
  <2> QED
    BY <2>4, <2>5, <2>6, SameCascade
<1> QED
  BY <1>1, <1>2

LEMMA SameDerived ==
    ASSUME NEW P, NEW R, Sound(P), Sound(R), Same(P, R), NEW e
    PROVE  Same(OnDerived(P, e), OnDerived(R, e))
<1> DEFINE b == DerivedId(e.premises)
           Q == Insert(P, b, SlotA, Concluded, "active")
           S == Insert(R, b, SlotA, Concluded, "active")
<1>1. Tables(P) /\ Tables(R) /\ "active" \in Statuses
  BY DEF Sound, Statuses
<1>2. Same(Q, S) /\ Q.just = P.just /\ S.just = R.just
  BY <1>1, SameInsert, InsertActive, RuleAssumption
<1>3. StoredId(P, b, SlotA, Concluded) = StoredId(R, b, SlotA, Concluded)
  BY ViewsAgree DEF SameViews
<1>4. DerivedSupports(P, e) = DerivedSupports(R, e)
  BY <1>3 DEF DerivedSupports
<1>5. /\ OnDerived(P, e).bel = Q.bel /\ OnDerived(P, e).just = Q.just \cup DerivedSupports(P, e)
      /\ OnDerived(R, e).bel = S.bel /\ OnDerived(R, e).just = S.just \cup DerivedSupports(R, e)
  BY <1>1, <1>2, DerivedEffect
<1> HIDE DEF Q, S
<1> QED
  BY <1>2, <1>4, <1>5 DEF Same, Keeps, Known

\* A change of access lists is no change of what is replayed.
LEMMA SharedEffect ==
    ASSUME NEW P, Tables(P), NEW e
    PROVE  /\ Same(P, OnGrant(P, e)) /\ Same(P, OnRevoke(P, e))
<1> DEFINE b == e.belief
           F(Q, acl) == [Q EXCEPT !.bel[b].acl = acl]
<1>1. Same(P, P)
  BY DEF Same, Keeps
<1>2. ASSUME NEW x, NEW y PROVE Same(P, F(F(P, x), y))
  <2>1. Tables(F(P, x)) /\ Same(P, F(P, x))
    BY AclEffect
  <2> HIDE DEF F
  <2>2. Same(F(P, x), F(F(P, x), y))
    BY <2>1, AclEffect DEF F
  <2> QED
    BY <2>1, <2>2, SameTrans
<1>3. Same(P, OnGrant(P, e))
  <2> DEFINE x == [P.bel[b].acl EXCEPT !.allow = @ \cup {e.agent}]
             y == [F(P, x).bel[b].acl EXCEPT !.deny = @ \ {e.agent}]
  <2>1. b \in Known(P) => OnGrant(P, e) = F(F(P, x), y)
    BY DEF OnGrant
  <2> HIDE DEF F, x, y
  <2> QED
    BY <1>1, <1>2, <2>1 DEF OnGrant
<1>4. Same(P, OnRevoke(P, e))
  <2> DEFINE x == [P.bel[b].acl EXCEPT !.deny = @ \cup {e.agent}]
             y == [F(P, x).bel[b].acl EXCEPT !.allow = @ \ {e.agent}]
  <2>1. b \in Known(P) => OnRevoke(P, e) = F(F(P, x), y)
    BY DEF OnRevoke
  <2> HIDE DEF F, x, y
  <2> QED
    BY <1>1, <1>2, <2>1 DEF OnRevoke
<1> QED
  BY <1>3, <1>4

LEMMA SameReduce ==
    ASSUME NEW P, NEW R, Sound(P), Sound(R), Same(P, R), NEW e, EventOK(e)
    PROVE  Same(Reduce(P, e), Reduce(R, e))
<1>0. Tables(P) /\ Tables(R)
  BY DEF Sound
<1>1. e.type = "asserted" => Same(OnAsserted(P, e), OnAsserted(R, e))
  BY SameAsserted DEF EventOK
<1>2. e.type = "corrected" => Same(OnCorrected(P, e), OnCorrected(R, e))
  BY SameCorrected DEF EventOK
<1>3. Same(OnRetracted(P, e), OnRetracted(R, e))
  <2>1. /\ Same(Retract(P, e.belief), Retract(R, e.belief))
        /\ Tables(Retract(P, e.belief)) /\ Tables(Retract(R, e.belief))
    BY <1>0, SameRetract, RetractEffect DEF Retract
  <2> QED
    BY <2>1, SameCascade DEF OnRetracted
<1>4. Same(OnForbidden(P, e), OnForbidden(R, e))
  <2>1. Matching(P, e.value) = Matching(R, e.value)
    BY ViewsAgree DEF SameViews
  <2> QED
    BY <1>0, <2>1, SameRetract DEF OnForbidden
<1>5. Same(OnDerived(P, e), OnDerived(R, e))
  BY SameDerived
<1>6. Same(OnGrant(P, e), OnGrant(R, e)) /\ Same(OnRevoke(P, e), OnRevoke(R, e))
  BY <1>0, SharedEffect, SameTrans
<1> QED
  BY <1>1, <1>2, <1>3, <1>4, <1>5, <1>6 DEF Reduce, EventOK

-----------------------------------------------------------------------------
(* The projection after n events: the recursive function of After exists, and *)
(* its value at n depends on the first n events only.                         *)

LEMMA EveryNumber ==
    ASSUME NEW S, 0 \in S, \A n \in Nat : n \in S => n + 1 \in S
    PROVE  Nat \subseteq S
<1> DEFINE left == {n \in Nat : n \notin S}
<1> SUFFICES ASSUME left # {} PROVE FALSE
  OBVIOUS
<1>1. PICK m \in left : \A n \in left : m <= n
  <2>1. left \in SUBSET Nat
    OBVIOUS
  <2> HIDE DEF left
  <2> QED
    BY <2>1, LeastNumber
<1>2. m \in Nat /\ m # 0 /\ m \notin S
  OBVIOUS
<1>3. m - 1 \in Nat /\ (m - 1) + 1 = m /\ ~ (m <= m - 1)
  BY <1>2
<1>4. m - 1 \in S
  BY <1>1, <1>3
<1> QED
  BY <1>2, <1>3, <1>4

Stages(f, events, n) ==
    f = [k \in 0 .. n |-> IF k = 0 THEN Empty ELSE Reduce(f[k - 1], events[k])]

LEMMA StagesExist ==
    ASSUME NEW events, NEW n \in Nat
    PROVE  \E f : Stages(f, events, n)
<1> DEFINE S == {k \in Nat : \E f : Stages(f, events, k)}
<1>1. 0 \in S
  <2> DEFINE f == [k \in 0 .. 0 |-> Empty]
  <2>1. Stages(f, events, 0)
    BY DEF Stages
  <2> QED
    BY <2>1
<1>2. ASSUME NEW k \in Nat, k \in S PROVE k + 1 \in S
  <2>1. PICK f : Stages(f, events, k)
    BY <1>2
  <2> DEFINE g == [i \in 0 .. k + 1 |-> IF i = k + 1 THEN Reduce(f[k], events[k + 1]) ELSE f[i]]
  <2>2. \A i \in 0 .. k : f[i] = IF i = 0 THEN Empty ELSE Reduce(f[i - 1], events[i])
    BY <2>1 DEF Stages
  <2>3. ASSUME NEW i \in 0 .. k + 1
        PROVE  g[i] = IF i = 0 THEN Empty ELSE Reduce(g[i - 1], events[i])
    <3>1. CASE i = k + 1
      <4>1. i - 1 = k /\ k \in 0 .. k + 1 /\ k # k + 1 /\ i # 0
        BY <3>1
      <4>2. g[i - 1] = f[k] /\ g[i] = Reduce(f[k], events[i])
        BY <3>1, <4>1
      <4> QED
        BY <4>1, <4>2
    <3>2. CASE i # k + 1
      <4>1. i \in 0 .. k /\ g[i] = f[i]
        BY <3>2
      <4>2. CASE i = 0
        BY <2>2, <4>1, <4>2
      <4>3. CASE i # 0
        <5>1. i - 1 \in 0 .. k + 1 /\ i - 1 # k + 1
          BY <4>1, <4>3
        <5>2. g[i - 1] = f[i - 1]
          BY <5>1
        <5>3. f[i] = Reduce(f[i - 1], events[i])
          BY <2>2, <4>1, <4>3
        <5> QED
          BY <4>1, <4>3, <5>2, <5>3
      <4> QED
        BY <4>2, <4>3
    <3> QED
      BY <3>1, <3>2
  <2>4. Stages(g, events, k + 1)
    <3>1. g = [i \in 0 .. k + 1 |-> g[i]]
      OBVIOUS
    <3> HIDE DEF g
    <3> QED
      BY <2>3, <3>1 DEF Stages
  <2> QED
    BY <2>4
<1> HIDE DEF S
<1>3. Nat \subseteq S
  BY <1>1, <1>2, EveryNumber
<1> QED
  BY <1>3 DEF S

LEMMA StagesAgree ==
    ASSUME NEW events, NEW f, NEW m \in Nat, Stages(f, events, m),
           NEW others, NEW g, NEW n \in Nat, Stages(g, others, n),
           NEW last \in Nat, last <= m, last <= n, \A i \in 1 .. last : events[i] = others[i]
    PROVE  f[last] = g[last]
<1> DEFINE S == {k \in Nat : k <= last => f[k] = g[k]}
<1>0. /\ \A i \in 0 .. last : f[i] = IF i = 0 THEN Empty ELSE Reduce(f[i - 1], events[i])
      /\ \A i \in 0 .. last : g[i] = IF i = 0 THEN Empty ELSE Reduce(g[i - 1], others[i])
  <2>1. \A i \in 0 .. last : i \in 0 .. m /\ i \in 0 .. n
    OBVIOUS
  <2>2. \A i \in 0 .. m : f[i] = IF i = 0 THEN Empty ELSE Reduce(f[i - 1], events[i])
    BY DEF Stages
  <2>3. \A i \in 0 .. n : g[i] = IF i = 0 THEN Empty ELSE Reduce(g[i - 1], others[i])
    BY DEF Stages
  <2> QED
    BY <2>1, <2>2, <2>3
<1>1. 0 \in S
  BY <1>0
<1>2. ASSUME NEW k \in Nat, k \in S PROVE k + 1 \in S
  <2> SUFFICES ASSUME k + 1 <= last PROVE f[k + 1] = g[k + 1]
    OBVIOUS
  <2>1. k + 1 \in 1 .. last /\ k + 1 \in 0 .. last /\ (k + 1) - 1 = k /\ k <= last /\ k + 1 # 0
    OBVIOUS
  <2>2. f[k] = g[k] /\ events[k + 1] = others[k + 1]
    BY <1>2, <2>1
  <2>3. f[k + 1] = Reduce(f[k], events[k + 1])
    BY <1>0, <2>1
  <2>4. g[k + 1] = Reduce(g[k], others[k + 1])
    BY <1>0, <2>1
  <2> QED
    BY <2>2, <2>3, <2>4
<1> HIDE DEF S
<1>3. Nat \subseteq S
  BY <1>1, <1>2, EveryNumber
<1> QED
  BY <1>3 DEF S

LEMMA AfterIsStage ==
    ASSUME NEW events, NEW n \in Nat, NEW f, Stages(f, events, n)
    PROVE  After(events, n) = f[n]
<1> DEFINE step(h, k) == IF k = 0 THEN Empty ELSE Reduce(h[k - 1], events[k])
           Whole(h) == h = [k \in Nat |-> step(h, k)]
           pick(k) == CHOOSE h : Stages(h, events, k)
           F == [k \in Nat |-> pick(k)[k]]
<1>1. \A k \in Nat : Stages(pick(k), events, k)
  BY StagesExist
<1>2. Whole(F)
  <2>1. ASSUME NEW k \in Nat PROVE F[k] = step(F, k)
    <3>1. Stages(pick(k), events, k)
      BY <1>1
    <3>2. pick(k)[k] = step(pick(k), k)
      <4>1. k \in 0 .. k
        OBVIOUS
      <4> HIDE DEF pick
      <4> QED
        BY <3>1, <4>1 DEF Stages
    <3>3. CASE k = 0
      BY <3>2, <3>3
    <3>4. CASE k # 0
      <4>1. k - 1 \in Nat /\ k - 1 <= k
        BY <3>4
      <4>2. Stages(pick(k - 1), events, k - 1)
        BY <1>1, <4>1
      <4>3. pick(k)[k - 1] = pick(k - 1)[k - 1]
        <5> HIDE DEF pick
        <5> QED
          BY <3>1, <4>1, <4>2, StagesAgree
      <4>4. F[k - 1] = pick(k - 1)[k - 1] /\ F[k] = pick(k)[k]
        BY <4>1
      <4> HIDE DEF F, pick
      <4> QED
        BY <3>2, <3>4, <4>3, <4>4
    <3> QED
      BY <3>3, <3>4
  <2>2. F = [k \in Nat |-> F[k]]
    OBVIOUS
  <2> HIDE DEF F
  <2> QED
    BY <2>1, <2>2
<1>3. After(events, n) = (CHOOSE h : Whole(h))[n]
  BY DEF After
<1> DEFINE G == CHOOSE h : Whole(h)
<1>4. Whole(G)
  <2>1. \E h : Whole(h)
    BY <1>2
  <2> HIDE DEF Whole
  <2> QED
    BY <2>1
<1> HIDE DEF G
<1> DEFINE g == [k \in 0 .. n |-> G[k]]
<1>5. Stages(g, events, n)
  <2>1. ASSUME NEW k \in 0 .. n PROVE g[k] = step(g, k)
    <3>1. G[k] = step(G, k)
      BY <1>4
    <3>2. k # 0 => k - 1 \in 0 .. n
      OBVIOUS
    <3> QED
      BY <3>1, <3>2
  <2>2. g = [k \in 0 .. n |-> g[k]]
    OBVIOUS
  <2> HIDE DEF g
  <2> QED
    BY <2>1, <2>2 DEF Stages
<1>6. g[n] = f[n]
  <2> HIDE DEF g
  <2> QED
    BY <1>5, StagesAgree
<1> QED
  BY <1>3, <1>6 DEF G

LEMMA AfterNone == ASSUME NEW events PROVE After(events, 0) = Empty
<1>1. PICK f : Stages(f, events, 0)
  BY StagesExist
<1>2. After(events, 0) = f[0]
  BY <1>1, AfterIsStage
<1> QED
  BY <1>1, <1>2 DEF Stages

LEMMA AfterOneMore ==
    ASSUME NEW events, NEW n \in Nat
    PROVE  After(events, n + 1) = Reduce(After(events, n), events[n + 1])
<1>1. PICK f : Stages(f, events, n + 1)
  BY StagesExist
<1>2. PICK g : Stages(g, events, n)
  BY StagesExist
<1>3. After(events, n + 1) = f[n + 1] /\ After(events, n) = g[n]
  BY <1>1, <1>2, AfterIsStage
<1>4. f[n] = g[n]
  BY <1>1, <1>2, StagesAgree
<1>5. f[n + 1] = Reduce(f[n], events[n + 1])
  <2>1. n + 1 \in 0 .. n + 1 /\ n + 1 # 0 /\ (n + 1) - 1 = n
    OBVIOUS
  <2> QED
    BY <1>1, <2>1 DEF Stages
<1> QED
  BY <1>3, <1>4, <1>5

LEMMA AfterPrefix ==
    ASSUME NEW events, NEW others, NEW n \in Nat, \A i \in 1 .. n : events[i] = others[i]
    PROVE  After(events, n) = After(others, n)
<1>1. PICK f : Stages(f, events, n)
  BY StagesExist
<1>2. PICK g : Stages(g, others, n)
  BY StagesExist
<1>3. After(events, n) = f[n] /\ After(others, n) = g[n]
  BY <1>1, <1>2, AfterIsStage
<1>4. f[n] = g[n]
  BY <1>1, <1>2, StagesAgree
<1> QED
  BY <1>3, <1>4

-----------------------------------------------------------------------------
(* Supports by derivation: only a derivation adds them, and what takes a      *)
(* premise back takes all of them with it.                                    *)

OnlyOld(P, Q) == \A j \in Q.just : j.rule = "rule" => j \in P.just

LEMMA ReplaceTables ==
    ASSUME NEW P, Tables(P), NEW old, NEW b, NEW s \in Slots, NEW v \in Values
    PROVE  Tables(ReplaceBy(P, old, b, s, v)) /\ ReplaceBy(P, old, b, s, v).just = P.just
<1> DEFINE S == SetStatus(P, old, "superseded")
<1>1. {"active", "superseded"} \subseteq Statuses
  BY DEF Statuses
<1>2. Tables(S) /\ S.just = P.just
  BY <1>1, StatusEffect
<1> HIDE DEF S
<1>3. Tables(Insert(S, b, s, v, "active")) /\ Insert(S, b, s, v, "active").just = S.just
  BY <1>1, <1>2, InsertActive
<1> QED
  BY <1>2, <1>3 DEF ReplaceBy, S

LEMMA NoRuleAdded ==
    ASSUME NEW P, NEW Q, Tables(Q), Q.just = P.just, NEW b, NEW support,
           NEW rule \in {"extraction", "correction"}
    PROVE  OnlyOld(P, Justify(Q, b, support, rule))
<1> DEFINE new == [id |-> b, support |-> support, rule |-> rule]
<1>1. Justify(Q, b, support, rule).just = P.just \cup {new}
  BY JustifyEffect
<1>2. new.rule # "rule"
  OBVIOUS
<1> HIDE DEF new
<1> QED
  BY <1>1, <1>2 DEF OnlyOld

LEMMA AssertedJust ==
    ASSUME NEW P, Sound(P), NEW e, e.slot \in Slots, e.value \in Values
    PROVE  OnlyOld(P, OnAsserted(P, e))
<1> DEFINE b == AssertedId(e.slot, e.turn)
           old == FirstIn(P, e.slot)
           winner == StoredId(SetStatus(P, old, "superseded"), b, e.slot, e.value)
           loser == StoredId(P, b, e.slot, e.value)
           newer == Justify(ReplaceBy(P, old, b, e.slot, e.value), winner, e.turn, "extraction")
           draft == Justify(Insert(P, b, e.slot, e.value, "draft"), loser, e.turn, "extraction")
           flag(Q, new) == IF new = old THEN Q ELSE [Q EXCEPT !.con = @ \cup {{old, new}}]
           same == Justify(P, old, e.turn, "extraction")
           first == Justify(Insert(P, b, e.slot, e.value, "active"), b, e.turn, "extraction")
<1>0. Tables(P) /\ {"active", "draft"} \subseteq Statuses
  BY DEF Sound, Statuses
<1>1. OnlyOld(P, newer) /\ Tables(newer)
  BY <1>0, ReplaceTables, NoRuleAdded, JustifyEffect
<1>2. OnlyOld(P, draft) /\ OnlyOld(P, first) /\ Tables(draft)
  <2> DEFINE D == Insert(P, b, e.slot, e.value, "draft")
             A == Insert(P, b, e.slot, e.value, "active")
  <2>1. Tables(D) /\ D.just = P.just /\ Tables(A) /\ A.just = P.just
    BY <1>0, InsertActive
  <2> HIDE DEF D, A
  <2>2. /\ OnlyOld(P, Justify(D, loser, e.turn, "extraction"))
        /\ Tables(Justify(D, loser, e.turn, "extraction"))
    BY <2>1, NoRuleAdded, JustifyEffect
  <2>3. OnlyOld(P, Justify(A, b, e.turn, "extraction"))
    BY <2>1, NoRuleAdded
  <2> QED
    BY <2>2, <2>3 DEF D, A
<1>3. OnlyOld(P, same)
  BY <1>0, NoRuleAdded
<1>4. ASSUME NEW Q, Tables(Q), OnlyOld(P, Q), NEW new PROVE OnlyOld(P, flag(Q, new))
  <2>1. flag(Q, new).just = Q.just
    BY <1>4 DEF Tables
  <2> HIDE DEF flag
  <2> QED
    BY <1>4, <2>1 DEF OnlyOld
<1>5. OnlyOld(P, flag(newer, winner)) /\ OnlyOld(P, flag(draft, loser))
  BY <1>1, <1>2, <1>4
<1>6. OnAsserted(P, e) \in {same, newer, flag(newer, winner), flag(draft, loser), first}
  BY DEF OnAsserted, ApplyFactConflict
<1> HIDE DEF same, newer, flag, draft, first
<1> QED
  BY <1>1, <1>2, <1>3, <1>5, <1>6

\* What hangs on a belief is gone after its cascade, a row that is its own
\* premise apart.
LEMMA CascadeClears ==
    ASSUME NEW P, Tables(P), NEW b
    PROVE  /\ Cascade(P, b).just \subseteq P.just
           /\ \A j \in Cascade(P, b).just : j.support = b => j.id = b
<1>1. Cascade(P, b).just = {j \in P.just : j.id \notin Fallen(P.just, b)}
  BY RetractEffect DEF Cascade
<1>2. \A j \in P.just : j.support = b /\ j.id # b => j.id \in Fallen(P.just, b)
  BY DEF Fallen, Dependents
<1> QED
  BY <1>1, <1>2

LEMMA CorrectedJust ==
    ASSUME NEW P, Sound(P), NEW e, e.value \in Values
    PROVE  /\ OnlyOld(P, OnCorrected(P, e))
           /\ \A j \in OnCorrected(P, e).just : j.support = e.belief => j.id = e.belief
<1>0. Tables(P)
  BY DEF Sound
<1>1. CASE e.belief \notin Known(P)
  BY <1>0, <1>1, CascadeClears DEF OnCorrected, OnlyOld
<1>2. CASE e.belief \in Known(P)
  <2> DEFINE s == P.bel[e.belief].slot
             b == CorrectedId(s, e.n)
             new == StoredId(SetStatus(P, e.belief, "superseded"), b, s, e.value)
             Q == Justify(ReplaceBy(P, e.belief, b, s, e.value), new, <<"event", e.n>>, "correction")
  <2>1. s \in Slots
    BY <1>0, <1>2, RowTypes DEF Tables
  <2>2. Tables(Q) /\ OnlyOld(P, Q)
    <3> HIDE DEF s, b, new
    <3> QED
      BY <1>0, <2>1, ReplaceTables, NoRuleAdded, JustifyEffect
  <2>3. OnCorrected(P, e) = Cascade(Q, e.belief)
    BY <1>2 DEF OnCorrected
  <2> HIDE DEF Q
  <2> QED
    BY <2>2, <2>3, CascadeClears DEF OnlyOld
<1> QED
  BY <1>1, <1>2

LEMMA ReduceJust ==
    ASSUME NEW P, Sound(P), NEW e, EventOK(e), NEW j \in Reduce(P, e).just, j.rule = "rule"
    PROVE  /\ j \in P.just \/ DerivesFrom(e, j.support)
           /\ TakesBack(e, j.support) => j.id = j.support
<1>0. Tables(P)
  BY DEF Sound
<1>1. CASE e.type = "asserted"
  BY <1>1, AssertedJust DEF Reduce, OnlyOld, TakesBack, EventOK
<1>2. CASE e.type = "corrected"
  <2>1. Reduce(P, e) = OnCorrected(P, e)
    BY <1>2 DEF Reduce
  <2> QED
    BY <1>2, <2>1, CorrectedJust DEF OnlyOld, TakesBack, EventOK
<1>3. CASE e.type = "retracted"
  <2>1. Reduce(P, e) = Cascade(Retract(P, e.belief), e.belief)
    BY <1>3 DEF Reduce, OnRetracted
  <2>2. Tables(Retract(P, e.belief)) /\ Retract(P, e.belief).just \subseteq P.just
    BY <1>0, RetractEffect DEF Retract
  <2> QED
    BY <2>1, <2>2, CascadeClears DEF TakesBack
<1>4. CASE e.type = "forbidden"
  BY <1>0, <1>4, RetractEffect DEF Reduce, OnForbidden, TakesBack
<1>5. CASE e.type = "derived"
  <2>1. Reduce(P, e).just = P.just \cup DerivedSupports(P, e)
    BY <1>0, <1>5, DerivedEffect DEF Reduce
  <2> DEFINE stored == StoredId(P, DerivedId(e.premises), SlotA, Concluded)
  <2>2. \A x \in DerivedSupports(P, e) : x.support \in e.premises
    <3> HIDE DEF stored
    <3> SUFFICES ASSUME NEW p \in e.premises
                 PROVE  [id |-> stored, support |-> p, rule |-> "rule"].support \in e.premises
      BY DEF DerivedSupports, stored
    <3> QED
      OBVIOUS
  <2> QED
    BY <1>5, <2>1, <2>2 DEF DerivesFrom, TakesBack
<1>6. CASE e.type \in {"grant", "revoke"}
  BY <1>0, <1>6, SharedEffect DEF Reduce, Same, TakesBack
<1> QED
  BY <1>1, <1>2, <1>3, <1>4, <1>5, <1>6 DEF EventOK

\* After n events, whatever still hangs on a premise that was taken back was
\* derived from it again since.
Chained(P, events, n) ==
    \A j \in P.just : j.rule = "rule" /\ j.id # j.support =>
        \A i \in 1 .. n : TakesBack(events[i], j.support) =>
            \E k \in i + 1 .. n : DerivesFrom(events[k], j.support)

LEMMA ChainedStep ==
    ASSUME NEW P, Sound(P), NEW events, NEW n \in Nat, EventOK(events[n + 1]),
           Chained(P, events, n)
    PROVE  Chained(Reduce(P, events[n + 1]), events, n + 1)
<1> DEFINE e == events[n + 1]
<1> SUFFICES ASSUME NEW j \in Reduce(P, e).just, j.rule = "rule", j.id # j.support,
                    NEW i \in 1 .. n + 1, TakesBack(events[i], j.support)
             PROVE  \E k \in i + 1 .. n + 1 : DerivesFrom(events[k], j.support)
  BY DEF Chained
<1>1. /\ j \in P.just \/ DerivesFrom(e, j.support)
      /\ ~ TakesBack(e, j.support)
  <2> HIDE DEF e
  <2> QED
    BY ReduceJust DEF e
<1>2. i \in 1 .. n
  BY <1>1
<1>3. CASE DerivesFrom(e, j.support)
  <2>1. n + 1 \in i + 1 .. n + 1
    BY <1>2
  <2> QED
    BY <1>3, <2>1
<1>4. CASE j \in P.just
  <2>1. PICK k \in i + 1 .. n : DerivesFrom(events[k], j.support)
    BY <1>2, <1>4 DEF Chained
  <2>2. k \in i + 1 .. n + 1
    BY <1>2
  <2> QED
    BY <2>1, <2>2
<1> QED
  BY <1>1, <1>3, <1>4

-----------------------------------------------------------------------------
(* How many active rows a slot has *)

\* No slot comes out of it with more than it had, once it has one.
NoneAdded(P, Q) ==
    \A s \in Slots : Cardinality(ActiveIn(Q, s)) > 1 =>
        Cardinality(ActiveIn(Q, s)) <= Cardinality(ActiveIn(P, s))

LEMMA ActiveFinite ==
    ASSUME NEW P, Tables(P), NEW s
    PROVE  IsFiniteSet(ActiveIn(P, s)) /\ Cardinality(ActiveIn(P, s)) \in Nat
<1>1. ActiveIn(P, s) \subseteq Known(P) /\ IsFiniteSet(Known(P))
  BY DEF ActiveIn, ActiveIds, Tables
<1>2. IsFiniteSet(ActiveIn(P, s))
  BY <1>1, FS_Subset
<1> QED
  BY <1>2, FS_CardinalityType

LEMMA FewerActive ==
    ASSUME NEW P, Tables(P), NEW Q, NEW s, ActiveIn(Q, s) \subseteq ActiveIn(P, s)
    PROVE  Cardinality(ActiveIn(Q, s)) <= Cardinality(ActiveIn(P, s))
BY ActiveFinite, FS_Subset

\* One row in for one row out, and one row in where there was none.
LEMMA SwappedActive ==
    ASSUME NEW P, Tables(P), NEW Q, NEW s, NEW old \in ActiveIn(P, s), NEW b,
           ActiveIn(Q, s) \subseteq (ActiveIn(P, s) \ {old}) \cup {b}
    PROVE  Cardinality(ActiveIn(Q, s)) <= Cardinality(ActiveIn(P, s))
<1> DEFINE A == ActiveIn(P, s)
           B == A \ {old}
<1>1. IsFiniteSet(A) /\ Cardinality(A) \in Nat
  BY ActiveFinite
<1>2. IsFiniteSet(B) /\ Cardinality(B) = Cardinality(A) - 1
  BY <1>1, FS_RemoveElement
<1>3. IsFiniteSet(B \cup {b}) /\ Cardinality(B \cup {b}) <= Cardinality(A)
  <2>1. /\ IsFiniteSet(B \cup {b})
        /\ Cardinality(B \cup {b}) = IF b \in B THEN Cardinality(B) ELSE Cardinality(B) + 1
    <3> HIDE DEF B
    <3> QED
      BY <1>2, FS_AddElement
  <2> QED
    BY <1>1, <1>2, <2>1
<1>4. ActiveIn(Q, s) \subseteq B \cup {b}
  OBVIOUS
<1> HIDE DEF A, B
<1>5. /\ Cardinality(ActiveIn(Q, s)) <= Cardinality(B \cup {b})
      /\ Cardinality(ActiveIn(Q, s)) \in Nat /\ Cardinality(B \cup {b}) \in Nat
  BY <1>3, <1>4, FS_Subset, FS_CardinalityType
<1> QED
  BY <1>1, <1>3, <1>5 DEF A

LEMMA LonelyActive ==
    ASSUME NEW Q, NEW s, NEW b, ActiveIn(Q, s) \subseteq {b}
    PROVE  ~ (Cardinality(ActiveIn(Q, s)) > 1)
<1>1. IsFiniteSet({b}) /\ Cardinality({b}) = 1
  BY FS_Singleton
<1>2. Cardinality(ActiveIn(Q, s)) <= Cardinality({b}) /\ Cardinality(ActiveIn(Q, s)) \in Nat
  BY <1>1, FS_Subset, FS_CardinalityType
<1> QED
  BY <1>1, <1>2

LEMMA SameRowsActive ==
    ASSUME NEW P, NEW Q, Q.bel = P.bel, NEW s
    PROVE  ActiveIn(Q, s) = ActiveIn(P, s)
BY DEF ActiveIn, ActiveIds, InScope, Known

LEMMA KeptActive ==
    ASSUME NEW P, NEW Q, Keeps(P, Q), NEW out, NEW s,
           \A c \in Known(P) : /\ Q.bel[c].status = "active" => P.bel[c].status = "active"
                               /\ c \in out => Q.bel[c].status # "active"
    PROVE  ActiveIn(Q, s) \subseteq ActiveIn(P, s) \ out
BY DEF Keeps, ActiveIn, ActiveIds, InScope

\* A row that goes in counts where it says it is, if it is active.
LEMMA InsertedActive ==
    ASSUME NEW P, Tables(P), NEW b, NEW s \in Slots, NEW v \in Values, NEW st \in Statuses, NEW t
    PROVE  /\ ActiveIn(Insert(P, b, s, v, st), t) \subseteq ActiveIn(P, t) \cup {b}
           /\ t # s \/ st # "active" =>
                  ActiveIn(Insert(P, b, s, v, st), t) \subseteq ActiveIn(P, t)
<1> DEFINE Q == Insert(P, b, s, v, st)
<1>1. CASE ~ NewHere(P, s, v)
  <2>1. Q = P
    BY <1>1 DEF Insert, NewHere
  <2> HIDE DEF Q
  <2> QED
    BY <2>1 DEF Q
<1>2. CASE NewHere(P, s, v)
  <2>1. Inserted(P, Q, b, s, v, st)
    BY <1>2, InsertEffect
  <2> HIDE DEF Q
  <2>2. /\ Known(Q) = Known(P) \cup {b} /\ \A c \in Known(P) \ {b} : Q.bel[c] = P.bel[c]
        /\ Q.bel[b].slot = s /\ Q.bel[b].status = st
    BY <2>1 DEF Inserted, Row
  <2>3. ActiveIn(Q, t) \subseteq ActiveIn(P, t) \cup {b}
    BY <2>2 DEF ActiveIn, ActiveIds, InScope
  <2>4. t # s \/ st # "active" => b \notin ActiveIn(Q, t)
    BY <2>2 DEF ActiveIn, ActiveIds, InScope
  <2> QED
    BY <2>3, <2>4 DEF Q
<1> QED
  BY <1>1, <1>2

LEMMA ReplacedActive ==
    ASSUME NEW P, Tables(P), NEW old, NEW b, NEW s \in Slots, NEW v \in Values, NEW t
    PROVE  /\ ActiveIn(ReplaceBy(P, old, b, s, v), t) \subseteq (ActiveIn(P, t) \ {old}) \cup {b}
           /\ t # s => ActiveIn(ReplaceBy(P, old, b, s, v), t) \subseteq ActiveIn(P, t)
<1> DEFINE S == SetStatus(P, old, "superseded")
<1>1. {"active", "superseded"} \subseteq Statuses
  BY DEF Statuses
<1>2. /\ Tables(S) /\ Keeps(P, S)
      /\ \A c \in Known(P) : S.bel[c].status = IF c = old THEN "superseded" ELSE P.bel[c].status
  BY <1>1, StatusEffect
<1> HIDE DEF S
<1>3. ActiveIn(S, t) \subseteq ActiveIn(P, t) \ {old}
  <2>1. \A c \in Known(P) : /\ S.bel[c].status = "active" => P.bel[c].status = "active"
                            /\ c \in {old} => S.bel[c].status # "active"
    BY <1>2
  <2> DEFINE out == {old}
  <2> HIDE DEF out
  <2>2. ActiveIn(S, t) \subseteq ActiveIn(P, t) \ out
    BY <1>2, <2>1, KeptActive DEF out
  <2> QED
    BY <2>2 DEF out
<1>4. /\ ActiveIn(Insert(S, b, s, v, "active"), t) \subseteq ActiveIn(S, t) \cup {b}
      /\ t # s => ActiveIn(Insert(S, b, s, v, "active"), t) \subseteq ActiveIn(S, t)
  BY <1>1, <1>2, InsertedActive
<1> QED
  BY <1>3, <1>4 DEF ReplaceBy, S

LEMMA AssertedActive ==
    ASSUME NEW P, Sound(P), NEW e, e.slot \in Slots, e.value \in Values
    PROVE  NoneAdded(P, OnAsserted(P, e))
<1> DEFINE b == AssertedId(e.slot, e.turn)
           old == FirstIn(P, e.slot)
           winner == StoredId(SetStatus(P, old, "superseded"), b, e.slot, e.value)
           loser == StoredId(P, b, e.slot, e.value)
           replaced == ReplaceBy(P, old, b, e.slot, e.value)
           drafted == Insert(P, b, e.slot, e.value, "draft")
           added == Insert(P, b, e.slot, e.value, "active")
           newer == Justify(replaced, winner, e.turn, "extraction")
           draft == Justify(drafted, loser, e.turn, "extraction")
           flag(Q, new) == IF new = old THEN Q ELSE [Q EXCEPT !.con = @ \cup {{old, new}}]
           same == Justify(P, old, e.turn, "extraction")
           first == Justify(added, b, e.turn, "extraction")
<1>0. Tables(P) /\ {"active", "draft"} \subseteq Statuses
  BY DEF Sound, Statuses
<1>a. ASSUME NEW Q, Q.bel = P.bel PROVE NoneAdded(P, Q)
  BY <1>a, <1>0, SameRowsActive, FewerActive DEF NoneAdded
<1>b. ASSUME NEW Q, Tables(Q), NEW new PROVE flag(Q, new).bel = Q.bel
  BY <1>b DEF Tables
<1>1. CASE ActiveIn(P, e.slot) = {}
  <2>1. OnAsserted(P, e) = first
    BY <1>1 DEF OnAsserted
  <2>2. first.bel = added.bel
    <3>1. Tables(added)
      BY <1>0, InsertActive
    <3> HIDE DEF added
    <3> QED
      BY <3>1, JustifyEffect
  <2>3. /\ ActiveIn(added, e.slot) \subseteq {b}
        /\ \A t \in Slots : t # e.slot => ActiveIn(added, t) \subseteq ActiveIn(P, t)
    BY <1>0, <1>1, InsertedActive
  <2> HIDE DEF first, added
  <2>4. ASSUME NEW t \in Slots, Cardinality(ActiveIn(first, t)) > 1
        PROVE  Cardinality(ActiveIn(first, t)) <= Cardinality(ActiveIn(P, t))
    <3>1. ActiveIn(first, t) = ActiveIn(added, t)
      BY <2>2, SameRowsActive
    <3>2. t # e.slot
      BY <2>3, <2>4, <3>1, LonelyActive
    <3> QED
      BY <1>0, <2>3, <3>1, <3>2, FewerActive
  <2> QED
    BY <2>1, <2>4 DEF NoneAdded
<1>2. CASE ActiveIn(P, e.slot) # {}
  <2>1. old \in ActiveIn(P, e.slot)
    BY <1>0, <1>2, FirstIsThere
  <2>2. OnAsserted(P, e) \in {same, newer, flag(newer, winner), flag(draft, loser)}
    BY <1>2 DEF OnAsserted, ApplyFactConflict
  <2>3. NoneAdded(P, same)
    BY <1>0, <1>a, JustifyEffect
  <2>4. ASSUME NEW Q, Q.bel = replaced.bel PROVE NoneAdded(P, Q)
    <3>1. /\ ActiveIn(replaced, e.slot) \subseteq (ActiveIn(P, e.slot) \ {old}) \cup {b}
          /\ \A t \in Slots : t # e.slot => ActiveIn(replaced, t) \subseteq ActiveIn(P, t)
      BY <1>0, ReplacedActive
    <3> HIDE DEF replaced, old, b
    <3>2. ASSUME NEW t \in Slots
          PROVE  Cardinality(ActiveIn(Q, t)) <= Cardinality(ActiveIn(P, t))
      <4>1. ActiveIn(Q, t) = ActiveIn(replaced, t)
        BY <2>4, SameRowsActive
      <4>2. CASE t = e.slot
        BY <1>0, <2>1, <3>1, <4>1, <4>2, SwappedActive
      <4>3. CASE t # e.slot
        BY <1>0, <3>1, <4>1, <4>3, FewerActive
      <4> QED
        BY <4>2, <4>3
    <3> QED
      BY <3>2 DEF NoneAdded
  <2>5. ASSUME NEW Q, Q.bel = drafted.bel PROVE NoneAdded(P, Q)
    <3>1. \A t \in Slots : ActiveIn(drafted, t) \subseteq ActiveIn(P, t)
      BY <1>0, InsertedActive
    <3> HIDE DEF drafted
    <3>2. ASSUME NEW t \in Slots
          PROVE  Cardinality(ActiveIn(Q, t)) <= Cardinality(ActiveIn(P, t))
      BY <1>0, <2>5, <3>1, SameRowsActive, FewerActive
    <3> QED
      BY <3>2 DEF NoneAdded
  <2>6. newer.bel = replaced.bel /\ Tables(newer)
    BY <1>0, ReplaceTables, JustifyEffect
  <2>7. draft.bel = drafted.bel /\ Tables(draft)
    <3>1. Tables(drafted)
      BY <1>0, InsertActive
    <3> HIDE DEF drafted
    <3> QED
      BY <3>1, JustifyEffect
  <2>8. flag(newer, winner).bel = replaced.bel /\ flag(draft, loser).bel = drafted.bel
    BY <1>b, <2>6, <2>7
  <2> HIDE DEF same, newer, draft, flag, replaced, drafted, winner, loser
  <2> QED
    BY <2>2, <2>3, <2>4, <2>5, <2>6, <2>8
<1> QED
  BY <1>1, <1>2

LEMMA ReduceActive ==
    ASSUME NEW P, Sound(P), NEW e, EventOK(e), e.type \notin {"corrected", "derived"}
    PROVE  NoneAdded(P, Reduce(P, e))
<1>0. Tables(P)
  BY DEF Sound
<1>a. ASSUME NEW Q, Keeps(P, Q),
             \A c \in Known(P) : Q.bel[c].status = "active" => P.bel[c].status = "active"
      PROVE  NoneAdded(P, Q)
  <2>1. \A s \in Slots : ActiveIn(Q, s) \subseteq ActiveIn(P, s)
    BY <1>a DEF Keeps, ActiveIn, ActiveIds, InScope
  <2> QED
    BY <1>0, <2>1, FewerActive DEF NoneAdded
<1>b. ASSUME NEW ids PROVE NoneAdded(P, RetractAll(P, ids))
  BY <1>0, <1>a, RetractEffect
<1>1. CASE e.type = "asserted"
  BY <1>1, AssertedActive DEF Reduce, EventOK
<1>2. CASE e.type = "retracted"
  <2> DEFINE R == Retract(P, e.belief)
             C == Cascade(R, e.belief)
  <2>1. /\ Tables(R) /\ Keeps(P, R)
        /\ \A c \in Known(P) : R.bel[c].status = "active" => P.bel[c].status = "active"
    BY <1>0, RetractEffect DEF Retract
  <2> HIDE DEF R
  <2>2. /\ Keeps(R, C)
        /\ \A c \in Known(R) : C.bel[c].status = "active" => R.bel[c].status = "active"
    BY <2>1, RetractEffect DEF Cascade
  <2> HIDE DEF C
  <2>3. NoneAdded(P, C)
    BY <1>a, <2>1, <2>2 DEF Keeps
  <2> QED
    BY <1>2, <2>3 DEF Reduce, OnRetracted, C, R
<1>3. CASE e.type = "forbidden"
  BY <1>b, <1>3 DEF Reduce, OnForbidden
<1>4. CASE e.type \in {"grant", "revoke"}
  BY <1>0, <1>4, <1>a, SharedEffect DEF Reduce, Same
<1> QED
  BY <1>1, <1>2, <1>3, <1>4 DEF EventOK

-----------------------------------------------------------------------------
(* The store *)

StoreInv ==
    /\ Sound(proj)
    /\ \E E : log \in Seq(E) /\ \A e \in E : EventOK(e)
    /\ rebuilding \in -1 .. Len(log)

(* What a step is to the tables: an event with its reduction, a write beside  *)
(* the log, a pruning, or a part of a rebuild.                                *)
Appended == \E e : EventOK(e) /\ AppendEvent(e)

Beside == UNCHANGED <<log, rebuilding>> /\ Sound(proj') /\ Same(proj, proj')

Pruned ==
    /\ Pruning /\ UNCHANGED <<log, rebuilding>>
    /\ Sound(proj') /\ proj'.just = proj.just

LEMMA StepKinds ==
    ASSUME StoreInv, [Next]_vars
    PROVE  Appended \/ Beside \/ Pruned \/ RebuildStart \/ RebuildStep \/ RebuildEnd
<1>0. Sound(proj) /\ Tables(proj) /\ Same(proj, proj)
  BY DEF StoreInv, Sound, Same, Keeps
<1>1. CASE AssertFact
  <2> PICK s \in Slots, v \in Values, t \in Turns, w \in BOOLEAN :
         AppendEvent([type |-> "asserted", slot |-> s, value |-> v, turn |-> t, wins |-> w])
    BY <1>1 DEF AssertFact
  <2> QED
    BY DEF EventOK, Appended
<1>2. CASE Correct
  <2> PICK b \in Known(proj), v \in Values :
         AppendEvent([type |-> "corrected", belief |-> b, value |-> v, n |-> Len(log) + 1])
    BY <1>2 DEF Correct
  <2> QED
    BY DEF EventOK, Appended
<1>3. CASE Forget \/ RetractWithdrawn
  <2> PICK b : AppendEvent([type |-> "retracted", belief |-> b])
    BY <1>3 DEF Forget, RetractWithdrawn
  <2> QED
    BY DEF EventOK, Appended
<1>4. CASE ForbidText
  <2> PICK b \in Known(proj) : AppendEvent([type |-> "forbidden", value |-> proj.bel[b].value])
    BY <1>4 DEF ForbidText
  <2> QED
    BY DEF EventOK, Appended
<1>5. CASE Grant \/ Revoke
  <2> PICK b \in Known(proj), a \in Agents, type \in {"grant", "revoke"} :
         AppendEvent([type |-> type, belief |-> b, agent |-> a])
    BY <1>5 DEF Grant, Revoke
  <2> QED
    BY DEF EventOK, Appended
<1>6. CASE DeriveAppend
  BY <1>6 DEF DeriveAppend, EventOK, Appended
<1>7. CASE DeriveRead \/ UNCHANGED vars
  BY <1>7, <1>0 DEF DeriveRead, vars, Beside
<1>8. CASE SetAcl
  <2> PICK b \in Known(proj), private \in BOOLEAN :
         /\ proj' = [proj EXCEPT !.bel[b].acl = [OpenAcl EXCEPT !.private = private]]
         /\ UNCHANGED <<log, rebuilding>>
    BY <1>8 DEF SetAcl
  <2> DEFINE acl == [OpenAcl EXCEPT !.private = private]
  <2> HIDE DEF acl
  <2>1. proj' = [proj EXCEPT !.bel[b].acl = acl]
    BY DEF acl
  <2> QED
    BY <2>1, <1>0, AclStep, AclEffect DEF Beside
<1>9. CASE ConsistencySweep
  <2> PICK pair \in [Crowded(proj) -> kSubset(2, ActiveIds(proj))] :
         proj' = [proj EXCEPT !.con = {d \in proj.con \cup Range(pair) : d \subseteq ActiveIds(proj)}]
    BY <1>9 DEF ConsistencySweep
  <2> DEFINE con == {d \in proj.con \cup Range(pair) : d \subseteq ActiveIds(proj)}
  <2>1. \A c \in con : Cardinality(c) = 2
    BY <1>0 DEF Tables, kSubset, Range
  <2> HIDE DEF con
  <2>2. proj' = [proj EXCEPT !.con = con]
    BY DEF con
  <2>3. UNCHANGED <<log, rebuilding>>
    BY <1>9 DEF ConsistencySweep
  <2> QED
    BY <1>0, <2>1, <2>2, <2>3, ConStep, ConEffect DEF Beside
<1>10. CASE Prune
  <2> PICK gone \in SUBSET {b \in Known(proj) : proj.bel[b].status = "retracted"} :
         proj' = [proj EXCEPT !.bel = [b \in Known(proj) \ gone |-> proj.bel[b]]]
    BY <1>10 DEF Prune
  <2>1. proj' = [bel |-> [b \in Known(proj) \ gone |-> proj.bel[b]],
                 just |-> proj.just, con |-> proj.con]
    BY <1>0 DEF Tables
  <2>2. /\ Known(proj') = Known(proj) \ gone /\ proj'.just = proj.just /\ proj'.con = proj.con
        /\ \A b \in Known(proj') : proj'.bel[b] = proj.bel[b]
        /\ proj'.bel = [b \in Known(proj') |-> proj'.bel[b]]
        /\ proj' = [bel |-> proj'.bel, just |-> proj'.just, con |-> proj'.con]
    <3>1. /\ proj'.bel = [b \in Known(proj) \ gone |-> proj.bel[b]]
          /\ proj'.just = proj.just /\ proj'.con = proj.con
      BY <2>1
    <3>2. Known(proj') = Known(proj) \ gone
      BY <3>1 DEF Known
    <3>3. /\ \A b \in Known(proj') : proj'.bel[b] = proj.bel[b]
          /\ proj'.bel = [b \in Known(proj') |-> proj'.bel[b]]
      BY <3>1, <3>2
    <3>4. proj' = [bel |-> proj'.bel, just |-> proj'.just, con |-> proj'.con]
      BY <2>1, <3>1
    <3> QED
      BY <3>1, <3>2, <3>3, <3>4
  <2>3. IsFiniteSet(Known(proj'))
    BY <1>0, <2>2, FS_Subset DEF Tables
  <2>4. \E last \in Nat : \A b \in Known(proj') : proj'.bel[b].at <= last
    BY <1>0, <2>2 DEF Tables
  <2>5. \A b \in Known(proj') : RowOK(proj'.bel[b])
    BY <1>0, <2>2 DEF Tables
  <2>6. \A c \in proj'.con : Cardinality(c) = 2
    BY <1>0, <2>2 DEF Tables
  <2>7. Tables(proj')
    BY <2>2, <2>3, <2>4, <2>5, <2>6 DEF Tables
  <2>8. ActiveIds(proj') \subseteq ActiveIds(proj)
    BY <2>2 DEF ActiveIds
  <2>9. Sound(proj')
    BY <1>0, <2>2, <2>7, <2>8, SameSound
  <2> QED
    BY <1>10, <2>2, <2>9 DEF Prune, Pruned
<1> QED
  BY <1>1, <1>2, <1>3, <1>4, <1>5, <1>6, <1>7, <1>8, <1>9, <1>10 DEF Next

LEMMA StoreInit == Init => StoreInv
<1> SUFFICES ASSUME Init PROVE StoreInv
  OBVIOUS
<1>1. Sound(proj)
  BY EmptySound DEF Init
<1>2. log \in Seq({}) /\ Len(log) = 0
  BY DEF Init
<1>3. \A e \in {} : EventOK(e)
  OBVIOUS
<1>4. rebuilding \in -1 .. Len(log)
  BY <1>2 DEF Init, Idle
<1> QED
  BY <1>1, <1>2, <1>3, <1>4 DEF StoreInv

LEMMA LogGrows ==
    ASSUME StoreInv, NEW e, EventOK(e), AppendEvent(e)
    PROVE  /\ \E E : log' \in Seq(E) /\ \A f \in E : EventOK(f)
           /\ Len(log) \in Nat /\ Len(log') = Len(log) + 1 /\ log'[Len(log) + 1] = e
           /\ \A i \in 1 .. Len(log) : log'[i] = log[i]
<1> PICK E : log \in Seq(E) /\ \A f \in E : EventOK(f)
  BY DEF StoreInv
<1>1. log \in Seq(E \cup {e})
  BY SeqMonotonic
<1>2. log' = Append(log, e)
  BY DEF AppendEvent
<1>3. log' \in Seq(E \cup {e})
  BY <1>1, <1>2
<1>4. \A f \in E \cup {e} : EventOK(f)
  OBVIOUS
<1> QED
  BY <1>1, <1>2, <1>3, <1>4

\* An event a rebuild is about to replay.
LEMMA NextReplayed ==
    ASSUME StoreInv, RebuildStep
    PROVE  /\ rebuilding \in Nat /\ rebuilding + 1 \in 1 .. Len(log)
           /\ EventOK(log[rebuilding + 1])
<1> PICK E : log \in Seq(E) /\ \A e \in E : EventOK(e)
  BY DEF StoreInv
<1>1. rebuilding \in Nat /\ rebuilding + 1 \in 1 .. Len(log)
  BY DEF RebuildStep, StoreInv, Idle
<1> QED
  BY <1>1

LEMMA StoreStep == StoreInv /\ [Next]_vars => StoreInv'
<1> SUFFICES ASSUME StoreInv, [Next]_vars PROVE StoreInv'
  OBVIOUS
<1>1. CASE Appended
  <2> PICK e : EventOK(e) /\ AppendEvent(e)
    BY <1>1 DEF Appended
  <2>1. Sound(proj')
    BY ReduceStep DEF StoreInv, AppendEvent
  <2>2. rebuilding' \in -1 .. Len(log')
    BY LogGrows DEF StoreInv, AppendEvent
  <2> QED
    BY <2>1, <2>2, LogGrows DEF StoreInv
<1>2. CASE Beside \/ Pruned
  BY <1>2 DEF StoreInv, Beside, Pruned
<1>3. CASE RebuildStart
  <2>1. 0 \in -1 .. Len(log)
    BY DEF StoreInv
  <2> QED
    BY <1>3, <2>1, EmptySound DEF RebuildStart, StoreInv
<1>4. CASE RebuildStep
  <2>1. Sound(Reduce(proj, log[rebuilding + 1]))
    BY <1>4, NextReplayed, ReduceStep DEF StoreInv
  <2> QED
    BY <1>4, <2>1, NextReplayed DEF RebuildStep, StoreInv
<1>5. CASE RebuildEnd
  <2>1. -1 \in -1 .. Len(log)
    BY DEF StoreInv
  <2> QED
    BY <1>5, <2>1 DEF RebuildEnd, StoreInv, Idle
<1> QED
  BY <1>1, <1>2, <1>3, <1>4, <1>5, StepKinds

\* Nothing is believed without a support: every handler that puts a row in
\* justifies the row that is really stored, a cascade takes supports only from
\* what it retracts, and a rebuild is sound after every event it replays
\* (reducer.py's handlers; invariant I5 that health checks).
THEOREM NothingUnjustified == Spec => [](TypeOK /\ Justified)
<1>1. StoreInv => TypeOK
  <2> SUFFICES ASSUME StoreInv PROVE TypeOK
    OBVIOUS
  <2>1. \A b \in Known(proj) : RowOK(proj.bel[b])
    BY DEF StoreInv, Sound, Tables
  <2>2. \A c \in proj.con : Cardinality(c) = 2
    BY DEF StoreInv, Sound, Tables
  <2> QED
    BY <2>1, <2>2, RowTypes DEF TypeOK, StoreInv
<1>2. StoreInv => Justified
  BY DEF StoreInv, Sound, Supported, Justified
<1> QED
  BY <1>1, <1>2, StoreInit, StoreStep, PTL DEF Spec

\* An assertion never leaves a slot with more active facts than it found there,
\* whichever of them it contradicts, and nothing but a correction or a
\* derivation does (reducer.py, _apply_fact_conflict and _find_existing).
THEOREM NothingCrowded == Spec => NoMoreValues
<1> DEFINE Wanted == log' # log /\ Last(log').type \notin {"corrected", "derived"} =>
                        NoneAdded(proj, proj')
<1>1. StoreInv /\ [Next]_vars => [Wanted]_vars
  <2> SUFFICES ASSUME StoreInv, [Next]_vars, log' # log,
                      Last(log').type \notin {"corrected", "derived"}
               PROVE  NoneAdded(proj, proj')
    OBVIOUS
  <2>1. Appended
    BY StepKinds DEF Beside, Pruned, RebuildStart, RebuildStep, RebuildEnd
  <2>2. PICK e : EventOK(e) /\ AppendEvent(e)
    BY <2>1 DEF Appended
  <2>3. Last(log') = e
    BY <2>2, LogGrows DEF Last
  <2> QED
    BY <2>2, <2>3, ReduceActive DEF AppendEvent, StoreInv
<1>2. Spec => [][Wanted]_vars
  <2> HIDE DEF Wanted
  <2> QED
    BY <1>1, StoreInit, StoreStep, PTL DEF Spec
<1> QED
  BY <1>2 DEF NoMoreValues, NoneAdded

-----------------------------------------------------------------------------
(* The log and the rows, when nothing is appended during a rebuild            *)

\* How much of the log the tables stand for.
Reached == IF rebuilding = Idle THEN Len(log) ELSE rebuilding

ChainInv == StoreInv /\ Chained(proj, log, Reached)

LEMMA ChainInit == Init => ChainInv
<1> SUFFICES ASSUME Init PROVE ChainInv
  OBVIOUS
<1>1. proj.just = {}
  BY DEF Init, Empty
<1>2. Chained(proj, log, Reached)
  BY <1>1 DEF Chained
<1> QED
  BY <1>2, StoreInit DEF ChainInv

LEMMA ChainStep == ASSUME ~ LiveRebuild PROVE ChainInv /\ [Next]_vars => ChainInv'
<1> SUFFICES ASSUME ChainInv, [Next]_vars PROVE ChainInv'
  OBVIOUS
<1>0. StoreInv /\ StoreInv' /\ Sound(proj)
  BY StoreStep DEF ChainInv, StoreInv
<1>1. CASE Appended
  <2> PICK e : EventOK(e) /\ AppendEvent(e)
    BY <1>1 DEF Appended
  <2> PICK n : n = Len(log)
    OBVIOUS
  <2> PICK events : events = log'
    OBVIOUS
  <2>1. /\ n \in Nat /\ events[n + 1] = e /\ Len(events) = n + 1
        /\ \A i \in 1 .. n : events[i] = log[i]
    BY <1>0, LogGrows
  <2>2. rebuilding = Idle /\ rebuilding' = Idle /\ proj' = Reduce(proj, e)
    BY DEF AppendEvent, Free
  <2>3. Chained(proj, log, n)
    BY <2>2 DEF ChainInv, Reached
  <2>4. Chained(proj, events, n)
    BY <2>1, <2>3 DEF Chained
  <2>5. Chained(Reduce(proj, events[n + 1]), events, n + 1)
    BY <1>0, <2>1, <2>4, ChainedStep
  <2>6. Reached' = n + 1
    BY <2>1, <2>2 DEF Reached
  <2> QED
    BY <1>0, <2>1, <2>2, <2>5, <2>6 DEF ChainInv
<1>2. CASE Beside \/ Pruned
  <2>1. proj'.just = proj.just /\ log' = log /\ Reached' = Reached
    BY <1>2 DEF Beside, Pruned, Same, Reached
  <2>2. Chained(proj', log', Reached')
    BY <2>1 DEF ChainInv, Chained
  <2> QED
    BY <1>0, <2>2 DEF ChainInv
<1>3. CASE RebuildStart
  <2>1. proj'.just = {}
    BY <1>3 DEF RebuildStart, Empty
  <2>2. Chained(proj', log', Reached')
    BY <2>1 DEF Chained
  <2> QED
    BY <1>0, <2>2 DEF ChainInv
<1>4. CASE RebuildStep
  <2> PICK n : n = rebuilding
    OBVIOUS
  <2>1. n \in Nat /\ EventOK(log[n + 1]) /\ rebuilding # Idle
    BY <1>0, <1>4, NextReplayed DEF RebuildStep
  <2>2. Chained(proj, log, n)
    BY <2>1 DEF ChainInv, Reached
  <2>3. Chained(Reduce(proj, log[n + 1]), log, n + 1)
    BY <1>0, <2>1, <2>2, ChainedStep
  <2>4. Reached' = n + 1 /\ log' = log /\ proj' = Reduce(proj, log[n + 1])
    BY <1>4, <2>1 DEF RebuildStep, Reached, Idle
  <2> QED
    BY <1>0, <2>3, <2>4 DEF ChainInv
<1>5. CASE RebuildEnd
  <2>1. Reached' = Reached /\ log' = log /\ proj' = proj
    BY <1>0, <1>5 DEF RebuildEnd, Reached, Idle, StoreInv
  <2>2. Chained(proj', log', Reached')
    BY <2>1 DEF ChainInv
  <2> QED
    BY <1>0, <2>2 DEF ChainInv
<1> QED
  BY <1>0, <1>1, <1>2, <1>3, <1>4, <1>5, StepKinds

\* A retraction or a correction takes with it all that was derived from what it
\* took back, along any chain, and only a later derivation brings it back: the
\* cascade of reducer.py reaches every dependent, and a replay repeats it.
THEOREM CascadesReach == ASSUME ~ LiveRebuild PROVE Spec => []CascadeComplete
<1>1. ChainInv => CascadeComplete
  <2> SUFFICES ASSUME ChainInv, rebuilding = Idle,
                      NEW j \in proj.just, j.rule = "rule", j.id # j.support,
                      NEW i \in DOMAIN log, TakesBack(log[i], j.support)
               PROVE  \E k \in i + 1 .. Len(log) : DerivesFrom(log[k], j.support)
    BY DEF CascadeComplete
  <2>1. DOMAIN log = 1 .. Len(log)
    BY DEF ChainInv, StoreInv
  <2> QED
    BY <2>1 DEF ChainInv, Chained, Reached
<1> QED
  BY <1>1, ChainInit, ChainStep, PTL DEF Spec

RowsInv ==
    /\ StoreInv
    /\ Sound(After(log, Reached))
    /\ Same(proj, After(log, Reached))

LEMMA RowsInit == Init => RowsInv
<1> SUFFICES ASSUME Init PROVE RowsInv
  OBVIOUS
<1>1. Reached = 0
  BY DEF Init, Reached
<1>2. After(log, Reached) = Empty
  BY <1>1, AfterNone
<1>3. Same(Empty, Empty)
  BY DEF Same, Keeps
<1> QED
  BY <1>2, <1>3, StoreInit, EmptySound DEF RowsInv, Init

LEMMA RowsStep == ASSUME ~ LiveRebuild, ~ Pruning PROVE RowsInv /\ [Next]_vars => RowsInv'
<1> SUFFICES ASSUME RowsInv, [Next]_vars PROVE RowsInv'
  OBVIOUS
<1>0. StoreInv /\ StoreInv' /\ Sound(proj)
  BY StoreStep DEF RowsInv, StoreInv
<1>1. CASE Appended
  <2> PICK e : EventOK(e) /\ AppendEvent(e)
    BY <1>1 DEF Appended
  <2> PICK n : n = Len(log)
    OBVIOUS
  <2> PICK events : events = log'
    OBVIOUS
  <2>1. /\ n \in Nat /\ events[n + 1] = e /\ Len(events) = n + 1
        /\ \A i \in 1 .. n : events[i] = log[i]
    BY <1>0, LogGrows
  <2>2. rebuilding = Idle /\ rebuilding' = Idle /\ proj' = Reduce(proj, e)
    BY DEF AppendEvent, Free
  <2>3. Sound(After(log, n)) /\ Same(proj, After(log, n))
    BY <2>2 DEF RowsInv, Reached
  <2>4. After(events, n) = After(log, n)
    BY <2>1, AfterPrefix
  <2>5. After(events, n + 1) = Reduce(After(log, n), e)
    BY <2>1, <2>4, AfterOneMore
  <2>6. Sound(After(events, n + 1)) /\ Same(Reduce(proj, e), After(events, n + 1))
    BY <1>0, <2>3, <2>5, ReduceStep, SameReduce
  <2>7. Reached' = n + 1
    BY <2>1, <2>2 DEF Reached
  <2> QED
    BY <1>0, <2>2, <2>6, <2>7 DEF RowsInv
<1>2. CASE Beside
  <2>1. log' = log /\ Reached' = Reached /\ Same(proj, proj')
    BY <1>2 DEF Beside, Reached
  <2>2. Same(proj', After(log, Reached))
    BY <2>1, SameTrans DEF RowsInv
  <2> QED
    BY <1>0, <2>1, <2>2 DEF RowsInv
<1>3. CASE RebuildStart
  <2>1. Reached' = 0 /\ proj' = Empty
    BY <1>3 DEF RebuildStart, Reached, Idle
  <2>2. After(log', Reached') = Empty
    BY <2>1, AfterNone
  <2>3. Same(Empty, Empty)
    BY DEF Same, Keeps
  <2> QED
    BY <1>0, <2>1, <2>2, <2>3, EmptySound DEF RowsInv
<1>4. CASE RebuildStep
  <2> PICK n : n = rebuilding
    OBVIOUS
  <2>1. n \in Nat /\ EventOK(log[n + 1]) /\ rebuilding # Idle
    BY <1>0, <1>4, NextReplayed DEF RebuildStep
  <2>2. Sound(After(log, n)) /\ Same(proj, After(log, n))
    BY <2>1 DEF RowsInv, Reached
  <2>3. After(log, n + 1) = Reduce(After(log, n), log[n + 1])
    BY <2>1, AfterOneMore
  <2>4. Sound(After(log, n + 1)) /\ Same(Reduce(proj, log[n + 1]), After(log, n + 1))
    BY <1>0, <2>1, <2>2, <2>3, ReduceStep, SameReduce
  <2>5. Reached' = n + 1 /\ log' = log /\ proj' = Reduce(proj, log[n + 1])
    BY <1>4, <2>1 DEF RebuildStep, Reached, Idle
  <2> QED
    BY <1>0, <2>4, <2>5 DEF RowsInv
<1>5. CASE RebuildEnd
  <2>1. Reached' = Reached /\ log' = log /\ proj' = proj
    BY <1>0, <1>5 DEF RebuildEnd, Reached, Idle, StoreInv
  <2> QED
    BY <1>0, <2>1 DEF RowsInv
<1> QED
  BY <1>0, <1>1, <1>2, <1>3, <1>4, <1>5, StepKinds DEF Pruned

\* A store that keeps its retracted rows has, row for row and support for
\* support, what a replay of its log gives (invariant I3), at any length of the
\* log and whatever was shared or put up for review beside it; what was derived
\* from what the log takes back is gone, and no assertion crowds a slot.
THEOREM StoreIsItsLog ==
    ASSUME ~ LiveRebuild, ~ Pruning PROVE Spec => []ReplayAgrees /\ LogIsTruth
<1>1. RowsInv => ReplayAgrees
  <2> SUFFICES ASSUME RowsInv, rebuilding = Idle PROVE ReplayAgrees
    BY DEF ReplayAgrees
  <2>1. Same(proj, Replay(log))
    BY DEF RowsInv, Reached, Replay
  <2> QED
    BY <2>1 DEF ReplayAgrees, Same, Keeps
<1>2. Spec => []ReplayAgrees
  BY <1>1, RowsInit, RowsStep, PTL DEF Spec
<1> QED
  BY <1>2, NothingUnjustified, CascadesReach, NothingCrowded, PTL DEF LogIsTruth, ReplayKept
=============================================================================
