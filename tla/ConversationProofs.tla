-------------------------- MODULE ConversationProofs --------------------------
(***************************************************************************)
(* What a conversation keeps.  First ContextEngine: nothing that was said  *)
(* vanishes, and no pass forgets a folded turn.                            *)
(*                                                                         *)
(* The argument: a pass parts the window into the prefix it has settled    *)
(* and the turns it decides on, and what it does not keep of these it      *)
(* archives first.  Earlier notes may leave the window because the list of *)
(* the engine has what they named: an engine that has a list, or a prefix  *)
(* that it settled, has LISTED what the notes of the window name, and one  *)
(* that has neither is at its first pass, which reads the notes.           *)
(*                                                                         *)
(* Then Retraction: what the user said before a run began is seen by every *)
(* reading of it.  The log only grows, so an event that the first pass saw *)
(* stays as it was seen, and what shows a belief to be said is in what the *)
(* second pass read or in the row itself when its table is scanned.        *)
(*                                                                         *)
(* Then WindowUpkeep: the latch, the count awaited and the count a trim    *)
(* waits for agree with what the properties remember of the past, and of   *)
(* equal results the newest stays.                                         *)
(*                                                                         *)
(* Last Recall: every line that is told is one that may be told, by what   *)
(* the reader could read since the call began, which only grows; the raw   *)
(* lane and the windows hold only turns he may hear; and what the walk and *)
(* the search still have to render are rows they found that way.           *)
(***************************************************************************)
EXTENDS ConversationParts, SequenceTheorems, FiniteSetTheorems, NaturalsInduction,
        WellFoundedInduction, TLAPS

-----------------------------------------------------------------------------
(* Sequences of numbers and of turns *)

\* The least of some numbers.
LEMMA LeastNumber ==
    ASSUME NEW S \in SUBSET Nat, S # {}
    PROVE  \E m \in S : \A n \in S : m <= n
<1> DEFINE R == {ss \in Nat \X Nat : ss[1] < ss[2]}
<1>1. IsWellFoundedOn(R, Nat)
  BY NatLessThanWellFounded DEF OpToRel
<1>2. \A m, n \in Nat : <<n, m>> \in R <=> n < m
  OBVIOUS
<1> HIDE DEF R
<1>3. PICK m \in S : \A n \in S : ~ (<<n, m>> \in R)
  BY <1>1, WFMin
<1>4. \A n \in S : n \in Nat /\ m \in Nat /\ ~ (n < m)
  BY <1>2, <1>3
<1> QED
  BY <1>4

\* Sequences put one after the other hold what each of them holds.
LEMMA Flattened ==
    ASSUME NEW T, NEW seqs \in Seq(Seq(T))
    PROVE  /\ FlattenSeq(seqs) \in Seq(T)
           /\ ToSet(FlattenSeq(seqs)) = UNION {ToSet(seqs[i]) : i \in DOMAIN seqs}
<1> DEFINE n == Len(seqs)
           Follows(f, m) == \A i \in 1 .. m : f[i] = IF i = 1 THEN seqs[i] ELSE f[i - 1] \o seqs[i]
           Shape(g) == g = [i \in 1 .. n |-> IF i = 1 THEN seqs[i] ELSE g[i - 1] \o seqs[i]]
<1>1. CASE n = 0
  <2>1. seqs = <<>> /\ FlattenSeq(seqs) = seqs
    BY <1>1 DEF FlattenSeq
  <2>2. DOMAIN seqs = {} /\ seqs \in Seq(T)
    BY <1>1, <2>1
  <2>3. ToSet(seqs) = {} /\ UNION {ToSet(seqs[i]) : i \in DOMAIN seqs} = {}
    BY <2>2 DEF ToSet
  <2> QED
    BY <2>1, <2>2, <2>3
<1>2. CASE n # 0
  <2> DEFINE flat == CHOOSE g : Shape(g)
  <2>0. n \in Nat /\ n # 0 /\ \A i \in 1 .. n : seqs[i] \in Seq(T)
    BY <1>2
  <2>1. FlattenSeq(seqs) = flat[n]
    BY <1>2 DEF FlattenSeq
  <2> HIDE DEF n
  <2> DEFINE bad == {m \in 1 .. n : ~ \E f \in [1 .. m -> Seq(T)] : Follows(f, m)}
  <2>2. bad = {}
    <3> SUFFICES ASSUME bad # {} PROVE FALSE
      OBVIOUS
    <3>1. bad \in SUBSET Nat
      BY <2>0
    <3>2. PICK m \in bad : \A k \in bad : m <= k
      <4> HIDE DEF bad
      <4> QED
        BY <3>1, LeastNumber
    <3>3. CASE m = 1
      <4>1. [i \in 1 .. 1 |-> seqs[1]] \in [1 .. 1 -> Seq(T)]
        BY <2>0
      <4>2. Follows([i \in 1 .. 1 |-> seqs[1]], 1)
        BY <2>0
      <4> QED
        BY <3>3, <4>1, <4>2
    <3>4. CASE m # 1
      <4>0. m \in 1 .. n
        BY <3>2
      <4> HIDE DEF bad
      <4>1. m - 1 \in 1 .. n /\ m - 1 \notin bad /\ m \in Nat
        BY <2>0, <3>2, <3>4, <4>0
      <4> USE DEF bad
      <4>2. PICK f \in [1 .. m - 1 -> Seq(T)] : Follows(f, m - 1)
        BY <4>1
      <4> DEFINE g == [i \in 1 .. m |-> IF i = m THEN f[m - 1] \o seqs[m] ELSE f[i]]
      <4>3. m - 1 \in 1 .. m - 1 /\ m \in 1 .. n /\ \A i \in 1 .. m : i = m \/ i \in 1 .. m - 1
        BY <2>0, <3>4, <4>1
      <4>4. g \in [1 .. m -> Seq(T)]
        BY <2>0, <4>2, <4>3
      <4>5. \A i \in 1 .. m : g[i] = IF i = 1 THEN seqs[i] ELSE g[i - 1] \o seqs[i]
        <5> SUFFICES ASSUME NEW i \in 1 .. m
                     PROVE  g[i] = IF i = 1 THEN seqs[i] ELSE g[i - 1] \o seqs[i]
          OBVIOUS
        <5>1. CASE i = m
          <6>1. m - 1 \in 1 .. m /\ m - 1 # m /\ m \in 1 .. m
            BY <4>1, <4>3
          <6>2. g[m] = f[m - 1] \o seqs[m] /\ g[m - 1] = f[m - 1]
            BY <6>1
          <6> QED
            BY <3>4, <5>1, <6>2
        <5>2. CASE i # m
          <6>1. i \in 1 .. m - 1 /\ (i # 1 => i - 1 \in 1 .. m - 1 /\ i - 1 # m /\ i - 1 \in 1 .. m)
            BY <4>1, <4>3, <5>2
          <6>2. g[i] = f[i] /\ (i # 1 => g[i - 1] = f[i - 1])
            BY <5>2, <6>1
          <6> QED
            BY <4>2, <6>1, <6>2
        <5> QED
          BY <5>1, <5>2
      <4> QED
        BY <3>2, <4>4, <4>5
    <3> QED
      BY <3>3, <3>4
  <2>3. PICK f \in [1 .. n -> Seq(T)] : Follows(f, n)
    <3>1. n \in 1 .. n
      BY <2>0
    <3>2. n \notin bad
      BY <2>2
    <3> QED
      BY <3>1, <3>2
  <2>4. Shape(f)
    BY <2>3
  <2>5. Shape(flat)
    BY <2>4, Zenon
  <2>6. \A i \in 1 .. n : flat[i] = IF i = 1 THEN seqs[i] ELSE flat[i - 1] \o seqs[i]
    BY <2>5
  <2> HIDE DEF flat
  <2> DEFINE Upto(m) == UNION {ToSet(seqs[i]) : i \in 1 .. m}
             wrong == {m \in 1 .. n : ~(flat[m] \in Seq(T) /\ ToSet(flat[m]) = Upto(m))}
  <2>7. wrong = {}
    <3> SUFFICES ASSUME wrong # {} PROVE FALSE
      OBVIOUS
    <3>1. wrong \in SUBSET Nat
      BY <2>0
    <3>2. PICK m \in wrong : \A k \in wrong : m <= k
      <4> HIDE DEF wrong
      <4> QED
        BY <3>1, LeastNumber
    <3>3. CASE m = 1
      <4>0. 1 \in 1 .. n
        BY <2>0
      <4>1. flat[1] = seqs[1] /\ flat[1] \in Seq(T)
        BY <2>0, <2>6, <4>0
      <4>2. Upto(1) = ToSet(seqs[1])
        OBVIOUS
      <4> QED
        BY <3>2, <3>3, <4>1, <4>2
    <3>4. CASE m # 1
      <4>0. m \in 1 .. n
        BY <3>2
      <4> HIDE DEF wrong
      <4>1. m - 1 \in 1 .. n /\ m - 1 \notin wrong /\ m \in 1 .. n
        BY <2>0, <3>2, <3>4, <4>0
      <4> USE DEF wrong
      <4>2. flat[m - 1] \in Seq(T) /\ ToSet(flat[m - 1]) = Upto(m - 1)
        BY <4>1
      <4>3. flat[m] = flat[m - 1] \o seqs[m] /\ seqs[m] \in Seq(T)
        BY <2>0, <2>6, <3>4, <4>1
      <4>4. flat[m] \in Seq(T) /\ ToSet(flat[m]) = ToSet(flat[m - 1]) \cup ToSet(seqs[m])
        <5>1. \A a, b \in Seq(T) : a \o b \in Seq(T) /\ ToSet(a \o b) = ToSet(a) \cup ToSet(b)
          <6> SUFFICES ASSUME NEW a \in Seq(T), NEW b \in Seq(T)
                       PROVE  a \o b \in Seq(T) /\ ToSet(a \o b) = ToSet(a) \cup ToSet(b)
            OBVIOUS
          <6>1. ASSUME NEW i \in DOMAIN b PROVE b[i] \in ToSet(a \o b)
            <7>1. Len(a) + i \in DOMAIN (a \o b) /\ (a \o b)[Len(a) + i] = b[i]
              OBVIOUS
            <7> QED
              BY <7>1 DEF ToSet
          <6>2. ASSUME NEW i \in DOMAIN a PROVE a[i] \in ToSet(a \o b)
            <7>1. i \in DOMAIN (a \o b) /\ (a \o b)[i] = a[i]
              OBVIOUS
            <7> QED
              BY <7>1 DEF ToSet
          <6>3. ASSUME NEW i \in DOMAIN (a \o b)
                PROVE  (a \o b)[i] \in ToSet(a) \cup ToSet(b)
            <7>1. \/ i \in DOMAIN a /\ (a \o b)[i] = a[i]
                  \/ i - Len(a) \in DOMAIN b /\ (a \o b)[i] = b[i - Len(a)]
              OBVIOUS
            <7> QED
              BY <7>1 DEF ToSet
          <6> DEFINE c == a \o b
          <6>4. c \in Seq(T)
            OBVIOUS
          <6> HIDE DEF c
          <6>5. ToSet(c) = {c[i] : i \in DOMAIN c}
            BY DEF ToSet
          <6>6. ToSet(a) = {a[i] : i \in DOMAIN a} /\ ToSet(b) = {b[i] : i \in DOMAIN b}
            BY DEF ToSet
          <6>7. \A i \in DOMAIN c : c[i] \in ToSet(a) \cup ToSet(b)
            BY <6>3 DEF c
          <6>8. /\ \A i \in DOMAIN b : b[i] \in ToSet(c)
                /\ \A i \in DOMAIN a : a[i] \in ToSet(c)
            BY <6>1, <6>2 DEF c
          <6>9. ToSet(c) = ToSet(a) \cup ToSet(b)
            BY <6>5, <6>6, <6>7, <6>8
          <6> QED
            BY <6>4, <6>9 DEF c
        <5> QED
          BY <4>2, <4>3, <5>1
      <4>5. Upto(m) = Upto(m - 1) \cup ToSet(seqs[m])
        <5>1. \A i : i \in 1 .. m <=> i \in 1 .. m - 1 \/ i = m
          BY <2>0, <4>1
        <5> QED
          BY <5>1
      <4> QED
        BY <3>2, <4>2, <4>4, <4>5
    <3> QED
      BY <3>3, <3>4
  <2>8. flat[n] \in Seq(T) /\ ToSet(flat[n]) = Upto(n)
    <3>1. n \in 1 .. n
      BY <2>0
    <3> HIDE DEF wrong
    <3>2. n \notin wrong
      BY <2>7
    <3> USE DEF wrong
    <3> QED
      BY <3>1, <3>2
  <2>9. DOMAIN seqs = 1 .. n
    BY DEF n
  <2> QED
    BY <2>1, <2>8, <2>9
<1> QED
  BY <1>1, <1>2

\* What of a window is in it.
Items == [is : {"turn", "note"}, ids : Seq(Nat)]

\* Of sequences of items.
LEMMA Joined ==
    ASSUME NEW a \in Seq(Items), NEW b \in Seq(Items)
    PROVE  /\ a \o b \in Seq(Items) /\ Len(a \o b) = Len(a) + Len(b)
           /\ TurnsOf(a \o b) = TurnsOf(a) \cup TurnsOf(b)
           /\ NamedIn(a \o b) = NamedIn(a) \cup NamedIn(b)
<1> DEFINE c == a \o b
<1>1. c \in Seq(Items) /\ Len(c) = Len(a) + Len(b)
  OBVIOUS
<1>2. \A i \in DOMAIN a : i \in DOMAIN c /\ c[i] = a[i]
  OBVIOUS
<1>3. \A i \in DOMAIN b : Len(a) + i \in DOMAIN c /\ c[Len(a) + i] = b[i]
  OBVIOUS
<1>4. ASSUME NEW i \in DOMAIN c
      PROVE  \/ i \in DOMAIN a /\ c[i] = a[i]
             \/ i - Len(a) \in DOMAIN b /\ c[i] = b[i - Len(a)]
  OBVIOUS
<1> HIDE DEF c
<1>5. TurnsOf(c) = TurnsOf(a) \cup TurnsOf(b)
  BY <1>2, <1>3, <1>4 DEF TurnsOf
<1>6. NamedIn(c) = NamedIn(a) \cup NamedIn(b)
  BY <1>2, <1>3, <1>4 DEF NamedIn
<1> USE DEF c
<1> QED
  BY <1>1, <1>5, <1>6

LEMMA Parted ==
    ASSUME NEW w \in Seq(Items), NEW k \in 0 .. Len(w)
    PROVE  /\ SubSeq(w, 1, k) \in Seq(Items) /\ SubSeq(w, k + 1, Len(w)) \in Seq(Items)
           /\ Len(SubSeq(w, 1, k)) = k /\ Len(SubSeq(w, k + 1, Len(w))) = Len(w) - k
           /\ TurnsOf(w) = TurnsOf(SubSeq(w, 1, k)) \cup TurnsOf(SubSeq(w, k + 1, Len(w)))
           /\ NamedIn(w) = NamedIn(SubSeq(w, 1, k)) \cup NamedIn(SubSeq(w, k + 1, Len(w)))
<1> DEFINE a == SubSeq(w, 1, k)
           b == SubSeq(w, k + 1, Len(w))
<1>1. a \in Seq(Items) /\ b \in Seq(Items) /\ Len(a) = k /\ Len(b) = Len(w) - k
  OBVIOUS
<1>2. a \o b = w
  <2>0. /\ \A i \in 1 .. k : a[i] = w[i]
        /\ \A i \in 1 .. Len(w) - k : b[i] = w[(k + 1) + i - 1]
    OBVIOUS
  <2>1. /\ a \o b \in Seq(Items) /\ Len(a \o b) = Len(w) /\ Len(w) \in Nat /\ k \in Nat
        /\ \A i \in 1 .. Len(w) : (a \o b)[i] = IF i <= k THEN a[i] ELSE b[i - k]
    <3> HIDE DEF a, b
    <3>1. a \o b \in Seq(Items) /\ Len(a \o b) = Len(a) + Len(b)
      BY <1>1, ConcatProperties
    <3>2. \A i \in 1 .. Len(a) + Len(b) : (a \o b)[i] = IF i <= Len(a) THEN a[i] ELSE b[i - Len(a)]
      BY <1>1, ConcatProperties
    <3>3. Len(w) \in Nat /\ k \in Nat /\ k <= Len(w) /\ Len(a) + Len(b) = Len(w)
      BY <1>1
    <3> QED
      BY <1>1, <3>1, <3>2, <3>3
  <2> HIDE DEF a, b
  <2>2. ASSUME NEW i \in 1 .. Len(w) PROVE (a \o b)[i] = w[i]
    <3>1. CASE i <= k
      BY <2>0, <2>1, <3>1
    <3>2. CASE ~(i <= k)
      <4>1. i - k \in 1 .. Len(w) - k /\ (k + 1) + (i - k) - 1 = i
        BY <2>1, <3>2
      <4> QED
        BY <2>0, <2>1, <3>2, <4>1
    <3> QED
      BY <3>1, <3>2
  <2> QED
    BY <2>1, <2>2, SeqEqual
<1> HIDE DEF a, b
<1>3. TurnsOf(w) = TurnsOf(a) \cup TurnsOf(b) /\ NamedIn(w) = NamedIn(a) \cup NamedIn(b)
  BY <1>1, <1>2, Joined
<1> USE DEF a, b
<1> QED
  BY <1>1, <1>3

\* In a finite set of numbers every rank is that of one number.
LEMMA RankOfOne ==
    ASSUME NEW S \in SUBSET Nat, IsFiniteSet(S)
    PROVE  /\ \A i \in 1 .. Cardinality(S) : \E q \in S : Cardinality({p \in S : p <= q}) = i
           /\ \A q \in S : Cardinality({p \in S : p <= q}) \in 1 .. Cardinality(S)
           /\ \A q, r \in S :
                 Cardinality({p \in S : p <= q}) = Cardinality({p \in S : p <= r}) => q = r
           /\ Cardinality(S) \in Nat
<1> DEFINE n == Cardinality(S)
           upto(q) == {p \in S : p <= q}
           rank == [q \in S |-> Cardinality(upto(q))]
<1>1. n \in Nat
  BY FS_CardinalityType
<1>2. ASSUME NEW q \in S
      PROVE  IsFiniteSet(upto(q)) /\ Cardinality(upto(q)) \in Nat /\ Cardinality(upto(q)) <= n
             /\ q \in upto(q)
  <2>1. upto(q) \in SUBSET S /\ q \in upto(q)
    OBVIOUS
  <2> HIDE DEF upto
  <2> QED
    BY <2>1, FS_Subset, FS_CardinalityType
<1>3. \A q \in S : Cardinality(upto(q)) # 0
  <2> HIDE DEF upto
  <2> QED
    BY <1>2, FS_EmptySet
<1>4. ASSUME NEW q \in S, NEW r \in S, q < r
      PROVE  Cardinality(upto(q)) # Cardinality(upto(r))
  <2>1. upto(q) \in SUBSET upto(r) /\ r \notin upto(q) /\ r \in upto(r)
    <3>1. q \in Nat /\ r \in Nat /\ \A p \in S : p \in Nat
      OBVIOUS
    <3>2. \A p \in S : p <= q => p <= r
      BY <1>4, <3>1
    <3>3. upto(q) \subseteq upto(r)
      BY <3>2
    <3>4. ~(r <= q) /\ r <= r
      BY <1>4, <3>1
    <3> QED
      BY <3>3, <3>4
  <2> HIDE DEF upto
  <2> QED
    BY <1>2, <2>1, FS_Subset
<1>5. \A q, r \in S : Cardinality(upto(q)) = Cardinality(upto(r)) => q = r
  <2>1. \A q, r \in S : q < r \/ r < q \/ q = r
    OBVIOUS
  <2> HIDE DEF upto
  <2> QED
    BY <1>4, <2>1
<1> HIDE DEF upto
<1>6. rank \in Injection(S, 1 .. n)
  BY <1>1, <1>2, <1>3, <1>5 DEF Injection, IsInjective
<1>7. IsFiniteSet(1 .. n) /\ Cardinality(1 .. n) = n
  <2>1. CASE n = 0
    <3>1. 1 .. n = {}
      BY <2>1
    <3> QED
      BY <2>1, <3>1, FS_EmptySet
  <2>2. CASE n # 0
    BY <1>1, <2>2, FS_Interval
  <2> QED
    BY <2>1, <2>2
<1>8. rank \in Surjection(S, 1 .. n)
  BY <1>6, <1>7, FS_Injection
<1>9. \A i \in 1 .. n : \E q \in S : rank[q] = i
  BY <1>8 DEF Surjection
<1>10. \A q \in S : Cardinality(upto(q)) \in 1 .. n
  BY <1>1, <1>2, <1>3
<1>11. \A i \in 1 .. n : \E q \in S : Cardinality(upto(q)) = i
  BY <1>9
<1> USE DEF upto
<1> QED
  BY <1>1, <1>5, <1>10, <1>11

\* The items at some positions are those items, as many as the positions.
LEMMA AtHas ==
    ASSUME NEW items \in Seq(Items), NEW ixs \in SUBSET DOMAIN items
    PROVE  /\ At(items, ixs) \in Seq(Items)
           /\ Cardinality(ixs) \in Nat /\ Len(At(items, ixs)) = Cardinality(ixs)
           /\ \A j \in DOMAIN At(items, ixs) : \E i \in ixs : At(items, ixs)[j] = items[i]
           /\ \A i \in ixs : \E j \in DOMAIN At(items, ixs) : At(items, ixs)[j] = items[i]
<1> DEFINE n == Cardinality(ixs)
           rank(q) == Cardinality({p \in ixs : p <= q})
           place(j) == CHOOSE i \in ixs : rank(i) = j
<1>1. ixs \in SUBSET Nat /\ IsFiniteSet(ixs)
  <2>1. DOMAIN items = 1 .. Len(items) /\ Len(items) \in Nat
    OBVIOUS
  <2>2. IsFiniteSet(1 .. Len(items)) /\ 1 .. Len(items) \subseteq Nat
    BY <2>1, FS_Interval
  <2> QED
    BY <2>1, <2>2, FS_Subset
<1>2. /\ \A i \in 1 .. n : \E q \in ixs : rank(q) = i
      /\ \A q \in ixs : rank(q) \in 1 .. n
      /\ \A q, r \in ixs : rank(q) = rank(r) => q = r
      /\ n \in Nat
  BY <1>1, RankOfOne
<1>3. At(items, ixs) = [j \in 1 .. n |-> items[place(j)]]
  BY DEF At
<1> HIDE DEF rank, n
<1>4. \A j \in 1 .. n : place(j) \in ixs /\ rank(place(j)) = j
  BY <1>2
<1> HIDE DEF place
<1>5. \A j \in 1 .. n : items[place(j)] \in Items
  BY <1>4
<1>6. \A q \in ixs : place(rank(q)) = q
  BY <1>2, <1>4
<1> DEFINE s == [j \in 1 .. n |-> items[place(j)]]
<1>7. s \in Seq(Items) /\ Len(s) = n /\ DOMAIN s = 1 .. n
  BY <1>2, <1>5
<1>8. /\ \A j \in 1 .. n : s[j] = items[place(j)]
      /\ \A i \in ixs : rank(i) \in 1 .. n /\ s[rank(i)] = items[i]
  BY <1>2, <1>6
<1> HIDE DEF s
<1>9. /\ \A j \in DOMAIN s : \E i \in ixs : s[j] = items[i]
      /\ \A i \in ixs : \E j \in DOMAIN s : s[j] = items[i]
  BY <1>4, <1>7, <1>8
<1>10. At(items, ixs) = s
  BY <1>3 DEF s
<1> USE DEF n
<1> QED
  BY <1>2, <1>7, <1>9, <1>10

LEMMA AtTells ==
    ASSUME NEW items \in Seq(Items), NEW ixs \in SUBSET DOMAIN items
    PROVE  /\ TurnsOf(At(items, ixs)) = {items[i].ids[1] : i \in {j \in ixs : IsTurn(items[j])}}
           /\ NamedIn(At(items, ixs)) \subseteq NamedIn(items)
           /\ TurnsOf(At(items, ixs)) \subseteq TurnsOf(items)
<1> DEFINE s == At(items, ixs)
<1>1. /\ \A j \in DOMAIN s : \E i \in ixs : s[j] = items[i]
      /\ \A i \in ixs : \E j \in DOMAIN s : s[j] = items[i]
  BY AtHas
<1> HIDE DEF s
<1>2. TurnsOf(s) = {items[i].ids[1] : i \in {j \in ixs : IsTurn(items[j])}}
  BY <1>1 DEF TurnsOf
<1>3. NamedIn(s) \subseteq NamedIn(items) /\ TurnsOf(s) \subseteq TurnsOf(items)
  BY <1>1 DEF NamedIn, TurnsOf
<1> USE DEF s
<1> QED
  BY <1>2, <1>3

LEMMA TurnsAtHas ==
    ASSUME NEW items \in Seq(Items), NEW ixs \in SUBSET DOMAIN items
    PROVE  /\ TurnsAt(items, ixs) \in Seq(Items)
           /\ \A j \in DOMAIN TurnsAt(items, ixs) : IsTurn(TurnsAt(items, ixs)[j])
           /\ NamedIn(TurnsAt(items, ixs)) = {}
           /\ TurnsOf(TurnsAt(items, ixs)) =
                  {items[i].ids[1] : i \in {j \in ixs : IsTurn(items[j])}}
<1> DEFINE T == {i \in ixs : IsTurn(items[i])}
           s == At(items, T)
<1>1. T \in SUBSET DOMAIN items
  OBVIOUS
<1>2. s \in Seq(Items) /\ \A j \in DOMAIN s : \E i \in T : s[j] = items[i]
  BY <1>1, AtHas
<1>3. TurnsOf(s) = {items[i].ids[1] : i \in {j \in T : IsTurn(items[j])}}
  BY <1>1, AtTells
<1>4. TurnsAt(items, ixs) = s
  BY DEF TurnsAt
<1> HIDE DEF s
<1>5. \A j \in DOMAIN s : IsTurn(s[j])
  BY <1>2
<1>6. NamedIn(s) = {}
  BY <1>5 DEF NamedIn
<1>7. {j \in T : IsTurn(items[j])} = T
  OBVIOUS
<1> QED
  BY <1>2, <1>3, <1>4, <1>5, <1>6, <1>7

\* The constants are numbers.
SizesOK ==
    /\ ProtectFirst \in Nat /\ ProtectLast \in Nat /\ Budget \in Nat /\ MaxTurns \in Nat
    /\ MaxFaults \in Nat /\ MaxRestarts \in Nat /\ MaxSessions \in Nat \ {0}

\* The window, the settled prefix and the list are sequences of their kinds.
EngineOK ==
    /\ window \in Seq(Items) /\ settled \in Seq(Items) /\ pool \in Seq(Nat)
    /\ TypeOK

\* An engine that has a list, or a prefix that it settled, has listed what the
\* notes name.
NamesListed == pool # <<>> \/ settled # <<>> => NamedIn(window) \subseteq ToSet(pool)

LEMMA Matches ==
    ASSUME EngineOK
    PROVE  /\ MatchLocked \in 0 .. Len(window)
           /\ settled = <<>> => MatchLocked = 0
<1> DEFINE m == Smaller(Len(window), Len(settled))
           K == {k \in 1 .. m : SubSeq(window, 1, k) = SubSeq(settled, 1, k)}
<1>1. m \in Nat /\ m <= Len(window) /\ Len(window) \in Nat /\ (settled = <<>> => m = 0)
  <2>1. Len(window) \in Nat /\ Len(settled) \in Nat /\ (settled = <<>> => Len(settled) = 0)
    BY DEF EngineOK
  <2> QED
    BY <2>1 DEF Smaller
<1>2. MatchLocked = Cardinality(K)
  BY DEF MatchLocked
<1>3. K \in SUBSET (1 .. m)
  OBVIOUS
<1> HIDE DEF K, m
<1>4. IsFiniteSet(1 .. m) /\ Cardinality(1 .. m) = m
  <2>1. CASE m = 0
    <3>1. 1 .. m = {}
      BY <2>1
    <3> QED
      BY <2>1, <3>1, FS_EmptySet
  <2>2. CASE m # 0
    BY <1>1, <2>2, FS_Interval
  <2> QED
    BY <2>1, <2>2
<1>5. Cardinality(K) \in Nat /\ Cardinality(K) <= m
  BY <1>3, <1>4, FS_Subset, FS_CardinalityType
<1> QED
  BY <1>1, <1>2, <1>5

\* What a pass starts from.
LEMMA PlanHas ==
    ASSUME SizesOK, EngineOK, NamesListed, NEW p, p = Plan
    PROVE  /\ p.locked \in Seq(Items) /\ p.fresh \in Seq(Items) /\ p.pool \in Seq(Nat)
           /\ TurnsOf(window) = TurnsOf(p.locked) \cup TurnsOf(p.fresh)
           /\ NamedIn(p.locked) \cup NamedIn(p.fresh) \subseteq NamedIn(window)
           /\ ToSet(pool) \subseteq ToSet(p.pool)
           /\ ToSet(p.pool) \subseteq ToSet(pool) \cup NamedIn(window)
           /\ NamedIn(window) \subseteq ToSet(p.pool)
           /\ p.rebase => NamedIn(p.locked) \cup NamedIn(p.fresh) = {}
           /\ ~p.rebase => p.pool = pool
           /\ p.rebase <=> RebaseAt(MatchLocked)
           /\ ~p.rebase => p.locked = SubSeq(window, 1, MatchLocked)
<1> DEFINE k == MatchLocked
<1>1. k \in 0 .. Len(window) /\ (settled = <<>> => k = 0) /\ window \in Seq(Items)
      /\ pool \in Seq(Nat)
  BY Matches DEF EngineOK
<1>2. Plan = IF RebaseAt(k)
             THEN [rebase |-> TRUE, locked |-> <<>>, fresh |-> TurnsAt(window, DOMAIN window),
                   pool |-> Adopted(TRUE)]
             ELSE [rebase |-> FALSE, locked |-> SubSeq(window, 1, k),
                   fresh |-> SubSeq(window, k + 1, Len(window)), pool |-> pool]
  BY DEF Plan
<1> HIDE DEF k
<1>3. CASE ~RebaseAt(k)
  <2>1. /\ p.locked = SubSeq(window, 1, k) /\ p.fresh = SubSeq(window, k + 1, Len(window))
        /\ p.pool = pool /\ p.rebase = FALSE
    BY <1>2, <1>3
  <2>2. settled # <<>>
    BY <1>1, <1>3 DEF RebaseAt
  <2>3. NamedIn(window) \subseteq ToSet(pool)
    BY <2>2 DEF NamesListed
  <2>4. /\ SubSeq(window, 1, k) \in Seq(Items) /\ SubSeq(window, k + 1, Len(window)) \in Seq(Items)
        /\ TurnsOf(window) = TurnsOf(SubSeq(window, 1, k))
                \cup TurnsOf(SubSeq(window, k + 1, Len(window)))
        /\ NamedIn(window) = NamedIn(SubSeq(window, 1, k))
                \cup NamedIn(SubSeq(window, k + 1, Len(window)))
    BY <1>1, Parted
  <2>5. /\ p.locked \in Seq(Items) /\ p.fresh \in Seq(Items)
        /\ TurnsOf(window) = TurnsOf(p.locked) \cup TurnsOf(p.fresh)
        /\ NamedIn(window) = NamedIn(p.locked) \cup NamedIn(p.fresh)
    BY <2>1, <2>4
  <2> QED
    BY <1>1, <1>3, <2>1, <2>3, <2>5 DEF k
<1>4. CASE RebaseAt(k)
  <2>1. /\ p.locked = <<>> /\ p.fresh = TurnsAt(window, DOMAIN window)
        /\ p.pool = Adopted(TRUE) /\ p.rebase = TRUE
    BY <1>2, <1>4
  <2>2. /\ p.fresh \in Seq(Items) /\ NamedIn(p.fresh) = {}
        /\ TurnsOf(p.fresh) = {window[i].ids[1] : i \in {j \in DOMAIN window : IsTurn(window[j])}}
    BY <1>1, <2>1, TurnsAtHas
  <2>3. <<>> \in Seq(Items) /\ TurnsOf(<<>>) = {} /\ NamedIn(<<>>) = {}
    BY DEF TurnsOf, NamedIn
  <2>4. /\ p.pool \in Seq(Nat) /\ ToSet(pool) \subseteq ToSet(p.pool)
        /\ ToSet(p.pool) \subseteq ToSet(pool) \cup NamedIn(window)
        /\ NamedIn(window) \subseteq ToSet(p.pool)
    <3>1. CASE pool # <<>>
      <4>1. p.pool = pool
        BY <2>1, <3>1 DEF Adopted
      <4> QED
        BY <1>1, <3>1, <4>1 DEF NamesListed
    <3>2. CASE pool = <<>>
      <4> DEFINE lists == [i \in DOMAIN window |-> IF IsTurn(window[i]) THEN <<>> ELSE window[i].ids]
      <4>1. p.pool = FlattenSeq(lists)
        BY <2>1, <3>2 DEF Adopted
      <4>2. lists \in Seq(Seq(Nat)) /\ DOMAIN lists = DOMAIN window
        <5>1. \A i \in DOMAIN window : window[i] \in Items
          BY <1>1
        <5>2. \A i \in DOMAIN window : lists[i] \in Seq(Nat)
          BY <5>1 DEF Items
        <5>3. DOMAIN window = 1 .. Len(window) /\ Len(window) \in Nat
          BY <1>1
        <5>4. lists \in [1 .. Len(window) -> Seq(Nat)]
          BY <5>2, <5>3
        <5> HIDE DEF lists
        <5> QED
          BY <5>3, <5>4
      <4>3. ToSet(<<>>) = {}
        BY DEF ToSet
      <4>4. UNION {ToSet(lists[i]) : i \in DOMAIN lists} = NamedIn(window)
        <5>1. \A i \in DOMAIN window :
                ToSet(lists[i]) = IF IsTurn(window[i]) THEN {} ELSE ToSet(window[i].ids)
          BY <4>3
        <5> HIDE DEF lists
        <5> QED
          BY <4>2, <5>1 DEF NamedIn
      <4> HIDE DEF lists
      <4> QED
        BY <3>2, <4>1, <4>2, <4>3, <4>4, Flattened
    <3> QED
      BY <3>1, <3>2
  <2>5. TurnsOf(p.fresh) = TurnsOf(window)
    BY <2>2 DEF TurnsOf
  <2> QED
    BY <1>4, <2>1, <2>2, <2>3, <2>4, <2>5 DEF k
<1> QED
  BY <1>3, <1>4

\* What a pass makes of it.
LEMMA PassHas ==
    ASSUME SizesOK, NEW p, p.locked \in Seq(Items), p.fresh \in Seq(Items),
           TurnsOf(p.fresh) \subseteq Nat,
           NEW kept \in Keepable(p), NEW names \in Seq(Nat)
    PROVE  /\ FoldedIds(p, kept) \in Seq(Nat)
           /\ ToSet(FoldedIds(p, kept)) \subseteq TurnsOf(p.fresh)
           /\ Compacted(p, kept, names) \in Seq(Items)
           /\ Len(Compacted(p, kept, names)) <= Budget
           /\ IsPrefix(p.locked, Compacted(p, kept, names))
           /\ TurnsOf(p.locked) \cup TurnsOf(p.fresh)
                  \subseteq TurnsOf(Compacted(p, kept, names)) \cup ToSet(FoldedIds(p, kept))
           /\ TurnsOf(Compacted(p, kept, names)) \subseteq TurnsOf(p.locked) \cup TurnsOf(p.fresh)
           /\ NamedIn(Compacted(p, kept, names))
                  \subseteq NamedIn(p.locked) \cup NamedIn(p.fresh) \cup ToSet(names)
<1> DEFINE D == DOMAIN p.fresh
           ids == FoldedIds(p, kept)
           front == At(p.fresh, kept \cap HeadOf(p))
           note == Handoff(p, kept, names)
           back == At(p.fresh, kept \ HeadOf(p))
           w == Compacted(p, kept, names)
           turns(ixs) == {p.fresh[i].ids[1] : i \in {j \in ixs : IsTurn(p.fresh[j])}}
<1>1. /\ kept \in SUBSET D /\ Cardinality(kept) <= FreshRoom(p)
      /\ NeedsFold(p) \/ kept = D
  BY DEF Keepable
<1>2. D = 1 .. Len(p.fresh) /\ Len(p.fresh) \in Nat /\ Len(p.locked) \in Nat /\ IsFiniteSet(D)
  <2>1. D = 1 .. Len(p.fresh) /\ Len(p.fresh) \in Nat /\ Len(p.locked) \in Nat
    OBVIOUS
  <2>2. IsFiniteSet(1 .. Len(p.fresh))
    BY <2>1, FS_Interval
  <2> QED
    BY <2>1, <2>2
<1>3. /\ kept \cap HeadOf(p) \in SUBSET D /\ kept \ HeadOf(p) \in SUBSET D
      /\ D \ kept \in SUBSET D
  BY <1>1
<1>4. /\ front \in Seq(Items) /\ Len(front) = Cardinality(kept \cap HeadOf(p))
      /\ TurnsOf(front) = turns(kept \cap HeadOf(p))
      /\ NamedIn(front) \subseteq NamedIn(p.fresh)
  BY <1>3, AtHas, AtTells
<1>5. /\ back \in Seq(Items) /\ Len(back) = Cardinality(kept \ HeadOf(p))
      /\ TurnsOf(back) = turns(kept \ HeadOf(p))
      /\ NamedIn(back) \subseteq NamedIn(p.fresh)
  BY <1>3, AtHas, AtTells
<1>6. /\ TurnsOf(p.fresh) = turns(D)
      /\ turns(D) = turns(kept \cap HeadOf(p)) \cup turns(kept \ HeadOf(p)) \cup turns(D \ kept)
  BY <1>1 DEF TurnsOf
<1>7. /\ ids \in Seq(Nat) /\ ToSet(ids) = turns(D \ kept)
  <2> DEFINE out == TurnsAt(p.fresh, D \ kept)
  <2>1. /\ out \in Seq(Items) /\ \A j \in DOMAIN out : IsTurn(out[j])
        /\ TurnsOf(out) = turns(D \ kept)
    BY <1>3, TurnsAtHas
  <2>2. ids = [j \in DOMAIN out |-> out[j].ids[1]]
    BY DEF FoldedIds
  <2> HIDE DEF out, ids
  <2>3. TurnsOf(out) = {out[j].ids[1] : j \in DOMAIN out}
    BY <2>1 DEF TurnsOf
  <2>4. TurnsOf(out) \subseteq Nat
    BY <1>6, <2>1
  <2>5. \A j \in DOMAIN out : out[j].ids[1] \in Nat
    BY <2>3, <2>4
  <2>6. DOMAIN out = 1 .. Len(out) /\ Len(out) \in Nat
    BY <2>1
  <2>7. ids \in [1 .. Len(out) -> Nat]
    BY <2>2, <2>5, <2>6
  <2>8. ids \in Seq(Nat) /\ DOMAIN ids = DOMAIN out
    BY <2>6, <2>7
  <2>9. ToSet(ids) = TurnsOf(out)
    BY <2>2, <2>3, <2>8 DEF ToSet
  <2> QED
    BY <2>1, <2>8, <2>9
<1>8. /\ note \in Seq(Items) /\ TurnsOf(note) = {} /\ NamedIn(note) \subseteq ToSet(names)
      /\ Len(note) \in {0, 1}
      /\ Len(note) = 1 => NeedsFold(p) \/ Len(p.locked) + Cardinality(kept) # Budget
  <2>1. Note(names) \in Items /\ ~IsTurn(Note(names)) /\ Note(names).ids = names
    BY DEF Note, Items, IsTurn
  <2>2. <<>> \in Seq(Items) /\ TurnsOf(<<>>) = {} /\ NamedIn(<<>>) = {} /\ Len(<<>>) = 0
    BY DEF TurnsOf, NamedIn
  <2> DEFINE one == <<Note(names)>>
  <2>3. one \in Seq(Items) /\ Len(one) = 1 /\ DOMAIN one = {1} /\ one[1] = Note(names)
    BY <2>1
  <2> HIDE DEF one
  <2>4. TurnsOf(one) = {} /\ NamedIn(one) = ToSet(names)
    BY <2>1, <2>3 DEF TurnsOf, NamedIn
  <2>5. \/ note = <<>>
        \/ note = one /\ (NeedsFold(p) \/ Len(p.locked) + Cardinality(kept) # Budget)
    BY DEF Handoff, one
  <2> HIDE DEF note
  <2>6. CASE note = <<>>
    BY <2>2, <2>6
  <2>7. CASE note = one /\ (NeedsFold(p) \/ Len(p.locked) + Cardinality(kept) # Budget)
    BY <2>3, <2>4, <2>7
  <2> QED
    BY <2>5, <2>6, <2>7
<1>9. Cardinality(kept) \in Nat /\ Len(front) + Len(back) = Cardinality(kept)
  <2>1. IsFiniteSet(kept)
    BY <1>1, <1>2, FS_Subset
  <2> DEFINE a == Cardinality(kept \cap HeadOf(p))
             b == Cardinality(kept \ HeadOf(p))
             c == Cardinality(kept)
  <2>2. a \in Nat /\ b \in Nat /\ c \in Nat /\ b = c - a
    BY <2>1, FS_Difference, FS_Intersection, FS_CardinalityType
  <2>3. Len(front) = a /\ Len(back) = b
    BY <1>4, <1>5
  <2> HIDE DEF a, b, c, front, back
  <2>4. c \in Nat /\ Len(front) + Len(back) = c
    BY <2>2, <2>3
  <2> QED
    BY <2>4 DEF c
<1>10. w = p.locked \o front \o note \o back
  BY DEF Compacted
<1> HIDE DEF front, back, note, ids, w
<1>11. /\ w \in Seq(Items) /\ Len(w) = Len(p.locked) + Len(front) + Len(note) + Len(back)
       /\ TurnsOf(w) = TurnsOf(p.locked) \cup TurnsOf(front) \cup TurnsOf(note) \cup TurnsOf(back)
       /\ NamedIn(w) = NamedIn(p.locked) \cup NamedIn(front) \cup NamedIn(note) \cup NamedIn(back)
       /\ \A i \in 1 .. Len(p.locked) : w[i] = p.locked[i]
  <2> DEFINE a == p.locked \o front
             b == a \o note
  <2>1. /\ a \in Seq(Items) /\ Len(a) = Len(p.locked) + Len(front)
        /\ TurnsOf(a) = TurnsOf(p.locked) \cup TurnsOf(front)
        /\ NamedIn(a) = NamedIn(p.locked) \cup NamedIn(front)
    BY <1>4, Joined
  <2>5. \A i \in 1 .. Len(p.locked) : a[i] = p.locked[i]
    BY <1>4
  <2> HIDE DEF a
  <2>2. /\ b \in Seq(Items) /\ Len(b) = Len(a) + Len(note)
        /\ TurnsOf(b) = TurnsOf(a) \cup TurnsOf(note)
        /\ NamedIn(b) = NamedIn(a) \cup NamedIn(note)
    BY <1>8, <2>1, Joined
  <2>6. \A i \in 1 .. Len(a) : b[i] = a[i]
    BY <1>8, <2>1
  <2> HIDE DEF b
  <2>3. w = b \o back
    BY <1>10 DEF a, b
  <2>4. /\ w \in Seq(Items) /\ Len(w) = Len(b) + Len(back)
        /\ TurnsOf(w) = TurnsOf(b) \cup TurnsOf(back)
        /\ NamedIn(w) = NamedIn(b) \cup NamedIn(back)
    BY <1>5, <2>2, <2>3, Joined
  <2>7. \A i \in 1 .. Len(b) : w[i] = b[i]
    BY <1>5, <2>2, <2>3
  <2>8. \A i \in 1 .. Len(p.locked) : i \in 1 .. Len(a) /\ i \in 1 .. Len(b)
    <3>1. Len(front) \in Nat /\ Len(note) \in Nat
      BY <1>4, <1>8
    <3> HIDE DEF D
    <3> QED
      BY <1>2, <2>1, <2>2, <3>1
  <2> QED
    BY <2>1, <2>2, <2>4, <2>5, <2>6, <2>7, <2>8
<1>12. Len(w) <= Budget
  <2>1. Len(w) = Len(p.locked) + Cardinality(kept) + Len(note)
    <3>1. Len(front) \in Nat /\ Len(back) \in Nat /\ Len(note) \in Nat
      BY <1>4, <1>5, <1>8
    <3> QED
      BY <1>2, <1>9, <1>11, <3>1
  <2> DEFINE l == Len(p.locked)
             c == Cardinality(kept)
             n == Len(note)
             room == FreshRoom(p)
  <2>2. Budget \in Nat /\ n \in {0, 1} /\ l \in Nat /\ c \in Nat
    BY <1>2, <1>8, <1>9 DEF SizesOK
  <2>3. c <= room
    BY <1>1
  <2>4. room = Budget - l - (IF NeedsFold(p) THEN 1 ELSE 0)
    BY DEF FreshRoom
  <2>5. n = 1 => NeedsFold(p) \/ l + c # Budget
    BY <1>8
  <2>6. Len(w) = l + c + n
    BY <2>1
  <2> HIDE DEF l, c, n, room
  <2>7. CASE NeedsFold(p)
    <3>1. room = Budget - l - 1
      BY <2>4, <2>7
    <3> QED
      BY <2>2, <2>3, <2>6, <3>1
  <2>8. CASE ~NeedsFold(p)
    <3>1. room = Budget - l - 0
      BY <2>4, <2>8
    <3>2. n = 1 => l + c # Budget
      BY <2>5, <2>8
    <3> QED
      BY <2>2, <2>3, <2>6, <3>1, <3>2
  <2> QED
    BY <2>7, <2>8
<1>13. IsPrefix(p.locked, w)
  <2>1. Len(p.locked) <= Len(w)
    BY <1>2, <1>4, <1>5, <1>8, <1>11
  <2>2. Len(p.locked) <= Len(w) /\ \A i \in 1 .. Len(p.locked) : w[i] = p.locked[i]
    BY <1>11, <2>1
  <2>3. SubSeq(p.locked, 1, Len(p.locked)) = p.locked
    BY SubSeqFull
  <2>4. SubSeq(w, 1, Len(p.locked)) = p.locked
    <3> DEFINE m == Len(p.locked)
               head == SubSeq(w, 1, m)
    <3>1. m \in Nat /\ m <= Len(w)
      BY <2>2
    <3> HIDE DEF m
    <3>2. head \in Seq(Items) /\ Len(head) = m /\ \A i \in 1 .. m : head[i] = w[i]
      BY <1>11, <3>1
    <3> HIDE DEF head
    <3>3. \A i \in 1 .. Len(head) : head[i] = p.locked[i]
      BY <2>2, <3>2 DEF m
    <3>4. head = p.locked
      BY <3>2, <3>3, SeqEqual DEF m
    <3> QED
      BY <3>4 DEF head, m
  <2> QED
    BY <2>2, <2>3, <2>4 DEF IsPrefix
<1> HIDE DEF turns
<1> QED
  <2>1. TurnsOf(w) = TurnsOf(p.locked) \cup turns(kept \cap HeadOf(p)) \cup turns(kept \ HeadOf(p))
    BY <1>4, <1>5, <1>8, <1>11
  <2>2. NamedIn(w) \subseteq NamedIn(p.locked) \cup NamedIn(p.fresh) \cup ToSet(names)
    BY <1>4, <1>5, <1>8, <1>11
  <2>3. /\ TurnsOf(p.locked) \cup TurnsOf(p.fresh) \subseteq TurnsOf(w) \cup ToSet(ids)
        /\ TurnsOf(w) \subseteq TurnsOf(p.locked) \cup TurnsOf(p.fresh)
        /\ ToSet(ids) \subseteq TurnsOf(p.fresh)
    BY <1>6, <1>7, <2>1
  <2> QED
    BY <1>7, <1>11, <1>12, <1>13, <2>2, <2>3 DEF ids, w

\* What an archive of some turns keeps.
LEMMA ToSetJoined ==
    ASSUME NEW a \in Seq(Nat), NEW b \in Seq(Nat)
    PROVE  a \o b \in Seq(Nat) /\ ToSet(a \o b) = ToSet(a) \cup ToSet(b)
<1> DEFINE c == a \o b
<1>1. c \in Seq(Nat) /\ Len(c) = Len(a) + Len(b)
  OBVIOUS
<1>2. \A i \in DOMAIN a : i \in DOMAIN c /\ c[i] = a[i]
  OBVIOUS
<1>3. \A i \in DOMAIN b : Len(a) + i \in DOMAIN c /\ c[Len(a) + i] = b[i]
  OBVIOUS
<1>4. ASSUME NEW i \in DOMAIN c
      PROVE  \/ i \in DOMAIN a /\ c[i] = a[i]
             \/ i - Len(a) \in DOMAIN b /\ c[i] = b[i - Len(a)]
  OBVIOUS
<1> HIDE DEF c
<1>5. ToSet(c) = ToSet(a) \cup ToSet(b)
  BY <1>2, <1>3, <1>4 DEF ToSet
<1> QED
  BY <1>1, <1>5 DEF c

\* The heuristic drops turns and says which.
LEMMA HeuristicHas ==
    ASSUME SizesOK, EngineOK, Len(window) > ProtectFirst + ProtectLast, NEW base \in Seq(Nat),
           Heuristic(base)
    PROVE  /\ window' \in Seq(Items) /\ pool' = base
           /\ TurnsOf(window') \subseteq TurnsOf(window)
           /\ NamedIn(window') \subseteq NamedIn(window)
           /\ TurnsOf(window) \subseteq TurnsOf(window') \cup gone'
           /\ gone \subseteq gone' /\ gone' \subseteq gone \cup TurnsOf(window)
<1> DEFINE n == Len(window)
           a == SubSeq(window, 1, ProtectFirst)
           c == SubSeq(window, n - ProtectLast + 1, n)
           note == <<Note(<<>>)>>
           shadow == [i \in 1 .. n |-> IF i \in HeuristicKept THEN Note(<<>>) ELSE window[i]]
           dropped == TurnsOf(shadow)
<1>1. window' = a \o note \o c /\ gone' = gone \cup dropped /\ pool' = base
  BY DEF Heuristic
<1>2. /\ window \in Seq(Items) /\ n \in Nat /\ DOMAIN window = 1 .. n
      /\ ProtectFirst \in Nat /\ ProtectLast \in Nat /\ n > ProtectFirst + ProtectLast
  BY DEF EngineOK, SizesOK
<1>3. Note(<<>>) \in Items /\ ~IsTurn(Note(<<>>)) /\ Note(<<>>).ids = <<>>
  BY DEF Note, Items, IsTurn
<1> HIDE DEF n
<1>4. /\ a \in Seq(Items) /\ Len(a) = ProtectFirst
      /\ \A i \in 1 .. ProtectFirst : a[i] = window[i]
  BY <1>2 DEF n
<1>5. /\ c \in Seq(Items) /\ Len(c) = ProtectLast
      /\ \A i \in 1 .. ProtectLast : c[i] = window[n - ProtectLast + i]
  <2> DEFINE from == n - ProtectLast + 1
  <2>1. from \in 1 .. n + 1 /\ n - from + 1 = ProtectLast
    BY <1>2
  <2>2. \A i \in 1 .. ProtectLast : from + i - 1 = n - ProtectLast + i
    BY <1>2
  <2>3. c = SubSeq(window, from, n)
    OBVIOUS
  <2> HIDE DEF from, c
  <2>4. /\ c \in Seq(Items) /\ Len(c) = n - from + 1
        /\ \A i \in 1 .. n - from + 1 : c[i] = window[from + i - 1]
    <3>1. window \in Seq(Items) /\ from \in 1 .. Len(window) + 1 /\ n \in from - 1 .. Len(window)
      BY <1>2, <2>1 DEF n
    <3> QED
      BY <2>3, <3>1, SubSeqProperties
  <2> QED
    BY <2>1, <2>2, <2>4
<1>6. /\ note \in Seq(Items) /\ Len(note) = 1 /\ TurnsOf(note) = {} /\ NamedIn(note) = {}
  <2>1. note \in Seq(Items) /\ Len(note) = 1 /\ DOMAIN note = {1} /\ note[1] = Note(<<>>)
    BY <1>3
  <2>2. ToSet(<<>>) = {}
    BY DEF ToSet
  <2> HIDE DEF note
  <2> QED
    BY <1>3, <2>1, <2>2 DEF TurnsOf, NamedIn
<1> HIDE DEF a, c, note
<1>7. /\ a \o note \in Seq(Items)
      /\ TurnsOf(a \o note) = TurnsOf(a) /\ NamedIn(a \o note) = NamedIn(a)
  <2> DEFINE b == a \o note
  <2>1. /\ b \in Seq(Items) /\ TurnsOf(b) = TurnsOf(a) \cup TurnsOf(note)
        /\ NamedIn(b) = NamedIn(a) \cup NamedIn(note)
    BY <1>4, <1>6, Joined
  <2> HIDE DEF b
  <2>2. TurnsOf(b) = TurnsOf(a) /\ NamedIn(b) = NamedIn(a)
    BY <1>6, <2>1
  <2> QED
    BY <2>1, <2>2 DEF b
<1>8. /\ window' \in Seq(Items)
      /\ TurnsOf(window') = TurnsOf(a) \cup TurnsOf(c)
      /\ NamedIn(window') = NamedIn(a) \cup NamedIn(c)
  <2> DEFINE b == a \o note
  <2>1. b \in Seq(Items) /\ window' = b \o c
    BY <1>1, <1>7
  <2> HIDE DEF b
  <2>2. /\ window' \in Seq(Items)
        /\ TurnsOf(window') = TurnsOf(b) \cup TurnsOf(c)
        /\ NamedIn(window') = NamedIn(b) \cup NamedIn(c)
    BY <1>5, <2>1, Joined
  <2> QED
    BY <1>7, <2>2 DEF b
<1>9. /\ \A i \in DOMAIN a : i \in DOMAIN window /\ a[i] = window[i]
      /\ \A i \in DOMAIN c : n - ProtectLast + i \in DOMAIN window
                             /\ c[i] = window[n - ProtectLast + i]
  BY <1>2, <1>4, <1>5
<1>10. /\ TurnsOf(a) \cup TurnsOf(c) \subseteq TurnsOf(window)
       /\ NamedIn(a) \cup NamedIn(c) \subseteq NamedIn(window)
  BY <1>9 DEF TurnsOf, NamedIn
<1>11. /\ DOMAIN shadow = DOMAIN window
       /\ \A i \in DOMAIN window : shadow[i] = IF i \in HeuristicKept THEN Note(<<>>) ELSE window[i]
  BY <1>2
<1> HIDE DEF shadow
<1>12. dropped \subseteq TurnsOf(window)
  BY <1>3, <1>11 DEF TurnsOf
<1>13. TurnsOf(window) \subseteq TurnsOf(a) \cup TurnsOf(c) \cup dropped
  <2> SUFFICES ASSUME NEW i \in DOMAIN window, IsTurn(window[i])
               PROVE  window[i].ids[1] \in TurnsOf(a) \cup TurnsOf(c) \cup dropped
    BY DEF TurnsOf
  <2>1. CASE i <= ProtectFirst
    <3>1. i \in DOMAIN a /\ a[i] = window[i]
      BY <1>2, <1>4, <2>1
    <3> QED
      BY <3>1 DEF TurnsOf
  <2>2. CASE i > n - ProtectLast
    <3> DEFINE j == i - (n - ProtectLast)
    <3>1. j \in 1 .. ProtectLast /\ n - ProtectLast + j = i
      BY <1>2, <2>2
    <3> HIDE DEF j
    <3>2. j \in DOMAIN c /\ c[j] = window[i]
      BY <1>5, <3>1
    <3> QED
      BY <3>2 DEF TurnsOf
  <2>3. CASE i \notin HeuristicKept
    <3>1. i \in DOMAIN shadow /\ shadow[i] = window[i]
      BY <1>11, <2>3
    <3> QED
      BY <3>1 DEF TurnsOf
  <2> QED
    BY <2>1, <2>2, <2>3 DEF HeuristicKept, n
<1> QED
  BY <1>1, <1>8, <1>10, <1>12, <1>13

\* The inductive invariant.
FoldInv == EngineOK /\ NamesListed /\ NoneVanished

\* What the session being served has folded.
Restorable == {n \in durable : <<session, n>> \in folds}

\* What a pass has to keep, whatever comes of it.
LEMMA PassKeeps ==
    ASSUME SizesOK, FoldInv, UNCHANGED <<said, core, session, restarts>>,
           faults' \in 0 .. MaxFaults,
           window' \in Seq(Items), settled' \in Seq(Items), pool' \in Seq(Nat),
           TurnsOf(window') \subseteq TurnsOf(window),
           ToSet(pool') \subseteq ToSet(pool) \cup NamedIn(window) \cup TurnsOf(window),
           \/ NamedIn(window') \subseteq ToSet(pool')
           \/ pool' = <<>> /\ settled' = <<>> /\ NamedIn(window') \subseteq NamedIn(window),
           gone \subseteq gone', gone' \subseteq gone \cup TurnsOf(window),
           durable \subseteq durable', durable' \subseteq 1 .. said,
           folds \subseteq folds', folds' \subseteq (1 .. MaxSessions) \X (1 .. said),
           TurnsOf(window) \subseteq TurnsOf(window') \cup gone' \cup Restorable'
    PROVE  FoldInv'
<1> USE DEF FoldInv
<1>1. /\ window \in Seq(Items) /\ TypeOK
      /\ session' = session /\ said' = said /\ core' = core /\ restarts' = restarts
  BY DEF EngineOK
<1>2. TurnsOf(window) \cup NamedIn(window) \cup ToSet(pool) \subseteq 1 .. said
  BY <1>1 DEF TypeOK
<1>3. TurnsOf(window') \cup NamedIn(window') \cup ToSet(pool') \subseteq 1 .. said
  BY <1>2
<1>4. EngineOK'
  <2>1. TypeOK'
    <3>1. gone' \subseteq 1 .. said
      BY <1>1, <1>2 DEF TypeOK
    <3> QED
      BY <1>1, <1>3, <3>1 DEF TypeOK
  <2> QED
    BY <2>1 DEF EngineOK
<1>5. NamesListed'
  BY DEF NamesListed
<1>6. NoneVanished'
  <2> SUFFICES ASSUME NEW n \in 1 .. said, n \notin TurnsOf(window') \cup gone'
               PROVE  n \in durable' /\ \E s \in 1 .. session : <<s, n>> \in folds'
    BY <1>1 DEF NoneVanished, Recoverable
  <2>1. CASE n \in TurnsOf(window)
    <3>1. n \in Restorable' /\ session \in 1 .. session
      BY <1>1, <2>1 DEF TypeOK
    <3> QED
      BY <1>1, <3>1 DEF Restorable
  <2>2. CASE n \notin TurnsOf(window)
    <3>1. n \in durable /\ \E s \in 1 .. session : <<s, n>> \in folds
      BY <2>2 DEF NoneVanished, Recoverable
    <3> QED
      BY <3>1
  <2> QED
    BY <2>1, <2>2
<1> QED
  BY <1>4, <1>5, <1>6

LEMMA ArchiveHas ==
    ASSUME FoldInv, NEW ids, ToSet(ids) \subseteq 1 .. said, Archive(ids)
    PROVE  /\ durable \subseteq durable' /\ durable' \subseteq 1 .. said
           /\ folds \subseteq folds' /\ folds' \subseteq (1 .. MaxSessions) \X (1 .. said)
           /\ session' = session => ToSet(ids) \subseteq Restorable'
<1>1. /\ durable' = durable \cup ToSet(ids)
      /\ folds' = folds \cup {<<session, n>> : n \in ToSet(ids)}
  BY DEF Archive
<1>2. /\ durable \subseteq 1 .. said /\ folds \subseteq (1 .. MaxSessions) \X (1 .. said)
      /\ session \in 1 .. MaxSessions
  BY DEF FoldInv, EngineOK, TypeOK
<1>3. durable \subseteq durable' /\ durable' \subseteq 1 .. said /\ folds \subseteq folds'
  BY <1>1, <1>2
<1>4. folds' \subseteq (1 .. MaxSessions) \X (1 .. said)
  <2>1. \A n \in ToSet(ids) : <<session, n>> \in (1 .. MaxSessions) \X (1 .. said)
    BY <1>2
  <2> QED
    BY <1>1, <1>2, <2>1
<1>5. ASSUME session' = session PROVE ToSet(ids) \subseteq Restorable'
  BY <1>1, <1>5 DEF Restorable
<1> QED
  BY <1>3, <1>4, <1>5

\* A pass keeps the invariant, and what it knew of.
KnowsStill == \A n \in Known : n \in Known' \/ n \in gone'

LEMMA PlanFacts ==
    ASSUME SizesOK, FoldInv, NEW p, p = Plan
    PROVE  /\ p.locked \in Seq(Items) /\ p.fresh \in Seq(Items) /\ p.pool \in Seq(Nat)
           /\ TurnsOf(p.fresh) \subseteq 1 .. said /\ TurnsOf(p.fresh) \subseteq Nat
           /\ TurnsOf(window) \cup NamedIn(window) \subseteq 1 .. said
           /\ window \in Seq(Items) /\ settled \in Seq(Items) /\ pool \in Seq(Nat)
           /\ faults \in 0 .. MaxFaults
<1>1. EngineOK /\ NamesListed
  BY DEF FoldInv
<1>2. /\ p.locked \in Seq(Items) /\ p.fresh \in Seq(Items) /\ p.pool \in Seq(Nat)
      /\ TurnsOf(p.fresh) \subseteq TurnsOf(window)
  BY <1>1, PlanHas
<1>3. TurnsOf(window) \cup NamedIn(window) \subseteq 1 .. said /\ 1 .. said \subseteq Nat
  BY <1>1 DEF EngineOK, TypeOK
<1>4. /\ window \in Seq(Items) /\ settled \in Seq(Items) /\ pool \in Seq(Nat)
      /\ faults \in 0 .. MaxFaults
  BY <1>1 DEF EngineOK, TypeOK
<1> QED
  BY <1>2, <1>3, <1>4

LEMMA NothingToFoldKeeps ==
    ASSUME SizesOK, FoldInv, NothingToFold
    PROVE  FoldInv' /\ KnowsStill
<1> DEFINE p == Plan
<1>1. /\ pool' = p.pool /\ window' = window /\ settled' = settled /\ gone' = gone
      /\ UNCHANGED <<said, core, session, restarts>> /\ faults' = faults
      /\ durable' = durable /\ folds' = folds
  BY DEF NothingToFold, store
<1>2. PICK q : q = p
  OBVIOUS
<1> HIDE DEF p
<1>3. EngineOK /\ NamesListed /\ q = Plan
  BY <1>2 DEF FoldInv, p
<1>4. /\ q.pool \in Seq(Nat) /\ NamedIn(window) \subseteq ToSet(q.pool)
      /\ ToSet(pool) \subseteq ToSet(q.pool)
      /\ ToSet(q.pool) \subseteq ToSet(pool) \cup NamedIn(window)
  BY <1>3, PlanHas
<1>5. /\ window \in Seq(Items) /\ settled \in Seq(Items) /\ faults \in 0 .. MaxFaults
  BY <1>3, PlanFacts
<1>6. durable \subseteq 1 .. said /\ folds \subseteq (1 .. MaxSessions) \X (1 .. said)
  BY <1>3 DEF EngineOK, TypeOK
<1>7. KnowsStill
  BY <1>1, <1>2, <1>4 DEF KnowsStill, Known
<1>8. pool' = q.pool
  BY <1>1, <1>2
<1>9. /\ window' \in Seq(Items) /\ settled' \in Seq(Items) /\ pool' \in Seq(Nat)
      /\ faults' \in 0 .. MaxFaults
      /\ TurnsOf(window') \subseteq TurnsOf(window)
      /\ ToSet(pool') \subseteq ToSet(pool) \cup NamedIn(window) \cup TurnsOf(window)
      /\ NamedIn(window') \subseteq ToSet(pool')
      /\ gone \subseteq gone' /\ gone' \subseteq gone \cup TurnsOf(window)
      /\ durable \subseteq durable' /\ durable' \subseteq 1 .. said
      /\ folds \subseteq folds' /\ folds' \subseteq (1 .. MaxSessions) \X (1 .. said)
      /\ TurnsOf(window) \subseteq TurnsOf(window') \cup gone' \cup Restorable'
  BY <1>1, <1>4, <1>5, <1>6, <1>8
<1>10. FoldInv'
  BY <1>1, <1>9, PassKeeps
<1> QED
  BY <1>7, <1>10

LEMMA CompressKeeps ==
    ASSUME SizesOK, FoldInv, Compress
    PROVE  /\ FoldInv' /\ KnowsStill
           /\ Len(window') <= Budget
           /\ ~RebaseAt(MatchLocked) => IsPrefix(SubSeq(window, 1, MatchLocked), window')
<1> DEFINE plan == Plan
<1>1. PICK p : p = plan
  OBVIOUS
<1>2. PICK kept \in Keepable(p) :
        /\ Archive(FoldedIds(p, kept))
        /\ pool' = p.pool \o FoldedIds(p, kept)
        /\ window' = Compacted(p, kept, IF p.rebase THEN pool' ELSE FoldedIds(p, kept))
  BY <1>1 DEF Compress
<1>3. /\ settled' = window' /\ UNCHANGED <<said, core, session, gone, faults, restarts>>
  BY DEF Compress
<1> HIDE DEF plan
<1>4. EngineOK /\ NamesListed /\ p = Plan
  BY <1>1 DEF FoldInv, plan
<1>5. /\ TurnsOf(window) = TurnsOf(p.locked) \cup TurnsOf(p.fresh)
      /\ NamedIn(p.locked) \cup NamedIn(p.fresh) \subseteq NamedIn(window)
      /\ ToSet(pool) \subseteq ToSet(p.pool)
      /\ ToSet(p.pool) \subseteq ToSet(pool) \cup NamedIn(window)
      /\ NamedIn(window) \subseteq ToSet(p.pool)
      /\ p.rebase <=> RebaseAt(MatchLocked)
      /\ ~p.rebase => p.locked = SubSeq(window, 1, MatchLocked)
  BY <1>4, PlanHas
<1>6. /\ p.locked \in Seq(Items) /\ p.fresh \in Seq(Items) /\ p.pool \in Seq(Nat)
      /\ TurnsOf(p.fresh) \subseteq 1 .. said /\ TurnsOf(p.fresh) \subseteq Nat
      /\ faults \in 0 .. MaxFaults
  BY <1>4, PlanFacts
<1>7. PICK ids : ids = FoldedIds(p, kept)
  OBVIOUS
<1>8. ids \in Seq(Nat) /\ ToSet(ids) \subseteq TurnsOf(p.fresh)
  BY <1>6, <1>7, PassHas, <<>> \in Seq(Nat)
<1>9. pool' \in Seq(Nat) /\ ToSet(pool') = ToSet(p.pool) \cup ToSet(ids)
  BY <1>2, <1>6, <1>7, <1>8, ToSetJoined
<1>10. PICK names \in Seq(Nat) :
         names = (IF p.rebase THEN pool' ELSE ids) /\ window' = Compacted(p, kept, names)
  BY <1>2, <1>7, <1>8, <1>9
<1>11. /\ window' \in Seq(Items) /\ Len(window') <= Budget
       /\ IsPrefix(p.locked, window')
       /\ TurnsOf(p.locked) \cup TurnsOf(p.fresh) \subseteq TurnsOf(window') \cup ToSet(ids)
       /\ TurnsOf(window') \subseteq TurnsOf(p.locked) \cup TurnsOf(p.fresh)
       /\ NamedIn(window') \subseteq NamedIn(p.locked) \cup NamedIn(p.fresh) \cup ToSet(names)
  BY <1>6, <1>7, <1>10, PassHas
<1>12. ToSet(names) \subseteq ToSet(pool')
  BY <1>9, <1>10
<1>13. /\ durable \subseteq durable' /\ durable' \subseteq 1 .. said
       /\ folds \subseteq folds' /\ folds' \subseteq (1 .. MaxSessions) \X (1 .. said)
       /\ ToSet(ids) \subseteq Restorable'
  <2>1. Archive(ids) /\ ToSet(ids) \subseteq 1 .. said /\ session' = session
    BY <1>2, <1>3, <1>6, <1>7, <1>8
  <2> QED
    BY <2>1, ArchiveHas
<1>14. KnowsStill
  <2>1. TurnsOf(window) \subseteq TurnsOf(window') \cup ToSet(pool')
    BY <1>5, <1>9, <1>11
  <2>2. NamedIn(window) \cup ToSet(pool) \subseteq ToSet(pool')
    BY <1>5, <1>9
  <2> QED
    BY <2>1, <2>2 DEF KnowsStill, Known
<1>15. /\ settled' \in Seq(Items) /\ faults' \in 0 .. MaxFaults
       /\ TurnsOf(window') \subseteq TurnsOf(window)
       /\ ToSet(pool') \subseteq ToSet(pool) \cup NamedIn(window) \cup TurnsOf(window)
       /\ NamedIn(window') \subseteq ToSet(pool')
       /\ gone \subseteq gone' /\ gone' \subseteq gone \cup TurnsOf(window)
       /\ TurnsOf(window) \subseteq TurnsOf(window') \cup gone' \cup Restorable'
  BY <1>3, <1>5, <1>6, <1>8, <1>9, <1>11, <1>12, <1>13
<1>16. FoldInv'
  BY <1>3, <1>9, <1>11, <1>13, <1>15, PassKeeps
<1> QED
  BY <1>5, <1>11, <1>14, <1>16

LEMMA FoldFailsKeeps ==
    ASSUME SizesOK, FoldInv, FoldFails
    PROVE  FoldInv' /\ KnowsStill
<1> DEFINE plan == Plan
<1>1. PICK p : p = plan
  OBVIOUS
<1>2. PICK kept \in Keepable(p) :
        /\ \E done \in 0 .. Len(FoldedIds(p, kept)) - 1 :
              Archive(SubSeq(FoldedIds(p, kept), 1, done))
        /\ window' = window /\ pool' = p.pool
  BY <1>1 DEF FoldFails, Abandoned
<1>3. /\ UNCHANGED <<said, settled, core, session, gone, restarts>>
      /\ faults < MaxFaults /\ faults' = faults + 1
  BY DEF FoldFails
<1> HIDE DEF plan
<1>4. EngineOK /\ NamesListed /\ p = Plan
  BY <1>1 DEF FoldInv, plan
<1>5. /\ NamedIn(window) \subseteq ToSet(p.pool) /\ ToSet(pool) \subseteq ToSet(p.pool)
      /\ ToSet(p.pool) \subseteq ToSet(pool) \cup NamedIn(window)
  BY <1>4, PlanHas
<1>6. /\ p.locked \in Seq(Items) /\ p.fresh \in Seq(Items) /\ p.pool \in Seq(Nat)
      /\ TurnsOf(p.fresh) \subseteq 1 .. said /\ TurnsOf(p.fresh) \subseteq Nat
      /\ window \in Seq(Items) /\ settled \in Seq(Items)
      /\ faults \in 0 .. MaxFaults
  BY <1>4, PlanFacts
<1>7. PICK ids : ids = FoldedIds(p, kept)
  OBVIOUS
<1>8. ids \in Seq(Nat) /\ ToSet(ids) \subseteq TurnsOf(p.fresh)
  BY <1>6, <1>7, PassHas, <<>> \in Seq(Nat)
<1>9. PICK done \in 0 .. Len(ids) - 1 : Archive(SubSeq(ids, 1, done))
  BY <1>2, <1>7
<1>10. ToSet(SubSeq(ids, 1, done)) \subseteq ToSet(ids)
  <2> DEFINE part == SubSeq(ids, 1, done)
  <2>1. \A i \in DOMAIN part : i \in DOMAIN ids /\ part[i] = ids[i]
    BY <1>8
  <2> HIDE DEF part
  <2>2. ToSet(part) \subseteq ToSet(ids)
    BY <2>1 DEF ToSet
  <2> QED
    BY <2>2 DEF part
<1>11. /\ durable \subseteq durable' /\ durable' \subseteq 1 .. said
       /\ folds \subseteq folds' /\ folds' \subseteq (1 .. MaxSessions) \X (1 .. said)
  BY <1>6, <1>8, <1>9, <1>10, ArchiveHas
<1>12. KnowsStill
  BY <1>2, <1>5 DEF KnowsStill, Known
<1>13. /\ window' \in Seq(Items) /\ settled' \in Seq(Items) /\ pool' \in Seq(Nat)
       /\ faults' \in 0 .. MaxFaults
       /\ TurnsOf(window') \subseteq TurnsOf(window)
       /\ ToSet(pool') \subseteq ToSet(pool) \cup NamedIn(window) \cup TurnsOf(window)
       /\ NamedIn(window') \subseteq ToSet(pool')
       /\ gone \subseteq gone' /\ gone' \subseteq gone \cup TurnsOf(window)
       /\ TurnsOf(window) \subseteq TurnsOf(window') \cup gone' \cup Restorable'
  BY <1>2, <1>3, <1>5, <1>6 DEF SizesOK
<1>14. FoldInv'
  BY <1>3, <1>11, <1>13, PassKeeps
<1> QED
  BY <1>12, <1>14

LEMMA LateFailureKeeps ==
    ASSUME SizesOK, FoldInv, LateFailure
    PROVE  FoldInv' /\ KnowsStill
<1> DEFINE plan == Plan
<1>1. PICK p : p = plan
  OBVIOUS
<1>2. PICK kept \in Keepable(p) :
        /\ Archive(FoldedIds(p, kept))
        /\ Heuristic(p.pool \o FoldedIds(p, kept))
  BY <1>1 DEF LateFailure
<1>3. /\ UNCHANGED <<said, settled, core, session, restarts>>
      /\ faults < MaxFaults /\ faults' = faults + 1
      /\ Len(window) > ProtectFirst + ProtectLast
  BY DEF LateFailure
<1> HIDE DEF plan
<1>4. EngineOK /\ NamesListed /\ p = Plan
  BY <1>1 DEF FoldInv, plan
<1>5. /\ NamedIn(window) \subseteq ToSet(p.pool) /\ ToSet(pool) \subseteq ToSet(p.pool)
      /\ ToSet(p.pool) \subseteq ToSet(pool) \cup NamedIn(window)
      /\ TurnsOf(p.fresh) \subseteq TurnsOf(window)
  BY <1>4, PlanHas
<1>6. /\ p.locked \in Seq(Items) /\ p.fresh \in Seq(Items) /\ p.pool \in Seq(Nat)
      /\ TurnsOf(p.fresh) \subseteq 1 .. said /\ TurnsOf(p.fresh) \subseteq Nat
      /\ settled \in Seq(Items)
      /\ faults \in 0 .. MaxFaults
  BY <1>4, PlanFacts
<1>7. PICK ids : ids = FoldedIds(p, kept)
  OBVIOUS
<1>8. ids \in Seq(Nat) /\ ToSet(ids) \subseteq TurnsOf(p.fresh)
  BY <1>6, <1>7, PassHas, <<>> \in Seq(Nat)
<1>9. PICK base \in Seq(Nat) : base = p.pool \o ids /\ ToSet(base) = ToSet(p.pool) \cup ToSet(ids)
  BY <1>6, <1>8, ToSetJoined
<1>10. /\ window' \in Seq(Items) /\ pool' = base
       /\ TurnsOf(window') \subseteq TurnsOf(window)
       /\ NamedIn(window') \subseteq NamedIn(window)
       /\ TurnsOf(window) \subseteq TurnsOf(window') \cup gone'
       /\ gone \subseteq gone' /\ gone' \subseteq gone \cup TurnsOf(window)
  BY <1>2, <1>3, <1>4, <1>7, <1>9, HeuristicHas
<1>11. /\ durable \subseteq durable' /\ durable' \subseteq 1 .. said
       /\ folds \subseteq folds' /\ folds' \subseteq (1 .. MaxSessions) \X (1 .. said)
  BY <1>2, <1>6, <1>7, <1>8, ArchiveHas
<1>12. KnowsStill
  BY <1>5, <1>9, <1>10 DEF KnowsStill, Known
<1>13. /\ settled' \in Seq(Items) /\ pool' \in Seq(Nat)
       /\ faults' \in 0 .. MaxFaults
       /\ ToSet(pool') \subseteq ToSet(pool) \cup NamedIn(window) \cup TurnsOf(window)
       /\ NamedIn(window') \subseteq ToSet(pool')
       /\ TurnsOf(window) \subseteq TurnsOf(window') \cup gone' \cup Restorable'
  BY <1>3, <1>5, <1>6, <1>8, <1>9, <1>10 DEF SizesOK
<1>14. FoldInv'
  BY <1>3, <1>10, <1>11, <1>13, PassKeeps
<1> QED
  BY <1>12, <1>14

LEMMA CompressWithoutKeeps ==
    ASSUME SizesOK, FoldInv, CompressWithout
    PROVE  FoldInv'
<1>1. /\ Len(window) > ProtectFirst + ProtectLast /\ Heuristic(pool)
      /\ UNCHANGED <<said, settled, core, session, restarts>> /\ faults' = faults
      /\ durable' = durable /\ folds' = folds
  BY DEF CompressWithout, store
<1>2. EngineOK /\ NamesListed
  BY DEF FoldInv
<1>3. /\ settled \in Seq(Items) /\ pool \in Seq(Nat) /\ faults \in 0 .. MaxFaults
      /\ durable \subseteq 1 .. said /\ folds \subseteq (1 .. MaxSessions) \X (1 .. said)
  BY <1>2 DEF EngineOK, TypeOK
<1>4. /\ window' \in Seq(Items) /\ pool' = pool
      /\ TurnsOf(window') \subseteq TurnsOf(window)
      /\ NamedIn(window') \subseteq NamedIn(window)
      /\ TurnsOf(window) \subseteq TurnsOf(window') \cup gone'
      /\ gone \subseteq gone' /\ gone' \subseteq gone \cup TurnsOf(window)
  BY <1>1, <1>2, <1>3, HeuristicHas
<1>5. \/ NamedIn(window') \subseteq ToSet(pool')
      \/ pool' = <<>> /\ settled' = <<>> /\ NamedIn(window') \subseteq NamedIn(window)
  BY <1>1, <1>2, <1>4 DEF NamesListed
<1>6. /\ settled' \in Seq(Items) /\ pool' \in Seq(Nat)
      /\ faults' \in 0 .. MaxFaults
      /\ ToSet(pool') \subseteq ToSet(pool) \cup NamedIn(window) \cup TurnsOf(window)
      /\ durable \subseteq durable' /\ durable' \subseteq 1 .. said
      /\ folds \subseteq folds' /\ folds' \subseteq (1 .. MaxSessions) \X (1 .. said)
      /\ TurnsOf(window) \subseteq TurnsOf(window') \cup gone' \cup Restorable'
  BY <1>1, <1>3, <1>4
<1> QED
  BY <1>1, <1>4, <1>5, <1>6, PassKeeps

LEMMA PreflightKeeps ==
    ASSUME SizesOK, FoldInv, Preflight
    PROVE  FoldInv' /\ KnowsStill
<1> DEFINE middle == SubSeq(window, ProtectFirst + 1, Len(window) - ProtectLast)
<1>1. /\ UNCHANGED <<window, said, settled, pool, core, session, gone, restarts>>
      /\ faults' = faults /\ folds' = folds
  BY DEF Preflight
<1>2. PICK ids \in SUBSET TurnsOf(middle) : durable' = durable \cup ids
  BY DEF Preflight
<1>3. EngineOK /\ NamesListed
  BY DEF FoldInv
<1>4. /\ window \in Seq(Items) /\ settled \in Seq(Items) /\ pool \in Seq(Nat)
      /\ faults \in 0 .. MaxFaults
      /\ TurnsOf(window) \subseteq 1 .. said
      /\ durable \subseteq 1 .. said /\ folds \subseteq (1 .. MaxSessions) \X (1 .. said)
  BY <1>3 DEF EngineOK, TypeOK
<1>5. TurnsOf(middle) \subseteq TurnsOf(window)
  <2> DEFINE n == Len(window)
             from == ProtectFirst + 1
             to == n - ProtectLast
  <2>1. n \in Nat /\ from \in Int /\ to \in Int /\ from >= 1 /\ to <= n /\ DOMAIN window = 1 .. n
    BY <1>4 DEF SizesOK
  <2>2. \A i \in DOMAIN middle : from + i - 1 \in DOMAIN window /\ middle[i] = window[from + i - 1]
    <3>1. middle = SubSeq(window, from, to)
      OBVIOUS
    <3> HIDE DEF middle, from, to, n
    <3>2. /\ DOMAIN middle = 1 .. to - from + 1
          /\ \A i \in 1 .. to - from + 1 : middle[i] = window[from + i - 1]
      <4>1. \A i \in from .. to : window[i] \in Items
        BY <1>4, <2>1
      <4>2. /\ middle \in Seq(Items) /\ Len(middle) = IF from <= to THEN to - from + 1 ELSE 0
            /\ \A i \in 1 .. to - from + 1 : middle[i] = window[from + i - 1]
        BY <2>1, <3>1, <4>1, SubSeqProperties
      <4> QED
        BY <2>1, <4>2
    <3> QED
      BY <2>1, <3>2
  <2> HIDE DEF middle, from
  <2> QED
    BY <2>2 DEF TurnsOf
<1> HIDE DEF middle
<1>6. KnowsStill
  BY <1>1 DEF KnowsStill, Known
<1>7. \/ NamedIn(window') \subseteq ToSet(pool')
      \/ pool' = <<>> /\ settled' = <<>> /\ NamedIn(window') \subseteq NamedIn(window)
  BY <1>1, <1>3 DEF NamesListed
<1>8. /\ window' \in Seq(Items) /\ settled' \in Seq(Items) /\ pool' \in Seq(Nat)
      /\ faults' \in 0 .. MaxFaults
      /\ TurnsOf(window') \subseteq TurnsOf(window)
      /\ ToSet(pool') \subseteq ToSet(pool) \cup NamedIn(window) \cup TurnsOf(window)
      /\ gone \subseteq gone' /\ gone' \subseteq gone \cup TurnsOf(window)
      /\ durable \subseteq durable' /\ durable' \subseteq 1 .. said
      /\ folds \subseteq folds' /\ folds' \subseteq (1 .. MaxSessions) \X (1 .. said)
      /\ TurnsOf(window) \subseteq TurnsOf(window') \cup gone' \cup Restorable'
  BY <1>1, <1>2, <1>4, <1>5
<1>9. FoldInv'
  BY <1>1, <1>7, <1>8, PassKeeps
<1> QED
  BY <1>6, <1>9

LEMMA SayKeeps ==
    ASSUME SizesOK, FoldInv, Say
    PROVE  FoldInv'
<1>1. /\ said < MaxTurns /\ said' = said + 1 /\ window' = Append(window, Turn(said + 1))
      /\ UNCHANGED <<settled, pool, core, session, gone, faults, restarts, durable, folds>>
  BY DEF Say, store
<1>2. EngineOK /\ NamesListed /\ NoneVanished
  BY DEF FoldInv
<1>3. /\ window \in Seq(Items) /\ settled \in Seq(Items) /\ pool \in Seq(Nat)
      /\ said \in Nat /\ said' \in Nat /\ said < said' /\ said' <= MaxTurns
  BY <1>1, <1>2 DEF EngineOK, TypeOK, SizesOK
<1>4. PICK new : new = Turn(said')
  OBVIOUS
<1>5. new \in Items /\ IsTurn(new) /\ new.ids = <<said'>>
  BY <1>3, <1>4 DEF Turn, Items, IsTurn
<1>6. /\ window' \in Seq(Items) /\ DOMAIN window' = 1 .. Len(window) + 1
      /\ \A i \in DOMAIN window : window'[i] = window[i]
      /\ window'[Len(window) + 1] = new
      /\ Len(window) \in Nat /\ DOMAIN window = 1 .. Len(window)
  BY <1>1, <1>3, <1>4, <1>5
<1>7. TurnsOf(window') = TurnsOf(window) \cup {said'}
  <2>1. ASSUME NEW i \in DOMAIN window' PROVE i \in DOMAIN window \/ window'[i] = new
    BY <1>6
  <2>2. \A i \in DOMAIN window : i \in DOMAIN window'
    BY <1>6
  <2>3. Len(window) + 1 \in DOMAIN window'
    BY <1>6
  <2>4. new.ids[1] = said'
    BY <1>5
  <2>5. TurnsOf(window') \subseteq TurnsOf(window) \cup {said'}
    BY <1>6, <2>1, <2>4 DEF TurnsOf
  <2>6. TurnsOf(window) \subseteq TurnsOf(window')
    BY <1>6, <2>2 DEF TurnsOf
  <2>7. said' \in TurnsOf(window')
    BY <1>5, <1>6, <2>3, <2>4 DEF TurnsOf
  <2> QED
    BY <2>5, <2>6, <2>7
<1>8. NamedIn(window') \subseteq NamedIn(window)
  <2>1. ASSUME NEW i \in DOMAIN window', ~IsTurn(window'[i])
        PROVE  i \in DOMAIN window /\ window'[i] = window[i]
    BY <1>5, <1>6, <2>1
  <2> QED
    BY <2>1 DEF NamedIn
<1>9. 1 .. said' = (1 .. said) \cup {said'}
  BY <1>1, <1>3
<1>10. EngineOK'
  <2>1. /\ TurnsOf(window') \subseteq 1 .. said'
        /\ NamedIn(window') \cup ToSet(pool') \subseteq 1 .. said'
        /\ durable' \subseteq 1 .. said' /\ gone' \subseteq 1 .. said'
        /\ folds' \subseteq (1 .. MaxSessions) \X (1 .. said')
    BY <1>1, <1>2, <1>7, <1>8, <1>9 DEF EngineOK, TypeOK
  <2>2. /\ said' \in 0 .. MaxTurns /\ core' \in BOOLEAN /\ session' \in 1 .. MaxSessions
        /\ faults' \in 0 .. MaxFaults /\ restarts' \in 0 .. MaxRestarts
    BY <1>1, <1>2, <1>3 DEF EngineOK, TypeOK, SizesOK
  <2> QED
    BY <1>1, <1>3, <1>6, <2>1, <2>2 DEF EngineOK, TypeOK
<1>11. NamesListed'
  BY <1>1, <1>2, <1>8 DEF NamesListed
<1>12. NoneVanished'
  BY <1>1, <1>2, <1>7, <1>9 DEF NoneVanished, Recoverable
<1> QED
  BY <1>10, <1>11, <1>12 DEF FoldInv

\* Another session of the engine, or another process: what it knew is gone,
\* what is in the window and in the store stays.
LEMMA StartsKeep ==
    ASSUME SizesOK, FoldInv, SessionStart, UNCHANGED <<window, said, gone, durable, folds>>,
           session' \in session .. MaxSessions, restarts' \in 0 .. MaxRestarts
    PROVE  FoldInv'
<1>1. EngineOK /\ NoneVanished
  BY DEF FoldInv
<1>2. settled' = <<>> /\ pool' = <<>>
  BY DEF SessionStart
<1>3. ToSet(<<>>) = {} /\ <<>> \in Seq(Items) /\ <<>> \in Seq(Nat)
  BY DEF ToSet
<1>4. core' \in BOOLEAN /\ faults' \in 0 .. MaxFaults
  <2>1. faults \in 0 .. MaxFaults /\ MaxFaults \in Nat
    BY <1>1 DEF EngineOK, TypeOK, SizesOK
  <2>2. \/ core' = TRUE /\ faults' = faults
        \/ core' = FALSE /\ faults < MaxFaults /\ faults' = faults + 1
    BY DEF SessionStart
  <2>3. core' \in BOOLEAN
    BY <2>2
  <2>4. faults' \in 0 .. MaxFaults
    BY <2>1, <2>2
  <2> QED
    BY <2>3, <2>4
<1>5. /\ session \in 1 .. MaxSessions /\ session' \in 1 .. MaxSessions
      /\ 1 .. session \subseteq 1 .. session'
  BY <1>1 DEF EngineOK, TypeOK, SizesOK
<1>6. EngineOK'
  BY <1>1, <1>2, <1>3, <1>4, <1>5 DEF EngineOK, TypeOK
<1>7. NamesListed'
  BY <1>2 DEF NamesListed
<1>8. NoneVanished'
  BY <1>1, <1>5 DEF NoneVanished, Recoverable
<1> QED
  BY <1>6, <1>7, <1>8 DEF FoldInv

LEMMA FoldInvInductive ==
    ASSUME SizesOK
    PROVE  /\ Init => FoldInv
           /\ FoldInv /\ [Next]_vars => FoldInv'
           /\ FoldInv /\ Pass /\ core => KnowsStill
<1>1. ASSUME Init PROVE FoldInv
  <2>1. ToSet(<<>>) = {} /\ TurnsOf(<<>>) = {} /\ NamedIn(<<>>) = {}
    BY DEF ToSet, TurnsOf, NamedIn
  <2>2. <<>> \in Seq(Items) /\ <<>> \in Seq(Nat)
    OBVIOUS
  <2>3. TypeOK
    BY <1>1, <2>1 DEF Init, TypeOK, SizesOK
  <2>4. NoneVanished
    BY <1>1 DEF Init, NoneVanished, Recoverable
  <2>5. NamesListed
    BY <1>1 DEF Init, NamesListed
  <2> QED
    BY <1>1, <2>2, <2>3, <2>4, <2>5 DEF Init, FoldInv, EngineOK
<1>2. ASSUME FoldInv, [Next]_vars PROVE FoldInv'
  <2>1. CASE UNCHANGED vars
    BY <1>2, <2>1 DEF vars, FoldInv, EngineOK, TypeOK, NamesListed, NoneVanished, Recoverable, TurnsOf,
       NamedIn
  <2>2. CASE NothingToFold
    BY <1>2, <2>2, NothingToFoldKeeps
  <2>3. CASE Compress
    BY <1>2, <2>3, CompressKeeps
  <2>4. CASE FoldFails
    BY <1>2, <2>4, FoldFailsKeeps
  <2>5. CASE LateFailure
    BY <1>2, <2>5, LateFailureKeeps
  <2>6. CASE CompressWithout
    BY <1>2, <2>6, CompressWithoutKeeps
  <2>7. CASE Preflight
    BY <1>2, <2>7, PreflightKeeps
  <2>8. CASE Reinit
    <3>1. /\ core' = TRUE
          /\ UNCHANGED <<window, said, settled, pool, session, gone, faults, restarts, durable, folds>>
      BY <2>8 DEF Reinit, store
    <3>2. EngineOK /\ NamesListed /\ NoneVanished
      BY <1>2 DEF FoldInv
    <3>3. core' \in BOOLEAN
      BY <3>1
    <3>4. EngineOK'
      BY <3>1, <3>2, <3>3 DEF EngineOK, TypeOK, TurnsOf, NamedIn
    <3>5. NamesListed'
      BY <3>1, <3>2 DEF NamesListed, NamedIn
    <3>6. NoneVanished'
      BY <3>1, <3>2 DEF NoneVanished, Recoverable, TurnsOf
    <3> QED
      BY <3>4, <3>5, <3>6 DEF FoldInv
  <2>9. CASE Say
    BY <1>2, <2>9, SayKeeps
  <2>10. CASE Rotate
    <3>1. /\ SessionStart /\ UNCHANGED <<window, said, gone, durable, folds>>
          /\ session < MaxSessions /\ session' = session + 1 /\ restarts' = restarts
      BY <2>10 DEF Rotate, store
    <3>2. session' \in session .. MaxSessions /\ restarts' \in 0 .. MaxRestarts
      BY <1>2, <3>1 DEF FoldInv, EngineOK, TypeOK, SizesOK
    <3> QED
      BY <1>2, <3>1, <3>2, StartsKeep
  <2>11. CASE Restart
    <3>1. /\ SessionStart /\ UNCHANGED <<window, said, gone, durable, folds>>
          /\ restarts < MaxRestarts /\ session' = session /\ restarts' = restarts + 1
      BY <2>11 DEF Restart, store
    <3>2. session' \in session .. MaxSessions /\ restarts' \in 0 .. MaxRestarts
      BY <1>2, <3>1 DEF FoldInv, EngineOK, TypeOK, SizesOK
    <3> QED
      BY <1>2, <3>1, <3>2, StartsKeep
  <2> QED
    BY <1>2, <2>1, <2>2, <2>3, <2>4, <2>5, <2>6, <2>7, <2>8, <2>9, <2>10, <2>11 DEF Next, Pass
<1>3. ASSUME FoldInv, Pass, core PROVE KnowsStill
  <2>1. CASE NothingToFold
    BY <1>3, <2>1, NothingToFoldKeeps
  <2>2. CASE Compress
    BY <1>3, <2>2, CompressKeeps
  <2>3. CASE FoldFails
    BY <1>3, <2>3, FoldFailsKeeps
  <2>4. CASE LateFailure
    BY <1>3, <2>4, LateFailureKeeps
  <2>5. CASE CompressWithout
    BY <1>3, <2>5 DEF CompressWithout
  <2>6. CASE Preflight
    BY <1>3, <2>6, PreflightKeeps
  <2> QED
    BY <1>3, <2>1, <2>2, <2>3, <2>4, <2>5, <2>6 DEF Pass
<1> QED
  BY <1>1, <1>2, <1>3

\* I17 for every budget and every number of turns kept: whatever was said is in
\* the window, or can be restored from what some session folded, or went in a
\* pass that had no store and said so (compress, _ensure_durable, _fold).
THEOREM TurnsNeverVanish ==
    ASSUME SizesOK
    PROVE  Spec => []NothingVanishes
<1>1. Init => FoldInv
  BY FoldInvInductive
<1>2. FoldInv /\ [Next]_vars => FoldInv'
  BY FoldInvInductive
<1>3. FoldInv => NothingVanishes
  BY DEF FoldInv, EngineOK, NothingVanishes
<1> QED
  BY <1>1, <1>2, <1>3, PTL DEF Spec

\* A pass lands within its budget, leaves the settled prefix as it is when it
\* extends it, and forgets none of the folded turns it knew of.
THEOREM PassesFoldNeatly ==
    ASSUME SizesOK
    PROVE  Spec => FoldsNeatly
<1>1. Init => FoldInv
  BY FoldInvInductive
<1>2. FoldInv /\ [Next]_vars => FoldInv'
  BY FoldInvInductive
<1>3. FoldInv /\ [Next]_vars => [Compress => Len(window') <= Budget]_vars
  BY CompressKeeps
<1>4. FoldInv /\ [Next]_vars
        => [Compress /\ ~RebaseAt(MatchLocked)
               => IsPrefix(SubSeq(window, 1, MatchLocked), window')]_vars
  BY CompressKeeps
<1>5. FoldInv /\ [Next]_vars => [Pass /\ core => \A n \in Known : n \in Known' \/ n \in gone']_vars
  BY FoldInvInductive DEF KnowsStill
<1> QED
  BY <1>1, <1>2, <1>3, <1>4, <1>5, PTL DEF Spec, FoldsNeatly, WithinBudget, PrefixStays, RemembersFolds

-----------------------------------------------------------------------------
(* Retraction *)

(* What of an event shows that the user said a belief.                      *)
Shows(e, b) == e \in DOMAIN log /\ Clean!Says(e, b)

\* Events are numbered in order, and beliefs rest on events of the log.
LogGrows ==
    /\ log \in Seq(SUBSET Facts)
    /\ belief \in [Clean!RowKeys -> [active : BOOLEAN, channels : SUBSET Clean!Channels,
                               just : SUBSET DOMAIN log, prov : SUBSET DOMAIN log]]

\* What the script has read by now is of the log, and as the log has it.
ReadTrue ==
    /\ pc \in {"humans", "justifications", "facts", "episodes", "group", "append", "done", "idle"}
    /\ pc \in {"justifications", "facts", "episodes", "group", "append"} =>
          /\ DOMAIN human \subseteq DOMAIN log
          /\ \A e \in DOMAIN human : human[e] = (log[e] # {})
    /\ todo \subseteq Clean!RowKeys
    /\ pc \in {"humans", "justifications", "facts"} => todo = {}

\* A belief the user had said: what shows it is there at every reading.
ToldSafe(b) ==
    /\ b \in Clean!RowKeys /\ belief[b].active
    /\ pc = "humans" => Clean!Supported(b)
    /\ pc = "justifications" =>
          \E e \in Clean!Observed(b, Clean!Justified) \cap DOMAIN human : human[e] /\ Clean!Says(e, b)
    /\ pc \in {"facts", "episodes"} => Clean!Judged(b)
    /\ pc # "idle" => b \notin todo

\* The tables scanned by now.
Scanned == CASE pc = "episodes" -> Facts
             [] pc \in {"group", "append", "done"} -> Clean!RowKeys
             [] OTHER -> {}

\* A belief that was due and was left alone still is, until it is retracted.
UnsaidDue(b) ==
    /\ b \in Clean!RowKeys /\ Clean!OnlyExtracted(b)
    /\ pc # "idle" /\ belief[b].active =>
          /\ \A e \in Clean!Observed(b, Clean!Justified) : ~Clean!Says(e, b)
          /\ pc \in {"facts", "episodes"} => \A e \in just[b] : e \in DOMAIN log /\ ~Clean!Says(e, b)
    /\ pc # "idle" /\ b \in Scanned => b \in todo \/ ~belief[b].active

RetractInv ==
    /\ LogGrows /\ ReadTrue
    /\ \A b \in told : ToldSafe(b)
    /\ \A b \in unsaid : UnsaidDue(b)
    /\ pc = "done" => todo = {}

LEMMA SameCount ==
    ASSUME NEW S
    PROVE  Clean!Cardinality(S) = Cardinality(S)
BY DEF Clean!Cardinality, Cardinality

LEMMA RetractInit == ASSUME Captured \in Nat, Clean!Init PROVE RetractInv
<1>1. log \in Seq(SUBSET Facts) /\ DOMAIN log = 1 .. Len(log)
  BY DEF Clean!Init
<1>2. PICK support \in [Clean!RowKeys -> {s \in SUBSET DOMAIN log : Clean!Cardinality(s) <= 1}],
           vouched \in {s \in SUBSET Clean!RowKeys : Clean!Cardinality(s) <= 1},
           assertedOnly \in BOOLEAN :
        belief = [b \in Clean!RowKeys |->
                    [active |-> TRUE,
                     channels |-> IF b \in vouched THEN Clean!Channels ELSE {"transcript"},
                     just |-> IF assertedOnly THEN {} ELSE support[b],
                     prov |-> IF assertedOnly THEN support[b] ELSE {}]]
  BY DEF Clean!Init
<1>3. belief \in [Clean!RowKeys -> [active : BOOLEAN, channels : SUBSET Clean!Channels,
                              just : SUBSET DOMAIN log, prov : SUBSET DOMAIN log]]
  BY <1>2 DEF Clean!Channels
<1>4. pc = "humans" /\ todo = {}
  BY DEF Clean!Init
<1>5. LogGrows /\ ReadTrue
  BY <1>1, <1>3, <1>4 DEF LogGrows, ReadTrue
<1>6. \A b \in told : ToldSafe(b)
  BY <1>4 DEF Clean!Init, Clean!Told, ToldSafe
<1>7. \A b \in unsaid : UnsaidDue(b)
  BY <1>3, <1>4 DEF Clean!Init, Clean!Due, UnsaidDue, Clean!Supported, Clean!Observed,
     Clean!Justified, Scanned
<1> QED
  BY <1>4, <1>5, <1>6, <1>7 DEF RetractInv

LEMMA LogFacts ==
    ASSUME LogGrows, NEW words \in SUBSET Facts, log' = Append(log, words)
    PROVE  /\ log' \in Seq(SUBSET Facts) /\ DOMAIN log \subseteq DOMAIN log'
           /\ DOMAIN log' = DOMAIN log \cup {Len(log) + 1} /\ Len(log) + 1 \notin DOMAIN log
           /\ \A e \in DOMAIN log : log'[e] = log[e]
BY DEF LogGrows

LEMMA LogCounted ==
    ASSUME LogGrows
    PROVE  Clean!NextEvent = Len(log) + 1
<1>1. DOMAIN log = 1 .. Len(log) /\ Len(log) \in Nat
  BY DEF LogGrows
<1>2. Clean!NextEvent = Clean!Cardinality(DOMAIN log) + 1
  BY DEF Clean!NextEvent
<1>3. Clean!Cardinality(DOMAIN log) = Cardinality(DOMAIN log)
  BY SameCount
<1>4. Cardinality(1 .. Len(log)) = Len(log)
  <2>1. CASE Len(log) = 0
    <3>1. 1 .. Len(log) = {}
      BY <2>1
    <3> QED
      BY <2>1, <3>1, FS_EmptySet
  <2>2. CASE Len(log) # 0
    BY <1>1, <2>2, FS_Interval
  <2> QED
    BY <2>1, <2>2
<1> QED
  BY <1>1, <1>2, <1>3, <1>4

\* A turn of the agent adds events and support, and leaves what was read.
LEMMA AgentStep == ASSUME RetractInv, Clean!AgentTurn PROVE RetractInv'
<1> PICK words \in SUBSET Facts, c \in Clean!RowKeys :
       /\ log' = Append(log, words)
       /\ belief' = [belief EXCEPT ![c] = [active |-> TRUE,
                        channels |-> IF @.active THEN @.channels \cup {"transcript"}
                                     ELSE {"transcript"},
                        just |-> @.just \cup {Clean!NextEvent}, prov |-> @.prov \cup {Clean!NextEvent}]]
       /\ unsaid' = unsaid \ {c}
  BY DEF Clean!AgentTurn
<1>1. /\ pc' = pc /\ human' = human /\ just' = just /\ todo' = todo /\ told' = told
  BY DEF Clean!AgentTurn, Clean!script
<1>2. LogGrows /\ ReadTrue
  BY DEF RetractInv
<1>3. /\ log' \in Seq(SUBSET Facts) /\ DOMAIN log \subseteq DOMAIN log'
      /\ Clean!NextEvent \in DOMAIN log' /\ Clean!NextEvent \notin DOMAIN log
      /\ \A e \in DOMAIN log : log'[e] = log[e]
  BY <1>2, LogFacts, LogCounted
<1>4. belief' \in [Clean!RowKeys -> [active : BOOLEAN, channels : SUBSET Clean!Channels,
                               just : SUBSET DOMAIN log', prov : SUBSET DOMAIN log']]
  <2>1. \A b \in Clean!RowKeys : belief[b] \in [active : BOOLEAN, channels : SUBSET Clean!Channels,
                               just : SUBSET DOMAIN log', prov : SUBSET DOMAIN log']
    BY <1>2, <1>3 DEF LogGrows
  <2>2. belief'[c] \in [active : BOOLEAN, channels : SUBSET Clean!Channels,
                        just : SUBSET DOMAIN log', prov : SUBSET DOMAIN log']
    BY <1>2, <1>3, <2>1 DEF LogGrows, Clean!Channels
  <2> QED
    BY <1>2, <2>1, <2>2 DEF LogGrows
<1>5. LogGrows'
  BY <1>3, <1>4 DEF LogGrows
<1>6. ReadTrue'
  BY <1>1, <1>2, <1>3 DEF ReadTrue
<1>7. \A b \in Clean!RowKeys : /\ belief[b].just \subseteq belief'[b].just
                               /\ belief[b].prov \subseteq belief'[b].prov
                               /\ belief[b].active => belief'[b].active
                               /\ b # c => belief'[b] = belief[b]
  BY <1>2 DEF LogGrows
<1>8. \A b \in told' : ToldSafe(b)'
  <2> TAKE b \in told'
  <2>1. ToldSafe(b) /\ b \in Clean!RowKeys
    BY <1>1 DEF RetractInv, ToldSafe
  <2>2. pc = "humans" => Clean!Supported(b)'
    <3> SUFFICES ASSUME pc = "humans" PROVE Clean!Supported(b)'
      OBVIOUS
    <3> PICK e \in Clean!Observed(b, Clean!Justified) \cap DOMAIN log : Clean!Says(e, b)
      BY <2>1 DEF ToldSafe, Clean!Supported
    <3>1. e \in Clean!Observed(b, Clean!Justified)' /\ e \in DOMAIN log'
      BY <1>3, <1>7, <2>1 DEF Clean!Observed, Clean!Justified
    <3>2. Clean!Says(e, b)'
      BY <1>3 DEF Clean!Says
    <3> QED
      BY <3>1, <3>2 DEF Clean!Supported
  <2>3. pc = "justifications" =>
          \E e \in (Clean!Observed(b, Clean!Justified))' \cap DOMAIN human : human[e] /\ Clean!Says(e, b)'
    <3> SUFFICES ASSUME pc = "justifications"
                 PROVE \E e \in (Clean!Observed(b, Clean!Justified))' \cap DOMAIN human : human[e] /\ Clean!Says(e, b)'
      OBVIOUS
    <3> PICK e \in Clean!Observed(b, Clean!Justified) \cap DOMAIN human : human[e] /\ Clean!Says(e, b)
      BY <2>1 DEF ToldSafe
    <3>1. e \in (Clean!Observed(b, Clean!Justified))' /\ e \in DOMAIN log
      BY <1>2, <1>7, <2>1 DEF Clean!Observed, Clean!Justified, ReadTrue
    <3>2. Clean!Says(e, b)'
      BY <1>3, <3>1 DEF Clean!Says
    <3> QED
      BY <3>1, <3>2
  <2>4. pc \in {"facts", "episodes"} => Clean!Judged(b)'
    <3> SUFFICES ASSUME pc \in {"facts", "episodes"} PROVE Clean!Judged(b)'
      OBVIOUS
    <3> PICK e \in Clean!Observed(b, just) \cap DOMAIN human : human[e] /\ Clean!Says(e, b)
      BY <2>1 DEF ToldSafe, Clean!Judged
    <3>1. e \in Clean!Observed(b, just)' /\ e \in DOMAIN log
      BY <1>1, <1>2, <1>7, <2>1 DEF Clean!Observed, ReadTrue
    <3>2. Clean!Says(e, b)'
      BY <1>3, <3>1 DEF Clean!Says
    <3> QED
      BY <1>1, <3>1, <3>2 DEF Clean!Judged
  <2> QED
    BY <1>1, <1>7, <2>1, <2>2, <2>3, <2>4 DEF ToldSafe
<1>9. \A b \in unsaid' : UnsaidDue(b)'
  <2> TAKE b \in unsaid'
  <2>1. UnsaidDue(b) /\ b \in Clean!RowKeys /\ b # c
    BY DEF RetractInv, UnsaidDue
  <2>2. belief'[b] = belief[b] /\ Clean!OnlyExtracted(b)'
    BY <1>7, <2>1 DEF UnsaidDue, Clean!OnlyExtracted
  <2>3. \A e \in DOMAIN log : Clean!Says(e, b)' = Clean!Says(e, b)
    BY <1>3 DEF Clean!Says
  <2>4. /\ Clean!Observed(b, Clean!Justified)' = Clean!Observed(b, Clean!Justified)
        /\ Clean!Observed(b, Clean!Justified) \subseteq DOMAIN log
    BY <1>2, <2>1, <2>2 DEF Clean!Observed, Clean!Justified, LogGrows
  <2>5. Scanned' = Scanned
    BY <1>1 DEF Scanned
  <2> QED
    BY <1>1, <2>1, <2>2, <2>3, <2>4, <2>5 DEF UnsaidDue
<1> QED
  BY <1>1, <1>5, <1>6, <1>8, <1>9 DEF RetractInv

\* The first pass sees in the log what shows that a belief was said.
LEMMA HumansStep == ASSUME RetractInv, Clean!HumanEvents PROVE RetractInv'
<1>1. /\ pc = "humans" /\ pc' = "justifications" /\ human' = [e \in DOMAIN log |-> log[e] # {}]
      /\ log' = log /\ belief' = belief /\ todo' = todo /\ told' = told /\ unsaid' = unsaid
  BY DEF Clean!HumanEvents, Clean!agent
<1>2. LogGrows' /\ ReadTrue'
  BY <1>1 DEF RetractInv, LogGrows, ReadTrue
<1>3. \A b \in told' : ToldSafe(b)'
  <2> TAKE b \in told'
  <2>1. ToldSafe(b) /\ Clean!Supported(b) /\ b \in Clean!RowKeys
    BY <1>1 DEF RetractInv, ToldSafe
  <2> PICK e \in Clean!Observed(b, Clean!Justified) \cap DOMAIN log : Clean!Says(e, b)
    BY <2>1 DEF Clean!Supported
  <2>2. e \in Clean!Observed(b, Clean!Justified)' /\ Clean!Says(e, b)'
    BY <1>1 DEF Clean!Observed, Clean!Justified, Clean!Says
  <2>3. e \in DOMAIN human' /\ human'[e]
    BY <1>1, <2>1 DEF Clean!Says
  <2> QED
    BY <1>1, <2>1, <2>2, <2>3 DEF ToldSafe
<1>4. \A b \in unsaid' : UnsaidDue(b)'
  BY <1>1 DEF RetractInv, UnsaidDue, Clean!OnlyExtracted, Clean!Observed, Clean!Justified,
     Clean!Says, Scanned
<1> QED
  BY <1>1, <1>2, <1>3, <1>4 DEF RetractInv

LEMMA JustificationsStep == ASSUME RetractInv, Clean!JustificationMap PROVE RetractInv'
<1>1. /\ pc = "justifications" /\ pc' = "facts" /\ just' = Clean!Justified /\ human' = human
      /\ log' = log /\ belief' = belief /\ todo' = todo /\ told' = told /\ unsaid' = unsaid
  BY DEF Clean!JustificationMap, Clean!agent
<1>2. LogGrows' /\ ReadTrue'
  BY <1>1 DEF RetractInv, LogGrows, ReadTrue
<1>3. \A b \in told' : ToldSafe(b)'
  BY <1>1 DEF RetractInv, ToldSafe, Clean!Judged, Clean!Observed, Clean!Says
<1>4. \A b \in unsaid' : UnsaidDue(b)'
  <2> TAKE b \in unsaid'
  <2>1. UnsaidDue(b)
    BY <1>1 DEF RetractInv
  <2>2. belief[b].active => \A e \in Clean!Justified[b] : e \in DOMAIN log /\ ~Clean!Says(e, b)
    BY <1>1, <2>1 DEF UnsaidDue, Clean!Observed, Clean!Justified, RetractInv, LogGrows
  <2>3. /\ Clean!OnlyExtracted(b)'
        /\ Clean!Observed(b, Clean!Justified)' = Clean!Observed(b, Clean!Justified)
        /\ \A e : Clean!Says(e, b)' = Clean!Says(e, b)
    BY <1>1, <2>1 DEF UnsaidDue, Clean!OnlyExtracted, Clean!Observed, Clean!Justified, Clean!Says
  <2> QED
    BY <1>1, <2>1, <2>2, <2>3 DEF UnsaidDue, Scanned
<1> QED
  BY <1>1, <1>2, <1>3, <1>4 DEF RetractInv

\* A row that was said is judged so, and one that is due is not.
LEMMA ScanStep == ASSUME RetractInv, NEW k \in 1 .. 2, Clean!ScanTable(k) PROVE RetractInv'
<1>1. /\ pc = <<"facts", "episodes">>[k] /\ pc' = <<"episodes", "group">>[k]
      /\ todo' = todo \cup {b \in Clean!Tables[k] :
                               belief[b].active /\ Clean!OnlyExtracted(b) /\ ~Clean!Judged(b)}
      /\ just' = just /\ human' = human
      /\ log' = log /\ belief' = belief /\ told' = told /\ unsaid' = unsaid
  BY DEF Clean!ScanTable, Clean!agent
<1>2. /\ pc \in {"facts", "episodes"} /\ pc' \in {"episodes", "group"}
      /\ pc' = "episodes" <=> pc = "facts"
      /\ Clean!Tables[k] = IF pc = "facts" THEN Facts ELSE Episodes
      /\ Clean!Tables[k] \subseteq Clean!RowKeys
  BY <1>1 DEF Clean!Tables, Clean!RowKeys
<1>3. LogGrows' /\ ReadTrue'
  BY <1>1, <1>2 DEF RetractInv, LogGrows, ReadTrue
<1>4. \A b \in told' : ToldSafe(b)'
  <2> TAKE b \in told'
  <2>1. ToldSafe(b) /\ Clean!Judged(b) /\ b \in Clean!RowKeys
    BY <1>1, <1>2 DEF RetractInv, ToldSafe
  <2>2. Clean!Judged(b)'
    BY <1>1, <2>1 DEF Clean!Judged, Clean!Observed, Clean!Says
  <2> QED
    BY <1>1, <1>2, <2>1, <2>2 DEF ToldSafe
<1>5. \A b \in unsaid' : UnsaidDue(b)'
  <2> TAKE b \in unsaid'
  <2>1. UnsaidDue(b) /\ b \in Clean!RowKeys
    BY <1>1 DEF RetractInv, UnsaidDue
  <2>2. /\ Clean!OnlyExtracted(b)'
        /\ Clean!Observed(b, Clean!Justified)' = Clean!Observed(b, Clean!Justified)
        /\ \A e : Clean!Says(e, b)' = Clean!Says(e, b)
    BY <1>1, <2>1 DEF UnsaidDue, Clean!OnlyExtracted, Clean!Observed, Clean!Justified, Clean!Says
  <2>3. belief[b].active => ~Clean!Judged(b)
    BY <1>2, <2>1 DEF UnsaidDue, Clean!Judged, Clean!Observed, Clean!Justified
  <2>4. Scanned' = Scanned \cup Clean!Tables[k]
    BY <1>1, <1>2 DEF Scanned, Clean!RowKeys
  <2>5. b \in Scanned' => b \in todo' \/ ~belief'[b].active
    BY <1>1, <1>2, <2>1, <2>3, <2>4 DEF UnsaidDue
  <2> QED
    BY <1>1, <1>2, <2>1, <2>2, <2>5 DEF UnsaidDue
<1> QED
  BY <1>2, <1>3, <1>4, <1>5 DEF RetractInv

\* What a batch retracts leaves the list, and nothing else does.
LEMMA BatchStep == ASSUME RetractInv, Clean!AppendBatch PROVE RetractInv'
<1> PICK ids \in SUBSET todo :
       /\ belief' = [b \in Clean!RowKeys |->
                        IF b \in ids THEN [belief[b] EXCEPT !.active = FALSE, !.just = {}]
                        ELSE belief[b]]
       /\ todo' = todo \ ids
  BY DEF Clean!AppendBatch
<1>1. /\ pc = "append" /\ pc' = pc /\ human' = human /\ just' = just
      /\ log' = log /\ told' = told /\ unsaid' = unsaid
  BY DEF Clean!AppendBatch, Clean!agent
<1>2. LogGrows /\ ReadTrue
  BY DEF RetractInv
<1>3. \A b \in Clean!RowKeys : belief'[b] = IF b \in ids
                           THEN [belief[b] EXCEPT !.active = FALSE, !.just = {}] ELSE belief[b]
  OBVIOUS
<1>4. belief' \in [Clean!RowKeys -> [active : BOOLEAN, channels : SUBSET Clean!Channels,
                               just : SUBSET DOMAIN log, prov : SUBSET DOMAIN log]]
  <2>1. \A b \in Clean!RowKeys : belief[b] \in [active : BOOLEAN, channels : SUBSET Clean!Channels,
                               just : SUBSET DOMAIN log, prov : SUBSET DOMAIN log]
    BY <1>2 DEF LogGrows
  <2> QED
    BY <2>1
<1>5. LogGrows' /\ ReadTrue'
  BY <1>1, <1>2, <1>4 DEF LogGrows, ReadTrue
<1>6. \A b \in told' : ToldSafe(b)'
  <2> TAKE b \in told'
  <2>1. ToldSafe(b) /\ b \in Clean!RowKeys /\ b \notin ids
    BY <1>1 DEF RetractInv, ToldSafe
  <2> QED
    BY <1>1, <1>3, <2>1 DEF ToldSafe
<1>7. \A b \in unsaid' : UnsaidDue(b)'
  <2> TAKE b \in unsaid'
  <2>1. UnsaidDue(b) /\ b \in Clean!RowKeys
    BY <1>1 DEF RetractInv, UnsaidDue
  <2>2. belief'[b].channels = belief[b].channels /\ (belief'[b].active => belief'[b] = belief[b])
        /\ (b \in ids => ~belief'[b].active)
    <3>1. belief[b] \in [active : BOOLEAN, channels : SUBSET Clean!Channels,
                         just : SUBSET DOMAIN log, prov : SUBSET DOMAIN log]
      BY <1>2, <2>1 DEF LogGrows
    <3> QED
      BY <1>3, <2>1, <3>1
  <2>3. Clean!OnlyExtracted(b)' /\ \A e : Clean!Says(e, b)' = Clean!Says(e, b)
    BY <1>1, <2>1, <2>2 DEF UnsaidDue, Clean!OnlyExtracted, Clean!Says
  <2>4. belief'[b].active => Clean!Observed(b, Clean!Justified)' = Clean!Observed(b, Clean!Justified)
    BY <2>1, <2>2 DEF Clean!Observed, Clean!Justified
  <2>5. Scanned' = Clean!RowKeys /\ Scanned = Clean!RowKeys
    BY <1>1 DEF Scanned
  <2>6. b \in todo' \/ ~belief'[b].active
    BY <1>1, <1>3, <2>1, <2>2, <2>5 DEF UnsaidDue
  <2> QED
    BY <1>1, <2>1, <2>2, <2>3, <2>4, <2>5, <2>6 DEF UnsaidDue
<1> QED
  BY <1>1, <1>5, <1>6, <1>7 DEF RetractInv

\* A run that starts over reads everything again.
LEMMA RerunStep == ASSUME RetractInv, Clean!Rerun PROVE RetractInv'
<1>1. /\ pc' = "humans" /\ todo' = {} /\ log' = log /\ belief' = belief
      /\ told' = Clean!Told /\ unsaid' = {b \in Clean!RowKeys : Clean!Due(b)}
  BY DEF Clean!Rerun, Clean!agent
<1>2. LogGrows' /\ ReadTrue'
  BY <1>1 DEF RetractInv, LogGrows, ReadTrue
<1>3. \A b \in told' : ToldSafe(b)'
  <2> TAKE b \in told'
  <2>1. b \in Clean!RowKeys /\ belief[b].active /\ Clean!Supported(b)
    BY <1>1 DEF Clean!Told
  <2>2. Clean!Supported(b)'
    BY <1>1, <2>1 DEF Clean!Supported, Clean!Observed, Clean!Justified, Clean!Says
  <2> QED
    BY <1>1, <2>1, <2>2 DEF ToldSafe
<1>4. \A b \in unsaid' : UnsaidDue(b)'
  BY <1>1 DEF RetractInv, LogGrows, Clean!Due, UnsaidDue, Clean!OnlyExtracted, Clean!Supported,
     Clean!Observed, Clean!Justified,
     Clean!Says, Scanned
<1> QED
  BY <1>1, <1>2, <1>3, <1>4 DEF RetractInv

LEMMA QuietStep ==
    ASSUME RetractInv, Clean!Group \/ Clean!Finish \/ Clean!Locked \/ Clean!Die \/ UNCHANGED Clean!vars
    PROVE  RetractInv'
<1>1. /\ log' = log /\ belief' = belief /\ human' = human /\ just' = just /\ todo' = todo
      /\ told' = told /\ unsaid' = unsaid
      /\ \/ pc' = pc \/ pc' = "idle"
         \/ pc = "group" /\ pc' = "append"
         \/ pc = "append" /\ pc' = "done" /\ todo = {}
  BY DEF Clean!Group, Clean!Finish, Clean!Locked, Clean!Die, Clean!vars, Clean!script, Clean!agent
<1>2. LogGrows' /\ ReadTrue'
  BY <1>1 DEF RetractInv, LogGrows, ReadTrue
<1>3. \A b \in told' : ToldSafe(b)'
  BY <1>1 DEF RetractInv, ToldSafe, Clean!Supported, Clean!Judged, Clean!Observed,
     Clean!Justified, Clean!Says
<1>4. \A b \in unsaid' : UnsaidDue(b)'
  BY <1>1 DEF RetractInv, UnsaidDue, Clean!OnlyExtracted, Clean!Observed, Clean!Justified,
     Clean!Says, Scanned
<1> QED
  BY <1>1, <1>2, <1>3, <1>4 DEF RetractInv

\* However the agent's turns fall between the script's readings and wherever an
\* earlier run died: what the user had said when the run began is kept, and a
\* run that ends has retracted whatever was due and left alone.
THEOREM SaidStays ==
    ASSUME Captured \in Nat
    PROVE  Clean!Spec => []TakesBackUnsaid
<1>1. Clean!Init => RetractInv
  BY RetractInit
<1>2. RetractInv /\ [Clean!Next]_(Clean!vars) => RetractInv'
  BY AgentStep, HumansStep, JustificationsStep, ScanStep, BatchStep, RerunStep, QuietStep
     DEF Clean!Next, Clean!Script
<1>3. RetractInv => TakesBackUnsaid
  BY DEF TakesBackUnsaid, RetractInv, Clean!TakesBackUnsaid, Clean!SaidIsKept, Clean!CleanWhenDone, ToldSafe,
     UnsaidDue, Scanned
<1> QED
  BY <1>1, <1>2, <1>3, PTL DEF Clean!Spec

-----------------------------------------------------------------------------
(* Upkeep of the window *)

\* A value that is built up in steps: the stages of it exist.
Built(S, n, base, step) ==
    \E f \in [0 .. n -> S] : f[0] = base /\ \A i \in 1 .. n : f[i] = step[<<f[i - 1], i>>]

LEMMA Unfolds ==
    ASSUME NEW n \in Nat, NEW S, NEW base \in S, NEW step \in [S \X (1 .. n) -> S]
    PROVE  Built(S, n, base, step)
<1> DEFINE Follows(f, m) == f[0] = base /\ \A i \in 1 .. m : f[i] = step[<<f[i - 1], i>>]
           bad == {m \in 0 .. n : ~ \E f \in [0 .. m -> S] : Follows(f, m)}
<1>1. SUFFICES bad = {}
  <2>1. n \in 0 .. n
    OBVIOUS
  <2> QED
    BY <2>1 DEF Built
<1> SUFFICES ASSUME bad # {} PROVE FALSE
  OBVIOUS
<1>2. bad \in SUBSET Nat
  OBVIOUS
<1>3. PICK m \in bad : \A k \in bad : m <= k
  <2> HIDE DEF bad
  <2> QED
    BY <1>2, LeastNumber
<1>4. m # 0
  <2>1. [i \in 0 .. 0 |-> base] \in [0 .. 0 -> S] /\ Follows([i \in 0 .. 0 |-> base], 0)
    OBVIOUS
  <2> QED
    BY <1>3, <2>1
<1>5. m \in 1 .. n /\ m - 1 \in 0 .. n
  BY <1>3, <1>4
<1>6. m - 1 \notin bad
  <2> HIDE DEF bad
  <2> QED
    BY <1>3, <1>5
<1>7. PICK f \in [0 .. m - 1 -> S] : Follows(f, m - 1)
  BY <1>5, <1>6
<1> DEFINE g == [i \in 0 .. m |-> IF i = m THEN step[<<f[m - 1], m>>] ELSE f[i]]
<1>8. g \in [0 .. m -> S]
  <2>1. m - 1 \in 0 .. m - 1 /\ f[m - 1] \in S /\ step[<<f[m - 1], m>>] \in S
    BY <1>5
  <2>2. \A i \in 0 .. m : i # m => i \in 0 .. m - 1
    BY <1>5
  <2> QED
    BY <2>1, <2>2
<1>9. Follows(g, m)
  <2>1. g[0] = f[0]
    BY <1>5
  <2>2. ASSUME NEW i \in 1 .. m PROVE g[i] = step[<<g[i - 1], i>>]
    <3>1. i - 1 \in 0 .. m /\ i - 1 # m /\ i \in 0 .. m
      BY <1>5
    <3>2. g[i - 1] = f[i - 1]
      BY <3>1
    <3>3. i # m => i \in 1 .. m - 1
      BY <1>5
    <3>4. g[i] = IF i = m THEN step[<<f[m - 1], m>>] ELSE f[i]
      BY <3>1
    <3> QED
      BY <1>7, <3>2, <3>3, <3>4
  <2> QED
    BY <1>7, <2>1, <2>2
<1> QED
  BY <1>3, <1>8, <1>9

\* Every stage of what is built up so is of the kind that the steps keep to.
LEMMA StagesStay ==
    ASSUME NEW n \in Nat, NEW S, NEW g, g[0] \in S,
           \A i \in 1 .. n : g[i - 1] \in S => g[i] \in S
    PROVE  g[n] \in S
<1> DEFINE bad == {m \in 0 .. n : g[m] \notin S}
<1>1. bad = {}
  <2> SUFFICES ASSUME bad # {} PROVE FALSE
    OBVIOUS
  <2>1. PICK m \in bad : \A k \in bad : m <= k
    <3>1. bad \in SUBSET Nat
      OBVIOUS
    <3> HIDE DEF bad
    <3> QED
      BY <3>1, LeastNumber
  <2>2. m \in 1 .. n /\ m - 1 \in 0 .. n
    BY <2>1
  <2>3. m - 1 \notin bad
    <3> HIDE DEF bad
    <3> QED
      BY <2>1, <2>2
  <2> QED
    BY <2>1, <2>2, <2>3
<1>2. n \in 0 .. n
  OBVIOUS
<1> QED
  BY <1>1, <1>2

Sized == /\ Size \in [Results -> Int] /\ Ends \in Int /\ TrimAt \in Int /\ MinReclaim \in Int
         /\ HeadKept \in Nat /\ TailKept \in Nat

Message == {m \in [is : {"talk", "tool", "note"}, of : Results \cup Statements \cup {NoFact},
                   form : {"whole", "ends", "pointer"}] : m.is = "tool" => m.of \in Results}

LEMMA LengthIsNumber ==
    ASSUME Sized, NEW m \in Message
    PROVE  Upkeep!Length(m) \in Int
<1>1. m.is = "tool" => m.of \in Results /\ Size[m.of] \in Int
  BY DEF Sized, Message
<1>2. m.form \in {"whole", "ends", "pointer"}
  BY DEF Message
<1>3. CASE m.is # "tool"
  BY <1>3 DEF Upkeep!Length
<1>4. CASE m.is = "tool" /\ m.form = "whole"
  <2>1. Upkeep!Length(m) = Size[m.of]
    BY <1>4 DEF Upkeep!Length
  <2> QED
    BY <1>1, <1>4, <2>1
<1>5. CASE m.is = "tool" /\ m.form = "ends"
  <2>1. Upkeep!Length(m) = Ends
    BY <1>5 DEF Upkeep!Length
  <2> QED
    BY <2>1 DEF Sized
<1>6. CASE m.is = "tool" /\ m.form = "pointer"
  BY <1>6 DEF Upkeep!Length
<1>7. m.form = "whole" \/ m.form = "ends" \/ m.form = "pointer"
  BY <1>2
<1> QED
  BY <1>3, <1>4, <1>5, <1>6, <1>7, Zenon

LEMMA TextIsLength ==
    ASSUME Sized, NEW w \in Seq(Message)
    PROVE  Upkeep!Text(w) \in Int
<1> DEFINE n == Len(w)
           step == [x \in Int \X (1 .. n) |-> x[1] + Upkeep!Length(w[x[2]])]
           Shape(g) == g = [i \in 0 .. n |-> IF i = 0 THEN 0 ELSE g[i - 1] + Upkeep!Length(w[i])]
           upto == CHOOSE g : Shape(g)
<1>1. \A i \in 1 .. n : Upkeep!Length(w[i]) \in Int
  <2>1. \A i \in 1 .. n : w[i] \in Message
    OBVIOUS
  <2> QED
    BY <2>1, LengthIsNumber
<1>2. n \in Nat /\ step \in [Int \X (1 .. n) -> Int]
  BY <1>1
<1> HIDE DEF n
<1>3. PICK f \in [0 .. n -> Int] : f[0] = 0 /\ \A i \in 1 .. n : f[i] = step[<<f[i - 1], i>>]
  <2> HIDE DEF step
  <2>1. \A z \in Int : Built(Int, n, z, step)
    BY <1>2, Unfolds
  <2>2. 0 \in Int
    OBVIOUS
  <2>3. Built(Int, n, 0, step)
    BY <2>1, <2>2, Zenon
  <2> QED
    BY <2>3, Zenon DEF Built
<1>4. ASSUME NEW i \in 1 .. n PROVE f[i] = f[i - 1] + Upkeep!Length(w[i])
  <2>1. i - 1 \in 0 .. n
    BY <1>2
  <2> QED
    BY <1>3, <2>1
<1>5. Shape(f)
  <2>1. \A i \in 0 .. n : i = 0 \/ i \in 1 .. n
    BY <1>2
  <2>2. \A i \in 0 .. n : f[i] = IF i = 0 THEN 0 ELSE f[i - 1] + Upkeep!Length(w[i])
    BY <1>3, <1>4, <2>1
  <2> QED
    BY <1>3, <2>2
<1>6. Shape(upto)
  BY <1>5, Zenon
<1>7. \A i \in 0 .. n : upto[i] = IF i = 0 THEN 0 ELSE upto[i - 1] + Upkeep!Length(w[i])
  BY <1>6
<1> HIDE DEF upto, Shape
<1>8. upto[0] \in Int
  BY <1>2, <1>7
<1>9. \A i \in 1 .. n : upto[i - 1] \in Int => upto[i] \in Int
  BY <1>1, <1>2, <1>7
<1>10. upto[n] \in Int
  BY <1>2, <1>8, <1>9, StagesStay
<1> QED
  BY <1>10 DEF Upkeep!Text, upto, Shape, n

LEMMA PickedFromWindow ==
    ASSUME NEW M, NEW w \in Seq(M), NEW ixs
    PROVE  Upkeep!Picked(w, ixs) \in Seq(M)
<1> DEFINE n == Len(w)
           step == [x \in Seq(M) \X (1 .. n) |-> IF x[2] \in ixs THEN Append(x[1], w[x[2]]) ELSE x[1]]
           Shape(g) == g = [i \in 0 .. n |->
               IF i = 0 THEN <<>> ELSE IF i \in ixs THEN Append(g[i - 1], w[i]) ELSE g[i - 1]]
           upto == CHOOSE g : Shape(g)
<1>1. \A i \in 1 .. n : w[i] \in M
  OBVIOUS
<1>2. n \in Nat /\ step \in [Seq(M) \X (1 .. n) -> Seq(M)]
  BY <1>1
<1> HIDE DEF n
<1>3. PICK f \in [0 .. n -> Seq(M)] : f[0] = <<>> /\ \A i \in 1 .. n : f[i] = step[<<f[i - 1], i>>]
  <2> HIDE DEF step
  <2>1. \A z \in Seq(M) : Built(Seq(M), n, z, step)
    BY <1>2, Unfolds
  <2>2. <<>> \in Seq(M)
    OBVIOUS
  <2>3. Built(Seq(M), n, <<>>, step)
    BY <2>1, <2>2, Zenon
  <2> QED
    BY <2>3, Zenon DEF Built
<1>4. ASSUME NEW i \in 1 .. n PROVE f[i] = IF i \in ixs THEN Append(f[i - 1], w[i]) ELSE f[i - 1]
  <2>1. i - 1 \in 0 .. n
    BY <1>2
  <2> QED
    BY <1>3, <2>1
<1>5. Shape(f)
  <2>1. \A i \in 0 .. n : i = 0 \/ i \in 1 .. n
    BY <1>2
  <2>2. \A i \in 0 .. n : f[i] =
            IF i = 0 THEN <<>> ELSE IF i \in ixs THEN Append(f[i - 1], w[i]) ELSE f[i - 1]
    BY <1>3, <1>4, <2>1
  <2> QED
    BY <1>3, <2>2
<1>6. Shape(upto)
  BY <1>5, Zenon
<1>7. \A i \in 0 .. n : upto[i] =
          IF i = 0 THEN <<>> ELSE IF i \in ixs THEN Append(upto[i - 1], w[i]) ELSE upto[i - 1]
  BY <1>6
<1> HIDE DEF upto, Shape
<1>8. upto[0] \in Seq(M)
  <2>1. upto[0] = <<>>
    BY <1>2, <1>7
  <2> QED
    BY <2>1
<1>9. ASSUME NEW i \in 1 .. n, upto[i - 1] \in Seq(M) PROVE upto[i] \in Seq(M)
  <2>1. upto[i] = IF i \in ixs THEN Append(upto[i - 1], w[i]) ELSE upto[i - 1]
    BY <1>2, <1>7
  <2>2. w[i] \in M
    BY <1>1
  <2>3. Append(upto[i - 1], w[i]) \in Seq(M)
    BY <1>9, <2>2
  <2> QED
    BY <1>9, <2>1, <2>3
<1>10. upto[n] \in Seq(M)
  BY <1>2, <1>8, <1>9, StagesStay
<1> QED
  BY <1>10 DEF Upkeep!Picked, upto, Shape, n

\* What the latch and the count need: the latch and its ghost agree, and a
\* compaction waits for a count.
UpkeepInv ==
    /\ messages \in Seq(Message)
    /\ latched \in BOOLEAN /\ warned = latched
    /\ compacted => awaiting

\* A trim changes the form of a message, and leaves its newest copy in sight.
LEMMA PrunedHas ==
    ASSUME NEW w \in Seq(Message)
    PROVE  /\ Upkeep!Pruned(w) \in Seq(Message) /\ DOMAIN Upkeep!Pruned(w) = DOMAIN w
           /\ \A i \in DOMAIN w :
                  /\ Upkeep!Pruned(w)[i].is = w[i].is /\ Upkeep!Pruned(w)[i].of = w[i].of
                  /\ w[i].form # "pointer" /\ ~(\E j \in DOMAIN w : j > i /\ w[j] = w[i])
                         => Upkeep!Pruned(w)[i].form # "pointer"
<1> DEFINE p == Upkeep!Pointed(w)
           q == Upkeep!Shortened(p)
<1>0. \A i \in DOMAIN w : w[i] \in Message
  OBVIOUS
<1>1. DOMAIN p = DOMAIN w /\ DOMAIN q = DOMAIN w
  BY DEF Upkeep!Pointed, Upkeep!Shortened
<1>2. ASSUME NEW m \in Message, NEW f \in {"ends", "pointer"}
      PROVE  LET c == [m EXCEPT !.form = f]
             IN c \in Message /\ c.is = m.is /\ c.of = m.of /\ c.form = f
  BY DEF Message
<1>3. ASSUME NEW i \in DOMAIN w
      PROVE  /\ p[i] \in Message /\ p[i].is = w[i].is /\ p[i].of = w[i].of
             /\ ~(\E j \in DOMAIN w : j > i /\ w[j] = w[i]) => p[i] = w[i]
  <2>1. \/ p[i] = w[i]
        \/ /\ p[i] = [w[i] EXCEPT !.form = "pointer"]
           /\ \E j \in DOMAIN w : j > i /\ w[j] = w[i]
    BY DEF Upkeep!Pointed
  <2> HIDE DEF p
  <2> QED
    BY <1>0, <1>2, <2>1
<1>4. ASSUME NEW i \in DOMAIN w
      PROVE  /\ q[i] \in Message /\ q[i].is = w[i].is /\ q[i].of = w[i].of
             /\ p[i].form # "pointer" => q[i].form # "pointer"
  <2>1. q[i] = p[i] \/ q[i] = [p[i] EXCEPT !.form = "ends"]
    BY <1>1 DEF Upkeep!Shortened
  <2>2. p[i] \in Message /\ p[i].is = w[i].is /\ p[i].of = w[i].of
    BY <1>3
  <2> HIDE DEF p, q
  <2> QED
    BY <1>2, <2>1, <2>2
<1>5. q \in Seq(Message)
  <2>1. q = [i \in 1 .. Len(w) |-> q[i]]
    BY <1>1 DEF Upkeep!Shortened, Upkeep!Pointed
  <2>2. \A i \in 1 .. Len(w) : q[i] \in Message
    BY <1>4
  <2> HIDE DEF q
  <2>3. q \in [1 .. Len(w) -> Message]
    BY <2>1, <2>2
  <2> QED
    BY <2>3
<1>6. q = Upkeep!Pruned(w)
  BY DEF Upkeep!Pruned
<1> HIDE DEF p, q
<1> QED
  BY <1>1, <1>3, <1>4, <1>5, <1>6

\* The greatest of some positions.
LEMMA GreatestPosition ==
    ASSUME NEW n \in Nat, NEW S \in SUBSET (1 .. n), S # {}
    PROVE  \E k \in S : \A j \in S : j <= k
<1> DEFINE R == {n - j : j \in S}
<1>1. R \in SUBSET Nat /\ R # {}
  <2>1. \A j \in S : n - j \in Nat
    <3>1. \A j \in 1 .. n : n - j \in Nat
      OBVIOUS
    <3> QED
      BY <3>1
  <2>2. PICK j \in S : TRUE
    OBVIOUS
  <2>3. n - j \in R
    OBVIOUS
  <2> QED
    BY <2>1, <2>3
<1>2. PICK r \in R : \A x \in R : r <= x
  <2> HIDE DEF R
  <2> QED
    BY <1>1, LeastNumber
<1>3. PICK k \in S : r = n - k
  OBVIOUS
<1>4. ASSUME NEW j \in S PROVE j <= k
  <2>1. n - j \in R
    OBVIOUS
  <2>2. r <= n - j
    <3> HIDE DEF R
    <3> QED
      BY <1>2, <2>1
  <2>3. j \in Int /\ k \in Int
    OBVIOUS
  <2> QED
    BY <1>3, <2>2, <2>3
<1> QED
  BY <1>4

LEMMA PrunedShows ==
    ASSUME NEW w \in Seq(Message), NEW i \in DOMAIN w, w[i].is = "tool", Upkeep!Shows(w, i)
    PROVE  Upkeep!Shows(Upkeep!Pruned(w), i)
<1> DEFINE copies == {j \in DOMAIN w : j >= i /\ w[j].is = "tool" /\ w[j].of = w[i].of
                                              /\ w[j].form # "pointer"}
<1>1. copies # {} /\ copies \in SUBSET (1 .. Len(w)) /\ Len(w) \in Nat
  BY DEF Upkeep!Shows
<1>2. PICK k \in copies : \A j \in copies : j <= k
  <2> HIDE DEF copies
  <2> QED
    BY <1>1, GreatestPosition
<1>3. ~(\E j \in DOMAIN w : j > k /\ w[j] = w[k])
  <2> SUFFICES ASSUME NEW j \in DOMAIN w, j > k, w[j] = w[k] PROVE FALSE
    OBVIOUS
  <2>1. j \in copies
    OBVIOUS
  <2> QED
    BY <1>2, <2>1
<1> QED
  BY <1>2, <1>3, PrunedHas DEF Upkeep!Shows

LEMMA UpkeepStarts == ASSUME Upkeep!Init PROVE UpkeepInv
<1>1. messages = <<>> /\ latched = FALSE /\ warned = FALSE /\ compacted = FALSE
  BY DEF Upkeep!Init
<1>2. messages \in Seq(Message)
  BY <1>1
<1>3. latched \in BOOLEAN /\ warned = latched
  BY <1>1
<1> QED
  BY <1>1, <1>2, <1>3 DEF UpkeepInv

LEMMA TrimStep == ASSUME Sized, UpkeepInv, Upkeep!Trim PROVE UpkeepInv'
<1>1. latched' = latched /\ warned' = warned /\ compacted' = compacted /\ awaiting' = awaiting
  BY DEF Upkeep!Trim
<1>2. messages' = messages \/ messages' = Upkeep!Pruned(messages)
  BY DEF Upkeep!Trim
<1>3. messages' \in Seq(Message)
  BY <1>2, PrunedHas DEF UpkeepInv
<1> QED
  BY <1>1, <1>3 DEF UpkeepInv

LEMMA NoteIsMessage ==
    ASSUME NEW m, m = Upkeep!Note \/ (\E f \in Statements \cup {NoFact} : m = Upkeep!Talk(f))
                  \/ (\E r \in Results : m = Upkeep!Tool(r))
    PROVE  m \in Message
BY DEF Upkeep!Note, Upkeep!Talk, Upkeep!Tool, Message

LEMMA CompressStep == ASSUME Sized, UpkeepInv, Upkeep!Compress PROVE UpkeepInv'
<1>1. awaiting' = TRUE
  BY DEF Upkeep!Compress, Upkeep!Await
<1>2. PICK out, head, rest :
         /\ messages' = Upkeep!Picked(messages, head) \o (IF out = <<>> THEN <<>> ELSE <<Upkeep!Note>>)
                        \o Upkeep!Picked(messages, rest)
         /\ latched' = (latched \/ Upkeep!Delivered(out))
         /\ warned' = (warned \/ Upkeep!Delivered(out))
  BY DEF Upkeep!Compress, Upkeep!Latch
<1>3. messages' \in Seq(Message)
  <2>1. Upkeep!Picked(messages, head) \in Seq(Message) /\ Upkeep!Picked(messages, rest) \in Seq(Message)
    BY PickedFromWindow DEF UpkeepInv
  <2>2. (IF out = <<>> THEN <<>> ELSE <<Upkeep!Note>>) \in Seq(Message)
    BY NoteIsMessage
  <2> QED
    BY <1>2, <2>1, <2>2
<1>4. latched' \in BOOLEAN /\ warned' = latched'
  BY <1>2 DEF UpkeepInv
<1> QED
  BY <1>1, <1>3, <1>4 DEF UpkeepInv

\* What the host adds to the window.
LEMMA AddedIs ==
    ASSUME UpkeepInv, NEW m, Upkeep!Add(m),
           (\E f \in Statements \cup {NoFact} : m = Upkeep!Talk(f))
           \/ (\E r \in Results : m = Upkeep!Tool(r))
    PROVE  messages' \in Seq(Message)
BY NoteIsMessage DEF Upkeep!Add, UpkeepInv

LEMMA CountedStep ==
    ASSUME UpkeepInv, Upkeep!Counted, messages' \in Seq(Message)
    PROVE  UpkeepInv'
<1>1. PICK count :
         /\ awaiting' = (awaiting /\ ~Reports) /\ compacted' = (compacted /\ ~Reports)
         /\ latched' = (latched /\ Upkeep!UnderPressure(count))
         /\ warned' = (warned /\ Upkeep!UnderPressure(count))
  BY DEF Upkeep!Counted, Upkeep!Rearmed
<1>2. latched' \in BOOLEAN /\ warned' = latched' /\ (compacted' => awaiting')
  BY <1>1 DEF UpkeepInv
<1> QED
  BY <1>1, <1>2 DEF UpkeepInv

LEMMA TurnStep ==
    ASSUME UpkeepInv, Upkeep!Ask \/ Upkeep!CallTool \/ Upkeep!Answer
    PROVE  UpkeepInv'
<1>1. CASE Upkeep!Ask
  <2>1. messages' \in Seq(Message)
    BY <1>1, AddedIs DEF Upkeep!Ask
  <2> QED
    BY <1>1, <2>1 DEF Upkeep!Ask, Upkeep!counts, UpkeepInv
<1>2. CASE Upkeep!CallTool
  <2>1. messages' \in Seq(Message)
    BY <1>2, AddedIs DEF Upkeep!CallTool
  <2> QED
    BY <1>2, <2>1, CountedStep DEF Upkeep!CallTool
<1>3. CASE Upkeep!Answer
  <2>1. messages' \in Seq(Message)
    BY <1>3, AddedIs DEF Upkeep!Answer
  <2> QED
    BY <1>3, <2>1, CountedStep DEF Upkeep!Answer
<1> QED
  BY <1>1, <1>2, <1>3

LEMMA UpkeepRests ==
    ASSUME UpkeepInv, Upkeep!CheckPasses \/ Upkeep!CheckDeferred \/ Upkeep!CompactNot
                      \/ Upkeep!Fail \/ UNCHANGED Upkeep!vars
    PROVE  UpkeepInv'
<1>1. UNCHANGED <<messages, awaiting, latched, warned, compacted>>
  BY DEF Upkeep!CheckPasses, Upkeep!CheckDeferred, Upkeep!CompactNot, Upkeep!Fail, Upkeep!vars,
     Upkeep!counts
<1> QED
  BY <1>1 DEF UpkeepInv

LEMMA ResetStep == ASSUME Upkeep!Reset PROVE UpkeepInv'
<1>1. messages' = <<>> /\ latched' = FALSE /\ warned' = FALSE /\ compacted' = FALSE
  BY DEF Upkeep!Reset, Upkeep!Forget
<1>2. messages' \in Seq(Message)
  BY <1>1
<1>3. latched' \in BOOLEAN /\ warned' = latched'
  BY <1>1
<1> QED
  BY <1>1, <1>2, <1>3 DEF UpkeepInv

LEMMA UpkeepInvInductive ==
    ASSUME Sized
    PROVE  /\ Upkeep!Init => UpkeepInv
           /\ UpkeepInv /\ [Upkeep!Next]_(Upkeep!vars) => UpkeepInv'
<1>1. ASSUME UpkeepInv, [Upkeep!Next]_(Upkeep!vars) PROVE UpkeepInv'
  <2>1. CASE Upkeep!Trim
    BY <1>1, <2>1, TrimStep
  <2>2. CASE Upkeep!CheckCompacts \/ Upkeep!CompactNow
    BY <1>1, <2>2, CompressStep DEF Upkeep!CheckCompacts, Upkeep!CompactNow
  <2>3. CASE Upkeep!Ask \/ Upkeep!CallTool \/ Upkeep!Answer
    BY <1>1, <2>3, TurnStep
  <2>4. CASE Upkeep!Reset
    BY <2>4, ResetStep
  <2>5. CASE Upkeep!CheckPasses \/ Upkeep!CheckDeferred \/ Upkeep!CompactNot
             \/ Upkeep!Fail \/ UNCHANGED Upkeep!vars
    BY <1>1, <2>5, UpkeepRests
  <2> QED
    BY <1>1, <2>1, <2>2, <2>3, <2>4, <2>5 DEF Upkeep!Next
<1> QED
  BY <1>1, UpkeepStarts

\* The bounds are numbers too.
Capped == {MaxMessages, MaxMishaps, DigestCap, CaptureLast} \subseteq Nat

Named == Results \cup Statements \cup {NoFact}
UpkeepTyped == Upkeep!TypeOK /\ running <= uttered /\ digest \in Seq(Named)

\* The whole tool outputs among some messages.
LEMMA OutputsAre ==
    ASSUME NEW w \in Seq(Message)
    PROVE  {m.of : m \in {x \in Upkeep!ToSet(w) : x.is = "tool" /\ x.form = "whole"}}
               \subseteq Results
<1>1. \A m \in Upkeep!ToSet(w) : m \in Message
  BY DEF Upkeep!ToSet
<1> QED
  BY <1>1 DEF Message

LEMMA LastOfIs ==
    ASSUME NEW M, NEW w \in Seq(M), NEW n \in Nat
    PROVE  Upkeep!LastOf(n, w) \in Seq(M) /\ Len(Upkeep!LastOf(n, w)) <= n
<1> DEFINE l == Len(w)
           a == Upkeep!Larger(1, l - n + 1)
<1>1. l \in Nat /\ a \in Int /\ a >= 1 /\ a >= l - n + 1
  BY DEF Upkeep!Larger
<1>2. Upkeep!LastOf(n, w) = SubSeq(w, a, l)
  BY DEF Upkeep!LastOf
<1>3. \A i \in 1 .. l : w[i] \in M
  OBVIOUS
<1>4. a <= l + 1
  BY <1>1 DEF Upkeep!Larger
<1> HIDE DEF a
<1>5. SubSeq(w, a, l) \in Seq(M) /\ Len(SubSeq(w, a, l)) = IF a <= l THEN l - a + 1 ELSE 0
  BY <1>1, <1>3, <1>4
<1> HIDE DEF l
<1>6. (IF a <= l THEN l - a + 1 ELSE 0) <= n
  BY <1>1
<1> QED
  BY <1>2, <1>5, <1>6

\* The digest holds what was said, and never more lines than it may.
LEMMA DigestBounded ==
    ASSUME Capped, NEW w \in Seq(Message), digest \in Seq(Named)
    PROVE  /\ Upkeep!Updated(digest, Upkeep!DigestLines(w)) \in Seq(Named)
           /\ Len(Upkeep!Updated(digest, Upkeep!DigestLines(w))) <= DigestCap
<1> DEFINE first == {i \in DOMAIN w : Upkeep!States(w[i]) /\ \A j \in 1..i - 1 : w[j] # w[i]}
           stated == Upkeep!Picked(w, first)
           lines == [i \in DOMAIN stated |-> stated[i].of]
           more == Upkeep!Picked(lines, {i \in DOMAIN lines : lines[i] \notin Upkeep!ToSet(digest)})
<1>1. stated \in Seq(Message)
  BY PickedFromWindow
<1>2. Upkeep!DigestLines(w) = lines
  BY DEF Upkeep!DigestLines
<1> HIDE DEF stated
<1>3. lines \in Seq(Named)
  <2>1. \A i \in 1 .. Len(stated) : stated[i] \in Message /\ stated[i].of \in Named
    BY <1>1 DEF Message, Named
  <2> QED
    BY <1>1, <2>1
<1>4. Upkeep!Updated(digest, lines) = Upkeep!LastOf(DigestCap, digest \o more)
  BY DEF Upkeep!Updated
<1> HIDE DEF lines
<1>5. more \in Seq(Named)
  BY <1>3, PickedFromWindow
<1> HIDE DEF more
<1>6. digest \o more \in Seq(Named) /\ DigestCap \in Nat
  BY <1>5 DEF Capped
<1> QED
  BY <1>2, <1>4, <1>6, LastOfIs

LEMMA TypedStarts == ASSUME Capped, Upkeep!Init PROVE UpkeepTyped
<1>1. digest = <<>> /\ Len(digest) = 0 /\ DigestCap \in Nat /\ MaxMessages \in Nat /\ MaxMishaps \in Nat
      /\ messages = <<>>
  BY DEF Upkeep!Init, Capped
<1>2. digest \in Seq(Named) /\ Len(digest) <= DigestCap
  BY <1>1
<1>3. \A i \in DOMAIN messages : messages[i].form \in {"whole", "ends", "pointer"}
  BY <1>1
<1>4. /\ upkeepAt = "idle" /\ running = 0 /\ uttered = 0 /\ mishaps = 0 /\ captured = {}
      /\ awaiting = FALSE /\ reported = FALSE /\ latched = FALSE /\ warned = FALSE
  BY DEF Upkeep!Init
<1>5. uttered \in 0..MaxMessages /\ running \in 0..MaxMessages /\ mishaps \in 0..MaxMishaps
      /\ running <= uttered
  BY <1>1, <1>4
<1>6. awaiting \in BOOLEAN /\ reported \in BOOLEAN /\ latched \in BOOLEAN /\ warned \in BOOLEAN
      /\ captured \subseteq Results
  BY <1>4
<1>7. upkeepAt \in {"idle", "trim", "check", "running", "answered"}
  BY <1>4
<1> QED
  BY <1>2, <1>3, <1>5, <1>6, <1>7 DEF UpkeepTyped, Upkeep!TypeOK

\* A compaction archives tool outputs and rewrites the digest.
LEMMA CompressTyped ==
    ASSUME Capped, UpkeepInv, UpkeepInv', UpkeepTyped, Upkeep!Compress,
           upkeepAt' = "running", running' = running
    PROVE  UpkeepTyped'
<1>1. PICK kept :
         /\ captured' = captured \cup {m.of : m \in {x \in
                Upkeep!ToSet(Upkeep!Picked(messages, kept)) : x.is = "tool" /\ x.form = "whole"}}
         /\ digest' = Upkeep!Updated(digest, Upkeep!DigestLines(Upkeep!Picked(messages, kept)))
  BY DEF Upkeep!Compress
<1>2. UNCHANGED <<uttered, mishaps, reported>> /\ awaiting' = TRUE
  BY DEF Upkeep!Compress, Upkeep!Await
<1>3. Upkeep!Picked(messages, kept) \in Seq(Message)
  BY PickedFromWindow DEF UpkeepInv
<1>4. digest' \in Seq(Named) /\ Len(digest') <= DigestCap
  BY <1>1, <1>3, DigestBounded DEF UpkeepTyped
<1>5. captured' \subseteq Results
  BY <1>1, <1>3, OutputsAre DEF UpkeepTyped, Upkeep!TypeOK
<1>6. messages' \in Seq(Message) /\ latched' \in BOOLEAN /\ warned' \in BOOLEAN
  BY DEF UpkeepInv
<1>7. \A i \in DOMAIN messages' : messages'[i].form \in {"whole", "ends", "pointer"}
  BY <1>6 DEF Message
<1> QED
  BY <1>2, <1>4, <1>5, <1>6, <1>7 DEF UpkeepTyped, Upkeep!TypeOK

LEMMA TypedStep ==
    ASSUME Capped, UpkeepInv, UpkeepInv', UpkeepTyped, [Upkeep!Next]_(Upkeep!vars)
    PROVE  UpkeepTyped'
<1>1. messages' \in Seq(Message) /\ latched' \in BOOLEAN /\ warned' \in BOOLEAN
  BY DEF UpkeepInv
<1>2. \A i \in DOMAIN messages' : messages'[i].form \in {"whole", "ends", "pointer"}
  BY <1>1 DEF Message
<1>3. MaxMessages \in Nat /\ MaxMishaps \in Nat /\ DigestCap \in Nat /\ CaptureLast \in Nat
  BY DEF Capped
<1> DEFINE Rest == UNCHANGED <<running, uttered, mishaps, captured, awaiting, reported, digest>>
<1>4. CASE Upkeep!Trim \/ Upkeep!CheckPasses \/ Upkeep!CheckDeferred \/ Upkeep!CompactNot
           \/ UNCHANGED Upkeep!vars
  <2>1. Rest /\ (upkeepAt' \in {"check", "running"} \/ upkeepAt' = upkeepAt)
    BY <1>4 DEF Upkeep!Trim, Upkeep!CheckPasses, Upkeep!CheckDeferred, Upkeep!CompactNot,
       Upkeep!vars, Upkeep!counts
  <2> QED
    BY <1>1, <1>2, <2>1 DEF UpkeepTyped, Upkeep!TypeOK
<1>5. CASE Upkeep!CheckCompacts \/ Upkeep!CompactNow
  BY <1>5, CompressTyped DEF Upkeep!CheckCompacts, Upkeep!CompactNow
<1>6. CASE Upkeep!Ask
  <2>1. /\ upkeepAt' = "trim" /\ running' = 1 /\ uttered' = uttered + 1 /\ uttered < MaxMessages
        /\ UNCHANGED <<mishaps, captured, awaiting, reported, digest>>
    BY <1>6 DEF Upkeep!Ask, Upkeep!Add, Upkeep!counts
  <2> QED
    BY <1>1, <1>2, <1>3, <2>1 DEF UpkeepTyped, Upkeep!TypeOK
<1>7. CASE Upkeep!CallTool
  <2>1. /\ upkeepAt' = "answered" /\ running' = running + 1 /\ uttered' = uttered + 1
        /\ uttered < MaxMessages /\ UNCHANGED <<mishaps, captured, digest>>
        /\ awaiting' = (awaiting /\ ~Reports) /\ reported' = (reported \/ Reports)
    BY <1>7 DEF Upkeep!CallTool, Upkeep!Add, Upkeep!Counted
  <2>2. awaiting' \in BOOLEAN /\ reported' \in BOOLEAN
    BY <2>1 DEF UpkeepTyped, Upkeep!TypeOK
  <2>3. running' \in 0..MaxMessages /\ uttered' \in 0..MaxMessages /\ running' <= uttered'
    BY <1>3, <2>1 DEF UpkeepTyped, Upkeep!TypeOK
  <2> QED
    BY <1>1, <1>2, <2>1, <2>2, <2>3 DEF UpkeepTyped, Upkeep!TypeOK
<1>8. CASE Upkeep!Answer
  <2>1. /\ upkeepAt' = "idle" /\ running' = 0 /\ uttered' = uttered + 1
        /\ uttered < MaxMessages /\ UNCHANGED <<mishaps, digest>>
        /\ awaiting' = (awaiting /\ ~Reports) /\ reported' = (reported \/ Reports)
    BY <1>8 DEF Upkeep!Answer, Upkeep!Add, Upkeep!Counted
  <2>2. awaiting' \in BOOLEAN /\ reported' \in BOOLEAN
    BY <2>1 DEF UpkeepTyped, Upkeep!TypeOK
  <2>3. running' \in 0..MaxMessages /\ uttered' \in 0..MaxMessages /\ running' <= uttered'
    BY <1>3, <2>1 DEF UpkeepTyped, Upkeep!TypeOK
  <2>4. PICK n : n \in Nat /\ captured' = captured \cup {m.of : m \in {x \in
             Upkeep!ToSet(Upkeep!LastOf(n, messages')) : x.is = "tool" /\ x.form = "whole"}}
    <3>1. (IF running + 1 < CaptureLast THEN running + 1 ELSE CaptureLast) \in Nat
      BY <1>3 DEF UpkeepTyped, Upkeep!TypeOK
    <3> QED
      BY <1>8, <3>1 DEF Upkeep!Answer
  <2>5. Upkeep!LastOf(n, messages') \in Seq(Message)
    BY <1>1, <2>4, LastOfIs
  <2>6. captured' \subseteq Results
    BY <2>4, <2>5, OutputsAre DEF UpkeepTyped, Upkeep!TypeOK
  <2> QED
    BY <1>1, <1>2, <2>1, <2>2, <2>3, <2>6 DEF UpkeepTyped, Upkeep!TypeOK
<1>9. CASE Upkeep!Fail
  BY <1>1, <1>2, <1>3, <1>9 DEF Upkeep!Fail, Upkeep!counts, UpkeepTyped, Upkeep!TypeOK
<1>10. CASE Upkeep!Reset
  <2>1. digest' = <<>> /\ Len(digest') = 0 /\ digest' \in Seq(Named)
    BY <1>10 DEF Upkeep!Reset
  <2>2. /\ awaiting' = FALSE /\ reported' = FALSE /\ UNCHANGED <<upkeepAt, running, uttered, captured>>
        /\ mishaps < MaxMishaps /\ mishaps' = mishaps + 1
    BY <1>10 DEF Upkeep!Reset, Upkeep!Forget
  <2>3. Len(digest') <= DigestCap
    BY <1>3, <2>1
  <2>4. mishaps' \in 0..MaxMishaps
    BY <1>3, <2>2 DEF UpkeepTyped, Upkeep!TypeOK
  <2> QED
    BY <1>1, <1>2, <2>1, <2>2, <2>3, <2>4 DEF UpkeepTyped, Upkeep!TypeOK
<1> QED
  BY <1>4, <1>5, <1>6, <1>7, <1>8, <1>9, <1>10 DEF Upkeep!Next

\* A trim leaves every result in sight that was, through any number of trims
\* (context.py prune_tool_results_only, pass 1).
THEOREM TrimsShowAll ==
    ASSUME Sized
    PROVE  Upkeep!Spec => TrimShowsAll
<1>1. Upkeep!Init => UpkeepInv
  BY UpkeepInvInductive
<1>2. UpkeepInv /\ [Upkeep!Next]_(Upkeep!vars) => UpkeepInv'
  BY UpkeepInvInductive
<1>3. ASSUME UpkeepInv, Upkeep!Trim, NEW i \in DOMAIN messages, messages[i].is = "tool",
             Upkeep!Shows(messages, i)
      PROVE  Upkeep!Shows(messages', i)
  <2>1. messages' = messages \/ messages' = Upkeep!Pruned(messages)
    BY <1>3 DEF Upkeep!Trim
  <2>2. messages \in Seq(Message)
    BY <1>3 DEF UpkeepInv
  <2> QED
    BY <1>3, <2>1, <2>2, PrunedShows
<1>4. UpkeepInv => (Upkeep!Trim => \A i \in DOMAIN messages :
           messages[i].is = "tool" /\ Upkeep!Shows(messages, i) => Upkeep!Shows(messages', i))
  BY <1>3
<1> QED
  BY <1>1, <1>2, <1>4, PTL DEF Upkeep!Spec, Upkeep!TrimShowsAll, TrimShowsAll

\* One warning and one compaction per crossing, however compactions, counts
\* and resets fall, and every crossing is warned of (context.py compress,
\* should_defer_preflight_to_real_usage, update_from_response).
THEOREM WarnsOncePerCrossing ==
    ASSUME Sized, Capped
    PROVE  Upkeep!Spec => OncePerCrossing
<1>1. Upkeep!Init => UpkeepInv /\ UpkeepTyped
  BY UpkeepInvInductive, TypedStarts
<1>2. UpkeepInv /\ UpkeepTyped /\ [Upkeep!Next]_(Upkeep!vars) => (UpkeepInv /\ UpkeepTyped)'
  BY UpkeepInvInductive, TypedStep
<1>3. UpkeepInv /\ UpkeepTyped => Upkeep!TypeOK /\ Upkeep!LatchOfThisCrossing
  BY DEF UpkeepInv, UpkeepTyped, Upkeep!LatchOfThisCrossing
<1>4. UpkeepInv => (Upkeep!Compress /\ Upkeep!Delivered(<<Upkeep!Note>>) => ~warned)
  BY DEF UpkeepInv, Upkeep!Delivered
<1>5. UpkeepInv => (Upkeep!CheckCompacts => ~compacted)
  BY DEF UpkeepInv, Upkeep!CheckCompacts, Upkeep!Defers
<1> QED
  BY <1>1, <1>2, <1>3, <1>4, <1>5, PTL DEF Upkeep!Spec, Upkeep!WarnedOnce,
     Upkeep!CountBetween, OncePerCrossing

-----------------------------------------------------------------------------
(* Reading memory *)

\* What the rows, the log and the bounds of a reading are: the widest page of
\* the word search is among those the model tries.
Recalled ==
    /\ IsFiniteSet(Beliefs) /\ IsFiniteSet(Turns) /\ Turns \cap Read!Sessions = {}
    /\ Rank \in Seq(Beliefs) /\ Log \in Seq(Turns)
    /\ Newer \in [Beliefs -> Beliefs \cup {NoBelief}]
    /\ {Limit, BroadLimit, SessionCap, FetchMax, Room, TailRoom, MaxDirectives, WindowTurns}
           \subseteq Nat
    /\ FetchMax <= 128 * Limit /\ FetchMax <= 128 * BroadLimit

\* The stages of what is built up in steps, as a recursive function.
Stages(S, n, base, step) ==
    \E f \in [0 .. n -> S] : f = [i \in 0 .. n |-> IF i = 0 THEN base ELSE step[<<f[i - 1], i>>]]

LEMMA Staged ==
    ASSUME NEW n \in Nat, NEW S, NEW base \in S, NEW step \in [S \X (1 .. n) -> S]
    PROVE  Stages(S, n, base, step)
<1>1. PICK f \in [0 .. n -> S] : f[0] = base /\ \A i \in 1 .. n : f[i] = step[<<f[i - 1], i>>]
  <2>1. Built(S, n, base, step)
    BY Unfolds
  <2> QED
    BY <2>1, Zenon DEF Built
<1>2. \A i \in 0 .. n : i = 0 \/ i \in 1 .. n
  OBVIOUS
<1>3. \A i \in 0 .. n : f[i] = IF i = 0 THEN base ELSE step[<<f[i - 1], i>>]
  BY <1>1, <1>2
<1>4. f = [i \in 0 .. n |-> f[i]]
  OBVIOUS
<1>5. f = [i \in 0 .. n |-> IF i = 0 THEN base ELSE step[<<f[i - 1], i>>]]
  BY <1>3, <1>4
<1> QED
  BY <1>5, Zenon DEF Stages

\* What is picked from a sequence are its elements at these places.
LEMMA PickedHas ==
    ASSUME NEW M, NEW w \in Seq(M), NEW ixs, NEW P, \A i \in DOMAIN w : i \in ixs => w[i] \in P
    PROVE  Read!Picked(w, ixs) \in Seq(P)
<1> DEFINE n == Len(w)
           step == [x \in Seq(P) \X (1 .. n) |-> IF x[2] \in ixs THEN Append(x[1], w[x[2]]) ELSE x[1]]
           Shape(g) == g = [i \in 0 .. n |->
               IF i = 0 THEN <<>> ELSE IF i \in ixs THEN Append(g[i - 1], w[i]) ELSE g[i - 1]]
           upto == CHOOSE g : Shape(g)
<1>1. \A i \in 1 .. n : i \in ixs => w[i] \in P
  OBVIOUS
<1>2. n \in Nat /\ step \in [Seq(P) \X (1 .. n) -> Seq(P)] /\ <<>> \in Seq(P)
  BY <1>1
<1> HIDE DEF n
<1>3. PICK f \in [0 .. n -> Seq(P)] :
          f = [i \in 0 .. n |-> IF i = 0 THEN <<>> ELSE step[<<f[i - 1], i>>]]
  <2> HIDE DEF step
  <2>1. \A z \in Seq(P) : Stages(Seq(P), n, z, step)
    BY <1>2, Staged
  <2>2. Stages(Seq(P), n, <<>>, step)
    BY <1>2, <2>1, Zenon
  <2> QED
    BY <2>2, Zenon DEF Stages
<1>4. ASSUME NEW i \in 1 .. n PROVE f[i] = IF i \in ixs THEN Append(f[i - 1], w[i]) ELSE f[i - 1]
  <2>1. i - 1 \in 0 .. n /\ i \in 0 .. n /\ i # 0
    BY <1>2
  <2>2. f[i] = step[<<f[i - 1], i>>]
    BY <1>3, <2>1
  <2>3. f[i - 1] \in Seq(P)
    BY <2>1
  <2> QED
    BY <2>2, <2>3
<1>5. Shape(f)
  <2>1. \A i \in 0 .. n : i = 0 \/ i \in 1 .. n
    BY <1>2
  <2>2. f[0] = <<>>
    BY <1>2, <1>3
  <2>3. \A i \in 0 .. n : f[i] =
            IF i = 0 THEN <<>> ELSE IF i \in ixs THEN Append(f[i - 1], w[i]) ELSE f[i - 1]
    BY <1>4, <2>1, <2>2
  <2> QED
    BY <1>3, <2>3
<1>6. Shape(upto)
  BY <1>5, Zenon
<1>7. \A i \in 0 .. n : upto[i] =
          IF i = 0 THEN <<>> ELSE IF i \in ixs THEN Append(upto[i - 1], w[i]) ELSE upto[i - 1]
  BY <1>6
<1> HIDE DEF upto, Shape
<1>8. upto[0] \in Seq(P)
  <2>1. upto[0] = <<>>
    BY <1>2, <1>7
  <2> QED
    BY <1>2, <2>1
<1>9. ASSUME NEW i \in 1 .. n, upto[i - 1] \in Seq(P) PROVE upto[i] \in Seq(P)
  <2>1. upto[i] = IF i \in ixs THEN Append(upto[i - 1], w[i]) ELSE upto[i - 1]
    BY <1>2, <1>7
  <2>2. i \in ixs => w[i] \in P
    BY <1>1
  <2>3. i \in ixs => Append(upto[i - 1], w[i]) \in Seq(P)
    BY <1>9, <2>2
  <2> QED
    BY <1>9, <2>1, <2>3
<1>10. upto[n] \in Seq(P)
  BY <1>2, <1>8, <1>9, StagesStay
<1> QED
  BY <1>10 DEF Read!Picked, upto, Shape, n

LEMMA OnlyHas ==
    ASSUME NEW M, NEW w \in Seq(M), NEW S
    PROVE  Read!Only(w, S) \in Seq(M \cap S)
<1> DEFINE ixs == {i \in DOMAIN w : w[i] \in S}
<1>1. \A i \in DOMAIN w : i \in ixs => w[i] \in M \cap S
  OBVIOUS
<1> HIDE DEF ixs
<1>2. Read!Picked(w, ixs) \in Seq(M \cap S)
  BY <1>1, PickedHas
<1> QED
  BY <1>2 DEF Read!Only, ixs

LEMMA UptoHas ==
    ASSUME NEW M, NEW s \in Seq(M), NEW n \in Nat
    PROVE  Read!Upto(n, s) \in Seq(M)
BY DEF Read!Upto, Read!Smaller

LEMMA ToSetHas ==
    ASSUME NEW M, NEW s \in Seq(M)
    PROVE  Read!ToSet(s) \subseteq M
BY DEF Read!ToSet

LEMMA JoinedHas ==
    ASSUME NEW M, NEW s \in Seq(M), NEW u \in Seq(M)
    PROVE  s \o u \in Seq(M)
OBVIOUS

LEMMA Elements ==
    ASSUME NEW M, NEW s \in Seq(M)
    PROVE  /\ Len(s) \in Nat /\ DOMAIN s = 1 .. Len(s)
           /\ \A i \in 1 .. Len(s) : s[i] \in M
OBVIOUS

LEMMA Sequence ==
    ASSUME NEW M, NEW n \in Nat, NEW s \in [1 .. n -> M]
    PROVE  s \in Seq(M) /\ Len(s) = n
OBVIOUS

LEMMA Larger ==
    ASSUME NEW M, NEW N, M \subseteq N, NEW s \in Seq(M)
    PROVE  s \in Seq(N)
OBVIOUS

LEMMA TotalIs ==
    ASSUME NEW M, \A l \in M : l.cost \in Int, NEW lines \in Seq(M)
    PROVE  Read!Total(lines) \in Int
<1> DEFINE n == Len(lines)
           step == [x \in Int \X (1 .. n) |-> x[1] + lines[x[2]].cost]
           Shape(g) == g = [i \in 0 .. n |-> IF i = 0 THEN 0 ELSE g[i - 1] + lines[i].cost]
           upto == CHOOSE g : Shape(g)
<1>1. \A i \in 1 .. n : lines[i].cost \in Int
  OBVIOUS
<1>2. n \in Nat /\ step \in [Int \X (1 .. n) -> Int] /\ 0 \in Int
  BY <1>1
<1> HIDE DEF n
<1>3. PICK f \in [0 .. n -> Int] :
          f = [i \in 0 .. n |-> IF i = 0 THEN 0 ELSE step[<<f[i - 1], i>>]]
  <2> HIDE DEF step
  <2>1. \A z \in Int : Stages(Int, n, z, step)
    BY <1>2, Staged
  <2>2. Stages(Int, n, 0, step)
    BY <1>2, <2>1, Zenon
  <2> QED
    BY <2>2, Zenon DEF Stages
<1>4. ASSUME NEW i \in 1 .. n PROVE f[i] = f[i - 1] + lines[i].cost
  <2>1. i - 1 \in 0 .. n /\ i \in 0 .. n /\ i # 0
    BY <1>2
  <2>2. f[i] = step[<<f[i - 1], i>>]
    BY <1>3, <2>1
  <2>3. f[i - 1] \in Int
    BY <2>1
  <2> QED
    BY <2>2, <2>3
<1>5. Shape(f)
  <2>1. \A i \in 0 .. n : i = 0 \/ i \in 1 .. n
    BY <1>2
  <2>2. f[0] = 0
    BY <1>2, <1>3
  <2>3. \A i \in 0 .. n : f[i] = IF i = 0 THEN 0 ELSE f[i - 1] + lines[i].cost
    BY <1>4, <2>1, <2>2
  <2> QED
    BY <1>3, <2>3
<1>6. Shape(upto)
  BY <1>5, Zenon
<1>7. \A i \in 0 .. n : upto[i] = IF i = 0 THEN 0 ELSE upto[i - 1] + lines[i].cost
  BY <1>6
<1> HIDE DEF upto, Shape
<1>8. upto[0] \in Int
  <2>1. 0 \in 0 .. n
    BY <1>2
  <2>2. upto[0] = 0
    BY <1>7, <2>1
  <2> QED
    BY <1>2, <2>2
<1>9. ASSUME NEW i \in 1 .. n, upto[i - 1] \in Int PROVE upto[i] \in Int
  <2>1. upto[i] = upto[i - 1] + lines[i].cost
    BY <1>2, <1>7
  <2> QED
    BY <1>1, <1>9, <2>1
<1>10. upto[n] \in Int
  BY <1>2, <1>8, <1>9, StagesStay
<1> QED
  BY <1>10 DEF Read!Total, upto, Shape, n

LEMMA TotalOfNone == Read!Total(<<>>) = 0
<1> DEFINE Shape(g) == g = [i \in 0 .. 0 |-> IF i = 0 THEN 0 ELSE g[i - 1] + <<>>[i].cost]
           upto == CHOOSE g : Shape(g)
<1>1. Shape([i \in 0 .. 0 |-> 0])
  OBVIOUS
<1>2. Shape(upto)
  BY <1>1, Zenon
<1>3. upto[0] = 0
  BY <1>2
<1>4. Len(<<>>) = 0
  OBVIOUS
<1> HIDE DEF upto, Shape
<1> QED
  BY <1>3, <1>4 DEF Read!Total, upto, Shape

LEMMA ReadFlattened ==
    ASSUME NEW T, NEW seqs \in Seq(Seq(T))
    PROVE  Read!FlattenSeq(seqs) \in Seq(T)
<1>1. Read!FlattenSeq(seqs) = FlattenSeq(seqs)
  BY DEF Read!FlattenSeq, FlattenSeq
<1> QED
  BY <1>1, Flattened

\* An excerpt is placed as lines of its own.
Blocks(L) == [lines : Seq(L), room : Int, open : BOOLEAN, full : BOOLEAN]
ToldIn(t, L) ==
    /\ Read!Line("header", {Read!Home(t)}, 1) \in L
    /\ \A cost \in {1, 2} : Read!Line(Read!LaneOf(t, "excerpt"), {t}, cost) \in L

LEMMA PlaceHas ==
    ASSUME NEW L, NEW b \in Blocks(L), NEW t, ToldIn(t, L)
    PROVE  Read!Place(b, t) \in Blocks(L)
<1> PICK lead, header : /\ lead = (IF b.open THEN 0 ELSE 1)
                        /\ header = IF b.open THEN <<>>
                                    ELSE <<Read!Line("header", {Read!Home(t)}, 1)>>
  OBVIOUS
<1>1. lead \in {0, 1} /\ header \in Seq(L)
  BY DEF ToldIn
<1>2. b.room \in Int /\ b.lines \in Seq(L) /\ b.open \in BOOLEAN /\ b.full \in BOOLEAN
  BY DEF Blocks
<1>3. ASSUME NEW cost \in {1, 2}, NEW filled \in BOOLEAN
      PROVE [lines |-> b.lines \o Append(header, Read!Line(Read!LaneOf(t, "excerpt"), {t}, cost)),
             room |-> b.room - lead - cost, open |-> TRUE, full |-> filled] \in Blocks(L)
  <2>1. Append(header, Read!Line(Read!LaneOf(t, "excerpt"), {t}, cost)) \in Seq(L)
    <3>1. Read!Line(Read!LaneOf(t, "excerpt"), {t}, cost) \in L
      BY DEF ToldIn
    <3> QED
      BY <1>1, <3>1
  <2>2. b.lines \o Append(header, Read!Line(Read!LaneOf(t, "excerpt"), {t}, cost)) \in Seq(L)
    <3> PICK u : u = Append(header, Read!Line(Read!LaneOf(t, "excerpt"), {t}, cost))
      OBVIOUS
    <3> QED
      BY <1>2, <2>1, JoinedHas
  <2>3. b.room - lead - cost \in Int
    BY <1>1, <1>2
  <2> QED
    BY <2>2, <2>3 DEF Blocks
<1>4. Read!Place(b, t) =
        CASE b.full -> b
          [] ~b.full /\ b.room - (lead + 2) > 0 ->
               [lines |-> b.lines \o Append(header, Read!Line(Read!LaneOf(t, "excerpt"), {t}, 2)),
                room |-> b.room - lead - 2, open |-> TRUE, full |-> FALSE]
          [] ~b.full /\ b.room - (lead + 2) <= 0 /\ b.room - lead > 1 ->
               [lines |-> b.lines \o Append(header, Read!Line(Read!LaneOf(t, "excerpt"), {t}, 1)),
                room |-> b.room - lead - 1, open |-> TRUE, full |-> TRUE]
          [] OTHER -> [b EXCEPT !.full = TRUE]
  BY DEF Read!Place
<1>5. [b EXCEPT !.full = TRUE] \in Blocks(L)
  BY DEF Blocks
<1>6. CASE b.full
  <2>1. Read!Place(b, t) = b
    BY <1>4, <1>6
  <2> QED
    BY <2>1
<1>7. CASE ~b.full /\ b.room - (lead + 2) > 0
  <2> PICK q : q = [lines |-> b.lines \o Append(header, Read!Line(Read!LaneOf(t, "excerpt"), {t}, 2)),
                room |-> b.room - lead - 2, open |-> TRUE, full |-> FALSE]
    OBVIOUS
  <2>1. q \in Blocks(L)
    BY <1>3
  <2>2. Read!Place(b, t) = q
    BY <1>1, <1>2, <1>4, <1>7
  <2> QED
    BY <2>1, <2>2
<1>8. CASE ~b.full /\ ~(b.room - (lead + 2) > 0) /\ b.room - lead > 1
  <2> PICK q : q = [lines |-> b.lines \o Append(header, Read!Line(Read!LaneOf(t, "excerpt"), {t}, 1)),
                room |-> b.room - lead - 1, open |-> TRUE, full |-> TRUE]
    OBVIOUS
  <2>1. q \in Blocks(L)
    BY <1>3
  <2>2. Read!Place(b, t) = q
    BY <1>1, <1>2, <1>4, <1>8
  <2> QED
    BY <2>1, <2>2
<1>9. CASE ~b.full /\ ~(b.room - (lead + 2) > 0) /\ ~(b.room - lead > 1)
  <2> PICK q : q = [b EXCEPT !.full = TRUE]
    OBVIOUS
  <2>1. Read!Place(b, t) = q
    BY <1>1, <1>2, <1>4, <1>9
  <2> QED
    BY <1>5, <2>1
<1> QED
  BY <1>6, <1>7, <1>8, <1>9

LEMMA BlockHas ==
    ASSUME NEW L, NEW T, \A t \in T : ToldIn(t, L), NEW ts \in Seq(T), NEW s, NEW room \in Int
    PROVE  Read!Block(s, ts, room) \in Blocks(L)
<1> DEFINE n == Len(ts)
           empty == [lines |-> <<>>, room |-> room, full |-> FALSE,
                     open |-> Read!Line("header", {s}, 1) \in Read!ToSet(parts)]
           step == [x \in Blocks(L) \X (1 .. n) |-> Read!Place(x[1], ts[x[2]])]
           Shape(g) == g = [i \in 0 .. n |-> IF i = 0 THEN empty ELSE Read!Place(g[i - 1], ts[i])]
           upto == CHOOSE g : Shape(g)
<1>1. \A b \in Blocks(L), i \in 1 .. n : Read!Place(b, ts[i]) \in Blocks(L)
  <2> SUFFICES ASSUME NEW b \in Blocks(L), NEW i \in 1 .. n PROVE Read!Place(b, ts[i]) \in Blocks(L)
    OBVIOUS
  <2>1. ts[i] \in T
    OBVIOUS
  <2> QED
    BY <2>1, PlaceHas
<1>2. n \in Nat /\ step \in [Blocks(L) \X (1 .. n) -> Blocks(L)]
  BY <1>1
<1>0. empty \in Blocks(L)
  BY DEF Blocks
<1>10. Read!Block(s, ts, room) = upto[n]
  BY DEF Read!Block
<1> HIDE DEF n, empty
<1>3. PICK f \in [0 .. n -> Blocks(L)] :
          f = [i \in 0 .. n |-> IF i = 0 THEN empty ELSE step[<<f[i - 1], i>>]]
  <2> HIDE DEF step
  <2>1. Stages(Blocks(L), n, empty, step)
    BY <1>0, <1>2, Staged
  <2> QED
    BY <2>1, Zenon DEF Stages
<1>4. ASSUME NEW i \in 1 .. n PROVE f[i] = Read!Place(f[i - 1], ts[i])
  <2>1. i - 1 \in 0 .. n /\ i \in 0 .. n /\ i # 0
    BY <1>2
  <2>2. f[i] = step[<<f[i - 1], i>>]
    BY <1>3, <2>1
  <2>3. f[i - 1] \in Blocks(L)
    BY <2>1
  <2> QED
    BY <2>2, <2>3
<1>5. Shape(f)
  <2>1. \A i \in 0 .. n : i = 0 \/ i \in 1 .. n
    BY <1>2
  <2>2. f[0] = empty
    BY <1>2, <1>3
  <2>3. \A i \in 0 .. n : f[i] = IF i = 0 THEN empty ELSE Read!Place(f[i - 1], ts[i])
    BY <1>4, <2>1, <2>2
  <2> QED
    BY <1>3, <2>3
<1>6. Shape(upto)
  BY <1>5, Zenon
<1>7. \A i \in 0 .. n : upto[i] = IF i = 0 THEN empty ELSE Read!Place(upto[i - 1], ts[i])
  BY <1>6
<1> HIDE DEF upto, Shape
<1>8. upto[0] \in Blocks(L)
  <2>1. 0 \in 0 .. n
    BY <1>2
  <2> QED
    BY <1>0, <1>7, <2>1
<1>9. ASSUME NEW i \in 1 .. n, upto[i - 1] \in Blocks(L) PROVE upto[i] \in Blocks(L)
  <2>1. upto[i] = Read!Place(upto[i - 1], ts[i])
    BY <1>2, <1>7
  <2> QED
    BY <1>1, <1>9, <2>1
<1>11. upto[n] \in Blocks(L)
  BY <1>2, <1>8, <1>9, StagesStay
<1> QED
  BY <1>10, <1>11

LEMMA ShareIs ==
    ASSUME NEW room \in Int, NEW n \in Nat, NEW offered \in Int
    PROVE  Read!Share(room, n, offered) \in Int
<1> PICK d : d = IF n > offered THEN n - offered ELSE 1
  OBVIOUS
<1>1. d \in Int /\ d > 0
  OBVIOUS
<1>2. room \div d \in Int
  BY <1>1
<1>3. Read!Share(room, n, offered) = IF ~(Read!Broad \/ Read!Dated) \/ n < 2 THEN room ELSE room \div d
  BY DEF Read!Share
<1> QED
  BY <1>2, <1>3

\* The raw lane fills the context with lines for what was kept of it.
LEMMA FilledHas ==
    ASSUME NEW L, \A l \in L : l.cost \in Int, NEW T, \A t \in T : ToldIn(t, L),
           \A s : Read!Excerpts(s) \in Seq(T), NEW X, Read!Homes \in Seq(X), parts \in Seq(L),
           Room \in Int
    PROVE  Read!Filled \in Seq(L)
<1> PICK full, total : /\ full = Read!Only(Read!Homes, {s \in Read!Sessions : Read!Excerpts(s) # <<>>})
                       /\ total = Read!Total(parts)
  OBVIOUS
<1>a. full \in Seq(X) /\ total \in Int
  <2>1. full \in Seq(X \cap {s \in Read!Sessions : Read!Excerpts(s) # <<>>})
    BY OnlyHas
  <2> QED
    BY <2>1, TotalIs, Larger
<1> DEFINE n == Len(full)
           A == [lines : Seq(L), room : Int, offered : Int]
           none == [lines |-> <<>>, room |-> Room - total, offered |-> 0]
           step == [x \in A \X (1 .. n) |-> Read!AddBlock(x[1], full[x[2]], n)]
           Shape(g) == g = [i \in 0 .. n |-> IF i = 0 THEN none ELSE Read!AddBlock(g[i - 1], full[i], n)]
           upto == CHOOSE g : Shape(g)
<1>0. n \in Nat /\ none \in A
  BY <1>a
<1>1. \A b \in A : \A s : Read!AddBlock(b, s, n) \in A
  <2> SUFFICES ASSUME NEW b \in A, NEW s PROVE Read!AddBlock(b, s, n) \in A
    OBVIOUS
  <2> HIDE DEF n
  <2>1. Read!Share(b.room, n, b.offered) \in Int
    BY <1>0, ShareIs
  <2> PICK block : block = Read!Block(s, Read!Excerpts(s), Read!Share(b.room, n, b.offered))
    OBVIOUS
  <2>2. block \in Blocks(L)
    BY <2>1, BlockHas
  <2>3. block.lines \in Seq(L)
    BY <2>2 DEF Blocks
  <2>4. Read!Total(block.lines) \in Int
    BY <2>3, TotalIs
  <2>5. b.lines \o block.lines \in Seq(L)
    BY <2>3, JoinedHas
  <2>6. Read!AddBlock(b, s, n) =
          IF b.room <= 0 THEN b
          ELSE [lines |-> b.lines \o block.lines, offered |-> b.offered + 1,
                room |-> b.room - Read!Total(block.lines)]
    BY DEF Read!AddBlock
  <2> QED
    BY <2>4, <2>5, <2>6
<1>2. step \in [A \X (1 .. n) -> A]
  BY <1>1
<1>10. Read!Filled = upto[n].lines
  BY DEF Read!Filled
<1> HIDE DEF n, none, A
<1>3. PICK f \in [0 .. n -> A] :
          f = [i \in 0 .. n |-> IF i = 0 THEN none ELSE step[<<f[i - 1], i>>]]
  <2> HIDE DEF step
  <2>1. Stages(A, n, none, step)
    BY <1>0, <1>2, Staged
  <2> QED
    BY <2>1, Zenon DEF Stages
<1>4. ASSUME NEW i \in 1 .. n PROVE f[i] = Read!AddBlock(f[i - 1], full[i], n)
  <2>1. i - 1 \in 0 .. n /\ i \in 0 .. n /\ i # 0
    BY <1>0
  <2>2. f[i] = step[<<f[i - 1], i>>]
    BY <1>3, <2>1
  <2>3. f[i - 1] \in A
    BY <2>1
  <2> QED
    BY <2>2, <2>3
<1>5. Shape(f)
  <2>1. \A i \in 0 .. n : i = 0 \/ i \in 1 .. n
    BY <1>0
  <2>2. f[0] = none
    BY <1>0, <1>3
  <2>3. \A i \in 0 .. n : f[i] = IF i = 0 THEN none ELSE Read!AddBlock(f[i - 1], full[i], n)
    BY <1>4, <2>1, <2>2
  <2> QED
    BY <1>3, <2>3
<1>6. Shape(upto)
  BY <1>5, Zenon
<1>7. \A i \in 0 .. n : upto[i] = IF i = 0 THEN none ELSE Read!AddBlock(upto[i - 1], full[i], n)
  BY <1>6
<1> HIDE DEF upto, Shape
<1>8. upto[0] \in A
  <2>1. 0 \in 0 .. n
    BY <1>0
  <2> QED
    BY <1>0, <1>7, <2>1
<1>9. ASSUME NEW i \in 1 .. n, upto[i - 1] \in A PROVE upto[i] \in A
  <2>1. upto[i] = Read!AddBlock(upto[i - 1], full[i], n)
    BY <1>0, <1>7
  <2> QED
    BY <1>1, <1>9, <2>1
<1>11. upto[n] \in A
  BY <1>0, <1>8, <1>9, StagesStay
<1> QED
  BY <1>10, <1>11 DEF A

\* The messages taken are among those offered.
LEMMA TakenHas ==
    ASSUME NEW L, \A l \in L : l.cost \in Int, parts \in Seq(L), Room \in Int, NEW P, NEW pieces \in Seq(P)
    PROVE  Read!Taken(pieces).lines \in Seq(P)
<1> PICK total : total = Read!Total(parts)
  OBVIOUS
<1>a. total \in Int
  BY TotalIs
<1> DEFINE n == Len(pieces)
           O == SUBSET {Read!HomeOf(l) : l \in P}
           A == [lines : Seq(P), room : Int, open : O]
           none == [room |-> Room - total, open |-> {}, lines |-> <<>>]
           step == [x \in A \X (1 .. n) |-> Read!TakePiece(x[1], pieces[x[2]])]
           Shape(g) == g = [i \in 0 .. n |-> IF i = 0 THEN none ELSE Read!TakePiece(g[i - 1], pieces[i])]
           upto == CHOOSE g : Shape(g)
<1>0. n \in Nat /\ none \in A
  BY <1>a
<1>1. \A b \in A, i \in 1 .. n : Read!TakePiece(b, pieces[i]) \in A
  <2> SUFFICES ASSUME NEW b \in A, NEW i \in 1 .. n PROVE Read!TakePiece(b, pieces[i]) \in A
    OBVIOUS
  <2> PICK l \in P : l = pieces[i]
    OBVIOUS
  <2> PICK lead \in {0, 1} : lead = IF Read!HomeOf(l) \in b.open THEN 0 ELSE 1
    OBVIOUS
  <2>1. b.open \cup {Read!HomeOf(l)} \in O
    OBVIOUS
  <2>2. Append(b.lines, l) \in Seq(P) /\ b.room - (lead + 1) \in Int
    OBVIOUS
  <2>3. Read!TakePiece(b, l) =
          IF b.room - (lead + 1) > 0
          THEN [room |-> b.room - (lead + 1), open |-> b.open \cup {Read!HomeOf(l)},
                lines |-> Append(b.lines, l)]
          ELSE b
    BY DEF Read!TakePiece
  <2> HIDE DEF O, n
  <2> QED
    BY <2>1, <2>2, <2>3
<1>2. step \in [A \X (1 .. n) -> A]
  BY <1>1
<1>10. Read!Taken(pieces) = upto[n]
  BY DEF Read!Taken
<1> HIDE DEF n, none, A
<1>3. PICK f \in [0 .. n -> A] :
          f = [i \in 0 .. n |-> IF i = 0 THEN none ELSE step[<<f[i - 1], i>>]]
  <2> HIDE DEF step
  <2>1. Stages(A, n, none, step)
    BY <1>0, <1>2, Staged
  <2> QED
    BY <2>1, Zenon DEF Stages
<1>4. ASSUME NEW i \in 1 .. n PROVE f[i] = Read!TakePiece(f[i - 1], pieces[i])
  <2>1. i - 1 \in 0 .. n /\ i \in 0 .. n /\ i # 0
    BY <1>0
  <2>2. f[i] = step[<<f[i - 1], i>>]
    BY <1>3, <2>1
  <2>3. f[i - 1] \in A
    BY <2>1
  <2> QED
    BY <2>2, <2>3
<1>5. Shape(f)
  <2>1. \A i \in 0 .. n : i = 0 \/ i \in 1 .. n
    BY <1>0
  <2>2. f[0] = none
    BY <1>0, <1>3
  <2>3. \A i \in 0 .. n : f[i] = IF i = 0 THEN none ELSE Read!TakePiece(f[i - 1], pieces[i])
    BY <1>4, <2>1, <2>2
  <2> QED
    BY <1>3, <2>3
<1>6. Shape(upto)
  BY <1>5, Zenon
<1>7. \A i \in 0 .. n : upto[i] = IF i = 0 THEN none ELSE Read!TakePiece(upto[i - 1], pieces[i])
  BY <1>6
<1> HIDE DEF upto, Shape
<1>8. upto[0] \in A
  <2>1. 0 \in 0 .. n
    BY <1>0
  <2> QED
    BY <1>0, <1>7, <2>1
<1>9. ASSUME NEW i \in 1 .. n, upto[i - 1] \in A PROVE upto[i] \in A
  <2>1. upto[i] = Read!TakePiece(upto[i - 1], pieces[i])
    BY <1>0, <1>7
  <2> QED
    BY <1>1, <1>9, <2>1
<1>11. upto[n] \in A
  BY <1>0, <1>8, <1>9, StagesStay
<1> QED
  BY <1>10, <1>11 DEF A

\* Digests that fit, and lines up to the first that does not.
LEMMA SqueezedHas ==
    ASSUME NEW P, NEW lines \in Seq(P)
    PROVE  Read!Squeezed(lines) \in Seq(P)
<1> DEFINE n == Len(lines)
           Fits(u, l) == Read!Total(parts \o u) + l.cost < Room
           step == [x \in Seq(P) \X (1 .. n) |->
                       IF Fits(x[1], lines[x[2]]) THEN Append(x[1], lines[x[2]]) ELSE x[1]]
           Shape(g) == g = [i \in 0 .. n |->
                       IF i = 0 THEN <<>>
                       ELSE IF Fits(g[i - 1], lines[i]) THEN Append(g[i - 1], lines[i]) ELSE g[i - 1]]
           upto == CHOOSE g : Shape(g)
<1>10. Read!Squeezed(lines) = upto[n]
  BY DEF Read!Squeezed
<1> HIDE DEF Fits
<1>1. \A i \in 1 .. n : lines[i] \in P
  OBVIOUS
<1>2. n \in Nat /\ step \in [Seq(P) \X (1 .. n) -> Seq(P)] /\ <<>> \in Seq(P)
  BY <1>1
<1> HIDE DEF n
<1>3. PICK f \in [0 .. n -> Seq(P)] :
          f = [i \in 0 .. n |-> IF i = 0 THEN <<>> ELSE step[<<f[i - 1], i>>]]
  <2> HIDE DEF step
  <2>1. \A z \in Seq(P) : Stages(Seq(P), n, z, step)
    BY <1>2, Staged
  <2>2. Stages(Seq(P), n, <<>>, step)
    BY <1>2, <2>1, Zenon
  <2> QED
    BY <2>2, Zenon DEF Stages
<1>4. ASSUME NEW i \in 1 .. n
      PROVE  f[i] = IF Fits(f[i - 1], lines[i]) THEN Append(f[i - 1], lines[i]) ELSE f[i - 1]
  <2>1. i - 1 \in 0 .. n /\ i \in 0 .. n /\ i # 0
    BY <1>2
  <2>2. f[i] = step[<<f[i - 1], i>>]
    BY <1>3, <2>1
  <2>3. f[i - 1] \in Seq(P)
    BY <2>1
  <2> QED
    BY <2>2, <2>3
<1>5. Shape(f)
  <2>1. \A i \in 0 .. n : i = 0 \/ i \in 1 .. n
    BY <1>2
  <2>2. f[0] = <<>>
    BY <1>2, <1>3
  <2>3. ASSUME NEW i \in 0 .. n
        PROVE  f[i] = IF i = 0 THEN <<>>
                      ELSE IF Fits(f[i - 1], lines[i]) THEN Append(f[i - 1], lines[i]) ELSE f[i - 1]
    <3>1. CASE i = 0
      BY <2>2, <3>1
    <3>2. CASE i # 0
      <4>1. i \in 1 .. n
        BY <2>1, <3>2
      <4>2. f[i] = IF Fits(f[i - 1], lines[i]) THEN Append(f[i - 1], lines[i]) ELSE f[i - 1]
        BY <1>4, <4>1
      <4> QED
        BY <3>2, <4>2
    <3> QED
      BY <3>1, <3>2
  <2> QED
    BY <1>3, <2>3
<1>6. Shape(upto)
  BY <1>5, Zenon
<1>7. \A i \in 0 .. n : upto[i] =
          IF i = 0 THEN <<>>
          ELSE IF Fits(upto[i - 1], lines[i]) THEN Append(upto[i - 1], lines[i]) ELSE upto[i - 1]
  BY <1>6
<1> HIDE DEF upto, Shape
<1>8. upto[0] \in Seq(P)
  <2>1. upto[0] = <<>>
    BY <1>2, <1>7
  <2> QED
    BY <1>2, <2>1
<1>9. ASSUME NEW i \in 1 .. n, upto[i - 1] \in Seq(P) PROVE upto[i] \in Seq(P)
  <2>1. upto[i] = IF Fits(upto[i - 1], lines[i]) THEN Append(upto[i - 1], lines[i]) ELSE upto[i - 1]
    BY <1>2, <1>7
  <2>2. Append(upto[i - 1], lines[i]) \in Seq(P)
    BY <1>1, <1>9
  <2> QED
    BY <1>9, <2>1, <2>2
<1>11. upto[n] \in Seq(P)
  BY <1>2, <1>8, <1>9, StagesStay
<1> QED
  BY <1>10, <1>11

\* Of the lengths that will do, the greatest.
LEMMA GreatestLength ==
    ASSUME NEW n \in Nat, NEW S \in SUBSET (0 .. n), 0 \in S
    PROVE  \E k \in S : \A j \in S : j <= k
<1>1. CASE S \cap (1 .. n) = {}
  <2>1. \A j \in S : j = 0
    BY <1>1
  <2> QED
    BY <2>1
<1>2. CASE S \cap (1 .. n) # {}
  <2>1. S \cap (1 .. n) \in SUBSET (1 .. n)
    OBVIOUS
  <2>2. PICK k \in S \cap (1 .. n) : \A j \in S \cap (1 .. n) : j <= k
    BY <1>2, <2>1, GreatestPosition
  <2>3. \A j \in S : j = 0 \/ j \in S \cap (1 .. n)
    OBVIOUS
  <2>4. k \in Nat /\ 0 <= k
    OBVIOUS
  <2> QED
    BY <2>2, <2>3, <2>4
<1> QED
  BY <1>1, <1>2

LEMMA CutAt ==
    ASSUME NEW P, NEW lines \in Seq(P), NEW S \in SUBSET (0 .. Len(lines)), 0 \in S
    PROVE  /\ (CHOOSE n \in S : \A k \in S : k <= n) \in S
           /\ SubSeq(lines, 1, CHOOSE n \in S : \A k \in S : k <= n) \in Seq(P)
<1>1. \E k \in S : \A j \in S : j <= k
  <2>1. Len(lines) \in Nat
    OBVIOUS
  <2> QED
    BY <2>1, GreatestLength
<1> DEFINE m == CHOOSE n \in S : \A k \in S : k <= n
<1>2. m \in S
  BY <1>1
<1> HIDE DEF m
<1>3. m \in 0 .. Len(lines)
  BY <1>2
<1>4. SubSeq(lines, 1, m) \in Seq(P)
  BY <1>3
<1> QED
  BY <1>2, <1>4 DEF m

LEMMA FittingHas ==
    ASSUME NEW P, NEW lines \in Seq(P)
    PROVE  Read!Fitting(lines) \in Seq(P)
<1> DEFINE fit == {n \in 0 .. Len(lines) : \A k \in 1 .. n : Read!Fits(SubSeq(lines, 1, k - 1), lines[k])}
<1>1. fit \in SUBSET (0 .. Len(lines))
  OBVIOUS
<1>2. 0 \in fit
  <2>1. 0 \in 0 .. Len(lines) /\ 1 .. 0 = {}
    OBVIOUS
  <2> QED
    BY <2>1
<1>3. Read!Fitting(lines) = SubSeq(lines, 1, CHOOSE n \in fit : \A k \in fit : k <= n)
  BY DEF Read!Fitting
<1> HIDE DEF fit
<1> QED
  BY <1>1, <1>2, <1>3, CutAt

\* A line of its own for each of some beliefs.
LEMMA AsLinesHas ==
    ASSUME NEW lane, NEW B, NEW bs \in Seq(B), NEW P, \A b \in B : Read!Line(lane, {b}, 1) \in P
    PROVE  Read!AsLines(lane, bs) \in Seq(P)
<1> DEFINE lines == [i \in 1 .. Len(bs) |-> Read!Line(lane, {bs[i]}, 1)]
<1>1. \A i \in 1 .. Len(bs) : bs[i] \in B
  OBVIOUS
<1>2. lines \in [1 .. Len(bs) -> P] /\ Len(bs) \in Nat
  BY <1>1
<1>3. Read!AsLines(lane, bs) = lines
  BY DEF Read!AsLines
<1> HIDE DEF lines
<1> QED
  BY <1>2, <1>3

\* The rows of a kind are the active ones that may be read.
Legible == {b \in Beliefs : Read!Readable(b)}

LEMMA RowsAre ==
    ASSUME Rank \in Seq(Beliefs), NEW kind, NEW limit \in Nat
    PROVE  Read!RowsOfKind(kind, limit) \in Seq(Legible)
<1> PICK S, w : /\ S = {b \in Beliefs : Kind[b] = kind /\ status[b] = "active"}
                /\ w = Read!Only(Rank, S)
  OBVIOUS
<1>1. w \in Seq(Beliefs)
  <2>1. w \in Seq(Beliefs \cap S)
    BY OnlyHas
  <2> QED
    BY <2>1
<1>2. Read!Upto(limit, w) \in Seq(Beliefs)
  BY <1>1, UptoHas
<1>3. Read!Only(Read!Upto(limit, w), Legible) \in Seq(Beliefs \cap Legible)
  BY <1>2, OnlyHas
<1>4. Read!RowsOfKind(kind, limit) = Read!Only(Read!Upto(limit, w), Legible)
  BY DEF Read!RowsOfKind, Legible
<1>5. Beliefs \cap Legible = Legible
  BY DEF Legible
<1> QED
  BY <1>3, <1>4, <1>5

\* The open contradictions, in some order.
LEMMA SetIsListed ==
    ASSUME NEW S, IsFiniteSet(S)
    PROVE  Read!SetToSeq(S) \in Seq(S)
<1>1. Cardinality(S) \in Nat /\ ExistsBijection(1 .. Cardinality(S), S)
  BY FS_CardinalityType
<1>2. PICK f : f \in Bijection(1 .. Cardinality(S), S)
  BY <1>1 DEF ExistsBijection
<1>3. f \in [1 .. Cardinality(S) -> S] /\ Read!IsInjective(f)
  <2>1. f \in [1 .. Cardinality(S) -> S] /\ IsInjective(f)
    BY <1>2 DEF Bijection, Injection
  <2> QED
    BY <2>1 DEF IsInjective, Read!IsInjective
<1>4. Read!Cardinality(S) = Cardinality(S)
  BY DEF Read!Cardinality, Cardinality
<1>5. Read!SetToSeq(S) \in [1 .. Cardinality(S) -> S]
  BY <1>3, <1>4, Zenon DEF Read!SetToSeq
<1> QED
  BY <1>1, <1>5

LEMMA ContradictionsAre ==
    ASSUME IsFiniteSet(Beliefs), rivals \in SUBSET SUBSET Beliefs, NEW P,
           \A r \in rivals : (\A b \in r : Read!CanRead(b)) => Read!Line("contradiction", r, 1) \in P
    PROVE  Read!OpenContradictions \in Seq(P)
<1> PICK S, open : /\ S = {r \in rivals : \A b \in r : Read!CanRead(b)}
                   /\ open = Read!SetToSeq(S)
  OBVIOUS
<1>1. IsFiniteSet(S)
  <2>1. IsFiniteSet(SUBSET Beliefs)
    BY FS_SUBSET
  <2>2. S \subseteq SUBSET Beliefs
    OBVIOUS
  <2> QED
    BY <2>1, <2>2, FS_Subset
<1>2. open \in Seq(S)
  BY <1>1, SetIsListed
<1>9. Len(open) \in Nat /\ DOMAIN open = 1 .. Len(open) /\ \A i \in 1 .. Len(open) : open[i] \in S
  BY <1>2, Elements
<1> DEFINE lines == [i \in 1 .. Len(open) |-> Read!Line("contradiction", open[i], 1)]
<1>3. \A i \in 1 .. Len(open) : Read!Line("contradiction", open[i], 1) \in P
  <2> TAKE i \in 1 .. Len(open)
  <2>1. open[i] \in S
    BY <1>9
  <2> QED
    BY <2>1
<1>4. lines \in Seq(P)
  <2>1. lines \in [1 .. Len(open) -> P]
    BY <1>3
  <2> HIDE DEF lines
  <2> QED
    BY <1>9, <2>1, Sequence
<1>5. Read!OpenContradictions = lines
  <2> QED
    BY <1>9 DEF Read!OpenContradictions
<1> QED
  BY <1>4, <1>5

\* What a line may tell: what the reader could read during the call, and of the
\* conversation that is going on only what was folded away.
Things == Beliefs \cup Turns \cup Read!Sessions
Lanes == {"belief", "header", "excerpt", "reply", "summary", "directive", "contradiction", "critical",
          "digest", "profile", "fact", "past", "record"}
Disclosable(l) ==
    CASE l.lane \in {"contradiction", "past"} -> l.of \subseteq could.permit
      [] l.lane \in {"excerpt", "reply", "summary"} -> \A t \in l.of : Read!Heard(t)
      [] l.lane \in {"header", "record"} -> TRUE
      [] OTHER -> l.of \subseteq could.read
NotEchoed(l) == l.lane = "excerpt" => \A t \in l.of : SessionOf[t] = call.live => t \in Folded
Tellable == {l \in [lane : Lanes, of : SUBSET Things, cost : {1, 2}] : Disclosable(l) /\ NotEchoed(l)}

\* What the raw lane may find, and what of it may be told.
RawItems == Read!Audible \cup {s \in Read!Sessions : Read!Heard(s)}
MayTell == {x \in RawItems : x \in Turns => (SessionOf[x] = call.live => x \in Folded)}
Permitted == {b \in Beliefs : Read!CanRead(b)}

StoreHolds ==
    /\ rivals \in SUBSET SUBSET Beliefs
    /\ status \in [Beliefs -> {"draft", "active", "superseded", "retracted"}]
    /\ \A b \in Beliefs : status[b] = "superseded" => Newer[b] \in Beliefs
GhostForm == could = [read |-> could.read, permit |-> could.permit, gone |-> could.gone]
CallForm == call = [route |-> call.route, words |-> call.words, live |-> call.live, score |-> call.score]
SeesNow == Legible \subseteq could.read /\ Permitted \subseteq could.permit

RecallInv ==
    /\ StoreHolds /\ GhostForm /\ CallForm
    /\ at # "idle" => SeesNow
    /\ raw \in Seq(RawItems) /\ groups \in Seq(Read!Sessions)
    /\ at \in {"render", "walk"} => found \in Seq(Beliefs)
    /\ at = "render" => found \in Seq(could.read)
    /\ at # "done" => parts \in Seq(Tellable)
    /\ at = "done" => \A l \in Read!ToSet(parts) : Disclosable(l) /\ NotEchoed(l)

\* Lines of each lane that may be told.
LEMMA ItemsTold ==
    ASSUME NEW t \in MayTell
    PROVE  /\ ToldIn(t, Tellable)
           /\ t \in Turns => Read!Line("reply", {t}, 1) \in Tellable
<1>1. /\ t \in Turns \/ t \in Read!Sessions
      /\ Read!Heard(t)
      /\ t \in Turns => (SessionOf[t] = call.live => t \in Folded)
  BY DEF MayTell, RawItems, Read!Audible
<1>2. Read!Home(t) \in Read!Sessions
  BY <1>1 DEF Read!Home, Read!Sessions
<1>3. {t} \subseteq Things /\ {Read!Home(t)} \subseteq Things
  BY <1>1, <1>2 DEF Things
<1>4. Read!Line("header", {Read!Home(t)}, 1) \in Tellable
  BY <1>3 DEF Tellable, Disclosable, NotEchoed, Read!Line, Lanes
<1>5. CASE t \in Turns
  <2>1. \A lane \in {"excerpt", "reply"}, c \in {1, 2} : Read!Line(lane, {t}, c) \in Tellable
    BY <1>1, <1>3, <1>5 DEF Tellable, Disclosable, NotEchoed, Read!Line, Lanes
  <2>2. Read!LaneOf(t, "excerpt") = "excerpt"
    BY <1>5 DEF Read!LaneOf
  <2> QED
    BY <1>4, <2>1, <2>2 DEF ToldIn
<1>6. CASE t \notin Turns
  <2>1. \A c \in {1, 2} : Read!Line("summary", {t}, c) \in Tellable
    BY <1>1, <1>3 DEF Tellable, Disclosable, NotEchoed, Read!Line, Lanes
  <2>2. Read!LaneOf(t, "excerpt") = "summary"
    BY <1>6 DEF Read!LaneOf
  <2> QED
    BY <1>4, <1>6, <2>1, <2>2 DEF ToldIn
<1> QED
  BY <1>5, <1>6

BeliefLanes == {"belief", "directive", "critical", "digest", "profile", "fact"}

LEMMA BeliefsTold ==
    ASSUME NEW S \in SUBSET Beliefs, NEW lane
    PROVE  /\ S \subseteq could.read /\ lane \in BeliefLanes => Read!Line(lane, S, 1) \in Tellable
           /\ S \subseteq could.permit /\ lane \in {"contradiction", "past"} =>
                  Read!Line(lane, S, 1) \in Tellable
<1>1. S \subseteq Things
  BY DEF Things
<1>2. ASSUME S \subseteq could.read, lane \in BeliefLanes PROVE Read!Line(lane, S, 1) \in Tellable
  BY <1>1, <1>2 DEF Tellable, Disclosable, NotEchoed, Read!Line, Lanes, BeliefLanes
<1>3. ASSUME S \subseteq could.permit, lane \in {"contradiction", "past"}
      PROVE Read!Line(lane, S, 1) \in Tellable
  BY <1>1, <1>3 DEF Tellable, Disclosable, NotEchoed, Read!Line, Lanes
<1> QED
  BY <1>2, <1>3

LEMMA HeadersTold == ASSUME NEW s \in Read!Sessions PROVE Read!Line("header", {s}, 1) \in Tellable
<1>1. {s} \subseteq Things
  BY DEF Things
<1> QED
  BY <1>1 DEF Tellable, Disclosable, NotEchoed, Read!Line, Lanes

LEMMA CostsAre == \A l \in Tellable : l.cost \in Int
BY DEF Tellable

\* The word search admits turns that may be heard.
LEMMA AdmittedAre ==
    ASSUME Recalled, NEW hits \in Seq(Turns)
    PROVE  Read!Admitted(hits) \in Seq(Read!Audible)
<1> PICK lim : lim = Read!RawLimit
  OBVIOUS
<1>1. lim \in Nat /\ FetchMax \in Nat /\ FetchMax <= 128 * lim
  BY DEF Recalled, Read!RawLimit
<1> DEFINE enough(n) == \/ Len(Read!Only(Read!Upto(n, hits), Read!Audible)) >= lim
                        \/ Len(hits) < n
                        \/ n >= FetchMax
           P == {2 * lim, 8 * lim, 32 * lim, 128 * lim}
           will == {n \in P : enough(n)}
           page == CHOOSE n \in P : enough(n) /\ \A k \in P : k < n => ~enough(k)
<1>2. P \subseteq Nat /\ 128 * lim \in P /\ enough(128 * lim)
  BY <1>1
<1>3. Read!Admitted(hits) = Read!Upto(lim, Read!Only(Read!Upto(page, hits), Read!Audible))
  BY DEF Read!Admitted, Read!Pages
<1> HIDE DEF enough, P
<1>4. will \in SUBSET Nat /\ will # {}
  BY <1>2
<1>5. PICK m \in will : \A n \in will : m <= n
  <2> HIDE DEF will
  <2> QED
    BY <1>4, LeastNumber
<1>6. m \in P /\ enough(m) /\ \A k \in P : k < m => ~enough(k)
  <2>1. \A k \in P : enough(k) => m <= k
    BY <1>5
  <2>2. m \in Nat /\ P \subseteq Nat
    BY <1>2, <1>5
  <2> QED
    BY <1>5, <2>1, <2>2
<1>7. page \in P
  BY <1>6, Zenon
<1> HIDE DEF page
<1>8. page \in Nat
  BY <1>2, <1>7
<1>9. Read!Upto(page, hits) \in Seq(Turns)
  BY <1>8, UptoHas
<1> PICK w : w = Read!Only(Read!Upto(page, hits), Read!Audible)
  OBVIOUS
<1>10. w \in Seq(Turns \cap Read!Audible)
  BY <1>9, OnlyHas
<1>11. w \in Seq(Read!Audible)
  <2>1. Turns \cap Read!Audible \subseteq Read!Audible
    OBVIOUS
  <2> QED
    BY <1>10, <2>1, Larger
<1> QED
  BY <1>1, <1>3, <1>11, UptoHas

LEMMA HitsAre == ASSUME Recalled PROVE Read!Hits \in Seq(Turns)
<1> PICK S : S = {t \in call.words : Read!Indexed(t)}
  OBVIOUS
<1>1. Log \in Seq(Turns)
  BY DEF Recalled
<1>2. Read!Only(Log, S) \in Seq(Turns \cap S)
  BY <1>1, OnlyHas
<1>3. Turns \cap S \subseteq Turns
  OBVIOUS
<1>4. Read!Only(Log, S) \in Seq(Turns)
  BY <1>2, <1>3, Larger
<1> QED
  BY <1>4 DEF Read!Hits

LEMMA SessionsFinite == ASSUME Recalled PROVE IsFiniteSet(Read!Sessions)
<1> DEFINE f == [t \in Turns |-> SessionOf[t]]
<1>1. f \in Surjection(Turns, Read!Sessions)
  BY DEF Surjection, Read!Sessions
<1> HIDE DEF f
<1>2. IsFiniteSet(Turns)
  BY DEF Recalled
<1> QED
  BY <1>1, <1>2, FS_Surjection

\* An arrangement of some things is a sequence of them.
LEMMA ArrangedAre ==
    ASSUME NEW S, IsFiniteSet(S), NEW n \in Nat, NEW r \in Read!Arranged(S, n)
    PROVE  r \in Seq(S)
<1>1. Read!Cardinality(S) \in Nat
  <2>1. Read!Cardinality(S) = Cardinality(S)
    BY DEF Read!Cardinality, Cardinality
  <2> QED
    BY <2>1, FS_CardinalityType
<1>2. Read!Smaller(n, Read!Cardinality(S)) \in Nat
  BY <1>1 DEF Read!Smaller
<1>3. PICK k \in 0 .. Read!Smaller(n, Read!Cardinality(S)) : r \in [1 .. k -> S]
  BY DEF Read!Arranged
<1>4. k \in Nat
  BY <1>2, <1>3
<1> QED
  BY <1>3, <1>4, Sequence

LEMMA RawItemsFinite == ASSUME Recalled PROVE IsFiniteSet(RawItems)
<1>1. Read!Audible \subseteq Turns /\ IsFiniteSet(Turns)
  BY DEF Read!Audible, Recalled
<1>2. IsFiniteSet(Turns \cup Read!Sessions)
  BY <1>1, SessionsFinite, FS_Union
<1>3. RawItems \subseteq Turns \cup Read!Sessions
  BY <1>1 DEF RawItems
<1> QED
  BY <1>2, <1>3, FS_Subset

LEMMA RankingsAre ==
    ASSUME Recalled, NEW r \in Read!Rankings
    PROVE  r \in Seq(RawItems)
<1> PICK lexical, close :
        /\ lexical = Read!ToSet(Read!Admitted(Read!Hits))
        /\ close = IF Read!Gated THEN {}
                   ELSE {t \in Read!Audible : Read!Indexed(t)} \cup {s \in Read!Sessions : Read!Heard(s)}
  OBVIOUS
<1>1. lexical \subseteq Read!Audible
  BY HitsAre, AdmittedAre, ToSetHas
<1>2. lexical \cup close \subseteq RawItems
  BY <1>1 DEF RawItems
<1>3. IsFiniteSet(lexical \cup close)
  BY <1>2, RawItemsFinite, FS_Subset
<1>4. r \in Read!Arranged(lexical \cup close, Read!RawLimit)
  BY DEF Read!Rankings
<1>5. Read!RawLimit \in Nat
  BY DEF Recalled, Read!RawLimit
<1>6. r \in Seq(lexical \cup close)
  BY <1>3, <1>4, <1>5, ArrangedAre
<1> QED
  BY <1>2, <1>6, Larger

\* What was kept of the raw lane, and the turns of a session beside it.
LEMMA KeptAre ==
    ASSUME Recalled, raw \in Seq(RawItems)
    PROVE  /\ \A s : Read!Excerpts(s) \in Seq(MayTell)
           /\ Read!Homes \in Seq(Read!Sessions)
<1> PICK ixs, K : ixs = {i \in DOMAIN raw : Read!Wanted(raw[i])} /\ K = {x \in RawItems : Read!Wanted(x)}
  OBVIOUS
<1>1. \A i \in DOMAIN raw : raw[i] \in RawItems
  BY Elements
<1>2. \A i \in DOMAIN raw : i \in ixs => raw[i] \in K
  BY <1>1
<1>3. Read!Kept \in Seq(K)
  BY <1>2, PickedHas DEF Read!Kept
<1>4. K \subseteq MayTell
  <2> SUFFICES ASSUME NEW x \in K PROVE x \in MayTell
    OBVIOUS
  <2>1. x \in RawItems /\ Read!Wanted(x)
    OBVIOUS
  <2>2. x \in Turns => (SessionOf[x] = call.live => x \in Folded)
    BY <2>1 DEF Read!Wanted
  <2> QED
    BY <2>1, <2>2 DEF MayTell
<1>5. ASSUME NEW s PROVE Read!Excerpts(s) \in Seq(MayTell)
  <2> PICK S, mine : /\ S = {item \in Turns \cup Summarised : Read!Home(item) = s}
                     /\ mine = Read!Only(Read!Kept, S)
    OBVIOUS
  <2>1. mine \in Seq(K \cap S)
    BY <1>3, OnlyHas
  <2>2. mine \in Seq(MayTell)
    BY <1>4, <2>1, Larger
  <2>3. Read!Upto(SessionCap, mine) \in Seq(MayTell)
    BY <2>2, UptoHas DEF Recalled
  <2>4. Read!Only(<<s>> \o Log, Read!ToSet(mine)) \in Seq(MayTell)
    <3>1. <<s>> \in Seq({s} \cup Turns) /\ Log \in Seq({s} \cup Turns)
      BY Larger DEF Recalled
    <3> PICK w : w = <<s>> \o Log
      OBVIOUS
    <3>2. w \in Seq({s} \cup Turns)
      BY <3>1, JoinedHas
    <3> PICK N, dated : N = Read!ToSet(mine) /\ dated = Read!Only(w, N)
      OBVIOUS
    <3>3. dated \in Seq(({s} \cup Turns) \cap N)
      BY <3>2, OnlyHas
    <3>4. ({s} \cup Turns) \cap N \subseteq MayTell
      BY <2>2, ToSetHas
    <3>5. dated \in Seq(MayTell)
      BY <3>3, <3>4, Larger
    <3> QED
      BY <3>5
  <2>5. Read!Excerpts(s) \in {Read!Upto(SessionCap, mine), Read!Only(<<s>> \o Log, Read!ToSet(mine)), mine}
    BY DEF Read!Excerpts
  <2> QED
    BY <2>2, <2>3, <2>4, <2>5
<1>6. Read!Homes \in Seq(Read!Sessions)
  <2> PICK k : k = Read!Kept
    OBVIOUS
  <2>1. Len(k) \in Nat /\ DOMAIN k = 1 .. Len(k) /\ \A i \in 1 .. Len(k) : k[i] \in K
    BY <1>3, Elements
  <2>2. \A x \in K : Read!Home(x) \in Read!Sessions
    BY DEF Read!Home, Read!Sessions, RawItems, Read!Audible
  <2> PICK all : all = [i \in DOMAIN k |-> Read!Home(k[i])]
    OBVIOUS
  <2>3. all \in [1 .. Len(k) -> Read!Sessions]
    BY <2>1, <2>2
  <2>4. all \in Seq(Read!Sessions)
    BY <2>1, <2>3, Sequence
  <2> PICK first : first = {i \in DOMAIN all : \A j \in 1 .. i - 1 : all[j] # all[i]}
    OBVIOUS
  <2>5. \A i \in DOMAIN all : i \in first => all[i] \in Read!Sessions
    BY <2>4, Elements
  <2>6. Read!Picked(all, first) \in Seq(Read!Sessions)
    BY <2>4, <2>5, PickedHas
  <2> QED
    BY <2>6 DEF Read!Homes
<1> QED
  BY <1>5, <1>6

LEMMA UnheardAre ==
    ASSUME Recalled, NEW s
    PROVE  Read!Unheard(s) \in Seq(MayTell)
<1> PICK S, H : /\ S = {t \in Turns : SessionOf[t] = s}
                /\ H = {t \in Read!Audible \ placed : (s = call.live => t \in Folded)
                                                    /\ (Read!Gated => t \in call.words)}
  OBVIOUS
<1>1. Log \in Seq(Turns) /\ WindowTurns \in Nat
  BY DEF Recalled
<1>2. Read!Only(Log, S) \in Seq(Turns \cap S)
  BY <1>1, OnlyHas
<1>3. Read!Page(s) \in Seq(Turns \cap S)
  BY <1>1, <1>2, UptoHas DEF Read!Page
<1>4. Read!Only(Read!Page(s), H) \in Seq((Turns \cap S) \cap H)
  BY <1>3, OnlyHas
<1>5. (Turns \cap S) \cap H \subseteq MayTell
  BY DEF MayTell, RawItems
<1>6. Read!Only(Read!Page(s), H) \in Seq(MayTell)
  BY <1>4, <1>5, Larger
<1> QED
  BY <1>6 DEF Read!Unheard

LEMMA AddedAre ==
    ASSUME Recalled, NEW s
    PROVE  Read!Added(s) \in Seq(MayTell)
<1> PICK S : S = Turns \ Read!ToSet(Read!Excerpts(s))
  OBVIOUS
<1>1. Read!Only(Read!Unheard(s), S) \in Seq(MayTell \cap S)
  BY UnheardAre, OnlyHas
<1>2. Read!Only(Read!Unheard(s), S) \in Seq(MayTell)
  BY <1>1, Larger
<1> QED
  BY <1>2 DEF Read!Added

LEMMA NoneToldYet == Read!ToSet(<<>>) = {} /\ \A P : <<>> \in Seq(P)
BY DEF Read!ToSet

\* Nothing is told before the first call.
LEMMA ReadStarts == ASSUME Recalled, Read!Init PROVE RecallInv
<1>1. rivals \in SUBSET SUBSET Beliefs
  BY DEF Recalled, Read!Init
<1>2. /\ status \in [Beliefs -> {"draft", "active", "superseded", "retracted"}]
      /\ \A b \in Beliefs : status[b] # "superseded"
  BY DEF Read!Init
<1>3. StoreHolds
  BY <1>1, <1>2 DEF StoreHolds
<1>4. GhostForm
  BY DEF Read!Init, GhostForm, Read!NoneRead
<1>5. CallForm
  BY DEF Read!Init, CallForm, Read!NoCall
<1>6. at = "idle" /\ raw = <<>> /\ groups = <<>> /\ parts = <<>>
  BY DEF Read!Init
<1> QED
  BY <1>3, <1>4, <1>5, <1>6, NoneToldYet DEF RecallInv

\* What could be read once in a call stays told in good faith.
LEMMA LinesGrow ==
    ASSUME call' = call, could.read \subseteq could'.read, could.permit \subseteq could'.permit
    PROVE  /\ \A l : Disclosable(l) => Disclosable(l)'
           /\ \A l : NotEchoed(l) => NotEchoed(l)'
           /\ Tellable \subseteq Tellable'
<1>1. \A l : Disclosable(l) => Disclosable(l)'
  BY DEF Disclosable, Read!Heard
<1>2. \A l : NotEchoed(l) => NotEchoed(l)'
  BY DEF NotEchoed
<1>3. Tellable \subseteq Tellable'
  BY <1>1, <1>2, Zenon DEF Tellable, Things, Lanes, Read!Sessions
<1> QED
  BY <1>1, <1>2, <1>3

\* A write leaves the call alone, and the reader sees more at most.
LEMMA WriteKeeps ==
    ASSUME RecallInv, Read!Write, StoreHolds'
    PROVE  RecallInv'
<1>1. /\ at' = at /\ call' = call /\ raw' = raw /\ groups' = groups /\ parts' = parts /\ found' = found
      /\ could' = IF at = "idle" THEN could ELSE Read!Seen(could, Read!Now')
  BY DEF Read!Write
<1>2. GhostForm /\ CallForm
  BY DEF RecallInv
<1>3. /\ GhostForm' /\ could.read \subseteq could'.read /\ could.permit \subseteq could'.permit
      /\ at # "idle" => Read!Now'.read \subseteq could'.read /\ Read!Now'.permit \subseteq could'.permit
  <2>1. CASE at = "idle"
    BY <1>1, <1>2, <2>1 DEF GhostForm
  <2>2. CASE at # "idle"
    <3> PICK now : now = Read!Now'
      OBVIOUS
    <3>1. could' = [could EXCEPT !.read = could.read \cup now.read, !.permit = could.permit \cup now.permit]
      BY <1>1, <2>2 DEF Read!Seen
    <3>2. could' = [read |-> could.read \cup now.read, permit |-> could.permit \cup now.permit,
                    gone |-> could.gone]
      BY <1>2, <3>1 DEF GhostForm
    <3>3. /\ could'.read = could.read \cup now.read
          /\ could'.permit = could.permit \cup now.permit /\ could'.gone = could.gone
      BY <3>2
    <3> QED
      BY <3>2, <3>3 DEF GhostForm
  <2> QED
    BY <2>1, <2>2
<1>4. Read!Now'.read = Legible' /\ Read!Now'.permit = Permitted'
  BY DEF Read!Now, Legible, Permitted
<1>5. (at # "idle" => SeesNow)'
  BY <1>1, <1>3, <1>4 DEF SeesNow
<1>6. CallForm'
  BY <1>1, <1>2 DEF CallForm
<1>7. /\ raw' \in Seq(RawItems)' /\ groups' \in Seq(Read!Sessions)'
      /\ at' \in {"render", "walk"} => found' \in Seq(Beliefs)
  BY <1>1 DEF RecallInv, RawItems, Read!Sessions, Read!Audible, Read!Heard
<1>8. ASSUME at' = "render" PROVE found' \in Seq(could'.read)
  <2>1. found \in Seq(could.read)
    BY <1>1, <1>8 DEF RecallInv
  <2> QED
    BY <1>1, <1>3, <2>1, Larger
<1>9. ASSUME at' # "done" PROVE parts' \in Seq(Tellable')
  <2>1. parts \in Seq(Tellable)
    BY <1>1, <1>9 DEF RecallInv
  <2>2. Tellable \subseteq Tellable'
    BY <1>1, <1>3, LinesGrow
  <2> QED
    BY <1>1, <2>1, <2>2, Larger
<1>10. ASSUME at' = "done" PROVE \A l \in Read!ToSet(parts') : Disclosable(l)' /\ NotEchoed(l)'
  <2>1. \A l \in Read!ToSet(parts) : Disclosable(l) /\ NotEchoed(l)
    BY <1>1, <1>10 DEF RecallInv
  <2>2. \A l : Disclosable(l) => Disclosable(l)'
    BY <1>1, <1>3, LinesGrow
  <2>3. \A l : NotEchoed(l) => NotEchoed(l)'
    BY <1>1, <1>3, LinesGrow
  <2> QED
    BY <1>1, <2>1, <2>2, <2>3
<1>11. Read!ToSet(parts)' = Read!ToSet(parts')
  BY DEF Read!ToSet
<1> QED
  BY <1>3, <1>5, <1>6, <1>7, <1>8, <1>9, <1>10, <1>11 DEF RecallInv

LEMMA StoreStepKeeps == ASSUME Recalled, RecallInv, Read!StoreStep PROVE RecallInv'
<1>1. StoreHolds
  BY DEF RecallInv
<1>2. ASSUME NEW b \in Beliefs, Read!Retract(b) PROVE RecallInv'
  <2>1. StoreHolds'
    BY <1>1, <1>2 DEF Read!Retract, StoreHolds
  <2> QED
    BY <1>2, <2>1, WriteKeeps DEF Read!Retract
<1>3. ASSUME NEW b \in Beliefs, Read!Supersede(b) PROVE RecallInv'
  <2>1. Newer[b] \in Beliefs
    BY <1>3 DEF Recalled, Read!Supersede
  <2>2. StoreHolds'
    <3> PICK c \in Beliefs : c = Newer[b]
      BY <2>1
    <3>1. status' = [status EXCEPT ![b] = "superseded", ![c] = "active"] /\ rivals' = rivals
      BY <1>3 DEF Read!Supersede
    <3>2. \A x \in Beliefs : status'[x] = IF x = c THEN "active"
                                         ELSE IF x = b THEN "superseded" ELSE status[x]
      BY <1>1, <3>1 DEF StoreHolds
    <3>3. status' \in [Beliefs -> {"draft", "active", "superseded", "retracted"}]
      BY <1>1, <3>1 DEF StoreHolds
    <3>4. \A x \in Beliefs : status'[x] = "superseded" => Newer[x] \in Beliefs
      <4> SUFFICES ASSUME NEW x \in Beliefs, status'[x] = "superseded" PROVE Newer[x] \in Beliefs
        OBVIOUS
      <4>1. x = b \/ status[x] = "superseded"
        BY <3>2
      <4> QED
        BY <1>1, <2>1, <4>1 DEF StoreHolds
    <3> QED
      BY <1>1, <3>1, <3>3, <3>4 DEF StoreHolds
  <2> QED
    BY <1>3, <2>2, WriteKeeps DEF Read!Supersede
<1>4. ASSUME NEW b \in Beliefs, Read!MakePrivate(b) \/ Read!Grant(b) \/ Read!Revoke(b)
      PROVE  RecallInv'
  <2>1. status' = status /\ rivals' = rivals /\ Read!Write
    BY <1>4 DEF Read!MakePrivate, Read!Grant, Read!Revoke
  <2>2. StoreHolds'
    BY <1>1, <2>1 DEF StoreHolds
  <2> QED
    BY <2>1, <2>2, WriteKeeps
<1>5. ASSUME NEW t \in Turns, Read!Unlearn(t) PROVE RecallInv'
  <2>1. status' = status /\ rivals' = rivals /\ Read!Write
    BY <1>5 DEF Read!Unlearn
  <2>2. StoreHolds'
    BY <1>1, <2>1 DEF StoreHolds
  <2> QED
    BY <2>1, <2>2, WriteKeeps
<1> QED
  BY <1>2, <1>3, <1>4, <1>5 DEF Read!StoreStep

\* Lines of what may be read right now.
NowTold ==
    {l \in [lane : Lanes, of : SUBSET Things, cost : {1, 2}] :
        \/ l.lane \in {"contradiction", "past"} /\ l.of \subseteq Permitted
        \/ l.lane \in BeliefLanes /\ l.of \subseteq Legible}

LEMMA NowTolds ==
    ASSUME NEW b \in Beliefs
    PROVE  /\ b \in Permitted => Read!Line("past", {b}, 1) \in NowTold
           /\ \A lane \in BeliefLanes : b \in Legible => Read!Line(lane, {b}, 1) \in NowTold
<1>1. {b} \subseteq Things
  BY DEF Things
<1>2. ASSUME b \in Permitted PROVE Read!Line("past", {b}, 1) \in NowTold
  BY <1>1, <1>2 DEF NowTold, Lanes, Read!Line
<1>3. ASSUME NEW lane \in BeliefLanes, b \in Legible PROVE Read!Line(lane, {b}, 1) \in NowTold
  BY <1>1, <1>3 DEF NowTold, Lanes, Read!Line, BeliefLanes
<1> QED
  BY <1>2, <1>3

LEMMA LegibleTold ==
    ASSUME NEW lane \in BeliefLanes
    PROVE  \A b \in Legible : Read!Line(lane, {b}, 1) \in NowTold
<1> SUFFICES ASSUME NEW b \in Legible PROVE Read!Line(lane, {b}, 1) \in NowTold
  OBVIOUS
<1>1. b \in Beliefs
  BY DEF Legible
<1> QED
  BY <1>1, NowTolds

LEMMA RivalsTold ==
    ASSUME NEW r \in SUBSET Beliefs, \A b \in r : Read!CanRead(b)
    PROVE  Read!Line("contradiction", r, 1) \in NowTold
<1>1. r \subseteq Things /\ r \subseteq Permitted
  BY DEF Things, Permitted
<1> QED
  BY <1>1 DEF NowTold, Lanes, Read!Line

\* Once the call has begun, what may be read now may be told.
LEMMA NowIsTellable == ASSUME SeesNow PROVE NowTold \subseteq Tellable
<1> SUFFICES ASSUME NEW l \in NowTold PROVE l \in Tellable
  OBVIOUS
<1>1. l \in [lane : Lanes, of : SUBSET Things, cost : {1, 2}]
  BY DEF NowTold
<1>2. CASE l.lane \in {"contradiction", "past"} /\ l.of \subseteq Permitted
  BY <1>1, <1>2 DEF SeesNow, Tellable, Disclosable, NotEchoed
<1>3. CASE l.lane \in BeliefLanes /\ l.of \subseteq Legible
  BY <1>1, <1>3 DEF SeesNow, Tellable, Disclosable, NotEchoed, BeliefLanes
<1> QED
  BY <1>2, <1>3 DEF NowTold

\* The lanes of the tail and of the other answers, as they stand.
LEMMA LanesNow ==
    ASSUME Recalled, NEW lane \in BeliefLanes, NEW kind, NEW limit \in Nat
    PROVE  Read!AsLines(lane, Read!RowsOfKind(kind, limit)) \in Seq(NowTold)
<1> PICK bs : bs = Read!RowsOfKind(kind, limit)
  OBVIOUS
<1>1. bs \in Seq(Legible)
  BY RowsAre DEF Recalled
<1>2. \A b \in Legible : Read!Line(lane, {b}, 1) \in NowTold
  BY NowTolds DEF Legible
<1> QED
  BY <1>1, <1>2, AsLinesHas

LEMMA RivalsNow ==
    ASSUME Recalled, StoreHolds
    PROVE  Read!OpenContradictions \in Seq(NowTold)
<1>1. \A r \in rivals : (\A b \in r : Read!CanRead(b)) => Read!Line("contradiction", r, 1) \in NowTold
  BY RivalsTold DEF StoreHolds
<1> QED
  BY <1>1, ContradictionsAre DEF Recalled, StoreHolds

LEMMA LengthOfRanks == ASSUME Recalled PROVE Len(Rank) \in Nat
<1>1. Rank \in Seq(Beliefs)
  BY DEF Recalled
<1> QED
  BY <1>1, Elements

\* A call begins with what may be read at that moment.
Honest(l) == l.lane = "record" \/ l \in NowTold

LEMMA BeginKeeps ==
    ASSUME RecallInv, NEW what, NEW next, NEW cursor, NEW lines,
           Read!Begin(what, next, cursor, lines), next \notin {"idle", "render"},
           what = [route |-> what.route, words |-> what.words, live |-> what.live, score |-> what.score],
           next = "walk" => cursor \in Seq(Beliefs),
           IF next = "done" THEN \A l \in Read!ToSet(lines) : Honest(l) ELSE lines = <<>>
    PROVE  RecallInv'
<1>1. /\ at' = next /\ call' = what /\ could' = Read!Now /\ found' = cursor /\ parts' = lines
      /\ raw' = <<>> /\ groups' = <<>>
      /\ status' = status /\ acl' = acl /\ rivals' = rivals
  BY DEF Read!Begin, Read!rows
<1>2. StoreHolds'
  BY <1>1 DEF RecallInv, StoreHolds
<1>3. could' = [read |-> Legible, permit |-> Permitted, gone |-> forgotten]
  BY <1>1 DEF Read!Now, Legible, Permitted
<1>4. GhostForm' /\ could'.read = Legible /\ could'.permit = Permitted
  BY <1>3 DEF GhostForm
<1>5. CallForm'
  BY <1>1 DEF CallForm
<1>6. Legible' = Legible /\ Permitted' = Permitted
  BY <1>1 DEF Legible, Permitted, Read!Readable, Read!CanRead
<1>7. SeesNow'
  BY <1>4, <1>6 DEF SeesNow
<1>8. <<>> \in Seq(RawItems)' /\ <<>> \in Seq(Read!Sessions)' /\ <<>> \in Seq(Tellable)'
  BY NoneToldYet
<1>9. ASSUME next = "done" PROVE \A l \in Read!ToSet(lines) : (Disclosable(l) /\ NotEchoed(l))'
  <2> SUFFICES ASSUME NEW l \in Read!ToSet(lines) PROVE (Disclosable(l) /\ NotEchoed(l))'
    OBVIOUS
  <2>1. CASE l.lane = "record"
    BY <2>1 DEF Disclosable, NotEchoed
  <2>2. CASE l \in NowTold /\ l.lane \in {"contradiction", "past"}
    <3>1. l.of \subseteq could'.permit
      BY <1>4, <2>2 DEF NowTold, BeliefLanes
    <3> QED
      BY <2>2, <3>1 DEF Disclosable, NotEchoed
  <2>3. CASE l \in NowTold /\ l.lane \in BeliefLanes
    <3>1. l.of \subseteq could'.read
      BY <1>4, <2>3 DEF NowTold, BeliefLanes
    <3> QED
      BY <2>3, <3>1 DEF Disclosable, NotEchoed, BeliefLanes
  <2> QED
    BY <1>9, <2>1, <2>2, <2>3 DEF Honest, NowTold
<1>10. (\A l \in Read!ToSet(parts) : Disclosable(l) /\ NotEchoed(l))' <=>
           \A l \in Read!ToSet(lines) : (Disclosable(l) /\ NotEchoed(l))'
  BY <1>1 DEF Read!ToSet
<1> QED
  BY <1>1, <1>2, <1>4, <1>5, <1>7, <1>8, <1>9, <1>10 DEF RecallInv

LEMMA HonestLines ==
    ASSUME NEW lines \in Seq(NowTold)
    PROVE  \A l \in Read!ToSet(lines) : Honest(l)
BY ToSetHas DEF Honest

LEMMA NoCallIs ==
    Read!NoCall = [route |-> Read!NoCall.route, words |-> Read!NoCall.words,
                   live |-> Read!NoCall.live, score |-> Read!NoCall.score]
BY DEF Read!NoCall

LEMMA AskKeeps ==
    ASSUME Recalled, RecallInv, NEW route, NEW words, NEW live, Read!Ask(route, words, live)
    PROVE  RecallInv'
<1> PICK what, next : /\ what = [Read!NoCall EXCEPT !.route = route, !.words = words, !.live = live]
                      /\ next = IF route \in {"precision", "preference"} THEN "probe" ELSE "search"
  OBVIOUS
<1>1. Read!Begin(what, next, <<>>, <<>>)
  BY DEF Read!Ask
<1>2. what = [route |-> what.route, words |-> what.words, live |-> what.live, score |-> what.score]
  BY DEF Read!NoCall
<1>3. next \in {"probe", "search"}
  OBVIOUS
<1> QED
  BY <1>1, <1>2, <1>3, BeginKeeps

LEMMA AnswerKeeps ==
    ASSUME RecallInv, NEW lines \in Seq(NowTold), Read!Answer(lines)
    PROVE  RecallInv'
<1>1. Read!Begin(Read!NoCall, "done", <<>>, lines)
  BY DEF Read!Answer
<1> PICK what : what = Read!NoCall
  OBVIOUS
<1>2. Read!Begin(what, "done", <<>>, lines)
  BY <1>1
<1>3. what = [route |-> what.route, words |-> what.words, live |-> what.live, score |-> what.score]
  BY NoCallIs
<1>4. \A l \in Read!ToSet(lines) : Honest(l)
  BY HonestLines
<1> QED
  BY <1>2, <1>3, <1>4, BeginKeeps

LEMMA StaticBlockKeeps == ASSUME Recalled, RecallInv, Read!StaticBlock PROVE RecallInv'
<1> PICK a, b, c, d :
      /\ a = Read!AsLines("directive", Read!RowsOfKind("directive", Limit))
      /\ b = Read!AsLines("critical", Read!RowsOfKind("critical", Limit))
      /\ c = Read!OpenContradictions
      /\ d = Read!AsLines("profile", Read!RowsOfKind("fact", Len(Rank)))
  OBVIOUS
<1>1. Limit \in Nat /\ Len(Rank) \in Nat
  BY LengthOfRanks DEF Recalled
<1>2. {"directive", "critical", "profile"} \subseteq BeliefLanes
  BY DEF BeliefLanes
<1>3. a \in Seq(NowTold) /\ b \in Seq(NowTold) /\ d \in Seq(NowTold)
  BY <1>1, <1>2, LanesNow
<1>4. c \in Seq(NowTold)
  BY RivalsNow DEF RecallInv
<1>5. a \o b \in Seq(NowTold)
  BY <1>3, JoinedHas
<1>6. (a \o b) \o c \in Seq(NowTold)
  BY <1>4, <1>5, JoinedHas
<1> PICK lines : lines = ((a \o b) \o c) \o d
  OBVIOUS
<1>7. lines \in Seq(NowTold)
  BY <1>3, <1>6, JoinedHas
<1>8. Read!Answer(lines)
  BY DEF Read!StaticBlock
<1> QED
  BY <1>7, <1>8, AnswerKeeps

LEMMA AskAboutKeeps == ASSUME Recalled, RecallInv, Read!AskAbout PROVE RecallInv'
<1> PICK a, b : /\ a = Read!AsLines("digest", Read!RowsOfKind("digest", 1))
                /\ b = Read!AsLines("fact", Read!RowsOfKind("fact", Len(Rank)))
  OBVIOUS
<1>1. 1 \in Nat /\ Len(Rank) \in Nat
  BY LengthOfRanks
<1>2. {"digest", "fact"} \subseteq BeliefLanes
  BY DEF BeliefLanes
<1>3. a \in Seq(NowTold) /\ b \in Seq(NowTold)
  BY <1>1, <1>2, LanesNow
<1> PICK lines : lines = a \o b
  OBVIOUS
<1>4. lines \in Seq(NowTold)
  BY <1>3, JoinedHas
<1>5. Read!Answer(lines)
  BY DEF Read!AskAbout
<1> QED
  BY <1>4, <1>5, AnswerKeeps

LEMMA ChangesKeeps == ASSUME Recalled, RecallInv, Read!Changes PROVE RecallInv'
<1> PICK bs, lines : bs = Read!Only(Rank, Permitted) /\ lines = Read!AsLines("past", bs)
  OBVIOUS
<1>1. bs \in Seq(Beliefs \cap Permitted)
  BY OnlyHas DEF Recalled
<1>2. \A b \in Beliefs \cap Permitted : Read!Line("past", {b}, 1) \in NowTold
  BY NowTolds
<1>3. lines \in Seq(NowTold)
  BY <1>1, <1>2, AsLinesHas
<1>4. Read!Answer(lines)
  BY DEF Read!Changes, Permitted
<1> QED
  BY <1>3, <1>4, AnswerKeeps

LEMMA HistoryKeeps == ASSUME RecallInv, NEW b \in Beliefs, Read!History(b) PROVE RecallInv'
<1> PICK what, cursor : what = Read!NoCall /\ cursor = <<b>>
  OBVIOUS
<1>1. Read!Begin(what, "walk", cursor, <<>>)
  BY DEF Read!History
<1>2. what = [route |-> what.route, words |-> what.words, live |-> what.live, score |-> what.score]
  BY NoCallIs
<1>3. cursor \in Seq(Beliefs)
  OBVIOUS
<1> QED
  BY <1>1, <1>2, <1>3, BeginKeeps

LEMMA RecordsKeeps == ASSUME RecallInv, NEW score, Read!Records(score) PROVE RecallInv'
<1>1. PICK what, lines :
        /\ Read!Begin(what, "done", <<>>, lines)
        /\ what = [route |-> what.route, words |-> what.words, live |-> what.live, score |-> what.score]
        /\ \A l \in Read!ToSet(lines) : Honest(l)
  <2> PICK held : held = Read!BestRecords(score)
    OBVIOUS
  <2> PICK order : order = Read!SetToSeq(DOMAIN held)
    OBVIOUS
  <2> PICK what, lines :
        /\ what = [Read!NoCall EXCEPT !.route = "records", !.score = score]
        /\ lines = [i \in DOMAIN order |-> Read!Line("record", {order[i]}, held[order[i]])]
    OBVIOUS
  <2>1. Read!Begin(what, "done", <<>>, lines)
    BY DEF Read!Records
  <2>2. what = [route |-> what.route, words |-> what.words, live |-> what.live, score |-> what.score]
    BY DEF Read!NoCall
  <2>3. \A l \in Read!ToSet(lines) : Honest(l)
    BY DEF Read!ToSet, Honest, Read!Line
  <2> QED
    BY <2>1, <2>2, <2>3
<1> QED
  BY <1>1, BeginKeeps

\* A step within a call sees the store as it is and adds to what is told.
LEMMA CallHas ==
    ASSUME RecallInv, NEW from, NEW to, Read!Step(from, to), from \notin {"idle", "done"}
    PROVE  /\ SeesNow /\ parts \in Seq(Tellable) /\ raw \in Seq(RawItems)
           /\ groups \in Seq(Read!Sessions) /\ StoreHolds /\ CallForm
BY DEF RecallInv, Read!Step

LEMMA StepKeeps ==
    ASSUME RecallInv, NEW from, NEW to, Read!Step(from, to), from \notin {"idle", "done"}, to # "idle",
           CallForm', call'.live = call.live, raw' \in Seq(RawItems), groups' \in Seq(Read!Sessions),
           to \in {"render", "walk"} => found' \in Seq(Beliefs),
           to = "render" => found' \in Seq(could.read), parts' \in Seq(Tellable)
    PROVE  RecallInv'
<1>1. /\ at' = to /\ could' = could
      /\ status' = status /\ acl' = acl /\ rivals' = rivals
  BY DEF Read!Step, Read!rows
<1>2. StoreHolds'
  BY <1>1 DEF RecallInv, StoreHolds
<1>3. GhostForm'
  BY <1>1 DEF RecallInv, GhostForm
<1>4. Legible' = Legible /\ Permitted' = Permitted
  BY <1>1 DEF Legible, Permitted, Read!Readable, Read!CanRead
<1>5. SeesNow'
  <2>1. SeesNow
    BY CallHas
  <2> QED
    BY <1>1, <1>4, <2>1 DEF SeesNow
<1>6. \A l : Disclosable(l)' = Disclosable(l)
  BY <1>1 DEF Disclosable, Read!Heard
<1>7. \A l : NotEchoed(l)' = NotEchoed(l)
  BY DEF NotEchoed
<1>8. Tellable' = Tellable
  BY <1>6, <1>7, Zenon DEF Tellable, Things, Lanes, Read!Sessions
<1>9. RawItems' = RawItems /\ (Read!Sessions)' = Read!Sessions
  BY DEF RawItems, Read!Audible, Read!Heard, Read!Sessions
<1>10. (\A l \in Read!ToSet(parts) : Disclosable(l) /\ NotEchoed(l))'
  <2>1. Read!ToSet(parts') \subseteq Tellable
    BY ToSetHas
  <2>2. \A l \in Read!ToSet(parts') : Disclosable(l) /\ NotEchoed(l)
    BY <2>1 DEF Tellable
  <2>3. (Read!ToSet(parts))' = Read!ToSet(parts')
    BY DEF Read!ToSet
  <2> QED
    BY <1>6, <1>7, <2>2, <2>3, Zenon
<1>11. /\ (raw \in Seq(RawItems))' /\ (groups \in Seq(Read!Sessions))' /\ (parts \in Seq(Tellable))'
  BY <1>8, <1>9
<1>12. /\ at' \in {"render", "walk"} => found' \in Seq(Beliefs)
       /\ at' = "render" => found' \in Seq(could'.read)
  BY <1>1
<1> QED
  BY <1>2, <1>3, <1>5, <1>10, <1>11, <1>12, Zenon DEF RecallInv

LEMMA ProbeKeeps == ASSUME Recalled, RecallInv, Read!Probe PROVE RecallInv'
<1>1. PICK result \in Read!Rankings, to \in {"fill", "search"} :
        /\ Read!Step("probe", to) /\ raw' = result
        /\ call' \in {call, [call EXCEPT !.route = "factual"]}
        /\ groups' = groups /\ parts' = parts
  BY DEF Read!Probe
<1>2. SeesNow /\ parts \in Seq(Tellable) /\ groups \in Seq(Read!Sessions) /\ CallForm
  BY <1>1, CallHas
<1>3. CallForm' /\ call'.live = call.live
  BY <1>1, <1>2 DEF CallForm
<1>4. result \in Seq(RawItems)
  BY RankingsAre
<1> QED
  BY <1>1, <1>2, <1>3, <1>4, StepKeeps

LEMMA SearchKeeps == ASSUME Recalled, RecallInv, Read!Search PROVE RecallInv'
<1>1. PICK S \in SUBSET {b \in Beliefs : Read!Readable(b) /\ Kind[b] # "digest"} :
          found' = Read!Only(Rank, S)
  BY DEF Read!Search
<1>2. /\ Read!Step("search", "render")
      /\ call' = call /\ raw' = raw /\ groups' = groups /\ parts' = parts
  BY DEF Read!Search
<1>3. /\ SeesNow /\ parts \in Seq(Tellable) /\ raw \in Seq(RawItems)
      /\ groups \in Seq(Read!Sessions) /\ CallForm
  BY <1>2, CallHas
<1>4. found' \in Seq(Beliefs \cap S)
  BY <1>1, OnlyHas DEF Recalled
<1>5. Beliefs \cap S \subseteq Beliefs /\ Beliefs \cap S \subseteq could.read
  BY <1>3 DEF SeesNow, Legible
<1>6. found' \in Seq(Beliefs) /\ found' \in Seq(could.read)
  BY <1>4, <1>5, Larger
<1>7. CallForm'
  BY <1>2, <1>3 DEF CallForm
<1> QED
  BY <1>2, <1>3, <1>6, <1>7, StepKeeps

LEMMA HeadAndTail ==
    ASSUME NEW M, NEW s \in Seq(M), s # <<>>
    PROVE  Head(s) \in M /\ Tail(s) \in Seq(M)
OBVIOUS

LEMMA RenderKeeps == ASSUME Recalled, RecallInv, Read!Render PROVE RecallInv'
<1> PICK b : b = Head(found)
  OBVIOUS
<1> PICK of : of = IF Kind[b] = "fact" /\ Read!Cardinality(Read!Visible(b)) > 1
                   THEN {b} \cup Read!Visible(b) ELSE {b}
  OBVIOUS
<1> PICK line : line = Read!Line("belief", of, 1)
  OBVIOUS
<1>1. /\ found # <<>> /\ Read!Step("render", "render")
      /\ call' = call /\ raw' = raw /\ groups' = groups
      /\ IF Read!Total(parts) + line.cost > Room
         THEN found' = <<>> /\ parts' = parts
         ELSE found' = Tail(found) /\ parts' = Append(parts, line)
  BY DEF Read!Render
<1>2. /\ SeesNow /\ parts \in Seq(Tellable) /\ raw \in Seq(RawItems)
      /\ groups \in Seq(Read!Sessions) /\ CallForm
  BY <1>1, CallHas
<1>3. found \in Seq(Beliefs) /\ found \in Seq(could.read)
  BY <1>1 DEF RecallInv, Read!Step
<1>4. b \in Beliefs /\ b \in could.read /\ Tail(found) \in Seq(Beliefs) /\ Tail(found) \in Seq(could.read)
  BY <1>1, <1>3, HeadAndTail
<1>5. of \in SUBSET Beliefs /\ of \subseteq could.read
  <2>1. Read!Visible(b) \subseteq Legible
    BY DEF Read!Visible, Read!Chain, Legible
  <2>2. Legible \subseteq Beliefs
    BY DEF Legible
  <2> QED
    BY <1>2, <1>4, <2>1, <2>2 DEF SeesNow
<1>6. line \in Tellable
  BY <1>5, BeliefsTold DEF BeliefLanes
<1>7. found' \in Seq(Beliefs) /\ found' \in Seq(could.read)
  BY <1>1, <1>4, NoneToldYet
<1>8. parts' \in Seq(Tellable)
  BY <1>1, <1>2, <1>6
<1>9. CallForm'
  BY <1>1, <1>2 DEF CallForm
<1> QED
  BY <1>1, <1>2, <1>7, <1>8, <1>9, StepKeeps

LEMMA GatherKeeps == ASSUME Recalled, RecallInv, Read!Gather PROVE RecallInv'
<1>1. /\ Read!Step("render", "fill")
      /\ call' = call /\ groups' = groups /\ parts' = parts
      /\ raw' = raw \/ raw' \in Read!Rankings
  BY DEF Read!Gather
<1>2. /\ parts \in Seq(Tellable) /\ raw \in Seq(RawItems)
      /\ groups \in Seq(Read!Sessions) /\ CallForm
  BY <1>1, CallHas
<1>3. raw' \in Seq(RawItems)
  BY <1>1, <1>2, RankingsAre
<1>4. CallForm'
  BY <1>1, <1>2 DEF CallForm
<1> QED
  BY <1>1, <1>2, <1>3, <1>4, StepKeeps

LEMMA FillKeeps == ASSUME Recalled, RecallInv, Read!Fill PROVE RecallInv'
<1>1. PICK to : /\ to \in {"pack", "window"} /\ Read!Step("fill", to)
                /\ call' = call /\ raw' = raw
                /\ parts' = parts \/ parts' = parts \o Read!Filled
                /\ groups' = <<>> \/ groups' = Read!Homes
  BY DEF Read!Fill
<1>2. /\ parts \in Seq(Tellable) /\ raw \in Seq(RawItems)
      /\ groups \in Seq(Read!Sessions) /\ CallForm
  BY <1>1, CallHas
<1>3. Read!Homes \in Seq(Read!Sessions) /\ \A s : Read!Excerpts(s) \in Seq(MayTell)
  BY <1>2, KeptAre
<1>4. groups' \in Seq(Read!Sessions)
  BY <1>1, <1>3, NoneToldYet
<1>5. Read!Filled \in Seq(Tellable)
  <2>1. \A t \in MayTell : ToldIn(t, Tellable)
    BY ItemsTold
  <2>2. Room \in Int
    BY DEF Recalled
  <2> QED
    BY <1>2, <1>3, <2>1, <2>2, CostsAre, FilledHas
<1>6. parts' \in Seq(Tellable)
  <2>1. parts \o Read!Filled \in Seq(Tellable)
    BY <1>2, <1>5, JoinedHas
  <2> QED
    BY <1>1, <1>2, <2>1
<1>7. CallForm'
  BY <1>1, <1>2 DEF CallForm
<1> QED
  BY <1>1, <1>2, <1>4, <1>6, <1>7, StepKeeps

LEMMA WindowKeeps == ASSUME Recalled, RecallInv, Read!Window PROVE RecallInv'
<1> PICK s, room, heard : /\ s = Head(groups) /\ room = Room - Read!Total(parts)
                          /\ heard = Read!Added(s)
  OBVIOUS
<1>1. /\ Read!Step("window", "window") /\ groups # <<>>
      /\ call' = call /\ raw' = raw /\ groups' = Tail(groups)
  BY DEF Read!Window
<1>2. PICK ts : /\ parts' = parts \o Read!Block(s, ts, room).lines
                /\ ts = heard \/ ts \in Read!Arranged(Read!ToSet(heard), WindowTurns)
  BY DEF Read!Window
<1>3. /\ parts \in Seq(Tellable) /\ raw \in Seq(RawItems)
      /\ groups \in Seq(Read!Sessions) /\ CallForm
  BY <1>1, CallHas
<1>4. heard \in Seq(MayTell)
  BY AddedAre
<1>5. ts \in Seq(MayTell)
  <2>1. Read!ToSet(heard) \subseteq MayTell
    BY <1>4, ToSetHas
  <2>2. IsFiniteSet(Read!ToSet(heard))
    <3>1. MayTell \subseteq RawItems
      BY DEF MayTell
    <3> QED
      BY <2>1, <3>1, RawItemsFinite, FS_Subset
  <2>3. WindowTurns \in Nat
    BY DEF Recalled
  <2>4. ts \in Read!Arranged(Read!ToSet(heard), WindowTurns) => ts \in Seq(Read!ToSet(heard))
    BY <2>2, <2>3, ArrangedAre
  <2> QED
    BY <1>2, <1>4, <2>1, <2>4, Larger
<1>6. room \in Int
  BY <1>3, CostsAre, TotalIs DEF Recalled
<1> PICK block : block = Read!Block(s, ts, room)
  OBVIOUS
<1>7. block \in Blocks(Tellable)
  <2>1. \A t \in MayTell : ToldIn(t, Tellable)
    BY ItemsTold
  <2> QED
    BY <1>5, <1>6, <2>1, BlockHas
<1>8. block.lines \in Seq(Tellable)
  BY <1>7 DEF Blocks
<1>9. parts' \in Seq(Tellable)
  <2>1. parts' = parts \o block.lines
    BY <1>2
  <2> QED
    BY <1>3, <1>8, <2>1, JoinedHas
<1>10. groups' \in Seq(Read!Sessions)
  BY <1>1, <1>3, HeadAndTail
<1>11. CallForm'
  BY <1>1, <1>3 DEF CallForm
<1> QED
  BY <1>1, <1>3, <1>9, <1>10, <1>11, StepKeeps

LEMMA WindowsDoneKeeps == ASSUME RecallInv, Read!WindowsDone PROVE RecallInv'
<1>1. PICK to : /\ to \in {"emit", "directives"} /\ Read!Step("window", to)
                /\ raw' = <<>> /\ groups' = <<>> /\ call' = call /\ parts' = parts
  BY DEF Read!WindowsDone
<1>2. parts \in Seq(Tellable) /\ CallForm
  BY <1>1, CallHas
<1>3. raw' \in Seq(RawItems) /\ groups' \in Seq(Read!Sessions)
  BY <1>1, NoneToldYet
<1>4. CallForm'
  BY <1>1, <1>2 DEF CallForm
<1> QED
  BY <1>1, <1>2, <1>3, <1>4, StepKeeps

\* What an action that only adds lines keeps.
LEMMA AddingKeeps ==
    ASSUME RecallInv, NEW from, NEW to, Read!Step(from, to), from \notin {"idle", "done"},
           to \notin {"idle", "render", "walk"},
           call' = call, raw' = raw, groups' = groups, NEW more \in Seq(Tellable),
           parts' = parts \o more
    PROVE  RecallInv'
<1>1. /\ parts \in Seq(Tellable) /\ raw \in Seq(RawItems)
      /\ groups \in Seq(Read!Sessions) /\ CallForm
  BY CallHas
<1>2. parts' \in Seq(Tellable)
  BY <1>1, JoinedHas
<1>3. CallForm'
  BY <1>1 DEF CallForm
<1> QED
  BY <1>1, <1>2, <1>3, StepKeeps

\* A lane of the tail.
LEMMA TailLaneKeeps ==
    ASSUME RecallInv, NEW from, NEW to, NEW lines \in Seq(NowTold), Read!TailLane(from, to, lines),
           from \notin {"idle", "done"}, to \notin {"idle", "render", "walk"}
    PROVE  RecallInv'
<1>1. /\ Read!Step(from, to) /\ call' = call /\ raw' = raw /\ groups' = groups
  BY DEF Read!TailLane
<1>2. PICK S : parts' = parts \o Read!Fitting(Read!Only(lines, S))
  BY DEF Read!TailLane
<1>3. SeesNow
  BY <1>1, CallHas
<1>4. Read!Only(lines, S) \in Seq(NowTold \cap S)
  BY OnlyHas
<1>5. NowTold \cap S \subseteq Tellable
  BY <1>3, NowIsTellable
<1>6. Read!Only(lines, S) \in Seq(Tellable)
  BY <1>4, <1>5, Larger
<1> PICK more : more = Read!Fitting(Read!Only(lines, S))
  OBVIOUS
<1>7. more \in Seq(Tellable)
  BY <1>6, FittingHas
<1>8. parts' = parts \o more
  BY <1>2
<1> QED
  BY <1>1, <1>7, <1>8, AddingKeeps

LEMMA DirectivesKeeps == ASSUME Recalled, RecallInv, Read!Directives PROVE RecallInv'
<1> PICK lines : lines = Read!AsLines("directive", Read!RowsOfKind("directive", MaxDirectives))
  OBVIOUS
<1>1. lines \in Seq(NowTold)
  BY LanesNow DEF Recalled, BeliefLanes
<1>2. Read!TailLane("directives", "contradictions", lines)
  BY DEF Read!Directives
<1> QED
  BY <1>1, <1>2, TailLaneKeeps

LEMMA ContradictionsKeeps == ASSUME Recalled, RecallInv, Read!Contradictions PROVE RecallInv'
<1> PICK lines : lines = Read!OpenContradictions
  OBVIOUS
<1>1. lines \in Seq(NowTold)
  BY RivalsNow DEF RecallInv
<1>2. Read!TailLane("contradictions", "critical", lines)
  BY DEF Read!Contradictions
<1> QED
  BY <1>1, <1>2, TailLaneKeeps

\* The rows of a kind that are not told yet.
LEMMA RestNow ==
    ASSUME Recalled, NEW lane \in BeliefLanes, NEW kind, NEW limit \in Nat, NEW S, NEW rest,
           rest = Read!Only(Read!RowsOfKind(kind, limit), S)
    PROVE  rest \in Seq(Legible) /\ Read!AsLines(lane, rest) \in Seq(NowTold)
<1>1. Read!RowsOfKind(kind, limit) \in Seq(Legible)
  BY RowsAre DEF Recalled
<1>2. rest \in Seq(Legible \cap S)
  BY <1>1, OnlyHas
<1>3. Legible \cap S \subseteq Legible
  OBVIOUS
<1>4. rest \in Seq(Legible)
  BY <1>2, <1>3, Larger
<1>5. \A b \in Legible : Read!Line(lane, {b}, 1) \in NowTold
  BY NowTolds DEF Legible
<1> QED
  BY <1>4, <1>5, AsLinesHas

LEMMA CriticalKeeps == ASSUME Recalled, RecallInv, Read!Critical PROVE RecallInv'
<1> PICK S : S = Beliefs \ UNION {l.of : l \in Read!ToSet(Read!OfLane({"belief"}))}
  OBVIOUS
<1> PICK rest : rest = Read!Only(Read!RowsOfKind("critical", Limit), S)
  OBVIOUS
<1> PICK lines : lines = Read!AsLines("critical", rest)
  OBVIOUS
<1>1. lines \in Seq(NowTold)
  BY RestNow DEF Recalled, BeliefLanes
<1>2. Read!TailLane("critical", "digests", lines)
  BY DEF Read!Critical
<1> QED
  BY <1>1, <1>2, TailLaneKeeps

LEMMA DigestsKeeps == ASSUME Recalled, RecallInv, Read!Digests PROVE RecallInv'
<1> PICK lines : lines = Read!AsLines("digest", Read!RowsOfKind("digest", Len(Rank)))
  OBVIOUS
<1>1. lines \in Seq(NowTold)
  BY LengthOfRanks, LanesNow DEF BeliefLanes
<1> PICK more : more = Read!Squeezed(lines)
  OBVIOUS
<1>2. /\ Read!Step("digests", "notes") /\ call' = call /\ raw' = raw /\ groups' = groups
      /\ parts' = parts \o more
  BY DEF Read!Digests
<1>3. NowTold \subseteq Tellable
  BY <1>2, CallHas, NowIsTellable
<1>4. more \in Seq(Tellable)
  BY <1>1, <1>3, SqueezedHas, Larger
<1> QED
  BY <1>2, <1>4, AddingKeeps

LEMMA NotesKeeps == ASSUME Recalled, RecallInv, Read!Notes PROVE RecallInv'
<1> PICK T : T = Beliefs \ (UNION {l.of : l \in Read!ToSet(Read!OfLane({"directive"}))}
               \cup {b \in Beliefs : Kind[b] = "directive" /\ Read!Line("belief", {b}, 1) \in Read!ToSet(parts)})
  OBVIOUS
<1> PICK rest : rest = Read!Only(Read!RowsOfKind("directive", Len(Rank)), T)
  OBVIOUS
<1>1. /\ Read!Step("notes", "emit") /\ call' = call /\ raw' = raw /\ groups' = groups
  BY DEF Read!Notes
<1>2. PICK S : parts' = parts \o Read!Fitting(Read!AsLines("directive", Read!Only(rest, S)))
  BY DEF Read!Notes
<1>3. rest \in Seq(Legible)
  BY LengthOfRanks, RestNow DEF BeliefLanes
<1> PICK some : some = Read!Only(rest, S)
  OBVIOUS
<1>4. some \in Seq(Legible)
  <2>1. some \in Seq(Legible \cap S)
    BY <1>3, OnlyHas
  <2>2. Legible \cap S \subseteq Legible
    OBVIOUS
  <2> QED
    BY <2>1, <2>2, Larger
<1>5. \A b \in Legible : Read!Line("directive", {b}, 1) \in NowTold
  <2>1. "directive" \in BeliefLanes
    BY DEF BeliefLanes
  <2> QED
    BY <2>1, LegibleTold
<1> PICK lines : lines = Read!AsLines("directive", some)
  OBVIOUS
<1>6. lines \in Seq(NowTold)
  BY <1>4, <1>5, AsLinesHas
<1> PICK more : more = Read!Fitting(lines)
  OBVIOUS
<1>7. more \in Seq(Tellable)
  <2>1. NowTold \subseteq Tellable
    BY <1>1, CallHas, NowIsTellable
  <2> QED
    BY <1>6, <2>1, FittingHas, Larger
<1>8. parts' = parts \o more
  BY <1>2
<1> QED
  BY <1>1, <1>7, <1>8, AddingKeeps

LEMMA EmitKeeps == ASSUME Recalled, RecallInv, Read!Emit PROVE RecallInv'
<1> PICK fit : fit = {n \in 0 .. Len(parts) : Read!Total(SubSeq(parts, 1, n)) <= Room}
  OBVIOUS
<1>1. /\ Read!Step("emit", "done") /\ call' = call /\ raw' = raw /\ groups' = groups
      /\ parts' = SubSeq(parts, 1, CHOOSE n \in fit : \A k \in fit : k <= n)
  BY DEF Read!Emit
<1>2. /\ parts \in Seq(Tellable) /\ raw \in Seq(RawItems)
      /\ groups \in Seq(Read!Sessions) /\ CallForm
  BY <1>1, CallHas
<1>3. fit \in SUBSET (0 .. Len(parts))
  OBVIOUS
<1>4. 0 \in fit
  <2>1. SubSeq(parts, 1, 0) = <<>> /\ 0 \in 0 .. Len(parts)
    BY <1>2
  <2>2. Room \in Nat
    BY DEF Recalled
  <2>3. Read!Total(SubSeq(parts, 1, 0)) <= Room
    <3>1. Read!Total(SubSeq(parts, 1, 0)) = 0
      BY <2>1, TotalOfNone
    <3> QED
      BY <2>2, <3>1
  <2> QED
    BY <2>1, <2>3
<1>5. parts' \in Seq(Tellable)
  BY <1>1, <1>2, <1>3, <1>4, CutAt
<1>6. CallForm'
  BY <1>1, <1>2 DEF CallForm
<1> QED
  BY <1>1, <1>2, <1>5, <1>6, StepKeeps

\* A link of a chain is told when it may be read, and leads to the next.
LEMMA WalkKeeps == ASSUME Recalled, RecallInv, Read!Walk PROVE RecallInv'
<1> PICK b : b = Head(found)
  OBVIOUS
<1> PICK on : on = (found # <<>> /\ Read!Linked(b))
  OBVIOUS
<1> PICK to : to = IF on THEN "walk" ELSE "done"
  OBVIOUS
<1>1. /\ Read!Step("walk", to) /\ call' = call /\ raw' = raw /\ groups' = groups
      /\ parts' = IF on THEN Append(parts, Read!Line("past", {b}, 1)) ELSE parts
      /\ found' = IF on /\ status[b] = "superseded" THEN <<Newer[b]>> ELSE <<>>
  BY DEF Read!Walk
<1>2. /\ SeesNow /\ parts \in Seq(Tellable) /\ raw \in Seq(RawItems)
      /\ groups \in Seq(Read!Sessions) /\ CallForm /\ StoreHolds
  BY <1>1, CallHas
<1>3. found \in Seq(Beliefs)
  BY <1>1 DEF RecallInv, Read!Step
<1>4. CallForm'
  BY <1>1, <1>2 DEF CallForm
<1>5. CASE on
  <2>1. b \in Beliefs /\ Read!CanRead(b)
    BY <1>3, <1>5, HeadAndTail DEF Read!Linked
  <2>2. Read!Line("past", {b}, 1) \in Tellable
    BY <1>2, <2>1, NowTolds, NowIsTellable DEF Permitted
  <2>3. parts' \in Seq(Tellable)
    BY <1>1, <1>2, <1>5, <2>2
  <2>4. status[b] = "superseded" => Newer[b] \in Beliefs
    BY <1>2, <2>1 DEF StoreHolds
  <2>5. found' \in Seq(Beliefs)
    BY <1>1, <2>4, NoneToldYet
  <2>6. to = "walk"
    BY <1>5
  <2> QED
    BY <1>1, <1>2, <1>4, <2>3, <2>5, <2>6, StepKeeps
<1>6. CASE ~on
  <2>1. to = "done" /\ parts' = parts
    BY <1>1, <1>6
  <2> QED
    BY <1>1, <1>2, <1>4, <2>1, StepKeeps
<1> QED
  BY <1>5, <1>6

\* The pieces of a session, and of all of them, one after the other.
LEMMA PiecesAre ==
    ASSUME Recalled, raw \in Seq(RawItems), NEW lane \in {"excerpt", "reply"}, NEW s
    PROVE  Read!Pieces(lane, s) \in Seq(Tellable)
<1> PICK all, ts : /\ all = Read!Excerpts(s) \o Read!Added(s)
                   /\ ts = IF lane = "reply" THEN Read!Only(all, Turns) ELSE all
  OBVIOUS
<1>1. all \in Seq(MayTell)
  BY KeptAre, AddedAre, JoinedHas
<1> PICK P : P = IF lane = "reply" THEN MayTell \cap Turns ELSE MayTell
  OBVIOUS
<1>2. ts \in Seq(P)
  <2>1. Read!Only(all, Turns) \in Seq(MayTell \cap Turns)
    BY <1>1, OnlyHas
  <2> QED
    BY <1>1, <2>1
<1>3. Len(ts) \in Nat /\ DOMAIN ts = 1 .. Len(ts) /\ \A i \in 1 .. Len(ts) : ts[i] \in P
  BY <1>2, Elements
<1>4. \A t \in P : Read!Line(Read!LaneOf(t, lane), {t}, 1) \in Tellable
  <2>1. CASE lane = "excerpt"
    BY <2>1, ItemsTold DEF ToldIn
  <2>2. CASE lane = "reply"
    BY <2>2, ItemsTold DEF Read!LaneOf
  <2> QED
    BY <2>1, <2>2
<1> PICK u : u = [j \in DOMAIN ts |-> Read!Line(Read!LaneOf(ts[j], lane), {ts[j]}, 1)]
  OBVIOUS
<1>5. u \in [1 .. Len(ts) -> Tellable]
  BY <1>3, <1>4
<1>6. u \in Seq(Tellable)
  BY <1>3, <1>5, Sequence
<1> QED
  BY <1>6 DEF Read!Pieces

LEMMA AllPiecesAre ==
    ASSUME Recalled, raw \in Seq(RawItems), groups \in Seq(Read!Sessions), NEW lane \in {"excerpt", "reply"}
    PROVE  Read!FlattenSeq([i \in DOMAIN groups |-> Read!Pieces(lane, groups[i])]) \in Seq(Tellable)
<1> PICK seqs : seqs = [i \in DOMAIN groups |-> Read!Pieces(lane, groups[i])]
  OBVIOUS
<1>1. Len(groups) \in Nat /\ DOMAIN groups = 1 .. Len(groups)
  BY Elements
<1>2. \A s : Read!Pieces(lane, s) \in Seq(Tellable)
  BY PiecesAre
<1>3. seqs \in [1 .. Len(groups) -> Seq(Tellable)]
  BY <1>1, <1>2
<1>4. seqs \in Seq(Seq(Tellable))
  BY <1>1, <1>3, Sequence
<1> QED
  BY <1>4, ReadFlattened

LEMMA PackKeeps == ASSUME Recalled, RecallInv, Read!Pack PROVE RecallInv'
<1> PICK first, second :
        /\ first = Read!FlattenSeq([i \in DOMAIN groups |-> Read!Pieces("excerpt", groups[i])])
        /\ second = Read!FlattenSeq([i \in DOMAIN groups |-> Read!Pieces("reply", groups[i])])
  OBVIOUS
<1> PICK taken : taken = Read!Taken(first \o second)
  OBVIOUS
<1> DEFINE block(s) ==
       IF s \in taken.open
       THEN <<Read!Line("header", {s}, 1)>> \o
            Read!Picked(taken.lines, {i \in DOMAIN taken.lines : Read!HomeOf(taken.lines[i]) = s})
       ELSE <<>>
<1> PICK seqs : seqs = [i \in DOMAIN groups |-> block(groups[i])]
  OBVIOUS
<1>1. /\ Read!Step("pack", "emit") /\ call' = call /\ raw' = raw /\ groups' = groups
      /\ parts' = parts \o Read!FlattenSeq(seqs)
  BY DEF Read!Pack
<1>2. /\ parts \in Seq(Tellable) /\ raw \in Seq(RawItems) /\ groups \in Seq(Read!Sessions)
  BY <1>1, CallHas
<1>3. first \in Seq(Tellable) /\ second \in Seq(Tellable)
  BY <1>2, AllPiecesAre
<1>4. first \o second \in Seq(Tellable)
  BY <1>3, JoinedHas
<1>5. taken.lines \in Seq(Tellable)
  <2> PICK pieces : pieces = first \o second
    OBVIOUS
  <2>1. Room \in Int /\ pieces \in Seq(Tellable)
    BY <1>4 DEF Recalled
  <2>2. Read!Taken(pieces).lines \in Seq(Tellable)
    BY <1>2, <2>1, CostsAre, TakenHas
  <2> QED
    BY <2>2
<1>6. \A s \in Read!Sessions : block(s) \in Seq(Tellable)
  <2> SUFFICES ASSUME NEW s \in Read!Sessions PROVE block(s) \in Seq(Tellable)
    OBVIOUS
  <2> PICK ixs, w : /\ w = taken.lines
                    /\ ixs = {i \in DOMAIN taken.lines : Read!HomeOf(taken.lines[i]) = s}
    OBVIOUS
  <2>1. \A i \in DOMAIN w : i \in ixs => w[i] \in Tellable
    BY <1>5, Elements
  <2>2. Read!Picked(w, ixs) \in Seq(Tellable)
    BY <1>5, <2>1, PickedHas
  <2>3. <<Read!Line("header", {s}, 1)>> \in Seq(Tellable)
    BY HeadersTold
  <2>4. <<Read!Line("header", {s}, 1)>> \o Read!Picked(w, ixs) \in Seq(Tellable)
    BY <2>2, <2>3, JoinedHas
  <2>5. block(s) = <<Read!Line("header", {s}, 1)>> \o Read!Picked(w, ixs) \/ block(s) = <<>>
    OBVIOUS
  <2> HIDE DEF block
  <2> QED
    BY <2>4, <2>5, NoneToldYet
<1> HIDE DEF block
<1>7. seqs \in Seq(Seq(Tellable))
  <2>1. /\ Len(groups) \in Nat /\ DOMAIN groups = 1 .. Len(groups)
        /\ \A i \in 1 .. Len(groups) : groups[i] \in Read!Sessions
    BY <1>2, Elements
  <2>2. seqs \in [1 .. Len(groups) -> Seq(Tellable)]
    BY <1>6, <2>1
  <2> QED
    BY <2>1, <2>2, Sequence
<1> PICK more : more = Read!FlattenSeq(seqs)
  OBVIOUS
<1>8. more \in Seq(Tellable)
  BY <1>7, ReadFlattened
<1>9. parts' = parts \o more
  BY <1>1
<1> QED
  BY <1>1, <1>8, <1>9, AddingKeeps

LEMMA RecallKeeps == ASSUME Recalled, RecallInv, [Read!Next]_(Read!vars) PROVE RecallInv'
<1>1. CASE Read!StoreStep
  BY <1>1, StoreStepKeeps
<1>2. CASE Read!ContextStep
  <2>1. ASSUME NEW route, NEW words, NEW live, Read!Ask(route, words, live) PROVE RecallInv'
    BY <2>1, AskKeeps
  <2> QED
    BY <1>2, <2>1, ProbeKeeps, SearchKeeps, RenderKeeps, GatherKeeps, FillKeeps, WindowKeeps,
       WindowsDoneKeeps, PackKeeps, DirectivesKeeps, ContradictionsKeeps, CriticalKeeps,
       DigestsKeeps, NotesKeeps, EmitKeeps DEF Read!ContextStep
<1>3. CASE Read!OtherStep
  <2>1. ASSUME NEW b \in Beliefs, Read!History(b) PROVE RecallInv'
    BY <2>1, HistoryKeeps
  <2>2. ASSUME NEW score, Read!Records(score) PROVE RecallInv'
    BY <2>2, RecordsKeeps
  <2> QED
    BY <1>3, <2>1, <2>2, StaticBlockKeeps, AskAboutKeeps, ChangesKeeps, WalkKeeps DEF Read!OtherStep
<1>4. CASE UNCHANGED Read!vars
  <2>1. /\ status' = status /\ acl' = acl /\ rivals' = rivals /\ at' = at /\ call' = call
        /\ found' = found /\ raw' = raw /\ groups' = groups /\ parts' = parts /\ could' = could
    BY <1>4 DEF Read!vars, Read!rows
  <2>2. \A l : Disclosable(l)' = Disclosable(l) /\ NotEchoed(l)' = NotEchoed(l)
    BY <2>1 DEF Disclosable, NotEchoed, Read!Heard
  <2>3. Tellable' = Tellable
    BY <2>2, Zenon DEF Tellable, Things, Lanes, Read!Sessions
  <2>4. SeesNow' = SeesNow
    BY <2>1 DEF SeesNow, Legible, Permitted, Read!Readable, Read!CanRead
  <2>5. StoreHolds' /\ GhostForm' /\ CallForm'
    BY <2>1 DEF RecallInv, StoreHolds, GhostForm, CallForm
  <2>6. RawItems' = RawItems /\ (Read!Sessions)' = Read!Sessions /\ (Read!ToSet(parts))' = Read!ToSet(parts)
    BY <2>1 DEF RawItems, Read!Audible, Read!Heard, Read!Sessions, Read!ToSet
  <2> QED
    BY <2>1, <2>2, <2>3, <2>4, <2>5, <2>6 DEF RecallInv
<1> QED
  BY <1>1, <1>2, <1>3, <1>4 DEF Read!Next

LEMMA RecallTells == ASSUME RecallInv PROVE Read!DisclosedWasReadable /\ Read!LiveNotEchoed
<1>1. \A l \in Read!ToSet(parts) : Disclosable(l) /\ NotEchoed(l)
  <2>1. CASE at # "done"
    <3>1. Read!ToSet(parts) \subseteq Tellable
      BY <2>1, ToSetHas DEF RecallInv
    <3> QED
      BY <3>1 DEF Tellable
  <2>2. CASE at = "done"
    BY <2>2 DEF RecallInv
  <2> QED
    BY <2>1, <2>2
<1>2. Read!DisclosedWasReadable
  BY <1>1, Zenon DEF Read!DisclosedWasReadable, Disclosable
<1>3. Read!LiveNotEchoed
  BY <1>1 DEF Read!LiveNotEchoed, NotEchoed
<1> QED
  BY <1>2, <1>3

\* Whatever a call returns, in any lane, the reader could read at some moment of
\* the call (get_context, history, changes, the static block); and a conversation
\* is told none of its own turns but those a compaction folded away.
THEOREM ToldInGoodFaith ==
    Recalled => (Read!Spec => [](DisclosedWasReadable /\ Read!LiveNotEchoed))
<1> SUFFICES ASSUME Recalled PROVE Read!Spec => [](DisclosedWasReadable /\ Read!LiveNotEchoed)
  OBVIOUS
<1>1. Read!Init => RecallInv
  BY ReadStarts
<1>2. RecallInv /\ [Read!Next]_(Read!vars) => RecallInv'
  BY RecallKeeps
<1>3. RecallInv => DisclosedWasReadable /\ Read!LiveNotEchoed
  BY RecallTells DEF DisclosedWasReadable
<1> QED
  BY <1>1, <1>2, <1>3, PTL DEF Read!Spec
=============================================================================
