--------------------------- MODULE FederatedRead ---------------------------
(* What a query reads from a declared local database, live: the folder cards,
   the bounded token search, the passages re-cut from the source's text and the
   hits folded together by the folder they are filed in.

   The database belongs to another program, which may create it, create its
   table, and add, change, move or delete rows at any moment; Chronicle opens
   it read-only, one connection per call, and keeps nothing of it but its
   column list.  A question is answered by several calls one after another.

   Code: engine/localdb.py (LocalDBProvider), engine/passages.py, and
   retrieval.py: _derive_passages, _collapse_containers, _folder_hits and the
   tail of the context assembly. *)
EXTENDS Integers, Sequences, FiniteSets, SequencesExt

CONSTANTS
  Rows,          \* row ids of the declared table, in the order 1, 2, ...
  Libraries,     \* contents the table may have when it is first seen
  Edits,         \* values the other program may give a row
  Questions,     \* focus tokens of a question, in the order of its words
  TokenLength,   \* [token -> Nat], how many letters it has
  Within,        \* token -> the lower-cased names it is found in
  Lower,         \* folder name -> its lower-cased form
  FolderOrder,   \* the folders, in the order the database sorts them
  Principals, Readers,         \* who asks; whom read_acl lets read
  RowCap, TokenCap,            \* MAX_ROWS_PER_TABLE, MAX_TOKENS
  PathCap, CardCap,            \* MAX_DISTINCT_VALUES, _FOLDER_CARD_MAX
  Size, MaxPassages,           \* passages.size, passages.max_per_record
  BareFirst,     \* TRUE: the file may exist before its table does
  MaxEdits       \* bound on the changes the other program makes

Least(a, b) == IF a < b THEN a ELSE b
Gone == [folder |-> <<>>, words |-> {}, text |-> <<>>]
-----------------------------------------------------------------------------
(* The split.  A text is a sequence of words; `gap` says what stands before a
   word: 0 a blank line, 1 a line break, 2 the end of a sentence, 3 a space. *)

Joiner(gap) == IF gap = 0 THEN 2 ELSE 1

\* The length of the words i..j of a text, joined again.
Length(t, i, j) ==
  LET f[k \in i..j] == IF k = i THEN t[k].len
                       ELSE f[k - 1] + Joiner(t[k].gap) + t[k].len
  IN  f[j]

\* _pieces: the largest units that fit, each with the room its joiner takes.
Pieces(t) ==
  LET p[l \in 0..4, i \in 1..Len(t), j \in 1..Len(t)] ==
        IF Length(t, i, j) <= Size
        THEN << [sep |-> 0, from |-> i, to |-> j, len |-> Length(t, i, j)] >>
        ELSE IF l = 4
        THEN [k \in 1..((t[i].len + Size - 1) \div Size) |->
               [sep |-> 0, from |-> i, to |-> i, len |-> Least(Size, t[i].len - (k - 1) * Size)]]
        ELSE LET start == {i} \cup {k \in (i + 1)..j : t[k].gap = l}
                 end(a) == IF \E b \in start : b > a
                           THEN (CHOOSE b \in start : b > a /\ \A c \in start : c > a => b <= c) - 1
                           ELSE j
                 part(a) == IF a = i THEN p[l + 1, a, end(a)]
                            ELSE [p[l + 1, a, end(a)] EXCEPT ![1].sep = Joiner(l)]
                 f[a \in i..j] == (IF a = i THEN <<>> ELSE f[a - 1])
                                  \o (IF a \in start THEN part(a) ELSE <<>>)
             IN  f[j]
  IN  p[0, 1, Len(t)]

\* Greedy packing: a piece joins the passage before it when both still fit.
Packed(pieces) ==
  LET f[k \in 1..Len(pieces)] ==
        IF k = 1 THEN << pieces[1] >>
        ELSE LET cur == Last(f[k - 1])  new == pieces[k]
                 len == cur.len + new.sep + new.len
             IN  IF len <= Size
                 THEN Front(f[k - 1]) \o << [cur EXCEPT !.to = new.to, !.len = len] >>
                 ELSE Append(f[k - 1], new)
  IN  f[Len(pieces)]

\* split_passages: at most MaxPassages of them; the text past the last is dropped.
Split(t) ==
  IF t = <<>> THEN <<>>
  ELSE LET all == Packed(Pieces(t)) IN SubSeq(all, 1, Least(MaxPassages, Len(all)))

\* The words of passage n.
Passage(t, n) == SubSeq(t, Split(t)[n + 1].from, Split(t)[n + 1].to)
-----------------------------------------------------------------------------
(* Folders.  A path is the sequence of its segments. *)

AtOrUnder(path, top) == Len(top) <= Len(path) /\ SubSeq(path, 1, Len(top)) = top

\* segment_matches, folder_matches: every token is found in some segment.
FolderMatches(path, toks) ==
  /\ path # <<>> /\ toks # <<>>
  /\ \A t \in ToSet(toks) : \E s \in ToSet(path) : Lower[s] \in Within[t]

\* best_folder_matches: shallowest first, then by name; a folder under a kept
\* one is dropped.
BestMatches(paths, toks) ==
  LET place(p)  == CHOOSE k \in DOMAIN FolderOrder : FolderOrder[k] = p
      before(p, r) == \/ Len(p) < Len(r)
                      \/ Len(p) = Len(r) /\ place(p) < place(r)
      matched == SetToSortSeq({p \in paths : FolderMatches(p, toks)}, before)
      f[k \in 0..Len(matched)] ==
        IF k = 0 THEN <<>>
        ELSE IF \E a \in ToSet(f[k - 1]) : AtOrUnder(matched[k], a) THEN f[k - 1]
        ELSE Append(f[k - 1], matched[k])
  IN  f[Len(matched)]

\* The rows a card counts: `column = path OR column LIKE 'path/%'`, where LIKE
\* does not tell the case of letters apart and = does.
LowerPath(path) == [k \in DOMAIN path |-> Lower[path[k]]]
CardRows(rows, top) ==
  {r \in DOMAIN rows :
     \/ rows[r].folder = top
     \/ /\ Len(rows[r].folder) > Len(top)
        /\ AtOrUnder(LowerPath(rows[r].folder), LowerPath(top))}
-----------------------------------------------------------------------------
(* The token search. *)

\* search, _search_table: the tokens of one statement, the longest first.
Priorities(toks) ==
  LET kept == SubSeq(toks, 1, Least(TokenCap, Len(toks)))
      rank(i) == Cardinality({k \in DOMAIN kept :
                   \/ TokenLength[kept[k]] > TokenLength[kept[i]]
                   \/ TokenLength[kept[k]] = TokenLength[kept[i]] /\ k <= i})
  IN  [p \in DOMAIN kept |-> kept[CHOOSE i \in DOMAIN kept : rank(i) = p]]

Hits(rows, t) == {r \in DOMAIN rows : t \in rows[r].words}
Pick(set, n) == {x \in SUBSET set : Cardinality(x) = Least(n, Cardinality(set))}

\* As it was: one statement over all the tokens, cut with no order.
Found_AnyOrder(rows, toks) ==
  Pick(UNION {Hits(rows, toks[i]) : i \in DOMAIN toks}, RowCap)

\* One subquery per token, each of at most RowCap rows in no order; together
\* sorted by token, a row counted once, cut at RowCap.
Found(rows, toks) ==
  LET order == Priorities(toks)
      f[p \in 0..Len(order)] ==
        IF p = 0 THEN {{}}
        ELSE UNION {UNION {{h \cup new : new \in Pick(got \ h, RowCap - Cardinality(h))}
                           : got \in Pick(Hits(rows, order[p]), RowCap)}
                    : h \in f[p - 1]}
  IN  f[Len(order)]
-----------------------------------------------------------------------------
VARIABLES
  file,      \* "absent", "bare" (no table yet) or "full"
  rows,      \* the table: row id -> its folder, words and text, or Gone
  schema,    \* the provider's column list: "unread", "empty" or "known"
  built,     \* row id -> the text its passage vectors were cut from
  edits,     \* changes the other program has made
  q          \* the question being answered

vars == <<file, rows, schema, built, edits, q>>

Present == {r \in Rows : rows[r] # Gone}
Table == [r \in Present |-> rows[r]]
Idle == [at |-> "idle"]

Init ==
  /\ file \in {"absent", "full"}
  /\ rows \in Libraries
  /\ schema = "unread"
  /\ built = [r \in Rows |-> <<>>]
  /\ edits = 0
  /\ q = Idle

(* The other program. *)

Changed == q' = IF q = Idle THEN Idle ELSE [q EXCEPT !.still = FALSE]

CreateFile ==
  /\ file = "absent"
  /\ file' \in IF BareFirst THEN {"bare", "full"} ELSE {"full"}
  /\ Changed
  /\ UNCHANGED <<rows, schema, built, edits>>

CreateTable ==
  /\ file = "bare"
  /\ file' = "full"
  /\ Changed
  /\ UNCHANGED <<rows, schema, built, edits>>

\* A row is added, changed, moved to another folder, or deleted.
EditRow(r, new) ==
  /\ file = "full" /\ edits < MaxEdits /\ rows[r] # new
  /\ rows' = [rows EXCEPT ![r] = new]
  /\ edits' = edits + 1
  /\ Changed
  /\ UNCHANGED <<file, schema, built>>

(* The builder of the passage vectors. *)
EmbedPassages(r) ==
  /\ file = "full" /\ r \in Present /\ built[r] # rows[r].text
  /\ built' = [built EXCEPT ![r] = rows[r].text]
  /\ UNCHANGED <<file, rows, schema, edits, q>>

(* One call on the provider: schema(), which is kept once it was read, and then
   the statement itself; nothing is seen when the caller may not read. *)

ReadSchema ==
  schema' = IF schema # "unread" THEN schema
            ELSE CASE file = "absent" -> "unread"
                   [] file = "bare"   -> "empty"
                   [] file = "full"   -> "known"

Call == IF q.who \in Readers THEN ReadSchema ELSE UNCHANGED schema
Seen == IF q.who \in Readers /\ schema' = "known" THEN Table ELSE << >>

(* A question. *)

Question(who, toks, at, entries) ==
  [at |-> at, who |-> who, toks |-> toks, still |-> TRUE, matched |-> <<>>,
   cards |-> <<>>, hits |-> {}, ranked |-> entries, entries |-> entries]

\* The context tail asks for folders, then searches by token.
AskContext(who, toks) ==
  /\ q = Idle
  /\ q' = Question(who, toks, "paths", <<>>)
  /\ UNCHANGED <<file, rows, schema, built, edits>>

\* A raw retrieval has its best projection hits, each a record and the passage
\* of it that scored; it renders them and folds them together.
AskRaw(who, order) ==
  /\ q = Idle
  /\ order # <<>>
  /\ \A k \in DOMAIN order : order[k].n < Len(Split(built[order[k].row]))
  /\ q' = Question(who, <<>>, "render",
                   [k \in DOMAIN order |->
                      [row |-> order[k].row, n |-> order[k].n, more |-> 0,
                       meant |-> Passage(built[order[k].row], order[k].n),
                       shown |-> {}]])
  /\ UNCHANGED <<file, rows, schema, built, edits>>

\* distinct_values, best_folder_matches: the first PathCap paths, as they sort.
ReadPaths ==
  /\ q.at = "paths"
  /\ Call
  /\ LET held == SelectSeq(FolderOrder, LAMBDA p : \E r \in DOMAIN Seen : Seen[r].folder = p)
         read == SubSeq(held, 1, Least(PathCap, Len(held)))
     IN  q' = [q EXCEPT !.at = "cards", !.matched = BestMatches(ToSet(read), q.toks)]
  /\ UNCHANGED <<file, rows, built, edits>>

\* folder_card: one matched folder is counted; a folder now empty has no card.
ReadCard ==
  /\ q.at = "cards" /\ q.matched # <<>> /\ Len(q.cards) < CardCap
  /\ Call
  /\ LET top == Head(q.matched)  counted == CardRows(Seen, top)
     IN  q' = [q EXCEPT !.matched = Tail(q.matched),
                        !.cards = IF counted = {} THEN q.cards
                                  ELSE Append(q.cards, [top |-> top, counted |-> counted])]
  /\ UNCHANGED <<file, rows, built, edits>>

\* LocalDBProvider.search over the declared table.
Search ==
  /\ q.at = "cards" /\ (q.matched = <<>> \/ Len(q.cards) >= CardCap)
  /\ Call
  /\ \E h \in Found(Seen, q.toks) : q' = [q EXCEPT !.at = "done", !.hits = h]
  /\ UNCHANGED <<file, rows, built, edits>>

\* _derive_passages: the text is read now and split again; passage n of it is
\* shown, or the card alone when there is no such passage any more.
Derive ==
  /\ q.at = "render"
  /\ Call
  /\ LET piece(e) == IF /\ e.row \in DOMAIN Seen
                        /\ e.n < Len(Split(Seen[e.row].text))
                     THEN {Passage(Seen[e.row].text, e.n)}
                     ELSE {}
     IN  q' = [q EXCEPT !.at = "collapse",
                        !.entries = [k \in DOMAIN q.entries |->
                                       [q.entries[k] EXCEPT !.shown = piece(q.entries[k])]]]
  /\ UNCHANGED <<file, rows, built, edits>>

\* _collapse_containers: of the records in one folder, read now, the best stays
\* and says how many more there were; a record without a folder stays alone.
Collapsed(entries, seen) ==
  LET key(k) == IF entries[k].row \in DOMAIN seen THEN seen[entries[k].row].folder ELSE <<>>
      same(k) == {j \in DOMAIN entries : key(k) # <<>> /\ key(j) = key(k)}
      kept == SetToSortSeq({k \in DOMAIN entries : \A j \in same(k) : k <= j}, <)
  IN  [p \in DOMAIN kept |->
         [entries[kept[p]] EXCEPT !.more = Cardinality(same(kept[p]) \ {kept[p]})]]

Collapse ==
  /\ q.at = "collapse"
  /\ Call
  /\ q' = [q EXCEPT !.at = "done", !.entries = Collapsed(q.entries, Seen)]
  /\ UNCHANGED <<file, rows, built, edits>>

Answer ==
  /\ q.at = "done"
  /\ q' = Idle
  /\ UNCHANGED <<file, rows, schema, built, edits>>

Orders == {o \in UNION {[1..n -> [row : Rows, n : 0..(MaxPassages - 1)]] : n \in 1..Cardinality(Rows)} :
             \A j, k \in DOMAIN o : o[j].row = o[k].row => j = k}

Ask ==
  \E who \in Principals :
    \/ \E toks \in Questions : AskContext(who, toks)
    \/ \E order \in Orders : AskRaw(who, order)

Read == ReadPaths \/ ReadCard \/ Search \/ Derive \/ Collapse \/ Answer

Next ==
  \/ CreateFile \/ CreateTable
  \/ \E r \in Rows, new \in Edits \cup {Gone} : EditRow(r, new)
  \/ \E r \in Rows : EmbedPassages(r)
  \/ Ask \/ Read

Spec == Init /\ [][Next]_vars
-----------------------------------------------------------------------------
TypeOK ==
  /\ file \in {"absent", "bare", "full"}
  /\ schema \in {"unread", "empty", "known"}
  /\ edits \in 0..MaxEdits
  /\ q.at \in {"idle", "paths", "cards", "render", "collapse", "done"}

\* A question whose source nobody changed, once it is answered.
Done == q # Idle /\ q.at = "done" /\ q.still

(* The rows a search returns are the ones of the longest words: no row found by
   a shorter word alone takes the place of one that a longer word names, and no
   place stays free while a row matches (localdb.py _search_table). *)
SpecificFirst ==
  Done /\ q.hits # {} =>
    LET order == Priorities(q.toks)
        matching == {r \in Present : \E p \in DOMAIN order : order[p] \in rows[r].words}
        rank(r) == CHOOSE p \in DOMAIN order :
                     /\ order[p] \in rows[r].words
                     /\ \A o \in 1..(p - 1) : order[o] \notin rows[r].words
    IN  /\ Cardinality(q.hits) = Least(RowCap, Cardinality(matching))
        /\ \A r \in q.hits, s \in matching \ q.hits : rank(r) <= rank(s)

(* The same over every word of the question, those past MAX_TOKENS included. *)
LongestWordSearched ==
  Done /\ q.hits # {} =>
    \A r \in Present \ q.hits, i \in DOMAIN q.toks :
      /\ q.toks[i] \in rows[r].words
      /\ \A k \in DOMAIN q.toks : TokenLength[q.toks[k]] <= TokenLength[q.toks[i]]
      => \A h \in q.hits : q.toks[i] \in rows[h].words

(* No file is shown under two folder cards, and unless a cap cut the list every
   file of a folder the question names is under one (passages.py
   best_folder_matches: "keeping both would show the same files twice"). *)
EachFileOnce ==
  Done /\ q.toks # <<>> /\ q.who \in Readers /\ schema = "known" =>
    /\ \A j, k \in DOMAIN q.cards : j # k => q.cards[j].counted \cap q.cards[k].counted = {}
    /\ q.matched = <<>> /\ Cardinality({rows[r].folder : r \in Present}) <= PathCap
       => \A r \in Present : FolderMatches(rows[r].folder, q.toks) =>
            \E k \in DOMAIN q.cards : r \in q.cards[k].counted

(* Folding hits together loses none: those shown and those counted are as many
   as scored, the shown ones keep their order, and the one shown for a folder is
   the best of that folder (retrieval.py _collapse_containers). *)
FoldKeepsBest ==
  Done /\ q.toks = <<>> =>
    LET place(k) == CHOOSE j \in DOMAIN q.ranked : q.ranked[j].row = q.entries[k].row
        sum[k \in 0..Len(q.entries)] == IF k = 0 THEN 0 ELSE sum[k - 1] + 1 + q.entries[k].more
    IN  /\ sum[Len(q.entries)] = Len(q.ranked)
        /\ \A j, k \in DOMAIN q.entries : j < k => place(j) < place(k)
        /\ q.who \in Readers /\ schema = "known" =>
             \A j \in DOMAIN q.ranked : \A k \in DOMAIN q.entries :
               /\ q.ranked[j].row \in Present /\ q.entries[k].row \in Present
               /\ rows[q.ranked[j].row].folder = rows[q.entries[k].row].folder
               => place(k) <= j

(* The passages of every text: they follow one another without a gap, none is
   longer than Size, and a paragraph, line, sentence or word that fits is never
   cut in two (passages.py split_passages: "whole paragraphs where they fit,
   else lines, else sentences, else words"). *)
UnitsStayWhole ==
  \A r \in Present :
    LET t == rows[r].text
        s == Split(t)
        unit(l, i, j) == /\ i = 1 \/ t[i].gap <= l
                         /\ j = Len(t) \/ t[j + 1].gap <= l
                         /\ \A k \in (i + 1)..j : t[k].gap > l
    IN  /\ t # <<>> => s # <<>> /\ s[1].from = 1
        /\ \A k \in DOMAIN s : s[k].len <= Size /\ (k > 1 => s[k].from \in {s[k - 1].to, s[k - 1].to + 1})
        /\ Len(s) < MaxPassages => t = <<>> \/ Last(s).to = Len(t)
        /\ \A l \in 0..3, i, j \in DOMAIN t :
             i <= j /\ unit(l, i, j) /\ Length(t, i, j) <= Size /\ j <= (IF s = <<>> THEN 0 ELSE Last(s).to)
             => \E k \in DOMAIN s : s[k].from <= i /\ j <= s[k].to

(* The passage shown is the passage that scored (passages.py: "The two agree
   because the split is deterministic"). *)
ScoredIsShown ==
  q # Idle => \A k \in DOMAIN q.entries : q.entries[k].shown \subseteq {q.entries[k].meant}

(* A database without its table yet is not taken for an empty one for good
   (localdb.py:178, "an empty schema must never harden into a permanent answer"). *)
EmptyNeverHardens == file = "full" => schema # "empty"
=============================================================================
