------------------------------- MODULE Recall -------------------------------
(***************************************************************************)
(* Reading memory (engine/retrieval.py).  One call assembles a context out *)
(* of beliefs, excerpts of turns, the sessions around them and a capped    *)
(* tail of directives, contradictions and critical facts, every lane       *)
(* querying the store anew while curation and tools go on writing to it.   *)
(*                                                                         *)
(* The scores are data: which rows match, and in which order the lanes     *)
(* rank them, is left open wherever the code computes it from text or      *)
(* vectors.  Lengths are counted in lines: a header, a belief or a tail    *)
(* line is one, an excerpt is two and one when it is cut to fit.           *)
(***************************************************************************)
EXTENDS Integers, Sequences, FiniteSets, SequencesExt, FiniteSetsExt

CONSTANTS
    Beliefs,        \* belief rows
    Rank,           \* the beliefs, in the order search ranks them
    Kind,           \* per belief: "fact", "critical", "directive" or "digest"
    Newer,          \* per belief: the candidate to supersede it, or NoBelief
    NoBelief,
    Turns,          \* observed events
    Log,            \* the turns, in the order of the log
    SessionOf,      \* per turn: its session
    NoSession,
    Folded,         \* turns that are copies the context engine folded away
    Summarised,     \* sessions whose summary has words
    Sealed,         \* beliefs, turns and summaries of an owner this reader may not read
    Theirs,         \* beliefs of another owner that the reader may read
    Passages,       \* vectors of federated records
    Scan,           \* the passages, in the order of the scan
    RecordOf,       \* per passage: the record it is a part of
    Queries,        \* sets of turns that hold the words of a question
    Limit,          \* rows a lane returns
    BroadLimit,     \* rows of the raw lane where the question asks for breadth
    SessionCap,     \* excerpts of one session it takes then
    FetchMax,       \* the widest page of the word search
    Room,           \* length of a context
    TailRoom,       \* length of its tail of directives and warnings
    MaxDirectives,  \* directive rows the tail asks for
    MaxExpanded,    \* sessions a call expands
    WindowTurns,    \* rows one expansion fetches
    MaxWrites       \* bound: writes to the store

VARIABLES
    status,         \* per belief: status of its row
    acl,            \* per belief: read_acl, as far as it concerns the reader
    forgotten,      \* turns under a tombstone
    rivals,         \* open contradictions, as sets of two beliefs
    writes,
    pc,             \* what the call does next
    call,           \* what it was asked
    found,          \* beliefs of search() not rendered yet
    raw,            \* result of retrieve_raw
    groups,         \* sessions not expanded yet
    spent,          \* sessions expanded
    told,           \* turns placed in the context or passed over for it
    parts,          \* the lines assembled so far
    could           \* ghost: what the reader could read since the call began

rows == <<status, acl, forgotten, rivals, writes>>
vars == <<rows, pc, call, found, raw, groups, spent, told, parts, could>>

Sessions == {SessionOf[t] : t \in Turns}
Smaller(a, b) == IF a < b THEN a ELSE b
Upto(n, s) == SubSeq(s, 1, Smaller(n, Len(s)))
Line(lane, of, cost) == [lane |-> lane, of |-> of, cost |-> cost]
Total(lines) ==
    LET upto[i \in 0..Len(lines)] == IF i = 0 THEN 0 ELSE upto[i - 1] + lines[i].cost IN upto[Len(lines)]

(* The elements of s at some places, and those that are in S, in order.    *)
Picked(s, places) ==
    LET upto[i \in 0..Len(s)] ==
          IF i = 0 THEN <<>> ELSE IF i \in places THEN Append(upto[i - 1], s[i]) ELSE upto[i - 1]
    IN upto[Len(s)]
Only(s, S) == Picked(s, {i \in DOMAIN s : s[i] \in S})

OfLane(lanes) == Picked(parts, {i \in DOMAIN parts : parts[i].lane \in lanes})

(* The ways to rank at most n members of S.                                *)
Arranged(S, n) == UNION {{s \in [1..k -> S] : IsInjective(s)} : k \in 0..Smaller(n, Cardinality(S))}

----------------------------------------------------------------------------
(* Who may read what *)

(* The owner's ceiling, then the row's own list.                           *)
CanRead(b) ==
    /\ b \notin Sealed
    /\ ~acl[b].deny
    /\ b \notin Theirs \/ acl[b].mode = "user_agents" \/ acl[b].allow

Readable(b) == status[b] \in {"active", "draft"} /\ CanRead(b)

Heard(t) == t \notin Sealed
Audible == {t \in Turns : Heard(t)}

(* The text indexes have no row of a turn under a tombstone.               *)
Indexed(t) == t \notin forgotten

----------------------------------------------------------------------------
(* The store changes *)

(* For the properties: what was readable at some moment of the call, and   *)
(* what was forgotten before it.                                           *)
NoneRead == [read |-> {}, permit |-> {}, gone |-> {}]
Now == [read |-> {b \in Beliefs : Readable(b)}, permit |-> {b \in Beliefs : CanRead(b)}, gone |-> forgotten]
Seen(was, now) == [was EXCEPT !.read = @ \cup now.read, !.permit = @ \cup now.permit]

Write ==
    /\ writes < MaxWrites
    /\ writes' = writes + 1
    /\ could' = IF pc = "idle" THEN could ELSE Seen(could, Now')
    /\ UNCHANGED <<pc, call, found, raw, groups, spent, told, parts>>

(* A belief that ends takes the contradictions about it along.             *)
Retract(b) ==
    /\ status[b] \in {"active", "draft", "superseded"}
    /\ status' = [status EXCEPT ![b] = "retracted"]
    /\ rivals' = {r \in rivals : b \notin r}
    /\ UNCHANGED <<acl, forgotten>>
    /\ Write

Supersede(b) ==
    /\ Newer[b] # NoBelief
    /\ status[b] = "active" /\ status[Newer[b]] \in {"active", "draft"}
    /\ status' = [status EXCEPT ![b] = "superseded", ![Newer[b]] = "active"]
    /\ UNCHANGED <<acl, forgotten, rivals>>
    /\ Write

MakePrivate(b) ==
    /\ acl' = [acl EXCEPT ![b] = [mode |-> "owner_only", allow |-> FALSE, deny |-> FALSE]]
    /\ UNCHANGED <<status, forgotten, rivals>>
    /\ Write

Grant(b) ==
    /\ acl' = [acl EXCEPT ![b].allow = TRUE, ![b].deny = FALSE]
    /\ UNCHANGED <<status, forgotten, rivals>>
    /\ Write

Revoke(b) ==
    /\ acl' = [acl EXCEPT ![b].allow = FALSE, ![b].deny = TRUE]
    /\ UNCHANGED <<status, forgotten, rivals>>
    /\ Write

(* Consent withdrawn: the turn leaves the text and the vector index.       *)
Unlearn(t) ==
    /\ t \notin forgotten
    /\ forgotten' = forgotten \cup {t}
    /\ UNCHANGED <<status, acl, rivals>>
    /\ Write

----------------------------------------------------------------------------
(* retrieve_raw *)

Gated == call.route = "gated"
Broad == call.route = "aggregation"
Dated == call.route = "temporal"

RawLimit == IF Broad THEN BroadLimit ELSE Limit

Pages == {2 * RawLimit, 8 * RawLimit, 32 * RawLimit, 128 * RawLimit}

(* The page of the word search widens until it holds enough rows the       *)
(* reader may see, or every row, or reaches its widest.                    *)
Admitted(hits) ==
    LET enough(n) == \/ Len(Only(Upto(n, hits), Audible)) >= RawLimit
                     \/ Len(hits) < n
                     \/ n >= FetchMax
        page == CHOOSE n \in Pages : enough(n) /\ \A k \in Pages : k < n => ~enough(k)
    IN  Upto(RawLimit, Only(Upto(page, hits), Audible))

Hits == Only(Log, {t \in call.words : Indexed(t)})

(* The words, the vectors and the sessions' summaries, ranked together and *)
(* cut to the limit.  A gated call asks for words alone.                   *)
Rankings ==
    LET lexical == ToSet(Admitted(Hits))
        close == IF Gated THEN {} ELSE {t \in Audible : Indexed(t)} \cup {s \in Sessions : Heard(s)}
    IN  {r \in Arranged(lexical \cup close, RawLimit) : lexical \subseteq ToSet(r) \/ Len(r) = RawLimit}

(* Passages of federated records: the scan keeps the Limit records whose   *)
(* best passage scores highest, one entry for a record.  A record that is  *)
(* pushed out may come back with a better passage.                         *)
Lowest(held) == CHOOSE r \in DOMAIN held : \A o \in DOMAIN held : held[r] <= held[o]
Without(held, r) == [x \in DOMAIN held \ {r} |-> held[x]]
With(held, r, n) == [x \in DOMAIN held \cup {r} |-> IF x = r THEN n ELSE held[x]]

Keep(held, r, n) ==
    CASE n = 0 -> held
      [] n > 0 /\ r \in DOMAIN held -> With(held, r, IF n > held[r] THEN n ELSE held[r])
      [] n > 0 /\ r \notin DOMAIN held /\ Cardinality(DOMAIN held) < Limit -> With(held, r, n)
      [] OTHER -> IF n > held[Lowest(held)] THEN With(Without(held, Lowest(held)), r, n) ELSE held

Nothing == [x \in {} |-> 0]

BestRecords(score) ==
    FoldLeft(LAMBDA held, p : Keep(held, RecordOf[p], score[p]), Nothing, Scan)

----------------------------------------------------------------------------
(* get_context: the evidence *)

NoCall == [route |-> "none", words |-> {}, live |-> NoSession, score |-> Nothing]

Begin(what, next, cursor, lines) ==
    /\ pc \in {"idle", "done"}
    /\ pc' = next
    /\ call' = what
    /\ could' = Now
    /\ found' = cursor /\ parts' = lines
    /\ raw' = <<>> /\ groups' = <<>> /\ spent' = 0 /\ told' = {}
    /\ UNCHANGED rows

(* A narrow question and one about preferences look at the raw lane first; *)
(* a turn of the conversation that is going on asks with the gate.         *)
Ask(route, words, live) ==
    /\ live # NoSession => route = "gated"
    /\ Begin([NoCall EXCEPT !.route = route, !.words = words, !.live = live],
             IF route \in {"precision", "preference"} THEN "probe" ELSE "search", <<>>, <<>>)

Step(from, to) ==
    /\ pc = from
    /\ pc' = to
    /\ UNCHANGED <<rows, could>>

(* With nothing there to pack, or no turn that leads, the call goes on     *)
(* like any other.                                                         *)
Probe ==
    \E result \in Rankings :
        LET leads == result # <<>> /\ (call.route = "precision" => Head(result) \in Turns)
        IN  /\ Step("probe", IF leads THEN "fill" ELSE "search")
            /\ raw' = result
            /\ call' = IF leads THEN call ELSE [call EXCEPT !.route = "factual"]
            /\ UNCHANGED <<found, groups, spent, told, parts>>

(* Tier 1: what the words, the vectors and the graph find and the reader   *)
(* may read.                                                               *)
Search ==
    /\ Step("search", "render")
    /\ \E S \in SUBSET {b \in Beliefs : Readable(b) /\ Kind[b] # "digest"} :
          found' = Only(Rank, S)
    /\ UNCHANGED <<call, raw, groups, spent, told, parts>>

(* A fact comes with the candidates to supersede it and those it would     *)
(* supersede, each checked for itself.                                     *)
Chain(b) == {c \in Beliefs : c = b \/ Newer[c] = b \/ Newer[b] = c}

Visible_AsMatched(b) == Chain(b)

Visible(b) == {c \in Chain(b) : Readable(c)}

Render ==
    LET b == Head(found)
        shown == Visible(b)
        line == Line("belief", IF Kind[b] = "fact" /\ Cardinality(shown) > 1 THEN {b} \cup shown ELSE {b}, 1)
    IN  /\ found # <<>>
        /\ Step("render", "render")
        /\ IF Total(parts) + line.cost > Room
           THEN found' = <<>> /\ UNCHANGED parts
           ELSE found' = Tail(found) /\ parts' = Append(parts, line)
        /\ UNCHANGED <<call, raw, groups, spent, told>>

Gather ==
    /\ found = <<>>
    /\ Step("render", "fill")
    /\ raw' \in (IF raw # <<>> THEN {raw} ELSE Rankings)
    /\ UNCHANGED <<call, found, groups, spent, told, parts>>

(* The caller has the turns of the live session, but for what a compaction *)
(* folded away; precision packs around the turn that leads.                *)
Wanted(item) ==
    /\ (IF item \in Turns THEN SessionOf[item] = call.live /\ item \notin Folded ELSE item = call.live) => FALSE
    /\ call.route = "precision" => item = Head(raw)

Kept == Picked(raw, {i \in DOMAIN raw : Wanted(raw[i])})
Home(item) == IF item \in Turns THEN SessionOf[item] ELSE item
Homes == LET all == [i \in DOMAIN Kept |-> Home(Kept[i])]
         IN  Picked(all, {i \in DOMAIN all : \A j \in 1..i - 1 : all[j] # all[i]})

(* The rows of a session with words, its summary among them: the best few  *)
(* where breadth counts, and in the order of their dates where a time is   *)
(* asked for.  A summary has no date, and sorts before what has one.       *)
Excerpts(s) ==
    LET mine == Only(Kept, {item \in Turns \cup Summarised : Home(item) = s})
    IN  CASE Broad -> Upto(SessionCap, mine)
          [] Dated -> Only(<<s>> \o Log, ToSet(mine))
          [] OTHER -> mine

LaneOf(item, lane) == IF item \in Turns THEN lane ELSE "summary"

(* One excerpt into a session's block: whole, or cut and then the last.    *)
Place(block, t) ==
    LET lead == IF block.open THEN 0 ELSE 1
        header == IF block.open THEN <<>> ELSE <<Line("header", {Home(t)}, 1)>>
        put(cost, last) == [lines |-> block.lines \o Append(header, Line(LaneOf(t, "excerpt"), {t}, cost)),
                            room |-> block.room - lead - cost, open |-> TRUE, full |-> last]
    IN  CASE block.full -> block
          [] ~block.full /\ block.room - (lead + 2) > 0 -> put(2, FALSE)
          [] ~block.full /\ block.room - (lead + 2) <= 0 /\ block.room - lead > 1 -> put(1, TRUE)
          [] OTHER -> [block EXCEPT !.full = TRUE]

Block(s, ts, room) ==
    LET empty == [lines |-> <<>>, room |-> room, full |-> FALSE,
                  open |-> Line("header", {s}, 1) \in ToSet(parts)]
        upto[i \in 0..Len(ts)] == IF i = 0 THEN empty ELSE Place(upto[i - 1], ts[i])
    IN  upto[Len(ts)]

(* Where breadth counts, the first sessions get an equal share of the room *)
(* each, and what one leaves goes to the next.                             *)
Share_Halves(room, n, offered) == room - 1

Share(room, n, offered) ==
    IF ~(Broad \/ Dated) \/ n < 2 THEN room ELSE room \div (IF n > offered THEN n - offered ELSE 1)

AddBlock(acc, s, n) ==
    LET block == Block(s, Excerpts(s), Share(acc.room, n, acc.offered))
    IN  IF acc.room <= 0 THEN acc
        ELSE [lines |-> acc.lines \o block.lines, offered |-> acc.offered + 1,
              room |-> acc.room - Total(block.lines)]

Filled ==
    LET full == Only(Homes, {s \in Sessions : Excerpts(s) # <<>>})
        none == [lines |-> <<>>, room |-> Room - Total(parts), offered |-> 0]
        upto[i \in 0..Len(full)] == IF i = 0 THEN none ELSE AddBlock(upto[i - 1], full[i], Len(full))
    IN  upto[Len(full)].lines

Fill ==
    /\ Step("fill", IF call.route = "preference" THEN "pack" ELSE "window")
    /\ parts' = IF call.route = "preference" \/ Total(parts) >= Room THEN parts ELSE parts \o Filled
    /\ groups' = IF Total(parts) >= Room THEN <<>> ELSE Homes
    /\ told' = {t \in Turns : ~Dated /\ \E s \in Sessions : t \in ToSet(Excerpts(s))}
    /\ UNCHANGED <<call, found, raw, spent>>

(* The turns of a session the context does not carry yet, in their order.  *)
(* The page is cut before what is already told leaves it.                  *)
Page(s) == Upto(WindowTurns, Only(Log, {t \in Turns : SessionOf[t] = s}))

Unheard_Live(s) == Only(Page(s), {t \in Audible \ told : Gated => t \in call.words})

Unheard(s) ==
    Only(Page(s), {t \in Audible \ told : (s = call.live => t \in Folded) /\ (Gated => t \in call.words)})

(* What is told is known by its text, and with a date before it an excerpt *)
(* does not look like the turn it is of: its session is widened all the    *)
(* same, and only then is it found to be there.                            *)
Added(s) == Only(Unheard(s), Turns \ ToSet(Excerpts(s)))

Window ==
    LET s == Head(groups)
        room == Room - Total(parts)
        orders == IF call.route = "precision" THEN {r \in Arranged(ToSet(Added(s)), WindowTurns) : Len(r) = Len(Added(s))}
                  ELSE {Added(s)}
    IN  /\ groups # <<>> /\ room > 0 /\ spent < MaxExpanded
        /\ Step("window", "window")
        /\ groups' = Tail(groups)
        /\ spent' = spent + (IF Unheard(s) = <<>> THEN 0 ELSE 1)
        /\ told' = told \cup ToSet(Unheard(s))
        /\ \E ts \in orders : parts' = parts \o Block(s, ts, room).lines
        /\ UNCHANGED <<call, found, raw>>

WindowsDone ==
    /\ groups = <<>> \/ Total(parts) >= Room \/ spent = MaxExpanded
    /\ Step("window", IF call.route = "precision" THEN "emit" ELSE "directives")
    /\ raw' = <<>> /\ groups' = <<>> /\ spent' = 0 /\ told' = {}
    /\ UNCHANGED <<call, found, parts>>

(* Preferences: the first message of every excerpt, of all the sessions,   *)
(* before the replies to any; then session by session.                     *)
Pieces(lane, s) ==
    LET all == Excerpts(s) \o Added(s)
        ts == IF lane = "reply" THEN Only(all, Turns) ELSE all
    IN  [j \in DOMAIN ts |-> Line(LaneOf(ts[j], lane), {ts[j]}, 1)]
HomeOf(l) == Home(CHOOSE item \in l.of : TRUE)

(* A message goes into the block of its session while there is room.  The  *)
(* pieces are of one length: the first that does not fit ends its group,   *)
(* and passing over it passes over those behind it.                        *)
TakePiece(acc, l) ==
    LET lead == IF HomeOf(l) \in acc.open THEN 0 ELSE 1
    IN  IF acc.room - (lead + 1) > 0
        THEN [room |-> acc.room - (lead + 1), open |-> acc.open \cup {HomeOf(l)},
              lines |-> Append(acc.lines, l)]
        ELSE acc

Taken(pieces) ==
    LET none == [room |-> Room - Total(parts), open |-> {}, lines |-> <<>>]
        upto[i \in 0..Len(pieces)] == IF i = 0 THEN none ELSE TakePiece(upto[i - 1], pieces[i])
    IN  upto[Len(pieces)]

Pack ==
    LET pieces(lane) == FlattenSeq([i \in DOMAIN groups |-> Pieces(lane, groups[i])])
        taken == Taken(pieces("excerpt") \o pieces("reply"))
        block(s) == IF s \in taken.open
                    THEN <<Line("header", {s}, 1)>> \o
                         Picked(taken.lines, {i \in DOMAIN taken.lines : HomeOf(taken.lines[i]) = s})
                    ELSE <<>>
    IN  /\ Step("pack", "emit")
        /\ parts' = parts \o FlattenSeq([i \in DOMAIN groups |-> block(groups[i])])
        /\ UNCHANGED <<call, found, raw, groups, spent, told>>

----------------------------------------------------------------------------
(* get_context: the tail *)

(* Directives, contradictions and critical facts share one small part of   *)
(* the context, whatever the evidence left over.                           *)
TailLanes == {"directive", "contradiction", "critical"}

Fits(lines, l) ==
    /\ Total(OfLane(TailLanes) \o Append(lines, l)) <= TailRoom
    /\ Total(parts \o Append(lines, l)) <= Room

(* A lane stops at the first line that does not fit.                       *)
Fitting(lines) ==
    LET fit == {n \in 0..Len(lines) : \A k \in 1..n : Fits(SubSeq(lines, 1, k - 1), lines[k])}
    IN  SubSeq(lines, 1, CHOOSE n \in fit : \A k \in fit : k <= n)

Relevant(S) == IF Gated THEN SUBSET S ELSE {S}

(* A query is cut to its limit before the reader's rights filter it.       *)
RowsOfKind(kind, limit) ==
    Only(Upto(limit, Only(Rank, {b \in Beliefs : Kind[b] = kind /\ status[b] = "active"})),
         {b \in Beliefs : Readable(b)})

TailLane(from, to, lines) ==
    /\ Step(from, to)
    /\ \E S \in Relevant(ToSet(lines)) :
          parts' = parts \o Fitting(Only(lines, S))
    /\ UNCHANGED <<call, found, raw, groups, spent, told>>

AsLines(lane, bs) == [i \in DOMAIN bs |-> Line(lane, {bs[i]}, 1)]

Directives == TailLane("directives", "contradictions", AsLines("directive", RowsOfKind("directive", MaxDirectives)))

(* Both sides must be open to the reader; their status is not asked.       *)
OpenContradictions ==
    LET open == SetToSeq({r \in rivals : \A b \in r : CanRead(b)})
    IN  [i \in DOMAIN open |-> Line("contradiction", open[i], 1)]

Contradictions == TailLane("contradictions", "critical", OpenContradictions)

Critical ==
    LET shown == UNION {l.of : l \in ToSet(OfLane({"belief"}))}
    IN  TailLane("critical", "digests",
                 AsLines("critical", Only(RowsOfKind("critical", Limit), Beliefs \ shown)))

(* A digest that does not fit is passed over.                              *)
Squeezed(lines) ==
    LET upto[i \in 0..Len(lines)] ==
          IF i = 0 THEN <<>>
          ELSE IF Total(parts \o upto[i - 1]) + lines[i].cost < Room THEN Append(upto[i - 1], lines[i])
          ELSE upto[i - 1]
    IN  upto[Len(lines)]

Digests ==
    /\ Step("digests", "notes")
    /\ parts' = parts \o Squeezed(AsLines("digest", RowsOfKind("digest", Len(Rank))))
    /\ UNCHANGED <<call, found, raw, groups, spent, told>>

(* Notes about the topic that the first lane had no room for.              *)
Notes ==
    LET told2 == UNION {l.of : l \in ToSet(OfLane({"directive"}))}
               \cup {b \in Beliefs : Kind[b] = "directive" /\ Line("belief", {b}, 1) \in ToSet(parts)}
        more == Only(RowsOfKind("directive", Len(Rank)), Beliefs \ told2)
    IN  /\ Step("notes", "emit")
        /\ \E S \in SUBSET ToSet(more) :
              parts' = parts \o Fitting(AsLines("directive", Only(more, S)))
        /\ UNCHANGED <<call, found, raw, groups, spent, told>>

(* Whole lines leave the end of a context that is too long.                *)
Emit ==
    LET fit == {n \in 0..Len(parts) : Total(SubSeq(parts, 1, n)) <= Room}
    IN  /\ Step("emit", "done")
        /\ parts' = SubSeq(parts, 1, CHOOSE n \in fit : \A k \in fit : k <= n)
        /\ UNCHANGED <<call, found, raw, groups, spent, told>>

----------------------------------------------------------------------------
(* The other ways to read *)

Answer(lines) == Begin(NoCall, "done", <<>>, lines)

(* The block of every system prompt.                                       *)
StaticBlock ==
    Answer(AsLines("directive", RowsOfKind("directive", Limit)) \o AsLines("critical", RowsOfKind("critical", Limit))
           \o OpenContradictions \o AsLines("profile", RowsOfKind("fact", Len(Rank))))

(* What is known of one entity: its digest, then its facts.                *)
AskAbout == Answer(AsLines("digest", RowsOfKind("digest", 1)) \o AsLines("fact", RowsOfKind("fact", Len(Rank))))

(* Listings of the past: any status, the reader's rights all the same.     *)
Changes == Answer(AsLines("past", Only(Rank, {b \in Beliefs : CanRead(b)})))

(* The chain of a belief, link by link; a link that is missing and one     *)
(* that may not be read end it alike.                                      *)
History(b) == Begin(NoCall, "walk", <<b>>, <<>>)

Linked(b) == CanRead(b)

Walk ==
    LET b == Head(found)
        on == found # <<>> /\ Linked(b)
    IN  /\ Step("walk", IF on THEN "walk" ELSE "done")
        /\ parts' = IF on THEN Append(parts, Line("past", {b}, 1)) ELSE parts
        /\ found' = IF on /\ status[b] = "superseded" THEN <<Newer[b]>> ELSE <<>>
        /\ UNCHANGED <<call, raw, groups, spent, told>>

(* Cards of federated records, ranked by their best passage.               *)
Records(score) ==
    LET held == BestRecords(score)
        order == SetToSeq(DOMAIN held)
    IN  Begin([NoCall EXCEPT !.route = "records", !.score = score], "done", <<>>,
              [i \in DOMAIN order |-> Line("record", {order[i]}, held[order[i]])])

----------------------------------------------------------------------------

Init ==
    /\ status \in {[b \in Beliefs |-> IF \E c \in Beliefs : Newer[c] = b THEN "draft" ELSE "active"]}
    /\ acl = [b \in Beliefs |-> [mode |-> "user_agents", allow |-> FALSE, deny |-> FALSE]]
    /\ forgotten = {}
    /\ rivals = {{b, Newer[b]} : b \in {c \in Beliefs : Newer[c] # NoBelief}}
    /\ writes = 0
    /\ pc = "idle"
    /\ call = NoCall
    /\ found = <<>> /\ raw = <<>> /\ groups = <<>> /\ spent = 0 /\ told = {} /\ parts = <<>>
    /\ could = NoneRead

Routes == {"factual", "gated", "precision", "preference", "aggregation", "temporal"}

StoreStep ==
    \/ \E b \in Beliefs : Retract(b) \/ Supersede(b) \/ MakePrivate(b) \/ Grant(b) \/ Revoke(b)
    \/ \E t \in Turns : Unlearn(t)

ContextStep ==
    \/ \E route \in Routes, words \in Queries, live \in Sessions \cup {NoSession} :
          Ask(route, words, live)
    \/ Probe \/ Search \/ Render \/ Gather \/ Fill \/ Window \/ WindowsDone \/ Pack
    \/ Directives \/ Contradictions \/ Critical \/ Digests \/ Notes \/ Emit

OtherStep ==
    \/ StaticBlock \/ AskAbout \/ Changes \/ Walk
    \/ \E b \in Beliefs : History(b)
    \/ \E score \in [Passages -> 0..2] : Records(score)

Next == StoreStep \/ ContextStep \/ OtherStep

Spec == Init /\ [][Next]_vars

----------------------------------------------------------------------------

(* Whatever a call returns, the reader might have read it at some moment   *)
(* of the call, in every lane: a row that was withdrawn, superseded or     *)
(* made private before the call began is not there, and a link of another  *)
(* belief's history is no exception.                                       *)
DisclosedWasReadable ==
    \A l \in ToSet(parts) :
        CASE l.lane \in {"contradiction", "past"} -> l.of \subseteq could.permit
          [] l.lane \in {"excerpt", "reply", "summary"} -> \A t \in l.of : Heard(t)
          [] l.lane \in {"header", "record"} -> TRUE
          [] OTHER -> l.of \subseteq could.read

(* A conversation is not told its own turns: of the live session only what *)
(* a compaction folded away comes back (get_context, live_session).        *)
LiveNotEchoed ==
    \A l \in ToSet(parts) :
        l.lane = "excerpt" => \A t \in l.of : SessionOf[t] = call.live => t \in Folded

(* A turn is told once, by the raw lane or by the window of its session.   *)
EachTurnOnce ==
    \A i, j \in DOMAIN parts :
        parts[i].lane = "excerpt" /\ parts[j].lane = "excerpt" /\ parts[i].of = parts[j].of => i = j

(* Every lane counts what it spends: the final cut finds nothing to drop.  *)
CutUnreached == pc = "emit" => Total(parts) <= Room

(* Directives, contradictions and critical facts together never take more  *)
(* than their share, and a topic's notes count into it.                    *)
TailCapped == call.route \in Routes => Total(OfLane(TailLanes)) <= TailRoom

(* Where the question asks for breadth or a time, every session found is in *)
(* the context when an equal share holds a header and an excerpt.              *)
BreadthServed ==
    LET before == Total(OfLane({"belief"}))
        full == {s \in Sessions : Excerpts(s) # <<>>}
    IN  pc = "window" /\ (Broad \/ Dated) /\ full # {} /\ (Room - before) \div Cardinality(full) >= 3
        => \A s \in full : Line("header", {s}, 1) \in ToSet(parts)

(* The word search gives the rows it would give if it read them all: rows  *)
(* the reader may not see never starve those behind them.                  *)
WordsNotStarved == pc = "fill" => Admitted(Hits) = Upto(RawLimit, Only(Hits, Audible))

(* One pass over the passages keeps the records whose best passages score  *)
(* highest, each with its best.                                            *)
RecordsAreBest ==
    call.route = "records" =>
        LET best(r) == Max({call.score[p] : p \in {q \in Passages : RecordOf[q] = r}})
            kept == UNION {l.of : l \in ToSet(parts)}
            above == {r \in {RecordOf[p] : p \in Passages} : best(r) > 0}
        IN  /\ \A l \in ToSet(parts) : \A r \in l.of : l.cost = best(r)
            /\ Cardinality(kept) = Smaller(Limit, Cardinality(above))
            /\ \A r \in above \ kept, k \in kept : best(k) >= best(r)

(* What was forgotten before a call began is in no context it returns (the *)
(* handler of a withdrawn consent: "Erase every trace of forbidden         *)
(* content").                                                              *)
ForgottenStaysOut ==
    \A l \in ToSet(parts) : l.lane \in {"excerpt", "reply"} => l.of \cap could.gone = {}

(* A critical fact the reader may read is in the block of every prompt.    *)
CriticalAlwaysTold ==
    [][StaticBlock => \A b \in Beliefs : Kind[b] = "critical" /\ Readable(b) /\ status[b] = "active"
                        => Line("critical", {b}, 1) \in ToSet(parts')]_vars

============================================================================
