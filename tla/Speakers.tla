------------------------------ MODULE Speakers ------------------------------
(* Who said each line of what is captured (engine/speaker.py), and what a   *)
(* reader is later shown of it.                                             *)
(*                                                                          *)
(* A message is a role and a body of lines.  A line is words, or part of a  *)
(* frame the host wrote into the message: a one-line note, a block that     *)
(* opens with a tag and runs to its end line, or a long block that runs to  *)
(* the end of the message.  Any line may begin with text that looks like a  *)
(* role label.  A turn is rendered into one excerpt, cut into chunks and    *)
(* stored, each chunk an event of its own with or without its spans; every  *)
(* later reader sees one chunk and nothing of the message it was cut from.  *)
EXTENDS Integers, FiniteSets, FiniteSetsExt, Sequences, SequencesExt

CONSTANTS
    UserBodies,     \* the bodies of `user` messages: sequences of lines
    OtherBodies,    \* the bodies of `assistant` and `tool` messages
    Hosts,          \* what the host may tell of a session
    CutsInside      \* whether a chunk may begin inside a message

VARIABLES
    turn,           \* the messages of the turn
    host,           \* [context, cron, bot]: what is known of who is typing
    events          \* the `observed` events written

vars == <<turn, host, events>>

NoLabel == "none"
UserSides == {"human", "automation"}

\* user_side: a person typing, unless the host or the session says otherwise.
UserSide(h) ==
    IF h.context \notin {"", "primary"} \/ h.cron \/ h.bot THEN "automation" ELSE "human"

RoleSpeaker(role, side) ==
    CASE role = "user" -> side
      [] role \in {"assistant", "tool", "system", "automation"} -> role
      [] OTHER -> "unknown"

RoleLabel(role, side) == IF role = "user" /\ side # "human" THEN "automation" ELSE role

---------------------------------------------------------------------------
(* Host framing inside a message of the user side.                          *)

\* A message that opens with a bracketed frame is the machine's to its end.
Opens(kinds) == kinds[1] \in {"note", "long"}

InBlock(kinds, i) ==
    \E j \in 1 .. i : \/ kinds[j] = "long"
                      \/ kinds[j] = "tag" /\ \A k \in j .. i - 1 : kinds[k] # "end"

Framed(kinds, i) == Opens(kinds) \/ kinds[i] = "note" \/ InBlock(kinds, i)

\* split_user_content
Split(kinds, side) ==
    [i \in DOMAIN kinds |-> IF Framed(kinds, i) THEN "system" ELSE side]

\* The speaker of each line of a message.
Spoken(kinds, who) ==
    IF who \in UserSides THEN Split(kinds, who) ELSE [i \in DOMAIN kinds |-> who]

Kinds(lines) == [i \in DOMAIN lines |-> lines[i].kind]

---------------------------------------------------------------------------
(* Capture.                                                                 *)

\* render_messages: the lines of a turn, the first of a message under its label.
Rendered(side) ==
    LET Lines(m) == [i \in DOMAIN m.body |->
                        IF i = 1 THEN [m.body[1] EXCEPT !.label = RoleLabel(m.role, side)]
                        ELSE m.body[i]]
    IN  FlattenSeq([k \in DOMAIN turn |-> Lines(turn[k])])

\* ... and the spans over them.
RenderedSpans(side) ==
    FlattenSeq([k \in DOMAIN turn |->
        Spoken(Kinds(turn[k].body), RoleSpeaker(turn[k].role, side))])

Heads == {1 + FoldSeq(LAMBDA m, n : Len(m.body) + n, 0, SubSeq(turn, 1, k - 1)) :
             k \in DOMAIN turn}

\* _split_excerpt: at the start of a message where one fits, else at a line.
ChunkStarts(n) ==
    {{1} \cup cuts : cuts \in {c \in SUBSET (2 .. n) : CutsInside \/ c \subseteq Heads}}

ChunkEnd(starts, a, n) == Min({b - 1 : b \in {s \in starts : s > a}} \cup {n})

\* chunk_spans
Chunked(spans, a, b) == SubSeq(spans, a, b)

---------------------------------------------------------------------------
(* Attribution of an event.                                                 *)

\* The line a line's message starts at, of the lines taken for a start; 0 for
\* the lines before the first.
Start(starts, i) == Max({0} \cup {j \in starts : j <= i})

\* The lines under the same label.
Group(starts, i, n) ==
    Max({Start(starts, i), 1}) .. Min({j - 1 : j \in {k \in starts : k > i}} \cup {n})

Body(lines, group) == SubSeq(Kinds(lines), Min(group), Max(group))

FramedIn(lines, starts, i) ==
    LET group == Group(starts, i, Len(lines))
    IN  Framed(Body(lines, group), i - Min(group) + 1)

Labelled(lines) == {i \in DOMAIN lines : lines[i].label # NoLabel}

\* parse_labeled: labels are read, lines before the first are nobody's.
ParseLabeled(lines, side) ==
    [i \in DOMAIN lines |->
        LET at  == Start(Labelled(lines), i)
            who == IF at = 0 THEN "unknown" ELSE RoleSpeaker(lines[at].label, side)
        IN  IF who \in UserSides /\ FramedIn(lines, Labelled(lines), i)
            THEN "system" ELSE who]

\* legacy_lines
Legacy(e) ==
    LET side == IF host.cron THEN "automation" ELSE "human"
    IN  CASE e.source = "session_transcript" -> ParseLabeled(e.lines, side)
          [] e.source = "context_eviction" ->
                Spoken(Kinds(e.lines),
                       CASE e.actor = "user" -> side
                         [] e.actor = "agent" -> "assistant"
                         [] OTHER -> "system")
          [] OTHER -> [i \in DOMAIN e.lines |-> "unknown"]

\* attribute_lines
Attributed(e) == IF e.spans # << >> THEN e.spans ELSE Legacy(e)

---------------------------------------------------------------------------
(* The excerpt a reader sees: the lines left of an event.                   *)

IsBoundary_Exact(label, at) == RoleSpeaker(label, "human") = at

\* _is_boundary: does a label at a place the spans give to `at` start a message?
IsBoundary(label, at) ==
    LET said == RoleSpeaker(label, "human")
    IN  \/ said = at
        \/ said \in UserSides /\ at \in {"system"} \cup UserSides

Boundaries(e) ==
    {i \in Labelled(e.lines) : e.spans = << >> \/ IsBoundary(e.lines[i].label, e.spans[i])}

Dropped(who, framed, dropTools) ==
    \/ who = "system"
    \/ dropTools /\ who = "tool"
    \/ who \in UserSides /\ framed

\* strip_framing: `lead` speaks the lines before the first label.
StripFraming(e, lead, dropTools) ==
    {i \in DOMAIN e.lines :
        LET at  == Start(Boundaries(e), i)
            who == IF at = 0 THEN lead ELSE RoleSpeaker(e.lines[at].label, "human")
        IN  ~Dropped(who, FramedIn(e.lines, Boundaries(e), i), dropTools)}

\* reader_text
ReaderText(e, dropTools) ==
    LET labelled == e.lines[1].label # NoLabel
        plain    == ~labelled /\ e.source # "session_transcript"
    IN  IF ~plain
        THEN StripFraming(e, IF e.spans # << >> /\ ~labelled THEN e.spans[1] ELSE "unknown",
                          dropTools)
        ELSE IF e.spans # << >>
        THEN {i \in DOMAIN e.lines :
                 e.spans[i] \notin {"system"} \cup (IF dropTools THEN {"tool"} ELSE {})}
        ELSE IF e.actor = "agent" THEN DOMAIN e.lines
        ELSE IF dropTools /\ e.actor # "user" THEN {}
        ELSE StripFraming(e, "human", FALSE)

---------------------------------------------------------------------------

Event(source, lines, spans, truth, actor) ==
    [source |-> source, lines |-> lines, spans |-> spans, truth |-> truth, actor |-> actor]

Init ==
    /\ \E user \in UserBodies, other \in OtherBodies, role \in {"assistant", "tool"} :
          LET u == [role |-> "user", body |-> user]
              o == [role |-> role, body |-> other]
          IN  turn \in {<<u>>, <<u, o>>, <<o, u>>}
    /\ host \in Hosts
    /\ events = << >>

\* The spans are left out only where the labels say the same of every line.
Recorded(told, side, chunk, spans) ==
    told \/ side # "human" \/ ParseLabeled(chunk, IF host.cron THEN "automation" ELSE "human") # spans

\* observe: the turn as one event per chunk.
Observe(starts) ==
    LET side  == UserSide(host)
        lines == Rendered(side)
        spans == RenderedSpans(side)
        Chunk(a) ==
            LET b    == ChunkEnd(starts, a, Len(lines))
                part == SubSeq(lines, a, b)
                mine == Chunked(spans, a, b)
            IN  Event("session_transcript", part,
                      IF Recorded(host.context # "" \/ host.bot, side, part, mine) THEN mine
                      ELSE << >>,
                      SubSeq(spans, a, b), IF side = "human" THEN "user" ELSE "system")
    IN  events' = [k \in 1 .. Cardinality(starts) |-> Chunk(SetToSortSeq(starts, <)[k])]

CaptureTurn ==
    /\ events = << >>
    /\ \E starts \in ChunkStarts(Len(RenderedSpans("human"))) : Observe(starts)
    /\ UNCHANGED <<turn, host>>

\* rescue and _ensure_durable store single messages, always with their spans.
SingleActor(source, role, spans, who) ==
    IF source = "rescue_extraction" THEN (IF who = "human" THEN "user" ELSE "system")
    ELSE IF who = "human" /\ \E i \in DOMAIN spans : spans[i] = "human" THEN "user"
    ELSE IF who \in {"human", "automation", "system", "unknown"} THEN "system" ELSE "agent"

StoreMessage(source, m) ==
    LET who   == RoleSpeaker(m.role, UserSide(host))
        spans == Spoken(Kinds(m.body), who)
    IN  events' = <<Event(source, m.body, spans, spans, SingleActor(source, m.role, spans, who))>>

Rescue ==
    /\ events = << >>
    /\ \E k \in DOMAIN turn : StoreMessage("rescue_extraction", turn[k])
    /\ UNCHANGED <<turn, host>>

EnsureDurable ==
    /\ events = << >>
    /\ \E k \in DOMAIN turn : StoreMessage("context_eviction", turn[k])
    /\ UNCHANGED <<turn, host>>

Next == CaptureTurn \/ Rescue \/ EnsureDurable

Spec == Init /\ [][Next]_vars

---------------------------------------------------------------------------

Stored == {events[k] : k \in DOMAIN events}

\* However a turn is cut and whatever its lines pretend to be, a stored line is
\* credited to the user exactly when the user wrote it: an event written without
\* its spans is one whose labels give the same reading.
CreditsTrue ==
    \A e \in Stored : \A i \in DOMAIN e.lines :
        (Attributed(e)[i] = "human") <=> (e.truth[i] = "human")

\* A piece that opens neither inside a frame nor with a line that only looks
\* like a label.
OpensPlainly(e) ==
    IF e.lines[1].label = NoLabel THEN e.truth[1] # "system"
    ELSE e.spans = << >> \/ IsBoundary(e.lines[1].label, e.spans[1])

\* Whether a line inside a frame is taken for the start of a message, by a label
\* of these speakers.
TakenInFrame(e, speakers) ==
    \E i \in Boundaries(e) :
        /\ e.truth[i] = "system" /\ e.lines[i].kind = "words"
        /\ RoleSpeaker(e.lines[i].label, "human") \in speakers

\* A reader of such a piece is shown all the user side wrote in it, unless a line
\* in a frame is labelled as the system's, nothing of the host's frames, unless a
\* line in one is labelled as the user's, and no tool output where that is not
\* wanted.
ReadFaithfully ==
    \A e \in Stored : OpensPlainly(e) =>
        \A i \in DOMAIN e.lines :
            /\ e.truth[i] \in UserSides =>
                  i \in ReaderText(e, TRUE) \/ TakenInFrame(e, {"system"})
            /\ e.truth[i] = "tool" => i \notin ReaderText(e, TRUE)
            /\ e.truth[i] = "system" =>
                  i \notin ReaderText(e, TRUE) \/ TakenInFrame(e, UserSides)

\* The same of every piece, which the code does not keep: a chunk that opens
\* inside a frame loses the words that follow the frame in its message, a frame
\* is shown from a line in it that looks like the user's label on, and a tool's
\* output that opens with a label is shown.
EveryWordRead ==
    \A e \in Stored : \A i \in DOMAIN e.lines :
        e.truth[i] \in UserSides => i \in ReaderText(e, TRUE)

EveryFrameUnread ==
    \A e \in Stored : \A i \in DOMAIN e.lines :
        e.truth[i] \in {"system", "tool"} => i \notin ReaderText(e, TRUE)

=============================================================================
