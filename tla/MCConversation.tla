--------------------------- MODULE MCConversation ---------------------------
(* TLC instances of what one conversation goes through.  Its parts share no *)
(* state, so a behaviour is one of one of them: part says of which, and the *)
(* others rest.                                                             *)
EXTENDS ConversationParts

CONSTANTS
    Parts,         \* the components looked at
    BodyLines      \* of Speakers: lines a user message may have

VARIABLE part

(* A long tool output and a short one that is pinned; messages that state a *)
(* fact or none.                                                           *)
LongAndPinned == [big |-> 5, other |-> 3]

(* User messages of up to three lines, one of which may look like the label *)
(* of the user or the system, in a frame or out of it, and a block with such *)
(* a line before the user's words; answers and tool output of up to two     *)
(* lines, one of which may look like a label.                               *)
Line(kind, label) == [kind |-> kind, label |-> label]
Plain == {Line(k, "none") : k \in {"words", "note", "tag", "end", "long"}}
Labels == {Line("words", l) : l \in {"user", "system"}}
Forged == {Line("words", l) : l \in {"none", "user", "tool"}}
BoundedSeqs(S, n) == UNION {[1 .. k -> S] : k \in 1 .. n}
OneLabelled(bodies) ==
    {b \in bodies : Cardinality({i \in DOMAIN b : b[i].label # "none"}) <= 1}
Host(purpose, cron, bot) == [context |-> purpose, cron |-> cron, bot |-> bot]
ThreeHosts == {Host("", FALSE, FALSE), Host("cron", TRUE, FALSE), Host("", FALSE, TRUE)}

LinesOfUser == Plain \cup Labels
LabelInBlock == {<<Line("tag", "none"), l, Line("end", "none"), Line("words", "none")>> : l \in Labels}
BodiesOfUser == OneLabelled(BoundedSeqs(BodyLines, 3)) \cup LabelInBlock
BodiesOfOthers == OneLabelled(BoundedSeqs(Forged, 2))

(* A fact and the draft that may supersede it, a directive and a critical   *)
(* fact of another agent.  The first turns of both sessions belong to an    *)
(* owner the reader may not read; s1 goes on with tc and the folded td, s2  *)
(* with te.  The question has words of every turn but tb.                   *)
Kinds == [old |-> "fact", new |-> "fact", note |-> "directive", crit |-> "critical"]
TwoCritical == [Kinds EXCEPT !.note = "critical"]
Believed == {"old", "new", "note", "crit"}
Ranked == <<"old", "new", "crit", "note">>
Supersedes == [old |-> "new", new |-> "none", note |-> "none", crit |-> "none"]
AllTurns == {"ta", "tb", "tc", "td", "te"}
TurnLog == <<"ta", "tb", "tc", "td", "te">>
SessionsOf == [ta |-> "s1", tb |-> "s2", tc |-> "s1", td |-> "s1", te |-> "s2"]
Asked == {AllTurns \ {"tb"}}
Pieces == {"p1", "p2", "p3"}
PieceScan == <<"p1", "p2", "p3">>
RecordsOf == [p1 |-> "r1", p2 |-> "r2", p3 |-> "r1"]

(* Two facts and an episode of the script, two of one owner. *)
Owners == <<1, 1, 2>>

-----------------------------------------------------------------------------
(* A component rests in one of its initial states. *)
SpeakRests ==
    /\ turn = <<[role |-> "user", body |-> <<Line("words", "none")>>]>>
    /\ host = Host("", FALSE, FALSE) /\ events = <<>>
RetractRests ==
    log = <<{}>> /\ \A b \in 1 .. 3 : belief[b].channels = {"transcript"} /\ belief[b].just = {}
                                      /\ belief[b].prov = {}

PartsInit ==
    /\ part \in Parts
    /\ Init
    /\ Upkeep!Init
    /\ Clean!Init /\ (part # "retract" => RetractRests)
    /\ Read!Init
    /\ IF part = "speak" THEN Speak!Init ELSE SpeakRests

PartsNext ==
    \/ part = "fold" /\ Next /\ UNCHANGED <<part, upkeepVars, cleanVars, speakVars, readVars>>
    \/ part = "upkeep" /\ Upkeep!Next /\ UNCHANGED <<part, vars, cleanVars, speakVars, readVars>>
    \/ part = "retract" /\ Clean!Next /\ UNCHANGED <<part, vars, upkeepVars, speakVars, readVars>>
    \/ part = "speak" /\ Speak!Next /\ UNCHANGED <<part, vars, upkeepVars, cleanVars, readVars>>
    \/ part = "read" /\ Read!Next /\ UNCHANGED <<part, vars, upkeepVars, cleanVars, speakVars>>

PartsSpec == PartsInit /\ [][PartsNext]_<<part, vars, upkeepVars, cleanVars, speakVars, readVars>>
=============================================================================
