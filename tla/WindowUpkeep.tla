---------------------------- MODULE WindowUpkeep ----------------------------
(***************************************************************************)
(* What the context engine (context.py) does to a window besides folding:  *)
(* old tool output is trimmed before a turn, a rough estimate may have to  *)
(* wait for the provider's count, the facts of folded turns go to a capped *)
(* digest, and the model is warned once when the window is nearly full.    *)
(*                                                                         *)
(* The host appends messages, runs the trim and the check before a turn    *)
(* and reports the provider's count of each request; captured is what the  *)
(* memory keeps of a turn when it ends.  Lengths are abstract units, and   *)
(* what compaction keeps of the middle is left open.                       *)
(***************************************************************************)
EXTENDS Integers, Sequences, FiniteSets, SequencesExt

CONSTANTS
    Results,        \* tool outputs
    Size,           \* per tool output: its length
    Pinned,         \* tool outputs the user pinned
    Facts,          \* statements a user message may make
    NoFact,
    Trigger,        \* count at which the host's trim may act
    Threshold,      \* count at which a compaction is due
    Low,            \* what a compaction compacts down to
    Overhead,       \* what the host's count holds besides the messages
    Pointable,      \* length from which a copy becomes a pointer
    MinChars,       \* length from which only the ends of a result are kept
    Ends,           \* length of the ends
    MinReclaim,     \* least a trim must save
    ProtectFirst, ProtectLast,
    DigestCap,      \* lines of the digest
    Reports,        \* the provider reports what a request cost
    CaptureLast,    \* messages of a turn the capture is given
    MaxMessages,    \* bound: messages of the conversation
    MaxMishaps      \* bound: requests that fail, and resets

VARIABLES
    window,         \* the messages the host holds
    pc,             \* what the host does next
    running,        \* messages of the turn that is running
    said,           \* messages so far
    mishaps,
    captured,       \* tool outputs the memory holds whole
    rearm,          \* count below which no trim is made (_prune_rearm_tokens)
    awaiting,       \* no count was reported since the last compaction
    reported,       \* the provider has reported a count
    last,           \* the count it reported last
    latched,        \* the warning was delivered for this crossing
    digest,         \* the digest's lines, oldest first
    regrown,        \* ghost: the length after the last trim and the runway it set
    warned,         \* ghost: since a count was last under the threshold
    compacted,      \* ghost: compacted, and no count was reported since
    waits           \* ghost: checks put off since a compaction or a count

counts == <<rearm, awaiting, reported, last, latched>>
vars == <<window, pc, running, said, mishaps, captured, counts, digest, regrown, warned, compacted, waits>>

Talk(f) == [is |-> "talk", of |-> f, form |-> "whole"]
Tool(r) == [is |-> "tool", of |-> r, form |-> "whole"]
Note == [is |-> "note", of |-> NoFact, form |-> "whole"]

Length(m) ==
    CASE m.is # "tool" \/ m.form = "pointer" -> 1
      [] m.is = "tool" /\ m.form = "whole" -> Size[m.of]
      [] m.is = "tool" /\ m.form = "ends" -> Ends

Text(w) ==
    LET upto[i \in 0..Len(w)] == IF i = 0 THEN 0 ELSE upto[i - 1] + Length(w[i]) IN upto[Len(w)]
Larger(a, b) == IF a > b THEN a ELSE b
LastOf(n, s) == SubSeq(s, Larger(1, Len(s) - n + 1), Len(s))

NoTrim == [text |-> 0, runway |-> 0]

----------------------------------------------------------------------------
(* prune_tool_results_only *)

Middle(w) == ProtectFirst + 1 .. Len(w) - ProtectLast
MayTrim(w, i) == i \in Middle(w) /\ w[i].is = "tool" /\ w[i].of \notin Pinned

(* Mutant: a copy points at an earlier one. *)
Pointed_Back(w) ==
    [i \in DOMAIN w |-> IF /\ MayTrim(w, i) /\ Length(w[i]) >= Pointable
                           /\ \E j \in DOMAIN w \ {i} : w[j] = w[i]
                        THEN [w[i] EXCEPT !.form = "pointer"] ELSE w[i]]

(* First pass: a result that a later message repeats becomes a pointer.    *)
Pointed(w) ==
    [i \in DOMAIN w |-> IF /\ MayTrim(w, i) /\ Length(w[i]) >= Pointable
                           /\ \E j \in DOMAIN w : j > i /\ w[j] = w[i]
                        THEN [w[i] EXCEPT !.form = "pointer"] ELSE w[i]]

(* Second pass: a long result keeps its ends.                              *)
Shortened(w) ==
    [i \in DOMAIN w |-> IF MayTrim(w, i) /\ Length(w[i]) > MinChars /\ Length(w[i]) > Ends
                        THEN [w[i] EXCEPT !.form = "ends"] ELSE w[i]]

Pruned(w) == Shortened(Pointed(w))

(* What the text must grow by before the next trim.                        *)
Runway(reclaimed) == Larger(reclaimed, Larger(Trigger, MinReclaim))

Trim ==
    /\ pc = "trim"
    /\ pc' = "check"
    /\ LET after == Pruned(window)
           reclaimed == Text(window) - Text(after)
       IN IF /\ Text(window) + Overhead >= Larger(Trigger, rearm)
             /\ Len(window) > ProtectFirst + ProtectLast + 1
             /\ after # window
             /\ reclaimed >= MinReclaim
          THEN /\ window' = after
               /\ rearm' = Text(after) + Runway(reclaimed)
               /\ regrown' = [text |-> Text(after), runway |-> Larger(reclaimed, Trigger)]
          ELSE UNCHANGED <<window, rearm, regrown>>
    /\ UNCHANGED <<running, said, mishaps, captured, awaiting, reported, last, latched, digest, warned, compacted, waits>>

----------------------------------------------------------------------------
(* A compaction *)

(* The messages at some places, in their order.                            *)
Picked(w, ixs) ==
    LET upto[i \in 0..Len(w)] ==
          IF i = 0 THEN <<>> ELSE IF i \in ixs THEN Append(upto[i - 1], w[i]) ELSE upto[i - 1]
    IN upto[Len(w)]

(* New lines go behind the old ones, each once; the oldest make room.      *)
Updated(lines, new) ==
    LastOf(DigestCap, lines \o Picked(new, {i \in DOMAIN new : new[i] \notin ToSet(lines)}))

(* The facts of the folded user messages, in the order they were said.     *)
States(m) == m.is = "talk" /\ m.of # NoFact
DigestLines(out) ==
    LET stated == Picked(out, {i \in DOMAIN out :
                      States(out[i]) /\ \A j \in 1..i - 1 : out[j] # out[i]})
    IN [i \in DOMAIN stated |-> stated[i].of]

UnderPressure(count) == count >= Threshold

(* The warning rides in the note, and is latched once it is delivered.     *)
Delivered(out) == UnderPressure(last) /\ ~latched /\ out # <<>>

(* Mutant: the warning is given again by the next compaction. *)
Latch_Never(out) == latched' = FALSE

Latch(out) == latched' = (latched \/ Delivered(out))

Await == awaiting' = TRUE

(* compress(): the head, the tail, pins and part of the middle stay.  What *)
(* goes is archived as the window shows it.                                *)
Compress ==
    LET old == {i \in DOMAIN window : window[i].is = "note"}
        must == {i \in DOMAIN window \ old : i \notin Middle(window) \/ window[i].of \in Pinned}
    IN /\ Len(window) > ProtectFirst + ProtectLast
       /\ \E more \in SUBSET (DOMAIN window \ (old \cup must)) :
            /\ more = {} \/ Text(Picked(window, must \cup more)) <= Low
            /\ LET kept == must \cup more
                   out == Picked(window, DOMAIN window \ (kept \cup old))
                   head == Picked(window, kept \cap 1..ProtectFirst)
               IN /\ window' = head \o (IF out = <<>> THEN <<>> ELSE <<Note>>)
                                    \o Picked(window, kept \ (1..ProtectFirst))
                  /\ captured' = captured \cup {m.of : m \in {n \in ToSet(out) : n.is = "tool" /\ n.form = "whole"}}
                  /\ digest' = Updated(digest, DigestLines(out))
                  /\ Latch(out)
                  /\ warned' = (warned \/ Delivered(out))
       /\ Await
       /\ rearm' = 0 /\ regrown' = NoTrim /\ compacted' = TRUE /\ waits' = 0
       /\ UNCHANGED <<said, mishaps, reported, last>>

(* should_defer_preflight_to_real_usage, of an estimate over the threshold *)
Defers == awaiting \/ (last < Threshold /\ reported)

Rough == Text(window) + Overhead

(* The host's check before a turn: the window fits, or nothing lies        *)
(* between the protected head and tail.                                    *)
CheckPasses ==
    /\ pc = "check"
    /\ Rough < Threshold \/ (~Defers /\ Len(window) <= ProtectFirst + ProtectLast)
    /\ pc' = "running"
    /\ UNCHANGED <<window, running, said, mishaps, captured, counts, digest, regrown, warned, compacted, waits>>

CheckDeferred ==
    /\ pc = "check" /\ Rough >= Threshold /\ Defers
    /\ pc' = "running"
    /\ waits' = waits + 1
    /\ UNCHANGED <<window, running, said, mishaps, captured, counts, digest, regrown, warned, compacted>>

CheckCompacts ==
    /\ pc = "check" /\ Rough >= Threshold /\ ~Defers
    /\ pc' = "running" /\ running' = running
    /\ Compress

(* should_compress(), on the count of the request just answered.           *)
CompactNow ==
    /\ pc = "answered"
    /\ last > Threshold
    /\ pc' = "running" /\ running' = running
    /\ Compress

CompactNot ==
    /\ pc = "answered"
    /\ last <= Threshold \/ Len(window) <= ProtectFirst + ProtectLast
    /\ pc' = "running"
    /\ UNCHANGED <<window, running, said, mishaps, captured, counts, digest, regrown, warned, compacted, waits>>

----------------------------------------------------------------------------
(* The conversation *)

Add(m) ==
    /\ said < MaxMessages
    /\ said' = said + 1
    /\ window' = Append(window, m)

Ask ==
    /\ pc = "idle"
    /\ \E f \in Facts \cup {NoFact} : Add(Talk(f))
    /\ pc' = "trim"
    /\ running' = 1
    /\ UNCHANGED <<mishaps, captured, counts, digest, regrown, warned, compacted, waits>>

(* The warning is armed again once a count is under the threshold.         *)
Rearmed(count) == latched /\ UnderPressure(count)

(* update_from_response, with the provider's count of the request sent;    *)
(* a provider that omits it leaves 0.                                      *)
Counted ==
    LET count == IF Reports THEN Text(window) + Overhead ELSE 0 IN
    /\ last' = count
    /\ awaiting' = (awaiting /\ ~Reports)
    /\ reported' = (reported \/ Reports)
    /\ latched' = Rearmed(count)
    /\ warned' = (warned /\ UnderPressure(count))
    /\ compacted' = (compacted /\ ~Reports)
    /\ waits' = IF Reports THEN 0 ELSE waits
    /\ UNCHANGED rearm

CallTool ==
    /\ pc = "running"
    /\ \E r \in Results : Add(Tool(r))
    /\ Counted
    /\ pc' = "answered"
    /\ running' = running + 1
    /\ UNCHANGED <<mishaps, captured, digest, regrown>>

(* The turn ends with an answer, and is captured.                          *)
Answer ==
    /\ pc = "running"
    /\ Add(Talk(NoFact))
    /\ Counted
    /\ LET turn == LastOf(IF running + 1 < CaptureLast THEN running + 1 ELSE CaptureLast, window')
       IN captured' = captured \cup {m.of : m \in {n \in ToSet(turn) : n.is = "tool" /\ n.form = "whole"}}
    /\ pc' = "idle" /\ running' = 0
    /\ UNCHANGED <<mishaps, digest, regrown>>

(* The request fails or is interrupted: no count and no capture.           *)
Fail ==
    /\ pc = "running"
    /\ mishaps < MaxMishaps /\ mishaps' = mishaps + 1
    /\ pc' = "idle" /\ running' = 0
    /\ UNCHANGED <<window, said, captured, counts, digest, regrown, warned, compacted, waits>>

Forget == /\ rearm' = 0 /\ awaiting' = FALSE /\ reported' = FALSE /\ last' = 0 /\ latched' = FALSE

(* on_session_reset: `/new` or `/reset`.                                   *)
Reset ==
    /\ pc = "idle" /\ window # <<>>
    /\ mishaps < MaxMishaps /\ mishaps' = mishaps + 1
    /\ window' = <<>> /\ digest' = <<>>
    /\ Forget
    /\ regrown' = NoTrim /\ warned' = FALSE /\ compacted' = FALSE /\ waits' = 0
    /\ UNCHANGED <<pc, running, said, captured>>

----------------------------------------------------------------------------
Init ==
    /\ window = <<>> /\ pc = "idle" /\ running = 0 /\ said = 0 /\ mishaps = 0 /\ captured = {}
    /\ rearm = 0 /\ awaiting = FALSE /\ reported = FALSE /\ last = 0 /\ latched = FALSE
    /\ digest = <<>> /\ regrown = NoTrim /\ warned = FALSE /\ compacted = FALSE /\ waits = 0

Next ==
    \/ Trim \/ CheckPasses \/ CheckDeferred \/ CheckCompacts \/ CompactNow \/ CompactNot
    \/ Ask \/ CallTool \/ Answer \/ Fail \/ Reset

Spec == Init /\ [][Next]_vars

----------------------------------------------------------------------------
(* Properties *)

TypeOK ==
    /\ pc \in {"idle", "trim", "check", "running", "answered"}
    /\ \A i \in DOMAIN window : window[i].form \in {"whole", "ends", "pointer"}
    /\ said \in 0..MaxMessages /\ running \in 0..MaxMessages /\ mishaps \in 0..MaxMishaps
    /\ captured \subseteq Results
    /\ awaiting \in BOOLEAN /\ reported \in BOOLEAN /\ latched \in BOOLEAN /\ warned \in BOOLEAN
    /\ Len(digest) <= DigestCap

(* "Pass 1 is lossless": a trim leaves, for every tool result that could   *)
(* be read at its place or through its pointer, a later copy that shows    *)
(* it, through any number of trims.                                        *)
Shows(w, i) == \E j \in DOMAIN w : j >= i /\ w[j].is = "tool" /\ w[j].of = w[i].of /\ w[j].form # "pointer"
TrimShowsAll ==
    [][Trim => \A i \in DOMAIN window : window[i].is = "tool" /\ Shows(window, i) => Shows(window', i)]_vars

(* "after one the context must regrow by a full trigger's worth before the *)
(* next" trim, which breaks the provider's cache again.  The code keeps it *)
(* where the host's count is of the messages alone: a trim is armed again  *)
(* without the fixed part of the prompt that the next count holds.         *)
TrimAfterRegrowth ==
    [][Trim /\ window' # window /\ regrown # NoTrim => Text(window) >= regrown.text + regrown.runway]_vars

(* The model is warned once per crossing: not again before the provider's  *)
(* count was under the threshold, whatever compactions and resets ran.     *)
WarnedOnce == [][Compress /\ Delivered(<<Note>>) => ~warned]_vars

(* ... and it is warned in each crossing: no latch is left over from an    *)
(* earlier one, or from an earlier conversation.                           *)
LatchOfThisCrossing == latched => warned

(* "right after a compaction a stale estimate could compact a request that *)
(* already fit": two compactions at the check have a count between them.   *)
CountBetween == [][CheckCompacts => ~compacted]_vars

(* "a provider that omits usage never blocks compression": where the       *)
(* estimate is the only signal, no check over the threshold is put off.    *)
EstimateCounts == ~Reports => waits <= 1

(* "Nothing is lost to memory - the turn was captured whole when it        *)
(* ended": a trim cuts only what the memory holds.                         *)
TrimOnlyCaptured ==
    [][Trim => \A i \in DOMAIN window :
         window[i].is = "tool" /\ window[i].form = "whole" /\ window'[i].form = "ends" => window[i].of \in captured]_vars

(* A pointer says "identical to a later tool result in this conversation". *)
PointersResolve == \A i \in DOMAIN window : window[i].is = "tool" /\ window[i].form = "pointer" => Shows(window, i)

(* "repeated compress() on identical input does not ... change the         *)
(* returned digest text".                                                  *)
DigestSettles ==
    LET new == DigestLines(window) IN Updated(Updated(digest, new), new) = Updated(digest, new)
=============================================================================
