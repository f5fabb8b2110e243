-------------------------- MODULE ConversationParts --------------------------
(***************************************************************************)
(* What one conversation goes through, side by side: the folding of turns  *)
(* by the context engine, of which this module is an extension, the host's *)
(* upkeep of its window, the contexts and record searches that recall what *)
(* was said, the labels that say who spoke, and the script that takes back *)
(* what was credited to the wrong speaker.  They share no state.           *)
(***************************************************************************)
EXTENDS ContextEngine

CONSTANTS
    \* WindowUpkeep
    Results, Size, Pinned, Statements, NoFact, TrimAt, Threshold, Low, Overhead, Pointable,
    MinChars, Ends, MinReclaim, HeadKept, TailKept, DigestCap, Reports, CaptureLast, MaxMessages,
    MaxMishaps,
    \* Speakers
    UserBodies, OtherBodies, Hosts, CutsInside,
    \* Recall
    Beliefs, Rank, Kind, Newer, NoBelief, Turns, Log, SessionOf, NoSession, Folded, Summarised, Sealed,
    Theirs, Passages, Scan, RecordOf, Queries, Limit, BroadLimit, SessionCap, FetchMax, Room,
    TailRoom, MaxDirectives, MaxExpanded, WindowTurns, MaxChanges,
    \* Retraction
    Facts, Episodes, OwnerOf, Captured, Batch, Retries, Live, MaxWrites, MaxDeaths

VARIABLES
    messages, upkeepAt, running, uttered, mishaps, captured, rearm, awaiting, reported, last,
    latched, digest, regrown, warned, compacted, waits,
    turn, host, events,
    status, acl, forgotten, rivals, changes, at, call, found, raw, groups, spent, placed, parts,
    could,
    log, belief, pc, human, just, todo, tries, writes, deaths, told, unsaid

Upkeep == INSTANCE WindowUpkeep WITH
    Facts <- Statements, Trigger <- TrimAt, ProtectFirst <- HeadKept, ProtectLast <- TailKept,
    window <- messages, pc <- upkeepAt, said <- uttered
upkeepVars == <<messages, upkeepAt, running, uttered, mishaps, captured, rearm, awaiting, reported,
                last, latched, digest, regrown, warned, compacted, waits>>

Speak == INSTANCE Speakers
speakVars == <<turn, host, events>>

Read == INSTANCE Recall WITH
    MaxWrites <- MaxChanges, writes <- changes, pc <- at, told <- placed
readVars == <<status, acl, forgotten, rivals, changes, at, call, found, raw, groups, spent,
              placed, parts, could>>

Clean == INSTANCE Retraction
cleanVars == <<log, belief, pc, human, just, todo, tries, writes, deaths, told, unsaid>>

-----------------------------------------------------------------------------
(* What the components keep, besides NothingVanishes and FoldsNeatly.       *)

(* One warning and one compaction per crossing of the threshold, and each   *)
(* crossing warned of.                                                      *)
OncePerCrossing ==
    /\ [](Upkeep!TypeOK /\ Upkeep!LatchOfThisCrossing)
    /\ Upkeep!WarnedOnce /\ Upkeep!CountBetween
TrimShowsAll == Upkeep!TrimShowsAll

(* What the user had said stays, what he had not is retracted. *)
TakesBackUnsaid == Clean!TakesBackUnsaid

(* What a context tells could be read by the caller; what it leaves out was *)
(* not to be had: nothing below the cut while there is room, no turn twice, *)
(* none that is before the model already, and the room shared out.          *)
DisclosedWasReadable == Read!DisclosedWasReadable
TurnsToldOnce == Read!CutUnreached /\ Read!LiveNotEchoed /\ Read!EachTurnOnce
RoomShared == Read!TailCapped /\ Read!BreadthServed /\ Read!WordsNotStarved /\ Read!RecordsAreBest

(* Who is credited with a line, and what of it is read. *)
ReadFaithfully == Speak!CreditsTrue /\ Speak!ReadFaithfully
=============================================================================
