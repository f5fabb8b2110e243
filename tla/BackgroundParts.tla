--------------------------- MODULE BackgroundParts ---------------------------
(***************************************************************************)
(* The background work that goes over a store in pages and keeps a cursor, *)
(* side by side: the sweeps, of which this module is an extension, the     *)
(* extraction jobs, the write-back of migrated vectors, and the federation *)
(* sweep.  They share no state.                                            *)
(***************************************************************************)
EXTENDS Sweeps

CONSTANTS
    \* Extraction
    Turns, Versions, Heard, Extractors, MinFacts, RowLimit, MaxFaults, MaxForgets,
    \* WriteBack
    BackKeys, Order, Aliased, AtRisk, Batch, OldBuild, QuietWhileDown, MaxTexts, MaxCrashes,
    \* Federation
    Rows, MaxVersion, RowBudget, Runners, MaxDeaths, Embeds

VARIABLES
    said, version, facts, read, queue, hand, digests, forgotten, faults, late, unasked,
    copy, live, text, queued, tool, disk, kills,
    numbering, highest, source, texts, pointers, minted, vectors, events, state, sweeps, jobs,
    embedding, crashes

Extract == INSTANCE Extraction WITH Runners <- Extractors
extractVars == <<said, version, facts, read, queue, hand, digests, forgotten, faults,
                 late, unasked>>

Back == INSTANCE WriteBack WITH Keys <- BackKeys, pc <- tool, crashes <- kills
backVars == <<copy, live, text, queued, tool, disk, kills>>

Fed == INSTANCE Federation WITH
    Budget <- RowBudget, Sweepers <- Runners, MaxCrashes <- MaxDeaths
federateVars == <<numbering, highest, source, texts, pointers, minted, vectors, events, state,
                  sweeps, jobs, embedding, crashes>>

-----------------------------------------------------------------------------
(* The facts and the digest the jobs of an entity leave. *)
DigestHonest ==
    /\ Extract!TypeOK /\ Extract!LatestWins /\ Extract!ReadInTurn
    /\ Extract!OneDigest /\ Extract!DigestTellsFacts

(* The vectors carried back, and the cursor of the walk. *)
CarriedBack ==
    /\ [](Back!TypeOK /\ Back!NoneLeftBehind /\ Back!CursorIsHonest)
    /\ Back!WritesTrue /\ Back!ForgottenStaysForgotten

(* The pointers to the rows of an external database. *)
PointersHonest == [](Fed!TypeOK /\ Fed!PassedRowsHeld) /\ Fed!PointerKept

(* Of the sweeps, Sweeps defines what is kept: QuietMeansDone. *)
=============================================================================
