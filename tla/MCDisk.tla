------------------------------- MODULE MCDisk -------------------------------
(* TLC instances of what happens to files and tables that others write too: *)
(* a declared external database that is read while its own program writes   *)
(* it, the git mirror and its replay, the choice, move and close of the     *)
(* database file, the upgrade of an earlier build's tables, and the copies  *)
(* of the vector tables in memory.  They share no state, so a behaviour is  *)
(* one of one of them: part says of which, and the others rest.             *)
EXTENDS DiskParts, Sequences

CONSTANTS
    Parts,     \* the components looked at
    CardCap,   \* of FederatedRead
    BareFirst,
    TokenCap

VARIABLES part, file, papers, schema, built, edits, q

(* A folder of tax papers with one below it, another folder, and texts that *)
(* are cut in different ways.                                               *)
Taxes == <<"Taxes">>
Year == <<"Taxes", "2026">>
Elsewhere == <<"Home">>
Piece(gap, len) == [gap |-> gap, len |-> len]
PlainText == <<Piece(0, 2), Piece(3, 2), Piece(0, 1), Piece(1, 2)>>
LongText == <<Piece(0, 7), Piece(2, 1), Piece(3, 1), Piece(1, 3)>>
BriefText == <<Piece(0, 2)>>
Paper(folder, words, text) == [folder |-> folder, words |-> words, text |-> text]
NoPaper == Paper(<<>>, {}, <<>>)
Papers == {
    <<Paper(Year, {"last"}, PlainText), Paper(Taxes, {"last"}, BriefText),
      Paper(Elsewhere, {"refund"}, LongText)>>,
    <<Paper(Elsewhere, {"last"}, LongText), Paper(Elsewhere, {"refund", "last"}, PlainText), NoPaper>> }
Letters == [t \in {"last", "refund", "tax", "2026"} |->
              CASE t = "refund" -> 6 [] t = "tax" -> 3 [] OTHER -> 4]
FoundIn == [t \in {"last", "refund", "tax", "2026"} |->
              CASE t = "tax" -> {"taxes"} [] t = "2026" -> {"2026"} [] OTHER -> {}]
Lowered == [n \in {"Taxes", "2026", "Home"} |->
              CASE n = "Taxes" -> "taxes" [] n = "Home" -> "home" [] OTHER -> n]

Filed == {Paper(Year, {"refund"}, BriefText)}
Tokens == {<<"tax">>, <<"last", "refund">>, <<"tax", "2026">>}
Sorted == <<Elsewhere, Taxes, Year>>

(* Three rows of it, one edit, one of two principals who may read. *)
Library == INSTANCE FederatedRead WITH
    Rows <- {1, 2, 3}, Libraries <- Papers, Edits <- Filed, Questions <- Tokens,
    TokenLength <- Letters, Within <- FoundIn, Lower <- Lowered, FolderOrder <- Sorted,
    Principals <- {"me", "guest"}, Readers <- {"me"}, RowCap <- 2, PathCap <- 3, Size <- 5,
    MaxPassages <- 3, MaxEdits <- 1, rows <- papers
libraryVars == <<file, papers, schema, built, edits, q>>

(* Two keys of one record and one of another. *)
Records == [k1 |-> "r1", k2 |-> "r1", k3 |-> "r2"]

-----------------------------------------------------------------------------
(* A component rests in one of its initial states. *)
UpgradeRests ==
    \A id \in 1 .. 3 : jobs[id].dep = 0 /\ jobs[id].task = <<"extract", "consistency", "route">>[id]
FilesRest == events = {} /\ name.new = 0 /\ ~world.same /\ ~world.links /\ ~world.claimed

PartsInit ==
    /\ part \in Parts
    /\ Library!Init /\ (part # "library" => file = "absent" /\ papers[3] = NoPaper)
    /\ Mirror!Init
    /\ Up!Init /\ (part # "upgrade" => UpgradeRests)
    /\ Init /\ (part # "files" => FilesRest)
    /\ Cache!Init /\ (part # "cache" => design = "projection")

PartsNext ==
    \/ part = "library" /\ Library!Next /\ UNCHANGED <<part, mirrorVars, upgradeVars, vars, cacheVars>>
    \/ part = "mirror" /\ Mirror!Next /\ UNCHANGED <<part, libraryVars, upgradeVars, vars, cacheVars>>
    \/ part = "upgrade" /\ Up!Next /\ UNCHANGED <<part, libraryVars, mirrorVars, vars, cacheVars>>
    \/ part = "files" /\ Next /\ UNCHANGED <<part, libraryVars, mirrorVars, upgradeVars, cacheVars>>
    \/ part = "cache" /\ Cache!Next /\ UNCHANGED <<part, vars, libraryVars, mirrorVars, upgradeVars>>

PartsSpec == PartsInit /\ [][PartsNext]_<<part, vars, libraryVars, mirrorVars, upgradeVars, cacheVars>>

-----------------------------------------------------------------------------
(* The answer of the file: the rows a specific word matches before others,  *)
(* each file on one card, the best card of a folder, texts cut at a unit;   *)
(* a file that rests need not be looked at.  What the other components keep *)
(* DiskParts defines.                                                       *)
FoundRight ==
    part = "library" =>
        /\ Library!TypeOK /\ Library!SpecificFirst /\ Library!EachFileOnce
        /\ Library!FoldKeepsBest /\ Library!UnitsStayWhole

(* Parts of what DiskParts states, and what only some constants give.       *)
ReplayKeepsOrder == Mirror!ReplayKeepsOrder
NoneStuck == Up!NoneStuck
ObservedNeverStale == Cache!ObservedNeverStale
=============================================================================
