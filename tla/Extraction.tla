----------------------------- MODULE Extraction -----------------------------
(***************************************************************************)
(* From what was said to a profile of who it was said of.                  *)
(*                                                                         *)
(* An extract job reads one observed turn and appends an asserted event    *)
(* per item it hears, each in a transaction of its own; then it records    *)
(* that the turn was read at this version of the extractor, and only then  *)
(* asks for a digest of the entity.  A digest job reads the entity's facts *)
(* and keeps one note that tells them, retracting a note it told under     *)
(* another anchor.  A reextract job asks again for the turns that the      *)
(* present extractor has not read.                                         *)
(*                                                                         *)
(* The three tasks are of one class, in which the oldest pending job is    *)
(* claimed first, and an equal request that is still live is dropped.  A   *)
(* job whose worker died stays running until a drain finds its lease       *)
(* over; the jobs after it are claimed meanwhile, and it runs again from   *)
(* its beginning.                                                          *)
(*                                                                         *)
(* One entity and one fact per attribute are kept, of a domain whose newer *)
(* value wins.  What the extractor's rules hear in a turn is the constant  *)
(* Heard: the rules differ from version to version, the jobs do not.       *)
(***************************************************************************)
EXTENDS Integers, FiniteSets, Sequences, SequencesExt

CONSTANTS
    Turns,          \* 1 .. n, observed turns in the order of their seq
    Versions,       \* 1 .. m, versions of the extractor
    Heard,          \* Heard[t][v]: <<attribute, value>> items, in order
    Runners,        \* threads that run curation jobs
    MinFacts,       \* _DIGEST_MIN_FACTS
    RowLimit,       \* how many rows the digest reads, oldest first
    MaxFaults,      \* bound on processes that die in a job
    MaxForgets      \* bound on facts the agent forgets

VARIABLES
    said,           \* how many turns were captured
    version,        \* of the extractor now running
    facts,          \* the entity's rows of the facts table, by created_at
    read,           \* extractions: <<turn, version>>
    queue,          \* live curation jobs by id: [task, turn, running]
    hand,           \* what each runner is at
    digests,        \* the entity's digest notes: [anchor, line, status]
    forgotten,      \* items the agent had forgotten, as <<turn, item>>
    faults,         \* jobs interrupted so far
    late,           \* history: turns read when a later one had been read already
    unasked         \* history: whether a job died after its record, before its request

vars == <<said, version, facts, read, queue, hand, digests, forgotten, faults, late, unasked>>
history == <<late, unasked>>

Idle == [at |-> "idle"]

----------------------------------------------------------------------------
(* The facts of the entity *)

Told == ToSet(facts)
Active(rows) == {f \in ToSet(rows) : f.status = "active"}
LineOf(rows) == {f.item : f \in Active(rows)}

(* The rows or jobs of s but the one that is at one of these places. *)
Omitting(s, places) ==
    IF places = {} THEN s ELSE RemoveAt(s, CHOOSE i \in places : TRUE)

Without(rows, attribute, turn) ==
    Omitting(rows, {i \in DOMAIN rows : rows[i].item[1] = attribute /\ rows[i].turn = turn})

Superseding(rows, attribute) ==
    [i \in DOMAIN rows |->
        IF rows[i].item[1] = attribute /\ rows[i].status = "active"
        THEN [rows[i] EXCEPT !.status = "superseded"] ELSE rows[i]]

(* A fact's id is its attribute and its turn, never its value: a turn heard *)
(* again upserts the row it left, which moves to the end and is active.    *)
(* The same value told again only adds to the row that holds it.           *)
StoreFact(rows, turn, item) ==
    IF \E f \in Active(rows) : f.item = item THEN rows
    ELSE Append(Without(Superseding(rows, item[1]), item[1], turn),
                [item |-> item, turn |-> turn, status |-> "active"])

----------------------------------------------------------------------------
(* The job queue, as far as these jobs see it *)

Enqueue(q, task, turn) ==
    IF \E i \in DOMAIN q : q[i].task = task /\ q[i].turn = turn THEN q
    ELSE Append(q, [task |-> task, turn |-> turn, running |-> FALSE])

Done(q, job) == Omitting(q, {i \in DOMAIN q : q[i].task = job.task /\ q[i].turn = job.turn})

Pending == {i \in DOMAIN queue : ~queue[i].running}

(* Mutant: the newest job of the class is claimed.                         *)
Oldest_Newest == CHOOSE i \in Pending : \A k \in Pending : k <= i

Oldest == CHOOSE i \in Pending : \A k \in Pending : i <= k

CanClaim(r, task) ==
    /\ hand[r] = Idle
    /\ Pending # {}
    /\ queue[Oldest].task = task

Holds(r, job) == hand[r] # Idle /\ hand[r].job.task = job.task /\ hand[r].job.turn = job.turn

(* Jobs of workers that died. *)
Orphaned == {i \in DOMAIN queue : queue[i].running /\ \A r \in Runners : ~Holds(r, queue[i])}

----------------------------------------------------------------------------
Init ==
    /\ said = 0 /\ version = 1
    /\ facts = <<>> /\ read = {} /\ queue = <<>>
    /\ hand = [r \in Runners |-> Idle]
    /\ digests = {} /\ forgotten = {} /\ faults = 0
    /\ late = {} /\ unasked = FALSE

(* capture.observe stores the turn and asks for its extraction. *)
Say ==
    /\ said + 1 \in Turns
    /\ said' = said + 1
    /\ queue' = Enqueue(queue, "extract", said + 1)
    /\ UNCHANGED <<version, facts, read, hand, digests, forgotten, faults, history>>

(* The program restarts with a new extractor. *)
Upgrade ==
    /\ \A r \in Runners : hand[r] = Idle
    /\ version + 1 \in Versions
    /\ version' = version + 1
    /\ UNCHANGED <<said, facts, read, queue, hand, digests, forgotten, faults, history>>

(* The turns the extractor of now has not read. *)
Unread == {t \in 1 .. said : <<t, version>> \notin read}

(* The scheduler asks for a reextract job, again and again; a job that      *)
(* would find each of those turns queued is left out.                      *)
Schedule ==
    /\ \E t \in Unread : \A i \in DOMAIN queue : queue[i].task = "extract" => queue[i].turn # t
    /\ queue' = Enqueue(queue, "reextract", 0)
    /\ UNCHANGED <<said, version, facts, read, hand, digests, forgotten, faults, history>>

(* Forgetting and withdrawn consent retract the row.  Nothing asks for a    *)
(* digest.                                                                 *)
Forget ==
    /\ Cardinality(forgotten) < MaxForgets
    /\ \E i \in DOMAIN facts :
           /\ facts[i].status = "active"
           /\ facts' = [facts EXCEPT ![i].status = "retracted"]
           /\ forgotten' = forgotten \cup {<<facts[i].turn, facts[i].item>>}
    /\ UNCHANGED <<said, version, read, queue, hand, digests, faults, history>>

(* The process dies in a job: whatever was committed stays, and so does the *)
(* job, which is running for all anybody can see.  (A handler that raises   *)
(* loses its job for good; JobQueue and Sessions have that.)                *)
Interrupt(r) ==
    /\ faults < MaxFaults
    /\ hand[r] # Idle
    /\ faults' = faults + 1
    /\ hand' = [hand EXCEPT ![r] = Idle]
    /\ unasked' = (unasked \/ hand[r].at = "ask")
    /\ UNCHANGED <<said, version, facts, read, queue, digests, forgotten, late>>

(* The drain of a worker begins, and finds leases that have run out: these  *)
(* jobs are pending again, under their old ids.                             *)
Reclaim(r) ==
    /\ hand[r] = Idle
    /\ \E expired \in SUBSET Orphaned \ {{}} :
           queue' = [i \in DOMAIN queue |->
                        IF i \in expired THEN [queue[i] EXCEPT !.running = FALSE] ELSE queue[i]]
    /\ UNCHANGED <<said, version, facts, read, hand, digests, forgotten, faults, history>>

----------------------------------------------------------------------------
(* _task_extract *)

(* What the extractor's rules find in the turn's own words; nothing when    *)
(* no human speaks in it.                                                  *)
Items(t) == Heard[t][version]

AlreadyRead(t) == t \notin Unread

ClaimExtract(r) ==
    /\ CanClaim(r, "extract")
    /\ LET job == queue[Oldest] IN
           IF AlreadyRead(job.turn)
           THEN queue' = Done(queue, job) /\ UNCHANGED hand
           ELSE /\ queue' = [queue EXCEPT ![Oldest].running = TRUE]
                /\ hand' = [hand EXCEPT ![r] =
                      [at |-> "emit", job |-> job, left |-> Items(job.turn)]]
    /\ UNCHANGED <<said, version, facts, read, digests, forgotten, faults, history>>

(* One item, one appended event, one transaction. *)
Emit(r) ==
    /\ hand[r].at = "emit" /\ hand[r].left # <<>>
    /\ facts' = StoreFact(facts, hand[r].job.turn, Head(hand[r].left))
    /\ hand' = [hand EXCEPT ![r].left = Tail(hand[r].left)]
    /\ UNCHANGED <<said, version, read, queue, digests, forgotten, faults, history>>

Record(r) ==
    /\ hand[r].at = "emit" /\ hand[r].left = <<>>
    /\ LET t == hand[r].job.turn IN
           /\ read' = read \cup {<<t, version>>}
           /\ late' = IF \E u \in t+1 .. said : <<u, version>> \in read THEN late \cup {t} ELSE late
    /\ hand' = [hand EXCEPT ![r].at = "ask"]
    /\ UNCHANGED <<said, version, facts, queue, digests, forgotten, faults, unasked>>

(* Asked for once the turn is recorded, when it told a fact of the entity. *)
AskDigest(r) ==
    /\ hand[r].at = "ask"
    /\ LET job == hand[r].job IN
           queue' = Done(IF Items(job.turn) = <<>> THEN queue
                         ELSE Enqueue(queue, "digest", 0), job)
    /\ hand' = [hand EXCEPT ![r] = Idle]
    /\ UNCHANGED <<said, version, facts, read, digests, forgotten, faults, history>>

----------------------------------------------------------------------------
(* _task_digest *)

RowsRead == SubSeq(facts, 1, IF Len(facts) < RowLimit THEN Len(facts) ELSE RowLimit)

(* The earliest turn any of the rows came from, superseded ones included. *)
Anchor(rows) == CHOOSE t \in {f.turn : f \in ToSet(rows)} :
                    \A f \in ToSet(rows) : t <= f.turn

Shown == {d \in digests : d.status = "active"}

(* A note told under another anchor is another belief, which has to go.    *)
Outdated(anchor) == {d.anchor : d \in {e \in Shown : e.anchor # anchor}}

(* Below the threshold, or told already in these words: nothing to do.     *)
Pointless(rows) ==
    \/ Cardinality(Active(rows)) < MinFacts
    \/ Shown = {[anchor |-> Anchor(rows), line |-> LineOf(rows), status |-> "active"]}

ClaimDigest(r) ==
    /\ CanClaim(r, "digest")
    /\ LET job == queue[Oldest]  rows == RowsRead IN
           IF Pointless(rows)
           THEN queue' = Done(queue, job) /\ UNCHANGED hand
           ELSE /\ queue' = [queue EXCEPT ![Oldest].running = TRUE]
                /\ hand' = [hand EXCEPT ![r] =
                      [at |-> "digest", job |-> job, line |-> LineOf(rows),
                       anchor |-> Anchor(rows), drop |-> Outdated(Anchor(rows))]]
    /\ UNCHANGED <<said, version, facts, read, digests, forgotten, faults, history>>

RetractDigest(r) ==
    /\ hand[r].at = "digest"
    /\ \E a \in hand[r].drop :
           /\ digests' = {IF d.anchor = a THEN [d EXCEPT !.status = "retracted"] ELSE d : d \in digests}
           /\ hand' = [hand EXCEPT ![r].drop = hand[r].drop \ {a}]
    /\ UNCHANGED <<said, version, facts, read, queue, forgotten, faults, history>>

(* Upserts the note of this anchor, unless an active one says the same.    *)
AssertDigest(r) ==
    /\ hand[r].at = "digest" /\ hand[r].drop = {}
    /\ LET new == [anchor |-> hand[r].anchor, line |-> hand[r].line, status |-> "active"] IN
           digests' = IF \E d \in Shown : d.line = new.line THEN digests
                      ELSE {d \in digests : d.anchor # new.anchor} \cup {new}
    /\ queue' = Done(queue, hand[r].job)
    /\ hand' = [hand EXCEPT ![r] = Idle]
    /\ UNCHANGED <<said, version, facts, read, forgotten, faults, history>>

----------------------------------------------------------------------------
(* _task_reextract *)

(* A page of the sweep; Sweeps has its cursor, and here it has room for all *)
(* turns.                                                                  *)
ClaimReextract(r) ==
    /\ CanClaim(r, "reextract")
    /\ queue' = [queue EXCEPT ![Oldest].running = TRUE]
    /\ hand' = [hand EXCEPT ![r] = [at |-> "page", job |-> queue[Oldest], page |-> Unread]]
    /\ UNCHANGED <<said, version, facts, read, digests, forgotten, faults, history>>

(* The turns of the page in their order, each request a transaction.        *)
AskAgain(r) ==
    /\ hand[r].at = "page"
    /\ \E t \in hand[r].page :
           /\ \A u \in hand[r].page : t <= u
           /\ queue' = Enqueue(queue, "extract", t)
           /\ hand' = [hand EXCEPT ![r].page = hand[r].page \ {t}]
    /\ UNCHANGED <<said, version, facts, read, digests, forgotten, faults, history>>

PageDone(r) ==
    /\ hand[r].at = "page" /\ hand[r].page = {}
    /\ queue' = Done(queue, hand[r].job)
    /\ hand' = [hand EXCEPT ![r] = Idle]
    /\ UNCHANGED <<said, version, facts, read, digests, forgotten, faults, history>>

----------------------------------------------------------------------------
Run(r) ==
    \/ Reclaim(r)
    \/ ClaimExtract(r)
    \/ Emit(r)
    \/ Record(r)
    \/ AskDigest(r)
    \/ ClaimDigest(r)
    \/ RetractDigest(r)
    \/ AssertDigest(r)
    \/ ClaimReextract(r)
    \/ AskAgain(r)
    \/ PageDone(r)

Next ==
    \/ Say
    \/ Upgrade
    \/ Schedule
    \/ Forget
    \/ \E r \in Runners : Run(r) \/ Interrupt(r)

Spec == Init /\ [][Next]_vars

FairSpec == Spec /\ WF_vars(Schedule) /\ \A r \in Runners : WF_vars(Run(r))

----------------------------------------------------------------------------
Quiet == queue = <<>>

(* Attributes some turn told, and what the last of those turns said it is. *)
Says(t, a) == {item \in ToSet(Items(t)) : item[1] = a}
LastSaying(a) == {t \in 1 .. said : Says(t, a) # {} /\ \A u \in t+1 .. said : Says(u, a) = {}}
Attributes == UNION {{item[1] : item \in ToSet(Items(t))} : t \in 1 .. said}

TypeOK ==
    /\ said \in 0 .. Cardinality(Turns) /\ version \in Versions
    /\ \A f \in Told : f.turn \in Turns /\ f.status \in {"active", "superseded", "retracted"}
    /\ read \subseteq Turns \X Versions
    /\ \A r \in Runners : hand[r].at \in {"idle", "emit", "ask", "digest", "page"}
    /\ faults \in 0 .. MaxFaults

(* What the entity is taken to be is what the last turn to tell it said,    *)
(* but where a turn in excused tells the same attribute.                   *)
LatestBut(excused) ==
    \A a \in Attributes, t \in Turns :
        t \in LastSaying(a) /\ (\A u \in excused : Says(u, a) = {}) =>
            {f.item : f \in {g \in Active(facts) : g.item[1] = a}} = Says(t, a)

(* With no job left, the later turn is believed, however often a turn was   *)
(* interrupted halfway and told again from its beginning: half a turn told  *)
(* twice must not outlive what came after it.  Only a turn that was read    *)
(* late, when a later one had been read, may have put its old value back.   *)
LatestWins == Quiet /\ forgotten = {} /\ version = 1 => LatestBut(late)

(* Turns are read in their order, unless the process died in one, whose job *)
(* the later ones then overtake while it waits for its lease to end, or     *)
(* they are read again by another extractor.                               *)
ReadInTurn == faults = 0 /\ version = 1 => late = {}

(* What a reader of newer_wins may expect: the same with no turn excused.   *)
LatestAlways == Quiet /\ forgotten = {} /\ version = 1 => LatestBut({})

(* "Exactly one active digest per entity is the contract": also while a     *)
(* digest moves to another anchor, and when the job that moves it dies      *)
(* between the retraction and the assertion.                                *)
OneDigest == Cardinality(Shown) <= 1

(* When no job is left the digest tells exactly the facts that are active,  *)
(* or there is none because there are too few, however many jobs died on    *)
(* the way.  It is asked for last, after the record that stops a job that   *)
(* runs again, so it needs a worker that does not die between the two; and  *)
(* none that dies in a turn of which the next extractor hears nothing.  It  *)
(* says nothing of facts forgotten.                                        *)
DigestTellsFacts ==
    Quiet /\ forgotten = {} /\ ~unasked /\ (faults = 0 \/ version = 1) =>
        IF Cardinality(Active(facts)) < MinFacts THEN Shown = {}
        ELSE \E d \in Shown : d.line = LineOf(facts)

(* With no job left, nothing the agent had forgotten is still told by the   *)
(* digest of the entity.                                                    *)
ForgottenUntold ==
    Quiet => \A g \in forgotten, d \in Shown :
                 g[2] \in d.line => \E f \in Active(facts) : f.item = g[2]

(* A captured turn is read, by the extractor that is current in the end,    *)
(* though jobs are interrupted and an equal request may be dropped because  *)
(* a job for the turn was live.                                             *)
TurnsRead == \A t \in Turns : (said >= t) ~> (<<t, version>> \in read)
=============================================================================
