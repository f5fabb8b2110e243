----------------------------- MODULE HostModel -----------------------------
(***************************************************************************)
(* Work Chronicle asks of the host's own model.                            *)
(*                                                                         *)
(* Reading a turn, writing a belief and answering a query each leave one   *)
(* request in a bounded table.  The hook before a model call lets at most  *)
(* one of them ride on the prompt; the hook after a turn looks for a reply *)
(* to the request in flight, resolves it either way, and only then applies *)
(* what a valid reply says: facts are appended one event each, questions   *)
(* become the proxies a belief is found by, an order becomes hints.  The   *)
(* pairing of prompt and reply is in the store, so it outlives a provider  *)
(* that is rebuilt in between, and every provider of the store shares it.  *)
(*                                                                         *)
(* One principal asks.  A set of questions is one proxy: the template's    *)
(* for the belief's present words, or the host's under a request's id.     *)
(***************************************************************************)
EXTENDS Integers, FiniteSets, Sequences, SequencesExt

CONSTANTS
    Sessions,       \* providers open on the store
    Beliefs,        \* beliefs the host may be asked about
    Queries,        \* signatures of queries that are ranked
    Cap,            \* max_pending
    HintCap,        \* host_model.rerank_hints.max_entries
    Ranked,         \* how many candidates a query offers
    Overlap,        \* whether beliefs are written while a reply is applied
    MaxRequests,    \* bound on requests made
    MaxVersions,    \* bound on the versions of a belief's words
    MaxFaults       \* bound on processes that die and appends that fail

VARIABLES
    requests,       \* host_model_requests in rowid order
    session,        \* what each provider is at
    asked,          \* the requests each host has seen on its prompts
    written,        \* facts appended: <<request, fact>>, a bag as a sequence
    belief,         \* status and version of each belief
    hostQuestions,  \* host_model_proxies: the request they came from, or 0
    proxies,        \* query_proxy_vectors
    hints,          \* rerank_hints in rowid order: <<request, position>>
    faults          \* processes that died or appends that failed so far

store == <<belief, hostQuestions, proxies>>
vars == <<requests, session, asked, written, store, hints, faults>>

Idle == [at |-> "idle"]
Ids == DOMAIN requests
Facts == 1 .. 2

----------------------------------------------------------------------------
(* The registry *)

Pending(rs) == {i \in DOMAIN rs : rs[i].status = "pending"}
Riding(rs) == {i \in Pending(rs) : rs[i].attached > 0}

MinOf(S) == CHOOSE i \in S : \A k \in S : i <= k
FirstOf(S, n) == {i \in S : Cardinality({k \in S : k < i}) < n}

(* Over the cap the oldest pending requests expire with the insert, the one *)
(* in flight among them.                                                   *)
Enqueue(rs, kind, about) ==
    LET all == Append(rs, [kind |-> kind, about |-> about,
                           status |-> "pending", attached |-> 0])
        over == FirstOf(Pending(all), Cardinality(Pending(all)) - Cap)
    IN  [i \in DOMAIN all |->
            IF i \in over THEN [all[i] EXCEPT !.status = "expired"] ELSE all[i]]

AttachedRequest(rs) ==
    IF Riding(rs) = {} THEN 0
    ELSE CHOOSE i \in Riding(rs) :
             \A k \in Riding(rs) :
                 \/ rs[k].attached < rs[i].attached
                 \/ rs[k].attached = rs[i].attached /\ k <= i

NextPending(rs) ==
    LET free == Pending(rs) \ Riding(rs) IN IF free = {} THEN 0 ELSE MinOf(free)

Stamp(rs) == 1 + Cardinality({i \in DOMAIN rs : rs[i].attached > 0})

MarkAttached(rs, i) ==
    IF rs[i].status = "pending" THEN [rs EXCEPT ![i].attached = Stamp(rs)] ELSE rs

Resolve(rs, i, status) ==
    IF rs[i].status = "pending" THEN [rs EXCEPT ![i].status = status] ELSE rs

----------------------------------------------------------------------------
(* A belief and the questions that find it *)

Template(b) == <<"template", belief[b].version>>
Host(i) == <<"host", i>>

Merged(request, template) ==
    {template} \union (IF request = 0 THEN {} ELSE {Host(request)})

Init ==
    /\ requests = <<>>
    /\ session = [s \in Sessions |-> Idle]
    /\ asked = [s \in Sessions |-> {}]
    /\ written = <<>>
    /\ belief = [b \in Beliefs |-> [status |-> "active", version |-> 0]]
    /\ hostQuestions = [b \in Beliefs |-> 0]
    /\ proxies = [b \in Beliefs |-> {<<"template", 0>>}]
    /\ hints = <<>>
    /\ faults = 0

Quiet == \A s \in Sessions : session[s].at \notin {"set", "clear", "write"}

(* A belief is asserted anew: its proxies are written again from the host's *)
(* questions and the template's, and the host is asked for more, in the    *)
(* transaction of the event.                                               *)
Reassert(b) ==
    /\ Overlap \/ Quiet
    /\ Len(requests) < MaxRequests /\ belief[b].version < MaxVersions
    /\ belief' = [belief EXCEPT ![b] = [status |-> "active", version |-> @.version + 1]]
    /\ proxies' = [proxies EXCEPT ![b] =
                      Merged(hostQuestions[b], <<"template", belief[b].version + 1>>)]
    /\ requests' = Enqueue(requests, "doc2query", b)
    /\ UNCHANGED <<session, asked, written, hostQuestions, hints, faults>>

(* A belief that is gone takes its proxies and the host's questions along. *)
Retract(b) ==
    /\ Overlap \/ Quiet
    /\ belief[b].status = "active"
    /\ belief' = [belief EXCEPT ![b].status = "retracted"]
    /\ proxies' = [proxies EXCEPT ![b] = {}]
    /\ hostQuestions' = [hostQuestions EXCEPT ![b] = 0]
    /\ UNCHANGED <<requests, session, asked, written, hints, faults>>

(* A query that ranked two candidates or more offers them for ordering.    *)
Search(q) ==
    /\ Ranked >= 2 /\ Len(requests) < MaxRequests
    /\ requests' = Enqueue(requests, "rerank", q)
    /\ UNCHANGED <<session, asked, written, store, hints, faults>>

(* The verdict on a query passes out of its time to live.                  *)
Lapse ==
    /\ hints # <<>>
    /\ hints' = SelectSeq(hints, LAMBDA h : h[1] # hints[1][1])
    /\ UNCHANGED <<requests, session, asked, written, store, faults>>

----------------------------------------------------------------------------
(* pre_llm_call: three statements of its own *)

At(s, place) == session[s].at = place
Go(s, record) == session' = [session EXCEPT ![s] = record]

(* The prompt is left alone while a request is in flight.                  *)
PreLook(s) ==
    /\ At(s, "idle") /\ AttachedRequest(requests) = 0
    /\ Go(s, [at |-> "take"])
    /\ UNCHANGED <<requests, asked, written, store, hints, faults>>

PreTake(s) ==
    /\ At(s, "take")
    /\ LET i == NextPending(requests) IN
       Go(s, IF i = 0 THEN Idle ELSE [at |-> "mark", request |-> i])
    /\ UNCHANGED <<requests, asked, written, store, hints, faults>>

PreMark(s) ==
    /\ At(s, "mark")
    /\ requests' = MarkAttached(requests, session[s].request)
    /\ asked' = [asked EXCEPT ![s] = @ \union {session[s].request}]
    /\ Go(s, Idle)
    /\ UNCHANGED <<written, store, hints, faults>>

----------------------------------------------------------------------------
(* sync_turn: the turn is captured, then the piggyback has its chance *)

(* What the assistant said holds a valid reply to a request of one of the  *)
(* session's prompts, or none (0) that passes for one.                     *)
TurnLook(s) ==
    /\ At(s, "idle")
    /\ \E reply \in asked[s] \union {0} :
          LET i == AttachedRequest(requests) IN
          Go(s, IF i = 0 THEN [at |-> "offer"]
                ELSE [at |-> "resolve", request |-> i, valid |-> reply = i])
    /\ UNCHANGED <<requests, asked, written, store, hints, faults>>

Applying(i) ==
    [at |-> CASE requests[i].kind = "extract_facts" -> "fact"
              [] requests[i].kind = "doc2query"     -> "read"
              [] requests[i].kind = "rerank"        -> "hint",
     request |-> i, fact |-> 1]

(* The request is closed before its reply has any effect.                  *)
TurnResolve_AfterApply(s) ==
    /\ At(s, "resolve")
    /\ LET i == session[s].request IN
       /\ requests' = IF session[s].valid THEN requests ELSE Resolve(requests, i, "expired")
       /\ Go(s, IF session[s].valid THEN Applying(i) ELSE [at |-> "offer"])
    /\ UNCHANGED <<asked, written, store, hints, faults>>

TurnResolve_Leaves(s) ==
    /\ At(s, "resolve")
    /\ LET i == session[s].request IN
       IF session[s].valid
       THEN requests' = Resolve(requests, i, "answered") /\ Go(s, Applying(i))
       ELSE requests' = requests /\ Go(s, [at |-> "offer"])
    /\ UNCHANGED <<asked, written, store, hints, faults>>

TurnResolve(s) ==
    /\ At(s, "resolve")
    /\ LET i == session[s].request IN
       IF session[s].valid
       THEN requests' = Resolve(requests, i, "answered") /\ Go(s, Applying(i))
       ELSE requests' = Resolve(requests, i, "expired") /\ Go(s, [at |-> "offer"])
    /\ UNCHANGED <<asked, written, store, hints, faults>>

(* One event for each fact; a fact without a subject of its own is passed  *)
(* over.                                                                   *)
ApplyFact(s) ==
    /\ At(s, "fact")
    /\ LET i == session[s].request
           f == session[s].fact
       IN  /\ written' \in {written, Append(written, <<i, f>>)}
           /\ Go(s, IF f = Cardinality(Facts) THEN [at |-> "offer"]
                    ELSE [session[s] EXCEPT !.fact = f + 1])
    /\ UNCHANGED <<requests, asked, store, hints, faults>>

(* A fact that cannot be appended ends the whole piggyback of the turn.    *)
FactFails(s) ==
    /\ At(s, "fact") /\ faults < MaxFaults
    /\ faults' = faults + 1
    /\ Go(s, Idle)
    /\ UNCHANGED <<requests, asked, written, store, hints>>

(* The belief is looked up by id, whatever its status, and its template    *)
(* questions are what its proxies hold besides the host's last answer.     *)
ApplyRead(s) ==
    /\ At(s, "read")
    /\ LET i == session[s].request
           b == requests[i].about
       IN  Go(s, [at |-> "set", request |-> i,
                  template |-> proxies[b] \ {Host(hostQuestions[b])}])
    /\ UNCHANGED <<requests, asked, written, store, hints, faults>>

ApplySet(s) ==
    /\ At(s, "set")
    /\ hostQuestions' = [hostQuestions EXCEPT
                            ![requests[session[s].request].about] = session[s].request]
    /\ Go(s, [session[s] EXCEPT !.at = "clear"])
    /\ UNCHANGED <<requests, asked, written, belief, proxies, hints, faults>>

ApplyClear(s) ==
    /\ At(s, "clear")
    /\ proxies' = [proxies EXCEPT ![requests[session[s].request].about] = {}]
    /\ Go(s, [session[s] EXCEPT !.at = "write"])
    /\ UNCHANGED <<requests, asked, written, belief, hostQuestions, hints, faults>>

ApplyWrite(s) ==
    /\ At(s, "write")
    /\ LET i == session[s].request IN
       proxies' = [proxies EXCEPT ![requests[i].about] =
                      @ \union session[s].template \union {Host(i)}]
    /\ Go(s, [at |-> "offer"])
    /\ UNCHANGED <<requests, asked, written, belief, hostQuestions, hints, faults>>

(* A verdict replaces the last one on its query, one row per candidate the *)
(* host ordered; over the cap the oldest rows go, the best of a verdict    *)
(* first.                                                                  *)
AddHints(i, n) ==
    LET kept == SelectSeq(hints, LAMBDA h : requests[h[1]].about # requests[i].about)
        all  == kept \o [p \in 1 .. n |-> <<i, p>>]
    IN  IF Len(all) <= HintCap THEN all
        ELSE SubSeq(all, Len(all) - HintCap + 1, Len(all))

ApplyHints(s) ==
    /\ At(s, "hint")
    /\ \E n \in 1 .. Ranked : hints' = AddHints(session[s].request, n)
    /\ Go(s, [at |-> "offer"])
    /\ UNCHANGED <<requests, asked, written, store, faults>>

(* The turn itself is offered last, unless the user said nothing in it.    *)
TurnOffer(s) ==
    /\ At(s, "offer")
    /\ requests' \in {requests} \union
           (IF Len(requests) < MaxRequests
            THEN {Enqueue(requests, "extract_facts", "turn")} ELSE {})
    /\ Go(s, Idle)
    /\ UNCHANGED <<asked, written, store, hints, faults>>

(* The process dies: the prompts it sent are out, the store stays.         *)
Crash(s) ==
    /\ ~At(s, "idle") /\ faults < MaxFaults
    /\ faults' = faults + 1
    /\ Go(s, Idle)
    /\ UNCHANGED <<requests, asked, written, store, hints>>

Pre(s) == PreLook(s) \/ PreTake(s) \/ PreMark(s)
Drain(s) == ApplyFact(s) \/ ApplyRead(s) \/ ApplySet(s) \/ ApplyClear(s)
            \/ ApplyWrite(s) \/ ApplyHints(s)
Turn(s) == TurnLook(s) \/ TurnResolve(s) \/ Drain(s) \/ TurnOffer(s)

Next ==
    \/ \E b \in Beliefs : Reassert(b) \/ Retract(b)
    \/ \E q \in Queries : Search(q)
    \/ Lapse
    \/ \E s \in Sessions : Pre(s) \/ Turn(s) \/ FactFails(s) \/ Crash(s)

(* A host that has called a hook lets it return, and keeps making model    *)
(* calls and turns: neither hook waits on the other.                       *)
Fairness ==
    \A s \in Sessions :
        /\ SF_vars(PreLook(s)) /\ WF_vars(PreTake(s) \/ PreMark(s))
        /\ SF_vars(TurnLook(s)) /\ WF_vars(TurnResolve(s) \/ Drain(s) \/ TurnOffer(s))

Spec == Init /\ [][Next]_vars /\ Fairness

----------------------------------------------------------------------------
(* Properties *)

TypeOK ==
    /\ requests \in Seq([kind : {"extract_facts", "doc2query", "rerank"},
                         about : Beliefs \union Queries \union {"turn"},
                         status : {"pending", "answered", "expired"}, attached : Nat])
    /\ asked \in [Sessions -> SUBSET Ids]
    /\ hostQuestions \in [Beliefs -> Ids \union {0}]

(* One request rides at a time, however many wait and whatever dies        *)
(* between the prompt and the reply.                                       *)
OneInFlight == Cardinality(Riding(requests)) <= 1

(* No fact of a reply is appended twice, even when the host repeats itself *)
(* or the process dies while the reply is applied.                         *)
AppliedOnce == IsInjective(written)

(* Between replies an active belief is found by the questions of its       *)
(* present words and by the host's latest, and by nothing else: a reply    *)
(* neither loses the one nor a new assertion the other.                    *)
ProxiesCurrent ==
    Quiet /\ faults = 0 =>
        \A b \in Beliefs : belief[b].status = "active" =>
            proxies[b] = Merged(hostQuestions[b], Template(b))

(* A reply is applied once, to one request at a time, and leaves a belief   *)
(* the questions it should.                                                *)
AppliedWell == TypeOK /\ OneInFlight /\ AppliedOnce /\ ProxiesCurrent

(* A belief that is gone has no proxies and none of the host's questions.  *)
NoOrphans ==
    \A b \in Beliefs : belief[b].status = "retracted" =>
        proxies[b] = {} /\ hostQuestions[b] = 0

(* A verdict that still holds a candidate holds every one it put before.   *)
VerdictKeepsItsBest ==
    \A k \in DOMAIN hints : hints[k][2] > 1 => \E j \in DOMAIN hints :
        hints[j] = <<hints[k][1], hints[k][2] - 1>>

(* No request waits for ever: it rides and is resolved, or it makes room.  *)
EveryRequestResolves ==
    \A i \in 1 .. MaxRequests :
        (i \in Ids /\ requests[i].status = "pending")
            ~> (i \in Ids /\ requests[i].status # "pending")
=============================================================================
