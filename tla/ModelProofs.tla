--------------------------- MODULE ModelProofs ---------------------------
(***************************************************************************)
(* What asks a model that may be away.  First HostModel, while one         *)
(* provider is open on the store and no belief is written in the middle of *)
(* a reply; then Vectors, with one drain running.                          *)
(***************************************************************************)
EXTENDS ModelParts, FiniteSetTheorems, WellFoundedInduction, TLAPS

----------------------------------------------------------------------------
(* HostModel *)

\* One provider of the store, and no belief written while a reply is applied.
Alone == (\E s : Sessions = {s}) /\ ~Overlap

Request == [kind : {"extract_facts", "doc2query", "rerank"},
            about : Beliefs \union Queries \union {"turn"},
            status : {"pending", "answered", "expired"}, attached : Nat]

\* The steps of the two hooks, and those that have a request at hand.
Steps == {"idle", "take", "mark", "offer", "resolve", "fact", "read", "set", "clear",
          "write", "hint"}
AtHand == Steps \ {"idle", "take", "offer"}

\* A reply is applied to a request that is not pending any more, and its facts
\* are appended in order.
SessionOK(s) ==
    LET here == session[s] IN
    /\ here.at \in Steps
    /\ here.at \in AtHand => here.request \in Ids
    /\ here.at \in {"take", "mark"} => Riding(requests) = {}
    /\ here.at \in {"read", "set", "clear", "write"} =>
           requests[here.request].kind = "doc2query"
    /\ here.at = "resolve" => \A k \in DOMAIN written : written[k][1] # here.request
    /\ here.at = "fact" =>
           /\ here.fact \in Facts
           /\ requests[here.request].status # "pending"
           /\ \A k \in DOMAIN written :
                  written[k][1] = here.request => written[k][2] < here.fact

RegistryInv ==
    /\ requests \in Seq(Request)
    /\ \A i \in Ids : requests[i].kind = "doc2query" => requests[i].about \in Beliefs
    /\ asked \in [Sessions -> SUBSET Ids]
    /\ written \in Seq(Nat \X Facts)
    /\ \A k \in DOMAIN written : /\ written[k][1] \in Ids
                                 /\ requests[written[k][1]].status # "pending"
    /\ \A i, k \in Riding(requests) : i = k
    /\ AppliedOnce
    /\ session = [s \in Sessions |-> session[s]]
    /\ \A s \in Sessions : SessionOK(s)

-----------------------------------------------------------------------------
\* What the registry's operators return.

\* A new request is pending and rides nowhere; of the others some may expire.
Grown(kind, about) ==
    /\ requests' \in Seq(Request) /\ Len(requests') = Len(requests) + 1
    /\ \A i \in 1 .. Len(requests) :
           /\ requests'[i].kind = requests[i].kind /\ requests'[i].about = requests[i].about
           /\ requests'[i].attached = requests[i].attached
           /\ requests[i].status # "pending" => requests'[i].status = requests[i].status
           /\ requests'[i].status = "pending" => requests[i].status = "pending"
    /\ requests'[Len(requests) + 1].kind = kind
    /\ requests'[Len(requests) + 1].about = about
    /\ requests'[Len(requests) + 1].attached = 0

\* One request rides, and nothing else is changed.
Marked(i) ==
    /\ requests' \in Seq(Request) /\ Len(requests') = Len(requests)
    /\ \A k \in DOMAIN requests :
           /\ requests'[k].kind = requests[k].kind /\ requests'[k].about = requests[k].about
           /\ requests'[k].status = requests[k].status
    /\ Riding(requests') \subseteq {i}

\* A request is not pending any more, and the others stay as they are.
Resolved(i) ==
    /\ requests' \in Seq(Request) /\ Len(requests') = Len(requests)
    /\ requests'[i].kind = requests[i].kind /\ requests'[i].about = requests[i].about
    /\ requests'[i].status # "pending"
    /\ \A k \in DOMAIN requests \ {i} : requests'[k] = requests[k]

LEMMA EnqueueEffect ==
    ASSUME requests \in Seq(Request), NEW kind \in {"extract_facts", "doc2query", "rerank"},
           NEW about \in Beliefs \union Queries \union {"turn"},
           requests' = Enqueue(requests, kind, about)
    PROVE  Grown(kind, about)
<1> DEFINE all == Append(requests, [kind |-> kind, about |-> about,
                              status |-> "pending", attached |-> 0])
           over == FirstOf(Pending(all), Cardinality(Pending(all)) - Cap)
<1>1. all \in Seq(Request) /\ Len(all) = Len(requests) + 1
      /\ (\A i \in 1 .. Len(requests) : all[i] = requests[i])
      /\ all[Len(requests) + 1] = [kind |-> kind, about |-> about,
                             status |-> "pending", attached |-> 0]
  BY DEF Request
<1>2. over \subseteq Pending(all)
  BY DEF FirstOf
<1>3. requests' = [i \in 1 .. Len(requests) + 1 |->
                IF i \in over THEN [all[i] EXCEPT !.status = "expired"] ELSE all[i]]
  BY <1>1 DEF Enqueue
<1> HIDE DEF all, over
<1>4. \A i \in 1 .. Len(requests) + 1 : all[i] \in Request
  BY <1>1
<1>5. \A i \in 1 .. Len(requests) + 1 :
          /\ requests'[i] \in Request
          /\ requests'[i].kind = all[i].kind /\ requests'[i].about = all[i].about
          /\ requests'[i].attached = all[i].attached
          /\ \/ requests'[i].status = "expired" /\ all[i].status = "pending"
             \/ requests'[i] = all[i]
  <2> TAKE i \in 1 .. Len(requests) + 1
  <2>1. CASE i \in over
    <3>1. requests'[i] = [all[i] EXCEPT !.status = "expired"] /\ all[i].status = "pending"
      BY <1>2, <1>3, <2>1 DEF Pending
    <3> QED
      BY <1>4, <3>1 DEF Request
  <2>2. CASE i \notin over
    BY <1>3, <1>4, <2>2
  <2> QED
    BY <2>1, <2>2
<1>6. requests' \in Seq(Request) /\ Len(requests') = Len(requests) + 1
  BY <1>1, <1>3, <1>5
<1>7. Len(requests) \in Nat
  OBVIOUS
<1> QED
  BY <1>1, <1>5, <1>6, <1>7 DEF Request, Grown

\* With nothing riding the stamp is a number, and one request rides then.
LEMMA MarkEffect ==
    ASSUME requests \in Seq(Request), NEW i \in DOMAIN requests, Riding(requests) = {},
           requests' = MarkAttached(requests, i)
    PROVE  Marked(i)
<1>1. Stamp(requests) \in Nat
  <2>1. IsFiniteSet(1 .. Len(requests))
    BY FS_Interval
  <2>2. IsFiniteSet({k \in DOMAIN requests : requests[k].attached > 0})
    BY <2>1, FS_Subset
  <2> QED
    BY <2>2, FS_CardinalityType DEF Stamp
<1>2. CASE requests[i].status # "pending"
  BY <1>2 DEF MarkAttached, Marked
<1>3. CASE requests[i].status = "pending"
  <2>1. MarkAttached(requests, i) = [requests EXCEPT ![i].attached = Stamp(requests)]
    BY <1>3 DEF MarkAttached
  <2>2. \A k \in DOMAIN requests : requests[k] \in Request
    OBVIOUS
  <2>3. [requests EXCEPT ![i].attached = Stamp(requests)] \in Seq(Request)
    BY <1>1, <2>2 DEF Request
  <2> QED
    BY <1>1, <2>1, <2>2, <2>3 DEF Request, Riding, Pending, Marked
<1> QED
  BY <1>2, <1>3

\* A set of numbers has a least one, so the oldest free request is one.
LEMMA LeastNumber ==
    ASSUME NEW S \in SUBSET Nat, S # {}
    PROVE  \E m \in S : \A n \in S : m <= n
<1> DEFINE R == {ss \in Nat \X Nat : ss[1] < ss[2]}
<1>1. IsWellFoundedOn(R, Nat)
  BY NatLessThanWellFounded DEF OpToRel
<1>2. \A m, n \in Nat : <<n, m>> \in R <=> n < m
  OBVIOUS
<1> HIDE DEF R
<1>3. PICK m \in S : \A n \in S : ~ (<<n, m>> \in R)
  BY <1>1, WFMin
<1>4. \A n \in S : n \in Nat /\ m \in Nat /\ ~ (n < m)
  BY <1>2, <1>3
<1> QED
  BY <1>4

LEMMA NextIsFree ==
    ASSUME requests \in Seq(Request), NextPending(requests) # 0
    PROVE  NextPending(requests) \in Ids
<1> DEFINE free == Pending(requests) \ Riding(requests)
<1>1. free # {} /\ free \subseteq DOMAIN requests /\ DOMAIN requests \subseteq Nat
  BY DEF NextPending, Pending, Riding
<1>2. \E m \in free : \A n \in free : m <= n
  BY <1>1, LeastNumber
<1>3. MinOf(free) \in free
  BY <1>2 DEF MinOf
<1> QED
  BY <1>1, <1>3 DEF NextPending, Ids

LEMMA ResolveEffect ==
    ASSUME requests \in Seq(Request), NEW i \in DOMAIN requests, NEW status \in {"answered", "expired"},
           requests' = Resolve(requests, i, status)
    PROVE  Resolved(i)
<1>1. CASE requests[i].status # "pending"
  BY <1>1 DEF Resolve, Resolved
<1>2. CASE requests[i].status = "pending"
  <2>1. Resolve(requests, i, status) = [requests EXCEPT ![i].status = status]
    BY <1>2 DEF Resolve
  <2>2. \A k \in DOMAIN requests : requests[k] \in Request
    OBVIOUS
  <2>3. [requests EXCEPT ![i].status = status] \in Seq(Request)
    BY <2>2 DEF Request
  <2>4. /\ requests'[i] = [requests[i] EXCEPT !.status = status]
        /\ \A k \in DOMAIN requests \ {i} : requests'[k] = requests[k]
        /\ Len(requests') = Len(requests)
    BY <2>1
  <2>5. /\ requests'[i].kind = requests[i].kind /\ requests'[i].about = requests[i].about
        /\ requests'[i].status = status
    BY <2>2, <2>4 DEF Request
  <2> QED
    BY <2>1, <2>3, <2>4, <2>5 DEF Resolved
<1> QED
  BY <1>1, <1>2

\* The request in flight is the one that rides, when one at most does.
LEMMA AttachedIsRiding ==
    ASSUME requests \in Seq(Request), \A i, k \in Riding(requests) : i = k
    PROVE  /\ AttachedRequest(requests) = 0 => Riding(requests) = {}
           /\ AttachedRequest(requests) # 0 => AttachedRequest(requests) \in Riding(requests)
           /\ Riding(requests) \subseteq DOMAIN requests
<1>1. Riding(requests) \subseteq 1 .. Len(requests)
  BY DEF Riding, Pending
<1>2. ASSUME NEW i \in Riding(requests) PROVE AttachedRequest(requests) = i
  <2>1. requests[i].attached <= requests[i].attached /\ i <= i
    <3>1. i \in 1 .. Len(requests) /\ Len(requests) \in Nat
      BY <1>1
    <3>2. requests[i] \in Request
      BY <3>1
    <3> QED
      BY <3>1, <3>2 DEF Request
  <2>2. Riding(requests) = {i}
    BY <1>2
  <2> QED
    BY <2>1, <2>2 DEF AttachedRequest
<1>3. 0 \notin Riding(requests)
  BY <1>1
<1> QED
  BY <1>1, <1>2, <1>3 DEF AttachedRequest

-----------------------------------------------------------------------------
\* The registry: one request rides, and a reply is applied once.

LEMMA RegistryInit == Init => RegistryInv
<1> SUFFICES ASSUME Init PROVE RegistryInv
  OBVIOUS
<1>1. requests = <<>> /\ written = <<>> /\ \A s \in Sessions : session[s].at = "idle"
  BY DEF Init, Idle
<1>2. \A s \in Sessions : SessionOK(s)
  BY <1>1 DEF SessionOK, Steps, AtHand
<1>3. Riding(requests) = {}
  BY <1>1 DEF Riding, Pending
<1>4. asked \in [Sessions -> SUBSET Ids] /\ session = [s \in Sessions |-> session[s]]
  BY DEF Init
<1> QED
  BY <1>1, <1>2, <1>3, <1>4 DEF RegistryInv, AppliedOnce, IsInjective, Ids

\* A request is added; at most the session that asked goes on.
LEMMA GrowStep ==
    ASSUME RegistryInv,
           NEW kind \in {"extract_facts", "doc2query", "rerank"},
           NEW about \in Beliefs \union Queries \union {"turn"},
           kind = "doc2query" => about \in Beliefs,
           requests' = Enqueue(requests, kind, about), UNCHANGED <<asked, written>>,
           session' = [s \in Sessions |-> session'[s]],
           \A s \in Sessions : session'[s] \in {session[s], Idle}
    PROVE  RegistryInv'
<1>1. Grown(kind, about)
  BY EnqueueEffect DEF RegistryInv
<1>2. Ids = 1 .. Len(requests) /\ Ids' = 1 .. Len(requests) + 1 /\ Len(requests) \in Nat
  BY <1>1 DEF RegistryInv, Ids, Grown
<1>3. Riding(requests') \subseteq Riding(requests)
  BY <1>1, <1>2 DEF Riding, Pending, Grown
<1>4. ASSUME NEW s \in Sessions PROVE SessionOK(s)'
  <2>1. SessionOK(s) /\ session'[s] \in {session[s], Idle}
    BY DEF RegistryInv
  <2> QED
    BY <2>1, <1>1, <1>2, <1>3 DEF SessionOK, Idle, AtHand, Steps, Facts, Grown
<1>5. \A i \in Ids' : requests'[i].kind = "doc2query" => requests'[i].about \in Beliefs
  <2>1. \A i \in 1 .. Len(requests) : requests[i].kind = "doc2query" => requests[i].about \in Beliefs
    BY <1>2 DEF RegistryInv
  <2>2. \A i \in Ids' : i \in 1 .. Len(requests) \/ i = Len(requests) + 1
    BY <1>2
  <2> QED
    BY <1>1, <2>1, <2>2 DEF Grown
<1>6. Ids \subseteq Ids' /\ asked' \in [Sessions -> SUBSET Ids']
  BY <1>2 DEF RegistryInv
<1>7. \A k \in DOMAIN written : /\ written[k][1] \in Ids'
                               /\ requests'[written[k][1]].status # "pending"
  <2>1. \A k \in DOMAIN written : /\ written[k][1] \in 1 .. Len(requests)
                                 /\ requests[written[k][1]].status # "pending"
    BY <1>2 DEF RegistryInv
  <2> QED
    BY <1>1, <1>2, <2>1 DEF Grown
<1>8. written' \in Seq(Nat \X Facts) /\ AppliedOnce' /\ \A i, k \in Riding(requests') : i = k
  BY <1>3 DEF RegistryInv, AppliedOnce
<1> QED
  BY <1>1, <1>4, <1>5, <1>6, <1>7, <1>8 DEF RegistryInv, Grown

\* Only where the sessions are changes.
LEMMA WalkStep ==
    ASSUME RegistryInv, NEW s \in Sessions, NEW here, UNCHANGED <<requests, asked, written>>,
           session' = [session EXCEPT ![s] = here], SessionOK(s)'
    PROVE  RegistryInv'
<1>1. \A t \in Sessions \ {s} : session'[t] = session[t]
  BY DEF RegistryInv
<1>2. \A t \in Sessions \ {s} : SessionOK(t)'
  BY <1>1 DEF RegistryInv, SessionOK, Ids
<1> QED
  BY <1>2 DEF RegistryInv, Ids, AppliedOnce

\* What a belief is found by is none of the registry's.
LEMMA BeliefStep ==
    ASSUME RegistryInv, UNCHANGED <<requests, session, asked, written>>
    PROVE  RegistryInv'
BY DEF RegistryInv, SessionOK, Ids, AppliedOnce

LEMMA PreKeeps ==
    ASSUME RegistryInv, NEW s \in Sessions, Sessions = {s}, Pre(s)
    PROVE  RegistryInv'
<1>1. CASE PreLook(s)
  <2>1. Riding(requests) = {}
    BY <1>1, AttachedIsRiding DEF PreLook, RegistryInv
  <2>2. session'[s] = [at |-> "take"]
    BY <1>1 DEF PreLook, Go, RegistryInv
  <2>3. SessionOK(s)'
    BY <1>1, <2>1, <2>2 DEF PreLook, SessionOK, AtHand, Steps
  <2> QED
    BY <1>1, <2>3, WalkStep DEF PreLook, Go
<1>2. CASE PreTake(s)
  <2>1. PICK i : i = NextPending(requests)
    OBVIOUS
  <2>2. i # 0 => i \in Ids
    BY <2>1, NextIsFree DEF RegistryInv
  <2>3. PICK here : here = IF i = 0 THEN Idle ELSE [at |-> "mark", request |-> i]
    OBVIOUS
  <2>4. session' = [session EXCEPT ![s] = here] /\ session'[s] = here
    BY <1>2, <2>1, <2>3 DEF PreTake, Go, RegistryInv
  <2>5. Riding(requests) = {}
    BY <1>2 DEF PreTake, At, RegistryInv, SessionOK
  <2>6. SessionOK(s)'
    BY <1>2, <2>2, <2>3, <2>4, <2>5 DEF PreTake, SessionOK, AtHand, Steps, Idle, Ids
  <2> QED
    BY <1>2, <2>4, <2>6, WalkStep DEF PreTake
<1>3. CASE PreMark(s)
  <2>1. PICK i : i = session[s].request
    OBVIOUS
  <2>2. i \in Ids /\ Riding(requests) = {}
    BY <1>3, <2>1 DEF PreMark, At, RegistryInv, SessionOK, AtHand, Steps
  <2>3. requests' = MarkAttached(requests, i)
    BY <1>3, <2>1 DEF PreMark
  <2>4. Marked(i)
    BY <2>2, <2>3, MarkEffect DEF RegistryInv, Ids
  <2>5. session'[s] = Idle /\ session' = [t \in Sessions |-> session'[t]]
    BY <1>3 DEF PreMark, Go, RegistryInv
  <2>6. \A t \in Sessions : SessionOK(t)'
    BY <2>5 DEF SessionOK, Idle, AtHand, Steps
  <2>7. Ids' = Ids
    BY <2>4 DEF Ids, RegistryInv, Marked
  <2>8. asked' \in [Sessions -> SUBSET Ids'] /\ UNCHANGED written
    BY <1>3, <2>1, <2>2, <2>7 DEF PreMark, RegistryInv
  <2>9. /\ \A k \in Ids' : requests'[k].kind = "doc2query" => requests'[k].about \in Beliefs
        /\ \A k \in DOMAIN written : /\ written[k][1] \in Ids'
                                    /\ requests'[written[k][1]].status # "pending"
    BY <2>4, <2>7 DEF RegistryInv, Ids, Marked
  <2>10. written' \in Seq(Nat \X Facts) /\ AppliedOnce'
    BY <2>8 DEF RegistryInv, AppliedOnce
  <2> QED
    BY <2>4, <2>5, <2>6, <2>7, <2>8, <2>9, <2>10 DEF RegistryInv, Marked
<1> QED
  BY <1>1, <1>2, <1>3 DEF Pre

LEMMA TurnLookKeeps ==
    ASSUME RegistryInv, NEW s \in Sessions, TurnLook(s)
    PROVE  RegistryInv'
<1>1. PICK i : i = AttachedRequest(requests)
  OBVIOUS
<1>2. PICK reply \in asked[s] \union {0} :
          Go(s, IF i = 0 THEN [at |-> "offer"]
                ELSE [at |-> "resolve", request |-> i, valid |-> reply = i])
  BY <1>1 DEF TurnLook
<1>3. i # 0 => i \in Riding(requests) /\ i \in Ids
  BY <1>1, AttachedIsRiding DEF RegistryInv, Ids
<1>4. i # 0 => \A k \in DOMAIN written : written[k][1] # i
  BY <1>3 DEF RegistryInv, Riding, Pending
<1>5. PICK here : here = IF i = 0 THEN [at |-> "offer"]
                         ELSE [at |-> "resolve", request |-> i, valid |-> reply = i]
  OBVIOUS
<1>6. session' = [session EXCEPT ![s] = here] /\ session'[s] = here
  BY <1>2, <1>5 DEF Go, RegistryInv
<1>7. SessionOK(s)'
  BY <1>3, <1>4, <1>5, <1>6 DEF TurnLook, SessionOK, AtHand, Steps, Ids
<1> QED
  BY <1>6, <1>7, WalkStep DEF TurnLook

\* The request is closed first, so what is applied is applied to no other.
LEMMA ResolveKeeps ==
    ASSUME RegistryInv, NEW s \in Sessions, Sessions = {s}, TurnResolve(s)
    PROVE  RegistryInv'
<1>1. PICK i : i = session[s].request
  OBVIOUS
<1>2. i \in Ids /\ \A k \in DOMAIN written : written[k][1] # i
  BY <1>1 DEF TurnResolve, At, RegistryInv, SessionOK, AtHand, Steps
<1>3. PICK status \in {"answered", "expired"} : requests' = Resolve(requests, i, status)
  BY <1>1 DEF TurnResolve
<1>4. Resolved(i)
  BY <1>2, <1>3, ResolveEffect DEF RegistryInv, Ids
<1>5. Ids' = Ids
  BY <1>4 DEF Ids, RegistryInv, Resolved
<1>6. PICK here : here = IF session[s].valid THEN Applying(i) ELSE [at |-> "offer"]
  OBVIOUS
<1>7. session'[s] = here /\ session' = [t \in Sessions |-> session'[t]]
  BY <1>1, <1>6 DEF TurnResolve, Go, RegistryInv
<1>8. here.at \in {"offer", "fact", "read", "hint"}
      /\ (here.at # "offer" => here.request = i /\ here.fact = 1)
      /\ (here.at = "read" => requests[i].kind = "doc2query")
  <2>1. requests[i].kind \in {"extract_facts", "doc2query", "rerank"}
    <3>1. requests[i] \in Request
      BY <1>2 DEF RegistryInv, Ids
    <3> QED
      BY <3>1 DEF Request
  <2> QED
    BY <2>1, <1>6 DEF Applying
<1>9. SessionOK(s)'
  <2>1. requests'[i].kind = requests[i].kind /\ written' = written /\ i \in Ids'
    BY <1>2, <1>4, <1>5 DEF TurnResolve, Ids, Resolved
  <2>2. session'[s].at \in {"offer", "fact", "read", "hint"}
        /\ (session'[s].at # "offer" => session'[s].request = i /\ session'[s].fact = 1)
        /\ (session'[s].at = "read" => requests'[i].kind = "doc2query")
    BY <1>7, <1>8, <2>1
  <2> QED
    BY <1>2, <1>4, <2>1, <2>2 DEF SessionOK, AtHand, Steps, Facts, Resolved
<1>10. Riding(requests') \subseteq Riding(requests)
  BY <1>2, <1>4 DEF Riding, Pending, Ids, RegistryInv, Resolved
<1>11. \A k \in DOMAIN written : requests'[written[k][1]].status # "pending"
  BY <1>2, <1>4 DEF RegistryInv, Ids, Resolved
<1>12. UNCHANGED <<asked, written>>
  BY DEF TurnResolve
<1> QED
  BY <1>4, <1>5, <1>7, <1>9, <1>10, <1>11, <1>12 DEF RegistryInv, AppliedOnce, Ids, Resolved

\* A reply has two facts, and after the second the turn is offered.
LEMMA FactMoves ==
    ASSUME RegistryInv, NEW s \in Sessions, ApplyFact(s)
    PROVE  /\ session' = [session EXCEPT ![s] = session'[s]]
           /\ session'[s].at \in {"offer", "fact"}
           /\ (session'[s].at = "fact" =>
                   /\ session'[s].request = session[s].request
                   /\ session'[s].fact = session[s].fact + 1 /\ session[s].fact = 1)
<1>1. PICK i, f : i = session[s].request /\ f = session[s].fact
  OBVIOUS
<1>2. f \in Facts
  BY <1>1 DEF ApplyFact, At, RegistryInv, SessionOK, AtHand, Steps
<1>3. Cardinality(Facts) = 2
  <2>1. Facts = {1} \union {2}
    BY DEF Facts
  <2>2. IsFiniteSet({1}) /\ Cardinality({1}) = 1
    BY FS_Singleton
  <2>3. Cardinality({1} \union {2}) = Cardinality({1}) + 1
    BY <2>2, FS_AddElement
  <2> QED
    BY <2>1, <2>2, <2>3
<1>4. session' = [session EXCEPT ![s] = IF f = 2 THEN [at |-> "offer"]
                                       ELSE [session[s] EXCEPT !.fact = f + 1]]
  BY <1>1, <1>3 DEF ApplyFact, Go
<1>5. session'[s].at \in {"offer", "fact"}
      /\ (session'[s].at = "fact" =>
              session'[s].request = i /\ session'[s].fact = f + 1 /\ f = 1)
  <2>1. CASE f = 2
    BY <1>4, <2>1 DEF RegistryInv
  <2>2. CASE f = 1
    BY <1>1, <1>4, <2>2 DEF RegistryInv, ApplyFact, At
  <2> QED
    BY <1>2, <2>1, <2>2 DEF Facts
<1> QED
  BY <1>1, <1>4, <1>5 DEF RegistryInv

\* Facts are appended in order, one step each, and no step comes twice.
LEMMA FactKeeps ==
    ASSUME RegistryInv, NEW s \in Sessions, Sessions = {s}, ApplyFact(s)
    PROVE  RegistryInv'
<1>1. PICK i, f : i = session[s].request /\ f = session[s].fact
  OBVIOUS
<1>2. /\ i \in Ids /\ f \in Facts /\ requests[i].status # "pending"
      /\ \A k \in DOMAIN written : written[k][1] = i => written[k][2] < f
  BY <1>1 DEF ApplyFact, At, RegistryInv, SessionOK, AtHand, Steps
<1>3. written' \in {written, Append(written, <<i, f>>)}
  BY <1>1 DEF ApplyFact
<1>4. UNCHANGED <<requests, asked>>
  BY DEF ApplyFact
<1>5. written \in Seq(Nat \X Facts) /\ <<i, f>> \in Nat \X Facts
  BY <1>2 DEF RegistryInv, Ids
<1>6. /\ written' \in Seq(Nat \X Facts)
      /\ \A k \in DOMAIN written' : \/ k \in DOMAIN written /\ written'[k] = written[k]
                                    \/ k = Len(written) + 1 /\ written'[k] = <<i, f>>
  <2>1. CASE written' = written
    BY <1>5, <2>1
  <2>2. CASE written' = Append(written, <<i, f>>)
    <3>1. /\ written' \in Seq(Nat \X Facts) /\ Len(written') = Len(written) + 1
          /\ Len(written) \in Nat
          /\ \A k \in 1 .. Len(written) : written'[k] = written[k]
          /\ written'[Len(written) + 1] = <<i, f>>
      BY <1>5, <2>2
    <3>2. DOMAIN written' = 1 .. Len(written) + 1 /\ DOMAIN written = 1 .. Len(written)
      BY <3>1, <1>5
    <3>3. \A k \in 1 .. Len(written) + 1 : k \in 1 .. Len(written) \/ k = Len(written) + 1
      BY <3>1
    <3> QED
      BY <3>1, <3>2, <3>3
  <2> QED
    BY <1>3, <2>1, <2>2
<1>7. \A k \in DOMAIN written : k # Len(written) + 1 /\ written[k] # <<i, f>>
  <2>1. \A k \in DOMAIN written : written[k] \in Nat \X Facts
    BY <1>5
  <2> QED
    BY <1>2, <1>5, <2>1 DEF Facts
<1>8. AppliedOnce'
  BY <1>6, <1>7 DEF RegistryInv, AppliedOnce, IsInjective
<1>9. \A k \in DOMAIN written' : /\ written'[k][1] \in Ids'
                                /\ requests'[written'[k][1]].status # "pending"
  <2> TAKE k \in DOMAIN written'
  <2>1. CASE k \in DOMAIN written /\ written'[k] = written[k]
    BY <1>4, <2>1 DEF RegistryInv, Ids
  <2>2. CASE written'[k] = <<i, f>>
    BY <1>2, <1>4, <2>2 DEF Ids
  <2> QED
    BY <1>6, <2>1, <2>2
<1>10. /\ session' = [session EXCEPT ![s] = session'[s]]
       /\ session'[s].at \in {"offer", "fact"}
       /\ (session'[s].at = "fact" =>
               session'[s].request = i /\ session'[s].fact = f + 1 /\ f = 1)
  BY <1>1, FactMoves
<1>13. SessionOK(s)'
  <2>1. \A k \in DOMAIN written' : written'[k][1] = i => written'[k][2] < f + 1
    BY <1>2, <1>5, <1>6 DEF Facts
  <2> QED
    BY <1>2, <1>4, <1>10, <2>1 DEF SessionOK, AtHand, Steps, Facts, Ids
<1> QED
  BY <1>4, <1>6, <1>8, <1>9, <1>10, <1>13 DEF RegistryInv, Ids

\* The rest of a reply, the end of a turn, a fault and a death only move on.
LEMMA MoveOnKeeps ==
    ASSUME RegistryInv, NEW s \in Sessions,
           \/ ApplyRead(s) \/ ApplySet(s) \/ ApplyClear(s) \/ ApplyWrite(s) \/ ApplyHints(s)
           \/ FactFails(s) \/ Crash(s)
    PROVE  RegistryInv'
<1>1. UNCHANGED <<requests, asked, written>>
  BY DEF ApplyRead, ApplySet, ApplyClear, ApplyWrite, ApplyHints, FactFails, Crash
<1>2. SessionOK(s)
  BY DEF RegistryInv
<1>3. PICK i : i = session[s].request
  OBVIOUS
<1>4. /\ session' = [session EXCEPT ![s] = session'[s]]
      /\ \/ session'[s].at \in {"idle", "offer"}
         \/ /\ session'[s].at \in {"set", "clear", "write"} /\ session'[s].request = i
            /\ session[s].at \in {"read", "set", "clear"}
  <2>0. session = [t \in Sessions |-> session[t]]
    BY DEF RegistryInv
  <2>1. CASE ApplyRead(s)
    <3>1. PICK t : session' = [session EXCEPT ![s] = [at |-> "set", request |-> i, template |-> t]]
      BY <1>3, <2>1 DEF ApplyRead, Go
    <3> QED
      BY <2>0, <2>1, <3>1 DEF ApplyRead, At
  <2>2. CASE ApplySet(s) \/ ApplyClear(s)
    <3>1. PICK p \in {"clear", "write"} : session' = [session EXCEPT ![s] = [session[s] EXCEPT !.at = p]]
      BY <2>2 DEF ApplySet, ApplyClear, Go
    <3>2. session[s].at \in {"set", "clear"}
      BY <2>2 DEF ApplySet, ApplyClear, At
    <3>3. session'[s] = [session[s] EXCEPT !.at = p]
      BY <2>0, <3>1
    <3>4. session'[s].at = p /\ session'[s].request = i
      BY <1>3, <3>3
    <3> QED
      BY <3>1, <3>2, <3>3, <3>4
  <2>4. CASE ApplyWrite(s) \/ ApplyHints(s) \/ FactFails(s) \/ Crash(s)
    BY <2>0, <2>4 DEF ApplyWrite, ApplyHints, FactFails, Crash, Go, Idle
  <2> QED
    BY <2>1, <2>2, <2>4
<1>6. SessionOK(s)'
  BY <1>1, <1>2, <1>3, <1>4 DEF SessionOK, AtHand, Steps, Ids
<1> QED
  <2>1. PICK here : here = session'[s]
    OBVIOUS
  <2> QED
    BY <1>1, <1>4, <1>6, <2>1, WalkStep

LEMMA OfferKeeps ==
    ASSUME RegistryInv, NEW s \in Sessions, TurnOffer(s)
    PROVE  RegistryInv'
<1>1. session' = [session EXCEPT ![s] = Idle] /\ UNCHANGED <<asked, written>>
  BY DEF TurnOffer, Go
<1>2. session'[s] = Idle /\ (\A t \in Sessions : session'[t] \in {session[t], Idle})
      /\ session' = [t \in Sessions |-> session'[t]]
  BY <1>1 DEF RegistryInv
<1>3. CASE requests' = requests
  <2>1. SessionOK(s)'
    BY <1>2 DEF SessionOK, Idle, AtHand, Steps
  <2> QED
    BY <1>1, <1>3, <2>1, WalkStep
<1>4. CASE requests' = Enqueue(requests, "extract_facts", "turn")
  BY <1>1, <1>2, <1>4, GrowStep
<1> QED
  BY <1>3, <1>4 DEF TurnOffer

LEMMA RegistryStep ==
    ASSUME Alone, RegistryInv, [Next]_vars
    PROVE  RegistryInv'
<1>1. CASE UNCHANGED vars
  BY <1>1, BeliefStep DEF vars
<1>2. ASSUME NEW b \in Beliefs, Reassert(b) PROVE RegistryInv'
  <2>1. /\ requests' = Enqueue(requests, "doc2query", b)
        /\ UNCHANGED <<session, asked, written>>
    BY <1>2 DEF Reassert
  <2>2. session' = [s \in Sessions |-> session'[s]]
    BY <2>1 DEF RegistryInv
  <2> QED
    BY <2>1, <2>2, GrowStep
<1>3. ASSUME NEW b \in Beliefs, Retract(b) PROVE RegistryInv'
  BY <1>3, BeliefStep DEF Retract
<1>4. ASSUME NEW q \in Queries, Search(q) PROVE RegistryInv'
  <2>1. /\ requests' = Enqueue(requests, "rerank", q)
        /\ UNCHANGED <<session, asked, written>>
    BY <1>4 DEF Search
  <2>2. session' = [s \in Sessions |-> session'[s]]
    BY <2>1 DEF RegistryInv
  <2> QED
    BY <2>1, <2>2, GrowStep
<1>5. CASE Lapse
  BY <1>5, BeliefStep DEF Lapse
<1>6. ASSUME NEW s \in Sessions, Pre(s) \/ Turn(s) \/ FactFails(s) \/ Crash(s)
      PROVE  RegistryInv'
  <2>1. Sessions = {s}
    BY DEF Alone
  <2> QED
    BY <1>6, <2>1, PreKeeps, TurnLookKeeps, ResolveKeeps, FactKeeps, MoveOnKeeps, OfferKeeps
    DEF Turn, Drain
<1> QED
  BY <1>1, <1>2, <1>3, <1>4, <1>5, <1>6 DEF Next

-----------------------------------------------------------------------------
\* The questions a belief is found by.

Changing == {"set", "clear", "write"}
InHand(b) == \E s \in Sessions : /\ session[s].at \in {"clear", "write"}
                                 /\ requests[session[s].request].about = b
Active(b) == belief[b].status = "active"
Current(b) == proxies[b] = Merged(hostQuestions[b], Template(b))

\* What a session holds while it replaces a belief's questions.
HandOK(s) ==
    LET here == session[s]
        b == requests[here.request].about
    IN  /\ here.at \in Changing /\ Active(b) => here.template = {Template(b)}
        /\ here.at \in {"clear", "write"} => hostQuestions[b] = here.request
        /\ here.at = "write" => proxies[b] = {}

ProxyInv ==
    /\ belief \in [Beliefs -> [status : {"active", "retracted"}, version : Nat]]
    /\ proxies = [b \in Beliefs |-> proxies[b]]
    /\ hostQuestions \in [Beliefs -> Ids \union {0}]
    /\ faults \in Nat
    /\ faults = 0 => /\ \A b \in Beliefs : Active(b) /\ ~InHand(b) => Current(b)
                     /\ \A s \in Sessions : HandOK(s)

LEMMA ProxyInit == Init => ProxyInv
<1> SUFFICES ASSUME Init PROVE ProxyInv
  OBVIOUS
<1>1. \A s \in Sessions : session[s].at = "idle"
  BY DEF Init, Idle
<1>2. \A b \in Beliefs : /\ belief[b].version = 0 /\ hostQuestions[b] = 0
                         /\ proxies[b] = {<<"template", 0>>}
  BY DEF Init
<1>3. \A b \in Beliefs : Current(b)
  BY <1>2 DEF Current, Merged, Template
<1>4. \A s \in Sessions : HandOK(s)
  BY <1>1 DEF HandOK, Changing
<1> QED
  BY <1>3, <1>4 DEF Init, ProxyInv

\* A step that leaves the questions alone, and whoever replaces some.
LEMMA CalmStep ==
    ASSUME ProxyInv, RegistryInv, UNCHANGED <<store, faults>>,
           \A i \in Ids : i \in Ids' /\ requests'[i].about = requests[i].about,
           \A s \in Sessions : \/ session'[s] = session[s]
                               \/ {session[s].at, session'[s].at} \cap Changing = {}
    PROVE  ProxyInv'
<1>1. UNCHANGED <<belief, hostQuestions, proxies>>
  BY DEF store
<1>2. \A s \in Sessions : session[s].at \in Changing => session[s].request \in Ids
  BY DEF RegistryInv, SessionOK, Changing, AtHand, Steps
<1>3. \A s \in Sessions :
          \/ session'[s].at \notin Changing /\ session[s].at \notin Changing
          \/ /\ session'[s] = session[s] /\ session[s].request \in Ids
             /\ requests'[session[s].request].about = requests[session[s].request].about
  BY <1>2
<1>4. \A b : InHand(b)' <=> InHand(b)
  BY <1>3 DEF InHand, Changing
<1>5. \A s \in Sessions : HandOK(s) => HandOK(s)'
  BY <1>1, <1>3 DEF HandOK, Changing, Active, Template
<1> QED
  BY <1>1, <1>4, <1>5 DEF ProxyInv, Active, Current, Template

\* A step after which nothing is promised, because a fault happened.
LEMMA FaultStep ==
    ASSUME ProxyInv, UNCHANGED <<store, requests>>, faults' = faults + 1
    PROVE  ProxyInv'
BY DEF ProxyInv, store, Ids

LEMMA WrittenStep ==
    ASSUME Alone, RegistryInv, ProxyInv, NEW b \in Beliefs, Reassert(b) \/ Retract(b)
    PROVE  ProxyInv'
<1>1. \A s \in Sessions : session[s].at \notin Changing
  BY DEF Alone, Reassert, Retract, Quiet, Changing
<1>2. session' = session /\ faults' = faults
  BY DEF Reassert, Retract
<1>3. \A c : ~InHand(c) /\ ~InHand(c)'
  BY <1>1, <1>2 DEF InHand, Changing
<1>4. \A s \in Sessions : HandOK(s)'
  BY <1>1, <1>2 DEF HandOK, Changing
<1>5. CASE Reassert(b)
  <2>1. PICK v \in Nat : v = belief[b].version
    BY DEF ProxyInv
  <2>2. /\ belief' = [belief EXCEPT ![b] = [status |-> "active", version |-> v + 1]]
        /\ proxies' = [proxies EXCEPT ![b] = Merged(hostQuestions[b], <<"template", v + 1>>)]
        /\ UNCHANGED hostQuestions
    BY <1>5, <2>1 DEF Reassert
  <2>3. belief' \in [Beliefs -> [status : {"active", "retracted"}, version : Nat]]
    BY <2>2 DEF ProxyInv
  <2>4. proxies' = [c \in Beliefs |-> proxies'[c]]
    BY <2>2 DEF ProxyInv
  <2>5. \A c \in Beliefs \ {b} : belief'[c] = belief[c] /\ proxies'[c] = proxies[c]
    BY <2>2 DEF ProxyInv
  <2>6. belief'[b].version = v + 1 /\ proxies'[b] = Merged(hostQuestions[b], <<"template", v + 1>>)
    BY <2>2 DEF ProxyInv
  <2>7. faults = 0 => \A c \in Beliefs : Active(c)' => Current(c)'
    <3>1. Current(b)'
      BY <2>2, <2>6 DEF Current, Template
    <3>2. ASSUME NEW c \in Beliefs \ {b}, faults = 0, Active(c)' PROVE Current(c)'
      <4>1. Active(c) /\ Current(c)
        BY <1>3, <2>5, <3>2 DEF ProxyInv, Active
      <4> QED
        BY <2>2, <2>5, <4>1 DEF Current, Template
    <3> QED
      BY <3>1, <3>2
  <2>8. Ids \subseteq Ids'
    <3>1. Grown("doc2query", b)
      BY <1>5, EnqueueEffect DEF Reassert, RegistryInv
    <3> QED
      BY <3>1 DEF Grown, Ids, RegistryInv
  <2>9. hostQuestions' \in [Beliefs -> Ids' \union {0}]
    BY <2>2, <2>8 DEF ProxyInv
  <2> QED
    BY <1>2, <1>4, <2>3, <2>4, <2>7, <2>9 DEF ProxyInv
<1>6. CASE Retract(b)
  <2>1. /\ belief' = [belief EXCEPT ![b].status = "retracted"]
        /\ proxies' = [proxies EXCEPT ![b] = {}]
        /\ hostQuestions' = [hostQuestions EXCEPT ![b] = 0]
        /\ UNCHANGED requests
    BY <1>6 DEF Retract
  <2>2. /\ belief' \in [Beliefs -> [status : {"active", "retracted"}, version : Nat]]
        /\ belief'[b].status = "retracted"
        /\ \A c \in Beliefs \ {b} : belief'[c] = belief[c]
    BY <2>1 DEF ProxyInv
  <2>3. /\ proxies' = [c \in Beliefs |-> proxies'[c]]
        /\ hostQuestions' \in [Beliefs -> Ids' \union {0}]
        /\ \A c \in Beliefs \ {b} : proxies'[c] = proxies[c] /\ hostQuestions'[c] = hostQuestions[c]
    BY <2>1 DEF ProxyInv, Ids
  <2>4. ASSUME NEW c \in Beliefs, faults = 0, Active(c)' PROVE Current(c)'
    <3>1. c # b /\ Active(c)
      BY <2>2, <2>4 DEF Active
    <3>2. Current(c)
      BY <1>3, <2>4, <3>1 DEF ProxyInv
    <3> QED
      BY <2>2, <2>3, <3>1, <3>2 DEF Current, Template
  <2> QED
    BY <1>2, <1>4, <2>2, <2>3, <2>4 DEF ProxyInv
<1> QED
  BY <1>5, <1>6

\* The four steps that give a belief the host's questions.  Nobody else writes
\* the belief in between, so what was read is what is written again.
LEMMA ReplyStep ==
    ASSUME Alone, RegistryInv, ProxyInv, NEW s \in Sessions,
           ApplyRead(s) \/ ApplySet(s) \/ ApplyClear(s) \/ ApplyWrite(s)
    PROVE  ProxyInv'
<1>1. /\ Sessions = {s} /\ UNCHANGED <<requests, belief, faults>>
      /\ session = [t \in Sessions |-> session[t]]
  <2>1. Sessions = {s} /\ session = [t \in Sessions |-> session[t]]
    BY DEF Alone, RegistryInv
  <2>2. CASE ApplyRead(s)
    BY <2>1, <2>2 DEF ApplyRead, store
  <2>3. CASE ApplySet(s) \/ ApplyClear(s) \/ ApplyWrite(s)
    BY <2>1, <2>3 DEF ApplySet, ApplyClear, ApplyWrite
  <2> QED
    BY <2>2, <2>3
<1>2. PICK i, b : i = session[s].request /\ b = requests[i].about
  OBVIOUS
<1>3. i \in Ids /\ i # 0 /\ b \in Beliefs
  <2>1. session[s].at \in {"read", "set", "clear", "write"}
    BY DEF ApplyRead, ApplySet, ApplyClear, ApplyWrite, At
  <2>2. i \in Ids /\ requests[i].kind = "doc2query"
    BY <1>2, <2>1 DEF RegistryInv, SessionOK, AtHand, Steps
  <2> QED
    BY <1>2, <2>2 DEF RegistryInv, Ids
<1>4. \A c : Host(i) # Template(c)
  BY DEF Host, Template
<1>5. CASE ApplyRead(s)
  <2>1. session' = [session EXCEPT ![s] = [at |-> "set", request |-> i,
                                           template |-> proxies[b] \ {Host(hostQuestions[b])}]]
    BY <1>2, <1>5 DEF ApplyRead, Go
  <2>2. session'[s] = [at |-> "set", request |-> i,
                       template |-> proxies[b] \ {Host(hostQuestions[b])}]
    BY <1>1, <2>1
  <2>3. session[s].at = "read" /\ UNCHANGED <<hostQuestions, proxies>>
    BY <1>5 DEF ApplyRead, At, store
  <2>4. \A c : ~InHand(c) /\ ~InHand(c)'
    BY <1>1, <2>2, <2>3 DEF InHand
  <2>5. faults = 0 /\ Active(b) => session'[s].template = {Template(b)}
    <3>1. SUFFICES ASSUME faults = 0, Active(b) PROVE session'[s].template = {Template(b)}
      OBVIOUS
    <3>2. proxies[b] = Merged(hostQuestions[b], Template(b))
      BY <1>3, <2>4, <3>1 DEF ProxyInv, Current
    <3>3. Template(b) # Host(hostQuestions[b])
      BY DEF Template, Host
    <3> QED
      BY <2>2, <3>2, <3>3 DEF Merged
  <2>6. faults = 0 => HandOK(s)'
    BY <1>1, <1>2, <2>2, <2>5 DEF HandOK, Active, Template
  <2> QED
    BY <1>1, <2>3, <2>4, <2>6 DEF ProxyInv, Active, Current, Template, Ids
<1>6. CASE ApplySet(s)
  <2>1. /\ session' = [session EXCEPT ![s] = [session[s] EXCEPT !.at = "clear"]]
        /\ hostQuestions' = [hostQuestions EXCEPT ![b] = i]
        /\ session[s].at = "set" /\ UNCHANGED proxies
    BY <1>2, <1>6 DEF ApplySet, Go, At
  <2>2. session'[s] = [session[s] EXCEPT !.at = "clear"]
    BY <1>1, <2>1
  <2>3. session'[s].at = "clear" /\ session'[s].request = i /\ session'[s].template = session[s].template
    BY <1>2, <2>2
  <2>4. /\ hostQuestions' \in [Beliefs -> Ids' \union {0}] /\ hostQuestions'[b] = i
        /\ \A c \in Beliefs \ {b} : hostQuestions'[c] = hostQuestions[c]
    BY <1>1, <1>3, <2>1 DEF ProxyInv, Ids
  <2>5. (\A c : ~InHand(c)) /\ \A c \in Beliefs : InHand(c)' <=> c = b
    BY <1>1, <1>2, <2>1, <2>3 DEF InHand
  <2>6. faults = 0 => HandOK(s)'
    BY <1>1, <1>2, <2>1, <2>3, <2>4 DEF ProxyInv, HandOK, Active, Template, Changing
  <2>7. ASSUME NEW c \in Beliefs, faults = 0, Active(c)', ~InHand(c)' PROVE Current(c)'
    <3>1. c # b /\ Current(c)
      BY <1>1, <2>5, <2>7 DEF ProxyInv, Active
    <3> QED
      BY <1>1, <2>1, <2>4, <3>1 DEF Current, Template
  <2> QED
    BY <1>1, <2>1, <2>4, <2>6, <2>7 DEF ProxyInv
<1>7. CASE ApplyClear(s)
  <2>1. /\ session' = [session EXCEPT ![s] = [session[s] EXCEPT !.at = "write"]]
        /\ proxies' = [proxies EXCEPT ![b] = {}]
        /\ session[s].at = "clear" /\ UNCHANGED hostQuestions
    BY <1>2, <1>7 DEF ApplyClear, Go, At
  <2>2. session'[s] = [session[s] EXCEPT !.at = "write"]
    BY <1>1, <2>1
  <2>3. session'[s].at = "write" /\ session'[s].request = i /\ session'[s].template = session[s].template
    BY <1>2, <2>2
  <2>4. /\ proxies' = [c \in Beliefs |-> proxies'[c]] /\ proxies'[b] = {}
        /\ \A c \in Beliefs \ {b} : proxies'[c] = proxies[c]
    BY <1>3, <2>1 DEF ProxyInv
  <2>5. \A c \in Beliefs : (InHand(c) <=> c = b) /\ (InHand(c)' <=> c = b)
    BY <1>1, <1>2, <2>1, <2>3 DEF InHand
  <2>6. faults = 0 => HandOK(s)'
    BY <1>1, <1>2, <2>1, <2>3, <2>4 DEF ProxyInv, HandOK, Active, Template, Changing
  <2>7. ASSUME NEW c \in Beliefs, faults = 0, Active(c)', ~InHand(c)' PROVE Current(c)'
    <3>1. c # b /\ Current(c)
      BY <1>1, <2>5, <2>7 DEF ProxyInv, Active
    <3> QED
      BY <1>1, <2>1, <2>4, <3>1 DEF Current, Template
  <2> QED
    BY <1>1, <2>1, <2>4, <2>6, <2>7 DEF ProxyInv, Ids
<1>8. CASE ApplyWrite(s)
  <2>1. /\ session' = [session EXCEPT ![s] = [at |-> "offer"]]
        /\ proxies' = [proxies EXCEPT ![b] = @ \union session[s].template \union {Host(i)}]
        /\ session[s].at = "write" /\ UNCHANGED hostQuestions
    BY <1>2, <1>8 DEF ApplyWrite, Go, At
  <2>2. session'[s].at = "offer"
    BY <1>1, <2>1
  <2>3. /\ proxies' = [c \in Beliefs |-> proxies'[c]]
        /\ proxies'[b] = proxies[b] \union session[s].template \union {Host(i)}
        /\ \A c \in Beliefs \ {b} : proxies'[c] = proxies[c]
    BY <1>3, <2>1 DEF ProxyInv
  <2>4. \A c \in Beliefs : InHand(c) <=> c = b
    BY <1>1, <1>2, <2>1 DEF InHand
  <2>5. HandOK(s)'
    BY <2>2 DEF HandOK, Changing
  <2>6. ASSUME NEW c \in Beliefs, faults = 0, Active(c)' PROVE Current(c)'
    <3>1. Active(c)
      BY <1>1, <2>6 DEF Active
    <3>2. CASE c = b
      <4>1. HandOK(s)
        BY <2>6 DEF ProxyInv
      <4>2. session[s].template = {Template(b)} /\ proxies[b] = {} /\ hostQuestions[b] = i
        BY <1>2, <2>1, <3>1, <3>2, <4>1 DEF HandOK, Changing
      <4> QED
        BY <1>1, <1>3, <2>1, <2>3, <3>2, <4>2 DEF Current, Merged, Template
    <3>3. CASE c # b
      <4>1. Current(c)
        BY <2>4, <2>6, <3>1, <3>3 DEF ProxyInv
      <4> QED
        BY <1>1, <2>1, <2>3, <3>3, <4>1 DEF Current, Template
    <3> QED
      BY <3>2, <3>3
  <2> QED
    BY <1>1, <2>1, <2>3, <2>5, <2>6 DEF ProxyInv, Ids
<1> QED
  BY <1>5, <1>6, <1>7, <1>8

LEMMA ProxyStep ==
    ASSUME Alone, RegistryInv, ProxyInv, [Next]_vars
    PROVE  ProxyInv'
<1>1. CASE UNCHANGED vars
  BY <1>1, CalmStep DEF vars, Ids
<1>2. ASSUME NEW b \in Beliefs, Reassert(b) \/ Retract(b) PROVE ProxyInv'
  BY <1>2, WrittenStep
<1>3. ASSUME NEW kind \in {"extract_facts", "rerank"}, NEW about \in Queries \union {"turn"},
             requests' = Enqueue(requests, kind, about), UNCHANGED <<store, faults>>,
             \A s \in Sessions : \/ session'[s] = session[s]
                                 \/ {session[s].at, session'[s].at} \cap Changing = {}
      PROVE  ProxyInv'
  <2>1. Grown(kind, about)
    BY <1>3, EnqueueEffect DEF RegistryInv
  <2>2. \A i \in Ids : i \in Ids' /\ requests'[i].about = requests[i].about
    BY <2>1 DEF Grown, Ids, RegistryInv
  <2> QED
    BY <1>3, <2>2, CalmStep
<1>4. ASSUME NEW q \in Queries, Search(q) PROVE ProxyInv'
  BY <1>3, <1>4 DEF Search
<1>5. CASE Lapse
  BY <1>5, CalmStep DEF Lapse, Ids
<1>6. ASSUME NEW s \in Sessions, Pre(s) \/ Turn(s) \/ FactFails(s) \/ Crash(s)
      PROVE  ProxyInv'
  <2>1. Sessions = {s} /\ session = [t \in Sessions |-> session[t]]
    BY DEF Alone, RegistryInv
  <2>2. CASE PreLook(s) \/ PreTake(s) \/ TurnLook(s) \/ ApplyFact(s) \/ ApplyHints(s)
    <3>1. UNCHANGED <<requests, store, faults>>
      BY <2>2 DEF PreLook, PreTake, TurnLook, ApplyFact, ApplyHints
    <3>2. session[s].at \in {"idle", "take", "fact", "hint"}
      BY <2>2 DEF PreLook, PreTake, TurnLook, ApplyFact, ApplyHints, At
    <3>3. session'[s].at \in {"idle", "take", "mark", "offer", "resolve", "fact"}
      <4>1. CASE PreLook(s) \/ PreTake(s) \/ ApplyHints(s)
        BY <2>1, <4>1 DEF PreLook, PreTake, ApplyHints, Go, Idle
      <4>2. CASE TurnLook(s)
        BY <2>1, <4>2 DEF TurnLook, Go
      <4>3. CASE ApplyFact(s)
        BY <4>3, FactMoves
      <4> QED
        BY <2>2, <4>1, <4>2, <4>3
    <3> QED
      BY <2>1, <3>1, <3>2, <3>3, CalmStep DEF Changing, Ids
  <2>3. CASE PreMark(s)
    <3>1. PICK i : i = session[s].request
      OBVIOUS
    <3>2. Marked(i)
      <4>1. i \in DOMAIN requests /\ Riding(requests) = {}
        BY <2>3, <3>1 DEF PreMark, At, RegistryInv, SessionOK, AtHand, Steps, Ids
      <4>2. requests' = MarkAttached(requests, i)
        BY <2>3, <3>1 DEF PreMark
      <4> QED
        BY <4>1, <4>2, MarkEffect DEF RegistryInv
    <3>3. \A k \in Ids : k \in Ids' /\ requests'[k].about = requests[k].about
      BY <3>2 DEF Marked, Ids, RegistryInv
    <3>4. session[s].at = "mark" /\ session'[s].at = "idle" /\ UNCHANGED <<store, faults>>
      BY <2>1, <2>3 DEF PreMark, At, Go, Idle
    <3> QED
      BY <2>1, <3>3, <3>4, CalmStep DEF Changing
  <2>4. CASE TurnResolve(s)
    <3>1. PICK i : i = session[s].request
      OBVIOUS
    <3>2. PICK status \in {"answered", "expired"} : requests' = Resolve(requests, i, status)
      BY <2>4, <3>1 DEF TurnResolve
    <3>3. Resolved(i) /\ i \in Ids
      <4>1. i \in DOMAIN requests
        BY <2>4, <3>1 DEF TurnResolve, At, RegistryInv, SessionOK, AtHand, Steps, Ids
      <4> QED
        BY <3>2, <4>1, ResolveEffect DEF RegistryInv, Ids
    <3>4. \A k \in Ids : k \in Ids' /\ requests'[k].about = requests[k].about
      BY <3>3 DEF Resolved, Ids, RegistryInv
    <3>5. session[s].at = "resolve" /\ UNCHANGED <<store, faults>>
      BY <2>4 DEF TurnResolve, At
    <3>6. session'[s] \in {Applying(i), [at |-> "offer"]}
      BY <2>1, <2>4, <3>1 DEF TurnResolve, Go
    <3>7. session'[s].at \in {"offer", "fact", "read", "hint"}
      <4>1. requests[i] \in Request
        BY <3>3 DEF RegistryInv, Ids
      <4>2. requests[i].kind \in {"extract_facts", "doc2query", "rerank"}
        BY <4>1 DEF Request
      <4> QED
        BY <3>6, <4>2 DEF Applying
    <3> QED
      BY <2>1, <3>4, <3>5, <3>7, CalmStep DEF Changing
  <2>5. CASE TurnOffer(s)
    <3>1. session[s].at = "offer" /\ session'[s].at = "idle" /\ UNCHANGED <<store, faults>>
      BY <2>1, <2>5 DEF TurnOffer, At, Go, Idle
    <3>2. CASE requests' = requests
      BY <2>1, <3>1, <3>2, CalmStep DEF Changing, Ids
    <3>3. CASE requests' = Enqueue(requests, "extract_facts", "turn")
      BY <1>3, <2>1, <3>1, <3>3 DEF Changing
    <3> QED
      BY <2>5, <3>2, <3>3 DEF TurnOffer
  <2>6. CASE ApplyRead(s) \/ ApplySet(s) \/ ApplyClear(s) \/ ApplyWrite(s)
    BY <2>6, ReplyStep
  <2>7. CASE FactFails(s) \/ Crash(s)
    BY <2>7, FaultStep DEF FactFails, Crash
  <2> QED
    BY <1>6, <2>2, <2>3, <2>4, <2>5, <2>6, <2>7 DEF Pre, Turn, Drain
<1> QED
  BY <1>1, <1>2, <1>4, <1>5, <1>6 DEF Next

-----------------------------------------------------------------------------
LEMMA WellApplied ==
    ASSUME RegistryInv, ProxyInv
    PROVE  AppliedWell
<1>1. TypeOK
  BY DEF TypeOK, RegistryInv, ProxyInv, Request
<1>2. OneInFlight
  <2>1. CASE Riding(requests) = {}
    BY <2>1, FS_EmptySet DEF OneInFlight
  <2>2. CASE Riding(requests) # {}
    <3>1. PICK i : Riding(requests) = {i}
      BY <2>2 DEF RegistryInv
    <3>2. Cardinality({i}) = 1
      BY FS_Singleton
    <3> QED
      BY <3>1, <3>2 DEF OneInFlight
  <2> QED
    BY <2>1, <2>2
<1>3. AppliedOnce
  BY DEF RegistryInv
<1>4. ProxiesCurrent
  <2>1. Quiet => \A b : ~InHand(b)
    BY DEF Quiet, InHand
  <2> QED
    BY <2>1 DEF ProxiesCurrent, ProxyInv, Active, Current
<1> QED
  BY <1>1, <1>2, <1>3, <1>4 DEF AppliedWell

\* While one provider is open on the store and no belief is written in the
\* middle of a reply: one request rides at a time, no fact of a reply is
\* appended twice wherever the process dies, and without faults an active
\* belief is found by its present words and the host's latest questions, for
\* every number of beliefs, queries and requests and every cap
\* (engine/hostmodel.py; provider.py pre_llm_call and sync_turn).
THEOREM RepliesAppliedWell ==
    ASSUME Alone
    PROVE  Spec => []AppliedWell
<1>1. Init => RegistryInv /\ ProxyInv
  BY RegistryInit, ProxyInit
<1>2. RegistryInv /\ ProxyInv /\ [Next]_vars => RegistryInv' /\ ProxyInv'
  BY RegistryStep, ProxyStep
<1>3. RegistryInv /\ ProxyInv => AppliedWell
  BY WellApplied
<1> QED
  BY <1>1, <1>2, <1>3, PTL DEF Spec

----------------------------------------------------------------------------
(* Vectors, for every number of beliefs, summaries and models, outages,    *)
(* switches and texts.                                                     *)

\* The drains of a process take turns, and a row without a vector has a tag no
\* model has.
OneDrain ==
    /\ \A v, w \in Workers : v = w
    /\ Beliefs \cap Summaries = {}
    /\ "none" \notin Models /\ "null" \notin Models

\* A belief whose text changes under one id is not pruned and then written again.
Settled == Restated = {} \/ MaxReasserts = 0

\* A job under way holds the text its row still has: texts of a session change
\* only by the drain itself, and so do those of a belief once it has one.
JobHoldsText ==
    \A w \in Workers :
        /\ at[w].do = "embed" => /\ at[w].target \in Vector!Targets
                                 /\ at[w].of = text[at[w].target] /\ at[w].of # 0
        /\ at[w].do = "summarize" => at[w].target \in Summaries

\* A vector with a model's tag is that model's, and of the present text unless
\* the old one was kept: the model need not be the one served now.
RowTrue(t) ==
    /\ vec[t].tag = vec[t].by
    /\ vec[t].tag \in Models => t \in kept \/ (vec[t].of = text[t] /\ text[t] # 0)
    /\ t \in Beliefs => text[t] \in Nat /\ (Restated = {} => text[t] \in {0, 1})

VectorInv ==
    /\ vec = [t \in Vector!Targets |-> vec[t]]
    /\ text = [t \in Vector!Targets |-> text[t]]
    /\ at = [w \in Workers |-> at[w]]
    /\ turns \in [Summaries -> Nat]
    /\ \A s \in Summaries : text[s] \in Nat
    /\ \A w \in Workers : at[w].do = "summarize" => at[w].of \in Nat \ {0}
    /\ model \in Models
    /\ spent \in [outages : Int, switches : Int, reasserts : Nat]
    /\ kept \subseteq Beliefs
    /\ JobHoldsText
    /\ \A t \in Vector!Targets : RowTrue(t)

LEMMA VectorInit == ASSUME OneDrain PROVE Vector!Init => VectorInv
<1> SUFFICES ASSUME Vector!Init PROVE VectorInv
  OBVIOUS
<1>1. \A t \in Vector!Targets : vec[t] = Vector!NoRow /\ text[t] = 0
  BY DEF Vector!Init
<1>2. \A t \in Vector!Targets : RowTrue(t)
  BY <1>1 DEF RowTrue, Vector!NoRow, OneDrain
<1>3. \A w \in Workers : at[w].do = "idle"
  BY DEF Vector!Init, Vector!Idle
<1>4. /\ vec = [t \in Vector!Targets |-> vec[t]] /\ text = [t \in Vector!Targets |-> text[t]]
      /\ at = [w \in Workers |-> at[w]] /\ turns \in [Summaries -> Nat]
      /\ \A s \in Summaries : text[s] \in Nat
      /\ model \in Models
      /\ spent \in [outages : Int, switches : Int, reasserts : Nat] /\ kept = {}
  BY DEF Vector!Init, Vector!Targets
<1> QED
  BY <1>2, <1>3, <1>4 DEF VectorInv, JobHoldsText

\* A step that changes no text, vector, job under way or model.
LEMMA RestStep ==
    VectorInv /\ UNCHANGED <<text, vec, at, model, kept, spent>> /\ turns' = turns => VectorInv'
BY DEF VectorInv, JobHoldsText, RowTrue

LEMMA Answers == Vector!Outcome = "vector" => Vector!ModelTag = model
BY DEF Vector!Outcome, Vector!ModelTag

\* One target's row, text or both are written, and what was under way ends.
LEMMA WriteStep ==
    ASSUME OneDrain, VectorInv, NEW w \in Workers, NEW t \in Vector!Targets, NEW n,
           text' = [text EXCEPT ![t] = n] \/ text' = text,
           \E r : vec' = [vec EXCEPT ![t] = r] \/ vec' = vec,
           kept' = kept \/ kept' = kept \ {t},
           at' = [at EXCEPT ![w] = Vector!Idle], RowTrue(t)',
           UNCHANGED <<turns, model, spent>>, t \in Summaries => text'[t] \in Nat
    PROVE  VectorInv'
<1>1. \A u \in Vector!Targets \ {t} : vec'[u] = vec[u] /\ text'[u] = text[u]
  BY DEF VectorInv
<1>2. \A u \in Vector!Targets : RowTrue(u)'
  BY <1>1 DEF VectorInv, RowTrue
<1>3. \A v \in Workers : at'[v].do = "idle"
  BY DEF OneDrain, VectorInv, Vector!Idle
<1>4. /\ vec' = [u \in Vector!Targets |-> vec'[u]] /\ text' = [u \in Vector!Targets |-> text'[u]]
      /\ at' = [v \in Workers |-> at'[v]]
  BY DEF VectorInv
<1>5. \A s \in Summaries : text'[s] \in Nat
  BY <1>1 DEF VectorInv, Vector!Targets
<1> QED
  BY <1>2, <1>3, <1>4, <1>5 DEF VectorInv, JobHoldsText

\* A belief is written, with a vector of its text or else with the one it had.
LEMMA BeliefWritten ==
    ASSUME OneDrain, VectorInv, NEW b \in Beliefs, NEW n \in Nat \ {0}, NEW deferred \in BOOLEAN,
           Vector!WriteBelief(b, n, deferred), Restated = {} => n = 1
    PROVE  /\ \A t \in Vector!Targets \ {b} : text'[t] = text[t]
           /\ text'[b] = n
           /\ text' = [t \in Vector!Targets |-> text'[t]] /\ vec' = [t \in Vector!Targets |-> vec'[t]]
           /\ \A s \in Summaries : text'[s] \in Nat
           /\ kept' \subseteq Beliefs
           /\ \A t \in Vector!Targets : RowTrue(t)'
<1> DEFINE r == Vector!Row(n, Vector!ModelTag, model)
<1>1. /\ text' = [text EXCEPT ![b] = n]
      /\ \/ vec' = vec /\ (vec[b] = Vector!NoRow \/ b \in kept')
         \/ Vector!Outcome = "vector" /\ vec' = [vec EXCEPT ![b] = r]
      /\ kept' = kept \ {b} \/ kept' = kept \cup {b}
  BY DEF Vector!WriteBelief, Vector!WriteVector
<1>2. Vector!Outcome = "vector" => r.tag = r.by /\ r.of = n
  BY Answers DEF Vector!Row
<1> HIDE DEF r
<1>3. b \in Vector!Targets /\ b \notin Summaries
  BY DEF Vector!Targets, OneDrain
<1>4. /\ \A t \in Vector!Targets \ {b} :
             text'[t] = text[t] /\ vec'[t] = vec[t] /\ (t \in kept' <=> t \in kept)
      /\ text'[b] = n
      /\ \/ vec'[b] = vec[b] /\ (vec[b] = Vector!NoRow \/ b \in kept')
         \/ Vector!Outcome = "vector" /\ vec'[b] = r
      /\ text' = [t \in Vector!Targets |-> text'[t]] /\ vec' = [t \in Vector!Targets |-> vec'[t]]
  BY <1>1, <1>3 DEF VectorInv
<1>5. RowTrue(b)
  BY <1>3 DEF VectorInv
<1>6. RowTrue(b)'
  BY <1>2, <1>4, <1>5 DEF RowTrue, Vector!NoRow, OneDrain
<1>7. \A t \in Vector!Targets \ {b} : RowTrue(t)'
  BY <1>4 DEF VectorInv, RowTrue
<1>8. \A s \in Summaries : text'[s] \in Nat
  BY <1>3, <1>4 DEF VectorInv, Vector!Targets
<1>9. kept' \subseteq Beliefs
  BY <1>1 DEF VectorInv
<1> QED
  BY <1>4, <1>6, <1>7, <1>8, <1>9

LEMMA WorkStep ==
    ASSUME OneDrain, VectorInv, NEW w \in Workers, Vector!Work(w)
    PROVE  VectorInv'
<1>1. ASSUME NEW s \in Summaries, Vector!SummarizeRead(w, s) PROVE VectorInv'
  <2>1. /\ at'[w] = [do |-> "summarize", target |-> s, of |-> turns[s]]
        /\ \A v \in Workers : v = w
        /\ at' = [v \in Workers |-> at'[v]]
    BY <1>1 DEF Vector!SummarizeRead, VectorInv, OneDrain
  <2>2. turns[s] \in Nat \ {0}
    <3>1. turns[s] \in Nat /\ text[s] \in Nat
      BY DEF VectorInv
    <3>2. turns[s] > text[s]
      BY <1>1 DEF Vector!SummarizeRead
    <3> QED
      BY <3>1, <3>2
  <2>3. JobHoldsText'
    BY <2>1 DEF JobHoldsText
  <2> QED
    BY <1>1, <2>1, <2>2, <2>3 DEF Vector!SummarizeRead, VectorInv, RowTrue
<1>2. CASE Vector!SummarizeWrite(w)
  <2> PICK s \in Summaries, n \in Nat \ {0} : s = at[w].target /\ n = at[w].of
    BY <1>2 DEF Vector!SummarizeWrite, VectorInv, JobHoldsText
  <2> PICK r : r = IF Vector!Outcome = "vector" THEN Vector!Row(n, Vector!ModelTag, model) ELSE Vector!Blank
    OBVIOUS
  <2>1. s \in Vector!Targets
    BY DEF Vector!Targets
  <2>2. /\ text' = [text EXCEPT ![s] = n] /\ vec' = [vec EXCEPT ![s] = r]
        /\ at' = [at EXCEPT ![w] = Vector!Idle] /\ UNCHANGED <<turns, model, kept, spent>>
    BY <1>2 DEF Vector!SummarizeWrite
  <2>3. r.tag = r.by /\ (r.tag \in Models => r.of = n)
    BY Answers DEF Vector!Row, Vector!Blank, OneDrain
  <2>4. text'[s] = n /\ vec'[s] = r
    BY <2>1, <2>2 DEF VectorInv
  <2>5. RowTrue(s)'
    BY <2>1, <2>3, <2>4 DEF RowTrue, OneDrain
  <2> QED
    BY <2>1, <2>2, <2>4, <2>5, WriteStep
<1>3. ASSUME NEW t \in Vector!Targets, Vector!Resolve(w, t) PROVE VectorInv'
  <2>1. /\ at'[w].do \in {"return", "embed"} /\ at'[w].target = t /\ at'[w].of = Vector!VectorText(t)
        /\ at'[w].do = "embed" => Vector!VectorText(t) # 0
        /\ \A v \in Workers : v = w
        /\ at' = [v \in Workers |-> at'[v]]
    BY <1>3 DEF Vector!Resolve, VectorInv, OneDrain
  <2>2. Vector!VectorText(t) # 0 => Vector!VectorText(t) = text[t]
    BY DEF Vector!VectorText
  <2>3. JobHoldsText'
    BY <1>3, <2>1, <2>2 DEF JobHoldsText, Vector!Resolve
  <2> QED
    BY <1>3, <2>1, <2>3 DEF Vector!Resolve, VectorInv, RowTrue
<1>4. CASE Vector!EmbedAnswered(w)
  <2> PICK t \in Vector!Targets : t = at[w].target
    BY <1>4 DEF Vector!EmbedAnswered, VectorInv, JobHoldsText
  <2> PICK r : r = Vector!Row(at[w].of, model, model)
    OBVIOUS
  <2>1. at[w].of = text[t] /\ text[t] # 0
    BY <1>4 DEF Vector!EmbedAnswered, VectorInv, JobHoldsText
  <2>2. /\ vec' = vec \/ vec' = [vec EXCEPT ![t] = r]
        /\ text' = text /\ at' = [at EXCEPT ![w] = Vector!Idle] /\ UNCHANGED <<turns, model, spent>>
        /\ kept' = kept \ {t}
    BY <1>4 DEF Vector!EmbedAnswered, Vector!StoreVector
  <2>3. r.tag = r.by /\ r.of = text[t]
    BY <2>1 DEF Vector!Row
  <2>4. vec'[t] = r \/ (vec'[t] = vec[t] /\ (t \in kept => t \in kept'))
    <3>1. vec' = [vec EXCEPT ![t] = r] => vec'[t] = r
      BY DEF VectorInv
    <3>2. vec' = vec /\ vec'[t] # r => t \in Summaries
      BY <1>4, <3>1 DEF Vector!EmbedAnswered, Vector!StoreVector
    <3> QED
      BY <2>2, <3>1, <3>2 DEF VectorInv, OneDrain
  <2>5. RowTrue(t)
    BY <2>1 DEF VectorInv
  <2>6. RowTrue(t)'
    BY <2>1, <2>2, <2>3, <2>4, <2>5 DEF RowTrue
  <2>7. t \in Summaries => text'[t] \in Nat
    BY <2>2 DEF VectorInv
  <2> QED
    BY <2>1, <2>2, <2>6, <2>7, WriteStep
<1>5. CASE Vector!EmbedDeferred(w) \/ Vector!EmbedRefused(w) \/ Vector!EmbedReturn(w)
  <2>1. at' = [at EXCEPT ![w] = Vector!Idle] /\ UNCHANGED <<text, vec, turns, model, kept, spent>>
    BY <1>5 DEF Vector!EmbedDeferred, Vector!EmbedRefused, Vector!EmbedReturn
  <2>2. \A v \in Workers : at'[v].do = "idle" \/ at'[v] = at[v]
    BY <2>1 DEF VectorInv, Vector!Idle
  <2>3. at' = [v \in Workers |-> at'[v]]
    BY <2>1 DEF VectorInv
  <2> QED
    BY <2>1, <2>2, <2>3 DEF VectorInv, JobHoldsText, RowTrue
<1>6. ASSUME NEW b \in Beliefs, Vector!Restate(w, b) PROVE VectorInv'
  <2>1. text[b] \in Nat /\ Restated # {}
    BY <1>6 DEF Vector!Restate, VectorInv, RowTrue, Vector!Targets
  <2>2. Vector!WriteBelief(b, text[b] + 1, FALSE) /\ UNCHANGED <<turns, at, model, spent>>
    BY <1>6 DEF Vector!Restate
  <2>4. text[b] + 1 \in Nat \ {0}
    BY <2>1
  <2>3. \A v \in Workers : at'[v].do = "idle"
    BY <1>6 DEF Vector!Restate, OneDrain
  <2> QED
    BY <2>1, <2>2, <2>3, <2>4, BeliefWritten DEF VectorInv, JobHoldsText
<1> QED
  BY <1>1, <1>2, <1>3, <1>4, <1>5, <1>6 DEF Vector!Work

LEMMA VectorStep ==
    ASSUME OneDrain, Settled
    PROVE  VectorInv /\ [Vector!Next]_(Vector!vars) => VectorInv'
<1> SUFFICES ASSUME VectorInv, [Vector!Next]_(Vector!vars) PROVE VectorInv'
  OBVIOUS
<1>1. ASSUME NEW b \in Beliefs, Vector!InsertBelief(b) PROVE VectorInv'
  <2>1. PICK deferred \in BOOLEAN : Vector!WriteBelief(b, 1, deferred)
    BY <1>1 DEF Vector!InsertBelief
  <2>2. UNCHANGED <<turns, at, model>>
    BY <1>1 DEF Vector!InsertBelief
  <2>3. spent' \in [outages : Int, switches : Int, reasserts : Nat]
    BY <1>1 DEF Vector!InsertBelief, VectorInv
  <2>4. text[b] \in {0, 1}
    <3>1. CASE Restated = {}
      BY <3>1 DEF VectorInv, RowTrue, Vector!Targets
    <3>2. CASE MaxReasserts = 0
      <4>1. spent.reasserts \in Nat
        BY DEF VectorInv
      <4> QED
        BY <1>1, <3>2, <4>1 DEF Vector!InsertBelief
    <3> QED
      BY <3>1, <3>2 DEF Settled
  <2>5. /\ \A t \in Vector!Targets \ {b} : text'[t] = text[t]
        /\ text'[b] = 1
        /\ text' = [t \in Vector!Targets |-> text'[t]] /\ vec' = [t \in Vector!Targets |-> vec'[t]]
        /\ \A s \in Summaries : text'[s] \in Nat
        /\ kept' \subseteq Beliefs
        /\ \A t \in Vector!Targets : RowTrue(t)'
    BY <2>1, BeliefWritten
  <2>6. JobHoldsText'
    BY <2>2, <2>4, <2>5 DEF VectorInv, JobHoldsText
  <2> QED
    BY <2>2, <2>3, <2>5, <2>6 DEF VectorInv
<1>2. ASSUME NEW b \in Beliefs, Vector!Retract(b) \/ Vector!PruneRetracted(b) PROVE VectorInv'
  <2>1. /\ vec' = [vec EXCEPT ![b] = Vector!NoRow] /\ kept' = kept \ {b}
        /\ UNCHANGED <<text, turns, at, model, spent>>
    BY <1>2 DEF Vector!Retract, Vector!PruneRetracted
  <2>2. \A t \in Vector!Targets : vec'[t] = Vector!NoRow
                                  \/ (vec'[t] = vec[t] /\ (t \in kept => t \in kept'))
    BY <2>1 DEF VectorInv
  <2>3. \A t \in Vector!Targets : RowTrue(t)'
    BY <2>1, <2>2 DEF VectorInv, RowTrue, Vector!NoRow, OneDrain
  <2>4. vec' = [t \in Vector!Targets |-> vec'[t]]
    BY <2>1 DEF VectorInv
  <2> QED
    BY <2>1, <2>3, <2>4 DEF VectorInv, JobHoldsText
<1>3. ASSUME NEW s \in Summaries, Vector!Observe(s) PROVE VectorInv'
  <2>1. turns' \in [Summaries -> Nat]
    BY <1>3 DEF Vector!Observe, VectorInv
  <2> QED
    BY <1>3, <2>1 DEF Vector!Observe, VectorInv, JobHoldsText, RowTrue
<1>4. ASSUME NEW m \in Models, Vector!Restart(m) PROVE VectorInv'
  <2>1. /\ \A w \in Workers : at'[w].do = "idle"
        /\ at' = [w \in Workers |-> at'[w]]
        /\ model' = m /\ UNCHANGED <<text, vec, turns, kept>>
        /\ spent' \in [outages : Int, switches : Int, reasserts : Nat]
    BY <1>4 DEF Vector!Restart, Vector!Idle, VectorInv
  <2> QED
    BY <2>1 DEF VectorInv, JobHoldsText, RowTrue
<1>5. CASE Vector!CooldownOver \/ Vector!Query \/ Vector!EndpointReturns
  BY <1>5, RestStep DEF Vector!CooldownOver, Vector!Query, Vector!EndpointReturns
<1>8. CASE Vector!EndpointFails
  <2>1. spent' \in [outages : Int, switches : Int, reasserts : Nat]
    BY <1>8 DEF Vector!EndpointFails, VectorInv
  <2> QED
    BY <1>8, <2>1 DEF Vector!EndpointFails, VectorInv, JobHoldsText, RowTrue
<1>6. CASE Vector!EmbedderMismatchHeal
  BY <1>6, RestStep DEF Vector!EmbedderMismatchHeal
<1>7. CASE UNCHANGED Vector!vars
  BY <1>7, RestStep DEF Vector!vars
<1> QED
  BY <1>1, <1>2, <1>3, <1>4, <1>5, <1>6, <1>7, <1>8, WorkStep DEF Vector!Next

-----------------------------------------------------------------------------
(* Types, and the beliefs without a vector *)

\* What a drain has at hand: a summary of turns there were, or a job that runs.
JobOK ==
    \A w \in Workers :
        /\ at[w].do \in {"idle", "summarize", "embed", "return"}
        /\ at[w].do = "summarize" => at[w].of \in 0 .. MaxTurns
        /\ at[w].do \in {"embed", "return"} =>
               at[w].target \in Vector!Targets /\ job[at[w].target] = "running"

TypeInv == VectorInv /\ Vector!TypeOK /\ JobOK

LEMMA TypeInit == ASSUME OneDrain, MaxTurns \in Nat PROVE Vector!Init => TypeInv
<1> SUFFICES ASSUME Vector!Init PROVE TypeInv
  OBVIOUS
<1>1. VectorInv
  BY VectorInit
<1>2. Vector!TypeOK
  BY DEF Vector!Init, Vector!TypeOK, Vector!NoRow
<1>3. JobOK
  BY DEF Vector!Init, JobOK, Vector!Idle
<1> QED
  BY <1>1, <1>2, <1>3 DEF TypeInv

\* What the write of a belief changes, and that a job that runs goes on.
BeliefTyped ==
    /\ standing \in [Beliefs -> {"absent", "active", "retracted"}]
    /\ text \in [Vector!Targets -> 0 .. MaxTurns \cup {1}]
    /\ vec \in [Vector!Targets -> [of : 0 .. MaxTurns \cup {1}, tag : Models \cup {"none", "null"},
                                  by : Models \cup {"none", "null"}]]
    /\ job \in [Vector!Targets -> {"none", "pending", "running", "done", "failed"}]
    /\ cooling \in BOOLEAN
    /\ kept \subseteq Beliefs
    /\ \A w \in Workers :
           at[w].do \in {"embed", "return"} => job[at[w].target] = "running"

LEMMA TypeWritten ==
    ASSUME OneDrain, Vector!TypeOK, JobOK, NEW b \in Beliefs, NEW n \in 0 .. MaxTurns \cup {1},
           NEW deferred \in BOOLEAN, Vector!WriteBelief(b, n, deferred), UNCHANGED at
    PROVE  BeliefTyped'
<1>1. /\ standing' \in [Beliefs -> {"absent", "active", "retracted"}]
      /\ text' \in [Vector!Targets -> 0 .. MaxTurns \cup {1}] /\ cooling' \in BOOLEAN
      /\ kept' \subseteq Beliefs
  BY DEF Vector!WriteBelief, Vector!AfterRequest, Vector!TypeOK, Vector!Targets
<1>2. /\ \/ vec' = vec
         \/ (Vector!Outcome = "vector" /\ vec' = [vec EXCEPT ![b] = Vector!Row(n, Vector!ModelTag, model)])
      /\ job' = job \/ (job[b] # "running" /\ job' = [job EXCEPT ![b] = "pending"])
  BY DEF Vector!WriteBelief, Vector!WriteVector, Vector!Enqueue
<1>3. vec' \in [Vector!Targets -> [of : 0 .. MaxTurns \cup {1}, tag : Models \cup {"none", "null"},
                            by : Models \cup {"none", "null"}]]
  BY <1>2, Answers DEF Vector!TypeOK, Vector!Row
<1>4. /\ job' \in [Vector!Targets -> {"none", "pending", "running", "done", "failed"}]
      /\ \A t \in Vector!Targets : job[t] = "running" => job'[t] = "running"
  BY <1>2 DEF Vector!TypeOK
<1> QED
  BY <1>1, <1>3, <1>4 DEF BeliefTyped, JobOK

\* The steps outside the drain.
LEMMA TypeOutside ==
    ASSUME OneDrain, MaxTurns \in Nat, TypeInv,
           \/ Vector!CooldownOver \/ Vector!Query \/ Vector!EndpointFails \/ Vector!EndpointReturns
           \/ \E b \in Beliefs : Vector!InsertBelief(b) \/ Vector!Retract(b) \/ Vector!PruneRetracted(b)
           \/ \E s \in Summaries : Vector!Observe(s)
           \/ Vector!EmbedderMismatchHeal
           \/ \E m \in Models : Vector!Restart(m)
    PROVE  Vector!TypeOK' /\ JobOK'
<1>1. Vector!TypeOK /\ JobOK
  BY DEF TypeInv
<1>2. CASE Vector!CooldownOver \/ Vector!Query \/ Vector!EndpointFails \/ Vector!EndpointReturns
  BY <1>1, <1>2 DEF Vector!CooldownOver, Vector!Query, Vector!EndpointFails,
     Vector!EndpointReturns, Vector!AfterRequest,
                    Vector!TypeOK, JobOK
<1>3. ASSUME NEW b \in Beliefs, Vector!InsertBelief(b) PROVE Vector!TypeOK' /\ JobOK'
  <2>1. PICK deferred \in BOOLEAN : Vector!WriteBelief(b, 1, deferred)
    BY <1>3 DEF Vector!InsertBelief
  <2>2. UNCHANGED <<turns, at, model, live, endpoint>>
    BY <1>3 DEF Vector!InsertBelief
  <2>3. BeliefTyped'
    BY <1>1, <2>1, <2>2, TypeWritten
  <2> QED
    BY <1>1, <2>2, <2>3 DEF BeliefTyped, Vector!TypeOK, JobOK
<1>4. ASSUME NEW b \in Beliefs, Vector!Retract(b) \/ Vector!PruneRetracted(b) PROVE Vector!TypeOK' /\ JobOK'
  BY <1>1, <1>4 DEF Vector!Retract, Vector!PruneRetracted, Vector!NoRow, Vector!TypeOK, JobOK
<1>5. ASSUME NEW s \in Summaries, Vector!Observe(s) PROVE Vector!TypeOK' /\ JobOK'
  BY <1>1, <1>5 DEF Vector!Observe, Vector!TypeOK, JobOK
<1>6. CASE Vector!EmbedderMismatchHeal
  <2>1. /\ job' \in [Vector!Targets -> {"none", "pending", "running", "done", "failed"}]
        /\ \A t \in Vector!Targets : job[t] = "running" => job'[t] = "running"
    BY <1>1, <1>6 DEF Vector!EmbedderMismatchHeal, Vector!Enqueue, Vector!TypeOK
  <2> QED
    BY <1>1, <1>6, <2>1 DEF Vector!EmbedderMismatchHeal, Vector!TypeOK, JobOK
<1>7. ASSUME NEW m \in Models, Vector!Restart(m) PROVE Vector!TypeOK' /\ JobOK'
  BY <1>1, <1>7 DEF Vector!Restart, Vector!Idle, Vector!TypeOK, JobOK
<1> QED
  BY <1>2, <1>3, <1>4, <1>5, <1>6, <1>7

\* The steps of the drain.
LEMMA TypeWork ==
    ASSUME OneDrain, MaxTurns \in Nat, TypeInv, NEW w \in Workers, Vector!Work(w)
    PROVE  Vector!TypeOK' /\ JobOK'
<1>1. Vector!TypeOK /\ JobOK /\ VectorInv /\ (\A v \in Workers : v = w)
  BY DEF TypeInv, OneDrain
<1>2. at = [v \in Workers |-> at[v]]
  BY <1>1 DEF VectorInv
<1>3. ASSUME NEW s \in Summaries, Vector!SummarizeRead(w, s) PROVE Vector!TypeOK' /\ JobOK'
  <2>1. at'[w] = [do |-> "summarize", target |-> s, of |-> turns[s]]
    BY <1>2, <1>3 DEF Vector!SummarizeRead
  <2> QED
    BY <1>1, <1>3, <2>1 DEF Vector!SummarizeRead, Vector!TypeOK, JobOK
<1>4. CASE Vector!SummarizeWrite(w)
  <2> PICK s, n : s = at[w].target /\ n = at[w].of
    OBVIOUS
  <2>1. s \in Summaries /\ n \in 0 .. MaxTurns /\ at'[w] = Vector!Idle
    BY <1>1, <1>2, <1>4 DEF Vector!SummarizeWrite, VectorInv, JobHoldsText, JobOK
  <2>2. /\ text' = [text EXCEPT ![s] = n]
        /\ vec' = [vec EXCEPT ![s] = IF Vector!Outcome = "vector" THEN Vector!Row(n, Vector!ModelTag, model)
                                     ELSE Vector!Blank]
        /\ cooling' \in BOOLEAN
        /\ UNCHANGED <<standing, turns, job, model, live, endpoint, kept>>
    BY <1>1, <1>4 DEF Vector!SummarizeWrite, Vector!AfterRequest, Vector!TypeOK
  <2>3. vec' \in [Vector!Targets -> [of : 0 .. MaxTurns \cup {1}, tag : Models \cup {"none", "null"},
                              by : Models \cup {"none", "null"}]]
    <3> DEFINE Rows == [of : 0 .. MaxTurns \cup {1}, tag : Models \cup {"none", "null"},
                        by : Models \cup {"none", "null"}]
    <3>1. (IF Vector!Outcome = "vector" THEN Vector!Row(n, Vector!ModelTag, model) ELSE Vector!Blank) \in Rows
      BY <1>1, <2>1, Answers DEF Vector!TypeOK, Vector!Row, Vector!Blank
    <3> QED
      BY <1>1, <2>2, <3>1 DEF Vector!TypeOK
  <2> QED
    BY <1>1, <2>1, <2>2, <2>3 DEF Vector!TypeOK, JobOK, Vector!Idle
<1>5. ASSUME NEW t \in Vector!Targets, Vector!Resolve(w, t) PROVE Vector!TypeOK' /\ JobOK'
  <2>1. at'[w].do \in {"return", "embed"} /\ at'[w].target = t
    BY <1>2, <1>5 DEF Vector!Resolve
  <2> QED
    BY <1>1, <1>5, <2>1 DEF Vector!Resolve, Vector!TypeOK, JobOK
<1>6. CASE Vector!EmbedAnswered(w)
  <2> PICK t, n : t = at[w].target /\ n = at[w].of
    OBVIOUS
  <2>1. t \in Vector!Targets /\ n \in 0 .. MaxTurns \cup {1} /\ at'[w] = Vector!Idle
    BY <1>1, <1>2, <1>6 DEF Vector!EmbedAnswered, VectorInv, JobHoldsText, Vector!TypeOK
  <2>2. vec' \in [Vector!Targets -> [of : 0 .. MaxTurns \cup {1}, tag : Models \cup {"none", "null"},
                              by : Models \cup {"none", "null"}]]
    BY <1>1, <1>6, <2>1 DEF Vector!EmbedAnswered, Vector!StoreVector, Vector!TypeOK, Vector!Row
  <2>3. job' \in [Vector!Targets -> {"none", "pending", "running", "done", "failed"}]
    BY <1>1, <1>6 DEF Vector!EmbedAnswered, Vector!TypeOK
  <2>4. JobOK'
    BY <1>1, <2>1 DEF JobOK, Vector!Idle
  <2> QED
    BY <1>1, <1>6, <2>2, <2>3, <2>4 DEF Vector!EmbedAnswered, Vector!TypeOK
<1>7. CASE Vector!EmbedDeferred(w) \/ Vector!EmbedRefused(w) \/ Vector!EmbedReturn(w)
  <2>1. at'[w] = Vector!Idle /\ UNCHANGED <<standing, text, turns, vec, model, endpoint, kept>>
    BY <1>2, <1>7 DEF Vector!EmbedDeferred, Vector!EmbedRefused, Vector!EmbedReturn
  <2>2. /\ job' \in [Vector!Targets -> {"none", "pending", "running", "done", "failed"}]
        /\ live' \in BOOLEAN /\ cooling' \in BOOLEAN
    <3>1. CASE Vector!EmbedDeferred(w)
      BY <1>1, <3>1 DEF Vector!EmbedDeferred, Vector!TypeOK, Vector!Found
    <3>2. CASE Vector!EmbedRefused(w)
      BY <1>1, <3>2 DEF Vector!EmbedRefused, Vector!TypeOK, Vector!Found
    <3>3. CASE Vector!EmbedReturn(w)
      BY <1>1, <3>3 DEF Vector!EmbedReturn, Vector!TypeOK
    <3> QED
      BY <1>7, <3>1, <3>2, <3>3
  <2> QED
    BY <1>1, <2>1, <2>2 DEF Vector!TypeOK, JobOK, Vector!Idle
<1>8. ASSUME NEW b \in Beliefs, Vector!Restate(w, b) PROVE Vector!TypeOK' /\ JobOK'
  <2>1. /\ Vector!WriteBelief(b, text[b] + 1, FALSE) /\ text[b] < MaxTurns
        /\ UNCHANGED <<turns, at, model, live, endpoint>>
    BY <1>8 DEF Vector!Restate
  <2>2. text[b] \in 0 .. MaxTurns \cup {1}
    BY <1>1 DEF Vector!TypeOK, Vector!Targets
  <2>3. text[b] + 1 \in 0 .. MaxTurns \cup {1}
    BY <2>1, <2>2
  <2>4. BeliefTyped'
    BY <1>1, <2>1, <2>3, TypeWritten
  <2> QED
    BY <1>1, <2>1, <2>4 DEF BeliefTyped, Vector!TypeOK, JobOK
<1> QED
  BY <1>3, <1>4, <1>5, <1>6, <1>7, <1>8 DEF Vector!Work

LEMMA TypeStep ==
    ASSUME OneDrain, Settled, MaxTurns \in Nat, TypeInv, [Vector!Next]_(Vector!vars) PROVE TypeInv'
<1>1. VectorInv'
  BY VectorStep DEF TypeInv
<1>2. CASE UNCHANGED Vector!vars
  BY <1>2 DEF Vector!vars, TypeInv, Vector!TypeOK, JobOK, VectorInv, JobHoldsText, RowTrue
<1>3. CASE Vector!Next
  <2>1. Vector!TypeOK' /\ JobOK'
    BY <1>3, TypeOutside, TypeWork DEF Vector!Next
  <2> QED
    BY <1>1, <2>1 DEF TypeInv
<1> QED
  BY <1>2, <1>3

\* Every belief's text can be rebuilt, and a belief that was pruned is not
\* written again: with either, a job may find nothing to embed and end.
OneLife ==
    /\ MaxTurns \in Nat
    /\ Beliefs \cap Lost = {}
    /\ MaxReasserts = 0

\* A belief that was never written has no job; one that is active has a text,
\* and is without vector and job only when credentials were refused.  A drain
\* that leaves an active belief as it is has found its vector.
BeliefOK(b) ==
    /\ text[b] = 0 => standing[b] = "absent" /\ job[b] = "none"
    /\ Vector!Hole(b) => b \in refused

ReturnOK ==
    \A w \in Workers : LET t == at[w].target IN
        at[w].do = "return" /\ t \in Beliefs /\ standing[t] = "active" =>
            vec[t] # Vector!NoRow \/ t \in refused

HoleInv ==
    /\ spent \in [outages : Int, switches : Int, reasserts : {0}]
    /\ ReturnOK
    /\ \A b \in Beliefs : BeliefOK(b)

LEMMA HoleInit == ASSUME OneDrain, OneLife PROVE Vector!Init => HoleInv
<1> SUFFICES ASSUME Vector!Init PROVE HoleInv
  OBVIOUS
<1>1. \A b \in Beliefs : text[b] = 0 /\ standing[b] = "absent" /\ job[b] = "none"
  BY DEF Vector!Init, Vector!Targets
<1>2. \A w \in Workers : at[w].do = "idle"
  BY DEF Vector!Init, Vector!Idle
<1>3. spent \in [outages : Int, switches : Int, reasserts : {0}]
  BY DEF Vector!Init
<1> QED
  BY <1>1, <1>2, <1>3 DEF HoleInv, BeliefOK, Vector!Hole, ReturnOK

\* A vector of the model being served is a vector.
LEMMA RowIsARow == ASSUME OneDrain, model \in Models, NEW n PROVE Vector!Row(n, model, model) # Vector!NoRow
BY DEF OneDrain, Vector!Row, Vector!NoRow

\* A belief is written with a vector, with a job for one, or it is refused.
LEMMA WrittenNoHole ==
    ASSUME OneDrain, Vector!TypeOK, NEW b \in Beliefs, NEW n \in Nat \ {0}, NEW deferred \in BOOLEAN,
           Vector!WriteBelief(b, n, deferred)
    PROVE  /\ BeliefOK(b)' /\ refused \subseteq refused'
           /\ \A c \in Beliefs \ {b} : /\ text'[c] = text[c] /\ standing'[c] = standing[c]
                                     /\ vec'[c] = vec[c] /\ job'[c] = job[c]
<1> DEFINE row == Vector!Row(n, Vector!ModelTag, model)
<1>1. Vector!Outcome = "vector" => row # Vector!NoRow
  BY Answers, RowIsARow DEF Vector!TypeOK
<1>2. Vector!Outcome \in {"unavailable", "vector", "error"}
  BY DEF Vector!Outcome
<1> HIDE DEF row
<1>3. /\ text' = [text EXCEPT ![b] = n] /\ standing' = [standing EXCEPT ![b] = "active"]
      /\ refused \subseteq refused'
      /\ \/ vec' = vec /\ job' = Vector!Enqueue(job, b)
         \/ job' = job /\ vec' = [vec EXCEPT ![b] = row] /\ row # Vector!NoRow
         \/ job' = job /\ vec' = vec /\ b \in refused'
  <2>1. CASE deferred \/ Vector!Outcome = "unavailable"
    BY <2>1 DEF Vector!WriteBelief, Vector!WriteVector
  <2>2. CASE ~deferred /\ Vector!Outcome # "unavailable"
    BY <1>1, <1>2, <2>2 DEF Vector!WriteBelief, Vector!WriteVector, row
  <2> QED
    BY <2>1, <2>2
<1>4. \A c \in Beliefs \ {b} : /\ text'[c] = text[c] /\ standing'[c] = standing[c]
                               /\ vec'[c] = vec[c] /\ job'[c] = job[c]
  BY <1>3 DEF Vector!TypeOK, Vector!Targets, Vector!Enqueue
<1>5. BeliefOK(b)'
  BY <1>3 DEF Vector!TypeOK, Vector!Targets, Vector!Enqueue, BeliefOK, Vector!Hole
<1> QED
  BY <1>3, <1>4, <1>5

LEMMA HoleInsert ==
    ASSUME OneDrain, OneLife, TypeInv, HoleInv, NEW b \in Beliefs, Vector!InsertBelief(b)
    PROVE  HoleInv'
<1>1. Vector!TypeOK /\ VectorInv /\ JobOK /\ b \in Vector!Targets
  BY DEF TypeInv, Vector!Targets
<1>2. text[b] = 0 /\ UNCHANGED <<spent, at>>
  <2>1. spent.reasserts = 0 /\ spent \in [outages : Int, switches : Int, reasserts : {0}]
    BY DEF HoleInv
  <2>2. text[b] = 0
    BY <2>1 DEF Vector!InsertBelief, OneLife
  <2> QED
    BY <2>1, <2>2 DEF Vector!InsertBelief
<1>3. standing[b] = "absent" /\ job[b] = "none"
  BY <1>2 DEF HoleInv, BeliefOK
<1>4. PICK deferred \in BOOLEAN : Vector!WriteBelief(b, 1, deferred)
  BY DEF Vector!InsertBelief
<1>5. /\ BeliefOK(b)' /\ refused \subseteq refused'
      /\ \A c \in Beliefs \ {b} : /\ text'[c] = text[c] /\ standing'[c] = standing[c]
                                /\ vec'[c] = vec[c] /\ job'[c] = job[c]
  BY <1>1, <1>4, WrittenNoHole
<1>7. \A c \in Beliefs \ {b} : BeliefOK(c)'
  BY <1>5 DEF HoleInv, BeliefOK, Vector!Hole
<1>8. ReturnOK'
  <2> SUFFICES ASSUME NEW w \in Workers, at[w].do = "return", at[w].target \in Beliefs,
                      standing'[at[w].target] = "active"
               PROVE  vec'[at[w].target] # Vector!NoRow \/ at[w].target \in refused'
    BY <1>2 DEF ReturnOK
  <2>1. at[w].target # b
    BY <1>1, <1>3 DEF JobOK
  <2> QED
    BY <1>5, <2>1 DEF HoleInv, ReturnOK
<1> QED
  BY <1>2, <1>5, <1>7, <1>8 DEF HoleInv

\* The other steps outside the drain.
LEMMA HoleOutside ==
    ASSUME OneDrain, OneLife, TypeInv, HoleInv,
           \/ Vector!CooldownOver \/ Vector!Query \/ Vector!EndpointFails \/ Vector!EndpointReturns
           \/ \E b \in Beliefs : Vector!Retract(b) \/ Vector!PruneRetracted(b)
           \/ \E s \in Summaries : Vector!Observe(s)
           \/ Vector!EmbedderMismatchHeal
           \/ \E m \in Models : Vector!Restart(m)
           \/ UNCHANGED Vector!vars
    PROVE  HoleInv'
<1>1. Vector!TypeOK
  BY DEF TypeInv
<1>2. CASE \/ Vector!CooldownOver
            \/ Vector!Query
            \/ Vector!EndpointReturns
            \/ (\E s \in Summaries : Vector!Observe(s))
            \/ UNCHANGED Vector!vars
  <2>1. UNCHANGED <<standing, text, vec, job, at, refused, spent>>
    BY <1>2 DEF Vector!CooldownOver, Vector!Query, Vector!EndpointReturns, Vector!Observe,
       Vector!vars
  <2> QED
    BY <2>1 DEF HoleInv, BeliefOK, Vector!Hole, ReturnOK
<1>3. CASE Vector!EndpointFails
  <2>1. UNCHANGED <<standing, text, vec, job, at, refused>>
        /\ spent' \in [outages : Int, switches : Int, reasserts : {0}]
    BY <1>3 DEF Vector!EndpointFails, HoleInv
  <2> QED
    BY <2>1 DEF HoleInv, BeliefOK, Vector!Hole, ReturnOK
<1>4. ASSUME NEW b \in Beliefs, Vector!Retract(b) \/ Vector!PruneRetracted(b) PROVE HoleInv'
  <2>1. /\ standing' = [standing EXCEPT ![b] = standing'[b]]
        /\ vec' = [vec EXCEPT ![b] = Vector!NoRow]
        /\ standing[b] # "absent" /\ standing'[b] # "active"
        /\ UNCHANGED <<text, job, at, refused, spent>>
    BY <1>1, <1>4 DEF Vector!Retract, Vector!PruneRetracted, Vector!TypeOK
  <2>2. \A c \in Beliefs \ {b} : standing'[c] = standing[c] /\ vec'[c] = vec[c]
    BY <1>1, <2>1 DEF Vector!TypeOK, Vector!Targets
  <2>3. \A c \in Beliefs : BeliefOK(c)'
    BY <2>1, <2>2 DEF HoleInv, BeliefOK, Vector!Hole
  <2>4. ReturnOK'
    BY <2>1, <2>2 DEF HoleInv, ReturnOK
  <2> QED
    BY <2>1, <2>3, <2>4 DEF HoleInv
<1>5. CASE Vector!EmbedderMismatchHeal
  <2>1. \A b \in Beliefs : /\ job[b] \in {"pending", "running"} => job'[b] = job[b]
                           /\ text[b] = 0 => job'[b] = job[b]
    BY <1>1, <1>5 DEF Vector!EmbedderMismatchHeal, Vector!Enqueue, Vector!TypeOK,
       Vector!VectorText, Vector!Targets
  <2> QED
    BY <1>5, <2>1 DEF Vector!EmbedderMismatchHeal, HoleInv, BeliefOK, Vector!Hole, ReturnOK
<1>6. ASSUME NEW m \in Models, Vector!Restart(m) PROVE HoleInv'
  <2>1. /\ \A b \in Beliefs : job'[b] = IF job[b] = "running" THEN "pending" ELSE job[b]
        /\ \A w \in Workers : at'[w].do = "idle"
        /\ spent' \in [outages : Int, switches : Int, reasserts : {0}]
        /\ UNCHANGED <<standing, text, vec, refused>>
    BY <1>6 DEF Vector!Restart, Vector!Idle, HoleInv, Vector!Targets
  <2> QED
    BY <2>1 DEF HoleInv, BeliefOK, Vector!Hole, ReturnOK
<1> QED
  BY <1>2, <1>3, <1>4, <1>5, <1>6

\* The steps of the drain: a job of an active belief ends with a vector, with a
\* refusal, or with what it found.
LEMMA HoleWork ==
    ASSUME OneDrain, OneLife, TypeInv, HoleInv, NEW w \in Workers, Vector!Work(w)
    PROVE  HoleInv'
<1>1. Vector!TypeOK /\ JobOK /\ VectorInv /\ (\A v \in Workers : v = w)
  BY DEF TypeInv, OneDrain
<1>2. at = [v \in Workers |-> at[v]]
  BY <1>1 DEF VectorInv
<1>3. ASSUME NEW s \in Summaries, Vector!SummarizeRead(w, s) PROVE HoleInv'
  <2>1. at'[w].do = "summarize" /\ UNCHANGED <<standing, text, vec, job, refused, spent>>
    BY <1>2, <1>3 DEF Vector!SummarizeRead
  <2> QED
    BY <1>1, <2>1 DEF HoleInv, BeliefOK, Vector!Hole, ReturnOK
<1>4. CASE Vector!SummarizeWrite(w)
  <2> PICK s, n : s = at[w].target /\ n = at[w].of
    OBVIOUS
  <2>1. s \in Summaries /\ at'[w] = Vector!Idle /\ UNCHANGED <<standing, job, refused, spent>>
    BY <1>1, <1>2, <1>4 DEF Vector!SummarizeWrite, VectorInv, JobHoldsText
  <2>2. text' = [text EXCEPT ![s] = n] /\ vec' = [vec EXCEPT ![s] = vec'[s]]
    BY <1>1, <1>4, <2>1 DEF Vector!SummarizeWrite, Vector!TypeOK, Vector!Targets
  <2>3. \A b \in Beliefs : text'[b] = text[b] /\ vec'[b] = vec[b]
    BY <1>1, <2>1, <2>2 DEF OneDrain, Vector!TypeOK, Vector!Targets
  <2> QED
    BY <1>1, <2>1, <2>3 DEF HoleInv, BeliefOK, Vector!Hole, ReturnOK, Vector!Idle
<1>5. ASSUME NEW t \in Vector!Targets, Vector!Resolve(w, t) PROVE HoleInv'
  <2>1. /\ at'[w].do \in {"return", "embed"} /\ at'[w].target = t
        /\ at'[w].do = "return" => Vector!AlreadyCurrent(t) \/ Vector!VectorText(t) = 0
        /\ job[t] = "pending" /\ job' = [job EXCEPT ![t] = "running"]
        /\ UNCHANGED <<standing, text, vec, refused, spent>>
    BY <1>2, <1>5 DEF Vector!Resolve
  <2>2. t \in Beliefs /\ standing[t] = "active" /\ at'[w].do = "return" => vec[t] # Vector!NoRow
    BY <2>1 DEF OneLife, Vector!AlreadyCurrent, Vector!VectorText, HoleInv, BeliefOK
  <2>3. ReturnOK'
    BY <1>1, <2>1, <2>2 DEF ReturnOK
  <2>4. \A b \in Beliefs : BeliefOK(b)'
    BY <1>1, <2>1 DEF HoleInv, BeliefOK, Vector!Hole, Vector!TypeOK
  <2> QED
    BY <2>1, <2>3, <2>4 DEF HoleInv
<1>6. CASE Vector!EmbedAnswered(w)
  <2> PICK t, n : t = at[w].target /\ n = at[w].of
    OBVIOUS
  <2>1. /\ t \in Vector!Targets /\ job[t] = "running"
        /\ at'[w] = Vector!Idle /\ Vector!Row(n, model, model) # Vector!NoRow
        BY <1>1, <1>2, <1>6, RowIsARow DEF Vector!EmbedAnswered, JobOK, Vector!TypeOK
  <2>2. /\ job' = [job EXCEPT ![t] = "done"] /\ UNCHANGED <<standing, text, refused, spent>>
        /\ \/ vec' = vec /\ t \in Summaries
           \/ vec' = [vec EXCEPT ![t] = Vector!Row(n, model, model)]
    BY <1>6 DEF Vector!EmbedAnswered, Vector!StoreVector
  <2>3. \A b \in Beliefs : IF b = t THEN vec'[b] # Vector!NoRow
                           ELSE vec'[b] = vec[b] /\ job'[b] = job[b]
    BY <1>1, <2>1, <2>2 DEF OneDrain, Vector!TypeOK, Vector!Targets
  <2>4. \A b \in Beliefs : BeliefOK(b)'
    BY <2>1, <2>2, <2>3 DEF HoleInv, BeliefOK, Vector!Hole
  <2>5. ReturnOK'
    BY <1>1, <2>1 DEF ReturnOK, Vector!Idle
  <2> QED
    BY <2>2, <2>4, <2>5 DEF HoleInv
<1>7. CASE Vector!EmbedDeferred(w) \/ Vector!EmbedRefused(w) \/ Vector!EmbedReturn(w)
  <2> PICK t : t = at[w].target
    OBVIOUS
  <2>1. t \in Vector!Targets /\ job[t] = "running" /\ at'[w] = Vector!Idle
        /\ UNCHANGED <<standing, text, vec, spent>>
    BY <1>1, <1>2, <1>7 DEF Vector!EmbedDeferred, Vector!EmbedRefused, Vector!EmbedReturn, JobOK
  <2>2. /\ job' = [job EXCEPT ![t] = job'[t]] /\ refused \subseteq refused'
        /\ \/ job'[t] = "pending" \/ t \in refused'
           \/ at[w].do = "return"
    BY <1>1, <1>7, <2>1 DEF Vector!EmbedDeferred, Vector!EmbedRefused, Vector!EmbedReturn,
       Vector!TypeOK
  <2>3. \A b \in Beliefs \ {t} : job'[b] = job[b]
    BY <1>1, <2>1, <2>2 DEF Vector!TypeOK, Vector!Targets
  <2>4. \A b \in Beliefs : BeliefOK(b)'
    BY <1>1, <2>1, <2>2, <2>3 DEF HoleInv, BeliefOK, Vector!Hole, ReturnOK
  <2>5. ReturnOK'
    BY <1>1, <2>1 DEF ReturnOK, Vector!Idle
  <2> QED
    BY <2>1, <2>4, <2>5 DEF HoleInv
<1>8. ASSUME NEW b \in Beliefs, Vector!Restate(w, b) PROVE HoleInv'
  <2>1. /\ Vector!WriteBelief(b, text[b] + 1, FALSE) /\ at[w].do = "idle"
        /\ UNCHANGED <<at, spent>>
    BY <1>8 DEF Vector!Restate
  <2>2. text[b] + 1 \in Nat \ {0}
    <3>1. text[b] \in Nat
      BY <1>1 DEF VectorInv, RowTrue, Vector!Targets
    <3> QED
      BY <3>1
  <2>3. /\ BeliefOK(b)' /\ refused \subseteq refused'
        /\ \A c \in Beliefs \ {b} : /\ text'[c] = text[c] /\ standing'[c] = standing[c]
                                  /\ vec'[c] = vec[c] /\ job'[c] = job[c]
    BY <1>1, <2>1, <2>2, WrittenNoHole
  <2>4. \A c \in Beliefs : BeliefOK(c)'
    BY <2>3 DEF HoleInv, BeliefOK, Vector!Hole
  <2>5. ReturnOK'
    BY <1>1, <2>1 DEF ReturnOK
  <2> QED
    BY <2>1, <2>4, <2>5 DEF HoleInv
<1> QED
  BY <1>3, <1>4, <1>5, <1>6, <1>7, <1>8 DEF Vector!Work

\* A vector under the tag of the model being served is of the text its row has,
\* and of that model, whatever the endpoint did, however often the model was
\* switched and back, and whatever was written while a request was out: no later
\* pass would look at that row again (curation._task_embed, the reducer's
\* writes, health._embedder_mismatch).  The one vector of another text is that of
\* a belief written anew under its id when no vector was to be had (kept): the
\* reducer leaves the old one there, and its tag passes for done.
THEOREM CurrentVectorsAreTrue ==
    ASSUME OneDrain, Settled
    PROVE  Vector!Spec => [](Vector!HonestTag /\ Vector!CurrentIsTrue)
<1>1. VectorInv => Vector!HonestTag /\ Vector!CurrentIsTrue
  BY DEF VectorInv, RowTrue, Vector!HonestTag, Vector!CurrentIsTrue
<1> QED
  BY <1>1, VectorInit, VectorStep, PTL DEF Vector!Spec

\* The same with the types, and of the vectors that are missing: an active
\* belief has a vector or a job that will write one, unless the endpoint refused
\* the credentials when the vector was asked for.  No restart, outage or switch
\* of model in between makes a hole no later pass looks for; writing a pruned
\* belief again does, when its old job is still under way.
THEOREM VectorsAreHonest ==
    ASSUME OneDrain, OneLife
    PROVE  Vector!Spec => []CurrentIsTrue
<1>1. Vector!Init => TypeInv /\ HoleInv
  BY TypeInit, HoleInit DEF OneLife
<1>2. TypeInv /\ HoleInv /\ [Vector!Next]_(Vector!vars) => TypeInv' /\ HoleInv'
  <2> SUFFICES ASSUME TypeInv, HoleInv, [Vector!Next]_(Vector!vars) PROVE TypeInv' /\ HoleInv'
    OBVIOUS
  <2>1. TypeInv'
    BY TypeStep DEF OneLife, Settled
  <2>2. HoleInv'
    BY HoleInsert, HoleOutside, HoleWork DEF Vector!Next
  <2> QED
    BY <2>1, <2>2
<1>3. TypeInv /\ HoleInv => CurrentIsTrue
  BY DEF CurrentIsTrue, TypeInv, VectorInv, RowTrue, Vector!HonestTag, Vector!CurrentIsTrue, HoleInv, BeliefOK,
     Vector!OnlyRefusedHoles
<1> QED
  BY <1>1, <1>2, <1>3, PTL DEF Vector!Spec
=============================================================================
