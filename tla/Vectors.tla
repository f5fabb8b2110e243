------------------------------ MODULE Vectors ------------------------------
(***************************************************************************)
(* Vectors and what they are vectors of.                                   *)
(*                                                                         *)
(* A belief is embedded when the reducer writes it and a session when its  *)
(* summary is written.  When the embedding endpoint does not answer the    *)
(* text is stored without a vector and an embed job is queued; a worker    *)
(* reads the text again, embeds it outside any transaction and writes the  *)
(* vector under the tag of the model that made it.  Health requeues rows   *)
(* whose tag is not the one being served, a budget of jobs at a time.      *)
(*                                                                         *)
(* The embedder is one object per process.  Its client stops calling a     *)
(* failing endpoint for a cooldown (OpenAICompatEmbedder), its stand-in    *)
(* looks for a server at most once per interval (DegradedEmbedder): both   *)
(* are the flag "cooling" here.  A text is the number of its version.      *)
(***************************************************************************)
EXTENDS Integers, FiniteSets, Sequences

CONSTANTS
    Beliefs,        \* beliefs with a vector, the reducer writes them
    Sessions,       \* sessions with a summary
    Lost,           \* beliefs whose embedded text the store cannot rebuild
    Restated,       \* beliefs whose id leaves their text out: a note about a subject
    Order,          \* every target once, in the order the heal scans them
    Workers,        \* drains running at once, one per process
    Models,         \* models the operator configures
    Budget,         \* most embed jobs the heal lets the queue hold
    MaxTurns,       \* bound: texts a target goes through
    MaxOutages,     \* bound: how often the endpoint goes away
    MaxSwitches,    \* bound: restarts with a model of the operator's choice
    MaxReasserts    \* bound: beliefs written again after they were pruned

VARIABLES
    standing,       \* belief -> absent, active or retracted
    text,           \* target -> version of its text, 0 when there is none
    turns,          \* session -> what its transcript holds by now
    vec,            \* target -> [of, tag, by], or NoRow
    job,            \* target -> state of its embed job
    at,             \* worker -> what its handler is doing
    model,          \* the model the process serves
    live,           \* the embedder has found its endpoint
    cooling,        \* no request (or no probe) is made for now
    endpoint,       \* up, down or locked (it refuses the credentials)
    refused,        \* beliefs whose vector was lost to refused credentials
    kept,           \* history: beliefs written anew that kept the vector of their old text
    spent           \* outages, switches and reasserts so far

vars == <<standing, text, turns, vec, job, at, model, live, cooling, endpoint, refused, kept, spent>>

Targets == Beliefs \cup Sessions

NoRow == [of |-> 0, tag |-> "none", by |-> "none"]
Blank == [of |-> 0, tag |-> "null", by |-> "null"]
Idle == [do |-> "idle"]

Row(n, tag, by) == [of |-> n, tag |-> tag, by |-> by]

----------------------------------------------------------------------------
(* The embedder *)

(* The tag names the model that answers, or a stand-in that has none.       *)
ModelTag == IF live THEN model ELSE "degraded"
Usable(tag) == tag \in Models

(* What one request comes to: an answer, a failure the caller is to queue  *)
(* (EmbeddingsUnavailable), or an error it is not told to retry.           *)
Outcome ==
    IF ~live \/ cooling \/ endpoint = "down" THEN "unavailable"
    ELSE IF endpoint = "up" THEN "vector" ELSE "error"

(* A request that was made and failed opens the breaker; an answer and a   *)
(* refused credential leave it closed, and no request is made while open.  *)
AfterRequest == cooling' = (cooling \/ (live /\ endpoint = "down"))

(* The interval before the next probe, or the cooldown, has passed.        *)
CooldownOver ==
    /\ cooling
    /\ cooling' = FALSE
    /\ UNCHANGED <<standing, text, turns, vec, job, at, model, live, endpoint, refused, kept, spent>>

(* Somebody else's request: a query. *)
Query ==
    /\ live /\ ~cooling
    /\ AfterRequest
    /\ UNCHANGED <<standing, text, turns, vec, job, at, model, live, endpoint, refused, kept, spent>>

EndpointFails ==
    /\ endpoint = "up"
    /\ spent.outages < MaxOutages
    /\ endpoint' \in {"down", "locked"}
    /\ spent' = [spent EXCEPT !.outages = @ + 1]
    /\ UNCHANGED <<standing, text, turns, vec, job, at, model, live, cooling, refused, kept>>

EndpointReturns ==
    /\ endpoint # "up"
    /\ endpoint' = "up"
    /\ UNCHANGED <<standing, text, turns, vec, job, at, model, live, cooling, refused, kept, spent>>

----------------------------------------------------------------------------
(* The queue, one job per text a target ever had *)

(* A finished job is armed again, a queued or running one stands for both. *)
Enqueue(jobs, t) ==
    IF jobs[t] \in {"pending", "running"} THEN jobs ELSE [jobs EXCEPT ![t] = "pending"]

Backlog == Cardinality({t \in Targets : job[t] \in {"pending", "running"}})

----------------------------------------------------------------------------
(* Writers of texts *)

(* The reducer's write: the vector, or a job for it, with the row.  Inside *)
(* compress() no request is made, the vector is left to the queue.         *)
WriteVector(t, n, deferred) ==
    IF deferred \/ Outcome = "unavailable"
    THEN vec' = vec /\ job' = Enqueue(job, t)
    ELSE /\ job' = job
         /\ vec' = IF Outcome = "vector" THEN [vec EXCEPT ![t] = Row(n, ModelTag, model)] ELSE vec

(* The row is inserted or replaced; a vector there is of the same id stays *)
(* where no other is written, whatever text it is of.                      *)
WriteBelief(b, n, deferred) ==
    /\ standing' = [standing EXCEPT ![b] = "active"]
    /\ text' = [text EXCEPT ![b] = n]
    /\ WriteVector(b, n, deferred)
    /\ IF deferred THEN UNCHANGED cooling ELSE AfterRequest
    /\ refused' = IF Outcome = "error" /\ ~deferred THEN refused \cup {b} ELSE refused
    /\ kept' = IF vec[b] = NoRow \/ (Outcome = "vector" /\ ~deferred)
               THEN kept \ {b} ELSE kept \cup {b}

InsertBelief(b) ==
    /\ standing[b] = "absent"
    /\ text[b] = 0 \/ spent.reasserts < MaxReasserts
    /\ spent' = [spent EXCEPT !.reasserts = IF text[b] = 0 THEN @ ELSE @ + 1]
    /\ \E deferred \in BOOLEAN : WriteBelief(b, 1, deferred)
    /\ UNCHANGED <<turns, at, model, live, endpoint>>

(* A job of the drain writes a belief it wrote before with the text of the *)
(* day: the digest of an entity has one id as long as its anchor stands.   *)
Restate(w, b) ==
    /\ at[w].do = "idle"
    /\ b \in Restated /\ standing[b] = "active" /\ text[b] < MaxTurns
    /\ WriteBelief(b, text[b] + 1, FALSE)
    /\ UNCHANGED <<turns, at, model, live, endpoint, spent>>

(* The status and the vector go in the transaction of the event. *)
Retract(b) ==
    /\ standing[b] = "active"
    /\ standing' = [standing EXCEPT ![b] = "retracted"]
    /\ vec' = [vec EXCEPT ![b] = NoRow]
    /\ kept' = kept \ {b}
    /\ UNCHANGED <<text, turns, job, at, model, live, cooling, endpoint, refused, spent>>

(* Health deletes rows retracted long ago, with what is left of vectors.   *)
PruneRetracted(b) ==
    /\ standing[b] = "retracted"
    /\ standing' = [standing EXCEPT ![b] = "absent"]
    /\ vec' = [vec EXCEPT ![b] = NoRow]
    /\ kept' = kept \ {b}
    /\ UNCHANGED <<text, turns, job, at, model, live, cooling, endpoint, refused, spent>>

Observe(s) ==
    /\ turns[s] < MaxTurns
    /\ turns' = [turns EXCEPT ![s] = @ + 1]
    /\ UNCHANGED <<standing, text, vec, job, at, model, live, cooling, endpoint, refused, kept, spent>>

(* The summarizer reads the transcript ... *)
SummarizeRead(w, s) ==
    /\ at[w].do = "idle"
    /\ turns[s] > text[s]
    /\ at' = [at EXCEPT ![w] = [do |-> "summarize", target |-> s, of |-> turns[s]]]
    /\ UNCHANGED <<standing, text, turns, vec, job, model, live, cooling, endpoint, refused, kept, spent>>

(* Mutant: a summary that could not be embedded keeps the old vector. *)
SummarizeWrite_KeepsVector(w) ==
    /\ at[w].do = "summarize"
    /\ LET s == at[w].target n == at[w].of IN
       /\ text' = [text EXCEPT ![s] = n]
       /\ vec' = IF Outcome = "vector" THEN [vec EXCEPT ![s] = Row(n, ModelTag, model)] ELSE vec
    /\ AfterRequest
    /\ at' = [at EXCEPT ![w] = Idle]
    /\ UNCHANGED <<standing, turns, job, model, live, endpoint, refused, kept, spent>>

(* ... and writes summary, vector and tag as one row, both empty when the  *)
(* summary could not be embedded.                                          *)
SummarizeWrite(w) ==
    /\ at[w].do = "summarize"
    /\ LET s == at[w].target n == at[w].of IN
       /\ text' = [text EXCEPT ![s] = n]
       /\ vec' = [vec EXCEPT ![s] = IF Outcome = "vector" THEN Row(n, ModelTag, model) ELSE Blank]
    /\ AfterRequest
    /\ at' = [at EXCEPT ![w] = Idle]
    /\ UNCHANGED <<standing, turns, job, model, live, endpoint, refused, kept, spent>>

----------------------------------------------------------------------------
(* The embed job *)

(* What the reducer's authority says the text is, 0 when it cannot say. *)
VectorText(t) ==
    IF t \in Lost \/ (t \in Beliefs /\ standing[t] = "absent") THEN 0 ELSE text[t]

AlreadyCurrent(t) == vec[t] # NoRow /\ vec[t].tag = ModelTag

(* A row that is already on the served model, that is gone, or whose text  *)
(* cannot be rebuilt is left as it is.  A retracted row is not gone.       *)
Resolve(w, t) ==
    /\ at[w].do = "idle"
    /\ job[t] = "pending"
    /\ job' = [job EXCEPT ![t] = "running"]
    /\ at' = [at EXCEPT ![w] =
                 [do |-> IF AlreadyCurrent(t) \/ VectorText(t) = 0 THEN "return" ELSE "embed",
                  target |-> t, of |-> VectorText(t)]]
    /\ UNCHANGED <<standing, text, turns, vec, model, live, cooling, endpoint, refused, kept, spent>>

(* A session row is updated, any other row is inserted or replaced. *)
StoreVector(t, n, tag) ==
    vec' = IF t \in Sessions /\ vec[t] = NoRow THEN vec
           ELSE [vec EXCEPT ![t] = Row(n, tag, model)]

(* The backoff path alone looks for a server again. *)
Found == live \/ (~cooling /\ endpoint = "up")
NoAnswer == ~Found \/ (live /\ cooling) \/ endpoint = "down"

EmbedAnswered(w) ==
    /\ at[w].do = "embed" /\ ~NoAnswer /\ endpoint = "up"
    /\ StoreVector(at[w].target, at[w].of, model)
    /\ job' = [job EXCEPT ![at[w].target] = "done"]
    /\ live' = TRUE /\ cooling' = FALSE
    /\ at' = [at EXCEPT ![w] = Idle]
    /\ kept' = kept \ {at[w].target}
    /\ UNCHANGED <<standing, text, turns, model, endpoint, refused, spent>>

(* Deferred without a limit: an outage ends. *)
EmbedDeferred(w) ==
    /\ at[w].do = "embed" /\ NoAnswer
    /\ job' = [job EXCEPT ![at[w].target] = "pending"]
    /\ live' = Found /\ cooling' = TRUE
    /\ at' = [at EXCEPT ![w] = Idle]
    /\ UNCHANGED <<standing, text, turns, vec, model, endpoint, refused, kept, spent>>

(* An error of an endpoint that answers is retried a number of times, then *)
(* the job has failed.                                                     *)
EmbedRefused(w) ==
    /\ at[w].do = "embed" /\ ~NoAnswer /\ endpoint = "locked"
    /\ \E st \in {"pending", "failed"} :
           /\ job' = [job EXCEPT ![at[w].target] = st]
           /\ refused' = IF st = "failed" THEN refused \cup {at[w].target} ELSE refused
    /\ live' = Found
    /\ at' = [at EXCEPT ![w] = Idle]
    /\ UNCHANGED <<standing, text, turns, vec, model, cooling, endpoint, kept, spent>>

EmbedReturn(w) ==
    /\ at[w].do = "return"
    /\ job' = [job EXCEPT ![at[w].target] = "done"]
    /\ at' = [at EXCEPT ![w] = Idle]
    /\ UNCHANGED <<standing, text, turns, vec, model, live, cooling, endpoint, refused, kept, spent>>

----------------------------------------------------------------------------
(* The heal, once per health cycle *)

Mismatched(t) == vec[t] # NoRow /\ vec[t].tag # model

(* The first rows of the scan, as many as the queue has room for; those    *)
(* whose text cannot be rebuilt are passed over.                           *)
Room == IF Backlog < Budget THEN Budget - Backlog ELSE 0
Scanned ==
    LET found == SelectSeq(Order, Mismatched)
    IN  {found[i] : i \in 1..(IF Len(found) < Room THEN Len(found) ELSE Room)}

EmbedderMismatchHeal ==
    /\ Usable(ModelTag)
    /\ LET queued == {t \in Scanned : VectorText(t) # 0 /\ job[t] \notin {"pending", "running"}}
       IN  /\ queued # {}
           /\ job' = [t \in Targets |-> IF t \in queued THEN Enqueue(job, t)[t] ELSE job[t]]
    /\ UNCHANGED <<standing, text, turns, vec, at, model, live, cooling, endpoint, refused, kept, spent>>

(* A restart, with the model of the operator's choice: what was running is *)
(* claimed again.  A named model is kept whether it answers or not, "auto" *)
(* needs an endpoint that answers.                                         *)
Restart(m) ==
    /\ spent.switches < MaxSwitches
    /\ spent' = [spent EXCEPT !.switches = @ + 1]
    /\ model' = m
    /\ at' = [w \in Workers |-> Idle]
    /\ job' = [t \in Targets |-> IF job[t] = "running" THEN "pending" ELSE job[t]]
    /\ live' \in IF endpoint = "up" THEN {TRUE} ELSE BOOLEAN
    /\ cooling' = ~live'
    /\ UNCHANGED <<standing, text, turns, vec, endpoint, refused, kept>>

----------------------------------------------------------------------------
Init ==
    /\ standing = [b \in Beliefs |-> "absent"]
    /\ text = [t \in Targets |-> 0]
    /\ turns = [s \in Sessions |-> 0]
    /\ vec = [t \in Targets |-> NoRow]
    /\ job = [t \in Targets |-> "none"]
    /\ at = [w \in Workers |-> Idle]
    /\ model \in Models
    /\ live \in BOOLEAN
    /\ cooling = ~live
    /\ endpoint = IF live THEN "up" ELSE "down"
    /\ refused = {} /\ kept = {}
    /\ spent = [outages |-> 0, switches |-> 0, reasserts |-> 0]

Work(w) ==
    \/ \E s \in Sessions : SummarizeRead(w, s)
    \/ SummarizeWrite(w)
    \/ \E b \in Beliefs : Restate(w, b)
    \/ \E t \in Targets : Resolve(w, t)
    \/ EmbedAnswered(w)
    \/ EmbedDeferred(w)
    \/ EmbedRefused(w)
    \/ EmbedReturn(w)

Next ==
    \/ CooldownOver
    \/ Query
    \/ EndpointFails
    \/ EndpointReturns
    \/ \E b \in Beliefs : InsertBelief(b) \/ Retract(b) \/ PruneRetracted(b)
    \/ \E s \in Sessions : Observe(s)
    \/ \E w \in Workers : Work(w)
    \/ EmbedderMismatchHeal
    \/ \E m \in Models : Restart(m)

Spec == Init /\ [][Next]_vars

(* Timers expire, an outage ends, health runs every cycle and a worker that *)
(* has something to do goes on; of several jobs the queue takes the oldest. *)
FairSpec ==
    /\ Spec
    /\ WF_vars(CooldownOver)
    /\ WF_vars(EndpointReturns)
    /\ WF_vars(EmbedderMismatchHeal)
    /\ \A w \in Workers :
           /\ WF_vars(SummarizeWrite(w) \/ EmbedAnswered(w) \/ EmbedDeferred(w)
                        \/ EmbedRefused(w) \/ EmbedReturn(w))
           /\ \A t \in Targets : SF_vars(Resolve(w, t))
           /\ \A s \in Sessions : SF_vars(SummarizeRead(w, s))

----------------------------------------------------------------------------
(* Properties *)

TypeOK ==
    /\ standing \in [Beliefs -> {"absent", "active", "retracted"}]
    /\ text \in [Targets -> 0..MaxTurns \cup {1}]
    /\ turns \in [Sessions -> 0..MaxTurns]
    /\ vec \in [Targets -> [of : 0..MaxTurns \cup {1}, tag : Models \cup {"none", "null"},
                            by : Models \cup {"none", "null"}]]
    /\ job \in [Targets -> {"none", "pending", "running", "done", "failed"}]
    /\ model \in Models /\ live \in BOOLEAN /\ cooling \in BOOLEAN
    /\ endpoint \in {"up", "down", "locked"}
    /\ kept \subseteq Beliefs

(* The tag of a vector names the model that made it, whatever the embedder *)
(* was taken for when the job began.                                       *)
HonestTag == \A t \in Targets : vec[t].tag = vec[t].by

(* A row on the served model is never looked at again, so it has to be the *)
(* vector of the text its row has now, or else of a belief that was        *)
(* written anew when no vector was to be had (reducer._insert_belief).     *)
CurrentIsTrue ==
    \A t \in Targets : vec[t].tag = model => vec[t].of = text[t] \/ t \in kept

(* The job such a write queues embeds the text as it now reads             *)
(* (curation.py:791): once it is done the old vector is gone.  It is not,  *)
(* for a row under the served tag is taken to be done already.             *)
EditedIsEmbedded ==
    \A t \in Targets \ refused :
        vec[t].tag = model /\ job[t] \notin {"pending", "running"} => vec[t].of = text[t]

Hole(b) == standing[b] = "active" /\ vec[b] = NoRow /\ job[b] \notin {"pending", "running"}

(* No later pass looks for a vector that is missing: an active belief has  *)
(* a vector or a job that will write one, unless credentials were refused. *)
OnlyRefusedHoles == \A b \in Beliefs : Hole(b) => b \in refused

(* The same without the exception: dropping the vector would leave a hole  *)
(* no later pass looks for (curation._task_embed).                         *)
NoHole == \A b \in Beliefs : ~Hole(b)

(* Every active belief and every summary has the vector of its text, made  *)
(* by the model being served, but for beliefs that kept an old one.        *)
UpToDate ==
    \A t \in Targets \ (Lost \cup kept \cup (refused \cap Beliefs)) :
        (IF t \in Beliefs THEN standing[t] = "active" ELSE text[t] > 0)
            => vec[t] = Row(text[t], model, model)

(* Outages, restarts and switches of model all heal: in the end everything *)
(* is up to date, or the stand-in has not found its endpoint and no job is *)
(* left that would make it look.                                           *)
Converges == <>[](UpToDate \/ (~live /\ Backlog = 0))

(* The stand-in adopts a server that comes up later.                       *)
Adopts == <>[]live

(* What was retracted between capture and retry gets no vector written.    *)
ForgottenStaysOut == \A b \in Beliefs : standing[b] # "active" => vec[b] = NoRow

============================================================================
