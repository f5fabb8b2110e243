------------------------------ MODULE FairDrain ------------------------------
(***************************************************************************)
(* One drain of the curation queue: how a per-turn budget is split over    *)
(* the task classes (drain_quotas and _largest_remainder of                *)
(* engine/store.py) and how CurationWorker.drain of engine/curation.py     *)
(* spends it.                                                              *)
(*                                                                         *)
(* Whether a class has a ready job is decided anew at every claim, so the  *)
(* model covers whatever handlers enqueue and other workers take during    *)
(* the drain.  Shares are whole numbers; the code's doubles are taken to   *)
(* compare as the exact quotients do.                                      *)
(*                                                                         *)
(* An operator X_variant before X is not part of the model: it is a        *)
(* plausible defect of the code behind X, caught by a property.            *)
(***************************************************************************)
EXTENDS Integers, FiniteSets

CONSTANTS
    MaxBudget,  \* bound: the largest budget tried, a natural number
    MaxShare    \* bound: the largest share tried, a natural number

\* TASK_CLASSES, in the order a round serves them, and the order of their names.
Classes == {"write_path", "embed", "maintenance"}
Turn == <<"write_path", "embed", "maintenance">>
NameRank == [embed |-> 1, maintenance |-> 2, write_path |-> 3]
Precedes(c, d) == NameRank[c] < NameRank[d]

Total(f) == f["write_path"] + f["embed"] + f["maintenance"]

VARIABLES
    budget,      \* jobs this drain may run
    shares,      \* the declared share of each class
    phase,       \* "quotas", then "rest", then "over"
    at,          \* the position in Turn the loop has reached
    left,        \* what remains of each class's quota
    ran,         \* jobs run so far, per class
    progressed,  \* whether the current round ran a job
    dry,         \* history: the classes a claim of the first phase found empty
    spent        \* history: the classes a claim of the second phase found empty

vars == <<budget, shares, phase, at, left, ran, progressed, dry, spent>>

-----------------------------------------------------------------------------
(* drain_quotas *)

\* _largest_remainder: whole parts first, the units left over by remainder.
Whole(n, w, c) == (w[c] * n) \div Total(w)
Remainder(n, w, c) == (w[c] * n) % Total(w)
Ahead(n, w, c) ==
    {d \in Classes : \/ Remainder(n, w, d) > Remainder(n, w, c)
                     \/ /\ Remainder(n, w, d) = Remainder(n, w, c)
                        /\ Precedes(d, c)}

LargestRemainder(n, w) ==
    LET over == n - Total([c \in Classes |-> Whole(n, w, c)]) IN
    [c \in Classes |-> IF Cardinality(Ahead(n, w, c)) < over
                       THEN Whole(n, w, c) + 1 ELSE Whole(n, w, c)]

\* A class with a share and no quota is lent one job by the largest that can
\* spare it, the first by name among equals.
Donor(q) == CHOOSE d \in Classes :
               \A c \in Classes : q[c] < q[d] \/ (q[c] = q[d] /\ ~Precedes(c, d))
Lend(q, w, c) ==
    IF w[c] > 0 /\ q[c] = 0 /\ q[Donor(q)] > 1
    THEN [q EXCEPT ![Donor(q)] = @ - 1, ![c] = 1] ELSE q

Weights(w) == IF Total(w) > 0 THEN w ELSE [c \in Classes |-> 1]

DrainQuotas(n, w) ==
    IF n = 0 THEN [c \in Classes |-> 0]
    ELSE LET v == Weights(w)
             q == LargestRemainder(n, v)
         IN Lend(Lend(Lend(q, v, "embed"), v, "maintenance"), v, "write_path")

-----------------------------------------------------------------------------
(* CurationWorker.drain *)

Init ==
    /\ budget \in 0 .. MaxBudget
    /\ shares \in [Classes -> 0 .. MaxShare]
    /\ phase = IF budget = 0 THEN "over" ELSE "quotas"
    /\ at = 1
    /\ left = DrainQuotas(budget, shares)
    /\ ran = [c \in Classes |-> 0]
    /\ progressed = FALSE
    /\ dry = {} /\ spent = {}

Done == Total(ran)
Class == Turn[at]

\* To the next class of the round, to the next round, or out of the first phase.
Onward_ClassByClass(done, moved) ==
    IF left[Class] > 1 /\ done > Done /\ done < budget THEN progressed' = moved /\ UNCHANGED <<at, phase>>
    ELSE IF at < 3 THEN at' = at + 1 /\ progressed' = moved /\ UNCHANGED phase
    ELSE /\ at' = 1 /\ progressed' = FALSE
         /\ phase' = IF done = budget THEN "over"
                     ELSE IF moved THEN "quotas" ELSE "rest"
Onward(done, moved) ==
    IF at < 3 THEN at' = at + 1 /\ progressed' = moved /\ UNCHANGED phase
    ELSE /\ at' = 1 /\ progressed' = FALSE
         /\ phase' = IF done = budget THEN "over"
                     ELSE IF moved THEN "quotas" ELSE "rest"

Serve ==
    /\ phase = "quotas" /\ left[Class] > 0 /\ Done < budget
    /\ left' = [left EXCEPT ![Class] = @ - 1]
    /\ ran' = [ran EXCEPT ![Class] = @ + 1]
    /\ Onward(Done + 1, TRUE)
    /\ UNCHANGED <<budget, shares, dry, spent>>

\* run_once found nothing to claim: the class gives back its quota.
Miss ==
    /\ phase = "quotas" /\ left[Class] > 0 /\ Done < budget
    /\ left' = [left EXCEPT ![Class] = 0]
    /\ dry' = dry \cup {Class}
    /\ Onward(Done, progressed)
    /\ UNCHANGED <<budget, shares, ran, spent>>

Skip ==
    /\ phase = "quotas" /\ (left[Class] = 0 \/ Done = budget)
    /\ Onward(Done, progressed)
    /\ UNCHANGED <<budget, shares, left, ran, dry, spent>>

ServeRest ==
    /\ phase = "rest" /\ Done < budget
    /\ ran' = [ran EXCEPT ![Class] = @ + 1]
    /\ phase' = IF Done + 1 = budget THEN "over" ELSE "rest"
    /\ UNCHANGED <<budget, shares, at, left, progressed, dry, spent>>

MissRest ==
    /\ phase = "rest" /\ Done < budget
    /\ spent' = spent \cup {Class}
    /\ IF at < 3 THEN at' = at + 1 /\ UNCHANGED phase
       ELSE phase' = "over" /\ UNCHANGED at
    /\ UNCHANGED <<budget, shares, left, ran, progressed, dry>>

Next == Serve \/ Miss \/ Skip \/ ServeRest \/ MissRest

Spec == Init /\ [][Next]_vars
FairSpec == Spec /\ WF_vars(Next)

-----------------------------------------------------------------------------
(* Properties *)

TypeOK ==
    /\ budget \in 0 .. MaxBudget
    /\ shares \in [Classes -> 0 .. MaxShare]
    /\ phase \in {"quotas", "rest", "over"}
    /\ at \in 1 .. 3
    /\ left \in [Classes -> 0 .. MaxBudget]
    /\ ran \in [Classes -> 0 .. MaxBudget]
    /\ progressed \in BOOLEAN
    /\ dry \subseteq Classes /\ spent \subseteq Classes

Quotas == DrainQuotas(budget, shares)

\* Three independent roundings never shrink or grow a turn's drain: the quotas
\* add up to the budget, whatever the shares (drain_quotas' first promise).
QuotasSum == Total(Quotas) = budget

\* The split is the declared share whenever that is a whole job for every class
\* (drain_quotas' second promise).
QuotasExact ==
    (Total(shares) > 0 /\ \A c \in Classes : Remainder(budget, shares, c) = 0) =>
        \A c \in Classes : Quotas[c] = Whole(budget, shares, c)

\* With a job for each class to spare, every class with a share gets one, and a
\* class without a share gets none unless no class has any.
QuotasFloor ==
    (budget >= 3 /\ Total(shares) > 0) =>
        \A c \in Classes : shares[c] > 0 <=> Quotas[c] > 0

\* A drain that ends has given every class its quota, or found it empty.
ShareServed ==
    phase = "over" => \A c \in Classes : c \in dry \/ ran[c] >= Quotas[c]

\* No class runs ahead of one that still waits with quota: a job enqueued while
\* the drain runs waits for at most one job of each other class.
RoundRobin ==
    phase = "quotas" =>
        \A c, d \in Classes : left[d] > 0 => ran[c] <= ran[d] + 1

\* Work conservation: budget is left over only when every class was found empty
\* after the quotas were spent, those without a share among them.
NoIdleBudget == (phase = "over" /\ Done < budget) => spent = Classes

\* A drain returns, even while its handlers enqueue ever more work.
Returns == <>(phase = "over")

\* What a drain owes its callers and the classes it serves.
DrainFair ==
    /\ QuotasSum /\ QuotasExact /\ QuotasFloor
    /\ ShareServed /\ RoundRobin /\ NoIdleBudget

\* Every class with a share and pending work is served in every turn
\* (drain_quotas' anti-starvation guarantee).
ServedEveryTurn ==
    (phase = "over" /\ budget > 0) =>
        \A c \in Classes : shares[c] > 0 => c \in dry \cup spent \/ ran[c] > 0
=============================================================================
