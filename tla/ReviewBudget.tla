----------------------------- MODULE ReviewBudget -----------------------------
(***************************************************************************)
(* Spending authority of the bounded review.  Admission (bounded_review)   *)
(* reserves one review after another in a one-use ledger; each reservation *)
(* opens a ResponseBudget (bounded_review_provider), and exchange()        *)
(* (bounded_review_transport) runs one request through it: reserve, count  *)
(* the input, admit the count, send, settle.  The caller may call the      *)
(* ledger in any order.  The provider bills a request that reached it      *)
(* whatever became of the worker that waited for the answer.               *)
(***************************************************************************)
EXTENDS Integers, FiniteSets

CONSTANTS
  Reviews,       \* units + 1
  PerSeconds, MaxSeconds, PerCost, MaxCost,     \* the admitted policy
  Context, MaxInput, MaxOutput, PriceIn, PriceOut, Scale,  \* the provider profile
  MaxRequests,   \* requests of one review
  Requests,      \* normalised requests, by digest
  MaxClock,      \* bound: the last clock reading
  None

ASSUME BudgetAssumption ==
  /\ \A n \in {Reviews, PerSeconds, MaxSeconds, PerCost, MaxCost, Context, MaxInput, MaxOutput,
               PriceIn, PriceOut, Scale, MaxRequests} : n \in Nat \ {0}
  /\ MaxInput <= Context /\ MaxOutput <= Context /\ MaxClock \in Nat
  \* plan(): the reviews are admitted before the ledger exists.
  /\ Reviews * PerCost <= MaxCost /\ Reviews * PerSeconds <= MaxSeconds

\* The reserved request of a ResponseBudget, and its state.
ActiveType == [req : Requests, cost : Nat, cap : 1..MaxOutput]
BudgetType ==
  [charged : Nat, active : ActiveType \union {None}, admitted : BOOLEAN, used : SUBSET Requests,
   failed : BOOLEAN, deadline : Nat]
ASSUME NoneAssumption == None \notin Nat /\ None \notin BudgetType

VARIABLES
  now,
  ledger,    \* Admission: next, active since, reserved_cost, failed
  budget,    \* ResponseBudget of the reserved review, or None
  exchange,  \* where exchange() is: "idle", "counting", "sending"
  upstream,  \* requests that reached the model and are not billed yet
  charged,   \* what the budgets of all reviews have been charged
  bills,     \* what the provider billed, in Scale-ths
  sent,      \* per review: requests that were sent, in any order (observer)
  accepted   \* ordinals whose review passed (observer)

vars == <<now, ledger, budget, exchange, upstream, charged, bills, sent, accepted>>

Ordinals == 0..(Reviews - 1)
Current == ledger.next - 1

\* cost(): all input at the uncached rate, rounded up once.
Exact(input, output) == input * PriceIn + output * PriceOut
Cost(input, output) == (Exact(input, output) + Scale - 1) \div Scale

Init ==
  /\ now = 0
  /\ ledger = [next |-> 0, active |-> None, reserved |-> 0, failed |-> FALSE]
  /\ budget = None /\ exchange = "idle" /\ upstream = {}
  /\ charged = 0 /\ bills = 0
  /\ sent = [n \in Ordinals |-> {}] /\ accepted = {}

Tick ==
  /\ now < MaxClock /\ now' = now + 1
  /\ UNCHANGED <<ledger, budget, exchange, upstream, charged, bills, sent, accepted>>

-----------------------------------------------------------------------------
\* Admission

OpenBudget == [charged |-> 0, active |-> None, admitted |-> FALSE, used |-> {},
               failed |-> FALSE, deadline |-> now + PerSeconds]

\* Mutant: a review that is still running does not keep the next one out.
MayReserveParallel(ordinal) ==
  /\ ~ledger.failed /\ ordinal = ledger.next
  /\ now + PerSeconds <= MaxSeconds
  /\ ledger.reserved + PerCost <= MaxCost
\* Admission.reserve(): any refusal ends the ledger.
MayReserve(ordinal) ==
  /\ ~ledger.failed /\ ledger.active = None /\ ordinal = ledger.next
  /\ now + PerSeconds <= MaxSeconds
  /\ ledger.reserved + PerCost <= MaxCost
ReserveReview(ordinal) ==
  /\ exchange = "idle"
  /\ IF MayReserve(ordinal)
     THEN /\ ledger' = [ledger EXCEPT !.next = @ + 1, !.active = now, !.reserved = @ + PerCost]
          /\ budget' = OpenBudget
     ELSE ledger' = [ledger EXCEPT !.failed = TRUE] /\ UNCHANGED budget
  /\ UNCHANGED <<now, exchange, upstream, charged, bills, sent, accepted>>

MayFinish(passed) ==
  /\ ~ledger.failed /\ ledger.active # None /\ passed
  /\ now - ledger.active <= PerSeconds
  /\ now <= MaxSeconds
\* Admission.finish(): a review that did not pass, or came late, ends the ledger.
FinishReview(passed) ==
  \* The protected caller reports a pass only for an exchange that was charged.
  /\ exchange = "idle"
  /\ passed => budget # None /\ ~budget.failed /\ budget.active = None /\ budget.used # {}
  /\ IF MayFinish(passed)
     THEN ledger' = [ledger EXCEPT !.active = None] /\ accepted' = accepted \union {Current}
     ELSE ledger' = [ledger EXCEPT !.failed = TRUE] /\ UNCHANGED accepted
  /\ UNCHANGED <<now, budget, exchange, upstream, charged, bills, sent>>

\* aggregate(): coverage is claimed only for a ledger that came to its end.
Complete == ~ledger.failed /\ ledger.active = None /\ ledger.next = Reviews

-----------------------------------------------------------------------------
\* ResponseBudget, in the order exchange() calls it

Charge(b) == charged' = charged + (b.charged - budget.charged)

\* Mutant: an unknown outcome gives its reservation back.
AbandonRefunding ==
  /\ budget' = [budget EXCEPT !.failed = TRUE, !.active = None,
                              !.charged = @ - (IF budget.active = None THEN 0 ELSE budget.active.cost)]
  /\ Charge(budget') /\ exchange' = "idle"
\* abandon(), and the except clause of every method: no further request.
Abandon ==
  /\ budget' = [budget EXCEPT !.failed = TRUE]
  /\ exchange' = "idle"
  /\ UNCHANGED charged

InTime == now < budget.deadline

\* Mutant: a request already made may be repeated.
MayRequestAgain(req, cap) ==
  /\ ~budget.failed /\ budget.active = None /\ InTime
  /\ Cardinality(budget.used) < MaxRequests
  /\ budget.charged + Cost(Context, cap) <= PerCost
\* ResponseBudget.reserve(): the whole context and the output cap are charged.
MayRequest(req, cap) ==
  /\ ~budget.failed /\ budget.active = None /\ InTime
  /\ req \notin budget.used /\ Cardinality(budget.used) < MaxRequests
  /\ budget.charged + Cost(Context, cap) <= PerCost
ReserveRequest(req, cap) ==
  /\ exchange = "idle" /\ budget # None /\ ledger.active # None
  /\ IF MayRequest(req, cap)
     THEN /\ budget' = [budget EXCEPT !.charged = @ + Cost(Context, cap), !.used = @ \union {req},
                                      !.active = [req |-> req, cost |-> Cost(Context, cap), cap |-> cap]]
          /\ Charge(budget') /\ exchange' = "counting"
     ELSE Abandon
  /\ UNCHANGED <<now, ledger, upstream, bills, sent, accepted>>

\* A request that validation refuses (shape, size, features, hosted tools).
RefuseRequest ==
  /\ exchange = "idle" /\ budget # None /\ ledger.active # None /\ Abandon
  /\ UNCHANGED <<now, ledger, upstream, bills, sent, accepted>>

\* The count worker answered: admit_tokens() binds the count, then the
\* response worker sends the request.
MayAdmit(count) ==
  InTime /\ count <= MaxInput /\ count + budget.active.cap <= Context
AdmitAndSend(count) ==
  /\ exchange = "counting"
  /\ IF MayAdmit(count)
     THEN /\ budget' = [budget EXCEPT !.admitted = TRUE]
          /\ upstream' = upstream \union {[review |-> Current, input |-> count, cap |-> budget.active.cap]}
          /\ sent' = [sent EXCEPT ![Current] = @ \union {budget.active.req}]
          /\ exchange' = "sending" /\ UNCHANGED charged
     ELSE Abandon /\ UNCHANGED <<upstream, sent>>
  /\ UNCHANGED <<now, ledger, bills, accepted>>

\* A worker fails, or the parent kills it on the deadline.
LoseWorker ==
  /\ exchange \in {"counting", "sending"} /\ Abandon
  /\ UNCHANGED <<now, ledger, upstream, bills, sent, accepted>>

\* The provider bills what it computed; the answer may arrive or be lost.
ProviderBills ==
  \E r \in upstream, output \in 0..MaxOutput :
    /\ output <= r.cap
    /\ upstream' = upstream \ {r}
    /\ bills' = bills + Exact(r.input, output)
    /\ IF exchange = "sending" /\ r.review = Current
       THEN \* complete(): settle to the actual usage, in time only.
            \/ /\ InTime
               /\ budget' = [budget EXCEPT !.active = None, !.admitted = FALSE,
                    !.charged = @ - (budget.active.cost - Cost(r.input, output))]
               /\ Charge(budget') /\ exchange' = "idle"
            \/ Abandon
       ELSE UNCHANGED <<budget, charged, exchange>>
    /\ UNCHANGED <<now, ledger, sent, accepted>>

Next ==
  \/ Tick
  \/ \E n \in Ordinals : ReserveReview(n)
  \/ \E passed \in BOOLEAN : FinishReview(passed)
  \/ \E req \in Requests, cap \in 1..MaxOutput : ReserveRequest(req, cap)
  \/ RefuseRequest
  \/ \E count \in 0..Context : AdmitAndSend(count)
  \/ LoseWorker
  \/ ProviderBills

Spec == Init /\ [][Next]_vars

-----------------------------------------------------------------------------
TypeOK ==
  /\ now \in 0..MaxClock
  /\ ledger \in [next : 0..Reviews, active : (0..MaxClock) \union {None}, reserved : 0..MaxCost,
                  failed : BOOLEAN]
  /\ budget = None \/ (budget \in BudgetType /\ budget.charged <= PerCost)
  /\ exchange \in {"idle", "counting", "sending"}
  /\ upstream \subseteq [review : Ordinals, input : 0..Context, cap : 1..MaxOutput]
  /\ charged \in 0..MaxCost /\ bills \in Nat
  /\ sent \in [Ordinals -> SUBSET Requests] /\ accepted \subseteq Ordinals

\* What the provider has billed, and what it may still bill for the one request whose
\* answer is open or lost, is covered by the charges, and these by the ledger.
BilledIsReserved ==
  /\ bills <= charged * Scale /\ charged <= ledger.reserved /\ ledger.reserved <= MaxCost
  /\ \A r, t \in upstream : r = t
  /\ \A r \in upstream : bills + Exact(r.input, r.cap) <= charged * Scale

\* aggregate() looks only at the end of the ledger: it then stands for a pass of
\* every unit and of the integration review.
CoverageNeedsEveryReview == Complete => accepted = Ordinals

\* A request reaches the model only when nothing earlier is unaccounted for, and is
\* new to its review: no retry, and no later review, after an unknown outcome.
NothingSentAfterUnknown ==
  [][/\ sent' # sent => upstream = {} /\ accepted = 0..(Current - 1)
     /\ upstream \subseteq upstream' /\ upstream' # upstream
          => sent'[Current] # sent[Current]]_vars

\* The abstract promise: committed before billed, never beyond the limit.
Spend == INSTANCE SpendLimit WITH
  Limit <- MaxCost * Scale, committed <- charged * Scale, billed <- bills
SpendsWithinLimit == Spend!Spec
=============================================================================
