-------------------------- MODULE ReviewBudgetProofs --------------------------
(***************************************************************************)
(* Theorems about ReviewBudget for any policy, any prices and any number   *)
(* of reviews and requests, the refinement of SpendLimit among them.       *)
(*                                                                         *)
(* The invariant follows the one request that may be open: before it is    *)
(* sent nothing is upstream and its whole cost is charged on top of what   *)
(* was billed (Counting); while it is upstream that charge covers the      *)
(* largest bill it can get (Sending); once its outcome is unknown the      *)
(* budget has failed, keeps the charge, and the review never passes, so    *)
(* that no later review is reserved (Unknown).                             *)
(***************************************************************************)
EXTENDS ReviewBudget, TLAPS

RequestType == [review : Int, input : 0..Context, cap : 1..MaxOutput]

Types ==
  /\ now \in Nat
  /\ ledger \in [next : 0..Reviews, active : Nat \union {None}, reserved : Nat, failed : BOOLEAN]
  /\ budget = None \/ budget \in BudgetType
  /\ exchange \in {"idle", "counting", "sending"}
  /\ upstream \in SUBSET RequestType
  /\ charged \in Nat /\ bills \in Nat
  /\ sent \in [Ordinals -> SUBSET Requests]

\* The ledger holds the whole share of the open review, the budget at most that.
Reserved ==
  /\ ledger.reserved <= MaxCost /\ charged <= ledger.reserved
  /\ budget # None => /\ budget.charged <= PerCost /\ budget.charged <= charged
                      /\ charged - budget.charged + PerCost <= ledger.reserved

\* The reviews passed in order, all before the open one.
Passed == 0..(IF ledger.active = None THEN ledger.next - 1 ELSE ledger.next - 2)
InOrder ==
  /\ accepted = Passed
  /\ budget # None => Current \in Ordinals
  /\ budget = None => exchange = "idle"
  /\ exchange # "idle" => ledger.active # None

\* What was sent belongs to the requests the budget has used.
SentIsUsed ==
  /\ \A n \in Ordinals : n >= ledger.next => sent[n] = {}
  /\ budget # None => sent[Current] \subseteq budget.used
  /\ exchange = "counting" => budget.active.req \in budget.used \ sent[Current]

\* Nothing is open.
Settled == upstream = {} /\ bills <= charged * Scale
\* The cost of the active request is charged and not needed for earlier bills.
Covered ==
  /\ budget.active \in ActiveType /\ budget.active.cost = Cost(Context, budget.active.cap)
  /\ budget.active.cost <= budget.charged
  /\ bills <= (charged - budget.active.cost) * Scale
\* A request whose outcome nobody waits for.
Open == \E r \in upstream :
  upstream = {r} /\ bills + Exact(r.input, r.cap) <= charged * Scale

Idle ==
  exchange = "idle" =>
    /\ budget = None => Settled
    /\ budget # None /\ ~budget.failed => budget.active = None /\ Settled
Counting == exchange = "counting" => ~budget.failed /\ upstream = {} /\ Covered
Sending ==
  exchange = "sending" =>
    /\ ~budget.failed /\ Covered
    /\ \E r \in upstream :
         upstream = {r} /\ r.review = Current /\ r.cap = budget.active.cap
Unknown ==
  budget # None /\ budget.failed =>
    /\ exchange = "idle" /\ (Settled \/ Open)
    /\ ledger.failed \/ ledger.active # None

Inv ==
  /\ Types /\ Reserved /\ InOrder /\ SentIsUsed
  /\ Idle /\ Counting /\ Sending /\ Unknown
-----------------------------------------------------------------------------
\* Costs

\* Rounded up, a cost is never below the exact one, and grows with it.
LEMMA RoundedUp ==
  ASSUME NEW e \in Nat, NEW s \in Nat \ {0}
  PROVE  /\ (e + s - 1) \div s \in Nat
         /\ e <= ((e + s - 1) \div s) * s
  OBVIOUS

LEMMA RoundedMonotone ==
  ASSUME NEW e \in Nat, NEW f \in Nat, e <= f, NEW s \in Nat \ {0}
  PROVE  (e + s - 1) \div s <= (f + s - 1) \div s
  OBVIOUS

LEMMA Products ==
  ASSUME NEW a \in Nat, NEW b \in Nat, NEW c \in Nat
  PROVE  a * b \in Nat /\ (a <= c => a * b <= c * b)
  OBVIOUS

LEMMA ExactNat ==
  ASSUME NEW i \in Nat, NEW o \in Nat
  PROVE  Exact(i, o) \in Nat
<1>1. PriceIn \in Nat /\ PriceOut \in Nat
  BY BudgetAssumption
<1> QED
  BY <1>1, Products DEF Exact

LEMMA ExactMonotone ==
  ASSUME NEW i \in Nat, NEW o \in Nat, NEW j \in Nat, NEW q \in Nat, i <= j, o <= q
  PROVE  Exact(i, o) <= Exact(j, q)
<1>1. PriceIn \in Nat /\ PriceOut \in Nat
  BY BudgetAssumption
<1>2. i * PriceIn <= j * PriceIn /\ o * PriceOut <= q * PriceOut
  BY <1>1, Products
<1>3. i * PriceIn \in Nat /\ j * PriceIn \in Nat /\ o * PriceOut \in Nat /\ q * PriceOut \in Nat
  BY <1>1, Products
<1> QED
  BY <1>2, <1>3 DEF Exact

\* cost() covers what the provider can bill for no more tokens.
LEMMA CostCovers ==
  ASSUME NEW i \in Nat, NEW o \in Nat, NEW j \in Nat, NEW q \in Nat, i <= j, o <= q
  PROVE  /\ Cost(i, o) \in Nat /\ Cost(j, q) \in Nat
         /\ Exact(i, o) <= Cost(i, o) * Scale /\ Cost(i, o) <= Cost(j, q)
         /\ Exact(i, o) <= Cost(j, q) * Scale
<1>1. Scale \in Nat \ {0}
  BY BudgetAssumption
<1>2. Exact(i, o) \in Nat /\ Exact(j, q) \in Nat /\ Exact(i, o) <= Exact(j, q)
  BY ExactNat, ExactMonotone
<1>3. /\ Cost(i, o) \in Nat /\ Exact(i, o) <= Cost(i, o) * Scale
      /\ Cost(j, q) \in Nat /\ Exact(j, q) <= Cost(j, q) * Scale
  BY <1>1, <1>2, RoundedUp DEF Cost
<1>4. Cost(i, o) <= Cost(j, q)
  BY <1>1, <1>2, RoundedMonotone DEF Cost
<1>5. Cost(j, q) * Scale \in Nat
  BY <1>1, <1>3, Products
<1> QED
  BY <1>2, <1>3, <1>4, <1>5

-----------------------------------------------------------------------------
\* The reservations of reviews

LEMMA InitInv == Init => Inv
<1> SUFFICES ASSUME Init PROVE Inv
  OBVIOUS
<1>1. Scale \in Nat /\ MaxCost \in Nat /\ Reviews \in Nat
  BY BudgetAssumption
<1>2. Types
  BY <1>1 DEF Init, Types
<1>3. Reserved
  BY <1>1 DEF Init, Reserved
<1>4. InOrder /\ SentIsUsed
  BY NoneAssumption DEF Init, InOrder, Passed, SentIsUsed
<1>5. Idle /\ Counting /\ Sending /\ Unknown
  BY <1>1 DEF Init, Idle, Settled, Counting, Sending, Unknown
<1> QED
  BY <1>2, <1>3, <1>4, <1>5 DEF Inv

LEMMA TickInv == ASSUME Inv, Tick PROVE Inv'
<1>1. Types'
  BY DEF Inv, Types, Tick
<1>2. Reserved' /\ InOrder' /\ SentIsUsed'
  BY DEF Inv, Tick, Reserved, InOrder, Passed, Current, SentIsUsed
<1>3. Idle' /\ Counting' /\ Sending' /\ Unknown'
  BY DEF Inv, Tick, Idle, Counting, Sending, Unknown, Settled, Covered, Open, Current
<1> QED
  BY <1>1, <1>2, <1>3 DEF Inv

LEMMA ReserveReviewInv == ASSUME Inv, NEW n \in Ordinals, ReserveReview(n) PROVE Inv'
<1>0. /\ PerCost \in Nat /\ Reviews \in Nat /\ PerSeconds \in Nat
      /\ exchange = "idle" /\ Types /\ Reserved /\ InOrder /\ SentIsUsed /\ Idle /\ Unknown
  BY BudgetAssumption DEF Inv, ReserveReview
<1>1. CASE MayReserve(n)
  <2>1. /\ ledger' = [ledger EXCEPT !.next = @ + 1, !.active = now, !.reserved = @ + PerCost]
        /\ budget' = OpenBudget
        /\ UNCHANGED <<now, exchange, upstream, charged, bills, sent, accepted>>
    BY <1>1 DEF ReserveReview
  <2>2. ~ledger.failed /\ ledger.active = None /\ n = ledger.next
        /\ ledger.reserved + PerCost <= MaxCost
    BY <1>1 DEF MayReserve
  <2>a. n \in Nat /\ n + 1 \in 0..Reviews /\ now \in Nat /\ now # None
        /\ ledger.reserved + PerCost \in Nat
    BY <1>0, NoneAssumption DEF Types, Ordinals
  <2>3. /\ ledger'.next = n + 1 /\ ledger'.active = now /\ ledger'.failed = FALSE
        /\ ledger'.reserved = ledger.reserved + PerCost /\ ledger'.active # None
    BY <1>0, <2>1, <2>2, <2>a DEF Types
  <2>b. ledger' \in [next : 0..Reviews, active : Nat \union {None}, reserved : Nat,
                    failed : BOOLEAN]
    BY <1>0, <2>1, <2>2, <2>a DEF Types
  <2>c. now + PerSeconds \in Nat
    BY <1>0, <2>a
  <2>4. /\ budget' \in BudgetType /\ budget'.charged = 0 /\ budget'.used = {}
        /\ budget'.active = None /\ ~budget'.failed
    BY <2>1, <2>c DEF OpenBudget, BudgetType
  <2>d. budget' # None
    BY <2>4, NoneAssumption
  <2>5. Settled
    BY <1>0, <2>2 DEF Idle, Unknown
  <2>6. Types'
    BY <1>0, <2>1, <2>b, <2>4 DEF Types
  <2>7. Reserved'
    BY <1>0, <2>1, <2>2, <2>3, <2>4 DEF Reserved, Types
  <2>8. Current' = n /\ n \in Ordinals /\ n \in Nat
    BY <2>3 DEF Current, Ordinals
  <2>9. InOrder'
    BY <1>0, <2>1, <2>2, <2>3, <2>8 DEF InOrder, Passed
  <2>10. SentIsUsed'
    BY <1>0, <2>1, <2>2, <2>3, <2>4, <2>8, <2>d DEF SentIsUsed, Ordinals
  <2>11. Idle' /\ Counting' /\ Sending' /\ Unknown'
    BY <1>0, <2>1, <2>4, <2>5 DEF Idle, Counting, Sending, Unknown, Settled
  <2> QED
    BY <2>6, <2>7, <2>9, <2>10, <2>11 DEF Inv
<1>2. CASE ~MayReserve(n)
  <2>1. /\ ledger' = [ledger EXCEPT !.failed = TRUE]
        /\ UNCHANGED <<now, budget, exchange, upstream, charged, bills, sent, accepted>>
    BY <1>2 DEF ReserveReview
  <2>2. /\ ledger'.next = ledger.next /\ ledger'.active = ledger.active
        /\ ledger'.reserved = ledger.reserved /\ ledger'.failed
        /\ ledger' \in [next : 0..Reviews, active : Nat \union {None}, reserved : Nat,
                        failed : BOOLEAN]
    BY <1>0, <2>1 DEF Types
  <2>3. Types'
    BY <1>0, <2>1, <2>2 DEF Types
  <2>4. Reserved' /\ InOrder' /\ SentIsUsed'
    BY <1>0, <2>1, <2>2 DEF Reserved, InOrder, Passed, Current, SentIsUsed
  <2>5. Idle' /\ Counting' /\ Sending' /\ Unknown'
    BY <1>0, <2>1, <2>2 DEF Idle, Counting, Sending, Unknown, Settled, Open
  <2> QED
    BY <2>3, <2>4, <2>5 DEF Inv
<1> QED
  BY <1>1, <1>2

LEMMA FinishReviewInv == ASSUME Inv, NEW passed \in BOOLEAN, FinishReview(passed) PROVE Inv'
<1>0. /\ exchange = "idle" /\ Types /\ Reserved /\ InOrder /\ SentIsUsed /\ Idle /\ Unknown
      /\ UNCHANGED <<now, budget, exchange, upstream, charged, bills, sent>>
  BY DEF Inv, FinishReview
<1>1. CASE MayFinish(passed)
  <2>1. /\ ledger' = [ledger EXCEPT !.active = None] /\ accepted' = accepted \union {Current}
        /\ budget # None /\ ~budget.failed /\ ledger.active # None
    BY <1>1 DEF FinishReview, MayFinish
  <2>2. /\ ledger'.next = ledger.next /\ ledger'.active = None
        /\ ledger'.reserved = ledger.reserved /\ ledger'.failed = ledger.failed
        /\ ledger' \in [next : 0..Reviews, active : Nat \union {None}, reserved : Nat,
                        failed : BOOLEAN]
    BY <1>0, <2>1 DEF Types
  <2>3. Types'
    BY <1>0, <2>2 DEF Types
  <2>4. Reserved' /\ SentIsUsed'
    BY <1>0, <2>2 DEF Reserved, Current, SentIsUsed
  <2>5. InOrder'
    <3>1. ledger.next \in Nat /\ Current = ledger.next - 1 /\ Current \in Ordinals
          /\ accepted = 0..(ledger.next - 2)
      BY <1>0, <2>1 DEF Types, InOrder, Passed, Current
    <3>2. accepted' = 0..(ledger.next - 1)
      BY <2>1, <3>1 DEF Ordinals
    <3> QED
      BY <1>0, <2>2, <3>1, <3>2 DEF InOrder, Passed, Current
  <2>6. Idle' /\ Counting' /\ Sending' /\ Unknown'
    BY <1>0, <2>1, <2>2 DEF Idle, Counting, Sending, Unknown, Settled
  <2> QED
    BY <2>3, <2>4, <2>5, <2>6 DEF Inv
<1>2. CASE ~MayFinish(passed)
  <2>1. ledger' = [ledger EXCEPT !.failed = TRUE] /\ UNCHANGED accepted
    BY <1>2 DEF FinishReview
  <2>2. /\ ledger'.next = ledger.next /\ ledger'.active = ledger.active
        /\ ledger'.reserved = ledger.reserved /\ ledger'.failed
        /\ ledger' \in [next : 0..Reviews, active : Nat \union {None}, reserved : Nat,
                        failed : BOOLEAN]
    BY <1>0, <2>1 DEF Types
  <2>3. Types'
    BY <1>0, <2>1, <2>2 DEF Types
  <2>4. Reserved' /\ InOrder' /\ SentIsUsed'
    BY <1>0, <2>1, <2>2 DEF Reserved, InOrder, Passed, Current, SentIsUsed
  <2>5. Idle' /\ Counting' /\ Sending' /\ Unknown'
    BY <1>0, <2>1, <2>2 DEF Idle, Counting, Sending, Unknown, Settled, Open
  <2> QED
    BY <2>3, <2>4, <2>5 DEF Inv
<1> QED
  BY <1>1, <1>2
-----------------------------------------------------------------------------
\* The requests of a review

\* abandon(): the charge stays, and what is upstream was charged.
LEMMA AbandonInv ==
  ASSUME Inv, budget # None, ledger.active # None, Abandon,
         UNCHANGED <<now, ledger, sent, accepted>>,
         upstream' \in SUBSET RequestType, bills' \in Nat, Settled' \/ Open'
  PROVE  Inv'
<1>0. /\ Types /\ Reserved /\ InOrder /\ SentIsUsed /\ budget \in BudgetType
      /\ budget' = [budget EXCEPT !.failed = TRUE] /\ exchange' = "idle" /\ UNCHANGED charged
  BY DEF Inv, Types, Abandon
<1>1. /\ budget' \in BudgetType /\ budget'.failed /\ budget'.charged = budget.charged
      /\ budget'.used = budget.used
  BY <1>0 DEF BudgetType
<1>2. budget' # None
  BY <1>1, NoneAssumption
<1>3. Types'
  BY <1>0, <1>1 DEF Types
<1>4. Reserved' /\ InOrder' /\ SentIsUsed'
  BY <1>0, <1>1, <1>2 DEF Reserved, InOrder, Passed, Current, SentIsUsed
<1>5. Idle' /\ Counting' /\ Sending' /\ Unknown'
  BY <1>0, <1>1, <1>2 DEF Idle, Counting, Sending, Unknown
<1> QED
  BY <1>3, <1>4, <1>5 DEF Inv

LEMMA ReserveRequestInv ==
  ASSUME Inv, NEW req \in Requests, NEW cap \in 1..MaxOutput, ReserveRequest(req, cap)
  PROVE  Inv'
<1>0. /\ Types /\ Reserved /\ InOrder /\ SentIsUsed /\ Idle /\ Unknown
      /\ exchange = "idle" /\ budget # None /\ ledger.active # None /\ budget \in BudgetType
      /\ UNCHANGED <<now, ledger, upstream, bills, sent, accepted>>
  BY DEF Inv, ReserveRequest, Types
<1>1. CASE ~MayRequest(req, cap)
  <2>1. Abandon
    BY <1>1 DEF ReserveRequest
  <2>2. Settled' \/ Open'
    BY <1>0, <2>1 DEF Abandon, Idle, Unknown, Settled, Open
  <2> QED
    BY <1>0, <2>1, <2>2, AbandonInv DEF Types
<1>2. CASE MayRequest(req, cap)
  <2> DEFINE cost == Cost(Context, cap)
             active == [req |-> req, cost |-> cost, cap |-> cap]
  <2>1. /\ budget' = [budget EXCEPT !.charged = @ + cost, !.used = @ \union {req},
                                    !.active = active]
        /\ charged' = charged + (budget'.charged - budget.charged) /\ exchange' = "counting"
        /\ ~budget.failed /\ req \notin budget.used /\ budget.charged + cost <= PerCost
    BY <1>2 DEF ReserveRequest, MayRequest, Charge
  <2>2. cost \in Nat /\ PerCost \in Nat /\ Scale \in Nat
    <3>1. Context \in Nat /\ cap \in Nat
      BY BudgetAssumption
    <3> QED
      BY <3>1, CostCovers, BudgetAssumption
  <2>3. /\ active \in ActiveType /\ active.req = req /\ active.cost = cost /\ active.cap = cap
    BY <2>2 DEF ActiveType
  <2> HIDE DEF cost, active
  <2>a. /\ budget'.charged = budget.charged + cost /\ budget'.active = active
        /\ budget'.used = budget.used \union {req} /\ budget'.failed = budget.failed
    BY <1>0, <2>1 DEF BudgetType
  <2>b. budget.charged + cost \in Nat /\ budget.used \union {req} \in SUBSET Requests
    BY <1>0, <2>2 DEF BudgetType
  <2>c. budget' \in BudgetType
    BY <1>0, <2>1, <2>3, <2>b DEF BudgetType
  <2>4. /\ budget' \in BudgetType /\ budget'.charged = budget.charged + cost
        /\ budget'.used = budget.used \union {req} /\ budget'.active = active
        /\ ~budget'.failed
    BY <2>1, <2>a, <2>c
  <2>5. budget' # None
    BY <2>4, NoneAssumption
  <2>6. charged' = charged + cost /\ charged \in Nat /\ charged' \in Nat /\ bills \in Nat
        /\ budget.charged \in Nat /\ ledger.reserved \in Nat
    BY <1>0, <2>1, <2>2, <2>4 DEF Types, BudgetType
  <2>7. Types'
    BY <1>0, <2>1, <2>4, <2>6 DEF Types
  <2>8. Reserved'
    BY <1>0, <2>1, <2>2, <2>4, <2>6 DEF Reserved
  <2>9. InOrder' /\ SentIsUsed'
    BY <1>0, <2>1, <2>3, <2>4, <2>5 DEF InOrder, Passed, Current, SentIsUsed
  <2>10. Settled
    BY <1>0, <2>1 DEF Idle
  <2>11. Covered'
    BY <2>2, <2>3, <2>4, <2>6, <2>10, <1>0 DEF Covered, Settled, cost
  <2>12. Idle' /\ Counting' /\ Sending' /\ Unknown'
    BY <1>0, <2>1, <2>4, <2>10, <2>11 DEF Idle, Counting, Sending, Unknown, Settled
  <2> QED
    BY <2>7, <2>8, <2>9, <2>12 DEF Inv
<1> QED
  BY <1>1, <1>2

LEMMA RefuseRequestInv == ASSUME Inv, RefuseRequest PROVE Inv'
<1>1. /\ budget # None /\ ledger.active # None /\ Abandon /\ exchange = "idle"
      /\ UNCHANGED <<now, ledger, upstream, bills, sent, accepted>>
  BY DEF RefuseRequest
<1>2. Settled' \/ Open'
  BY <1>1 DEF Inv, Abandon, Idle, Unknown, Settled, Open
<1> QED
  BY <1>1, <1>2, AbandonInv DEF Inv, Types

\* While a request is counted or sent, its budget and its review are there.
LEMMA Exchanging ==
  ASSUME Inv, exchange # "idle"
  PROVE  /\ budget # None /\ budget \in BudgetType /\ ledger.active # None /\ ~budget.failed
         /\ Covered /\ Current \in Ordinals /\ Scale \in Nat
         /\ bills \in Nat /\ charged \in Nat /\ budget.charged \in Nat
         /\ budget.active.cost \in Nat /\ budget.active.cap \in 1..MaxOutput
         /\ budget.active.cost <= charged
<1>1. budget # None /\ budget \in BudgetType /\ ledger.active # None /\ Current \in Ordinals
      /\ budget.charged <= charged
  BY DEF Inv, InOrder, Types, Reserved
<1>2. ~budget.failed /\ Covered
  BY DEF Inv, Types, Counting, Sending
<1>3. budget.active.cost \in Nat /\ budget.active.cap \in 1..MaxOutput
  BY <1>2 DEF Covered, ActiveType
<1>4. bills \in Nat /\ charged \in Nat /\ budget.charged \in Nat
      /\ budget.active.cost <= budget.charged
  BY <1>1, <1>2 DEF Inv, Types, BudgetType, Covered
<1> QED
  BY <1>1, <1>2, <1>3, <1>4, BudgetAssumption

\* The charge of the active request covers the largest bill it can get.
LEMMA ActiveCovers ==
  ASSUME Inv, exchange # "idle", NEW i \in 0..Context, NEW o \in Nat, o <= budget.active.cap
  PROVE  /\ Exact(i, o) \in Nat /\ Cost(i, o) \in Nat
         /\ Cost(i, o) <= budget.active.cost /\ Exact(i, o) <= Cost(i, o) * Scale
         /\ bills + Exact(i, o) <= (charged - budget.active.cost) * Scale + Cost(i, o) * Scale
         /\ bills + Exact(i, o) <= charged * Scale
<1>1. /\ Covered /\ Scale \in Nat /\ bills \in Nat /\ charged \in Nat
      /\ budget.active.cost \in Nat /\ budget.active.cap \in 1..MaxOutput
      /\ budget.active.cost <= charged
  BY Exchanging
<1>2. Context \in Nat /\ i \in Nat /\ i <= Context /\ budget.active.cap \in Nat
  BY <1>1, BudgetAssumption
<1>3. /\ Cost(i, o) \in Nat /\ Exact(i, o) <= Cost(i, o) * Scale
      /\ Cost(i, o) <= budget.active.cost /\ Exact(i, o) \in Nat
  <2>1. budget.active.cost = Cost(Context, budget.active.cap)
    BY <1>1 DEF Covered
  <2>2. Exact(i, o) \in Nat
    BY <1>2, ExactNat
  <2>3. /\ Cost(i, o) \in Nat /\ Exact(i, o) <= Cost(i, o) * Scale
        /\ Cost(i, o) <= Cost(Context, budget.active.cap)
    BY <1>2, CostCovers
  <2> QED
    BY <2>1, <2>2, <2>3
<1>4. bills <= (charged - budget.active.cost) * Scale
  BY <1>1 DEF Covered
<1> DEFINE left == charged - budget.active.cost
           cost == Cost(i, o)
<1>5. left \in Nat /\ cost \in Nat /\ left + cost <= charged
  BY <1>1, <1>3
<1>6. left * Scale \in Nat /\ cost * Scale \in Nat /\ (left + cost) * Scale <= charged * Scale
      /\ charged * Scale \in Nat
  BY <1>1, <1>5, Products
<1>7. (left + cost) * Scale = left * Scale + cost * Scale
  BY <1>1, <1>5
<1>8. bills + Exact(i, o) <= left * Scale + cost * Scale
  BY <1>1, <1>3, <1>4, <1>6
<1> QED
  BY <1>1, <1>3, <1>6, <1>7, <1>8

\* The one request that may be upstream.
LEMMA Upstream ==
  ASSUME Inv, NEW r \in upstream
  PROVE  /\ upstream = {r} /\ r \in RequestType /\ r.input \in 0..Context /\ r.cap \in 1..MaxOutput
         /\ exchange = "sending" => r.review = Current /\ r.cap = budget.active.cap
         /\ exchange # "counting"
         /\ exchange = "idle" => budget # None /\ budget.failed
                                 /\ bills + Exact(r.input, r.cap) <= charged * Scale
<1>1. r \in RequestType /\ r.input \in 0..Context /\ r.cap \in 1..MaxOutput
  BY DEF Inv, Types, RequestType
<1>2. exchange # "counting"
  BY DEF Inv, Counting
<1>3. CASE exchange = "sending"
  BY <1>1, <1>3 DEF Inv, Sending
<1>4. CASE exchange = "idle"
  <2>1. budget # None /\ budget.failed
    BY <1>4 DEF Inv, Idle, Settled
  <2>2. Open
    BY <2>1 DEF Inv, Unknown, Settled
  <2> QED
    BY <1>1, <1>4, <2>1, <2>2 DEF Open
<1> QED
  BY <1>1, <1>2, <1>3, <1>4 DEF Inv, Types

LEMMA LoseWorkerInv == ASSUME Inv, LoseWorker PROVE Inv'
<1>0. /\ exchange \in {"counting", "sending"} /\ Abandon
      /\ UNCHANGED <<now, ledger, upstream, bills, sent, accepted, charged>>
  BY DEF LoseWorker, Abandon
<1>1. /\ budget # None /\ ledger.active # None /\ budget.active.cap \in Nat
      /\ upstream' \in SUBSET RequestType /\ bills' \in Nat
  BY <1>0, Exchanging, BudgetAssumption DEF Inv, Types
<1>2. Settled' \/ Open'
  <2>1. CASE exchange = "counting"
    <3>1. 0 \in 0..Context /\ 0 \in Nat /\ 0 <= budget.active.cap
      BY <1>1, BudgetAssumption
    <3>2. bills + Exact(0, 0) <= charged * Scale /\ Exact(0, 0) \in Nat
      BY <2>1, <3>1, ActiveCovers
    <3>3. bills <= charged * Scale
      BY <3>2, <1>0, Products, Exchanging
    <3> QED
      BY <1>0, <2>1, <3>3 DEF Inv, Counting, Settled
  <2>2. CASE exchange = "sending"
    <3>1. PICK r \in upstream : upstream = {r}
      BY <2>2 DEF Inv, Sending
    <3>2. r.input \in 0..Context /\ r.cap \in Nat /\ r.cap = budget.active.cap
      BY <1>1, <2>2, Upstream
    <3>3. bills + Exact(r.input, r.cap) <= charged * Scale
      BY <1>0, <3>2, ActiveCovers
    <3> QED
      BY <1>0, <3>1, <3>3 DEF Open
  <2> QED
    BY <1>0, <2>1, <2>2
<1> QED
  BY <1>0, <1>1, <1>2, AbandonInv

LEMMA AdmitAndSendInv == ASSUME Inv, NEW count \in 0..Context, AdmitAndSend(count) PROVE Inv'
<1>0. /\ exchange = "counting" /\ Types /\ Reserved /\ InOrder /\ SentIsUsed /\ Counting
      /\ UNCHANGED <<now, ledger, bills, accepted>>
  BY DEF Inv, AdmitAndSend
<1>1. /\ budget # None /\ budget \in BudgetType /\ ledger.active # None /\ ~budget.failed
      /\ Covered /\ Current \in Ordinals /\ budget.active.cap \in 1..MaxOutput
  BY <1>0, Exchanging
<1>2. CASE ~MayAdmit(count)
  <2>1. /\ Abandon /\ UNCHANGED <<upstream, sent, charged>>
    BY <1>2 DEF AdmitAndSend, Abandon
  <2>2. LoseWorker
    BY <1>0, <2>1 DEF LoseWorker
  <2> QED
    BY <2>2, LoseWorkerInv
<1>3. CASE MayAdmit(count)
  <2> DEFINE r == [review |-> Current, input |-> count, cap |-> budget.active.cap]
  <2>1. /\ budget' = [budget EXCEPT !.admitted = TRUE]
        /\ upstream' = upstream \union {r}
        /\ sent' = [sent EXCEPT ![Current] = @ \union {budget.active.req}]
        /\ exchange' = "sending" /\ UNCHANGED charged
    BY <1>3 DEF AdmitAndSend
  <2>2. /\ r \in RequestType /\ r.review = Current /\ r.input = count /\ r.cap = budget.active.cap
    BY <1>1 DEF RequestType, Ordinals
  <2> HIDE DEF r
  <2>3. /\ budget' \in BudgetType /\ budget'.charged = budget.charged
        /\ budget'.active = budget.active /\ budget'.used = budget.used
        /\ budget'.failed = budget.failed
    BY <1>1, <2>1 DEF BudgetType
  <2>4. budget' # None
    BY <2>3, NoneAssumption
  <2>5. upstream' = {r}
    BY <1>0, <2>1 DEF Counting
  <2>6. budget.active.req \in Requests
    BY <1>1 DEF Covered, ActiveType
  <2>7. sent' \in [Ordinals -> SUBSET Requests]
        /\ sent'[Current] = sent[Current] \union {budget.active.req}
        /\ \A n \in Ordinals \ {Current} : sent'[n] = sent[n]
    BY <1>0, <1>1, <2>1, <2>6 DEF Types
  <2>8. Types'
    BY <1>0, <2>1, <2>2, <2>3, <2>5, <2>7 DEF Types
  <2>9. Reserved' /\ InOrder'
    BY <1>0, <1>1, <2>1, <2>3, <2>4 DEF Reserved, InOrder, Passed, Current
  <2>10. budget.active.req \in budget.used
    BY <1>0 DEF SentIsUsed
  <2>11. SentIsUsed'
    <3>1. ledger.next \in Nat /\ Current = ledger.next - 1
      BY <1>0 DEF Types, Current
    <3>2. \A n \in Ordinals : n >= ledger.next => sent'[n] = {}
      BY <1>0, <2>7, <3>1 DEF SentIsUsed, Ordinals
    <3>3. sent'[Current] \subseteq budget.used
      BY <1>0, <1>1, <2>7, <2>10 DEF SentIsUsed
    <3>4. Current' = Current
      BY <1>0 DEF Current
    <3> QED
      BY <1>0, <2>1, <2>3, <3>2, <3>3, <3>4 DEF SentIsUsed
  <2>12. Covered' /\ Current' = Current
    BY <1>0, <1>1, <2>1, <2>3 DEF Covered, Current
  <2>13. Idle' /\ Counting' /\ Sending' /\ Unknown'
    BY <1>1, <2>1, <2>2, <2>3, <2>5, <2>12 DEF Idle, Counting, Sending, Unknown
  <2> QED
    BY <2>8, <2>9, <2>11, <2>13 DEF Inv
<1> QED
  BY <1>2, <1>3

\* What a bill does to the sums.
LEMMA BillSums ==
  ASSUME Inv, NEW r \in upstream, NEW output \in 0..MaxOutput, output <= r.cap
  PROVE  /\ Exact(r.input, output) \in Nat
         /\ bills + Exact(r.input, output) <= charged * Scale
         /\ exchange = "sending" =>
              LET cost == Cost(r.input, output) IN
              /\ cost \in Nat /\ cost <= budget.active.cost
              /\ bills + Exact(r.input, output) <= (charged - (budget.active.cost - cost)) * Scale
<1>1. output \in Nat /\ r.input \in 0..Context /\ r.input \in Nat /\ r.cap \in Nat
      /\ bills \in Nat /\ charged \in Nat /\ Scale \in Nat
  BY Upstream, BudgetAssumption DEF Inv, Types
<1>2. Exact(r.input, output) \in Nat /\ Exact(r.input, r.cap) \in Nat
      /\ Exact(r.input, output) <= Exact(r.input, r.cap)
  <2>1. r.input <= r.input
    BY <1>1
  <2>2. Exact(r.input, output) <= Exact(r.input, r.cap)
    BY <1>1, <2>1, ExactMonotone
  <2>3. Exact(r.input, output) \in Nat
    BY <1>1, ExactNat
  <2>4. Exact(r.input, r.cap) \in Nat
    BY <1>1, ExactNat
  <2> QED
    BY <2>2, <2>3, <2>4
<1>3. CASE exchange = "idle"
  <2>1. bills + Exact(r.input, r.cap) <= charged * Scale
    BY <1>3, Upstream
  <2>2. charged * Scale \in Nat
    BY <1>1, Products
  <2> QED
    BY <1>1, <1>2, <1>3, <2>1, <2>2
<1>4. CASE exchange = "sending"
  <2> DEFINE cost == Cost(r.input, output)
             left == charged - budget.active.cost
  <2>1. r.cap = budget.active.cap
    BY <1>4, Upstream
  <2>2. /\ cost \in Nat /\ cost <= budget.active.cost
        /\ bills + Exact(r.input, output) <= left * Scale + cost * Scale
        /\ bills + Exact(r.input, output) <= charged * Scale
    BY <1>1, <1>4, <2>1, ActiveCovers
  <2>3. budget.active.cost \in Nat /\ left \in Nat
    BY <1>1, <1>4, Exchanging
  <2>4. left * Scale + cost * Scale = (left + cost) * Scale
    BY <1>1, <2>2, <2>3
  <2>5. left + cost = charged - (budget.active.cost - cost)
    BY <1>1, <2>2, <2>3
  <2> QED
    BY <1>2, <2>2, <2>4, <2>5
<1> QED
  BY <1>3, <1>4, Upstream DEF Inv, Types

LEMMA ProviderBillsInv == ASSUME Inv, ProviderBills PROVE Inv'
<1>1. PICK r \in upstream, output \in 0..MaxOutput :
        /\ output <= r.cap
        /\ upstream' = upstream \ {r}
        /\ bills' = bills + Exact(r.input, output)
        /\ IF exchange = "sending" /\ r.review = Current
           THEN \/ /\ InTime
                   /\ budget' = [budget EXCEPT !.active = None, !.admitted = FALSE,
                        !.charged = @ - (budget.active.cost - Cost(r.input, output))]
                   /\ Charge(budget') /\ exchange' = "idle"
                \/ Abandon
           ELSE UNCHANGED <<budget, charged, exchange>>
        /\ UNCHANGED <<now, ledger, sent, accepted>>
  BY DEF ProviderBills
<1>2. /\ upstream' = {} /\ bills' \in Nat /\ bills' <= charged * Scale /\ charged \in Nat
      /\ Types /\ Reserved /\ InOrder /\ SentIsUsed /\ Unknown
  BY <1>1, BillSums, Upstream DEF Inv, Types
<1>3. CASE exchange # "sending"
  <2>1. exchange = "idle" /\ budget # None /\ budget.failed
    BY <1>1, <1>3, Upstream DEF Inv, Types
  <2>2. UNCHANGED <<budget, charged, exchange, now, ledger, sent, accepted>>
    BY <1>1, <1>3
  <2>3. Types' /\ Reserved' /\ InOrder' /\ SentIsUsed'
    BY <1>2, <2>2 DEF Types, Reserved, InOrder, Passed, Current, SentIsUsed
  <2>4. Settled'
    BY <1>2, <2>2 DEF Settled
  <2>5. Idle' /\ Counting' /\ Sending' /\ Unknown'
    BY <1>2, <2>1, <2>2, <2>4 DEF Idle, Counting, Sending, Unknown
  <2> QED
    BY <2>3, <2>5 DEF Inv
<1>4. CASE exchange = "sending" /\ Abandon
  <2>1. budget # None /\ ledger.active # None
    BY <1>4, Exchanging
  <2>2. Settled'
    BY <1>2, <1>4 DEF Settled, Abandon
  <2> QED
    BY <1>1, <1>2, <1>4, <2>1, <2>2, AbandonInv
<1>5. CASE exchange = "sending" /\ ~Abandon
  <2> DEFINE cost == Cost(r.input, output)
             back == budget.active.cost - cost
  <2>1. /\ budget' = [budget EXCEPT !.active = None, !.admitted = FALSE, !.charged = @ - back]
        /\ charged' = charged + (budget'.charged - budget.charged) /\ exchange' = "idle"
        /\ UNCHANGED <<now, ledger, sent, accepted>>
    BY <1>1, <1>5, Upstream DEF Charge
  <2>2. /\ budget \in BudgetType /\ ~budget.failed /\ budget.active.cost \in Nat
        /\ budget.active.cost <= budget.charged /\ budget.charged \in Nat
    BY <1>5, Exchanging DEF Covered
  <2>3. cost \in Nat /\ cost <= budget.active.cost /\ bills' <= (charged - back) * Scale
    BY <1>1, <1>5, BillSums
  <2>4. back \in Nat /\ back <= budget.charged
    BY <2>2, <2>3
  <2> HIDE DEF cost, back
  <2>5. /\ budget'.charged = budget.charged - back /\ budget'.active = None
        /\ budget'.used = budget.used /\ budget'.failed = budget.failed
    BY <2>1, <2>2 DEF BudgetType
  <2>6. budget.charged - back \in Nat
    BY <2>2, <2>4
  <2>7. budget' \in BudgetType
    BY <2>1, <2>2, <2>6 DEF BudgetType
  <2>8. budget' # None
    BY <2>7, NoneAssumption
  <2>9. charged' = charged - back
    BY <1>2, <2>1, <2>2, <2>4, <2>5
  <2>10. budget # None /\ budget.charged <= charged /\ ledger.reserved \in Nat /\ PerCost \in Nat
         /\ MaxCost \in Nat
    BY <1>2, <1>5, Exchanging, BudgetAssumption DEF Reserved, Types
  <2>11. charged' \in Nat
    BY <1>2, <2>2, <2>4, <2>9, <2>10
  <2>12. Types'
    BY <1>2, <2>1, <2>7, <2>11 DEF Types
  <2>13. Reserved'
    BY <1>2, <2>1, <2>2, <2>4, <2>5, <2>9, <2>10 DEF Reserved
  <2>14. InOrder' /\ SentIsUsed'
    BY <1>2, <2>1, <2>5, <2>8, <2>10 DEF InOrder, Passed, Current, SentIsUsed
  <2>15. Settled'
    BY <1>2, <2>3, <2>9 DEF Settled
  <2>16. Idle' /\ Counting' /\ Sending' /\ Unknown'
    BY <2>1, <2>2, <2>5, <2>15 DEF Idle, Counting, Sending, Unknown
  <2> QED
    BY <2>12, <2>13, <2>14, <2>16 DEF Inv
<1> QED
  BY <1>3, <1>4, <1>5

LEMMA NextInv == ASSUME Inv, [Next]_vars PROVE Inv'
<1>1. CASE UNCHANGED vars
  BY <1>1 DEF vars, Inv, Types, Reserved, InOrder, Passed, Current, SentIsUsed, Idle, Counting,
    Sending, Unknown, Settled, Covered, Open
<1> QED
  BY <1>1, TickInv, ReserveReviewInv, FinishReviewInv, ReserveRequestInv, RefuseRequestInv,
    AdmitAndSendInv, LoseWorkerInv, ProviderBillsInv DEF Next

LEMMA Invariance == Spec => []Inv
<1>1. Init => Inv
  BY InitInv
<1>2. Inv /\ [Next]_vars => Inv'
  BY NextInv
<1> QED
  BY <1>1, <1>2, PTL DEF Spec
-----------------------------------------------------------------------------
\* aggregate() claims coverage at the end of the ledger: then every unit review and
\* the integration review have passed, in whatever order the caller called the ledger.
THEOREM CoverageIsComplete == Spec => []CoverageNeedsEveryReview
<1>1. Inv => CoverageNeedsEveryReview
  <2> SUFFICES ASSUME Inv, Complete PROVE accepted = Ordinals
    BY DEF CoverageNeedsEveryReview
  <2> QED
    BY DEF Complete, Inv, InOrder, Passed, Ordinals
<1> QED
  BY <1>1, Invariance, PTL

\* What was billed, and the largest bill an open or lost request may still cause, is
\* covered by the charges, these by the reservations, and these by the policy.
THEOREM BillsAreReserved == Spec => []BilledIsReserved
<1>1. Inv => BilledIsReserved
  <2> SUFFICES ASSUME Inv PROVE BilledIsReserved
    OBVIOUS
  <2>1. charged <= ledger.reserved /\ ledger.reserved <= MaxCost
    BY DEF Inv, Reserved
  <2>2. \A r, t \in upstream : r = t
    BY Upstream
  <2>3. ASSUME NEW r \in upstream PROVE bills + Exact(r.input, r.cap) <= charged * Scale
    <3>1. r.cap \in 0..MaxOutput /\ r.cap <= r.cap
      BY Upstream, BudgetAssumption
    <3> QED
      BY <3>1, BillSums
  <2>4. bills <= charged * Scale
    <3>1. CASE upstream # {}
      <4>1. PICK r \in upstream : TRUE
        BY <3>1
      <4>2. Exact(r.input, 0) \in Nat /\ bills + Exact(r.input, 0) <= charged * Scale
        <5>1. 0 \in 0..MaxOutput /\ 0 <= r.cap
          BY Upstream, BudgetAssumption
        <5> QED
          BY <5>1, BillSums
      <4>3. bills \in Nat /\ charged * Scale \in Nat
        BY Products, BudgetAssumption DEF Inv, Types
      <4> QED
        BY <4>2, <4>3
    <3>2. CASE upstream = {} /\ exchange = "counting"
      <4>1. 0 \in 0..Context /\ 0 \in Nat /\ 0 <= budget.active.cap
        BY <3>2, Exchanging, BudgetAssumption
      <4>2. Exact(0, 0) \in Nat /\ bills + Exact(0, 0) <= charged * Scale
        BY <3>2, <4>1, ActiveCovers
      <4>3. bills \in Nat /\ charged * Scale \in Nat
        BY Products, BudgetAssumption DEF Inv, Types
      <4> QED
        BY <4>2, <4>3
    <3>3. CASE upstream = {} /\ exchange = "idle"
      BY <3>3 DEF Inv, Idle, Unknown, Settled, Open
    <3> QED
      BY <3>1, <3>2, <3>3 DEF Inv, Types, Sending
  <2> QED
    BY <2>1, <2>2, <2>3, <2>4 DEF BilledIsReserved
<1> QED
  BY <1>1, Invariance, PTL

\* exchange() and Admission send a request only when nothing earlier is unaccounted
\* for and all earlier reviews passed, and never the same request of a review twice.
THEOREM NothingAfterUnknown == Spec => NothingSentAfterUnknown
<1> DEFINE Step ==
      /\ sent' # sent => upstream = {} /\ accepted = 0..(Current - 1)
      /\ upstream \subseteq upstream' /\ upstream' # upstream => sent'[Current] # sent[Current]
<1>1. ASSUME Inv, [Next]_vars PROVE [Step]_vars
  <2>1. ASSUME NEW count \in 0..Context, AdmitAndSend(count), sent' # sent \/ upstream' # upstream
        PROVE  Step
    <3>1. exchange = "counting" /\ upstream = {} /\ ledger.active # None
          /\ Current \in Ordinals /\ sent \in [Ordinals -> SUBSET Requests]
          /\ budget.active.req \notin sent[Current]
      BY <1>1, <2>1, Exchanging DEF AdmitAndSend, Inv, Counting, Types, SentIsUsed
    <3>2. sent' = [sent EXCEPT ![Current] = @ \union {budget.active.req}]
      BY <2>1 DEF AdmitAndSend
    <3>3. accepted = 0..(Current - 1)
      BY <1>1, <3>1 DEF Inv, InOrder, Passed, Current, Types
    <3> QED
      BY <3>1, <3>2, <3>3
  <2>2. CASE ~\E count \in 0..Context : AdmitAndSend(count)
    <3>1. UNCHANGED sent /\ (upstream \subseteq upstream' => UNCHANGED upstream)
      BY <1>1, <2>2 DEF Next, Tick, ReserveReview, FinishReview, ReserveRequest, RefuseRequest,
        LoseWorker, ProviderBills, vars
    <3> QED
      BY <3>1
  <2> QED
    BY <2>1, <2>2
<1> QED
  BY <1>1, Invariance, PTL DEF Spec, NothingSentAfterUnknown

\* The two ledgers implement the abstract promise, with the charges as commitments:
\* committed before it is billed, released only down to the bills, within the limit.
THEOREM ImplementsSpendLimit == Spec => SpendsWithinLimit
<1>1. Init => Spend!Init
  BY BudgetAssumption DEF Init, Spend!Init
<1>2. ASSUME Inv, [Next]_vars
      PROVE  [Spend!Next]_<<charged * Scale, bills>>
  <2>0. charged \in Nat /\ bills \in Nat /\ Scale \in Nat /\ MaxCost \in Nat
        /\ charged' \in Nat /\ bills' \in Nat /\ charged' <= MaxCost
        /\ charged * Scale \in Nat /\ charged' * Scale \in Nat /\ MaxCost * Scale \in Nat
        /\ charged' * Scale <= MaxCost * Scale
    <3>1. Inv'
      BY <1>2, NextInv
    <3>2. charged \in Nat /\ bills \in Nat /\ Scale \in Nat /\ MaxCost \in Nat
          /\ charged' \in Nat /\ bills' \in Nat /\ charged' <= MaxCost
      BY <1>2, <3>1, BudgetAssumption DEF Inv, Types, Reserved
    <3> QED
      BY <3>2, Products
  <2>1. ASSUME NEW req \in Requests, NEW cap \in 1..MaxOutput, ReserveRequest(req, cap)
        PROVE  UNCHANGED <<charged, bills>> \/ Spend!Commit
    <3>1. CASE ~MayRequest(req, cap)
      BY <2>1, <3>1 DEF ReserveRequest, Abandon
    <3>2. CASE MayRequest(req, cap)
      <4>1. charged <= charged' /\ UNCHANGED bills
        <5>1. budget \in BudgetType /\ Cost(Context, cap) \in Nat
          <6>1. Context \in Nat /\ cap \in Nat
            BY BudgetAssumption
          <6> QED
            BY <1>2, <2>1, <6>1, CostCovers DEF ReserveRequest, Inv, Types
        <5>2. budget'.charged = budget.charged + Cost(Context, cap) /\ budget.charged \in Nat
          BY <2>1, <3>2, <5>1 DEF ReserveRequest, BudgetType
        <5> QED
          BY <2>0, <2>1, <3>2, <5>1, <5>2 DEF ReserveRequest, Charge
      <4>2. charged * Scale <= charged' * Scale
        BY <2>0, <4>1, Products
      <4>3. charged' * Scale \in (charged * Scale)..(MaxCost * Scale)
        <5> DEFINE before == charged * Scale  after == charged' * Scale  most == MaxCost * Scale
        <5>1. before \in Nat /\ after \in Nat /\ most \in Nat /\ before <= after /\ after <= most
          BY <2>0, <4>2
        <5> HIDE DEF before, after, most
        <5>2. after \in before..most
          BY <5>1
        <5> QED
          BY <5>2 DEF before, after, most
      <4> QED
        BY <4>1, <4>3 DEF Spend!Commit
    <3> QED
      BY <3>1, <3>2
  <2>2. CASE ProviderBills
    <3>1. PICK r \in upstream, output \in 0..MaxOutput :
            /\ output <= r.cap
            /\ bills' = bills + Exact(r.input, output)
            /\ \/ /\ exchange = "sending"
                  /\ budget' = [budget EXCEPT !.active = None, !.admitted = FALSE,
                       !.charged = @ - (budget.active.cost - Cost(r.input, output))]
                  /\ Charge(budget')
               \/ UNCHANGED charged
      BY <2>2 DEF ProviderBills, Abandon
    <3>2. Exact(r.input, output) \in Nat /\ bills' <= charged * Scale
      BY <1>2, <3>1, BillSums
    <3>3. bills' \in bills..(charged * Scale)
      BY <2>0, <3>1, <3>2
    <3>4. CASE UNCHANGED charged
      BY <2>0, <3>2, <3>3, <3>4 DEF Spend!Bill, Spend!Next
    <3>5. CASE ~UNCHANGED charged
      <4> DEFINE back == budget.active.cost - Cost(r.input, output)
      <4>1. /\ budget \in BudgetType /\ budget.charged \in Nat /\ back \in Nat
            /\ bills' <= (charged - back) * Scale
        BY <1>2, <3>1, <3>5, BillSums, Exchanging
      <4>2. budget' = [budget EXCEPT !.active = None, !.admitted = FALSE, !.charged = @ - back]
            /\ Charge(budget')
        BY <3>1, <3>5
      <4> HIDE DEF back
      <4>3. budget'.charged = budget.charged - back
        BY <4>1, <4>2 DEF BudgetType
      <4>4. charged' = charged - back
        BY <2>0, <4>1, <4>2, <4>3 DEF Charge
      <4>5. charged' * Scale <= charged * Scale
        <5>1. charged' <= charged
          BY <2>0, <4>1, <4>4
        <5> QED
          BY <2>0, <5>1, Products
      <4>6. charged' * Scale \in bills'..(charged * Scale)
        BY <2>0, <4>1, <4>4, <4>5
      <4> QED
        BY <3>3, <4>6 DEF Spend!Bill, Spend!Next
    <3> QED
      BY <3>4, <3>5
  <2>3. CASE UNCHANGED <<charged, bills>>
    BY <2>3
  <2>4. CASE Tick \/ (\E n \in Ordinals : ReserveReview(n)) \/ RefuseRequest \/ LoseWorker
             \/ (\E passed \in BOOLEAN : FinishReview(passed)) \/ UNCHANGED vars
             \/ (\E count \in 0..Context : AdmitAndSend(count))
    BY <2>4, <2>3 DEF Tick, ReserveReview, RefuseRequest, LoseWorker, FinishReview, AdmitAndSend,
      Abandon, vars
  <2> QED
    BY <1>2, <2>1, <2>2, <2>3, <2>4 DEF Next, Spend!Next
<1>3. Inv /\ [Next]_vars => [Spend!Next]_<<charged * Scale, bills>>
  BY <1>2
<1> QED
  BY <1>1, <1>3, Invariance, PTL DEF Spec, SpendsWithinLimit, Spend!Spec
=============================================================================
