--------------------------- MODULE SettlementProps ---------------------------
(***************************************************************************)
(* What the settlement core must never do, and what it must finish.        *)
(***************************************************************************)
EXTENDS Settlement, FiniteSetsExt

-----------------------------------------------------------------------------
(* State invariants *)

\* An order, its delivery and its order.confirmed row always tell one story:
\* READY and exactly one outbox row if and only if APPROVED, CANCELLED if and
\* only if it ended otherwise.  updateAfterPayment and expireUncharged write them
\* in one transaction, whichever of the five paths settles, in whatever order.
SettledTogether ==
  \A o \in Orders :
    /\ outbox[o] = IF status[o] = "APPROVED" THEN 1 ELSE 0
    /\ (delivery[o] = "READY") <=> (status[o] = "APPROVED")
    /\ (delivery[o] = "CANCELLED") <=> (status[o] \in {"DECLINED", "ERROR", "EXPIRED"})

\* Units of product i in the APPROVED orders.
UnitsSold(i) ==
  MapThenSumSet(LAMBDA o : Quantity[o][i], {o \in Orders : status[o] = "APPROVED"})

\* Every unit is on the shelf or in exactly one APPROVED order: a duplicate event,
\* a retry or a second settler never takes stock twice, and nothing else takes it.
StockConserved == \A i \in Products : stock[i] + UnitsSold(i) = InitialStock[i]

\* A payment id in an order's row is a payment Wompi made for that very order, so
\* the partial unique index on provider_transaction_id never fires.
BindingSound ==
  \A o \in Orders : HasProviderCharge(provider[o]) => charge[provider[o]].ref = o

\* Goods leave only for captured money: an APPROVED order holds the id of an
\* APPROVED payment that no settler ever tried to void; and a DECLINED order
\* holds the id of a payment Wompi declined.
ConfirmedIsCaptured ==
  \A o \in Orders :
    /\ status[o] = "APPROVED" => /\ charge[provider[o]].status = "APPROVED"
                                 /\ provider[o] \notin voidTried
    /\ status[o] = "DECLINED" => charge[provider[o]].status = "DECLINED"

\* What a sealed key replays is, for ever, what the order's row says; and an
\* OUT_OF_STOCK replay means the order failed and its payment was sent to void.
ReplayTellsTheTruth ==
  \A k \in Keys : Sealed(k) =>
    LET o == idem[k].order IN
      /\ idem[k].response = status[o] /\ status[o] \in Final
      /\ idem[k].state = "oos" => status[o] = "ERROR" /\ provider[o] \in voidTried

\* A running handler that began a shopper's key still holds it open for its own
\* order, and it is alone: nobody seals, deletes or reuses the key under it.
HoldsClientKey(p) == pc[p] # "idle" /\ ctx[p].key \in ClientKeys

ClientKeyOwned ==
  \A p \in Procs : HoldsClientKey(p) =>
    /\ idem[ctx[p].key] # None /\ ~Sealed(ctx[p].key)
    /\ ctx[p].order \in {None, idem[ctx[p].key].order}
    /\ \A q \in Procs \ {p} : pc[q] # "idle" => ctx[q].key # ctx[p].key

-----------------------------------------------------------------------------
(* Action properties *)

\* Once an order is final no handler, however stale its aggregate, moves its
\* status, payment id, delivery or outbox rows again.
FinalIsFrozen ==
  [][\A o \in Orders : status[o] \in Final =>
       /\ status'[o] = status[o] /\ provider'[o] = provider[o]
       /\ delivery'[o] = delivery[o] /\ outbox'[o] = outbox[o]]_vars

\* A sealed shopper key is never reopened, changed or deleted, so every later
\* request with it gets the same answer.
ClientKeyStaysSealed ==
  [][\A k \in ClientKeys : Sealed(k) => idem'[k] = idem[k]]_vars

-----------------------------------------------------------------------------
(* Refinement of the abstract order book *)

PhaseOf(st) ==
  CASE st = "ABSENT"   -> "unplaced"
    [] st = "PENDING"  -> "open"
    [] st = "APPROVED" -> "confirmed"
    [] st = "EXPIRED"  -> "expired"
    [] OTHER           -> "refused"

Book == INSTANCE OrderBook WITH
  phase <- [o \in Orders |-> PhaseOf(status[o])], notices <- outbox

\* Five concurrent paths, crashes included, amount to an order book that decides
\* each order once and atomically.
ImplementsOrderBook == Book!Spec

-----------------------------------------------------------------------------
(* Liveness *)

\* Running handlers go on: each await returns.  A claim's lease lapses, Wompi
\* decides a payment it holds, and the tick comes again for as long as an order
\* stays on its list.  Wompi answers some of the tick's status requests.  Shoppers,
\* notifications and crashes are under no obligation.
Fairness ==
  /\ \A p \in Procs : WF_vars(Step(p))
  /\ \A p \in Procs : SF_vars(StuckPoll(p))
  /\ \A o \in Orders :
       /\ SF_vars(\E p \in JobProcs : StuckList(p, o))
       /\ SF_vars(\E p \in JobProcs : ExpireUncharged(p, o))
       /\ WF_vars(LeaseLapses(o))
  /\ \A pid \in Pids : WF_vars(\E st \in Outcomes : ResolveCharge(pid, st))

FairSpec == Spec /\ Fairness

\* docs/testing.md, "Stuck recovery": a charged order that is still PENDING is
\* settled by the stuck job, even if every notification is lost.
ChargedOrderSettles ==
  \A o \in Orders :
    (status[o] = "PENDING" /\ HasProviderCharge(provider[o])) ~> (status[o] # "PENDING")

\* No order stays PENDING for ever: it is settled or it expires, even if API
\* handlers die at any await.
EveryOrderEnds == \A o \in Orders : (status[o] = "PENDING") ~> (status[o] \in Final)

-----------------------------------------------------------------------------
(* Claims of the documentation that the code does not keep in every run *)

\* docs/architecture.md: EXPIRED means "no successful charge path".
ExpiredMeansUncharged ==
  \A o \in Orders, pid \in Pids :
    status[o] = "EXPIRED" /\ charge[pid].ref = o => charge[pid].status # "APPROVED"

\* Captured money of an order that could not be served from stock.
Uncompensated(o) == status[o] = "ERROR" /\ charge[provider[o]].status = "APPROVED"

\* While no handler dies, an APPROVED payment of an out-of-stock order has a void
\* tried already or a handler on its way to it: the ERROR row and the void are two
\* awaits of one handler.
OutOfStockIsVoided ==
  \A o \in Orders : Uncompensated(o) =>
    \/ provider[o] \in voidTried
    \/ \E p \in Procs : pc[p] = "void" /\ ctx[p].pid = provider[o]

\* A handler dies with its work unfinished.
DiesHalfway(p) == Crash(p) /\ ctx[p].key # None /\ ~Sealed(ctx[p].key)

\* The broker redelivers what was not acknowledged, and at some time handlers stop
\* dying halfway.
RedeliveringSpec ==
  /\ FairSpec
  /\ <>[][\A p \in Procs : ~DiesHalfway(p)]_vars
  /\ \A o \in Orders, pid \in Pids :
       SF_vars(\E p \in ConsumerProcs : WebhookLookup(p, o, pid, "APPROVED"))

\* README.md: the order stays ERROR and "the system attempts a void".
OutOfStockGetsVoided ==
  \A o \in Orders, pid \in Pids :
    (Uncompensated(o) /\ provider[o] = pid) ~> pid \in voidTried
=============================================================================
