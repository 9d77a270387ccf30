------------------------------ MODULE Settlement ------------------------------
(***************************************************************************)
(* The settlement core: how an order goes from PENDING to its final status *)
(* when the pay request, the sync request, the Wompi webhook consumer, the *)
(* stuck-pending job and the orphan job all act on the same Postgres rows. *)
(*                                                                         *)
(* A handler is a process.  Each of its awaits that reads or writes shared *)
(* state is one action, and pc[p] names the await it is at, so that        *)
(* handlers interleave, and crash, exactly between awaits.  One Postgres   *)
(* transaction with its row lock is one action.                            *)
(***************************************************************************)
EXTENDS Integers

CONSTANTS
  Orders,         \* transaction ids
  Products,       \* product ids
  Quantity,       \* Quantity[o][i]: units of product i in the lines of order o
  InitialStock,   \* InitialStock[i]: units of product i before any order
  Pids,           \* the ids Wompi gives to its payments
  ClientKeys,     \* Idempotency-Key header values of the shoppers
  ApiProcs,       \* processes serving POST /transactions, .../pay and .../sync
  ConsumerProcs,  \* processes consuming payment.events
  JobProcs,       \* worker processes running the reconciliation tick
  Crashable,      \* processes that may die between two awaits
  WidgetOrders,   \* orders whose shopper asks for a Wompi widget session
  Outcomes,       \* what Wompi may decide: a part of APPROVED, DECLINED, ERROR
  None,           \* SQL NULL, a missing row
  Claim           \* the "claim:<transaction id>" placeholder

Procs == ApiProcs \cup ConsumerProcs \cup JobProcs

ProviderStatus == {"PENDING", "APPROVED", "DECLINED", "ERROR"}
Final   == {"APPROVED", "DECLINED", "ERROR", "EXPIRED"}
\* "ABSENT" stands for an order with no row yet.
OrderStatus    == {"ABSENT", "PENDING"} \cup Final
DeliveryStatus == {"ABSENT", "PENDING", "READY", "CANCELLED"}

\* The worker names its idempotency keys after the payment and its status.
WorkerKeys == {"webhook", "stuck"} \X Pids \X ProviderStatus
Keys == ClientKeys \cup WorkerKeys

ASSUME OrderAssumption ==
  /\ Quantity \in [Orders -> [Products -> Nat]]
  /\ InitialStock \in [Products -> Nat]

ASSUME ProcAssumption == Crashable \subseteq Procs

ASSUME OutcomeAssumption == Outcomes \subseteq {"APPROVED", "DECLINED", "ERROR"}

VARIABLES
  \* table transactions, deliveries, inventory, outbox_events, idempotency_keys
  status,       \* status[o]
  provider,     \* provider[o]: provider_transaction_id
  leaseLapsed,  \* leaseLapsed[o]: updated_at of the claim is before the lease
  delivery,     \* delivery[o]: status of the delivery row
  stock,        \* stock[i]: available
  outbox,       \* outbox[o]: order.confirmed rows of aggregate o
  idem,         \* idem[k]: the row of key k, or None
  \* Wompi
  charge,       \* charge[pid]: [ref, status]; ref = None before it exists
  events,       \* <<pid, status>> notifications on their way to the worker
  sessions,     \* orders with a widget session in a browser
  \* handlers
  pc,           \* pc[p]: the await process p is at
  ctx,          \* ctx[p]: the local variables it still needs
  voidTried     \* payments voidPayment was called for

rows     == <<status, provider, leaseLapsed, delivery>>
wompi    == <<charge, events, sessions, voidTried>>
handlers == <<pc, ctx>>
vars     == <<rows, stock, outbox, idem, wompi, handlers>>

Labels ==
  {"idle", "create_save",
   "pay_read", "pay_claim", "pay_charge", "pay_attach", "pay_release", "pay_poll",
   "sync_read", "sync_poll",
   "wh_find", "wh_wait", "wh_reclaim", "wh_begin", "wh_wait2", "wh_reclaim2", "wh_begin2",
   "stuck_poll", "stuck_begin",
   "settle", "void", "complete", "complete_oos", "abort"}

\* One idempotency row: response_json and error_code fold into "state".
KeyRow == [order: Orders, state: {"open", "done", "oos"}, response: OrderStatus]

ASSUME SentinelAssumption ==
  /\ None \notin Orders \cup Pids \cup Keys /\ None \notin KeyRow
  /\ Claim \notin Pids \cup {None}
  /\ ClientKeys \cap WorkerKeys = {}

Context ==
  [order: Orders \cup {None}, key: Keys \cup {None}, pid: Pids \cup {None},
   reported: ProviderStatus,                     \* provider.status in the code
   seenStatus: OrderStatus, seenProvider: Pids \cup {None, Claim},  \* the aggregate
   saved: OrderStatus]                           \* saved.dto.status

NoContext ==
  [order |-> None, key |-> None, pid |-> None, reported |-> "PENDING",
   seenStatus |-> "ABSENT", seenProvider |-> None, saved |-> "ABSENT"]

WorkerLabels ==
  {"wh_find", "wh_wait", "wh_reclaim", "wh_begin", "wh_wait2", "wh_reclaim2", "wh_begin2",
   "stuck_begin"}

\* Which locals are set where; the worker's handlers never touch a shopper's key.
LocalsOK(p) ==
  /\ pc[p] \notin {"idle", "abort"} => ctx[p].order \in Orders
  /\ pc[p] \notin {"idle", "create_save", "stuck_poll"} => ctx[p].key \in Keys
  /\ pc[p] \notin {"idle", "create_save", "pay_read", "pay_claim", "pay_charge",
                   "pay_release", "abort"} => ctx[p].pid \in Pids
  /\ pc[p] \in WorkerLabels => ctx[p].key \in WorkerKeys
  /\ pc[p] \in {"idle", "create_save", "stuck_poll"} => ctx[p].key = None

HandlersOK ==
  /\ pc \in [Procs -> Labels]
  /\ ctx \in [Procs -> Context]
  /\ \A p \in Procs : LocalsOK(p)

RowsOK ==
  /\ status \in [Orders -> OrderStatus]
  /\ provider \in [Orders -> Pids \cup {None, Claim}]
  /\ leaseLapsed \in [Orders -> BOOLEAN]
  /\ delivery \in [Orders -> DeliveryStatus]
  /\ stock \in [Products -> Nat]
  /\ outbox \in [Orders -> Nat]

IdemOK == idem \in [Keys -> KeyRow \cup {None}]

WompiOK ==
  /\ charge \in [Pids -> [ref: Orders \cup {None}, status: ProviderStatus]]
  /\ events \in SUBSET (Pids \X ProviderStatus)
  /\ sessions \in SUBSET Orders
  /\ voidTried \in SUBSET Pids

TypeOK == RowsOK /\ IdemOK /\ WompiOK /\ HandlersOK

Init ==
  /\ status = [o \in Orders |-> "ABSENT"]
  /\ provider = [o \in Orders |-> None]
  /\ leaseLapsed = [o \in Orders |-> FALSE]
  /\ delivery = [o \in Orders |-> "ABSENT"]
  /\ stock = InitialStock
  /\ outbox = [o \in Orders |-> 0]
  /\ idem = [k \in Keys |-> None]
  /\ charge = [pid \in Pids |-> [ref |-> None, status |-> "PENDING"]]
  /\ events = {}
  /\ sessions = {}
  /\ pc = [p \in Procs |-> "idle"]
  /\ ctx = [p \in Procs |-> NoContext]
  /\ voidTried = {}

-----------------------------------------------------------------------------
(* Control flow of a handler *)

Goto(p, label) == pc' = [pc EXCEPT ![p] = label]

\* The local variables of p become c.
Locals(p, c) == ctx' = [ctx EXCEPT ![p] = c]

Return(p) == Goto(p, "idle") /\ Locals(p, NoContext)

\* Only the key is still needed once a handler has decided to abort it.
GotoAbort(p) ==
  Goto(p, "abort") /\ Locals(p, [NoContext EXCEPT !.key = ctx[p].key])

\* Locals c together with the aggregate of order o as it is now.
Seeing(c, o) == [c EXCEPT !.order = o, !.seenStatus = status[o], !.seenProvider = provider[o]]

\* Mutant of HasProviderCharge: forgets that a claim is not a charge.
ClaimCountsAsCharge(prov) == prov # None

HasProviderCharge(prov) == prov \in Pids

Open(k, o) == idem' = [idem EXCEPT ![k] = [order |-> o, state |-> "open", response |-> "ABSENT"]]

Sealed(k) == idem[k] # None /\ idem[k].state # "open"

-----------------------------------------------------------------------------
(* POST /transactions: check the stock of every line, then save the rows. *)

CreateCheckStock(p, o) ==
  /\ p \in ApiProcs /\ pc[p] = "idle"
  /\ status[o] = "ABSENT"
  /\ \A q \in Procs : ~(pc[q] = "create_save" /\ ctx[q].order = o)   \* the id is fresh
  /\ \A i \in Products : stock[i] >= Quantity[o][i]
  /\ Goto(p, "create_save")
  /\ Locals(p, [ctx[p] EXCEPT !.order = o])
  /\ UNCHANGED <<rows, stock, outbox, idem, wompi>>

CreateSave(p) ==
  /\ pc[p] = "create_save"
  /\ LET o == ctx[p].order IN
       /\ status' = [status EXCEPT ![o] = "PENDING"]
       /\ delivery' = [delivery EXCEPT ![o] = "PENDING"]
  /\ Return(p)
  /\ UNCHANGED <<provider, leaseLapsed, stock, outbox, idem, wompi>>

-----------------------------------------------------------------------------
(* POST /transactions/:id/pay *)

\* Mutant of PayBegin: begin is an upsert, not an insert.
PayBeginUpserts(p, o, k) ==
  /\ p \in ApiProcs /\ pc[p] = "idle"
  /\ Open(k, o)
  /\ Goto(p, "pay_read")
  /\ Locals(p, [ctx[p] EXCEPT !.order = o, !.key = k])
  /\ UNCHANGED <<rows, stock, outbox, wompi>>

\* A request whose key is known, in progress or sealed, is answered without a
\* write, and so is one that loses the insert: only a fresh key goes on.
PayBegin(p, o, k) ==
  /\ p \in ApiProcs /\ pc[p] = "idle"
  /\ idem[k] = None
  /\ Open(k, o)
  /\ Goto(p, "pay_read")
  /\ Locals(p, [ctx[p] EXCEPT !.order = o, !.key = k])
  /\ UNCHANGED <<rows, stock, outbox, wompi>>

PayRead(p) ==
  /\ pc[p] = "pay_read"
  /\ LET o == ctx[p].order IN
       \/ /\ status[o] = "PENDING" /\ HasProviderCharge(provider[o])
          /\ pc' = [pc EXCEPT ![p] = "pay_poll"]
          /\ Locals(p, [Seeing(ctx[p], o) EXCEPT !.pid = provider[o]])
       \/ /\ status[o] = "PENDING" /\ provider[o] = None
          /\ Goto(p, "pay_claim")
          /\ Locals(p, Seeing(ctx[p], o))
       \/ /\ status[o] # "PENDING" \/ provider[o] = Claim
          /\ GotoAbort(p)
  /\ UNCHANGED <<rows, stock, outbox, idem, wompi>>

\* Compare-and-set on status and provider_transaction_id.
ClaimForPayment(p) ==
  /\ pc[p] = "pay_claim"
  /\ LET o == ctx[p].order IN
       \/ /\ status[o] = "PENDING" /\ provider[o] = None
          /\ provider' = [provider EXCEPT ![o] = Claim]
          /\ leaseLapsed' = [leaseLapsed EXCEPT ![o] = FALSE]
          /\ Goto(p, "pay_charge")
          /\ UNCHANGED ctx
       \/ /\ ~(status[o] = "PENDING" /\ provider[o] = None)
          /\ GotoAbort(p)
          /\ UNCHANGED <<provider, leaseLapsed>>
  /\ UNCHANGED <<status, delivery, stock, outbox, idem, wompi>>

\* Wompi creates payment pid for order o with status st and will notify it.
NewCharge(pid, o, st) ==
  /\ charge[pid].ref = None
  /\ charge' = [charge EXCEPT ![pid] = [ref |-> o, status |-> st]]
  /\ events' = events \cup {<<pid, st>>}

\* createCardPayment answers with the new payment and its status.
CardPaymentAnswered(p, pid, st) ==
  /\ pc[p] = "pay_charge"
  /\ NewCharge(pid, ctx[p].order, st)
  /\ Goto(p, "pay_attach")
  /\ Locals(p, [ctx[p] EXCEPT !.pid = pid, !.reported = st])
  /\ UNCHANGED <<rows, stock, outbox, idem, sessions, voidTried>>

\* The card is charged but the answer is lost or comes after the 15 s timeout.
CardPaymentAnswerLost(p, pid) ==
  /\ pc[p] = "pay_charge"
  /\ NewCharge(pid, ctx[p].order, "PENDING")
  /\ Goto(p, "pay_release")
  /\ UNCHANGED <<rows, stock, outbox, idem, sessions, voidTried, ctx>>

CardPaymentFails(p) ==
  /\ pc[p] = "pay_charge"
  /\ Goto(p, "pay_release")
  /\ UNCHANGED <<rows, stock, outbox, idem, wompi, ctx>>

\* The update is a no-op on a row that is not PENDING under the claim any more,
\* and the handler does not look at the number of rows it touched.
AttachProviderTransactionId(p) ==
  /\ pc[p] = "pay_attach"
  /\ LET o == ctx[p].order IN
       provider' = IF status[o] = "PENDING" /\ provider[o] = Claim
                     THEN [provider EXCEPT ![o] = ctx[p].pid] ELSE provider
  /\ Goto(p, IF ctx[p].reported = "PENDING" THEN "pay_poll" ELSE "settle")
  /\ UNCHANGED <<status, leaseLapsed, delivery, stock, outbox, idem, wompi, ctx>>

\* The attach itself throws: the catch block releases the claim of a charged card.
AttachFails(p) ==
  /\ pc[p] = "pay_attach"
  /\ Goto(p, "pay_release")
  /\ UNCHANGED <<rows, stock, outbox, idem, wompi, ctx>>

\* Mutant of ReleaseClaim: the update has no WHERE on the claim.
ReleaseWhateverIsThere(p) ==
  /\ pc[p] = "pay_release"
  /\ provider' = [provider EXCEPT ![ctx[p].order] = None]
  /\ GotoAbort(p)
  /\ UNCHANGED <<status, leaseLapsed, delivery, stock, outbox, idem, wompi>>

ReleaseClaim(p) ==
  /\ pc[p] = "pay_release"
  /\ LET o == ctx[p].order IN
       provider' = IF status[o] = "PENDING" /\ provider[o] = Claim
                     THEN [provider EXCEPT ![o] = None] ELSE provider
  /\ GotoAbort(p)
  /\ UNCHANGED <<status, leaseLapsed, delivery, stock, outbox, idem, wompi>>

\* pollUntilResolved: the last status it reads, PENDING once the attempts are spent.
PayPoll(p) ==
  /\ pc[p] = "pay_poll"
  /\ Locals(p, [ctx[p] EXCEPT !.reported = charge[ctx[p].pid].status])
  /\ Goto(p, "settle")
  /\ UNCHANGED <<rows, stock, outbox, idem, wompi>>

PollFails(p) ==
  /\ pc[p] \in {"pay_poll", "sync_poll"}
  /\ GotoAbort(p)
  /\ UNCHANGED <<rows, stock, outbox, idem, wompi>>

-----------------------------------------------------------------------------
(* POST /transactions/:id/sync, with the payment id the browser brings back *)

SyncBegin(p, o, k, pid) ==
  /\ p \in ApiProcs /\ pc[p] = "idle"
  /\ charge[pid].ref # None
  /\ idem[k] = None
  /\ Open(k, o)
  /\ Goto(p, "sync_read")
  /\ Locals(p, [ctx[p] EXCEPT !.order = o, !.key = k, !.pid = pid])
  /\ UNCHANGED <<rows, stock, outbox, wompi>>

\* findById after findAggregateById reads the same row: a final status is final.
SyncRead(p) ==
  /\ pc[p] = "sync_read"
  /\ LET o == ctx[p].order IN
       \/ /\ status[o] \in Final /\ provider[o] = ctx[p].pid
          /\ Goto(p, "complete")
          /\ Locals(p, [ctx[p] EXCEPT !.saved = status[o]])
       \/ /\ \/ status[o] = "ABSENT"
             \/ HasProviderCharge(provider[o]) /\ provider[o] # ctx[p].pid
          /\ GotoAbort(p)
       \/ /\ \/ status[o] # "ABSENT" /\ ~HasProviderCharge(provider[o])
             \/ status[o] = "PENDING" /\ provider[o] = ctx[p].pid
          /\ Goto(p, "sync_poll")
          /\ Locals(p, Seeing(ctx[p], o))
  /\ UNCHANGED <<rows, stock, outbox, idem, wompi>>

\* Mutant of SyncPoll: trusts the payment id the browser sends.
SyncPollUnchecked(p) ==
  /\ pc[p] = "sync_poll"
  /\ Locals(p, [ctx[p] EXCEPT !.reported = charge[ctx[p].pid].status])
  /\ Goto(p, "settle")
  /\ UNCHANGED <<rows, stock, outbox, idem, wompi>>

\* The payment must carry this order's id as its reference (and its amount).
SyncPoll(p) ==
  /\ pc[p] = "sync_poll"
  /\ LET pid == ctx[p].pid IN
       IF charge[pid].ref = ctx[p].order
         THEN /\ Locals(p, [ctx[p] EXCEPT !.reported = charge[pid].status])
              /\ Goto(p, "settle")
         ELSE GotoAbort(p)
  /\ UNCHANGED <<rows, stock, outbox, idem, wompi>>

-----------------------------------------------------------------------------
(* payment.events consumer.  An event stays in "events": it may come late, *)
(* twice, out of order, or never.  A handler that throws hands it back.    *)

\* By provider id; otherwise by the reference Wompi itself confirms, unless that
\* order is bound to another payment.
WebhookLookup(p, o, pid, st) ==
  /\ p \in ConsumerProcs /\ pc[p] = "idle"
  /\ <<pid, st>> \in events
  /\ \/ provider[o] = pid
     \/ /\ \A other \in Orders : provider[other] # pid
        /\ charge[pid].ref = o
        /\ status[o] # "ABSENT" /\ ~HasProviderCharge(provider[o])
  /\ Goto(p, "wh_find")
  /\ Locals(p, [Seeing(NoContext, o) EXCEPT
       !.pid = pid, !.reported = st, !.key = <<"webhook", pid, st>>])
  /\ UNCHANGED <<rows, stock, outbox, idem, wompi>>

WebhookFind(p) ==
  /\ pc[p] = "wh_find"
  /\ LET k == ctx[p].key IN
       \/ Sealed(k) /\ Return(p)
       \/ idem[k] # None /\ ~Sealed(k) /\ Goto(p, "wh_wait") /\ UNCHANGED ctx
       \/ idem[k] = None /\ Goto(p, "wh_begin") /\ UNCHANGED ctx
  /\ UNCHANGED <<rows, stock, outbox, idem, wompi>>

\* waitForIdempotencyTerminal: the row is complete, gone, or still open after
\* the last of its 40 reads.
WebhookWait(p, at, next) ==
  /\ pc[p] = at
  /\ IF Sealed(ctx[p].key) THEN Return(p) ELSE Goto(p, next) /\ UNCHANGED ctx
  /\ UNCHANGED <<rows, stock, outbox, idem, wompi>>

\* Deletes the row whoever owns it and whatever became of it since the wait.
WebhookReclaim(p, at, next) ==
  /\ pc[p] = at
  /\ idem' = [idem EXCEPT ![ctx[p].key] = None]
  /\ Goto(p, next)
  /\ UNCHANGED <<rows, stock, outbox, wompi, ctx>>

WebhookBegin(p) ==
  /\ pc[p] = "wh_begin"
  /\ LET k == ctx[p].key IN
       IF idem[k] = None THEN Open(k, ctx[p].order) /\ Goto(p, "settle")
                         ELSE Goto(p, "wh_wait2") /\ UNCHANGED idem
  /\ UNCHANGED <<rows, stock, outbox, wompi, ctx>>

\* A second conflict throws, and the broker redelivers.
WebhookBeginAgain(p) ==
  /\ pc[p] = "wh_begin2"
  /\ LET k == ctx[p].key IN
       IF idem[k] = None THEN Open(k, ctx[p].order) /\ Goto(p, "settle") /\ UNCHANGED ctx
                         ELSE Return(p) /\ UNCHANGED idem
  /\ UNCHANGED <<rows, stock, outbox, wompi>>

-----------------------------------------------------------------------------
(* Reconciliation tick *)

StuckList(p, o) ==
  /\ p \in JobProcs /\ pc[p] = "idle"
  /\ status[o] = "PENDING" /\ HasProviderCharge(provider[o])
  /\ Goto(p, "stuck_poll")
  /\ Locals(p, [Seeing(NoContext, o) EXCEPT !.pid = provider[o]])
  /\ UNCHANGED <<rows, stock, outbox, idem, wompi>>

\* Mutant of StuckPoll: trusts the status the listing implies instead of Wompi's.
StuckPollStale(p) ==
  /\ pc[p] = "stuck_poll"
  /\ Locals(p, [ctx[p] EXCEPT !.key = <<"stuck", ctx[p].pid, "PENDING">>])
  /\ Goto(p, "stuck_begin")
  /\ UNCHANGED <<rows, stock, outbox, idem, wompi>>

\* The code also checks the payment's reference and amount; the row's payment id
\* always passes, which is BindingSound in SettlementProps.
StuckPoll(p) ==
  /\ pc[p] = "stuck_poll"
  /\ LET pid == ctx[p].pid  st == charge[pid].status IN
       Locals(p, [ctx[p] EXCEPT !.reported = st, !.key = <<"stuck", pid, st>>])
  /\ Goto(p, "stuck_begin")
  /\ UNCHANGED <<rows, stock, outbox, idem, wompi>>

StuckPollFails(p) ==
  /\ pc[p] = "stuck_poll"
  /\ Return(p)
  /\ UNCHANGED <<rows, stock, outbox, idem, wompi>>

\* A key that exists, sealed or open, makes the job skip the order.
StuckBegin(p) ==
  /\ pc[p] = "stuck_begin"
  /\ LET k == ctx[p].key IN
       IF idem[k] = None THEN Open(k, ctx[p].order) /\ Goto(p, "settle") /\ UNCHANGED ctx
                         ELSE Return(p) /\ UNCHANGED idem
  /\ UNCHANGED <<rows, stock, outbox, wompi>>

\* Mutants of ExpireUncharged: a dead claim is never taken over; the delivery is
\* left alone.
ExpireUnclaimedOnly(p, o) ==
  /\ p \in JobProcs /\ pc[p] = "idle"
  /\ status[o] = "PENDING" /\ provider[o] = None
  /\ status' = [status EXCEPT ![o] = "EXPIRED"]
  /\ delivery' = [delivery EXCEPT ![o] = "CANCELLED"]
  /\ UNCHANGED <<provider, leaseLapsed, stock, outbox, idem, wompi, handlers>>

ExpireKeepsDelivery(p, o) ==
  /\ p \in JobProcs /\ pc[p] = "idle"
  /\ status[o] = "PENDING"
  /\ provider[o] = None \/ (provider[o] = Claim /\ leaseLapsed[o])
  /\ status' = [status EXCEPT ![o] = "EXPIRED"]
  /\ provider' = [provider EXCEPT ![o] = None]
  /\ UNCHANGED <<leaseLapsed, delivery, stock, outbox, idem, wompi, handlers>>

\* The update repeats, under the row lock, the conditions the listing used, so
\* the listing is not a step.  Order age is not modelled: any unclaimed order may
\* be old enough.
ExpireUncharged(p, o) ==
  /\ p \in JobProcs /\ pc[p] = "idle"
  /\ status[o] = "PENDING"
  /\ provider[o] = None \/ (provider[o] = Claim /\ leaseLapsed[o])
  /\ status' = [status EXCEPT ![o] = "EXPIRED"]
  /\ provider' = [provider EXCEPT ![o] = None]
  /\ delivery' = [delivery EXCEPT ![o] = "CANCELLED"]
  /\ UNCHANGED <<leaseLapsed, stock, outbox, idem, wompi, handlers>>

-----------------------------------------------------------------------------
(* SettleProviderPaymentService.settle *)

\* applyProviderResult on the aggregate the handler loaded earlier.
CanApply(p) ==
  IF HasProviderCharge(ctx[p].seenProvider)
    THEN /\ ctx[p].seenProvider = ctx[p].pid
         /\ ctx[p].seenStatus \in {"PENDING", ctx[p].reported}
    ELSE ctx[p].seenStatus = "PENDING"

SettleInvalidState(p) ==
  /\ pc[p] = "settle"
  /\ ~CanApply(p)
  /\ GotoAbort(p)
  /\ UNCHANGED <<rows, stock, outbox, idem, wompi>>

\* Mutants of AfterUpdate: nothing is voided; a PENDING result is sealed.
AfterUpdateNeverVoids(p, saved, decremented) ==
  IF saved = "PENDING"
    THEN GotoAbort(p)
    ELSE Goto(p, "complete") /\ Locals(p, [ctx[p] EXCEPT !.saved = saved])

AfterUpdateSealsPending(p, saved, decremented) ==
  /\ Goto(p, IF ctx[p].reported = "APPROVED" /\ ~decremented THEN "void" ELSE "complete")
  /\ Locals(p, [ctx[p] EXCEPT !.saved = saved])

\* What settle does once updateAfterPayment returned status "saved".
AfterUpdate(p, saved, decremented) ==
  IF ctx[p].reported = "APPROVED" /\ ~decremented
    THEN Goto(p, "void") /\ Locals(p, [ctx[p] EXCEPT !.saved = saved])
    ELSE IF saved = "PENDING"
      THEN GotoAbort(p)
      ELSE Goto(p, "complete") /\ Locals(p, [ctx[p] EXCEPT !.saved = saved])

\* Mutant of SettleLostRace: the loser reports that nothing was decremented.
LostRaceLooksOutOfStock(p) ==
  /\ pc[p] = "settle" /\ CanApply(p)
  /\ LET o == ctx[p].order IN
       /\ status[o] # "PENDING" /\ provider[o] = ctx[p].pid
       /\ AfterUpdate(p, status[o], FALSE)
  /\ UNCHANGED <<rows, stock, outbox, idem, wompi>>

\* The row was settled meanwhile with the same payment: report what it holds.
SettleLostRace(p) ==
  /\ pc[p] = "settle" /\ CanApply(p)
  /\ LET o == ctx[p].order IN
       /\ status[o] # "PENDING" /\ provider[o] = ctx[p].pid
       /\ AfterUpdate(p, status[o], status[o] = "APPROVED")
  /\ UNCHANGED <<rows, stock, outbox, idem, wompi>>

\* The row was settled or expired meanwhile under another payment id: the throw
\* leaves the handler, and its idempotency key stays open.
SettleThrows(p) ==
  /\ pc[p] = "settle" /\ CanApply(p)
  /\ LET o == ctx[p].order IN status[o] # "PENDING" /\ provider[o] # ctx[p].pid
  /\ Return(p)
  /\ UNCHANGED <<rows, stock, outbox, idem, wompi>>

InStock(o) == \A i \in Products : stock[i] >= Quantity[o][i]

\* Mutant of SettleApproved: trusts the aggregate instead of the locked row.
SettleApprovedUnlocked(p) ==
  /\ pc[p] = "settle" /\ CanApply(p)
  /\ ctx[p].reported = "APPROVED"
  /\ LET o == ctx[p].order IN
       /\ InStock(o)
       /\ status' = [status EXCEPT ![o] = "APPROVED"]
       /\ provider' = [provider EXCEPT ![o] = ctx[p].pid]
       /\ delivery' = [delivery EXCEPT ![o] = "READY"]
       /\ stock' = [i \in Products |-> stock[i] - Quantity[o][i]]
       /\ outbox' = [outbox EXCEPT ![o] = @ + 1]
  /\ AfterUpdate(p, "APPROVED", TRUE)
  /\ UNCHANGED <<leaseLapsed, idem, wompi>>

\* Status, provider id, delivery, stock and outbox change in one transaction.
\* The provider id in the row is overwritten, whatever it was.
SettleApproved(p) ==
  /\ pc[p] = "settle" /\ CanApply(p)
  /\ ctx[p].reported = "APPROVED"
  /\ LET o == ctx[p].order IN
       /\ status[o] = "PENDING" /\ InStock(o)
       /\ status' = [status EXCEPT ![o] = "APPROVED"]
       /\ provider' = [provider EXCEPT ![o] = ctx[p].pid]
       /\ delivery' = [delivery EXCEPT ![o] = "READY"]
       /\ stock' = [i \in Products |-> stock[i] - Quantity[o][i]]
       /\ outbox' = [outbox EXCEPT ![o] = @ + 1]
  /\ AfterUpdate(p, "APPROVED", TRUE)
  /\ UNCHANGED <<leaseLapsed, idem, wompi>>

\* Mutant of SettleOutOfStock: the lines that were in stock stay decremented.
SettleOutOfStockPartly(p) ==
  /\ pc[p] = "settle" /\ CanApply(p)
  /\ ctx[p].reported = "APPROVED"
  /\ LET o == ctx[p].order IN
       /\ status[o] = "PENDING" /\ ~InStock(o)
       /\ status' = [status EXCEPT ![o] = "ERROR"]
       /\ provider' = [provider EXCEPT ![o] = ctx[p].pid]
       /\ delivery' = [delivery EXCEPT ![o] = "CANCELLED"]
       /\ stock' = [i \in Products |->
                      IF stock[i] >= Quantity[o][i] THEN stock[i] - Quantity[o][i] ELSE stock[i]]
  /\ AfterUpdate(p, "ERROR", FALSE)
  /\ UNCHANGED <<leaseLapsed, outbox, idem, wompi>>

SettleOutOfStock(p) ==
  /\ pc[p] = "settle" /\ CanApply(p)
  /\ ctx[p].reported = "APPROVED"
  /\ LET o == ctx[p].order IN
       /\ status[o] = "PENDING" /\ ~InStock(o)
       /\ status' = [status EXCEPT ![o] = "ERROR"]
       /\ provider' = [provider EXCEPT ![o] = ctx[p].pid]
       /\ delivery' = [delivery EXCEPT ![o] = "CANCELLED"]
  /\ AfterUpdate(p, "ERROR", FALSE)
  /\ UNCHANGED <<leaseLapsed, stock, outbox, idem, wompi>>

\* DECLINED and ERROR cancel the delivery; PENDING only binds the payment.
SettleNotApproved(p) ==
  /\ pc[p] = "settle" /\ CanApply(p)
  /\ ctx[p].reported # "APPROVED"
  /\ LET o == ctx[p].order  st == ctx[p].reported IN
       /\ status[o] = "PENDING"
       /\ status' = [status EXCEPT ![o] = st]
       /\ provider' = [provider EXCEPT ![o] = ctx[p].pid]
       /\ delivery' = [delivery EXCEPT ![o] = IF st = "PENDING" THEN @ ELSE "CANCELLED"]
       /\ AfterUpdate(p, st, FALSE)
  /\ UNCHANGED <<leaseLapsed, stock, outbox, idem, wompi>>

\* compensateApprovedWithoutStock swallows a void that fails.
VoidPayment(p) ==
  /\ pc[p] = "void"
  /\ LET pid == ctx[p].pid IN
       /\ voidTried' = voidTried \cup {pid}
       /\ \/ /\ charge[pid].status = "APPROVED"
             /\ charge' = [charge EXCEPT ![pid].status = "ERROR"]
             /\ events' = events \cup {<<pid, "ERROR">>}
          \/ UNCHANGED <<charge, events>>
  /\ Goto(p, "complete_oos")
  /\ UNCHANGED <<rows, stock, outbox, idem, sessions, ctx>>

\* By key, whoever owns the row now; nothing happens if it is gone.
Seal(p, state) ==
  LET k == ctx[p].key IN
    idem' = IF idem[k] = None THEN idem
            ELSE [idem EXCEPT ![k].state = state, ![k].response = ctx[p].saved]

Complete(p) ==
  /\ \/ pc[p] = "complete" /\ Seal(p, "done")
     \/ pc[p] = "complete_oos" /\ Seal(p, "oos")
  /\ Return(p)
  /\ UNCHANGED <<rows, stock, outbox, wompi>>

Abort(p) ==
  /\ pc[p] = "abort"
  /\ idem' = [idem EXCEPT ![ctx[p].key] = None]
  /\ Return(p)
  /\ UNCHANGED <<rows, stock, outbox, wompi>>

-----------------------------------------------------------------------------
(* The world around the handlers *)

\* The process dies: its local variables are lost, its writes stay.  An exception
\* from the database that no handler catches has the same effect.
Crash(p) ==
  /\ p \in Crashable /\ pc[p] # "idle"
  /\ Return(p)
  /\ UNCHANGED <<rows, stock, outbox, idem, wompi>>

\* updated_at of a claim falls behind STUCK_PENDING_AFTER_MS.
LeaseLapses(o) ==
  /\ status[o] = "PENDING" /\ provider[o] = Claim /\ ~leaseLapsed[o]
  /\ leaseLapsed' = [leaseLapsed EXCEPT ![o] = TRUE]
  /\ UNCHANGED <<status, provider, delivery, stock, outbox, idem, wompi, handlers>>

\* GET .../widget-session hands the browser a signed reference; nothing is stored.
GetWidgetSession(o) ==
  /\ o \in WidgetOrders \ sessions
  /\ status[o] = "PENDING" /\ ~HasProviderCharge(provider[o])
  /\ sessions' = sessions \cup {o}
  /\ UNCHANGED <<rows, stock, outbox, idem, charge, events, voidTried, handlers>>

\* The shopper pays in the widget, however old the session is.
WidgetCharge(o, pid) ==
  /\ o \in sessions
  /\ NewCharge(pid, o, "PENDING")
  /\ UNCHANGED <<rows, stock, outbox, idem, sessions, voidTried, handlers>>

\* Wompi decides a pending payment, once.
ResolveCharge(pid, st) ==
  /\ charge[pid].ref # None /\ charge[pid].status = "PENDING"
  /\ charge' = [charge EXCEPT ![pid].status = st]
  /\ events' = events \cup {<<pid, st>>}
  /\ UNCHANGED <<rows, stock, outbox, idem, sessions, voidTried, handlers>>

-----------------------------------------------------------------------------
Settle(p) ==
  \/ SettleInvalidState(p) \/ SettleLostRace(p) \/ SettleThrows(p)
  \/ SettleApproved(p) \/ SettleOutOfStock(p) \/ SettleNotApproved(p)
  \/ VoidPayment(p) \/ Complete(p) \/ Abort(p)

Pay(p) ==
  \/ PayRead(p) \/ ClaimForPayment(p)
  \/ \E pid \in Pids, st \in {"PENDING"} \cup Outcomes : CardPaymentAnswered(p, pid, st)
  \/ \E pid \in Pids : CardPaymentAnswerLost(p, pid)
  \/ CardPaymentFails(p) \/ AttachProviderTransactionId(p) \/ AttachFails(p)
  \/ ReleaseClaim(p) \/ PayPoll(p) \/ PollFails(p)

Sync(p) == SyncRead(p) \/ SyncPoll(p)

Webhook(p) ==
  \/ WebhookFind(p)
  \/ WebhookWait(p, "wh_wait", "wh_reclaim") \/ WebhookReclaim(p, "wh_reclaim", "wh_begin")
  \/ WebhookBegin(p)
  \/ WebhookWait(p, "wh_wait2", "wh_reclaim2") \/ WebhookReclaim(p, "wh_reclaim2", "wh_begin2")
  \/ WebhookBeginAgain(p)

Stuck(p) == StuckPoll(p) \/ StuckPollFails(p) \/ StuckBegin(p)

\* The next await of a handler that is running.
Step(p) == CreateSave(p) \/ Pay(p) \/ Sync(p) \/ Webhook(p) \/ Stuck(p) \/ Settle(p)

\* A request, a delivery or a tick starts a handler.
Start(p) ==
  \E o \in Orders :
    \/ CreateCheckStock(p, o)
    \/ \E k \in ClientKeys : PayBegin(p, o, k)
    \/ \E k \in ClientKeys, pid \in Pids : SyncBegin(p, o, k, pid)
    \/ \E pid \in Pids, st \in ProviderStatus : WebhookLookup(p, o, pid, st)
    \/ StuckList(p, o)
    \/ ExpireUncharged(p, o)

World ==
  \/ \E o \in Orders :
       LeaseLapses(o) \/ GetWidgetSession(o) \/ \E pid \in Pids : WidgetCharge(o, pid)
  \/ \E pid \in Pids, st \in Outcomes : ResolveCharge(pid, st)

Next == (\E p \in Procs : Start(p) \/ Step(p) \/ Crash(p)) \/ World

Spec == Init /\ [][Next]_vars
=============================================================================
