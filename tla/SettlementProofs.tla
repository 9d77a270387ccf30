-------------------------- MODULE SettlementProofs --------------------------
(***************************************************************************)
(* What Settlement keeps to, for every number of orders, products, keys,   *)
(* payments and handlers.  First the types.  Then the rows of an order, the *)
(* stock and the shopper's keys: orders settle once and together with their *)
(* delivery and their event (SettledTogether, FinalIsFrozen, the refinement *)
(* of OrderBook), no unit is sold twice (StockConserved), and a key answers *)
(* for one handler (ClientKeyOwned, ClientKeyStaysSealed).  At last where  *)
(* the money of an order is: BindingSound, ConfirmedIsCaptured,            *)
(* ReplayTellsTheTruth and, while no handler dies, OutOfStockIsVoided.     *)
(***************************************************************************)
EXTENDS SettlementProps, FiniteSetTheorems, WellFoundedInduction, TLAPS

-----------------------------------------------------------------------------
(* Types: TypeOK is an invariant. *)

\* The worker's keys are keys of the idempotency table.
LEMMA WorkerKeysOK ==
  /\ \A pid \in Pids, st \in ProviderStatus :
       /\ <<"webhook", pid, st>> \in WorkerKeys
       /\ <<"stuck", pid, st>> \in WorkerKeys
  /\ WorkerKeys \subseteq Keys
  /\ ClientKeys \subseteq Keys
  BY DEF WorkerKeys, Keys

\* The fields of a handler's local variables have their types.
LEMMA ContextFields ==
  ASSUME NEW c \in Context
  PROVE  /\ c.order \in Orders \cup {None}
         /\ c.key \in Keys \cup {None}
         /\ c.pid \in Pids \cup {None}
         /\ c.reported \in ProviderStatus
         /\ c.seenStatus \in OrderStatus
         /\ c.seenProvider \in Pids \cup {None, Claim}
         /\ c.saved \in OrderStatus
  BY DEF Context

\* Every assignment the handlers make to their local variables is well typed.
LEMMA ContextUpdates ==
  ASSUME NEW c \in Context
  PROVE  /\ \A o \in Orders : [c EXCEPT !.order = o] \in Context
         /\ \A o \in Orders, k \in Keys : [c EXCEPT !.order = o, !.key = k] \in Context
         /\ \A o \in Orders, k \in Keys, pid \in Pids :
              [c EXCEPT !.order = o, !.key = k, !.pid = pid] \in Context
         /\ \A k \in Keys : [c EXCEPT !.key = k] \in Context
         /\ \A pid \in Pids : [c EXCEPT !.pid = pid] \in Context
         /\ \A pid \in Pids, st \in ProviderStatus :
              [c EXCEPT !.pid = pid, !.reported = st] \in Context
         /\ \A pid \in Pids, st \in ProviderStatus, k \in Keys :
              [c EXCEPT !.pid = pid, !.reported = st, !.key = k] \in Context
         /\ \A st \in ProviderStatus : [c EXCEPT !.reported = st] \in Context
         /\ \A st \in ProviderStatus, k \in Keys :
              [c EXCEPT !.reported = st, !.key = k] \in Context
         /\ \A st \in OrderStatus : [c EXCEPT !.saved = st] \in Context
  BY DEF Context

\* An idle handler has well-typed locals.
LEMMA NoContextOK == NoContext \in Context
  BY DEF Context, NoContext, ProviderStatus, OrderStatus

\* Loading the aggregate of an order is well typed.
LEMMA SeeingOK ==
  ASSUME TypeOK, NEW c \in Context, NEW o \in Orders
  PROVE  Seeing(c, o) \in Context
  BY DEF Context, Seeing, TypeOK, RowsOK

\* A step of one handler keeps the handlers well typed if it leaves that handler so.
LEMMA OneHandlerMoves ==
  ASSUME HandlersOK, NEW p \in Procs, NEW label \in Labels, NEW c \in Context,
         Goto(p, label), Locals(p, c), LocalsOK(p)'
  PROVE  HandlersOK'
  BY DEF HandlersOK, Goto, Locals, LocalsOK

\* A handler that returns, or that only has its key left to abort, is well typed.
LEMMA ReturnOK ==
  ASSUME HandlersOK, NEW p \in Procs, Return(p)
  PROVE  HandlersOK'
<1>1. LocalsOK(p)'
  BY DEF HandlersOK, Return, Goto, Locals, LocalsOK, NoContext, WorkerLabels
<1>2. "idle" \in Labels
  BY DEF Labels
<1> QED BY <1>1, <1>2, NoContextOK, OneHandlerMoves DEF Return

\* A handler that gives up keeps only the key it has to abort.
LEMMA GotoAbortOK ==
  ASSUME HandlersOK, NEW p \in Procs, GotoAbort(p),
         pc[p] \notin {"idle", "create_save", "stuck_poll"}
  PROVE  HandlersOK'
<1>1. ctx[p].key \in Keys /\ pc[p] \in Labels
  BY DEF HandlersOK, LocalsOK
<1>2. [NoContext EXCEPT !.key = ctx[p].key] \in Context
  BY <1>1, NoContextOK DEF Context
<1>3. LocalsOK(p)'
  BY <1>1 DEF HandlersOK, GotoAbort, Goto, Locals, LocalsOK, NoContext, WorkerLabels
<1>4. "abort" \in Labels
  BY DEF Labels
<1> QED BY <1>2, <1>3, <1>4, OneHandlerMoves DEF GotoAbort

\* A handler that goes on with the same local variables.
LEMMA GotoOK ==
  ASSUME HandlersOK, NEW p \in Procs, NEW label \in Labels, Goto(p, label), ctx' = ctx,
         LocalsOK(p)'
  PROVE  HandlersOK'
  BY DEF HandlersOK, Goto, LocalsOK

\* What settle does after updateAfterPayment, whatever that returned.
LEMMA AfterUpdateOK ==
  ASSUME HandlersOK, NEW p \in Procs, NEW saved \in OrderStatus, NEW dec,
         pc[p] = "settle", AfterUpdate(p, saved, dec)
  PROVE  HandlersOK'
<1> DEFINE c == [ctx[p] EXCEPT !.saved = saved]
<1>1. c \in Context
  BY ContextUpdates DEF HandlersOK
<1>2. CASE GotoAbort(p)
  BY <1>2, GotoAbortOK
<1>3. CASE \E label \in {"void", "complete"} : Goto(p, label) /\ Locals(p, c)
  <2> PICK label \in {"void", "complete"} : Goto(p, label) /\ Locals(p, c)
    BY <1>3
  <2>1. LocalsOK(p)'
    BY DEF HandlersOK, LocalsOK, Goto, Locals, WorkerLabels, Context
  <2>2. label \in Labels
    BY DEF Labels
  <2> QED BY <1>1, <2>1, <2>2, OneHandlerMoves
<1> QED BY <1>2, <1>3 DEF AfterUpdate

\* Every action leaves every handler at a known await with the locals that await needs.
LEMMA HandlersStayOK == TypeOK /\ [Next]_vars => HandlersOK'
<1> SUFFICES ASSUME TypeOK, [Next]_vars PROVE HandlersOK'
  OBVIOUS
<1>1. CASE Next
  <2>1. ASSUME NEW p \in Procs, NEW o \in Orders, CreateCheckStock(p, o)
        PROVE  HandlersOK'
    <3> DEFINE c == [ctx[p] EXCEPT !.order = o]
    <3>1. c \in Context
      BY <2>1, ContextUpdates DEF TypeOK, RowsOK, WompiOK, HandlersOK
    <3>2. LocalsOK(p)'
      BY <2>1, WorkerKeysOK DEF TypeOK, RowsOK, WompiOK, HandlersOK, LocalsOK, WorkerLabels,
          CreateCheckStock, Goto, Locals, Seeing, HasProviderCharge, NoContext, Context
    <3>3. HandlersOK'
      BY <2>1, <3>1, <3>2, OneHandlerMoves DEF TypeOK, CreateCheckStock, Labels
    <3> QED BY <3>3
  <2>2. ASSUME NEW p \in Procs, NEW o \in Orders, NEW k \in ClientKeys, PayBegin(p, o, k)
        PROVE  HandlersOK'
    <3> DEFINE c == [ctx[p] EXCEPT !.order = o, !.key = k]
    <3>1. c \in Context
      BY <2>2, ContextUpdates, WorkerKeysOK DEF TypeOK, RowsOK, WompiOK, HandlersOK
    <3>2. LocalsOK(p)'
      BY <2>2, WorkerKeysOK DEF TypeOK, RowsOK, WompiOK, HandlersOK, LocalsOK, WorkerLabels,
          PayBegin, Goto, Locals, Seeing, HasProviderCharge, NoContext, Context
    <3>3. HandlersOK'
      BY <2>2, <3>1, <3>2, OneHandlerMoves DEF TypeOK, PayBegin, Labels
    <3> QED BY <3>3
  <2>3. ASSUME NEW p \in Procs, NEW o \in Orders, NEW k \in ClientKeys, NEW pid \in Pids,
               SyncBegin(p, o, k, pid)
        PROVE  HandlersOK'
    <3> DEFINE c == [ctx[p] EXCEPT !.order = o, !.key = k, !.pid = pid]
    <3>1. c \in Context
      BY <2>3, ContextUpdates, WorkerKeysOK DEF TypeOK, RowsOK, WompiOK, HandlersOK
    <3>2. LocalsOK(p)'
      BY <2>3, WorkerKeysOK DEF TypeOK, RowsOK, WompiOK, HandlersOK, LocalsOK, WorkerLabels,
          SyncBegin, Goto, Locals, Seeing, HasProviderCharge, NoContext, Context
    <3>3. HandlersOK'
      BY <2>3, <3>1, <3>2, OneHandlerMoves DEF TypeOK, SyncBegin, Labels
    <3> QED BY <3>3
  <2>4. ASSUME NEW p \in Procs, NEW o \in Orders, NEW pid \in Pids, NEW st \in ProviderStatus,
               WebhookLookup(p, o, pid, st)
        PROVE  HandlersOK'
    <3> DEFINE c == [Seeing(NoContext, o) EXCEPT !.pid = pid, !.reported = st,
    !.key = <<"webhook", pid, st>>]
    <3>1. c \in Context
      BY <2>4, ContextUpdates, SeeingOK, NoContextOK, WorkerKeysOK
    <3>2. LocalsOK(p)'
      BY <2>4, WorkerKeysOK DEF TypeOK, RowsOK, WompiOK, HandlersOK, LocalsOK, WorkerLabels,
          WebhookLookup, Goto, Locals, Seeing, HasProviderCharge, NoContext, Context
    <3>3. HandlersOK'
      BY <2>4, <3>1, <3>2, OneHandlerMoves DEF TypeOK, WebhookLookup, Labels
    <3> QED BY <3>3
  <2>5. ASSUME NEW p \in Procs, NEW o \in Orders, StuckList(p, o)
        PROVE  HandlersOK'
    <3> DEFINE c == [Seeing(NoContext, o) EXCEPT !.pid = provider[o]]
    <3>1. c \in Context
      BY <2>5, ContextUpdates, SeeingOK, NoContextOK DEF StuckList, HasProviderCharge
    <3>2. LocalsOK(p)'
      BY <2>5, WorkerKeysOK DEF TypeOK, RowsOK, WompiOK, HandlersOK, LocalsOK, WorkerLabels,
          StuckList, Goto, Locals, Seeing, HasProviderCharge, NoContext, Context
    <3>3. HandlersOK'
      BY <2>5, <3>1, <3>2, OneHandlerMoves DEF TypeOK, StuckList, Labels
    <3> QED BY <3>3
  <2>6. ASSUME NEW p \in Procs, NEW o \in Orders, ExpireUncharged(p, o)
        PROVE  HandlersOK'
    <3>1. HandlersOK'
      BY <2>6 DEF TypeOK, RowsOK, WompiOK, HandlersOK, LocalsOK, ExpireUncharged, handlers
    <3> QED BY <3>1
  <2>7. ASSUME NEW p \in Procs, CreateSave(p)
        PROVE  HandlersOK'
    <3>1. HandlersOK'
      BY <2>7, ReturnOK DEF TypeOK, CreateSave
    <3> QED BY <3>1
  <2>8. ASSUME NEW p \in Procs, PayRead(p)
        PROVE  HandlersOK'
    <3> DEFINE o == ctx[p].order
    <3>1. CASE HasProviderCharge(provider[o]) /\ Goto(p, "pay_poll") /\ Locals(p, [Seeing(ctx[p],
    o) EXCEPT !.pid = provider[o]])
      <4>1. [Seeing(ctx[p], o) EXCEPT !.pid = provider[o]] \in Context
        BY <2>8, <3>1, ContextUpdates, SeeingOK DEF TypeOK, RowsOK, WompiOK, HandlersOK,
            LocalsOK, PayRead, HasProviderCharge
      <4>2. LocalsOK(p)'
        BY <2>8, <3>1 DEF TypeOK, RowsOK, WompiOK, HandlersOK, LocalsOK, WorkerLabels, Goto,
            Locals, Seeing, Context, PayRead, HasProviderCharge
      <4>3. "pay_poll" \in Labels
        BY DEF Labels
      <4> QED BY <3>1, <4>1, <4>2, <4>3, OneHandlerMoves DEF TypeOK
    <3>2. CASE Goto(p, "pay_claim") /\ Locals(p, Seeing(ctx[p], o))
      <4>1. Seeing(ctx[p], o) \in Context
        BY <2>8, <3>2, ContextUpdates, SeeingOK DEF TypeOK, RowsOK, WompiOK, HandlersOK,
            LocalsOK, PayRead
      <4>2. LocalsOK(p)'
        BY <2>8, <3>2 DEF TypeOK, RowsOK, WompiOK, HandlersOK, LocalsOK, WorkerLabels, Goto,
            Locals, Seeing, Context, PayRead
      <4>3. "pay_claim" \in Labels
        BY DEF Labels
      <4> QED BY <3>2, <4>1, <4>2, <4>3, OneHandlerMoves DEF TypeOK
    <3>3. CASE GotoAbort(p)
      BY <2>8, <3>3, GotoAbortOK DEF TypeOK, PayRead
    <3>4. HandlersOK'
      BY <2>8, <3>1, <3>2, <3>3 DEF PayRead, Goto
    <3> QED BY <3>4
  <2>9. ASSUME NEW p \in Procs, ClaimForPayment(p)
        PROVE  HandlersOK'
    <3>1. CASE Goto(p, "pay_charge") /\ UNCHANGED ctx
      <4>1. LocalsOK(p)'
        BY <2>9, <3>1 DEF TypeOK, RowsOK, WompiOK, HandlersOK, LocalsOK, WorkerLabels, Goto,
            ClaimForPayment
      <4>2. "pay_charge" \in Labels
        BY DEF Labels
      <4> QED BY <3>1, <4>1, <4>2, GotoOK DEF TypeOK
    <3>2. CASE GotoAbort(p)
      BY <2>9, <3>2, GotoAbortOK DEF TypeOK, ClaimForPayment
    <3>3. HandlersOK'
      BY <2>9, <3>1, <3>2 DEF ClaimForPayment
    <3> QED BY <3>3
  <2>10. ASSUME NEW p \in Procs, NEW pid \in Pids, NEW st \in {"PENDING"} \cup Outcomes,
                CardPaymentAnswered(p, pid, st)
        PROVE  HandlersOK'
    <3> DEFINE c == [ctx[p] EXCEPT !.pid = pid, !.reported = st]
    <3>1. c \in Context
      BY <2>10, ContextUpdates, OutcomeAssumption DEF TypeOK, RowsOK, WompiOK, HandlersOK,
          ProviderStatus
    <3>2. LocalsOK(p)'
      BY <2>10, WorkerKeysOK DEF TypeOK, RowsOK, WompiOK, HandlersOK, LocalsOK, WorkerLabels,
          CardPaymentAnswered, Goto, Locals, Seeing, HasProviderCharge, NoContext, Context
    <3>3. HandlersOK'
      BY <2>10, <3>1, <3>2, OneHandlerMoves DEF TypeOK, CardPaymentAnswered, Labels
    <3> QED BY <3>3
  <2>11. ASSUME NEW p \in Procs, NEW pid \in Pids, CardPaymentAnswerLost(p, pid)
        PROVE  HandlersOK'
    <3>1. LocalsOK(p)'
      BY <2>11 DEF TypeOK, RowsOK, WompiOK, HandlersOK, LocalsOK, WorkerLabels,
          CardPaymentAnswerLost, Goto
    <3>2. HandlersOK'
      BY <2>11, <3>1, GotoOK DEF TypeOK, CardPaymentAnswerLost, Labels
    <3> QED BY <3>2
  <2>12. ASSUME NEW p \in Procs, CardPaymentFails(p)
        PROVE  HandlersOK'
    <3>1. LocalsOK(p)'
      BY <2>12 DEF TypeOK, RowsOK, WompiOK, HandlersOK, LocalsOK, WorkerLabels, CardPaymentFails,
          Goto
    <3>2. HandlersOK'
      BY <2>12, <3>1, GotoOK DEF TypeOK, CardPaymentFails, Labels
    <3> QED BY <3>2
  <2>13. ASSUME NEW p \in Procs, AttachProviderTransactionId(p)
        PROVE  HandlersOK'
    <3>1. LocalsOK(p)'
      BY <2>13 DEF TypeOK, RowsOK, WompiOK, HandlersOK, LocalsOK, WorkerLabels,
          AttachProviderTransactionId, Goto
    <3>2. HandlersOK'
      BY <2>13, <3>1, GotoOK DEF TypeOK, AttachProviderTransactionId, Labels
    <3> QED BY <3>2
  <2>14. ASSUME NEW p \in Procs, AttachFails(p)
        PROVE  HandlersOK'
    <3>1. LocalsOK(p)'
      BY <2>14 DEF TypeOK, RowsOK, WompiOK, HandlersOK, LocalsOK, WorkerLabels, AttachFails, Goto
    <3>2. HandlersOK'
      BY <2>14, <3>1, GotoOK DEF TypeOK, AttachFails, Labels
    <3> QED BY <3>2
  <2>15. ASSUME NEW p \in Procs, ReleaseClaim(p)
        PROVE  HandlersOK'
    <3>1. HandlersOK'
      BY <2>15, GotoAbortOK DEF TypeOK, ReleaseClaim
    <3> QED BY <3>1
  <2>16. ASSUME NEW p \in Procs, PayPoll(p)
        PROVE  HandlersOK'
    <3> DEFINE c == [ctx[p] EXCEPT !.reported = charge[ctx[p].pid].status]
    <3>1. c \in Context
      BY <2>16, ContextUpdates DEF TypeOK, RowsOK, WompiOK, HandlersOK, LocalsOK, PayPoll
    <3>2. LocalsOK(p)'
      <4>1. ctx[p] \in Context /\ LocalsOK(p)
        BY DEF TypeOK, HandlersOK
      <4>2. c.order = ctx[p].order /\ c.key = ctx[p].key /\ c.pid = ctx[p].pid
        BY <4>1 DEF Context
      <4>3. pc[p] = "pay_poll" /\ pc'[p] = "settle" /\ ctx'[p] = c
        BY <2>16 DEF TypeOK, HandlersOK, PayPoll, Goto, Locals
      <4> HIDE DEF c
      <4> QED BY <4>1, <4>2, <4>3 DEF LocalsOK, WorkerLabels
    <3>3. HandlersOK'
      BY <2>16, <3>1, <3>2, OneHandlerMoves DEF TypeOK, PayPoll, Labels
    <3> QED BY <3>3
  <2>17. ASSUME NEW p \in Procs, PollFails(p)
        PROVE  HandlersOK'
    <3>1. HandlersOK'
      BY <2>17, GotoAbortOK DEF TypeOK, PollFails
    <3> QED BY <3>1
  <2>18. ASSUME NEW p \in Procs, SyncRead(p)
        PROVE  HandlersOK'
    <3> DEFINE o == ctx[p].order
    <3>1. CASE Goto(p, "complete") /\ Locals(p, [ctx[p] EXCEPT !.saved = status[o]])
      <4>1. [ctx[p] EXCEPT !.saved = status[o]] \in Context
        BY <2>18, <3>1, ContextUpdates, SeeingOK DEF TypeOK, RowsOK, WompiOK, HandlersOK,
            LocalsOK, SyncRead
      <4>2. LocalsOK(p)'
        BY <2>18, <3>1 DEF TypeOK, RowsOK, WompiOK, HandlersOK, LocalsOK, WorkerLabels, Goto,
            Locals, Seeing, Context, SyncRead
      <4>3. "complete" \in Labels
        BY DEF Labels
      <4> QED BY <3>1, <4>1, <4>2, <4>3, OneHandlerMoves DEF TypeOK
    <3>2. CASE Goto(p, "sync_poll") /\ Locals(p, Seeing(ctx[p], o))
      <4>1. Seeing(ctx[p], o) \in Context
        BY <2>18, <3>2, ContextUpdates, SeeingOK DEF TypeOK, RowsOK, WompiOK, HandlersOK,
            LocalsOK, SyncRead
      <4>2. LocalsOK(p)'
        BY <2>18, <3>2 DEF TypeOK, RowsOK, WompiOK, HandlersOK, LocalsOK, WorkerLabels, Goto,
            Locals, Seeing, Context, SyncRead
      <4>3. "sync_poll" \in Labels
        BY DEF Labels
      <4> QED BY <3>2, <4>1, <4>2, <4>3, OneHandlerMoves DEF TypeOK
    <3>3. CASE GotoAbort(p)
      BY <2>18, <3>3, GotoAbortOK DEF TypeOK, SyncRead
    <3>4. HandlersOK'
      BY <2>18, <3>1, <3>2, <3>3 DEF SyncRead
    <3> QED BY <3>4
  <2>19. ASSUME NEW p \in Procs, SyncPoll(p)
        PROVE  HandlersOK'
    <3> DEFINE st == charge[ctx[p].pid].status
    <3>1. CASE Goto(p, "settle") /\ Locals(p, [ctx[p] EXCEPT !.reported = st])
      <4>1. [ctx[p] EXCEPT !.reported = st] \in Context
        BY <2>19, <3>1, ContextUpdates, SeeingOK DEF TypeOK, RowsOK, WompiOK, HandlersOK,
            LocalsOK, SyncPoll
      <4>2. LocalsOK(p)'
        BY <2>19, <3>1 DEF TypeOK, RowsOK, WompiOK, HandlersOK, LocalsOK, WorkerLabels, Goto,
            Locals, Seeing, Context, SyncPoll
      <4>3. "settle" \in Labels
        BY DEF Labels
      <4> QED BY <3>1, <4>1, <4>2, <4>3, OneHandlerMoves DEF TypeOK
    <3>2. CASE GotoAbort(p)
      BY <2>19, <3>2, GotoAbortOK DEF TypeOK, SyncPoll
    <3>3. HandlersOK'
      BY <2>19, <3>1, <3>2 DEF SyncPoll
    <3> QED BY <3>3
  <2>20. ASSUME NEW p \in Procs, WebhookFind(p)
        PROVE  HandlersOK'
    <3>1. CASE Goto(p, "wh_wait") /\ UNCHANGED ctx
      <4>1. LocalsOK(p)'
        BY <2>20, <3>1 DEF TypeOK, RowsOK, WompiOK, HandlersOK, LocalsOK, WorkerLabels, Goto,
            WebhookFind
      <4>2. "wh_wait" \in Labels
        BY DEF Labels
      <4> QED BY <3>1, <4>1, <4>2, GotoOK DEF TypeOK
    <3>2. CASE Goto(p, "wh_begin") /\ UNCHANGED ctx
      <4>1. LocalsOK(p)'
        BY <2>20, <3>2 DEF TypeOK, RowsOK, WompiOK, HandlersOK, LocalsOK, WorkerLabels, Goto,
            WebhookFind
      <4>2. "wh_begin" \in Labels
        BY DEF Labels
      <4> QED BY <3>2, <4>1, <4>2, GotoOK DEF TypeOK
    <3>3. CASE Return(p)
      BY <3>3, ReturnOK DEF TypeOK
    <3>4. HandlersOK'
      BY <2>20, <3>1, <3>2, <3>3 DEF WebhookFind
    <3> QED BY <3>4
  <2>21. ASSUME NEW p \in Procs, WebhookWait(p, "wh_wait", "wh_reclaim")
        PROVE  HandlersOK'
    <3>1. CASE Goto(p, "wh_reclaim") /\ UNCHANGED ctx
      <4>1. LocalsOK(p)'
        BY <2>21, <3>1 DEF TypeOK, RowsOK, WompiOK, HandlersOK, LocalsOK, WorkerLabels, Goto,
            WebhookWait
      <4>2. "wh_reclaim" \in Labels
        BY DEF Labels
      <4> QED BY <3>1, <4>1, <4>2, GotoOK DEF TypeOK
    <3>2. CASE Return(p)
      BY <3>2, ReturnOK DEF TypeOK
    <3>3. HandlersOK'
      BY <2>21, <3>1, <3>2 DEF WebhookWait
    <3> QED BY <3>3
  <2>22. ASSUME NEW p \in Procs, WebhookReclaim(p, "wh_reclaim", "wh_begin")
        PROVE  HandlersOK'
    <3>1. LocalsOK(p)'
      BY <2>22 DEF TypeOK, RowsOK, WompiOK, HandlersOK, LocalsOK, WorkerLabels, WebhookReclaim, Goto
    <3>2. HandlersOK'
      BY <2>22, <3>1, GotoOK DEF TypeOK, WebhookReclaim, Labels
    <3> QED BY <3>2
  <2>23. ASSUME NEW p \in Procs, WebhookBegin(p)
        PROVE  HandlersOK'
    <3>1. LocalsOK(p)'
      BY <2>23 DEF TypeOK, RowsOK, WompiOK, HandlersOK, LocalsOK, WorkerLabels, WebhookBegin, Goto
    <3>2. HandlersOK'
      BY <2>23, <3>1, GotoOK DEF TypeOK, WebhookBegin, Labels
    <3> QED BY <3>2
  <2>24. ASSUME NEW p \in Procs, WebhookWait(p, "wh_wait2", "wh_reclaim2")
        PROVE  HandlersOK'
    <3>1. CASE Goto(p, "wh_reclaim2") /\ UNCHANGED ctx
      <4>1. LocalsOK(p)'
        BY <2>24, <3>1 DEF TypeOK, RowsOK, WompiOK, HandlersOK, LocalsOK, WorkerLabels, Goto,
            WebhookWait
      <4>2. "wh_reclaim2" \in Labels
        BY DEF Labels
      <4> QED BY <3>1, <4>1, <4>2, GotoOK DEF TypeOK
    <3>2. CASE Return(p)
      BY <3>2, ReturnOK DEF TypeOK
    <3>3. HandlersOK'
      BY <2>24, <3>1, <3>2 DEF WebhookWait
    <3> QED BY <3>3
  <2>25. ASSUME NEW p \in Procs, WebhookReclaim(p, "wh_reclaim2", "wh_begin2")
        PROVE  HandlersOK'
    <3>1. LocalsOK(p)'
      BY <2>25 DEF TypeOK, RowsOK, WompiOK, HandlersOK, LocalsOK, WorkerLabels, WebhookReclaim, Goto
    <3>2. HandlersOK'
      BY <2>25, <3>1, GotoOK DEF TypeOK, WebhookReclaim, Labels
    <3> QED BY <3>2
  <2>26. ASSUME NEW p \in Procs, WebhookBeginAgain(p)
        PROVE  HandlersOK'
    <3>1. CASE Goto(p, "settle") /\ UNCHANGED ctx
      <4>1. LocalsOK(p)'
        BY <2>26, <3>1 DEF TypeOK, RowsOK, WompiOK, HandlersOK, LocalsOK, WorkerLabels, Goto,
            WebhookBeginAgain
      <4>2. "settle" \in Labels
        BY DEF Labels
      <4> QED BY <3>1, <4>1, <4>2, GotoOK DEF TypeOK
    <3>2. CASE Return(p)
      BY <3>2, ReturnOK DEF TypeOK
    <3>3. HandlersOK'
      BY <2>26, <3>1, <3>2 DEF WebhookBeginAgain
    <3> QED BY <3>3
  <2>27. ASSUME NEW p \in Procs, StuckPoll(p)
        PROVE  HandlersOK'
    <3> DEFINE k == <<"stuck", ctx[p].pid, charge[ctx[p].pid].status>>
               c == [ctx[p] EXCEPT !.reported = charge[ctx[p].pid].status, !.key = k]
    <3>1. ctx[p].pid \in Pids /\ charge[ctx[p].pid].status \in ProviderStatus
      BY <2>27 DEF TypeOK, RowsOK, WompiOK, HandlersOK, LocalsOK, StuckPoll
    <3>2. k \in WorkerKeys /\ k \in Keys
      BY <3>1, WorkerKeysOK
    <3>3. c \in Context
      BY <3>1, <3>2, ContextUpdates DEF TypeOK, RowsOK, WompiOK, HandlersOK
    <3>4. c.order = ctx[p].order /\ c.pid = ctx[p].pid /\ c.key = k
      BY DEF TypeOK, RowsOK, WompiOK, HandlersOK, Context
    <3>5. LocalsOK(p)'
      BY <2>27, <3>1, <3>2, <3>4 DEF TypeOK, RowsOK, WompiOK, HandlersOK, LocalsOK, WorkerLabels,
          StuckPoll, Goto, Locals
    <3>6. "stuck_begin" \in Labels
      BY DEF Labels
    <3>7. HandlersOK'
      BY <2>27, <3>3, <3>5, <3>6, OneHandlerMoves DEF TypeOK, StuckPoll
    <3> QED BY <3>7
  <2>28. ASSUME NEW p \in Procs, StuckPollFails(p)
        PROVE  HandlersOK'
    <3>1. HandlersOK'
      BY <2>28, ReturnOK DEF TypeOK, StuckPollFails
    <3> QED BY <3>1
  <2>29. ASSUME NEW p \in Procs, StuckBegin(p)
        PROVE  HandlersOK'
    <3>1. CASE Goto(p, "settle") /\ UNCHANGED ctx
      <4>1. LocalsOK(p)'
        BY <2>29, <3>1 DEF TypeOK, RowsOK, WompiOK, HandlersOK, LocalsOK, WorkerLabels, Goto,
            StuckBegin
      <4>2. "settle" \in Labels
        BY DEF Labels
      <4> QED BY <3>1, <4>1, <4>2, GotoOK DEF TypeOK
    <3>2. CASE Return(p)
      BY <3>2, ReturnOK DEF TypeOK
    <3>3. HandlersOK'
      BY <2>29, <3>1, <3>2 DEF StuckBegin
    <3> QED BY <3>3
  <2>30. ASSUME NEW p \in Procs, SettleInvalidState(p)
        PROVE  HandlersOK'
    <3>1. HandlersOK'
      BY <2>30, GotoAbortOK DEF TypeOK, SettleInvalidState
    <3> QED BY <3>1
  <2>31. ASSUME NEW p \in Procs, SettleLostRace(p)
        PROVE  HandlersOK'
    <3>1. status[ctx[p].order] \in OrderStatus /\ pc[p] = "settle"
      BY <2>31 DEF TypeOK, RowsOK, WompiOK, HandlersOK, LocalsOK, SettleLostRace
    <3>2. HandlersOK'
      BY <2>31, <3>1, AfterUpdateOK DEF TypeOK, SettleLostRace
    <3> QED BY <3>2
  <2>32. ASSUME NEW p \in Procs, SettleThrows(p)
        PROVE  HandlersOK'
    <3>1. HandlersOK'
      BY <2>32, ReturnOK DEF TypeOK, SettleThrows
    <3> QED BY <3>1
  <2>33. ASSUME NEW p \in Procs, SettleApproved(p)
        PROVE  HandlersOK'
    <3>1. HandlersOK'
      BY <2>33, AfterUpdateOK DEF TypeOK, SettleApproved, OrderStatus, ProviderStatus, Final,
          HandlersOK, Context
    <3> QED BY <3>1
  <2>34. ASSUME NEW p \in Procs, SettleOutOfStock(p)
        PROVE  HandlersOK'
    <3>1. HandlersOK'
      BY <2>34, AfterUpdateOK DEF TypeOK, SettleOutOfStock, OrderStatus, ProviderStatus, Final,
          HandlersOK, Context
    <3> QED BY <3>1
  <2>35. ASSUME NEW p \in Procs, SettleNotApproved(p)
        PROVE  HandlersOK'
    <3>1. HandlersOK'
      BY <2>35, AfterUpdateOK DEF TypeOK, SettleNotApproved, OrderStatus, ProviderStatus, Final,
          HandlersOK, Context
    <3> QED BY <3>1
  <2>36. ASSUME NEW p \in Procs, VoidPayment(p)
        PROVE  HandlersOK'
    <3>1. LocalsOK(p)'
      BY <2>36 DEF TypeOK, RowsOK, WompiOK, HandlersOK, LocalsOK, WorkerLabels, VoidPayment, Goto
    <3>2. HandlersOK'
      BY <2>36, <3>1, GotoOK DEF TypeOK, VoidPayment, Labels
    <3> QED BY <3>2
  <2>37. ASSUME NEW p \in Procs, Complete(p)
        PROVE  HandlersOK'
    <3>1. HandlersOK'
      BY <2>37, ReturnOK DEF TypeOK, Complete
    <3> QED BY <3>1
  <2>38. ASSUME NEW p \in Procs, Abort(p)
        PROVE  HandlersOK'
    <3>1. HandlersOK'
      BY <2>38, ReturnOK DEF TypeOK, Abort
    <3> QED BY <3>1
  <2>39. ASSUME NEW p \in Procs, Crash(p)
        PROVE  HandlersOK'
    <3>1. HandlersOK'
      BY <2>39, ReturnOK DEF TypeOK, Crash
    <3> QED BY <3>1
  <2>40. ASSUME NEW o \in Orders, LeaseLapses(o)
        PROVE  HandlersOK'
    BY <2>40 DEF TypeOK, RowsOK, WompiOK, HandlersOK, LocalsOK, LeaseLapses, handlers
  <2>41. ASSUME NEW o \in Orders, GetWidgetSession(o)
        PROVE  HandlersOK'
    BY <2>41 DEF TypeOK, RowsOK, WompiOK, HandlersOK, LocalsOK, GetWidgetSession, handlers
  <2>42. ASSUME NEW o \in Orders, NEW pid \in Pids, WidgetCharge(o, pid)
        PROVE  HandlersOK'
    BY <2>42 DEF TypeOK, RowsOK, WompiOK, HandlersOK, LocalsOK, WidgetCharge, handlers
  <2>43. ASSUME NEW pid \in Pids, NEW st \in Outcomes, ResolveCharge(pid, st)
        PROVE  HandlersOK'
    BY <2>43 DEF TypeOK, RowsOK, WompiOK, HandlersOK, LocalsOK, ResolveCharge, handlers
  <2> QED BY <1>1, <2>1, <2>2, <2>3, <2>4, <2>5, <2>6, <2>7, <2>8, <2>9, <2>10, <2>11, <2>12,
      <2>13, <2>14, <2>15, <2>16, <2>17, <2>18, <2>19, <2>20, <2>21, <2>22, <2>23, <2>24, <2>25,
      <2>26, <2>27, <2>28, <2>29, <2>30, <2>31, <2>32, <2>33, <2>34, <2>35, <2>36, <2>37, <2>38,
      <2>39, <2>40, <2>41, <2>42, <2>43 DEF Next, Start, Step, World, Pay, Sync, Webhook, Stuck,
      Settle
<1>2. CASE UNCHANGED vars
  BY <1>2 DEF TypeOK, RowsOK, WompiOK, HandlersOK, LocalsOK, vars, handlers
<1> QED BY <1>1, <1>2

\* Every action leaves the database rows and Wompi's payments well typed.
LEMMA TablesStayOK == TypeOK /\ [Next]_vars => RowsOK' /\ IdemOK' /\ WompiOK'
<1> SUFFICES ASSUME TypeOK, [Next]_vars PROVE RowsOK' /\ IdemOK' /\ WompiOK'
  OBVIOUS
<1>1. CASE Next
  <2>1. ASSUME NEW p \in Procs, NEW o \in Orders, CreateCheckStock(p, o)
        PROVE  RowsOK' /\ IdemOK' /\ WompiOK'
    <3>1. RowsOK'
      BY <2>1 DEF TypeOK, RowsOK, rows, CreateCheckStock
    <3>2. IdemOK'
      BY <2>1 DEF TypeOK, IdemOK, CreateCheckStock
    <3>3. WompiOK'
      BY <2>1 DEF TypeOK, WompiOK, wompi, CreateCheckStock
    <3> QED BY <3>1, <3>2, <3>3
  <2>2. ASSUME NEW p \in Procs, NEW o \in Orders, NEW k \in ClientKeys, PayBegin(p, o, k)
        PROVE  RowsOK' /\ IdemOK' /\ WompiOK'
    <3>1. RowsOK'
      BY <2>2 DEF TypeOK, RowsOK, rows, PayBegin
    <3>2. IdemOK'
      BY <2>2, WorkerKeysOK DEF TypeOK, IdemOK, KeyRow, HandlersOK, LocalsOK, PayBegin, Open,
          Context, OrderStatus
    <3>3. WompiOK'
      BY <2>2 DEF TypeOK, WompiOK, wompi, PayBegin
    <3> QED BY <3>1, <3>2, <3>3
  <2>3. ASSUME NEW p \in Procs, NEW o \in Orders, NEW k \in ClientKeys, NEW pid \in Pids,
               SyncBegin(p, o, k, pid)
        PROVE  RowsOK' /\ IdemOK' /\ WompiOK'
    <3>1. RowsOK'
      BY <2>3 DEF TypeOK, RowsOK, rows, SyncBegin
    <3>2. IdemOK'
      BY <2>3, WorkerKeysOK DEF TypeOK, IdemOK, KeyRow, HandlersOK, LocalsOK, SyncBegin, Open,
          Context, OrderStatus
    <3>3. WompiOK'
      BY <2>3 DEF TypeOK, WompiOK, wompi, SyncBegin
    <3> QED BY <3>1, <3>2, <3>3
  <2>4. ASSUME NEW p \in Procs, NEW o \in Orders, NEW pid \in Pids, NEW st \in ProviderStatus,
               WebhookLookup(p, o, pid, st)
        PROVE  RowsOK' /\ IdemOK' /\ WompiOK'
    <3>1. RowsOK'
      BY <2>4 DEF TypeOK, RowsOK, rows, WebhookLookup
    <3>2. IdemOK'
      BY <2>4 DEF TypeOK, IdemOK, WebhookLookup
    <3>3. WompiOK'
      BY <2>4 DEF TypeOK, WompiOK, wompi, WebhookLookup
    <3> QED BY <3>1, <3>2, <3>3
  <2>5. ASSUME NEW p \in Procs, NEW o \in Orders, StuckList(p, o)
        PROVE  RowsOK' /\ IdemOK' /\ WompiOK'
    <3>1. RowsOK'
      BY <2>5 DEF TypeOK, RowsOK, rows, StuckList
    <3>2. IdemOK'
      BY <2>5 DEF TypeOK, IdemOK, StuckList
    <3>3. WompiOK'
      BY <2>5 DEF TypeOK, WompiOK, wompi, StuckList
    <3> QED BY <3>1, <3>2, <3>3
  <2>6. ASSUME NEW p \in Procs, NEW o \in Orders, ExpireUncharged(p, o)
        PROVE  RowsOK' /\ IdemOK' /\ WompiOK'
    <3>1. RowsOK'
      BY <2>6, OrderAssumption DEF TypeOK, RowsOK, HandlersOK, LocalsOK, ExpireUncharged,
          Context, OrderStatus, ProviderStatus, DeliveryStatus, Final
    <3>2. IdemOK'
      BY <2>6 DEF TypeOK, IdemOK, ExpireUncharged
    <3>3. WompiOK'
      BY <2>6 DEF TypeOK, WompiOK, wompi, ExpireUncharged
    <3> QED BY <3>1, <3>2, <3>3
  <2>7. ASSUME NEW p \in Procs, CreateSave(p)
        PROVE  RowsOK' /\ IdemOK' /\ WompiOK'
    <3>1. RowsOK'
      BY <2>7, OrderAssumption DEF TypeOK, RowsOK, HandlersOK, LocalsOK, CreateSave, Context,
          OrderStatus, ProviderStatus, DeliveryStatus, Final
    <3>2. IdemOK'
      BY <2>7 DEF TypeOK, IdemOK, CreateSave
    <3>3. WompiOK'
      BY <2>7 DEF TypeOK, WompiOK, wompi, CreateSave
    <3> QED BY <3>1, <3>2, <3>3
  <2>8. ASSUME NEW p \in Procs, PayRead(p)
        PROVE  RowsOK' /\ IdemOK' /\ WompiOK'
    <3>1. RowsOK'
      BY <2>8 DEF TypeOK, RowsOK, rows, PayRead
    <3>2. IdemOK'
      BY <2>8 DEF TypeOK, IdemOK, PayRead
    <3>3. WompiOK'
      BY <2>8 DEF TypeOK, WompiOK, wompi, PayRead
    <3> QED BY <3>1, <3>2, <3>3
  <2>9. ASSUME NEW p \in Procs, ClaimForPayment(p)
        PROVE  RowsOK' /\ IdemOK' /\ WompiOK'
    <3>1. RowsOK'
      BY <2>9, OrderAssumption DEF TypeOK, RowsOK, HandlersOK, LocalsOK, ClaimForPayment,
          Context, OrderStatus, ProviderStatus, DeliveryStatus, Final
    <3>2. IdemOK'
      BY <2>9 DEF TypeOK, IdemOK, ClaimForPayment
    <3>3. WompiOK'
      BY <2>9 DEF TypeOK, WompiOK, wompi, ClaimForPayment
    <3> QED BY <3>1, <3>2, <3>3
  <2>10. ASSUME NEW p \in Procs, NEW pid \in Pids, NEW st \in {"PENDING"} \cup Outcomes,
                CardPaymentAnswered(p, pid, st)
        PROVE  RowsOK' /\ IdemOK' /\ WompiOK'
    <3>1. RowsOK'
      BY <2>10 DEF TypeOK, RowsOK, rows, CardPaymentAnswered
    <3>2. IdemOK'
      BY <2>10 DEF TypeOK, IdemOK, CardPaymentAnswered
    <3>3. WompiOK'
      BY <2>10, OutcomeAssumption DEF TypeOK, WompiOK, HandlersOK, LocalsOK, CardPaymentAnswered,
          NewCharge, ProviderStatus
    <3> QED BY <3>1, <3>2, <3>3
  <2>11. ASSUME NEW p \in Procs, NEW pid \in Pids, CardPaymentAnswerLost(p, pid)
        PROVE  RowsOK' /\ IdemOK' /\ WompiOK'
    <3>1. RowsOK'
      BY <2>11 DEF TypeOK, RowsOK, rows, CardPaymentAnswerLost
    <3>2. IdemOK'
      BY <2>11 DEF TypeOK, IdemOK, CardPaymentAnswerLost
    <3>3. WompiOK'
      BY <2>11, OutcomeAssumption DEF TypeOK, WompiOK, HandlersOK, LocalsOK,
          CardPaymentAnswerLost, NewCharge, ProviderStatus
    <3> QED BY <3>1, <3>2, <3>3
  <2>12. ASSUME NEW p \in Procs, CardPaymentFails(p)
        PROVE  RowsOK' /\ IdemOK' /\ WompiOK'
    <3>1. RowsOK'
      BY <2>12 DEF TypeOK, RowsOK, rows, CardPaymentFails
    <3>2. IdemOK'
      BY <2>12 DEF TypeOK, IdemOK, CardPaymentFails
    <3>3. WompiOK'
      BY <2>12 DEF TypeOK, WompiOK, wompi, CardPaymentFails
    <3> QED BY <3>1, <3>2, <3>3
  <2>13. ASSUME NEW p \in Procs, AttachProviderTransactionId(p)
        PROVE  RowsOK' /\ IdemOK' /\ WompiOK'
    <3>1. RowsOK'
      BY <2>13, OrderAssumption DEF TypeOK, RowsOK, HandlersOK, LocalsOK,
          AttachProviderTransactionId, Context, OrderStatus, ProviderStatus, DeliveryStatus, Final
    <3>2. IdemOK'
      BY <2>13 DEF TypeOK, IdemOK, AttachProviderTransactionId
    <3>3. WompiOK'
      BY <2>13 DEF TypeOK, WompiOK, wompi, AttachProviderTransactionId
    <3> QED BY <3>1, <3>2, <3>3
  <2>14. ASSUME NEW p \in Procs, AttachFails(p)
        PROVE  RowsOK' /\ IdemOK' /\ WompiOK'
    <3>1. RowsOK'
      BY <2>14 DEF TypeOK, RowsOK, rows, AttachFails
    <3>2. IdemOK'
      BY <2>14 DEF TypeOK, IdemOK, AttachFails
    <3>3. WompiOK'
      BY <2>14 DEF TypeOK, WompiOK, wompi, AttachFails
    <3> QED BY <3>1, <3>2, <3>3
  <2>15. ASSUME NEW p \in Procs, ReleaseClaim(p)
        PROVE  RowsOK' /\ IdemOK' /\ WompiOK'
    <3>1. RowsOK'
      BY <2>15, OrderAssumption DEF TypeOK, RowsOK, HandlersOK, LocalsOK, ReleaseClaim, Context,
          OrderStatus, ProviderStatus, DeliveryStatus, Final
    <3>2. IdemOK'
      BY <2>15 DEF TypeOK, IdemOK, ReleaseClaim
    <3>3. WompiOK'
      BY <2>15 DEF TypeOK, WompiOK, wompi, ReleaseClaim
    <3> QED BY <3>1, <3>2, <3>3
  <2>16. ASSUME NEW p \in Procs, PayPoll(p)
        PROVE  RowsOK' /\ IdemOK' /\ WompiOK'
    <3>1. RowsOK'
      BY <2>16 DEF TypeOK, RowsOK, rows, PayPoll
    <3>2. IdemOK'
      BY <2>16 DEF TypeOK, IdemOK, PayPoll
    <3>3. WompiOK'
      BY <2>16 DEF TypeOK, WompiOK, wompi, PayPoll
    <3> QED BY <3>1, <3>2, <3>3
  <2>17. ASSUME NEW p \in Procs, PollFails(p)
        PROVE  RowsOK' /\ IdemOK' /\ WompiOK'
    <3>1. RowsOK'
      BY <2>17 DEF TypeOK, RowsOK, rows, PollFails
    <3>2. IdemOK'
      BY <2>17 DEF TypeOK, IdemOK, PollFails
    <3>3. WompiOK'
      BY <2>17 DEF TypeOK, WompiOK, wompi, PollFails
    <3> QED BY <3>1, <3>2, <3>3
  <2>18. ASSUME NEW p \in Procs, SyncRead(p)
        PROVE  RowsOK' /\ IdemOK' /\ WompiOK'
    <3>1. RowsOK'
      BY <2>18 DEF TypeOK, RowsOK, rows, SyncRead
    <3>2. IdemOK'
      BY <2>18 DEF TypeOK, IdemOK, SyncRead
    <3>3. WompiOK'
      BY <2>18 DEF TypeOK, WompiOK, wompi, SyncRead
    <3> QED BY <3>1, <3>2, <3>3
  <2>19. ASSUME NEW p \in Procs, SyncPoll(p)
        PROVE  RowsOK' /\ IdemOK' /\ WompiOK'
    <3>1. RowsOK'
      BY <2>19 DEF TypeOK, RowsOK, rows, SyncPoll
    <3>2. IdemOK'
      BY <2>19 DEF TypeOK, IdemOK, SyncPoll
    <3>3. WompiOK'
      BY <2>19 DEF TypeOK, WompiOK, wompi, SyncPoll
    <3> QED BY <3>1, <3>2, <3>3
  <2>20. ASSUME NEW p \in Procs, WebhookFind(p)
        PROVE  RowsOK' /\ IdemOK' /\ WompiOK'
    <3>1. RowsOK'
      BY <2>20 DEF TypeOK, RowsOK, rows, WebhookFind
    <3>2. IdemOK'
      BY <2>20 DEF TypeOK, IdemOK, WebhookFind
    <3>3. WompiOK'
      BY <2>20 DEF TypeOK, WompiOK, wompi, WebhookFind
    <3> QED BY <3>1, <3>2, <3>3
  <2>21. ASSUME NEW p \in Procs, WebhookWait(p, "wh_wait", "wh_reclaim")
        PROVE  RowsOK' /\ IdemOK' /\ WompiOK'
    <3>1. RowsOK'
      BY <2>21 DEF TypeOK, RowsOK, rows, WebhookWait
    <3>2. IdemOK'
      BY <2>21 DEF TypeOK, IdemOK, WebhookWait
    <3>3. WompiOK'
      BY <2>21 DEF TypeOK, WompiOK, wompi, WebhookWait
    <3> QED BY <3>1, <3>2, <3>3
  <2>22. ASSUME NEW p \in Procs, WebhookReclaim(p, "wh_reclaim", "wh_begin")
        PROVE  RowsOK' /\ IdemOK' /\ WompiOK'
    <3>1. RowsOK'
      BY <2>22 DEF TypeOK, RowsOK, rows, WebhookReclaim
    <3>2. IdemOK'
      BY <2>22, WorkerKeysOK DEF TypeOK, IdemOK, KeyRow, HandlersOK, LocalsOK, WebhookReclaim,
          Context, OrderStatus
    <3>3. WompiOK'
      BY <2>22 DEF TypeOK, WompiOK, wompi, WebhookReclaim
    <3> QED BY <3>1, <3>2, <3>3
  <2>23. ASSUME NEW p \in Procs, WebhookBegin(p)
        PROVE  RowsOK' /\ IdemOK' /\ WompiOK'
    <3>1. RowsOK'
      BY <2>23 DEF TypeOK, RowsOK, rows, WebhookBegin
    <3>2. IdemOK'
      BY <2>23, WorkerKeysOK DEF TypeOK, IdemOK, KeyRow, HandlersOK, LocalsOK, WebhookBegin,
          Open, Context, OrderStatus
    <3>3. WompiOK'
      BY <2>23 DEF TypeOK, WompiOK, wompi, WebhookBegin
    <3> QED BY <3>1, <3>2, <3>3
  <2>24. ASSUME NEW p \in Procs, WebhookWait(p, "wh_wait2", "wh_reclaim2")
        PROVE  RowsOK' /\ IdemOK' /\ WompiOK'
    <3>1. RowsOK'
      BY <2>24 DEF TypeOK, RowsOK, rows, WebhookWait
    <3>2. IdemOK'
      BY <2>24 DEF TypeOK, IdemOK, WebhookWait
    <3>3. WompiOK'
      BY <2>24 DEF TypeOK, WompiOK, wompi, WebhookWait
    <3> QED BY <3>1, <3>2, <3>3
  <2>25. ASSUME NEW p \in Procs, WebhookReclaim(p, "wh_reclaim2", "wh_begin2")
        PROVE  RowsOK' /\ IdemOK' /\ WompiOK'
    <3>1. RowsOK'
      BY <2>25 DEF TypeOK, RowsOK, rows, WebhookReclaim
    <3>2. IdemOK'
      BY <2>25, WorkerKeysOK DEF TypeOK, IdemOK, KeyRow, HandlersOK, LocalsOK, WebhookReclaim,
          Context, OrderStatus
    <3>3. WompiOK'
      BY <2>25 DEF TypeOK, WompiOK, wompi, WebhookReclaim
    <3> QED BY <3>1, <3>2, <3>3
  <2>26. ASSUME NEW p \in Procs, WebhookBeginAgain(p)
        PROVE  RowsOK' /\ IdemOK' /\ WompiOK'
    <3>1. RowsOK'
      BY <2>26 DEF TypeOK, RowsOK, rows, WebhookBeginAgain
    <3>2. IdemOK'
      BY <2>26, WorkerKeysOK DEF TypeOK, IdemOK, KeyRow, HandlersOK, LocalsOK, WebhookBeginAgain,
          Open, Context, OrderStatus
    <3>3. WompiOK'
      BY <2>26 DEF TypeOK, WompiOK, wompi, WebhookBeginAgain
    <3> QED BY <3>1, <3>2, <3>3
  <2>27. ASSUME NEW p \in Procs, StuckPoll(p)
        PROVE  RowsOK' /\ IdemOK' /\ WompiOK'
    <3>1. RowsOK'
      BY <2>27 DEF TypeOK, RowsOK, rows, StuckPoll
    <3>2. IdemOK'
      BY <2>27 DEF TypeOK, IdemOK, StuckPoll
    <3>3. WompiOK'
      BY <2>27 DEF TypeOK, WompiOK, wompi, StuckPoll
    <3> QED BY <3>1, <3>2, <3>3
  <2>28. ASSUME NEW p \in Procs, StuckPollFails(p)
        PROVE  RowsOK' /\ IdemOK' /\ WompiOK'
    <3>1. RowsOK'
      BY <2>28 DEF TypeOK, RowsOK, rows, StuckPollFails
    <3>2. IdemOK'
      BY <2>28 DEF TypeOK, IdemOK, StuckPollFails
    <3>3. WompiOK'
      BY <2>28 DEF TypeOK, WompiOK, wompi, StuckPollFails
    <3> QED BY <3>1, <3>2, <3>3
  <2>29. ASSUME NEW p \in Procs, StuckBegin(p)
        PROVE  RowsOK' /\ IdemOK' /\ WompiOK'
    <3>1. RowsOK'
      BY <2>29 DEF TypeOK, RowsOK, rows, StuckBegin
    <3>2. IdemOK'
      BY <2>29, WorkerKeysOK DEF TypeOK, IdemOK, KeyRow, HandlersOK, LocalsOK, StuckBegin, Open,
          Context, OrderStatus
    <3>3. WompiOK'
      BY <2>29 DEF TypeOK, WompiOK, wompi, StuckBegin
    <3> QED BY <3>1, <3>2, <3>3
  <2>30. ASSUME NEW p \in Procs, SettleInvalidState(p)
        PROVE  RowsOK' /\ IdemOK' /\ WompiOK'
    <3>1. RowsOK'
      BY <2>30 DEF TypeOK, RowsOK, rows, SettleInvalidState
    <3>2. IdemOK'
      BY <2>30 DEF TypeOK, IdemOK, SettleInvalidState
    <3>3. WompiOK'
      BY <2>30 DEF TypeOK, WompiOK, wompi, SettleInvalidState
    <3> QED BY <3>1, <3>2, <3>3
  <2>31. ASSUME NEW p \in Procs, SettleLostRace(p)
        PROVE  RowsOK' /\ IdemOK' /\ WompiOK'
    <3>1. RowsOK'
      BY <2>31 DEF TypeOK, RowsOK, rows, SettleLostRace
    <3>2. IdemOK'
      BY <2>31 DEF TypeOK, IdemOK, SettleLostRace
    <3>3. WompiOK'
      BY <2>31 DEF TypeOK, WompiOK, wompi, SettleLostRace
    <3> QED BY <3>1, <3>2, <3>3
  <2>32. ASSUME NEW p \in Procs, SettleThrows(p)
        PROVE  RowsOK' /\ IdemOK' /\ WompiOK'
    <3>1. RowsOK'
      BY <2>32 DEF TypeOK, RowsOK, rows, SettleThrows
    <3>2. IdemOK'
      BY <2>32 DEF TypeOK, IdemOK, SettleThrows
    <3>3. WompiOK'
      BY <2>32 DEF TypeOK, WompiOK, wompi, SettleThrows
    <3> QED BY <3>1, <3>2, <3>3
  <2>33. ASSUME NEW p \in Procs, SettleApproved(p)
        PROVE  RowsOK' /\ IdemOK' /\ WompiOK'
    <3>1. RowsOK'
      <4> DEFINE o == ctx[p].order
      <4>1. /\ o \in Orders /\ ctx[p].pid \in Pids /\ InStock(o)
            /\ status' = [status EXCEPT ![o] = "APPROVED"]
            /\ provider' = [provider EXCEPT ![o] = ctx[p].pid]
            /\ delivery' = [delivery EXCEPT ![o] = "READY"]
            /\ stock' = [i \in Products |-> stock[i] - Quantity[o][i]]
            /\ outbox' = [outbox EXCEPT ![o] = @ + 1]
            /\ leaseLapsed' = leaseLapsed
        BY <2>33 DEF TypeOK, HandlersOK, LocalsOK, SettleApproved
      <4>2. \A i \in Products : stock[i] - Quantity[o][i] \in Nat
        <5> SUFFICES ASSUME NEW i \in Products PROVE stock[i] - Quantity[o][i] \in Nat
          OBVIOUS
        <5>1. stock[i] \in Nat /\ Quantity[o][i] \in Nat
          BY <4>1, OrderAssumption DEF TypeOK, RowsOK
        <5>2. stock[i] >= Quantity[o][i]
          BY <4>1 DEF InStock
        <5> QED BY <5>1, <5>2
      <4>3. stock' \in [Products -> Nat]
        BY <4>1, <4>2
      <4>4. outbox' \in [Orders -> Nat]
        BY <4>1 DEF TypeOK, RowsOK
      <4> QED BY <4>1, <4>3, <4>4 DEF TypeOK, RowsOK, OrderStatus, DeliveryStatus, Final
    <3>2. IdemOK'
      BY <2>33 DEF TypeOK, IdemOK, SettleApproved
    <3>3. WompiOK'
      BY <2>33 DEF TypeOK, WompiOK, wompi, SettleApproved
    <3> QED BY <3>1, <3>2, <3>3
  <2>34. ASSUME NEW p \in Procs, SettleOutOfStock(p)
        PROVE  RowsOK' /\ IdemOK' /\ WompiOK'
    <3>1. RowsOK'
      BY <2>34, OrderAssumption DEF TypeOK, RowsOK, HandlersOK, LocalsOK, SettleOutOfStock,
          InStock, Context, OrderStatus, ProviderStatus, DeliveryStatus, Final
    <3>2. IdemOK'
      BY <2>34 DEF TypeOK, IdemOK, SettleOutOfStock
    <3>3. WompiOK'
      BY <2>34 DEF TypeOK, WompiOK, wompi, SettleOutOfStock
    <3> QED BY <3>1, <3>2, <3>3
  <2>35. ASSUME NEW p \in Procs, SettleNotApproved(p)
        PROVE  RowsOK' /\ IdemOK' /\ WompiOK'
    <3>1. RowsOK'
      BY <2>35, OrderAssumption DEF TypeOK, RowsOK, HandlersOK, LocalsOK, SettleNotApproved,
          Context, OrderStatus, ProviderStatus, DeliveryStatus, Final
    <3>2. IdemOK'
      BY <2>35 DEF TypeOK, IdemOK, SettleNotApproved
    <3>3. WompiOK'
      BY <2>35 DEF TypeOK, WompiOK, wompi, SettleNotApproved
    <3> QED BY <3>1, <3>2, <3>3
  <2>36. ASSUME NEW p \in Procs, VoidPayment(p)
        PROVE  RowsOK' /\ IdemOK' /\ WompiOK'
    <3>1. RowsOK'
      BY <2>36 DEF TypeOK, RowsOK, rows, VoidPayment
    <3>2. IdemOK'
      BY <2>36 DEF TypeOK, IdemOK, VoidPayment
    <3>3. WompiOK'
      BY <2>36, OutcomeAssumption DEF TypeOK, WompiOK, HandlersOK, LocalsOK, VoidPayment,
          ProviderStatus
    <3> QED BY <3>1, <3>2, <3>3
  <2>37. ASSUME NEW p \in Procs, Complete(p)
        PROVE  RowsOK' /\ IdemOK' /\ WompiOK'
    <3>1. RowsOK'
      BY <2>37 DEF TypeOK, RowsOK, rows, Complete
    <3>2. IdemOK'
      BY <2>37, WorkerKeysOK DEF TypeOK, IdemOK, KeyRow, HandlersOK, LocalsOK, Complete, Seal,
          Context, OrderStatus
    <3>3. WompiOK'
      BY <2>37 DEF TypeOK, WompiOK, wompi, Complete
    <3> QED BY <3>1, <3>2, <3>3
  <2>38. ASSUME NEW p \in Procs, Abort(p)
        PROVE  RowsOK' /\ IdemOK' /\ WompiOK'
    <3>1. RowsOK'
      BY <2>38 DEF TypeOK, RowsOK, rows, Abort
    <3>2. IdemOK'
      BY <2>38, WorkerKeysOK DEF TypeOK, IdemOK, KeyRow, HandlersOK, LocalsOK, Abort, Context,
          OrderStatus
    <3>3. WompiOK'
      BY <2>38 DEF TypeOK, WompiOK, wompi, Abort
    <3> QED BY <3>1, <3>2, <3>3
  <2>39. ASSUME NEW p \in Procs, Crash(p)
        PROVE  RowsOK' /\ IdemOK' /\ WompiOK'
    <3>1. RowsOK'
      BY <2>39 DEF TypeOK, RowsOK, rows, Crash
    <3>2. IdemOK'
      BY <2>39 DEF TypeOK, IdemOK, Crash
    <3>3. WompiOK'
      BY <2>39 DEF TypeOK, WompiOK, wompi, Crash
    <3> QED BY <3>1, <3>2, <3>3
  <2>40. ASSUME NEW o \in Orders, LeaseLapses(o)
        PROVE  RowsOK' /\ IdemOK' /\ WompiOK'
    <3>1. RowsOK'
      BY <2>40, OrderAssumption DEF TypeOK, RowsOK, HandlersOK, LocalsOK, LeaseLapses, Context,
          OrderStatus, ProviderStatus, DeliveryStatus, Final
    <3>2. IdemOK'
      BY <2>40 DEF TypeOK, IdemOK, LeaseLapses
    <3>3. WompiOK'
      BY <2>40 DEF TypeOK, WompiOK, wompi, LeaseLapses
    <3> QED BY <3>1, <3>2, <3>3
  <2>41. ASSUME NEW o \in Orders, GetWidgetSession(o)
        PROVE  RowsOK' /\ IdemOK' /\ WompiOK'
    <3>1. RowsOK'
      BY <2>41 DEF TypeOK, RowsOK, rows, GetWidgetSession
    <3>2. IdemOK'
      BY <2>41 DEF TypeOK, IdemOK, GetWidgetSession
    <3>3. WompiOK'
      BY <2>41, OutcomeAssumption DEF TypeOK, WompiOK, HandlersOK, LocalsOK, GetWidgetSession,
          HasProviderCharge, ProviderStatus
    <3> QED BY <3>1, <3>2, <3>3
  <2>42. ASSUME NEW o \in Orders, NEW pid \in Pids, WidgetCharge(o, pid)
        PROVE  RowsOK' /\ IdemOK' /\ WompiOK'
    <3>1. RowsOK'
      BY <2>42 DEF TypeOK, RowsOK, rows, WidgetCharge
    <3>2. IdemOK'
      BY <2>42 DEF TypeOK, IdemOK, WidgetCharge
    <3>3. WompiOK'
      BY <2>42, OutcomeAssumption DEF TypeOK, WompiOK, HandlersOK, LocalsOK, WidgetCharge,
          NewCharge, ProviderStatus
    <3> QED BY <3>1, <3>2, <3>3
  <2>43. ASSUME NEW pid \in Pids, NEW st \in Outcomes, ResolveCharge(pid, st)
        PROVE  RowsOK' /\ IdemOK' /\ WompiOK'
    <3>1. RowsOK'
      BY <2>43 DEF TypeOK, RowsOK, rows, ResolveCharge
    <3>2. IdemOK'
      BY <2>43 DEF TypeOK, IdemOK, ResolveCharge
    <3>3. WompiOK'
      BY <2>43, OutcomeAssumption DEF TypeOK, WompiOK, HandlersOK, LocalsOK, ResolveCharge,
          ProviderStatus
    <3> QED BY <3>1, <3>2, <3>3
  <2> QED BY <1>1, <2>1, <2>2, <2>3, <2>4, <2>5, <2>6, <2>7, <2>8, <2>9, <2>10, <2>11, <2>12,
      <2>13, <2>14, <2>15, <2>16, <2>17, <2>18, <2>19, <2>20, <2>21, <2>22, <2>23, <2>24, <2>25,
      <2>26, <2>27, <2>28, <2>29, <2>30, <2>31, <2>32, <2>33, <2>34, <2>35, <2>36, <2>37, <2>38,
      <2>39, <2>40, <2>41, <2>42, <2>43 DEF Next, Start, Step, World, Pay, Sync, Webhook, Stuck,
      Settle
<1>2. CASE UNCHANGED vars
  BY <1>2 DEF TypeOK, RowsOK, IdemOK, WompiOK, vars, rows, wompi
<1> QED BY <1>1, <1>2

\* Every table, every payment and every handler's locals keep their types.
THEOREM TypeCorrect == Spec => []TypeOK
<1>1. Init => TypeOK
  <2>1. Init => RowsOK /\ WompiOK
    BY OrderAssumption DEF Init, RowsOK, WompiOK, OrderStatus, DeliveryStatus, ProviderStatus
  <2>2. Init => IdemOK
    BY DEF Init, IdemOK
  <2>3. Init => HandlersOK
    BY NoContextOK DEF Init, HandlersOK, LocalsOK, WorkerLabels, Labels, NoContext
  <2> QED BY <2>1, <2>2, <2>3 DEF TypeOK
<1>2. TypeOK /\ [Next]_vars => TypeOK'
  BY HandlersStayOK, TablesStayOK DEF TypeOK
<1> QED BY <1>1, <1>2, PTL DEF Spec

-----------------------------------------------------------------------------
(* Rows, stock and keys.  The theorems about the rows follow from one      *)
(* lemma about what a step can do to them, the others from one about keys. *)

-----------------------------------------------------------------------------
(* The strengthening: SettledTogether and FinalIsFrozen are not inductive, *)
(* because CreateSave writes PENDING whatever the row holds.  The id it    *)
(* writes under is a fresh UUID, so the row is absent and nobody else is   *)
(* about to create it.                                                     *)

FreshIds ==
  \A p \in Procs : pc[p] = "create_save" =>
    /\ status[ctx[p].order] = "ABSENT"
    /\ \A q \in Procs \ {p} :
         pc[q] = "create_save" => ctx[q].order # ctx[p].order

(* What one step may do to the rows of the orders. *)

Untouched == UNCHANGED <<status, provider, delivery, stock, outbox>>

Placed(o) ==
  /\ status[o] = "ABSENT"
  /\ status' = [status EXCEPT ![o] = "PENDING"]
  /\ delivery' = [delivery EXCEPT ![o] = "PENDING"]
  /\ UNCHANGED <<provider, stock, outbox>>

Bound(o) ==
  /\ status[o] = "PENDING"
  /\ \E prov \in Pids \cup {None, Claim} : provider' = [provider EXCEPT ![o] = prov]
  /\ UNCHANGED <<status, delivery, stock, outbox>>

Confirmed(o) ==
  /\ status[o] = "PENDING"
  /\ \A i \in Products : stock[i] >= Quantity[o][i]
  /\ status' = [status EXCEPT ![o] = "APPROVED"]
  /\ \E pid \in Pids : provider' = [provider EXCEPT ![o] = pid]
  /\ delivery' = [delivery EXCEPT ![o] = "READY"]
  /\ stock' = [i \in Products |-> stock[i] - Quantity[o][i]]
  /\ outbox' = [outbox EXCEPT ![o] = @ + 1]

Refused(o) ==
  /\ status[o] = "PENDING"
  /\ \E st \in {"DECLINED", "ERROR"} : status' = [status EXCEPT ![o] = st]
  /\ \E pid \in Pids : provider' = [provider EXCEPT ![o] = pid]
  /\ delivery' = [delivery EXCEPT ![o] = "CANCELLED"]
  /\ UNCHANGED <<stock, outbox>>

Expired(o) ==
  /\ status[o] = "PENDING"
  /\ status' = [status EXCEPT ![o] = "EXPIRED"]
  /\ provider' = [provider EXCEPT ![o] = None]
  /\ delivery' = [delivery EXCEPT ![o] = "CANCELLED"]
  /\ UNCHANGED <<stock, outbox>>

RowStep ==
  \/ Untouched
  \/ \E o \in Orders : Placed(o) \/ Bound(o) \/ Confirmed(o) \/ Refused(o) \/ Expired(o)

\* Whatever the handlers, Wompi or a crash do, the rows make one of these moves.
LEMMA EveryStepIsARowStep ==
  ASSUME TypeOK, FreshIds, [Next]_vars
  PROVE  RowStep
<1>1. CASE Next
  <2>1. ASSUME NEW p \in Procs, NEW o \in Orders, CreateCheckStock(p, o)
        PROVE  RowStep
    BY <2>1 DEF RowStep, Untouched, rows, CreateCheckStock
  <2>2. ASSUME NEW p \in Procs, NEW o \in Orders, NEW k \in ClientKeys, PayBegin(p, o, k)
        PROVE  RowStep
    BY <2>2 DEF RowStep, Untouched, rows, PayBegin
  <2>3. ASSUME NEW p \in Procs, NEW o \in Orders, NEW k \in ClientKeys, NEW pid \in Pids,
               SyncBegin(p, o, k, pid)
        PROVE  RowStep
    BY <2>3 DEF RowStep, Untouched, rows, SyncBegin
  <2>4. ASSUME NEW p \in Procs, NEW o \in Orders, NEW pid \in Pids, NEW st \in ProviderStatus,
               WebhookLookup(p, o, pid, st)
        PROVE  RowStep
    BY <2>4 DEF RowStep, Untouched, rows, WebhookLookup
  <2>5. ASSUME NEW p \in Procs, NEW o \in Orders, StuckList(p, o)
        PROVE  RowStep
    BY <2>5 DEF RowStep, Untouched, rows, StuckList
  <2>6. ASSUME NEW p \in Procs, NEW o \in Orders, ExpireUncharged(p, o)
        PROVE  RowStep
    BY <2>6 DEF RowStep, Expired, ExpireUncharged
  <2>7. ASSUME NEW p \in Procs, CreateSave(p)
        PROVE  RowStep
    BY <2>7 DEF RowStep, Placed, FreshIds, TypeOK, HandlersOK, LocalsOK, CreateSave
  <2>8. ASSUME NEW p \in Procs, PayRead(p)
        PROVE  RowStep
    BY <2>8 DEF RowStep, Untouched, rows, PayRead
  <2>9. ASSUME NEW p \in Procs, ClaimForPayment(p)
        PROVE  RowStep
    BY <2>9 DEF RowStep, Bound, Untouched, TypeOK, RowsOK, HandlersOK, LocalsOK, ClaimForPayment
  <2>10. ASSUME NEW p \in Procs, NEW pid \in Pids, NEW st \in {"PENDING"} \cup Outcomes,
                CardPaymentAnswered(p, pid, st)
        PROVE  RowStep
    BY <2>10 DEF RowStep, Untouched, rows, CardPaymentAnswered
  <2>11. ASSUME NEW p \in Procs, NEW pid \in Pids, CardPaymentAnswerLost(p, pid)
        PROVE  RowStep
    BY <2>11 DEF RowStep, Untouched, rows, CardPaymentAnswerLost
  <2>12. ASSUME NEW p \in Procs, CardPaymentFails(p)
        PROVE  RowStep
    BY <2>12 DEF RowStep, Untouched, rows, CardPaymentFails
  <2>13. ASSUME NEW p \in Procs, AttachProviderTransactionId(p)
        PROVE  RowStep
    BY <2>13 DEF RowStep, Bound, Untouched, TypeOK, RowsOK, HandlersOK, LocalsOK,
        AttachProviderTransactionId
  <2>14. ASSUME NEW p \in Procs, AttachFails(p)
        PROVE  RowStep
    BY <2>14 DEF RowStep, Untouched, rows, AttachFails
  <2>15. ASSUME NEW p \in Procs, ReleaseClaim(p)
        PROVE  RowStep
    BY <2>15 DEF RowStep, Bound, Untouched, TypeOK, RowsOK, HandlersOK, LocalsOK, ReleaseClaim
  <2>16. ASSUME NEW p \in Procs, PayPoll(p)
        PROVE  RowStep
    BY <2>16 DEF RowStep, Untouched, rows, PayPoll
  <2>17. ASSUME NEW p \in Procs, PollFails(p)
        PROVE  RowStep
    BY <2>17 DEF RowStep, Untouched, rows, PollFails
  <2>18. ASSUME NEW p \in Procs, SyncRead(p)
        PROVE  RowStep
    BY <2>18 DEF RowStep, Untouched, rows, SyncRead
  <2>19. ASSUME NEW p \in Procs, SyncPoll(p)
        PROVE  RowStep
    BY <2>19 DEF RowStep, Untouched, rows, SyncPoll
  <2>20. ASSUME NEW p \in Procs, WebhookFind(p)
        PROVE  RowStep
    BY <2>20 DEF RowStep, Untouched, rows, WebhookFind
  <2>21. ASSUME NEW p \in Procs, WebhookWait(p, "wh_wait", "wh_reclaim")
        PROVE  RowStep
    BY <2>21 DEF RowStep, Untouched, rows, WebhookWait
  <2>22. ASSUME NEW p \in Procs, WebhookReclaim(p, "wh_reclaim", "wh_begin")
        PROVE  RowStep
    BY <2>22 DEF RowStep, Untouched, rows, WebhookReclaim
  <2>23. ASSUME NEW p \in Procs, WebhookBegin(p)
        PROVE  RowStep
    BY <2>23 DEF RowStep, Untouched, rows, WebhookBegin
  <2>24. ASSUME NEW p \in Procs, WebhookWait(p, "wh_wait2", "wh_reclaim2")
        PROVE  RowStep
    BY <2>24 DEF RowStep, Untouched, rows, WebhookWait
  <2>25. ASSUME NEW p \in Procs, WebhookReclaim(p, "wh_reclaim2", "wh_begin2")
        PROVE  RowStep
    BY <2>25 DEF RowStep, Untouched, rows, WebhookReclaim
  <2>26. ASSUME NEW p \in Procs, WebhookBeginAgain(p)
        PROVE  RowStep
    BY <2>26 DEF RowStep, Untouched, rows, WebhookBeginAgain
  <2>27. ASSUME NEW p \in Procs, StuckPoll(p)
        PROVE  RowStep
    BY <2>27 DEF RowStep, Untouched, rows, StuckPoll
  <2>28. ASSUME NEW p \in Procs, StuckPollFails(p)
        PROVE  RowStep
    BY <2>28 DEF RowStep, Untouched, rows, StuckPollFails
  <2>29. ASSUME NEW p \in Procs, StuckBegin(p)
        PROVE  RowStep
    BY <2>29 DEF RowStep, Untouched, rows, StuckBegin
  <2>30. ASSUME NEW p \in Procs, SettleInvalidState(p)
        PROVE  RowStep
    BY <2>30 DEF RowStep, Untouched, rows, SettleInvalidState
  <2>31. ASSUME NEW p \in Procs, SettleLostRace(p)
        PROVE  RowStep
    BY <2>31 DEF RowStep, Untouched, rows, SettleLostRace
  <2>32. ASSUME NEW p \in Procs, SettleThrows(p)
        PROVE  RowStep
    BY <2>32 DEF RowStep, Untouched, rows, SettleThrows
  <2>33. ASSUME NEW p \in Procs, SettleApproved(p)
        PROVE  RowStep
    BY <2>33 DEF RowStep, Confirmed, InStock, TypeOK, HandlersOK, LocalsOK, SettleApproved
  <2>34. ASSUME NEW p \in Procs, SettleOutOfStock(p)
        PROVE  RowStep
    BY <2>34 DEF RowStep, Refused, TypeOK, HandlersOK, LocalsOK, SettleOutOfStock
  <2>35. ASSUME NEW p \in Procs, SettleNotApproved(p)
        PROVE  RowStep
    <3> DEFINE o == ctx[p].order
    <3>1. o \in Orders /\ ctx[p].pid \in Pids /\ ctx[p].reported \in {"PENDING", "DECLINED",
    "ERROR"}
      BY <2>35 DEF TypeOK, HandlersOK, LocalsOK, Context, ProviderStatus, SettleNotApproved
    <3>2. CASE ctx[p].reported = "PENDING"
      <4>1. status' = status /\ delivery' = delivery
        BY <2>35, <3>1, <3>2 DEF TypeOK, RowsOK, SettleNotApproved
      <4> QED BY <2>35, <3>1, <4>1 DEF RowStep, Bound, SettleNotApproved
    <3>3. CASE ctx[p].reported # "PENDING"
      BY <2>35, <3>1, <3>3 DEF RowStep, Refused, SettleNotApproved
    <3> QED BY <3>2, <3>3
  <2>36. ASSUME NEW p \in Procs, VoidPayment(p)
        PROVE  RowStep
    BY <2>36 DEF RowStep, Untouched, rows, VoidPayment
  <2>37. ASSUME NEW p \in Procs, Complete(p)
        PROVE  RowStep
    BY <2>37 DEF RowStep, Untouched, rows, Complete
  <2>38. ASSUME NEW p \in Procs, Abort(p)
        PROVE  RowStep
    BY <2>38 DEF RowStep, Untouched, rows, Abort
  <2>39. ASSUME NEW p \in Procs, Crash(p)
        PROVE  RowStep
    BY <2>39 DEF RowStep, Untouched, rows, Crash
  <2>40. ASSUME NEW o \in Orders, LeaseLapses(o)
        PROVE  RowStep
    BY <2>40 DEF RowStep, Untouched, rows, LeaseLapses
  <2>41. ASSUME NEW o \in Orders, GetWidgetSession(o)
        PROVE  RowStep
    BY <2>41 DEF RowStep, Untouched, rows, GetWidgetSession
  <2>42. ASSUME NEW o \in Orders, NEW pid \in Pids, WidgetCharge(o, pid)
        PROVE  RowStep
    BY <2>42 DEF RowStep, Untouched, rows, WidgetCharge
  <2>43. ASSUME NEW pid \in Pids, NEW st \in Outcomes, ResolveCharge(pid, st)
        PROVE  RowStep
    BY <2>43 DEF RowStep, Untouched, rows, ResolveCharge
  <2> QED BY <1>1, <2>1, <2>2, <2>3, <2>4, <2>5, <2>6, <2>7, <2>8, <2>9, <2>10, <2>11, <2>12,
      <2>13, <2>14, <2>15, <2>16, <2>17, <2>18, <2>19, <2>20, <2>21, <2>22, <2>23, <2>24, <2>25,
      <2>26, <2>27, <2>28, <2>29, <2>30, <2>31, <2>32, <2>33, <2>34, <2>35, <2>36, <2>37, <2>38,
      <2>39, <2>40, <2>41, <2>42, <2>43 DEF Next, Start, Step, World, Pay, Sync, Webhook, Stuck,
      Settle
<1>2. CASE UNCHANGED vars
  BY <1>2 DEF RowStep, Untouched, vars, rows
<1> QED BY <1>1, <1>2

\* A create in flight stays the only writer of its id.
LEMMA FreshIdsStay == TypeOK /\ FreshIds /\ [Next]_vars => FreshIds'
<1> SUFFICES ASSUME TypeOK, FreshIds, [Next]_vars PROVE FreshIds'
  OBVIOUS
<1>1. CASE Next
  <2>1. ASSUME NEW p \in Procs, NEW o \in Orders, CreateCheckStock(p, o)
        PROVE  FreshIds'
    BY <2>1 DEF FreshIds, TypeOK, RowsOK, HandlersOK, LocalsOK, CreateCheckStock, rows, Goto,
        Locals, Context
  <2>2. ASSUME NEW p \in Procs, NEW o \in Orders, NEW k \in ClientKeys, PayBegin(p, o, k)
        PROVE  FreshIds'
    BY <2>2 DEF FreshIds, TypeOK, RowsOK, HandlersOK, LocalsOK, PayBegin, rows, Goto, Locals
  <2>3. ASSUME NEW p \in Procs, NEW o \in Orders, NEW k \in ClientKeys, NEW pid \in Pids,
               SyncBegin(p, o, k, pid)
        PROVE  FreshIds'
    BY <2>3 DEF FreshIds, TypeOK, RowsOK, HandlersOK, LocalsOK, SyncBegin, rows, Goto, Locals
  <2>4. ASSUME NEW p \in Procs, NEW o \in Orders, NEW pid \in Pids, NEW st \in ProviderStatus,
               WebhookLookup(p, o, pid, st)
        PROVE  FreshIds'
    BY <2>4 DEF FreshIds, TypeOK, RowsOK, HandlersOK, LocalsOK, WebhookLookup, rows, Goto,
        Locals, Seeing
  <2>5. ASSUME NEW p \in Procs, NEW o \in Orders, StuckList(p, o)
        PROVE  FreshIds'
    BY <2>5 DEF FreshIds, TypeOK, RowsOK, HandlersOK, LocalsOK, StuckList, rows, Goto, Locals,
        Seeing
  <2>6. ASSUME NEW p \in Procs, NEW o \in Orders, ExpireUncharged(p, o)
        PROVE  FreshIds'
    BY <2>6 DEF FreshIds, TypeOK, RowsOK, ExpireUncharged, rows, handlers
  <2>7. ASSUME NEW p \in Procs, CreateSave(p)
        PROVE  FreshIds'
    BY <2>7 DEF FreshIds, TypeOK, RowsOK, HandlersOK, LocalsOK, CreateSave, rows, Goto, Locals,
        Return
  <2>8. ASSUME NEW p \in Procs, PayRead(p)
        PROVE  FreshIds'
    BY <2>8 DEF FreshIds, TypeOK, RowsOK, HandlersOK, LocalsOK, PayRead, rows, Goto, Locals,
        GotoAbort, Seeing
  <2>9. ASSUME NEW p \in Procs, ClaimForPayment(p)
        PROVE  FreshIds'
    BY <2>9 DEF FreshIds, TypeOK, RowsOK, HandlersOK, LocalsOK, ClaimForPayment, rows, Goto,
        Locals, GotoAbort
  <2>10. ASSUME NEW p \in Procs, NEW pid \in Pids, NEW st \in {"PENDING"} \cup Outcomes,
                CardPaymentAnswered(p, pid, st)
        PROVE  FreshIds'
    BY <2>10 DEF FreshIds, TypeOK, RowsOK, HandlersOK, LocalsOK, CardPaymentAnswered, rows, Goto,
        Locals
  <2>11. ASSUME NEW p \in Procs, NEW pid \in Pids, CardPaymentAnswerLost(p, pid)
        PROVE  FreshIds'
    BY <2>11 DEF FreshIds, TypeOK, RowsOK, HandlersOK, LocalsOK, CardPaymentAnswerLost, rows, Goto
  <2>12. ASSUME NEW p \in Procs, CardPaymentFails(p)
        PROVE  FreshIds'
    BY <2>12 DEF FreshIds, TypeOK, RowsOK, HandlersOK, LocalsOK, CardPaymentFails, rows, Goto
  <2>13. ASSUME NEW p \in Procs, AttachProviderTransactionId(p)
        PROVE  FreshIds'
    BY <2>13 DEF FreshIds, TypeOK, RowsOK, HandlersOK, LocalsOK, AttachProviderTransactionId,
        rows, Goto
  <2>14. ASSUME NEW p \in Procs, AttachFails(p)
        PROVE  FreshIds'
    BY <2>14 DEF FreshIds, TypeOK, RowsOK, HandlersOK, LocalsOK, AttachFails, rows, Goto
  <2>15. ASSUME NEW p \in Procs, ReleaseClaim(p)
        PROVE  FreshIds'
    BY <2>15 DEF FreshIds, TypeOK, RowsOK, HandlersOK, LocalsOK, ReleaseClaim, rows, Goto,
        Locals, GotoAbort
  <2>16. ASSUME NEW p \in Procs, PayPoll(p)
        PROVE  FreshIds'
    BY <2>16 DEF FreshIds, TypeOK, RowsOK, HandlersOK, LocalsOK, PayPoll, rows, Goto, Locals
  <2>17. ASSUME NEW p \in Procs, PollFails(p)
        PROVE  FreshIds'
    BY <2>17 DEF FreshIds, TypeOK, RowsOK, HandlersOK, LocalsOK, PollFails, rows, Goto, Locals,
        GotoAbort
  <2>18. ASSUME NEW p \in Procs, SyncRead(p)
        PROVE  FreshIds'
    BY <2>18 DEF FreshIds, TypeOK, RowsOK, HandlersOK, LocalsOK, SyncRead, rows, Goto, Locals,
        GotoAbort, Seeing
  <2>19. ASSUME NEW p \in Procs, SyncPoll(p)
        PROVE  FreshIds'
    BY <2>19 DEF FreshIds, TypeOK, RowsOK, HandlersOK, LocalsOK, SyncPoll, rows, Goto, Locals,
        GotoAbort
  <2>20. ASSUME NEW p \in Procs, WebhookFind(p)
        PROVE  FreshIds'
    BY <2>20 DEF FreshIds, TypeOK, RowsOK, HandlersOK, LocalsOK, WebhookFind, rows, Goto, Locals,
        Return
  <2>21. ASSUME NEW p \in Procs, WebhookWait(p, "wh_wait", "wh_reclaim")
        PROVE  FreshIds'
    BY <2>21 DEF FreshIds, TypeOK, RowsOK, HandlersOK, LocalsOK, WebhookWait, rows, Goto, Locals,
        Return
  <2>22. ASSUME NEW p \in Procs, WebhookReclaim(p, "wh_reclaim", "wh_begin")
        PROVE  FreshIds'
    BY <2>22 DEF FreshIds, TypeOK, RowsOK, HandlersOK, LocalsOK, WebhookReclaim, rows, Goto
  <2>23. ASSUME NEW p \in Procs, WebhookBegin(p)
        PROVE  FreshIds'
    BY <2>23 DEF FreshIds, TypeOK, RowsOK, HandlersOK, LocalsOK, WebhookBegin, rows, Goto
  <2>24. ASSUME NEW p \in Procs, WebhookWait(p, "wh_wait2", "wh_reclaim2")
        PROVE  FreshIds'
    BY <2>24 DEF FreshIds, TypeOK, RowsOK, HandlersOK, LocalsOK, WebhookWait, rows, Goto, Locals,
        Return
  <2>25. ASSUME NEW p \in Procs, WebhookReclaim(p, "wh_reclaim2", "wh_begin2")
        PROVE  FreshIds'
    BY <2>25 DEF FreshIds, TypeOK, RowsOK, HandlersOK, LocalsOK, WebhookReclaim, rows, Goto
  <2>26. ASSUME NEW p \in Procs, WebhookBeginAgain(p)
        PROVE  FreshIds'
    BY <2>26 DEF FreshIds, TypeOK, RowsOK, HandlersOK, LocalsOK, WebhookBeginAgain, rows, Goto,
        Locals, Return
  <2>27. ASSUME NEW p \in Procs, StuckPoll(p)
        PROVE  FreshIds'
    BY <2>27 DEF FreshIds, TypeOK, RowsOK, HandlersOK, LocalsOK, StuckPoll, rows, Goto, Locals
  <2>28. ASSUME NEW p \in Procs, StuckPollFails(p)
        PROVE  FreshIds'
    BY <2>28 DEF FreshIds, TypeOK, RowsOK, HandlersOK, LocalsOK, StuckPollFails, rows, Goto,
        Locals, Return
  <2>29. ASSUME NEW p \in Procs, StuckBegin(p)
        PROVE  FreshIds'
    BY <2>29 DEF FreshIds, TypeOK, RowsOK, HandlersOK, LocalsOK, StuckBegin, rows, Goto, Locals,
        Return
  <2>30. ASSUME NEW p \in Procs, SettleInvalidState(p)
        PROVE  FreshIds'
    BY <2>30 DEF FreshIds, TypeOK, RowsOK, HandlersOK, LocalsOK, SettleInvalidState, rows, Goto,
        Locals, GotoAbort
  <2>31. ASSUME NEW p \in Procs, SettleLostRace(p)
        PROVE  FreshIds'
    BY <2>31 DEF FreshIds, TypeOK, RowsOK, HandlersOK, LocalsOK, SettleLostRace, rows, Goto,
        Locals, GotoAbort, AfterUpdate
  <2>32. ASSUME NEW p \in Procs, SettleThrows(p)
        PROVE  FreshIds'
    BY <2>32 DEF FreshIds, TypeOK, RowsOK, HandlersOK, LocalsOK, SettleThrows, rows, Goto,
        Locals, Return
  <2>33. ASSUME NEW p \in Procs, SettleApproved(p)
        PROVE  FreshIds'
    BY <2>33 DEF FreshIds, TypeOK, RowsOK, HandlersOK, LocalsOK, SettleApproved, rows, Goto,
        Locals, GotoAbort, AfterUpdate
  <2>34. ASSUME NEW p \in Procs, SettleOutOfStock(p)
        PROVE  FreshIds'
    BY <2>34 DEF FreshIds, TypeOK, RowsOK, HandlersOK, LocalsOK, SettleOutOfStock, rows, Goto,
        Locals, GotoAbort, AfterUpdate
  <2>35. ASSUME NEW p \in Procs, SettleNotApproved(p)
        PROVE  FreshIds'
    BY <2>35 DEF FreshIds, TypeOK, RowsOK, HandlersOK, LocalsOK, SettleNotApproved, rows, Goto,
        Locals, GotoAbort, AfterUpdate
  <2>36. ASSUME NEW p \in Procs, VoidPayment(p)
        PROVE  FreshIds'
    BY <2>36 DEF FreshIds, TypeOK, RowsOK, HandlersOK, LocalsOK, VoidPayment, rows, Goto
  <2>37. ASSUME NEW p \in Procs, Complete(p)
        PROVE  FreshIds'
    BY <2>37 DEF FreshIds, TypeOK, RowsOK, HandlersOK, LocalsOK, Complete, rows, Goto, Locals,
        Return
  <2>38. ASSUME NEW p \in Procs, Abort(p)
        PROVE  FreshIds'
    BY <2>38 DEF FreshIds, TypeOK, RowsOK, HandlersOK, LocalsOK, Abort, rows, Goto, Locals, Return
  <2>39. ASSUME NEW p \in Procs, Crash(p)
        PROVE  FreshIds'
    BY <2>39 DEF FreshIds, TypeOK, RowsOK, HandlersOK, LocalsOK, Crash, rows, Goto, Locals, Return
  <2>40. ASSUME NEW o \in Orders, LeaseLapses(o)
        PROVE  FreshIds'
    BY <2>40 DEF FreshIds, TypeOK, RowsOK, LeaseLapses, rows, handlers
  <2>41. ASSUME NEW o \in Orders, GetWidgetSession(o)
        PROVE  FreshIds'
    BY <2>41 DEF FreshIds, TypeOK, RowsOK, GetWidgetSession, rows, handlers
  <2>42. ASSUME NEW o \in Orders, NEW pid \in Pids, WidgetCharge(o, pid)
        PROVE  FreshIds'
    BY <2>42 DEF FreshIds, TypeOK, RowsOK, WidgetCharge, rows, handlers
  <2>43. ASSUME NEW pid \in Pids, NEW st \in Outcomes, ResolveCharge(pid, st)
        PROVE  FreshIds'
    BY <2>43 DEF FreshIds, TypeOK, RowsOK, ResolveCharge, rows, handlers
  <2> QED BY <1>1, <2>1, <2>2, <2>3, <2>4, <2>5, <2>6, <2>7, <2>8, <2>9, <2>10, <2>11, <2>12,
      <2>13, <2>14, <2>15, <2>16, <2>17, <2>18, <2>19, <2>20, <2>21, <2>22, <2>23, <2>24, <2>25,
      <2>26, <2>27, <2>28, <2>29, <2>30, <2>31, <2>32, <2>33, <2>34, <2>35, <2>36, <2>37, <2>38,
      <2>39, <2>40, <2>41, <2>42, <2>43 DEF Next, Start, Step, World, Pay, Sync, Webhook, Stuck,
      Settle
<1>2. CASE UNCHANGED vars
  BY <1>2 DEF FreshIds, vars, rows, handlers
<1> QED BY <1>1, <1>2

\* The inductive invariant of this module.
LEMMA SafetyBase == Spec => [](TypeOK /\ FreshIds)
<1>1. Init => FreshIds
  BY DEF Init, FreshIds
<1> QED BY <1>1, FreshIdsStay, TypeCorrect, PTL DEF Spec

-----------------------------------------------------------------------------
\* Order, delivery and order.confirmed row agree in every reachable state of every
\* instance: whichever path updateAfterPayment or expireUncharged is reached by.
THEOREM SettledTogetherHolds == Spec => []SettledTogether
<1>1. Init => SettledTogether
  BY DEF Init, SettledTogether
<1>2. TypeOK /\ FreshIds /\ SettledTogether /\ [Next]_vars => SettledTogether'
  <2> SUFFICES ASSUME TypeOK, FreshIds, SettledTogether, [Next]_vars
               PROVE  SettledTogether'
    OBVIOUS
  <2>1. CASE Untouched
    BY <2>1 DEF Untouched, SettledTogether
  <2>2. ASSUME NEW o \in Orders, Placed(o) PROVE SettledTogether'
    BY <2>2 DEF Placed, SettledTogether, TypeOK, RowsOK
  <2>3. ASSUME NEW o \in Orders, Bound(o) PROVE SettledTogether'
    BY <2>3 DEF Bound, SettledTogether
  <2>4. ASSUME NEW o \in Orders, Confirmed(o) PROVE SettledTogether'
    BY <2>4 DEF Confirmed, SettledTogether, TypeOK, RowsOK
  <2>5. ASSUME NEW o \in Orders, Refused(o) PROVE SettledTogether'
    BY <2>5 DEF Refused, SettledTogether, TypeOK, RowsOK
  <2>6. ASSUME NEW o \in Orders, Expired(o) PROVE SettledTogether'
    BY <2>6 DEF Expired, SettledTogether, TypeOK, RowsOK
  <2> QED BY <2>1, <2>2, <2>3, <2>4, <2>5, <2>6, EveryStepIsARowStep DEF RowStep
<1> QED BY <1>1, <1>2, SafetyBase, PTL DEF Spec

\* No step of any handler moves an order that is final: the conditions of the
\* claim, attach, release and expire updates and the locked re-read of
\* updateAfterPayment all ask for PENDING.
THEOREM FinalIsFrozenHolds == Spec => FinalIsFrozen
<1>1. TypeOK /\ FreshIds /\ [Next]_vars =>
        \A o \in Orders : status[o] \in Final =>
          /\ status'[o] = status[o] /\ provider'[o] = provider[o]
          /\ delivery'[o] = delivery[o] /\ outbox'[o] = outbox[o]
  <2> SUFFICES ASSUME TypeOK, FreshIds, [Next]_vars, NEW o \in Orders, status[o] \in Final
               PROVE  /\ status'[o] = status[o] /\ provider'[o] = provider[o]
                      /\ delivery'[o] = delivery[o] /\ outbox'[o] = outbox[o]
    OBVIOUS
  <2>1. status[o] \notin {"ABSENT", "PENDING"}
    BY DEF Final
  <2>2. CASE Untouched
    BY <2>2 DEF Untouched
  <2>3. ASSUME NEW x \in Orders,
               Placed(x) \/ Bound(x) \/ Confirmed(x) \/ Refused(x) \/ Expired(x)
        PROVE  /\ x # o
               /\ status'[o] = status[o] /\ provider'[o] = provider[o]
               /\ delivery'[o] = delivery[o] /\ outbox'[o] = outbox[o]
    BY <2>1, <2>3 DEF Placed, Bound, Confirmed, Refused, Expired, TypeOK, RowsOK
  <2> QED BY <2>2, <2>3, EveryStepIsARowStep DEF RowStep
<1> QED BY <1>1, SafetyBase, PTL DEF Spec, FinalIsFrozen

-----------------------------------------------------------------------------
\* Settlement implements OrderBook: five concurrent paths, retries and crashes are
\* invisible in what happens to orders, stock and confirmations.
THEOREM RefinesOrderBook == Spec => ImplementsOrderBook
<1>1. Init => Book!Init
  BY DEF Init, Book!Init, PhaseOf
<1>2. TypeOK /\ FreshIds /\ [Next]_vars => [Book!Next]_(Book!vars)
  <2> SUFFICES ASSUME TypeOK, FreshIds, [Next]_vars PROVE [Book!Next]_(Book!vars)
    OBVIOUS
  <2>1. CASE Untouched
    BY <2>1 DEF Untouched, Book!vars
  <2>2. ASSUME NEW o \in Orders, Placed(o) PROVE Book!Place(o)
    BY <2>2 DEF Placed, Book!Place, PhaseOf, TypeOK, RowsOK
  <2>3. ASSUME NEW o \in Orders, Bound(o) PROVE UNCHANGED Book!vars
    BY <2>3 DEF Bound, Book!vars
  <2>4. ASSUME NEW o \in Orders, Confirmed(o) PROVE Book!Confirm(o)
    BY <2>4 DEF Confirmed, Book!Confirm, PhaseOf, TypeOK, RowsOK
  <2>5. ASSUME NEW o \in Orders, Refused(o) PROVE Book!Refuse(o)
    BY <2>5 DEF Refused, Book!Refuse, PhaseOf, TypeOK, RowsOK
  <2>6. ASSUME NEW o \in Orders, Expired(o) PROVE Book!Expire(o)
    BY <2>6 DEF Expired, Book!Expire, PhaseOf, TypeOK, RowsOK
  <2> QED BY <2>1, <2>2, <2>3, <2>4, <2>5, <2>6, EveryStepIsARowStep DEF RowStep, Book!Next
<1> QED BY <1>1, <1>2, SafetyBase, PTL DEF Spec, ImplementsOrderBook, Book!Spec

-----------------------------------------------------------------------------
(* Sums over finite sets of orders.  The induction theorems of the library *)
(* take a predicate as a parameter, which the provers cannot instantiate;  *)
(* what they can use is that a nonempty set of finite sets has a minimal   *)
(* member.                                                                 *)

First(s) == CHOOSE o \in s : TRUE

\* T sums the units of product i over the subsets of S, in whatever order.
SumsUp(T, i, S) ==
  /\ T \in [SUBSET S -> Nat]
  /\ T[{}] = 0
  /\ \A s \in SUBSET S : \A o \in S \ s : T[s \cup {o}] = Quantity[o][i] + T[s]

\* What MapThenSumSet computes: the recursion along CHOOSE.
SumByChoice(i, S) ==
  CHOOSE g : g = [s \in SUBSET S |->
                    IF s = {} THEN 0 ELSE Quantity[First(s)][i] + g[s \ {First(s)}]]

ApprovedOrders == {o \in Orders : status[o] = "APPROVED"}

\* A set of subsets of a finite set that has a member has a minimal one.
LEMMA MinimalSubset ==
  ASSUME NEW S, IsFiniteSet(S), NEW Bad \in SUBSET SUBSET S, Bad # {}
  PROVE  \E t \in Bad : \A u \in SUBSET t : u # t => u \notin Bad
<1>1. IsWellFoundedOn(StrictSubsetOrdering(S), FiniteSubsetsOf(S))
  BY FS_StrictSubsetOrderingWellFounded
<1>2. FiniteSubsetsOf(S) = SUBSET S
  BY FS_FiniteSubsetsOfFinite
<1>3. PICK t \in Bad : \A u \in Bad : <<u, t>> \notin StrictSubsetOrdering(S)
  <2>1. Bad \subseteq FiniteSubsetsOf(S)
    BY <1>2
  <2> QED BY <1>1, <2>1, WFMin
<1>4. \A u \in SUBSET t : u # t => u \notin Bad
  BY <1>3 DEF StrictSubsetOrdering
<1> QED BY <1>4

\* Every finite set of orders has a sum.
LEMMA SumExists ==
  ASSUME NEW i \in Products, NEW S \in SUBSET Orders, IsFiniteSet(S)
  PROVE  \E T : SumsUp(T, i, S)
<1> DEFINE Bad == {t \in SUBSET S : ~ \E T : SumsUp(T, i, t)}
<1>1. SUFFICES ASSUME Bad # {} PROVE FALSE
  BY <1>1
<1>2. PICK t \in Bad : \A u \in SUBSET t : u # t => u \notin Bad
  <2>1. Bad \in SUBSET SUBSET S
    OBVIOUS
  <2> HIDE DEF Bad
  <2> QED BY <1>1, <2>1, MinimalSubset
<1>3. t # {}
  <2>1. SumsUp([s \in SUBSET {} |-> 0], i, {})
    BY DEF SumsUp
  <2> QED BY <2>1, <1>2
<1>4. PICK o \in t : TRUE
  BY <1>3
<1> DEFINE u == t \ {o}
<1>5. PICK T : SumsUp(T, i, u)
  BY <1>2, <1>4
<1>6. Quantity[o][i] \in Nat
  BY <1>2, <1>4, OrderAssumption
<1> DEFINE W == [s \in SUBSET t |-> IF o \in s THEN Quantity[o][i] + T[s \ {o}] ELSE T[s]]
<1>7. \A s \in SUBSET t : s \ {o} \in SUBSET u /\ (o \notin s => s \in SUBSET u)
  OBVIOUS
<1>8. W \in [SUBSET t -> Nat] /\ W[{}] = 0
  BY <1>5, <1>6, <1>7 DEF SumsUp
<1>9. ASSUME NEW s \in SUBSET t, NEW x \in t \ s
      PROVE  W[s \cup {x}] = Quantity[x][i] + W[s]
  <2>0. Quantity[x][i] \in Nat
    BY <1>2, OrderAssumption
  <2>1. CASE x = o
    <3>1. (s \cup {x}) \ {o} = s /\ s \cup {x} \in SUBSET t
      BY <2>1
    <3> QED BY <3>1, <2>1
  <2>2. CASE x # o /\ o \notin s
    <3>1. T[s \cup {x}] = Quantity[x][i] + T[s]
      BY <2>2, <1>5 DEF SumsUp
    <3> QED BY <3>1, <2>2
  <2>3. CASE x # o /\ o \in s
    <3>1. (s \cup {x}) \ {o} = (s \ {o}) \cup {x} /\ x \in u \ (s \ {o})
      BY <2>3
    <3>2. T[(s \ {o}) \cup {x}] = Quantity[x][i] + T[s \ {o}]
      BY <3>1, <1>5, <1>7 DEF SumsUp
    <3>3. T[s \ {o}] \in Nat
      BY <1>5, <1>7 DEF SumsUp
    <3>4. W[s \cup {x}] = Quantity[o][i] + T[(s \cup {x}) \ {o}]
      BY <2>3
    <3>5. W[s] = Quantity[o][i] + T[s \ {o}]
      BY <2>3
    <3>6. W[s \cup {x}] = Quantity[o][i] + (Quantity[x][i] + T[s \ {o}])
      BY <3>1, <3>2, <3>4
    <3> HIDE DEF W
    <3> QED BY <3>3, <3>5, <3>6, <2>0, <1>6
  <2> QED BY <2>1, <2>2, <2>3
<1>10. SumsUp(W, i, t)
  BY <1>8, <1>9 DEF SumsUp
<1> QED BY <1>2, <1>10

\* The recursion along CHOOSE computes that sum.
LEMMA SumByChoiceIsTheSum ==
  ASSUME NEW i \in Products, NEW S \in SUBSET Orders, IsFiniteSet(S),
         NEW T, SumsUp(T, i, S)
  PROVE  SumByChoice(i, S)[S] = T[S]
<1> DEFINE g == SumByChoice(i, S)
<1>1. ASSUME NEW s \in SUBSET S, s # {}
      PROVE  /\ First(s) \in s
             /\ T[s] = Quantity[First(s)][i] + T[s \ {First(s)}]
  <2>1. First(s) \in s
    BY <1>1 DEF First
  <2>2. (s \ {First(s)}) \cup {First(s)} = s
    BY <2>1
  <2>3. T[(s \ {First(s)}) \cup {First(s)}] = Quantity[First(s)][i] + T[s \ {First(s)}]
    BY <2>1 DEF SumsUp
  <2> QED BY <2>1, <2>2, <2>3
<1>2. T = [s \in SUBSET S |->
             IF s = {} THEN 0 ELSE Quantity[First(s)][i] + T[s \ {First(s)}]]
  BY <1>1 DEF SumsUp
<1>3. g = [s \in SUBSET S |->
             IF s = {} THEN 0 ELSE Quantity[First(s)][i] + g[s \ {First(s)}]]
  BY <1>2 DEF SumByChoice
<1> DEFINE Bad == {s \in SUBSET S : g[s] # T[s]}
<1>4. SUFFICES ASSUME Bad # {} PROVE FALSE
  BY <1>4
<1> HIDE DEF g
<1>5. PICK t \in Bad : \A u \in SUBSET t : u # t => u \notin Bad
  <2>1. Bad \in SUBSET SUBSET S
    OBVIOUS
  <2> HIDE DEF Bad
  <2> QED BY <1>4, <2>1, MinimalSubset
<1>6. CASE t = {}
  BY <1>6, <1>3, <1>5 DEF SumsUp
<1>7. CASE t # {}
  <2>1. First(t) \in t
    BY <1>1, <1>5, <1>7
  <2>2. g[t \ {First(t)}] = T[t \ {First(t)}]
    BY <2>1, <1>5
  <2>3. g[t] = Quantity[First(t)][i] + g[t \ {First(t)}]
    BY <1>3, <1>5, <1>7
  <2> QED BY <2>2, <2>3, <1>1, <1>5, <1>7
<1> QED BY <1>6, <1>7

\* UnitsSold is that sum over the approved orders.
LEMMA UnitsSoldIsTheSum ==
  ASSUME NEW i \in Products
  PROVE  /\ UnitsSold(i) = SumByChoice(i, ApprovedOrders)[ApprovedOrders]
         /\ UnitsSold(i)' = SumByChoice(i, ApprovedOrders')[ApprovedOrders']
<1>1. UnitsSold(i) = SumByChoice(i, ApprovedOrders)[ApprovedOrders]
  BY SMT DEF UnitsSold, MapThenSumSet, MapThenFoldSet, SumByChoice, First, ApprovedOrders
<1>2. UnitsSold(i)' = SumByChoice(i, ApprovedOrders')[ApprovedOrders']
  BY SMT DEF UnitsSold, MapThenSumSet, MapThenFoldSet, SumByChoice, First, ApprovedOrders
<1> QED BY <1>1, <1>2

\* One more order adds its units.
LEMMA OneMoreOrder ==
  ASSUME NEW i \in Products, NEW S \in SUBSET Orders, IsFiniteSet(S), NEW o \in Orders \ S
  PROVE  /\ SumByChoice(i, S)[S] \in Nat
         /\ SumByChoice(i, S \cup {o})[S \cup {o}] = Quantity[o][i] + SumByChoice(i, S)[S]
<1> DEFINE U == S \cup {o}
<1>1. IsFiniteSet(U)
  BY FS_AddElement
<1>2. PICK T : SumsUp(T, i, U)
  BY <1>1, SumExists
<1> DEFINE R == [s \in SUBSET S |-> T[s]]
<1>3. SumsUp(R, i, S)
  BY <1>2 DEF SumsUp
<1>4. SumByChoice(i, S)[S] = R[S] /\ SumByChoice(i, U)[U] = T[U]
  BY <1>1, <1>2, <1>3, SumByChoiceIsTheSum
<1>5. T[S \cup {o}] = Quantity[o][i] + T[S] /\ T[S] \in Nat
  BY <1>2 DEF SumsUp
<1> QED BY <1>4, <1>5

-----------------------------------------------------------------------------
(* The stock. *)

StockOK == IsFiniteSet(ApprovedOrders) /\ StockConserved

\* A move that leaves the approved orders and the stock alone keeps the balance.
LEMMA SameOrdersSameStock ==
  ASSUME StockOK, ApprovedOrders' = ApprovedOrders, stock' = stock
  PROVE  StockOK'
<1>1. ASSUME NEW i \in Products
      PROVE  stock'[i] + UnitsSold(i)' = InitialStock[i]
  <2>1. UnitsSold(i)' = UnitsSold(i)
    BY UnitsSoldIsTheSum
  <2> QED BY <2>1 DEF StockOK, StockConserved
<1> QED BY <1>1 DEF StockOK, StockConserved

\* Whatever move the rows make, every unit is on the shelf or in an approved order.
LEMMA StockStaysConserved ==
  ASSUME TypeOK, TypeOK', StockOK, RowStep
  PROVE  StockOK'
<1>1. CASE Untouched
  BY <1>1, SameOrdersSameStock DEF Untouched, ApprovedOrders
<1>2. ASSUME NEW o \in Orders, Placed(o) \/ Bound(o) \/ Refused(o) \/ Expired(o)
      PROVE  StockOK'
  <2>1. ApprovedOrders' = ApprovedOrders /\ stock' = stock
    BY <1>2 DEF Placed, Bound, Refused, Expired, ApprovedOrders, TypeOK, RowsOK
  <2> QED BY <2>1, SameOrdersSameStock
<1>3. ASSUME NEW o \in Orders, Confirmed(o)
      PROVE  StockOK'
  <2>1. /\ o \in Orders \ ApprovedOrders
        /\ ApprovedOrders' = ApprovedOrders \cup {o}
        /\ ApprovedOrders \in SUBSET Orders
    BY <1>3 DEF Confirmed, ApprovedOrders, TypeOK, RowsOK
  <2>2. IsFiniteSet(ApprovedOrders')
    BY <2>1, FS_AddElement DEF StockOK
  <2>3. ASSUME NEW i \in Products
        PROVE  stock'[i] + UnitsSold(i)' = InitialStock[i]
    <3>1. /\ UnitsSold(i) \in Nat
          /\ UnitsSold(i)' = Quantity[o][i] + UnitsSold(i)
      BY <2>1, OneMoreOrder, UnitsSoldIsTheSum DEF StockOK
    <3>2. stock'[i] = stock[i] - Quantity[o][i]
      BY <1>3 DEF Confirmed
    <3>3. stock[i] \in Int /\ Quantity[o][i] \in Nat
      BY OrderAssumption DEF TypeOK, RowsOK
    <3>4. stock[i] + UnitsSold(i) = InitialStock[i]
      BY DEF StockOK, StockConserved
    <3> QED BY <3>1, <3>2, <3>3, <3>4
  <2> QED BY <2>2, <2>3 DEF StockOK, StockConserved
<1> QED BY <1>1, <1>2, <1>3 DEF RowStep

\* Nothing is sold before the first order.
LEMMA StockBase == Init => StockOK
<1> SUFFICES ASSUME Init PROVE StockOK
  OBVIOUS
<1>1. ApprovedOrders = {} /\ stock = InitialStock
  BY DEF Init, ApprovedOrders
<1>2. IsFiniteSet({})
  BY FS_EmptySet
<1>3. ASSUME NEW i \in Products
      PROVE  stock[i] + UnitsSold(i) = InitialStock[i]
  <2>1. SumsUp([s \in SUBSET {} |-> 0], i, {})
    BY DEF SumsUp
  <2>2. SumByChoice(i, {})[{}] = 0
    BY <1>2, <2>1, SumByChoiceIsTheSum
  <2>3. UnitsSold(i) = 0
    BY <1>1, <2>2, UnitsSoldIsTheSum
  <2> QED BY <1>1, <2>3, OrderAssumption
<1> QED BY <1>1, <1>2, <1>3 DEF StockOK, StockConserved

\* No unit is sold twice or lost, in any instance: what is on the shelf and what the
\* approved orders took is the initial stock, however many orders compete for it.
THEOREM StockConservedHolds == Spec => []StockConserved
<1>1. TypeOK /\ FreshIds /\ TypeOK' /\ StockOK /\ [Next]_vars => StockOK'
  BY EveryStepIsARowStep, StockStaysConserved
<1>2. StockOK => StockConserved
  BY DEF StockOK
<1> QED BY <1>1, <1>2, StockBase, SafetyBase, PTL DEF Spec

-----------------------------------------------------------------------------
(* The Idempotency-Keys: what one step may do to the shoppers' keys and to *)
(* the handlers holding them.                                              *)

NoHandler == UNCHANGED <<idem, pc, ctx>>

OtherHandlersStay(p) ==
  \A q \in Procs \ {p} : pc'[q] = pc[q] /\ ctx'[q] = ctx[q]

\* begin() inserted the row of an unused key.
Opens(p, k) ==
  /\ pc[p] = "idle" /\ idem[k] = None
  /\ \E row \in KeyRow :
       /\ idem' = [idem EXCEPT ![k] = row]
       /\ row.state = "open" /\ ctx'[p].order = row.order
  /\ pc'[p] # "idle" /\ ctx'[p].key = k

\* The handler goes on, or dies, without touching a shopper's key.
Keeps(p) ==
  /\ \A k \in ClientKeys : idem'[k] = idem[k]
  /\ HoldsClientKey(p)' =>
       /\ HoldsClientKey(p)
       /\ ctx'[p].key = ctx[p].key /\ ctx'[p].order \in {None, ctx[p].order}

\* complete() or abort() on the handler's own key, its last step.
Closes(p) ==
  /\ pc[p] # "idle" /\ pc'[p] = "idle"
  /\ \A k \in Keys \ {ctx[p].key} : idem'[k] = idem[k]

KeyStep ==
  \/ NoHandler
  \/ \E p \in Procs :
       /\ OtherHandlersStay(p)
       /\ Keeps(p) \/ Closes(p) \/ \E k \in ClientKeys : Opens(p, k)

\* The webhook consumer and the stuck job delete and insert only worker keys.
LEMMA EveryStepIsAKeyStep ==
  ASSUME TypeOK, [Next]_vars
  PROVE  KeyStep
<1>1. CASE Next
  <2>1. ASSUME NEW p \in Procs, NEW o \in Orders, CreateCheckStock(p, o)
        PROVE  KeyStep
    <3>1. OtherHandlersStay(p)
      BY <2>1 DEF OtherHandlersStay, TypeOK, HandlersOK, CreateCheckStock, Goto, Locals
    <3>2. Keeps(p)
      BY <2>1, WorkerKeysOK, SentinelAssumption DEF Keeps, HoldsClientKey, TypeOK, IdemOK,
          HandlersOK, LocalsOK, WorkerLabels, CreateCheckStock, Goto, Locals, Context, NoContext
    <3> QED BY <3>1, <3>2 DEF KeyStep
  <2>2. ASSUME NEW p \in Procs, NEW o \in Orders, NEW k \in ClientKeys, PayBegin(p, o, k)
        PROVE  KeyStep
    <3>1. OtherHandlersStay(p)
      BY <2>2 DEF OtherHandlersStay, TypeOK, HandlersOK, PayBegin, Goto, Locals
    <3>2. Opens(p, k)
      <4> DEFINE row == [order |-> o, state |-> "open", response |-> "ABSENT"]
      <4>1. row \in KeyRow /\ row.state = "open" /\ row.order = o
        BY DEF KeyRow, OrderStatus
      <4>2. pc[p] = "idle" /\ idem[k] = None /\ idem' = [idem EXCEPT ![k] = row]
        BY <2>2 DEF PayBegin, Open
      <4>3. pc'[p] # "idle" /\ ctx'[p].key = k /\ ctx'[p].order = o
        BY <2>2 DEF TypeOK, HandlersOK, Context, PayBegin, Goto, Locals
      <4> QED BY <4>1, <4>2, <4>3 DEF Opens
    <3> QED BY <3>1, <3>2, WorkerKeysOK DEF KeyStep
  <2>3. ASSUME NEW p \in Procs, NEW o \in Orders, NEW k \in ClientKeys, NEW pid \in Pids,
               SyncBegin(p, o, k, pid)
        PROVE  KeyStep
    <3>1. OtherHandlersStay(p)
      BY <2>3 DEF OtherHandlersStay, TypeOK, HandlersOK, SyncBegin, Goto, Locals
    <3>2. Opens(p, k)
      <4> DEFINE row == [order |-> o, state |-> "open", response |-> "ABSENT"]
      <4>1. row \in KeyRow /\ row.state = "open" /\ row.order = o
        BY DEF KeyRow, OrderStatus
      <4>2. pc[p] = "idle" /\ idem[k] = None /\ idem' = [idem EXCEPT ![k] = row]
        BY <2>3 DEF SyncBegin, Open
      <4>3. pc'[p] # "idle" /\ ctx'[p].key = k /\ ctx'[p].order = o
        BY <2>3 DEF TypeOK, HandlersOK, Context, SyncBegin, Goto, Locals
      <4> QED BY <4>1, <4>2, <4>3 DEF Opens
    <3> QED BY <3>1, <3>2, WorkerKeysOK DEF KeyStep
  <2>4. ASSUME NEW p \in Procs, NEW o \in Orders, NEW pid \in Pids, NEW st \in ProviderStatus,
               WebhookLookup(p, o, pid, st)
        PROVE  KeyStep
    <3>1. OtherHandlersStay(p)
      BY <2>4 DEF OtherHandlersStay, TypeOK, HandlersOK, WebhookLookup, Goto, Locals
    <3>2. Keeps(p)
      BY <2>4, WorkerKeysOK, SentinelAssumption DEF Keeps, HoldsClientKey, TypeOK, IdemOK,
          HandlersOK, LocalsOK, WorkerLabels, WebhookLookup, Goto, Locals, Seeing, Context,
          NoContext
    <3> QED BY <3>1, <3>2 DEF KeyStep
  <2>5. ASSUME NEW p \in Procs, NEW o \in Orders, StuckList(p, o)
        PROVE  KeyStep
    <3>1. OtherHandlersStay(p)
      BY <2>5 DEF OtherHandlersStay, TypeOK, HandlersOK, StuckList, Goto, Locals
    <3>2. Keeps(p)
      BY <2>5, WorkerKeysOK, SentinelAssumption DEF Keeps, HoldsClientKey, TypeOK, IdemOK,
          HandlersOK, LocalsOK, WorkerLabels, StuckList, Goto, Locals, Seeing, Context, NoContext
    <3> QED BY <3>1, <3>2 DEF KeyStep
  <2>6. ASSUME NEW p \in Procs, NEW o \in Orders, ExpireUncharged(p, o)
        PROVE  KeyStep
    BY <2>6 DEF KeyStep, NoHandler, ExpireUncharged, handlers
  <2>7. ASSUME NEW p \in Procs, CreateSave(p)
        PROVE  KeyStep
    <3>1. OtherHandlersStay(p)
      BY <2>7 DEF OtherHandlersStay, TypeOK, HandlersOK, CreateSave, Goto, Locals, Return
    <3>2. Keeps(p)
      BY <2>7, WorkerKeysOK, SentinelAssumption DEF Keeps, HoldsClientKey, TypeOK, IdemOK,
          HandlersOK, LocalsOK, WorkerLabels, CreateSave, Goto, Locals, Return, Context, NoContext
    <3> QED BY <3>1, <3>2 DEF KeyStep
  <2>8. ASSUME NEW p \in Procs, PayRead(p)
        PROVE  KeyStep
    <3>1. OtherHandlersStay(p)
      BY <2>8 DEF OtherHandlersStay, TypeOK, HandlersOK, PayRead, Goto, Locals, GotoAbort
    <3>2. Keeps(p)
      <4>1. ctx'[p].key = ctx[p].key /\ ctx'[p].order \in {None, ctx[p].order}
        <5> DEFINE o == ctx[p].order
                   seen == Seeing(ctx[p], o)
                   gone == [NoContext EXCEPT !.key = ctx[p].key]
        <5>1. ctx[p] \in Context /\ ctx \in [Procs -> Context]
          BY DEF TypeOK, HandlersOK
        <5>2. /\ seen.key = ctx[p].key /\ seen.order = o
              /\ [seen EXCEPT !.pid = provider[o]].key = ctx[p].key
              /\ [seen EXCEPT !.pid = provider[o]].order = o
          BY <5>1 DEF Context, Seeing
        <5>3. gone.key = ctx[p].key /\ gone.order = None
          BY DEF NoContext
        <5>4. ctx'[p] \in {seen, [seen EXCEPT !.pid = provider[o]], gone}
          BY <2>8, <5>1 DEF PayRead, Locals, GotoAbort
        <5> HIDE DEF seen, gone
        <5> QED BY <5>2, <5>3, <5>4
      <4> QED BY <2>8, <4>1 DEF Keeps, HoldsClientKey, PayRead
    <3> QED BY <3>1, <3>2 DEF KeyStep
  <2>9. ASSUME NEW p \in Procs, ClaimForPayment(p)
        PROVE  KeyStep
    <3>1. OtherHandlersStay(p)
      BY <2>9 DEF OtherHandlersStay, TypeOK, HandlersOK, ClaimForPayment, Goto, Locals, GotoAbort
    <3>2. Keeps(p)
      BY <2>9, WorkerKeysOK, SentinelAssumption DEF Keeps, HoldsClientKey, TypeOK, IdemOK,
          HandlersOK, LocalsOK, WorkerLabels, ClaimForPayment, Goto, Locals, GotoAbort, Context,
          NoContext
    <3> QED BY <3>1, <3>2 DEF KeyStep
  <2>10. ASSUME NEW p \in Procs, NEW pid \in Pids, NEW st \in {"PENDING"} \cup Outcomes,
                CardPaymentAnswered(p, pid, st)
        PROVE  KeyStep
    <3>1. OtherHandlersStay(p)
      BY <2>10 DEF OtherHandlersStay, TypeOK, HandlersOK, CardPaymentAnswered, Goto, Locals
    <3>2. Keeps(p)
      BY <2>10, WorkerKeysOK, SentinelAssumption DEF Keeps, HoldsClientKey, TypeOK, IdemOK,
          HandlersOK, LocalsOK, WorkerLabels, CardPaymentAnswered, Goto, Locals, Context, NoContext
    <3> QED BY <3>1, <3>2 DEF KeyStep
  <2>11. ASSUME NEW p \in Procs, NEW pid \in Pids, CardPaymentAnswerLost(p, pid)
        PROVE  KeyStep
    <3>1. OtherHandlersStay(p)
      BY <2>11 DEF OtherHandlersStay, TypeOK, HandlersOK, CardPaymentAnswerLost, Goto
    <3>2. Keeps(p)
      BY <2>11, WorkerKeysOK, SentinelAssumption DEF Keeps, HoldsClientKey, TypeOK, IdemOK,
          HandlersOK, LocalsOK, WorkerLabels, CardPaymentAnswerLost, Goto, Context, NoContext
    <3> QED BY <3>1, <3>2 DEF KeyStep
  <2>12. ASSUME NEW p \in Procs, CardPaymentFails(p)
        PROVE  KeyStep
    <3>1. OtherHandlersStay(p)
      BY <2>12 DEF OtherHandlersStay, TypeOK, HandlersOK, CardPaymentFails, Goto
    <3>2. Keeps(p)
      BY <2>12, WorkerKeysOK, SentinelAssumption DEF Keeps, HoldsClientKey, TypeOK, IdemOK,
          HandlersOK, LocalsOK, WorkerLabels, CardPaymentFails, Goto, Context, NoContext
    <3> QED BY <3>1, <3>2 DEF KeyStep
  <2>13. ASSUME NEW p \in Procs, AttachProviderTransactionId(p)
        PROVE  KeyStep
    <3>1. OtherHandlersStay(p)
      BY <2>13 DEF OtherHandlersStay, TypeOK, HandlersOK, AttachProviderTransactionId, Goto
    <3>2. Keeps(p)
      BY <2>13, WorkerKeysOK, SentinelAssumption DEF Keeps, HoldsClientKey, TypeOK, IdemOK,
          HandlersOK, LocalsOK, WorkerLabels, AttachProviderTransactionId, Goto, Context, NoContext
    <3> QED BY <3>1, <3>2 DEF KeyStep
  <2>14. ASSUME NEW p \in Procs, AttachFails(p)
        PROVE  KeyStep
    <3>1. OtherHandlersStay(p)
      BY <2>14 DEF OtherHandlersStay, TypeOK, HandlersOK, AttachFails, Goto
    <3>2. Keeps(p)
      BY <2>14, WorkerKeysOK, SentinelAssumption DEF Keeps, HoldsClientKey, TypeOK, IdemOK,
          HandlersOK, LocalsOK, WorkerLabels, AttachFails, Goto, Context, NoContext
    <3> QED BY <3>1, <3>2 DEF KeyStep
  <2>15. ASSUME NEW p \in Procs, ReleaseClaim(p)
        PROVE  KeyStep
    <3>1. OtherHandlersStay(p)
      BY <2>15 DEF OtherHandlersStay, TypeOK, HandlersOK, ReleaseClaim, Goto, Locals, GotoAbort
    <3>2. Keeps(p)
      BY <2>15, WorkerKeysOK, SentinelAssumption DEF Keeps, HoldsClientKey, TypeOK, IdemOK,
          HandlersOK, LocalsOK, WorkerLabels, ReleaseClaim, Goto, Locals, GotoAbort, Context,
          NoContext
    <3> QED BY <3>1, <3>2 DEF KeyStep
  <2>16. ASSUME NEW p \in Procs, PayPoll(p)
        PROVE  KeyStep
    <3>1. OtherHandlersStay(p)
      BY <2>16 DEF OtherHandlersStay, TypeOK, HandlersOK, PayPoll, Goto, Locals
    <3>2. Keeps(p)
      BY <2>16, WorkerKeysOK, SentinelAssumption DEF Keeps, HoldsClientKey, TypeOK, IdemOK,
          HandlersOK, LocalsOK, WorkerLabels, PayPoll, Goto, Locals, Context, NoContext
    <3> QED BY <3>1, <3>2 DEF KeyStep
  <2>17. ASSUME NEW p \in Procs, PollFails(p)
        PROVE  KeyStep
    <3>1. OtherHandlersStay(p)
      BY <2>17 DEF OtherHandlersStay, TypeOK, HandlersOK, PollFails, Goto, Locals, GotoAbort
    <3>2. Keeps(p)
      BY <2>17, WorkerKeysOK, SentinelAssumption DEF Keeps, HoldsClientKey, TypeOK, IdemOK,
          HandlersOK, LocalsOK, WorkerLabels, PollFails, Goto, Locals, GotoAbort, Context, NoContext
    <3> QED BY <3>1, <3>2 DEF KeyStep
  <2>18. ASSUME NEW p \in Procs, SyncRead(p)
        PROVE  KeyStep
    <3>1. OtherHandlersStay(p)
      BY <2>18 DEF OtherHandlersStay, TypeOK, HandlersOK, SyncRead, Goto, Locals, GotoAbort
    <3>2. Keeps(p)
      <4>1. ctx'[p].key = ctx[p].key /\ ctx'[p].order \in {None, ctx[p].order}
        BY <2>18 DEF TypeOK, HandlersOK, Context, NoContext, SyncRead, Locals, GotoAbort, Seeing
      <4> QED BY <2>18, <4>1 DEF Keeps, HoldsClientKey, SyncRead
    <3> QED BY <3>1, <3>2 DEF KeyStep
  <2>19. ASSUME NEW p \in Procs, SyncPoll(p)
        PROVE  KeyStep
    <3>1. OtherHandlersStay(p)
      BY <2>19 DEF OtherHandlersStay, TypeOK, HandlersOK, SyncPoll, Goto, Locals, GotoAbort
    <3>2. Keeps(p)
      BY <2>19, WorkerKeysOK, SentinelAssumption DEF Keeps, HoldsClientKey, TypeOK, IdemOK,
          HandlersOK, LocalsOK, WorkerLabels, SyncPoll, Goto, Locals, GotoAbort, Context, NoContext
    <3> QED BY <3>1, <3>2 DEF KeyStep
  <2>20. ASSUME NEW p \in Procs, WebhookFind(p)
        PROVE  KeyStep
    <3>1. OtherHandlersStay(p)
      BY <2>20 DEF OtherHandlersStay, TypeOK, HandlersOK, WebhookFind, Goto, Locals, Return
    <3>2. Keeps(p)
      BY <2>20, WorkerKeysOK, SentinelAssumption DEF Keeps, HoldsClientKey, TypeOK, IdemOK,
          HandlersOK, LocalsOK, WorkerLabels, WebhookFind, Goto, Locals, Return, Context, NoContext
    <3> QED BY <3>1, <3>2 DEF KeyStep
  <2>21. ASSUME NEW p \in Procs, WebhookWait(p, "wh_wait", "wh_reclaim")
        PROVE  KeyStep
    <3>1. OtherHandlersStay(p)
      BY <2>21 DEF OtherHandlersStay, TypeOK, HandlersOK, WebhookWait, Goto, Locals, Return
    <3>2. Keeps(p)
      BY <2>21, WorkerKeysOK, SentinelAssumption DEF Keeps, HoldsClientKey, TypeOK, IdemOK,
          HandlersOK, LocalsOK, WorkerLabels, WebhookWait, Goto, Locals, Return, Context, NoContext
    <3> QED BY <3>1, <3>2 DEF KeyStep
  <2>22. ASSUME NEW p \in Procs, WebhookReclaim(p, "wh_reclaim", "wh_begin")
        PROVE  KeyStep
    <3>1. OtherHandlersStay(p)
      BY <2>22 DEF OtherHandlersStay, TypeOK, HandlersOK, WebhookReclaim, Goto
    <3>2. Keeps(p)
      BY <2>22, WorkerKeysOK, SentinelAssumption DEF Keeps, HoldsClientKey, TypeOK, IdemOK,
          HandlersOK, LocalsOK, WorkerLabels, WebhookReclaim, Goto, Context, NoContext
    <3> QED BY <3>1, <3>2 DEF KeyStep
  <2>23. ASSUME NEW p \in Procs, WebhookBegin(p)
        PROVE  KeyStep
    <3>1. OtherHandlersStay(p)
      BY <2>23 DEF OtherHandlersStay, TypeOK, HandlersOK, WebhookBegin, Goto
    <3>2. Keeps(p)
      BY <2>23, WorkerKeysOK, SentinelAssumption DEF Keeps, HoldsClientKey, TypeOK, IdemOK,
          HandlersOK, LocalsOK, WorkerLabels, WebhookBegin, Goto, Open, Context, NoContext
    <3> QED BY <3>1, <3>2 DEF KeyStep
  <2>24. ASSUME NEW p \in Procs, WebhookWait(p, "wh_wait2", "wh_reclaim2")
        PROVE  KeyStep
    <3>1. OtherHandlersStay(p)
      BY <2>24 DEF OtherHandlersStay, TypeOK, HandlersOK, WebhookWait, Goto, Locals, Return
    <3>2. Keeps(p)
      BY <2>24, WorkerKeysOK, SentinelAssumption DEF Keeps, HoldsClientKey, TypeOK, IdemOK,
          HandlersOK, LocalsOK, WorkerLabels, WebhookWait, Goto, Locals, Return, Context, NoContext
    <3> QED BY <3>1, <3>2 DEF KeyStep
  <2>25. ASSUME NEW p \in Procs, WebhookReclaim(p, "wh_reclaim2", "wh_begin2")
        PROVE  KeyStep
    <3>1. OtherHandlersStay(p)
      BY <2>25 DEF OtherHandlersStay, TypeOK, HandlersOK, WebhookReclaim, Goto
    <3>2. Keeps(p)
      BY <2>25, WorkerKeysOK, SentinelAssumption DEF Keeps, HoldsClientKey, TypeOK, IdemOK,
          HandlersOK, LocalsOK, WorkerLabels, WebhookReclaim, Goto, Context, NoContext
    <3> QED BY <3>1, <3>2 DEF KeyStep
  <2>26. ASSUME NEW p \in Procs, WebhookBeginAgain(p)
        PROVE  KeyStep
    <3>1. OtherHandlersStay(p)
      BY <2>26 DEF OtherHandlersStay, TypeOK, HandlersOK, WebhookBeginAgain, Goto, Locals, Return
    <3>2. Keeps(p)
      BY <2>26, WorkerKeysOK, SentinelAssumption DEF Keeps, HoldsClientKey, TypeOK, IdemOK,
          HandlersOK, LocalsOK, WorkerLabels, WebhookBeginAgain, Goto, Locals, Return, Open,
          Context, NoContext
    <3> QED BY <3>1, <3>2 DEF KeyStep
  <2>27. ASSUME NEW p \in Procs, StuckPoll(p)
        PROVE  KeyStep
    <3>1. OtherHandlersStay(p)
      BY <2>27 DEF OtherHandlersStay, TypeOK, HandlersOK, StuckPoll, Goto, Locals
    <3>2. Keeps(p)
      <4>1. ctx[p].pid \in Pids /\ charge[ctx[p].pid].status \in ProviderStatus
        BY <2>27 DEF TypeOK, WompiOK, HandlersOK, LocalsOK, StuckPoll
      <4>2. ctx'[p].key = <<"stuck", ctx[p].pid, charge[ctx[p].pid].status>>
        BY <2>27 DEF TypeOK, HandlersOK, Context, StuckPoll, Locals
      <4>3. ctx'[p].key \notin ClientKeys
        BY <4>1, <4>2, WorkerKeysOK, SentinelAssumption
      <4> QED BY <2>27, <4>3 DEF Keeps, HoldsClientKey, StuckPoll
    <3> QED BY <3>1, <3>2 DEF KeyStep
  <2>28. ASSUME NEW p \in Procs, StuckPollFails(p)
        PROVE  KeyStep
    <3>1. OtherHandlersStay(p)
      BY <2>28 DEF OtherHandlersStay, TypeOK, HandlersOK, StuckPollFails, Goto, Locals, Return
    <3>2. Keeps(p)
      BY <2>28, WorkerKeysOK, SentinelAssumption DEF Keeps, HoldsClientKey, TypeOK, IdemOK,
          HandlersOK, LocalsOK, WorkerLabels, StuckPollFails, Goto, Locals, Return, Context,
          NoContext
    <3> QED BY <3>1, <3>2 DEF KeyStep
  <2>29. ASSUME NEW p \in Procs, StuckBegin(p)
        PROVE  KeyStep
    <3>1. OtherHandlersStay(p)
      BY <2>29 DEF OtherHandlersStay, TypeOK, HandlersOK, StuckBegin, Goto, Locals, Return
    <3>2. Keeps(p)
      BY <2>29, WorkerKeysOK, SentinelAssumption DEF Keeps, HoldsClientKey, TypeOK, IdemOK,
          HandlersOK, LocalsOK, WorkerLabels, StuckBegin, Goto, Locals, Return, Open, Context,
          NoContext
    <3> QED BY <3>1, <3>2 DEF KeyStep
  <2>30. ASSUME NEW p \in Procs, SettleInvalidState(p)
        PROVE  KeyStep
    <3>1. OtherHandlersStay(p)
      BY <2>30 DEF OtherHandlersStay, TypeOK, HandlersOK, SettleInvalidState, Goto, Locals,
          GotoAbort
    <3>2. Keeps(p)
      BY <2>30, WorkerKeysOK, SentinelAssumption DEF Keeps, HoldsClientKey, TypeOK, IdemOK,
          HandlersOK, LocalsOK, WorkerLabels, SettleInvalidState, Goto, Locals, GotoAbort,
          Context, NoContext
    <3> QED BY <3>1, <3>2 DEF KeyStep
  <2>31. ASSUME NEW p \in Procs, SettleLostRace(p)
        PROVE  KeyStep
    <3>1. OtherHandlersStay(p)
      BY <2>31 DEF OtherHandlersStay, TypeOK, HandlersOK, SettleLostRace, Goto, Locals,
          GotoAbort, AfterUpdate
    <3>2. Keeps(p)
      BY <2>31, WorkerKeysOK, SentinelAssumption DEF Keeps, HoldsClientKey, TypeOK, IdemOK,
          HandlersOK, LocalsOK, WorkerLabels, SettleLostRace, Goto, Locals, GotoAbort,
          AfterUpdate, Context, NoContext
    <3> QED BY <3>1, <3>2 DEF KeyStep
  <2>32. ASSUME NEW p \in Procs, SettleThrows(p)
        PROVE  KeyStep
    <3>1. OtherHandlersStay(p)
      BY <2>32 DEF OtherHandlersStay, TypeOK, HandlersOK, SettleThrows, Goto, Locals, Return
    <3>2. Keeps(p)
      BY <2>32, WorkerKeysOK, SentinelAssumption DEF Keeps, HoldsClientKey, TypeOK, IdemOK,
          HandlersOK, LocalsOK, WorkerLabels, SettleThrows, Goto, Locals, Return, Context, NoContext
    <3> QED BY <3>1, <3>2 DEF KeyStep
  <2>33. ASSUME NEW p \in Procs, SettleApproved(p)
        PROVE  KeyStep
    <3>1. OtherHandlersStay(p)
      BY <2>33 DEF OtherHandlersStay, TypeOK, HandlersOK, SettleApproved, Goto, Locals,
          GotoAbort, AfterUpdate
    <3>2. Keeps(p)
      BY <2>33, WorkerKeysOK, SentinelAssumption DEF Keeps, HoldsClientKey, TypeOK, IdemOK,
          HandlersOK, LocalsOK, WorkerLabels, SettleApproved, Goto, Locals, GotoAbort,
          AfterUpdate, Context, NoContext
    <3> QED BY <3>1, <3>2 DEF KeyStep
  <2>34. ASSUME NEW p \in Procs, SettleOutOfStock(p)
        PROVE  KeyStep
    <3>1. OtherHandlersStay(p)
      BY <2>34 DEF OtherHandlersStay, TypeOK, HandlersOK, SettleOutOfStock, Goto, Locals,
          GotoAbort, AfterUpdate
    <3>2. Keeps(p)
      BY <2>34, WorkerKeysOK, SentinelAssumption DEF Keeps, HoldsClientKey, TypeOK, IdemOK,
          HandlersOK, LocalsOK, WorkerLabels, SettleOutOfStock, Goto, Locals, GotoAbort,
          AfterUpdate, Context, NoContext
    <3> QED BY <3>1, <3>2 DEF KeyStep
  <2>35. ASSUME NEW p \in Procs, SettleNotApproved(p)
        PROVE  KeyStep
    <3>1. OtherHandlersStay(p)
      BY <2>35 DEF OtherHandlersStay, TypeOK, HandlersOK, SettleNotApproved, Goto, Locals,
          GotoAbort, AfterUpdate
    <3>2. Keeps(p)
      BY <2>35, WorkerKeysOK, SentinelAssumption DEF Keeps, HoldsClientKey, TypeOK, IdemOK,
          HandlersOK, LocalsOK, WorkerLabels, SettleNotApproved, Goto, Locals, GotoAbort,
          AfterUpdate, Context, NoContext
    <3> QED BY <3>1, <3>2 DEF KeyStep
  <2>36. ASSUME NEW p \in Procs, VoidPayment(p)
        PROVE  KeyStep
    <3>1. OtherHandlersStay(p)
      BY <2>36 DEF OtherHandlersStay, TypeOK, HandlersOK, VoidPayment, Goto
    <3>2. Keeps(p)
      BY <2>36, WorkerKeysOK, SentinelAssumption DEF Keeps, HoldsClientKey, TypeOK, IdemOK,
          HandlersOK, LocalsOK, WorkerLabels, VoidPayment, Goto, Context, NoContext
    <3> QED BY <3>1, <3>2 DEF KeyStep
  <2>37. ASSUME NEW p \in Procs, Complete(p)
        PROVE  KeyStep
    <3>1. OtherHandlersStay(p)
      BY <2>37 DEF OtherHandlersStay, TypeOK, HandlersOK, Complete, Goto, Locals, Return
    <3>2. Closes(p)
      BY <2>37 DEF Closes, HoldsClientKey, TypeOK, IdemOK, HandlersOK, LocalsOK, WorkerLabels,
          Complete, Goto, Locals, Return, Seal, Context, NoContext
    <3> QED BY <3>1, <3>2 DEF KeyStep
  <2>38. ASSUME NEW p \in Procs, Abort(p)
        PROVE  KeyStep
    <3>1. OtherHandlersStay(p)
      BY <2>38 DEF OtherHandlersStay, TypeOK, HandlersOK, Abort, Goto, Locals, Return
    <3>2. Closes(p)
      BY <2>38 DEF Closes, HoldsClientKey, TypeOK, IdemOK, HandlersOK, LocalsOK, WorkerLabels,
          Abort, Goto, Locals, Return, Context, NoContext
    <3> QED BY <3>1, <3>2 DEF KeyStep
  <2>39. ASSUME NEW p \in Procs, Crash(p)
        PROVE  KeyStep
    <3>1. OtherHandlersStay(p)
      BY <2>39 DEF OtherHandlersStay, TypeOK, HandlersOK, Crash, Goto, Locals, Return
    <3>2. Keeps(p)
      BY <2>39, WorkerKeysOK, SentinelAssumption DEF Keeps, HoldsClientKey, TypeOK, IdemOK,
          HandlersOK, LocalsOK, WorkerLabels, Crash, Goto, Locals, Return, Context, NoContext
    <3> QED BY <3>1, <3>2 DEF KeyStep
  <2>40. ASSUME NEW o \in Orders, LeaseLapses(o)
        PROVE  KeyStep
    BY <2>40 DEF KeyStep, NoHandler, LeaseLapses, handlers
  <2>41. ASSUME NEW o \in Orders, GetWidgetSession(o)
        PROVE  KeyStep
    BY <2>41 DEF KeyStep, NoHandler, GetWidgetSession, handlers
  <2>42. ASSUME NEW o \in Orders, NEW pid \in Pids, WidgetCharge(o, pid)
        PROVE  KeyStep
    BY <2>42 DEF KeyStep, NoHandler, WidgetCharge, handlers
  <2>43. ASSUME NEW pid \in Pids, NEW st \in Outcomes, ResolveCharge(pid, st)
        PROVE  KeyStep
    BY <2>43 DEF KeyStep, NoHandler, ResolveCharge, handlers
  <2> QED BY <1>1, <2>1, <2>2, <2>3, <2>4, <2>5, <2>6, <2>7, <2>8, <2>9, <2>10, <2>11, <2>12,
      <2>13, <2>14, <2>15, <2>16, <2>17, <2>18, <2>19, <2>20, <2>21, <2>22, <2>23, <2>24, <2>25,
      <2>26, <2>27, <2>28, <2>29, <2>30, <2>31, <2>32, <2>33, <2>34, <2>35, <2>36, <2>37, <2>38,
      <2>39, <2>40, <2>41, <2>42, <2>43 DEF Next, Start, Step, World, Pay, Sync, Webhook, Stuck,
      Settle
<1>2. CASE UNCHANGED vars
  BY <1>2 DEF KeyStep, NoHandler, vars, handlers
<1> QED BY <1>1, <1>2

\* ClientKeyOwned is inductive once the types are known: a key is opened only when it
\* has no row, and only its holder closes it.
LEMMA ClientKeyOwnedStays == TypeOK /\ ClientKeyOwned /\ [Next]_vars => ClientKeyOwned'
<1> SUFFICES ASSUME TypeOK, ClientKeyOwned, [Next]_vars
             PROVE  ClientKeyOwned'
  OBVIOUS
<1>1. CASE NoHandler
  BY <1>1 DEF NoHandler, ClientKeyOwned, HoldsClientKey, Sealed
<1>2. ASSUME NEW p \in Procs, OtherHandlersStay(p), Keeps(p) PROVE ClientKeyOwned'
  BY <1>2 DEF OtherHandlersStay, Keeps, ClientKeyOwned, HoldsClientKey, Sealed
<1>3. ASSUME NEW p \in Procs, OtherHandlersStay(p), Closes(p) PROVE ClientKeyOwned'
  BY <1>3, WorkerKeysOK DEF OtherHandlersStay, Closes, ClientKeyOwned, HoldsClientKey, Sealed
<1>4. ASSUME NEW p \in Procs, NEW k \in ClientKeys, OtherHandlersStay(p), Opens(p, k)
      PROVE  ClientKeyOwned'
  <2>1. k \in Keys /\ idem[k] = None /\ ctx'[p].key = k /\ idem'[k] # None
        /\ idem'[k].state = "open" /\ ctx'[p].order = idem'[k].order
    BY <1>4, WorkerKeysOK, SentinelAssumption DEF Opens, TypeOK, IdemOK, KeyRow
  <2>2. \A x \in Keys \ {k} : idem'[x] = idem[x]
    BY <1>4 DEF Opens, TypeOK, IdemOK
  <2>3. \A q \in Procs \ {p} : HoldsClientKey(q) => ctx[q].key # k
    BY <2>1 DEF ClientKeyOwned
  <2>4. \A q \in Procs \ {p} : pc'[q] = pc[q] /\ ctx'[q] = ctx[q]
    BY <1>4 DEF OtherHandlersStay
  <2> QED BY <1>4, <2>1, <2>2, <2>3, <2>4, WorkerKeysOK DEF ClientKeyOwned, HoldsClientKey, Sealed
<1> QED BY <1>1, <1>2, <1>3, <1>4, EveryStepIsAKeyStep DEF KeyStep

\* A running pay or sync handler is the only owner of its key, in every instance.
THEOREM ClientKeyOwnedHolds == Spec => []ClientKeyOwned
<1>1. Init => ClientKeyOwned
  BY DEF Init, ClientKeyOwned, HoldsClientKey
<1> QED BY <1>1, ClientKeyOwnedStays, TypeCorrect, PTL DEF Spec

\* A sealed shopper key is never reopened, changed or deleted, in any instance.
THEOREM ClientKeyStaysSealedHolds == Spec => ClientKeyStaysSealed
<1>1. TypeOK /\ ClientKeyOwned /\ [Next]_vars =>
        \A k \in ClientKeys : Sealed(k) => idem'[k] = idem[k]
  <2> SUFFICES ASSUME TypeOK, ClientKeyOwned, [Next]_vars, NEW k \in ClientKeys, Sealed(k)
               PROVE  idem'[k] = idem[k]
    OBVIOUS
  <2>1. CASE NoHandler
    BY <2>1 DEF NoHandler
  <2>2. ASSUME NEW p \in Procs, Keeps(p) PROVE idem'[k] = idem[k]
    BY <2>2 DEF Keeps
  <2>3. ASSUME NEW p \in Procs, Closes(p) PROVE idem'[k] = idem[k]
    BY <2>3, WorkerKeysOK DEF Closes, ClientKeyOwned, HoldsClientKey
  <2>4. ASSUME NEW p \in Procs, NEW x \in ClientKeys, Opens(p, x) PROVE idem'[k] = idem[k]
    BY <2>4, WorkerKeysOK DEF Opens, Sealed, TypeOK, IdemOK
  <2> QED BY <2>1, <2>2, <2>3, <2>4, EveryStepIsAKeyStep DEF KeyStep
<1> QED BY <1>1, ClientKeyOwnedHolds, TypeCorrect, PTL DEF Spec, ClientKeyStaysSealed

-----------------------------------------------------------------------------
(* Money.  The properties are invariants only together with what every     *)
(* handler in flight knows of its payment and what every notification on   *)
(* its way says of it.                                                     *)

-----------------------------------------------------------------------------
(* The inductive invariant *)

PayLabels  == {"pay_read", "pay_claim", "pay_charge", "pay_attach", "pay_release", "pay_poll"}
SyncLabels == {"sync_read", "sync_poll"}
WebhookLabels ==
  {"wh_find", "wh_wait", "wh_reclaim", "wh_begin", "wh_wait2", "wh_reclaim2", "wh_begin2"}

\* Where a handler holds a status some answer or notification of Wompi gave.
ReportLabels == {"pay_attach", "stuck_begin", "settle"} \cup WebhookLabels

\* Where a handler holds a payment of its own order.
PaymentLabels ==
  {"pay_poll", "stuck_poll", "void", "complete", "complete_oos"} \cup ReportLabels

\* Wompi once said st of payment pid: it still says so, or it said so while the
\* payment was PENDING, or before the payment was voided.
Told(pid, st) ==
  \/ st \in {"PENDING", charge[pid].status}
  \/ st = "APPROVED" /\ pid \in voidTried

\* What an order's row says of the payment it holds.
RowSound(o) ==
  /\ status[o] \in {"ABSENT", "EXPIRED"} => provider[o] = None
  /\ status[o] \in {"APPROVED", "DECLINED", "ERROR"} => provider[o] \in Pids
  /\ provider[o] \in Pids =>
       /\ charge[provider[o]].ref = o
       /\ status[o] = "APPROVED" => /\ charge[provider[o]].status = "APPROVED"
                                    /\ provider[o] \notin voidTried
       /\ status[o] = "DECLINED" => charge[provider[o]].status = "DECLINED"
       /\ status[o] = "ERROR" => charge[provider[o]].status \in {"APPROVED", "ERROR"}

\* A notification is about a payment that exists, and was true when it was sent.
EventSound(pid, st) == charge[pid].ref \in Orders /\ Told(pid, st)

\* Only payments of orders that ended in ERROR under them are ever voided.
Refunded(o, pid) == status[o] = "ERROR" /\ provider[o] = pid
VoidSound(pid) == \E o \in Orders : charge[pid].ref = o /\ Refunded(o, pid)

\* What a handler at work knows: its payment is its order's, its report was true,
\* what it is about to seal is in the row, and its key is its own or its payment's.
HandlerSound(p) ==
  LET o == ctx[p].order  pid == ctx[p].pid  k == ctx[p].key IN
    /\ pc[p] \in PayLabels \cup SyncLabels => k \in ClientKeys
    /\ pc[p] \in PaymentLabels =>
         /\ charge[pid].ref = o
         /\ pc[p] # "stuck_poll" => k \in ClientKeys \/ k[2] = pid
    /\ pc[p] \in SyncLabels => charge[pid].ref \in Orders
    /\ pc[p] \in ReportLabels => Told(pid, ctx[p].reported)
    /\ pc[p] \in {"void", "complete", "complete_oos"} =>
         ctx[p].saved = status[o] /\ status[o] \in Final
    /\ pc[p] \in {"void", "complete_oos"} => Refunded(o, pid)
    /\ pc[p] = "complete_oos" => pid \in voidTried

MoneyOK ==
  /\ \A o \in Orders : RowSound(o)
  /\ \A e \in events : EventSound(e[1], e[2])
  /\ \A pid \in voidTried : VoidSound(pid)
  /\ \A p \in Procs : HandlerSound(p)

\* A worker's key is only ever opened for the order its payment was made for.
WorkerKeySound ==
  \A k \in WorkerKeys : idem[k] # None => charge[k[2]].ref = idem[k].order

-----------------------------------------------------------------------------
(* What one step may do to the rows and the payments. *)

Quiet == UNCHANGED <<status, provider, charge, events, voidTried>>

WompiStill == UNCHANGED <<charge, events, voidTried>>

Places(o) ==
  /\ status[o] = "ABSENT" /\ status' = [status EXCEPT ![o] = "PENDING"]
  /\ UNCHANGED provider /\ WompiStill

\* An order is claimed, or its claim is released.
Claims(o) ==
  /\ status[o] = "PENDING" /\ provider[o] \notin Pids
  /\ \E prov \in {None, Claim} : provider' = [provider EXCEPT ![o] = prov]
  /\ UNCHANGED status /\ WompiStill

\* The payment of handler p is written into the row of its order.
Binds(p) ==
  /\ pc[p] \in {"pay_attach", "settle"} /\ status[ctx[p].order] = "PENDING"
  /\ provider' = [provider EXCEPT ![ctx[p].order] = ctx[p].pid]
  /\ UNCHANGED status /\ WompiStill

\* The final status an answer of Wompi leads to; an APPROVED one may find no stock.
Answers(reported, st) ==
  \/ reported = "APPROVED" /\ st \in {"APPROVED", "ERROR"}
  \/ st \in {"DECLINED", "ERROR"} /\ reported = st

Settles(p) ==
  /\ pc[p] = "settle" /\ status[ctx[p].order] = "PENDING"
  /\ \E st \in Final :
       /\ Answers(ctx[p].reported, st)
       /\ status' = [status EXCEPT ![ctx[p].order] = st]
       /\ ctx[p].reported = "APPROVED" /\ st = "ERROR" =>
            pc'[p] = "void" /\ ctx'[p].pid = ctx[p].pid
  /\ provider' = [provider EXCEPT ![ctx[p].order] = ctx[p].pid]
  /\ WompiStill

Expires(o) ==
  /\ status[o] = "PENDING" /\ status' = [status EXCEPT ![o] = "EXPIRED"]
  /\ provider' = [provider EXCEPT ![o] = None]
  /\ WompiStill

Charges(pid, o) ==
  /\ \E st \in ProviderStatus : NewCharge(pid, o, st)
  /\ UNCHANGED <<status, provider, voidTried>>

Resolves(pid) ==
  /\ charge[pid].ref # None /\ charge[pid].status = "PENDING"
  /\ \E st \in ProviderStatus :
       /\ charge' = [charge EXCEPT ![pid].status = st]
       /\ events' = events \cup {<<pid, st>>}
  /\ UNCHANGED <<status, provider, voidTried>>

Voids(p) ==
  /\ pc[p] = "void"
  /\ LET pid == ctx[p].pid IN
       /\ voidTried' = voidTried \cup {pid}
       /\ \/ /\ charge[pid].status = "APPROVED"
             /\ charge' = [charge EXCEPT ![pid].status = "ERROR"]
             /\ events' = events \cup {<<pid, "ERROR">>}
          \/ UNCHANGED <<charge, events>>
  /\ UNCHANGED <<status, provider>>

MoneyStep ==
  \/ Quiet
  \/ \E o \in Orders : Places(o) \/ Claims(o) \/ Expires(o)
  \/ \E p \in Procs : Binds(p) \/ Settles(p) \/ Voids(p)
  \/ \E pid \in Pids, o \in Orders : Charges(pid, o)
  \/ \E pid \in Pids : Resolves(pid)

\* Only Wompi and the void change a payment, only five awaits and the orphan job
\* change what a row says of one, and never both in one step.
LEMMA EveryStepIsAMoneyStep ==
  ASSUME TypeOK, FreshIds, [Next]_vars
  PROVE  MoneyStep
<1>1. CASE Next
  <2>1. ASSUME NEW p \in Procs, NEW o \in Orders, CreateCheckStock(p, o)
        PROVE  MoneyStep
    BY <2>1 DEF MoneyStep, Quiet, rows, wompi, CreateCheckStock
  <2>2. ASSUME NEW p \in Procs, NEW o \in Orders, NEW k \in ClientKeys, PayBegin(p, o, k)
        PROVE  MoneyStep
    BY <2>2 DEF MoneyStep, Quiet, rows, wompi, PayBegin
  <2>3. ASSUME NEW p \in Procs, NEW o \in Orders, NEW k \in ClientKeys, NEW pid \in Pids,
               SyncBegin(p, o, k, pid)
        PROVE  MoneyStep
    BY <2>3 DEF MoneyStep, Quiet, rows, wompi, SyncBegin
  <2>4. ASSUME NEW p \in Procs, NEW o \in Orders, NEW pid \in Pids, NEW st \in ProviderStatus,
               WebhookLookup(p, o, pid, st)
        PROVE  MoneyStep
    BY <2>4 DEF MoneyStep, Quiet, rows, wompi, WebhookLookup
  <2>5. ASSUME NEW p \in Procs, NEW o \in Orders, StuckList(p, o)
        PROVE  MoneyStep
    BY <2>5 DEF MoneyStep, Quiet, rows, wompi, StuckList
  <2>6. ASSUME NEW p \in Procs, NEW o \in Orders, ExpireUncharged(p, o)
        PROVE  MoneyStep
    BY <2>6 DEF MoneyStep, Expires, WompiStill, wompi, ExpireUncharged
  <2>7. ASSUME NEW p \in Procs, CreateSave(p)
        PROVE  MoneyStep
    BY <2>7 DEF MoneyStep, Places, WompiStill, wompi, FreshIds, TypeOK, HandlersOK, LocalsOK,
        CreateSave
  <2>8. ASSUME NEW p \in Procs, PayRead(p)
        PROVE  MoneyStep
    BY <2>8 DEF MoneyStep, Quiet, rows, wompi, PayRead
  <2>9. ASSUME NEW p \in Procs, ClaimForPayment(p)
        PROVE  MoneyStep
    BY <2>9, SentinelAssumption DEF MoneyStep, Claims, WompiStill, wompi, Quiet, rows, TypeOK,
        RowsOK, HandlersOK, LocalsOK, ClaimForPayment
  <2>10. ASSUME NEW p \in Procs, NEW pid \in Pids, NEW st \in {"PENDING"} \cup Outcomes,
                CardPaymentAnswered(p, pid, st)
        PROVE  MoneyStep
    BY <2>10, OutcomeAssumption DEF MoneyStep, Charges, rows, TypeOK, HandlersOK, LocalsOK,
        ProviderStatus, CardPaymentAnswered
  <2>11. ASSUME NEW p \in Procs, NEW pid \in Pids, CardPaymentAnswerLost(p, pid)
        PROVE  MoneyStep
    BY <2>11, OutcomeAssumption DEF MoneyStep, Charges, rows, TypeOK, HandlersOK, LocalsOK,
        ProviderStatus, CardPaymentAnswerLost
  <2>12. ASSUME NEW p \in Procs, CardPaymentFails(p)
        PROVE  MoneyStep
    BY <2>12 DEF MoneyStep, Quiet, rows, wompi, CardPaymentFails
  <2>13. ASSUME NEW p \in Procs, AttachProviderTransactionId(p)
        PROVE  MoneyStep
    BY <2>13, SentinelAssumption DEF MoneyStep, Binds, WompiStill, wompi, Quiet, TypeOK, RowsOK,
        HandlersOK, LocalsOK, AttachProviderTransactionId
  <2>14. ASSUME NEW p \in Procs, AttachFails(p)
        PROVE  MoneyStep
    BY <2>14 DEF MoneyStep, Quiet, rows, wompi, AttachFails
  <2>15. ASSUME NEW p \in Procs, ReleaseClaim(p)
        PROVE  MoneyStep
    <3> DEFINE o == ctx[p].order
    <3>1. CASE status[o] = "PENDING" /\ provider[o] = Claim
      BY <2>15, <3>1, SentinelAssumption DEF MoneyStep, Claims, WompiStill, wompi, TypeOK,
          HandlersOK, LocalsOK, ReleaseClaim
    <3>2. CASE ~(status[o] = "PENDING" /\ provider[o] = Claim)
      BY <2>15, <3>2 DEF MoneyStep, Quiet, wompi, ReleaseClaim
    <3> QED BY <3>1, <3>2
  <2>16. ASSUME NEW p \in Procs, PayPoll(p)
        PROVE  MoneyStep
    BY <2>16 DEF MoneyStep, Quiet, rows, wompi, PayPoll
  <2>17. ASSUME NEW p \in Procs, PollFails(p)
        PROVE  MoneyStep
    BY <2>17 DEF MoneyStep, Quiet, rows, wompi, PollFails
  <2>18. ASSUME NEW p \in Procs, SyncRead(p)
        PROVE  MoneyStep
    BY <2>18 DEF MoneyStep, Quiet, rows, wompi, SyncRead
  <2>19. ASSUME NEW p \in Procs, SyncPoll(p)
        PROVE  MoneyStep
    BY <2>19 DEF MoneyStep, Quiet, rows, wompi, SyncPoll
  <2>20. ASSUME NEW p \in Procs, WebhookFind(p)
        PROVE  MoneyStep
    BY <2>20 DEF MoneyStep, Quiet, rows, wompi, WebhookFind
  <2>21. ASSUME NEW p \in Procs, WebhookWait(p, "wh_wait", "wh_reclaim")
        PROVE  MoneyStep
    BY <2>21 DEF MoneyStep, Quiet, rows, wompi, WebhookWait
  <2>22. ASSUME NEW p \in Procs, WebhookReclaim(p, "wh_reclaim", "wh_begin")
        PROVE  MoneyStep
    BY <2>22 DEF MoneyStep, Quiet, rows, wompi, WebhookReclaim
  <2>23. ASSUME NEW p \in Procs, WebhookBegin(p)
        PROVE  MoneyStep
    BY <2>23 DEF MoneyStep, Quiet, rows, wompi, WebhookBegin
  <2>24. ASSUME NEW p \in Procs, WebhookWait(p, "wh_wait2", "wh_reclaim2")
        PROVE  MoneyStep
    BY <2>24 DEF MoneyStep, Quiet, rows, wompi, WebhookWait
  <2>25. ASSUME NEW p \in Procs, WebhookReclaim(p, "wh_reclaim2", "wh_begin2")
        PROVE  MoneyStep
    BY <2>25 DEF MoneyStep, Quiet, rows, wompi, WebhookReclaim
  <2>26. ASSUME NEW p \in Procs, WebhookBeginAgain(p)
        PROVE  MoneyStep
    BY <2>26 DEF MoneyStep, Quiet, rows, wompi, WebhookBeginAgain
  <2>27. ASSUME NEW p \in Procs, StuckPoll(p)
        PROVE  MoneyStep
    BY <2>27 DEF MoneyStep, Quiet, rows, wompi, StuckPoll
  <2>28. ASSUME NEW p \in Procs, StuckPollFails(p)
        PROVE  MoneyStep
    BY <2>28 DEF MoneyStep, Quiet, rows, wompi, StuckPollFails
  <2>29. ASSUME NEW p \in Procs, StuckBegin(p)
        PROVE  MoneyStep
    BY <2>29 DEF MoneyStep, Quiet, rows, wompi, StuckBegin
  <2>30. ASSUME NEW p \in Procs, SettleInvalidState(p)
        PROVE  MoneyStep
    BY <2>30 DEF MoneyStep, Quiet, rows, wompi, SettleInvalidState
  <2>31. ASSUME NEW p \in Procs, SettleLostRace(p)
        PROVE  MoneyStep
    BY <2>31 DEF MoneyStep, Quiet, rows, wompi, SettleLostRace
  <2>32. ASSUME NEW p \in Procs, SettleThrows(p)
        PROVE  MoneyStep
    BY <2>32 DEF MoneyStep, Quiet, rows, wompi, SettleThrows
  <2>33. ASSUME NEW p \in Procs, SettleApproved(p)
        PROVE  MoneyStep
    BY <2>33 DEF MoneyStep, Settles, Answers, Final, WompiStill, wompi, TypeOK, HandlersOK,
        LocalsOK, SettleApproved
  <2>34. ASSUME NEW p \in Procs, SettleOutOfStock(p)
        PROVE  MoneyStep
    <3>1. pc'[p] = "void" /\ ctx'[p].pid = ctx[p].pid
      BY <2>34 DEF TypeOK, HandlersOK, Context, SettleOutOfStock, AfterUpdate, Goto, Locals
    <3> QED
      BY <2>34, <3>1 DEF MoneyStep, Settles, Answers, Final, WompiStill, wompi, TypeOK,
          HandlersOK, LocalsOK, SettleOutOfStock
  <2>35. ASSUME NEW p \in Procs, SettleNotApproved(p)
        PROVE  MoneyStep
    <3> DEFINE o == ctx[p].order
    <3>1. o \in Orders /\ ctx[p].pid \in Pids
          /\ ctx[p].reported \in {"PENDING", "DECLINED", "ERROR"}
      BY <2>35 DEF TypeOK, HandlersOK, LocalsOK, Context, ProviderStatus, SettleNotApproved
    <3>2. CASE ctx[p].reported = "PENDING"
      <4>1. status' = status
        BY <2>35, <3>1, <3>2 DEF TypeOK, RowsOK, SettleNotApproved
      <4> QED
        BY <2>35, <3>1, <4>1 DEF MoneyStep, Binds, WompiStill, wompi, SettleNotApproved
    <3>3. CASE ctx[p].reported # "PENDING"
      BY <2>35, <3>1, <3>3 DEF MoneyStep, Settles, Answers, Final, WompiStill, wompi,
          SettleNotApproved
    <3> QED BY <3>2, <3>3
  <2>36. ASSUME NEW p \in Procs, VoidPayment(p)
        PROVE  MoneyStep
    BY <2>36 DEF MoneyStep, Voids, rows, VoidPayment
  <2>37. ASSUME NEW p \in Procs, Complete(p)
        PROVE  MoneyStep
    BY <2>37 DEF MoneyStep, Quiet, rows, wompi, Complete
  <2>38. ASSUME NEW p \in Procs, Abort(p)
        PROVE  MoneyStep
    BY <2>38 DEF MoneyStep, Quiet, rows, wompi, Abort
  <2>39. ASSUME NEW p \in Procs, Crash(p)
        PROVE  MoneyStep
    BY <2>39 DEF MoneyStep, Quiet, rows, wompi, Crash
  <2>40. ASSUME NEW o \in Orders, LeaseLapses(o)
        PROVE  MoneyStep
    BY <2>40 DEF MoneyStep, Quiet, rows, wompi, LeaseLapses
  <2>41. ASSUME NEW o \in Orders, GetWidgetSession(o)
        PROVE  MoneyStep
    BY <2>41 DEF MoneyStep, Quiet, rows, wompi, GetWidgetSession
  <2>42. ASSUME NEW o \in Orders, NEW pid \in Pids, WidgetCharge(o, pid)
        PROVE  MoneyStep
    BY <2>42 DEF MoneyStep, Charges, rows, ProviderStatus, WidgetCharge
  <2>43. ASSUME NEW pid \in Pids, NEW st \in Outcomes, ResolveCharge(pid, st)
        PROVE  MoneyStep
    BY <2>43, OutcomeAssumption DEF MoneyStep, Resolves, rows, ProviderStatus, ResolveCharge
  <2> QED BY <1>1, <2>1, <2>2, <2>3, <2>4, <2>5, <2>6, <2>7, <2>8, <2>9, <2>10, <2>11, <2>12,
      <2>13, <2>14, <2>15, <2>16, <2>17, <2>18, <2>19, <2>20, <2>21, <2>22, <2>23, <2>24, <2>25,
      <2>26, <2>27, <2>28, <2>29, <2>30, <2>31, <2>32, <2>33, <2>34, <2>35, <2>36, <2>37, <2>38,
      <2>39, <2>40, <2>41, <2>42, <2>43 DEF Next, Start, Step, World, Pay, Sync, Webhook, Stuck,
      Settle
<1>2. CASE UNCHANGED vars
  BY <1>2 DEF MoneyStep, Quiet, vars, rows, wompi
<1> QED BY <1>1, <1>2

-----------------------------------------------------------------------------
(* Nothing a handler has learnt is ever taken back. *)

Grows ==
  /\ \A pid \in Pids : charge[pid].ref \in Orders =>
       /\ charge'[pid].ref = charge[pid].ref
       /\ \A st \in ProviderStatus : Told(pid, st) => Told(pid, st)'
  /\ voidTried \subseteq voidTried'
  /\ \A o \in Orders : status[o] \in Final =>
       status'[o] = status[o] /\ provider'[o] = provider[o]

\* A payment's order is fixed, a report stays true up to a void, a void is not
\* undone, and a final row keeps its status and payment.
LEMMA EveryStepGrows ==
  ASSUME TypeOK, MoneyStep
  PROVE  Grows
<1>1. CASE Quiet
  BY <1>1 DEF Quiet, Grows, Told
<1>2. ASSUME NEW o \in Orders, Places(o) \/ Claims(o) \/ Expires(o) PROVE Grows
  BY <1>2 DEF Places, Claims, Expires, WompiStill, Grows, Told, Final, TypeOK, RowsOK
<1>3. ASSUME NEW p \in Procs, Binds(p) \/ Settles(p) PROVE Grows
  BY <1>3 DEF Binds, Settles, WompiStill, Grows, Told, Final, TypeOK, RowsOK
<1>4. ASSUME NEW p \in Procs, Voids(p) PROVE Grows
  BY <1>4 DEF Voids, Grows, Told, TypeOK, WompiOK
<1>5. ASSUME NEW pid \in Pids, NEW o \in Orders, Charges(pid, o) PROVE Grows
  BY <1>5, SentinelAssumption DEF Charges, NewCharge, Grows, Told, TypeOK, WompiOK
<1>6. ASSUME NEW pid \in Pids, Resolves(pid) PROVE Grows
  BY <1>6 DEF Resolves, Grows, Told, TypeOK, WompiOK
<1> QED BY <1>1, <1>2, <1>3, <1>4, <1>5, <1>6 DEF MoneyStep

\* What a settler found out decides the order only if its payment is not voided:
\* a void is for an order that is over.
LEMMA UnsettledNotVoided ==
  ASSUME TypeOK, MoneyOK, NEW p \in Procs, pc[p] \in ReportLabels,
         status[ctx[p].order] = "PENDING"
  PROVE  ctx[p].pid \notin voidTried
<1>1. charge[ctx[p].pid].ref = ctx[p].order
  BY DEF MoneyOK, HandlerSound, PaymentLabels
<1>2. ASSUME ctx[p].pid \in voidTried PROVE FALSE
  BY <1>1, <1>2 DEF MoneyOK, VoidSound, Refunded
<1> QED BY <1>2

\* The rows stay true to the payments they hold.
LEMMA RowsStaySound ==
  ASSUME TypeOK, MoneyOK, MoneyStep
  PROVE  \A o \in Orders : RowSound(o)'
<1>1. CASE Quiet
  BY <1>1 DEF Quiet, MoneyOK, RowSound
<1>2. ASSUME NEW x \in Orders, Places(x) PROVE \A o \in Orders : RowSound(o)'
  BY <1>2, SentinelAssumption DEF Places, WompiStill, MoneyOK, RowSound, TypeOK, RowsOK
<1>3. ASSUME NEW x \in Orders, Claims(x) PROVE \A o \in Orders : RowSound(o)'
  BY <1>3, SentinelAssumption DEF Claims, WompiStill, MoneyOK, RowSound, TypeOK, RowsOK
<1>4. ASSUME NEW x \in Orders, Expires(x) PROVE \A o \in Orders : RowSound(o)'
  BY <1>4, SentinelAssumption DEF Expires, WompiStill, MoneyOK, RowSound, TypeOK, RowsOK
<1>5. ASSUME NEW p \in Procs, Binds(p) \/ Settles(p) PROVE \A o \in Orders : RowSound(o)'
  <2>1. ctx[p].order \in Orders /\ ctx[p].pid \in Pids /\ status[ctx[p].order] = "PENDING"
        /\ pc[p] \in ReportLabels
    BY <1>5 DEF Binds, Settles, TypeOK, HandlersOK, LocalsOK, ReportLabels
  <2>2. charge[ctx[p].pid].ref = ctx[p].order /\ Told(ctx[p].pid, ctx[p].reported)
    BY <2>1 DEF MoneyOK, HandlerSound, PaymentLabels
  <2>3. ctx[p].pid \notin voidTried
    BY <2>1, UnsettledNotVoided
  <2>4. CASE Binds(p)
    BY <2>1, <2>2, <2>4 DEF Binds, WompiStill, MoneyOK, RowSound, TypeOK, RowsOK
  <2>5. CASE Settles(p)
    BY <2>1, <2>2, <2>3, <2>5 DEF Settles, Answers, Told, WompiStill, MoneyOK, RowSound, TypeOK,
       RowsOK
  <2> QED BY <1>5, <2>4, <2>5
<1>6. ASSUME NEW p \in Procs, Voids(p) PROVE \A o \in Orders : RowSound(o)'
  <2>1. ctx[p].order \in Orders /\ ctx[p].pid \in Pids
    BY <1>6 DEF Voids, TypeOK, HandlersOK, LocalsOK
  <2>2. charge[ctx[p].pid].ref = ctx[p].order /\ Refunded(ctx[p].order, ctx[p].pid)
    BY <1>6 DEF Voids, MoneyOK, HandlerSound, PaymentLabels
  <2> QED BY <1>6, <2>1, <2>2 DEF Voids, Refunded, MoneyOK, RowSound, TypeOK, WompiOK
<1>7. ASSUME NEW pid \in Pids, NEW x \in Orders, Charges(pid, x)
      PROVE  \A o \in Orders : RowSound(o)'
  BY <1>7, SentinelAssumption DEF Charges, NewCharge, MoneyOK, RowSound, TypeOK, WompiOK
<1>8. ASSUME NEW pid \in Pids, Resolves(pid) PROVE \A o \in Orders : RowSound(o)'
  BY <1>8 DEF Resolves, MoneyOK, RowSound, TypeOK, WompiOK
<1> QED BY <1>1, <1>2, <1>3, <1>4, <1>5, <1>6, <1>7, <1>8 DEF MoneyStep

\* What is on its way to the consumer stays true, late and twice as it may come.
LEMMA EventsStaySound ==
  ASSUME TypeOK, MoneyOK, MoneyStep
  PROVE  \A e \in events' : EventSound(e[1], e[2])'
<1>1. ASSUME NEW e \in events PROVE EventSound(e[1], e[2])'
  <2>1. e[1] \in Pids /\ e[2] \in ProviderStatus /\ EventSound(e[1], e[2])
    BY DEF MoneyOK, TypeOK, WompiOK
  <2> QED BY <2>1, EveryStepGrows DEF Grows, EventSound
<1>2. CASE events' = events
  BY <1>1, <1>2
<1>3. ASSUME NEW p \in Procs, NEW pid \in Pids, Voids(p), pid = ctx[p].pid, events' # events
      PROVE  EventSound(pid, "ERROR")' /\ events' = events \cup {<<pid, "ERROR">>}
  <2>1. charge[pid].ref \in Orders
    BY <1>3 DEF Voids, MoneyOK, HandlerSound, PaymentLabels, TypeOK, HandlersOK, LocalsOK
  <2>2. charge' = [charge EXCEPT ![pid].status = "ERROR"]
        /\ events' = events \cup {<<pid, "ERROR">>}
    BY <1>3 DEF Voids
  <2> QED BY <2>1, <2>2 DEF EventSound, Told, TypeOK, WompiOK
<1>4. ASSUME NEW pid \in Pids, NEW o \in Orders, NEW st \in ProviderStatus,
             NewCharge(pid, o, st)
      PROVE  EventSound(pid, st)'
  BY <1>4 DEF NewCharge, EventSound, Told, TypeOK, WompiOK
<1>5. ASSUME NEW pid \in Pids, NEW st \in ProviderStatus, charge[pid].ref # None,
             charge' = [charge EXCEPT ![pid].status = st]
      PROVE  EventSound(pid, st)'
  BY <1>5 DEF EventSound, Told, TypeOK, WompiOK
<1>6. ASSUME events' # events
      PROVE  \E pid \in Pids, st \in ProviderStatus :
               EventSound(pid, st)' /\ events' = events \cup {<<pid, st>>}
  <2>1. CASE \E p \in Procs : Voids(p)
    <3>1. PICK p \in Procs : Voids(p)
      BY <2>1
    <3>2. ctx[p].pid \in Pids /\ "ERROR" \in ProviderStatus
      BY <3>1 DEF Voids, TypeOK, HandlersOK, LocalsOK, ProviderStatus
    <3> QED BY <1>3, <1>6, <3>1, <3>2
  <2>2. CASE \E pid \in Pids, o \in Orders : Charges(pid, o)
    BY <1>4, <2>2 DEF Charges, NewCharge
  <2>3. CASE \E pid \in Pids : Resolves(pid)
    BY <1>5, <2>3 DEF Resolves
  <2> QED
    BY <1>6, <2>1, <2>2, <2>3 DEF MoneyStep, Quiet, Places, Claims, Expires, Binds, Settles,
       WompiStill
<1> QED BY <1>1, <1>2, <1>6

\* A voided payment belongs to an order that ended in ERROR, for ever.
LEMMA VoidsStaySound ==
  ASSUME TypeOK, MoneyOK, MoneyStep
  PROVE  \A pid \in voidTried' : VoidSound(pid)'
<1>1. ASSUME NEW pid \in Pids, NEW o \in Orders, charge[pid].ref = o, Refunded(o, pid)
      PROVE  VoidSound(pid)'
  BY <1>1, EveryStepGrows DEF Grows, VoidSound, Refunded, Final
<1>2. ASSUME NEW pid \in voidTried PROVE VoidSound(pid)'
  BY <1>1 DEF MoneyOK, VoidSound, TypeOK, WompiOK
<1>3. ASSUME NEW p \in Procs, NEW pid \in Pids, Voids(p), pid = ctx[p].pid
      PROVE  VoidSound(pid)'
  <2>1. ctx[p].order \in Orders /\ charge[pid].ref = ctx[p].order
        /\ Refunded(ctx[p].order, pid)
    BY <1>3 DEF Voids, MoneyOK, HandlerSound, PaymentLabels, TypeOK, HandlersOK, LocalsOK
  <2> QED BY <1>1, <2>1
<1>4. ASSUME NEW p \in Procs, Voids(p)
      PROVE  ctx[p].pid \in Pids /\ voidTried' = voidTried \cup {ctx[p].pid}
  BY <1>4 DEF Voids, TypeOK, HandlersOK, LocalsOK
<1>5. (\E p \in Procs : Voids(p)) \/ voidTried' = voidTried
  BY DEF MoneyStep, Quiet, Places, Claims, Expires, Binds, Settles, WompiStill, Charges, Resolves
<1> QED BY <1>2, <1>3, <1>4, <1>5

\* A handler that does not move keeps knowing what it knew.
LEMMA StillHandlersStaySound ==
  ASSUME TypeOK, MoneyOK, Grows, NEW p \in Procs, pc'[p] = pc[p], ctx'[p] = ctx[p]
  PROVE  HandlerSound(p)'
<1>1. pc[p] \in PaymentLabels \cup SyncLabels => ctx[p].pid \in Pids
  BY DEF PaymentLabels, SyncLabels, ReportLabels, WebhookLabels, TypeOK, HandlersOK, LocalsOK
<1>2. pc[p] \in PaymentLabels => ctx[p].order \in Orders
  BY DEF PaymentLabels, ReportLabels, WebhookLabels, TypeOK, HandlersOK, LocalsOK
<1>3. ctx[p].reported \in ProviderStatus
  BY DEF TypeOK, HandlersOK, Context
<1>4. pc[p] \in ReportLabels => Told(ctx[p].pid, ctx[p].reported)'
  BY <1>1, <1>2, <1>3 DEF MoneyOK, HandlerSound, Grows, PaymentLabels
<1>5. pc[p] \in {"void", "complete", "complete_oos"} =>
        pc[p] \in PaymentLabels /\ ctx[p].saved = status'[ctx[p].order]
        /\ status'[ctx[p].order] \in Final
  BY <1>2 DEF MoneyOK, HandlerSound, Grows, PaymentLabels
<1>6. pc[p] \in {"void", "complete_oos"} => Refunded(ctx[p].order, ctx[p].pid)'
  BY <1>2 DEF MoneyOK, HandlerSound, Grows, PaymentLabels, Refunded, Final
<1>7. pc[p] \in PaymentLabels \cup SyncLabels => charge'[ctx[p].pid].ref = charge[ctx[p].pid].ref
  BY <1>1, <1>2 DEF MoneyOK, HandlerSound, Grows
<1> QED
  BY <1>4, <1>5, <1>6, <1>7 DEF MoneyOK, HandlerSound, Grows

\* A handler that has ended, or that only has a key left to abort, knows nothing.
LEMMA AtRestSound ==
  ASSUME NEW p \in Procs, pc'[p] \in {"idle", "abort", "create_save"}
  PROVE  HandlerSound(p)'
  BY DEF HandlerSound, PayLabels, SyncLabels, PaymentLabels, ReportLabels, WebhookLabels

\* A handler that has no payment yet needs a shopper's key.
LEMMA UnpaidSound ==
  ASSUME NEW p \in Procs, pc'[p] \in {"pay_read", "pay_claim", "pay_charge", "pay_release"},
         ctx'[p].key \in ClientKeys
  PROVE  HandlerSound(p)'
  BY DEF HandlerSound, PayLabels, SyncLabels, PaymentLabels, ReportLabels, WebhookLabels

\* The sync request needs a payment of somebody.
LEMMA SyncSound ==
  ASSUME NEW p \in Procs, pc'[p] \in SyncLabels, ctx'[p].key \in ClientKeys,
         charge'[ctx'[p].pid].ref \in Orders
  PROVE  HandlerSound(p)'
  BY DEF HandlerSound, PayLabels, SyncLabels, PaymentLabels, ReportLabels, WebhookLabels

\* A poll needs the payment of the handler's own order.
LEMMA PollSound ==
  ASSUME NEW p \in Procs, pc'[p] \in {"pay_poll", "stuck_poll"},
         pc'[p] = "pay_poll" => ctx'[p].key \in ClientKeys,
         charge'[ctx'[p].pid].ref = ctx'[p].order
  PROVE  HandlerSound(p)'
  BY DEF HandlerSound, PayLabels, SyncLabels, PaymentLabels, ReportLabels, WebhookLabels

\* A handler with a report needs it to be true of its own order's payment.
LEMMA ReportSound ==
  ASSUME NEW p \in Procs, pc'[p] \in ReportLabels,
         ctx'[p].key \in ClientKeys \/ (pc'[p] # "pay_attach" /\ ctx'[p].key[2] = ctx'[p].pid),
         charge'[ctx'[p].pid].ref = ctx'[p].order,
         \/ ctx'[p].reported \in {"PENDING", charge'[ctx'[p].pid].status}
         \/ ctx'[p].reported = "APPROVED" /\ ctx'[p].pid \in voidTried'
  PROVE  HandlerSound(p)'
  BY DEF HandlerSound, Told, PayLabels, SyncLabels, PaymentLabels, ReportLabels, WebhookLabels

\* A handler about to seal needs its answer in the row, a void the failed order.
LEMMA AnswerSound ==
  ASSUME NEW p \in Procs, pc'[p] \in {"void", "complete", "complete_oos"},
         ctx'[p].key \in ClientKeys \/ ctx'[p].key[2] = ctx'[p].pid,
         charge'[ctx'[p].pid].ref = ctx'[p].order,
         ctx'[p].saved = status'[ctx'[p].order], status'[ctx'[p].order] \in Final,
         pc'[p] # "complete" => /\ status'[ctx'[p].order] = "ERROR"
                                /\ provider'[ctx'[p].order] = ctx'[p].pid,
         pc'[p] = "complete_oos" => ctx'[p].pid \in voidTried'
  PROVE  HandlerSound(p)'
  BY DEF HandlerSound, Refunded, PayLabels, SyncLabels, PaymentLabels, ReportLabels,
         WebhookLabels

\* A handler that goes on with the report it has keeps knowing what it knew.
LEMMA GoesOnSound ==
  ASSUME TypeOK, MoneyOK, Grows, NEW p \in Procs, pc[p] \in ReportLabels,
         pc'[p] \in ReportLabels \ {"pay_attach"}, ctx'[p] = ctx[p]
  PROVE  HandlerSound(p)'
<1>1. ctx[p].pid \in Pids /\ ctx[p].order \in Orders /\ ctx[p].reported \in ProviderStatus
  BY DEF ReportLabels, WebhookLabels, TypeOK, HandlersOK, LocalsOK, Context
<1>2. pc[p] \in PaymentLabels /\ pc[p] # "stuck_poll"
  BY DEF PaymentLabels, ReportLabels, WebhookLabels
<1>3. charge[ctx[p].pid].ref = ctx[p].order /\ Told(ctx[p].pid, ctx[p].reported)
      /\ (ctx[p].key \in ClientKeys \/ ctx[p].key[2] = ctx[p].pid)
  BY <1>2 DEF MoneyOK, HandlerSound
<1>4. charge'[ctx[p].pid].ref = ctx[p].order
      /\ \/ ctx[p].reported \in {"PENDING", charge'[ctx[p].pid].status}
         \/ ctx[p].reported = "APPROVED" /\ ctx[p].pid \in voidTried'
  BY <1>1, <1>3 DEF Grows, Told
<1> QED BY <1>3, <1>4, ReportSound

\* When one handler moves, it is the only one with something new to justify.
LEMMA OneHandlerMovesSoundly ==
  ASSUME TypeOK, MoneyOK, Grows, NEW p \in Procs, OtherHandlersStay(p), HandlerSound(p)'
  PROVE  \A q \in Procs : HandlerSound(q)'
  BY StillHandlersStaySound DEF OtherHandlersStay

\* What a handler in the middle of a settlement knows, in one place.
LEMMA SettlerKnows ==
  ASSUME TypeOK, MoneyOK, NEW p \in Procs, pc[p] \in {"pay_attach", "settle", "void"}
  PROVE  /\ ctx[p].order \in Orders /\ ctx[p].pid \in Pids
         /\ charge[ctx[p].pid].ref = ctx[p].order
         /\ ctx[p].key \in ClientKeys \/ (pc[p] # "pay_attach" /\ ctx[p].key[2] = ctx[p].pid)
         /\ pc[p] # "void" => Told(ctx[p].pid, ctx[p].reported)
         /\ pc[p] = "void" => /\ Refunded(ctx[p].order, ctx[p].pid)
                              /\ ctx[p].saved = status[ctx[p].order]
<1>1. pc[p] \in PaymentLabels /\ pc[p] # "stuck_poll"
      /\ (pc[p] # "void" => pc[p] \in ReportLabels)
      /\ (pc[p] = "pay_attach" => pc[p] \in PayLabels)
  BY DEF PaymentLabels, ReportLabels, PayLabels
<1>2. ctx[p].order \in Orders /\ ctx[p].pid \in Pids
  BY DEF TypeOK, HandlersOK, LocalsOK
<1> QED BY <1>1, <1>2 DEF MoneyOK, HandlerSound

\* Every await leaves its handler with a payment of its own order, a report that is
\* true of it, and an answer to seal that the row bears out.
LEMMA HandlersStaySound ==
  ASSUME TypeOK, MoneyOK, Grows, [Next]_vars
  PROVE  \A q \in Procs : HandlerSound(q)'
<1>1. CASE Next
  <2>1. ASSUME NEW p \in Procs, NEW o \in Orders, CreateCheckStock(p, o)
        PROVE  \A q \in Procs : HandlerSound(q)'
    <3>1. OtherHandlersStay(p)
      BY <2>1 DEF OtherHandlersStay, TypeOK, HandlersOK, CreateCheckStock, Goto, Locals
    <3>2. HandlerSound(p)'
      BY <2>1, AtRestSound DEF TypeOK, HandlersOK, CreateCheckStock, Goto, Locals
    <3> QED BY <3>1, <3>2, OneHandlerMovesSoundly
  <2>2. ASSUME NEW p \in Procs, NEW o \in Orders, NEW k \in ClientKeys, PayBegin(p, o, k)
        PROVE  \A q \in Procs : HandlerSound(q)'
    <3>1. OtherHandlersStay(p)
      BY <2>2 DEF OtherHandlersStay, TypeOK, HandlersOK, PayBegin, Goto, Locals
    <3>2. HandlerSound(p)'
      <4>1. pc'[p] = "pay_read" /\ ctx'[p].key \in ClientKeys
        BY <2>2 DEF TypeOK, HandlersOK, Context, PayBegin, Goto, Locals
      <4> QED BY <4>1, UnpaidSound
    <3> QED BY <3>1, <3>2, OneHandlerMovesSoundly
  <2>3. ASSUME NEW p \in Procs, NEW o \in Orders, NEW k \in ClientKeys, NEW pid \in Pids,
               SyncBegin(p, o, k, pid)
        PROVE  \A q \in Procs : HandlerSound(q)'
    <3>1. OtherHandlersStay(p)
      BY <2>3 DEF OtherHandlersStay, TypeOK, HandlersOK, SyncBegin, Goto, Locals
    <3>2. HandlerSound(p)'
      <4>1. pc'[p] = "sync_read" /\ ctx'[p].key \in ClientKeys /\ ctx'[p].pid = pid
        BY <2>3 DEF TypeOK, HandlersOK, Context, SyncBegin, Goto, Locals
      <4>2. charge'[pid].ref \in Orders
        BY <2>3 DEF TypeOK, WompiOK, SyncBegin, wompi
      <4> QED BY <4>1, <4>2, SyncSound DEF SyncLabels
    <3> QED BY <3>1, <3>2, OneHandlerMovesSoundly
  <2>4. ASSUME NEW p \in Procs, NEW o \in Orders, NEW pid \in Pids, NEW st \in ProviderStatus,
               WebhookLookup(p, o, pid, st)
        PROVE  \A q \in Procs : HandlerSound(q)'
    <3>1. OtherHandlersStay(p)
      BY <2>4 DEF OtherHandlersStay, TypeOK, HandlersOK, WebhookLookup, Goto, Locals, Seeing
    <3>2. HandlerSound(p)'
      <4>1. pc'[p] = "wh_find" /\ ctx'[p].order = o /\ ctx'[p].pid = pid
            /\ ctx'[p].reported = st /\ ctx'[p].key = <<"webhook", pid, st>>
        BY <2>4 DEF TypeOK, HandlersOK, Context, NoContext, WebhookLookup, Goto, Locals, Seeing
      <4>2. charge[pid].ref = o /\ Told(pid, st)
        BY <2>4 DEF MoneyOK, RowSound, EventSound, WebhookLookup
      <4>3. charge' = charge /\ voidTried' = voidTried
        BY <2>4 DEF WebhookLookup, wompi
      <4> QED BY <4>1, <4>2, <4>3, ReportSound DEF Told, ReportLabels, WebhookLabels
    <3> QED BY <3>1, <3>2, OneHandlerMovesSoundly
  <2>5. ASSUME NEW p \in Procs, NEW o \in Orders, StuckList(p, o)
        PROVE  \A q \in Procs : HandlerSound(q)'
    <3>1. OtherHandlersStay(p)
      BY <2>5 DEF OtherHandlersStay, TypeOK, HandlersOK, StuckList, Goto, Locals, Seeing
    <3>2. HandlerSound(p)'
      <4>1. pc'[p] = "stuck_poll" /\ ctx'[p].order = o /\ ctx'[p].pid = provider[o]
        BY <2>5 DEF TypeOK, HandlersOK, Context, NoContext, StuckList, Goto, Locals, Seeing
      <4>2. charge'[provider[o]].ref = o
        BY <2>5 DEF MoneyOK, RowSound, StuckList, HasProviderCharge, wompi
      <4> QED BY <4>1, <4>2, PollSound
    <3> QED BY <3>1, <3>2, OneHandlerMovesSoundly
  <2>6. ASSUME NEW p \in Procs, NEW o \in Orders, ExpireUncharged(p, o)
        PROVE  \A q \in Procs : HandlerSound(q)'
    BY <2>6, StillHandlersStaySound DEF ExpireUncharged, handlers
  <2>7. ASSUME NEW p \in Procs, CreateSave(p)
        PROVE  \A q \in Procs : HandlerSound(q)'
    <3>1. OtherHandlersStay(p)
      BY <2>7 DEF OtherHandlersStay, TypeOK, HandlersOK, CreateSave, Goto, Locals, Return
    <3>2. HandlerSound(p)'
      BY <2>7, AtRestSound DEF TypeOK, HandlersOK, CreateSave, Goto, Locals, Return
    <3> QED BY <3>1, <3>2, OneHandlerMovesSoundly
  <2>8. ASSUME NEW p \in Procs, PayRead(p)
        PROVE  \A q \in Procs : HandlerSound(q)'
    <3>1. OtherHandlersStay(p)
      BY <2>8 DEF OtherHandlersStay, TypeOK, HandlersOK, PayRead, Goto, Locals, GotoAbort, Seeing
    <3>2. HandlerSound(p)'
      <4>1. ctx[p].order \in Orders /\ ctx[p].key \in ClientKeys
        BY <2>8 DEF MoneyOK, HandlerSound, PayLabels, TypeOK, HandlersOK, LocalsOK, PayRead
      <4>2. CASE pc'[p] = "pay_poll"
        <5>1. HasProviderCharge(provider[ctx[p].order]) /\ charge' = charge
              /\ ctx'[p].order = ctx[p].order /\ ctx'[p].key = ctx[p].key
              /\ ctx'[p].pid = provider[ctx[p].order]
          BY <2>8, <4>2 DEF TypeOK, HandlersOK, Context, PayRead, Goto, GotoAbort, Locals,
              Seeing, wompi
        <5> QED BY <4>1, <4>2, <5>1, PollSound DEF MoneyOK, RowSound, HasProviderCharge
      <4>3. CASE pc'[p] = "pay_claim"
        <5>1. ctx'[p].key = ctx[p].key
          BY <2>8, <4>3 DEF TypeOK, HandlersOK, Context, PayRead, Goto, GotoAbort, Locals, Seeing
        <5> QED BY <4>1, <4>3, <5>1, UnpaidSound
      <4>4. pc'[p] \in {"pay_poll", "pay_claim", "abort"}
        BY <2>8 DEF TypeOK, HandlersOK, PayRead, Goto, GotoAbort
      <4> QED BY <4>2, <4>3, <4>4, AtRestSound
    <3> QED BY <3>1, <3>2, OneHandlerMovesSoundly
  <2>9. ASSUME NEW p \in Procs, ClaimForPayment(p)
        PROVE  \A q \in Procs : HandlerSound(q)'
    <3>1. OtherHandlersStay(p)
      BY <2>9 DEF OtherHandlersStay, TypeOK, HandlersOK, ClaimForPayment, Goto, Locals, GotoAbort
    <3>2. HandlerSound(p)'
      <4>1. ctx[p].key \in ClientKeys
        BY <2>9 DEF MoneyOK, HandlerSound, PayLabels, ClaimForPayment
      <4>2. (pc'[p] = "pay_charge" /\ ctx'[p] = ctx[p]) \/ pc'[p] = "abort"
        BY <2>9 DEF TypeOK, HandlersOK, ClaimForPayment, Goto, GotoAbort
      <4> QED BY <4>1, <4>2, UnpaidSound, AtRestSound
    <3> QED BY <3>1, <3>2, OneHandlerMovesSoundly
  <2>10. ASSUME NEW p \in Procs, NEW pid \in Pids, NEW st \in {"PENDING"} \cup Outcomes,
                CardPaymentAnswered(p, pid, st)
        PROVE  \A q \in Procs : HandlerSound(q)'
    <3>1. OtherHandlersStay(p)
      BY <2>10 DEF OtherHandlersStay, TypeOK, HandlersOK, CardPaymentAnswered, Goto, Locals
    <3>2. HandlerSound(p)'
      <4>1. ctx[p].order \in Orders /\ ctx[p].key \in ClientKeys
        BY <2>10 DEF MoneyOK, HandlerSound, PayLabels, TypeOK, HandlersOK, LocalsOK,
            CardPaymentAnswered
      <4>2. pc'[p] = "pay_attach" /\ ctx'[p].order = ctx[p].order /\ ctx'[p].key = ctx[p].key
            /\ ctx'[p].pid = pid /\ ctx'[p].reported = st
        BY <2>10 DEF TypeOK, HandlersOK, Context, CardPaymentAnswered, Goto, Locals
      <4>3. charge'[pid].ref = ctx[p].order /\ charge'[pid].status = st
        BY <2>10 DEF TypeOK, WompiOK, CardPaymentAnswered, NewCharge
      <4> QED BY <4>1, <4>2, <4>3, ReportSound DEF ReportLabels
    <3> QED BY <3>1, <3>2, OneHandlerMovesSoundly
  <2>11. ASSUME NEW p \in Procs, NEW pid \in Pids, CardPaymentAnswerLost(p, pid)
        PROVE  \A q \in Procs : HandlerSound(q)'
    <3>1. OtherHandlersStay(p)
      BY <2>11 DEF OtherHandlersStay, TypeOK, HandlersOK, CardPaymentAnswerLost, Goto
    <3>2. HandlerSound(p)'
      <4>1. pc'[p] = "pay_release" /\ ctx'[p] = ctx[p] /\ ctx[p].key \in ClientKeys
        BY <2>11 DEF MoneyOK, HandlerSound, PayLabels, TypeOK, HandlersOK,
            CardPaymentAnswerLost, Goto
      <4> QED BY <4>1, UnpaidSound
    <3> QED BY <3>1, <3>2, OneHandlerMovesSoundly
  <2>12. ASSUME NEW p \in Procs, CardPaymentFails(p)
        PROVE  \A q \in Procs : HandlerSound(q)'
    <3>1. OtherHandlersStay(p)
      BY <2>12 DEF OtherHandlersStay, TypeOK, HandlersOK, CardPaymentFails, Goto
    <3>2. HandlerSound(p)'
      <4>1. pc'[p] = "pay_release" /\ ctx'[p] = ctx[p] /\ ctx[p].key \in ClientKeys
        BY <2>12 DEF MoneyOK, HandlerSound, PayLabels, TypeOK, HandlersOK, CardPaymentFails, Goto
      <4> QED BY <4>1, UnpaidSound
    <3> QED BY <3>1, <3>2, OneHandlerMovesSoundly
  <2>13. ASSUME NEW p \in Procs, AttachProviderTransactionId(p)
        PROVE  \A q \in Procs : HandlerSound(q)'
    <3>1. OtherHandlersStay(p)
      BY <2>13 DEF OtherHandlersStay, TypeOK, HandlersOK, AttachProviderTransactionId, Goto
    <3>2. HandlerSound(p)'
      <4>1. ctx'[p] = ctx[p] /\ charge' = charge /\ pc'[p] \in {"pay_poll", "settle"}
            /\ pc[p] = "pay_attach"
        BY <2>13 DEF TypeOK, HandlersOK, AttachProviderTransactionId, Goto, wompi
      <4>2. CASE pc'[p] = "settle"
        BY <4>1, <4>2, GoesOnSound DEF ReportLabels
      <4>3. CASE pc'[p] = "pay_poll"
        BY <4>1, <4>3, SettlerKnows, PollSound
      <4> QED BY <4>1, <4>2, <4>3
    <3> QED BY <3>1, <3>2, OneHandlerMovesSoundly
  <2>14. ASSUME NEW p \in Procs, AttachFails(p)
        PROVE  \A q \in Procs : HandlerSound(q)'
    <3>1. OtherHandlersStay(p)
      BY <2>14 DEF OtherHandlersStay, TypeOK, HandlersOK, AttachFails, Goto
    <3>2. HandlerSound(p)'
      <4>1. pc'[p] = "pay_release" /\ ctx'[p] = ctx[p] /\ ctx[p].key \in ClientKeys
        BY <2>14 DEF MoneyOK, HandlerSound, PayLabels, TypeOK, HandlersOK, AttachFails, Goto
      <4> QED BY <4>1, UnpaidSound
    <3> QED BY <3>1, <3>2, OneHandlerMovesSoundly
  <2>15. ASSUME NEW p \in Procs, ReleaseClaim(p)
        PROVE  \A q \in Procs : HandlerSound(q)'
    <3>1. OtherHandlersStay(p)
      BY <2>15 DEF OtherHandlersStay, TypeOK, HandlersOK, ReleaseClaim, Goto, Locals, GotoAbort
    <3>2. HandlerSound(p)'
      BY <2>15, AtRestSound DEF TypeOK, HandlersOK, ReleaseClaim, Goto, Locals, GotoAbort
    <3> QED BY <3>1, <3>2, OneHandlerMovesSoundly
  <2>16. ASSUME NEW p \in Procs, PayPoll(p)
        PROVE  \A q \in Procs : HandlerSound(q)'
    <3>1. OtherHandlersStay(p)
      BY <2>16 DEF OtherHandlersStay, TypeOK, HandlersOK, PayPoll, Goto, Locals
    <3>2. HandlerSound(p)'
      <4>1. ctx[p].key \in ClientKeys /\ charge[ctx[p].pid].ref = ctx[p].order
        BY <2>16 DEF MoneyOK, HandlerSound, PayLabels, PaymentLabels, PayPoll
      <4>2. pc'[p] = "settle" /\ ctx'[p].order = ctx[p].order /\ ctx'[p].key = ctx[p].key
            /\ ctx'[p].pid = ctx[p].pid /\ ctx'[p].reported = charge[ctx[p].pid].status
            /\ charge' = charge
        BY <2>16 DEF TypeOK, HandlersOK, Context, PayPoll, Goto, Locals, wompi
      <4> QED BY <4>1, <4>2, ReportSound DEF ReportLabels
    <3> QED BY <3>1, <3>2, OneHandlerMovesSoundly
  <2>17. ASSUME NEW p \in Procs, PollFails(p)
        PROVE  \A q \in Procs : HandlerSound(q)'
    <3>1. OtherHandlersStay(p)
      BY <2>17 DEF OtherHandlersStay, TypeOK, HandlersOK, PollFails, Goto, Locals, GotoAbort
    <3>2. HandlerSound(p)'
      BY <2>17, AtRestSound DEF TypeOK, HandlersOK, PollFails, Goto, Locals, GotoAbort
    <3> QED BY <3>1, <3>2, OneHandlerMovesSoundly
  <2>18. ASSUME NEW p \in Procs, SyncRead(p)
        PROVE  \A q \in Procs : HandlerSound(q)'
    <3>1. OtherHandlersStay(p)
      BY <2>18 DEF OtherHandlersStay, TypeOK, HandlersOK, SyncRead, Goto, Locals, GotoAbort,
          Seeing
    <3>2. HandlerSound(p)'
      <4> DEFINE o == ctx[p].order
      <4>1. o \in Orders /\ ctx[p].key \in ClientKeys /\ ctx[p].pid \in Pids
            /\ charge[ctx[p].pid].ref \in Orders
        BY <2>18 DEF MoneyOK, HandlerSound, SyncLabels, TypeOK, HandlersOK, LocalsOK, SyncRead
      <4>2. CASE status[o] \in Final /\ provider[o] = ctx[p].pid /\ Goto(p, "complete")
                 /\ Locals(p, [ctx[p] EXCEPT !.saved = status[o]])
        <5>1. pc'[p] = "complete" /\ ctx'[p].order = o /\ ctx'[p].key = ctx[p].key
              /\ ctx'[p].pid = ctx[p].pid /\ ctx'[p].saved = status[o]
          BY <4>2 DEF TypeOK, HandlersOK, Context, Goto, Locals
        <5>2. charge' = charge /\ status' = status /\ provider' = provider
          BY <2>18 DEF SyncRead, rows, wompi
        <5> QED BY <4>1, <4>2, <5>1, <5>2, AnswerSound DEF MoneyOK, RowSound
      <4>3. CASE Goto(p, "sync_poll") /\ Locals(p, Seeing(ctx[p], o))
        <5>1. pc'[p] = "sync_poll" /\ ctx'[p].key = ctx[p].key /\ ctx'[p].pid = ctx[p].pid
          BY <4>3 DEF TypeOK, HandlersOK, Context, Goto, Locals, Seeing
        <5> QED BY <2>18, <4>1, <5>1, SyncSound DEF SyncLabels, SyncRead, wompi
      <4>4. CASE GotoAbort(p)
        BY <4>4, AtRestSound DEF TypeOK, HandlersOK, GotoAbort, Goto
      <4> QED BY <2>18, <4>2, <4>3, <4>4 DEF SyncRead
    <3> QED BY <3>1, <3>2, OneHandlerMovesSoundly
  <2>19. ASSUME NEW p \in Procs, SyncPoll(p)
        PROVE  \A q \in Procs : HandlerSound(q)'
    <3>1. OtherHandlersStay(p)
      BY <2>19 DEF OtherHandlersStay, TypeOK, HandlersOK, SyncPoll, Goto, Locals, GotoAbort
    <3>2. HandlerSound(p)'
      <4>1. ctx[p].key \in ClientKeys /\ charge' = charge
        BY <2>19 DEF MoneyOK, HandlerSound, SyncLabels, SyncPoll, wompi
      <4>2. CASE charge[ctx[p].pid].ref = ctx[p].order
        <5>1. pc'[p] = "settle" /\ ctx'[p].order = ctx[p].order /\ ctx'[p].key = ctx[p].key
              /\ ctx'[p].pid = ctx[p].pid /\ ctx'[p].reported = charge[ctx[p].pid].status
          BY <2>19, <4>2 DEF TypeOK, HandlersOK, Context, SyncPoll, Goto, Locals
        <5> QED BY <4>1, <4>2, <5>1, ReportSound DEF ReportLabels
      <4>3. CASE charge[ctx[p].pid].ref # ctx[p].order
        BY <2>19, <4>3, AtRestSound DEF TypeOK, HandlersOK, SyncPoll, GotoAbort, Goto
      <4> QED BY <4>2, <4>3
    <3> QED BY <3>1, <3>2, OneHandlerMovesSoundly
  <2>20. ASSUME NEW p \in Procs, WebhookFind(p)
        PROVE  \A q \in Procs : HandlerSound(q)'
    <3>1. OtherHandlersStay(p)
      BY <2>20 DEF OtherHandlersStay, TypeOK, HandlersOK, WebhookFind, Goto, Locals, Return
    <3>2. HandlerSound(p)'
      BY <2>20, AtRestSound, GoesOnSound DEF ReportLabels, WebhookLabels, TypeOK, HandlersOK,
          WebhookFind, Goto, Locals, Return
    <3> QED BY <3>1, <3>2, OneHandlerMovesSoundly
  <2>21. ASSUME NEW p \in Procs, WebhookWait(p, "wh_wait", "wh_reclaim")
        PROVE  \A q \in Procs : HandlerSound(q)'
    <3>1. OtherHandlersStay(p)
      BY <2>21 DEF OtherHandlersStay, TypeOK, HandlersOK, WebhookWait, Goto, Locals, Return
    <3>2. HandlerSound(p)'
      BY <2>21, AtRestSound, GoesOnSound DEF ReportLabels, WebhookLabels, TypeOK, HandlersOK,
          WebhookWait, Goto, Locals, Return
    <3> QED BY <3>1, <3>2, OneHandlerMovesSoundly
  <2>22. ASSUME NEW p \in Procs, WebhookReclaim(p, "wh_reclaim", "wh_begin")
        PROVE  \A q \in Procs : HandlerSound(q)'
    <3>1. OtherHandlersStay(p)
      BY <2>22 DEF OtherHandlersStay, TypeOK, HandlersOK, WebhookReclaim, Goto
    <3>2. HandlerSound(p)'
      BY <2>22, AtRestSound, GoesOnSound DEF ReportLabels, WebhookLabels, TypeOK, HandlersOK,
          WebhookReclaim, Goto
    <3> QED BY <3>1, <3>2, OneHandlerMovesSoundly
  <2>23. ASSUME NEW p \in Procs, WebhookBegin(p)
        PROVE  \A q \in Procs : HandlerSound(q)'
    <3>1. OtherHandlersStay(p)
      BY <2>23 DEF OtherHandlersStay, TypeOK, HandlersOK, WebhookBegin, Goto
    <3>2. HandlerSound(p)'
      BY <2>23, AtRestSound, GoesOnSound DEF ReportLabels, WebhookLabels, TypeOK, HandlersOK,
          WebhookBegin, Goto
    <3> QED BY <3>1, <3>2, OneHandlerMovesSoundly
  <2>24. ASSUME NEW p \in Procs, WebhookWait(p, "wh_wait2", "wh_reclaim2")
        PROVE  \A q \in Procs : HandlerSound(q)'
    <3>1. OtherHandlersStay(p)
      BY <2>24 DEF OtherHandlersStay, TypeOK, HandlersOK, WebhookWait, Goto, Locals, Return
    <3>2. HandlerSound(p)'
      BY <2>24, AtRestSound, GoesOnSound DEF ReportLabels, WebhookLabels, TypeOK, HandlersOK,
          WebhookWait, Goto, Locals, Return
    <3> QED BY <3>1, <3>2, OneHandlerMovesSoundly
  <2>25. ASSUME NEW p \in Procs, WebhookReclaim(p, "wh_reclaim2", "wh_begin2")
        PROVE  \A q \in Procs : HandlerSound(q)'
    <3>1. OtherHandlersStay(p)
      BY <2>25 DEF OtherHandlersStay, TypeOK, HandlersOK, WebhookReclaim, Goto
    <3>2. HandlerSound(p)'
      BY <2>25, AtRestSound, GoesOnSound DEF ReportLabels, WebhookLabels, TypeOK, HandlersOK,
          WebhookReclaim, Goto
    <3> QED BY <3>1, <3>2, OneHandlerMovesSoundly
  <2>26. ASSUME NEW p \in Procs, WebhookBeginAgain(p)
        PROVE  \A q \in Procs : HandlerSound(q)'
    <3>1. OtherHandlersStay(p)
      BY <2>26 DEF OtherHandlersStay, TypeOK, HandlersOK, WebhookBeginAgain, Goto, Locals, Return
    <3>2. HandlerSound(p)'
      BY <2>26, AtRestSound, GoesOnSound DEF ReportLabels, WebhookLabels, TypeOK, HandlersOK,
          WebhookBeginAgain, Goto, Locals, Return
    <3> QED BY <3>1, <3>2, OneHandlerMovesSoundly
  <2>27. ASSUME NEW p \in Procs, StuckPoll(p)
        PROVE  \A q \in Procs : HandlerSound(q)'
    <3>1. OtherHandlersStay(p)
      BY <2>27 DEF OtherHandlersStay, TypeOK, HandlersOK, StuckPoll, Goto, Locals
    <3>2. HandlerSound(p)'
      <4> DEFINE st == charge[ctx[p].pid].status
      <4>1. charge[ctx[p].pid].ref = ctx[p].order
        BY <2>27 DEF MoneyOK, HandlerSound, PaymentLabels, StuckPoll
      <4>2. pc'[p] = "stuck_begin" /\ ctx'[p].order = ctx[p].order /\ ctx'[p].pid = ctx[p].pid
            /\ ctx'[p].reported = st /\ ctx'[p].key = <<"stuck", ctx[p].pid, st>>
            /\ charge' = charge
        BY <2>27 DEF TypeOK, HandlersOK, Context, StuckPoll, Goto, Locals, wompi
      <4> QED BY <4>1, <4>2, ReportSound DEF ReportLabels
    <3> QED BY <3>1, <3>2, OneHandlerMovesSoundly
  <2>28. ASSUME NEW p \in Procs, StuckPollFails(p)
        PROVE  \A q \in Procs : HandlerSound(q)'
    <3>1. OtherHandlersStay(p)
      BY <2>28 DEF OtherHandlersStay, TypeOK, HandlersOK, StuckPollFails, Goto, Locals, Return
    <3>2. HandlerSound(p)'
      BY <2>28, AtRestSound DEF TypeOK, HandlersOK, StuckPollFails, Goto, Locals, Return
    <3> QED BY <3>1, <3>2, OneHandlerMovesSoundly
  <2>29. ASSUME NEW p \in Procs, StuckBegin(p)
        PROVE  \A q \in Procs : HandlerSound(q)'
    <3>1. OtherHandlersStay(p)
      BY <2>29 DEF OtherHandlersStay, TypeOK, HandlersOK, StuckBegin, Goto, Locals, Return
    <3>2. HandlerSound(p)'
      BY <2>29, AtRestSound, GoesOnSound DEF ReportLabels, WebhookLabels, TypeOK, HandlersOK,
          StuckBegin, Goto, Locals, Return
    <3> QED BY <3>1, <3>2, OneHandlerMovesSoundly
  <2>30. ASSUME NEW p \in Procs, SettleInvalidState(p)
        PROVE  \A q \in Procs : HandlerSound(q)'
    <3>1. OtherHandlersStay(p)
      BY <2>30 DEF OtherHandlersStay, TypeOK, HandlersOK, SettleInvalidState, Goto, Locals,
          GotoAbort
    <3>2. HandlerSound(p)'
      BY <2>30, AtRestSound DEF TypeOK, HandlersOK, SettleInvalidState, Goto, Locals, GotoAbort
    <3> QED BY <3>1, <3>2, OneHandlerMovesSoundly
  <2>31. ASSUME NEW p \in Procs, SettleLostRace(p)
        PROVE  \A q \in Procs : HandlerSound(q)'
    <3>1. OtherHandlersStay(p)
      BY <2>31 DEF OtherHandlersStay, TypeOK, HandlersOK, SettleLostRace, Goto, Locals, GotoAbort,
          AfterUpdate
    <3>2. HandlerSound(p)'
      <4> DEFINE o == ctx[p].order
      <4>1. pc[p] = "settle" /\ status[o] # "PENDING" /\ provider[o] = ctx[p].pid
            /\ AfterUpdate(p, status[o], status[o] = "APPROVED")
            /\ charge' = charge /\ status' = status /\ provider' = provider
        BY <2>31 DEF SettleLostRace, rows, wompi
      <4>2. o \in Orders /\ status[o] \in Final
        BY <4>1, SettlerKnows, SentinelAssumption DEF MoneyOK, RowSound, TypeOK, RowsOK,
            OrderStatus, Final
      <4>3. CASE ctx[p].reported = "APPROVED" /\ status[o] # "APPROVED"
        <5>1. pc'[p] = "void" /\ ctx'[p] = [ctx[p] EXCEPT !.saved = status[o]]
          BY <4>1, <4>3 DEF AfterUpdate, Goto, Locals, TypeOK, HandlersOK
        <5>2. status[o] = "ERROR"
          <6>1. status[o] \notin {"ABSENT", "EXPIRED"}
            BY <4>1, <4>2, SettlerKnows, SentinelAssumption DEF MoneyOK, RowSound
          <6>2. ASSUME status[o] = "DECLINED" PROVE FALSE
            <7>1. ctx[p].pid \in voidTried
              BY <4>1, <4>2, <4>3, <6>2, SettlerKnows DEF MoneyOK, RowSound, Told
            <7> QED BY <4>1, <6>2, <7>1, SettlerKnows DEF MoneyOK, VoidSound, Refunded
          <6> QED BY <4>2, <4>3, <6>1, <6>2 DEF Final
        <5> QED BY <4>1, <4>2, <5>1, <5>2, SettlerKnows, AnswerSound
                DEF TypeOK, HandlersOK, Context
      <4>4. CASE ~(ctx[p].reported = "APPROVED" /\ status[o] # "APPROVED")
        <5>1. pc'[p] = "complete" /\ ctx'[p] = [ctx[p] EXCEPT !.saved = status[o]]
          BY <4>1, <4>2, <4>4 DEF AfterUpdate, Goto, Locals, TypeOK, HandlersOK, Final
        <5> QED BY <4>1, <4>2, <5>1, SettlerKnows, AnswerSound DEF TypeOK, HandlersOK, Context
      <4> QED BY <4>3, <4>4
    <3> QED BY <3>1, <3>2, OneHandlerMovesSoundly
  <2>32. ASSUME NEW p \in Procs, SettleThrows(p)
        PROVE  \A q \in Procs : HandlerSound(q)'
    <3>1. OtherHandlersStay(p)
      BY <2>32 DEF OtherHandlersStay, TypeOK, HandlersOK, SettleThrows, Goto, Locals, Return
    <3>2. HandlerSound(p)'
      BY <2>32, AtRestSound DEF TypeOK, HandlersOK, SettleThrows, Goto, Locals, Return
    <3> QED BY <3>1, <3>2, OneHandlerMovesSoundly
  <2>33. ASSUME NEW p \in Procs, SettleApproved(p)
        PROVE  \A q \in Procs : HandlerSound(q)'
    <3>1. OtherHandlersStay(p)
      BY <2>33 DEF OtherHandlersStay, TypeOK, HandlersOK, SettleApproved, Goto, Locals, GotoAbort,
          AfterUpdate
    <3>2. HandlerSound(p)'
      <4>1. pc[p] = "settle" /\ charge' = charge
            /\ status'[ctx[p].order] = "APPROVED" /\ provider'[ctx[p].order] = ctx[p].pid
        BY <2>33 DEF SettleApproved, wompi, TypeOK, RowsOK, HandlersOK, LocalsOK
      <4>2. pc'[p] = "complete" /\ ctx'[p] = [ctx[p] EXCEPT !.saved = "APPROVED"]
        BY <2>33 DEF SettleApproved, AfterUpdate, Goto, Locals, TypeOK, HandlersOK
      <4> QED BY <4>1, <4>2, SettlerKnows, AnswerSound DEF TypeOK, HandlersOK, Context, Final
    <3> QED BY <3>1, <3>2, OneHandlerMovesSoundly
  <2>34. ASSUME NEW p \in Procs, SettleOutOfStock(p)
        PROVE  \A q \in Procs : HandlerSound(q)'
    <3>1. OtherHandlersStay(p)
      BY <2>34 DEF OtherHandlersStay, TypeOK, HandlersOK, SettleOutOfStock, Goto, Locals,
          GotoAbort, AfterUpdate
    <3>2. HandlerSound(p)'
      <4>1. pc[p] = "settle" /\ charge' = charge
            /\ status'[ctx[p].order] = "ERROR" /\ provider'[ctx[p].order] = ctx[p].pid
        BY <2>34 DEF SettleOutOfStock, wompi, TypeOK, RowsOK, HandlersOK, LocalsOK
      <4>2. pc'[p] = "void" /\ ctx'[p] = [ctx[p] EXCEPT !.saved = "ERROR"]
        BY <2>34 DEF SettleOutOfStock, AfterUpdate, Goto, Locals, TypeOK, HandlersOK
      <4> QED BY <4>1, <4>2, SettlerKnows, AnswerSound DEF TypeOK, HandlersOK, Context, Final
    <3> QED BY <3>1, <3>2, OneHandlerMovesSoundly
  <2>35. ASSUME NEW p \in Procs, SettleNotApproved(p)
        PROVE  \A q \in Procs : HandlerSound(q)'
    <3>1. OtherHandlersStay(p)
      BY <2>35 DEF OtherHandlersStay, TypeOK, HandlersOK, SettleNotApproved, Goto, Locals,
          GotoAbort, AfterUpdate
    <3>2. HandlerSound(p)'
      <4>1. pc[p] = "settle" /\ ctx[p].reported # "APPROVED" /\ charge' = charge
            /\ status'[ctx[p].order] = ctx[p].reported
        BY <2>35 DEF SettleNotApproved, wompi, TypeOK, RowsOK, HandlersOK, LocalsOK
      <4>2. CASE ctx[p].reported = "PENDING"
        BY <2>35, <4>2, AtRestSound DEF SettleNotApproved, AfterUpdate, GotoAbort, Goto, TypeOK,
            HandlersOK
      <4>3. CASE ctx[p].reported # "PENDING"
        <5>1. pc'[p] = "complete" /\ ctx'[p] = [ctx[p] EXCEPT !.saved = ctx[p].reported]
          BY <2>35, <4>1, <4>3 DEF SettleNotApproved, AfterUpdate, Goto, Locals, TypeOK, HandlersOK
        <5>2. ctx[p].reported \in Final
          BY <4>1, <4>3 DEF TypeOK, HandlersOK, Context, ProviderStatus, Final
        <5> QED BY <4>1, <5>1, <5>2, SettlerKnows, AnswerSound DEF TypeOK, HandlersOK, Context
      <4> QED BY <4>2, <4>3
    <3> QED BY <3>1, <3>2, OneHandlerMovesSoundly
  <2>36. ASSUME NEW p \in Procs, VoidPayment(p)
        PROVE  \A q \in Procs : HandlerSound(q)'
    <3>1. OtherHandlersStay(p)
      BY <2>36 DEF OtherHandlersStay, TypeOK, HandlersOK, VoidPayment, Goto
    <3>2. HandlerSound(p)'
      <4>1. pc[p] = "void" /\ pc'[p] = "complete_oos" /\ ctx'[p] = ctx[p]
            /\ ctx[p].pid \in voidTried' /\ status' = status /\ provider' = provider
        BY <2>36 DEF VoidPayment, Goto, TypeOK, HandlersOK, rows
      <4>2. charge'[ctx[p].pid].ref = ctx[p].order
        BY <4>1, SettlerKnows DEF Grows
      <4> QED BY <4>1, <4>2, SettlerKnows, AnswerSound DEF Refunded, Final
    <3> QED BY <3>1, <3>2, OneHandlerMovesSoundly
  <2>37. ASSUME NEW p \in Procs, Complete(p)
        PROVE  \A q \in Procs : HandlerSound(q)'
    <3>1. OtherHandlersStay(p)
      BY <2>37 DEF OtherHandlersStay, TypeOK, HandlersOK, Complete, Goto, Locals, Return
    <3>2. HandlerSound(p)'
      BY <2>37, AtRestSound DEF TypeOK, HandlersOK, Complete, Goto, Locals, Return
    <3> QED BY <3>1, <3>2, OneHandlerMovesSoundly
  <2>38. ASSUME NEW p \in Procs, Abort(p)
        PROVE  \A q \in Procs : HandlerSound(q)'
    <3>1. OtherHandlersStay(p)
      BY <2>38 DEF OtherHandlersStay, TypeOK, HandlersOK, Abort, Goto, Locals, Return
    <3>2. HandlerSound(p)'
      BY <2>38, AtRestSound DEF TypeOK, HandlersOK, Abort, Goto, Locals, Return
    <3> QED BY <3>1, <3>2, OneHandlerMovesSoundly
  <2>39. ASSUME NEW p \in Procs, Crash(p)
        PROVE  \A q \in Procs : HandlerSound(q)'
    <3>1. OtherHandlersStay(p)
      BY <2>39 DEF OtherHandlersStay, TypeOK, HandlersOK, Crash, Goto, Locals, Return
    <3>2. HandlerSound(p)'
      BY <2>39, AtRestSound DEF TypeOK, HandlersOK, Crash, Goto, Locals, Return
    <3> QED BY <3>1, <3>2, OneHandlerMovesSoundly
  <2>40. ASSUME NEW o \in Orders, LeaseLapses(o)
        PROVE  \A q \in Procs : HandlerSound(q)'
    BY <2>40, StillHandlersStaySound DEF LeaseLapses, handlers
  <2>41. ASSUME NEW o \in Orders, GetWidgetSession(o)
        PROVE  \A q \in Procs : HandlerSound(q)'
    BY <2>41, StillHandlersStaySound DEF GetWidgetSession, handlers
  <2>42. ASSUME NEW o \in Orders, NEW pid \in Pids, WidgetCharge(o, pid)
        PROVE  \A q \in Procs : HandlerSound(q)'
    BY <2>42, StillHandlersStaySound DEF WidgetCharge, handlers
  <2>43. ASSUME NEW pid \in Pids, NEW st \in Outcomes, ResolveCharge(pid, st)
        PROVE  \A q \in Procs : HandlerSound(q)'
    BY <2>43, StillHandlersStaySound DEF ResolveCharge, handlers
  <2> QED BY <1>1, <2>1, <2>2, <2>3, <2>4, <2>5, <2>6, <2>7, <2>8, <2>9, <2>10, <2>11, <2>12,
      <2>13, <2>14, <2>15, <2>16, <2>17, <2>18, <2>19, <2>20, <2>21, <2>22, <2>23, <2>24, <2>25,
      <2>26, <2>27, <2>28, <2>29, <2>30, <2>31, <2>32, <2>33, <2>34, <2>35, <2>36, <2>37, <2>38,
      <2>39, <2>40, <2>41, <2>42, <2>43 DEF Next, Start, Step, World, Pay, Sync, Webhook, Stuck,
      Settle
<1>2. CASE UNCHANGED vars
  BY <1>2, StillHandlersStaySound DEF vars, handlers
<1> QED BY <1>1, <1>2

-----------------------------------------------------------------------------
(* The money theorems *)

\* The inductive invariant of this module.
LEMMA MoneyBase == Spec => [](TypeOK /\ FreshIds /\ MoneyOK)
<1>1. Init => MoneyOK
  BY SentinelAssumption DEF Init, MoneyOK, RowSound, HandlerSound, PayLabels, SyncLabels,
     PaymentLabels, ReportLabels, WebhookLabels
<1>2. TypeOK /\ FreshIds /\ MoneyOK /\ [Next]_vars => MoneyOK'
  <2> SUFFICES ASSUME TypeOK, FreshIds, MoneyOK, [Next]_vars PROVE MoneyOK'
    OBVIOUS
  <2>1. MoneyStep
    BY EveryStepIsAMoneyStep
  <2>2. Grows
    BY <2>1, EveryStepGrows
  <2> QED
    BY <2>1, <2>2, RowsStaySound, EventsStaySound, VoidsStaySound, HandlersStaySound DEF MoneyOK
<1> QED BY <1>1, <1>2, SafetyBase, PTL DEF Spec

\* The payment id in an order's row is a payment Wompi made for that order: what
\* pay attaches, what sync is told by the browser, what the webhook resolves by
\* reference and what the stuck job lists, in every instance.
THEOREM BindingSoundHolds == Spec => []BindingSound
<1>1. TypeOK /\ MoneyOK => BindingSound
  BY DEF MoneyOK, RowSound, BindingSound, HasProviderCharge
<1> QED BY <1>1, MoneyBase, PTL

\* An APPROVED order holds an APPROVED payment nobody tried to void, a DECLINED
\* one a declined payment, whichever handler settled it with whatever old report.
THEOREM ConfirmedIsCapturedHolds == Spec => []ConfirmedIsCaptured
<1>1. TypeOK /\ MoneyOK => ConfirmedIsCaptured
  BY DEF MoneyOK, RowSound, ConfirmedIsCaptured
<1> QED BY <1>1, MoneyBase, PTL

-----------------------------------------------------------------------------
(* Out of stock *)

\* A handler about to void stays there, with its payment, until it has voided it.
LEMMA VoiderStays ==
  ASSUME TypeOK, Crashable = {}, [Next]_vars, NEW p \in Procs, pc[p] = "void"
  PROVE  \/ pc'[p] = "void" /\ ctx'[p] = ctx[p]
         \/ ctx[p].pid \in voidTried'
<1> DEFINE Stays == pc'[p] = "void" /\ ctx'[p] = ctx[p]
<1>1. ASSUME NEW q \in Procs, Start(q) PROVE Stays
  <2> USE DEF Goto, Locals, TypeOK, HandlersOK
  <2>1. ASSUME NEW o, NEW k, NEW pid,
               CreateCheckStock(q, o) \/ PayBegin(q, o, k) \/ SyncBegin(q, o, k, pid)
        PROVE  Stays
    BY <2>1 DEF CreateCheckStock, PayBegin, SyncBegin
  <2>2. ASSUME NEW o, ExpireUncharged(q, o) PROVE Stays
    BY <2>2 DEF ExpireUncharged, handlers
  <2> QED BY <1>1, <2>1, <2>2 DEF Start, WebhookLookup, StuckList
<1>2. ASSUME NEW q \in Procs, CreateSave(q) \/ Pay(q) \/ Sync(q) PROVE Stays
  <2> USE DEF Goto, Locals, Return, GotoAbort, TypeOK, HandlersOK
  <2>1. CASE CreateSave(q) \/ Sync(q)
    BY <2>1 DEF CreateSave, Sync, SyncRead, SyncPoll, PollFails
  <2>2. CASE PayRead(q) \/ PayPoll(q) \/ PollFails(q) \/ ClaimForPayment(q) \/ ReleaseClaim(q)
    BY <2>2 DEF PayRead, PayPoll, PollFails, ClaimForPayment, ReleaseClaim
  <2>3. CASE CardPaymentFails(q) \/ AttachFails(q) \/ AttachProviderTransactionId(q)
    BY <2>3 DEF CardPaymentFails, AttachFails, AttachProviderTransactionId
  <2>4. ASSUME NEW pid, NEW st, CardPaymentAnswered(q, pid, st) \/ CardPaymentAnswerLost(q, pid)
        PROVE  Stays
    BY <2>4 DEF CardPaymentAnswered, CardPaymentAnswerLost
  <2> QED BY <1>2, <2>1, <2>2, <2>3, <2>4 DEF Pay
<1>3. ASSUME NEW q \in Procs, Webhook(q) \/ Stuck(q) PROVE Stays
  BY <1>3 DEF Webhook, Stuck, WebhookFind, WebhookWait, WebhookReclaim, WebhookBegin,
     WebhookBeginAgain, StuckPoll, StuckPollFails, StuckBegin, Goto, Locals, Return, TypeOK,
     HandlersOK
<1>4. ASSUME NEW q \in Procs, Settle(q) PROVE Stays \/ ctx[p].pid \in voidTried'
  <2>1. CASE VoidPayment(q)
    BY <2>1 DEF VoidPayment, Goto, TypeOK, HandlersOK
  <2>2. CASE ~VoidPayment(q)
    BY <1>4, <2>2 DEF Settle, SettleInvalidState, SettleLostRace, SettleThrows, SettleApproved,
       SettleOutOfStock, SettleNotApproved, AfterUpdate, Complete, Abort, Goto, Locals, Return,
       GotoAbort, TypeOK, HandlersOK
  <2> QED BY <2>1, <2>2
<1>5. ASSUME NEW q \in Procs, Crash(q) PROVE FALSE
  BY <1>5 DEF Crash
<1>6. ASSUME World \/ UNCHANGED vars PROVE Stays
  BY <1>6 DEF World, LeaseLapses, GetWidgetSession, WidgetCharge, ResolveCharge, vars, handlers
<1> QED BY <1>1, <1>2, <1>3, <1>4, <1>5, <1>6 DEF Next, Step

\* An order becomes uncompensated only by a settler that found no stock and goes on
\* to void the payment.
LEMMA UncompensatedSince ==
  ASSUME TypeOK, MoneyOK, MoneyStep, NEW o \in Orders, Uncompensated(o)'
  PROVE  \/ Uncompensated(o) /\ provider'[o] = provider[o]
         \/ \E p \in Procs : pc'[p] = "void" /\ ctx'[p].pid = provider'[o]
<1>1. CASE Quiet
  BY <1>1 DEF Quiet, Uncompensated
<1>2. ASSUME NEW x \in Orders, Places(x) \/ Claims(x) \/ Expires(x)
      PROVE  Uncompensated(o) /\ provider'[o] = provider[o]
  BY <1>2 DEF Places, Claims, Expires, WompiStill, Uncompensated, TypeOK, RowsOK
<1>3. ASSUME NEW p \in Procs, Binds(p)
      PROVE  Uncompensated(o) /\ provider'[o] = provider[o]
  BY <1>3 DEF Binds, WompiStill, Uncompensated, TypeOK, RowsOK
<1>4. ASSUME NEW p \in Procs, Settles(p)
      PROVE  \/ Uncompensated(o) /\ provider'[o] = provider[o]
             \/ pc'[p] = "void" /\ ctx'[p].pid = provider'[o]
  <2>1. ctx[p].order \in Orders /\ Told(ctx[p].pid, ctx[p].reported)
    BY <1>4, SettlerKnows DEF Settles
  <2>2. CASE ctx[p].order # o
    BY <1>4, <2>1, <2>2 DEF Settles, WompiStill, Uncompensated, TypeOK, RowsOK
  <2>3. CASE ctx[p].order = o
    <3>1. status'[o] = "ERROR" /\ provider'[o] = ctx[p].pid /\ charge' = charge
          /\ charge[ctx[p].pid].status = "APPROVED"
      BY <1>4, <2>3 DEF Settles, WompiStill, Uncompensated, TypeOK, RowsOK
    <3>2. ctx[p].reported # "ERROR"
      BY <2>1, <3>1 DEF Told
    <3> QED BY <1>4, <2>3, <3>1, <3>2 DEF Settles, Answers, TypeOK, RowsOK
  <2> QED BY <2>2, <2>3
<1>5. ASSUME NEW p \in Procs, Voids(p)
      PROVE  Uncompensated(o) /\ provider'[o] = provider[o]
  BY <1>5 DEF Voids, Uncompensated, MoneyOK, RowSound, TypeOK, WompiOK, HandlersOK, LocalsOK
<1>6. ASSUME NEW pid \in Pids, NEW x \in Orders, Charges(pid, x)
      PROVE  Uncompensated(o) /\ provider'[o] = provider[o]
  BY <1>6, SentinelAssumption DEF Charges, NewCharge, Uncompensated, MoneyOK, RowSound, TypeOK,
     WompiOK
<1>7. ASSUME NEW pid \in Pids, Resolves(pid)
      PROVE  Uncompensated(o) /\ provider'[o] = provider[o]
  BY <1>7 DEF Resolves, Uncompensated, MoneyOK, RowSound, TypeOK, WompiOK
<1> QED BY <1>1, <1>2, <1>3, <1>4, <1>5, <1>6, <1>7 DEF MoneyStep

\* While no handler dies, captured money of an order that could not be served has
\* a void tried or a handler on its way to it.  A death in between is the hazard of
\* the lost_void run.
THEOREM OutOfStockIsVoidedHolds ==
  ASSUME Crashable = {}
  PROVE  Spec => []OutOfStockIsVoided
<1>1. Init => OutOfStockIsVoided
  BY DEF Init, OutOfStockIsVoided, Uncompensated
<1>2. TypeOK /\ FreshIds /\ MoneyOK /\ OutOfStockIsVoided /\ [Next]_vars
        => OutOfStockIsVoided'
  <2> SUFFICES ASSUME TypeOK, FreshIds, MoneyOK, OutOfStockIsVoided, [Next]_vars,
                      NEW o \in Orders, Uncompensated(o)'
               PROVE  \/ provider'[o] \in voidTried'
                      \/ \E p \in Procs : pc'[p] = "void" /\ ctx'[p].pid = provider'[o]
    BY DEF OutOfStockIsVoided
  <2>1. MoneyStep
    BY EveryStepIsAMoneyStep
  <2>2. voidTried \subseteq voidTried'
    BY <2>1, EveryStepGrows DEF Grows
  <2>3. CASE Uncompensated(o) /\ provider'[o] = provider[o]
    <3>1. CASE provider[o] \in voidTried
      BY <2>2, <2>3, <3>1
    <3>2. ASSUME NEW p \in Procs, pc[p] = "void", ctx[p].pid = provider[o]
          PROVE  \/ provider'[o] \in voidTried'
                 \/ pc'[p] = "void" /\ ctx'[p].pid = provider'[o]
      BY <2>3, <3>2, VoiderStays
    <3> QED BY <2>3, <3>1, <3>2 DEF OutOfStockIsVoided
  <2> QED BY <2>1, <2>3, UncompensatedSince
<1> QED BY <1>1, <1>2, MoneyBase, PTL DEF Spec

-----------------------------------------------------------------------------
(* What a sealed key replays *)

\* A new row of key k, opened for the order the key's payment was made for.
OpensFor(k, o) ==
  /\ Open(k, o)
  /\ k \in ClientKeys \/ charge[k[2]].ref = o

Seals(p) ==
  \/ pc[p] = "complete" /\ Seal(p, "done")
  \/ pc[p] = "complete_oos" /\ Seal(p, "oos")

IdemStep ==
  \/ \A k \in Keys : idem'[k] \in {idem[k], None}
  \/ \E k \in Keys, o \in Orders : OpensFor(k, o)
  \/ \E p \in Procs : Seals(p)

\* Keys are deleted, opened for the order of their payment, or sealed by a handler
\* that has an answer; nothing else writes idempotency_keys.
LEMMA EveryStepIsAnIdemStep ==
  ASSUME TypeOK, MoneyOK, [Next]_vars
  PROVE  IdemStep
<1>1. CASE UNCHANGED idem
  BY <1>1 DEF IdemStep
<1>2. ASSUME NEW p \in Procs, Start(p) PROVE IdemStep
  <2>1. ASSUME NEW o \in Orders, NEW k \in ClientKeys, PayBegin(p, o, k) PROVE IdemStep
    BY <2>1, WorkerKeysOK DEF PayBegin, IdemStep, OpensFor
  <2>2. ASSUME NEW o \in Orders, NEW k \in ClientKeys, NEW pid \in Pids, SyncBegin(p, o, k, pid)
        PROVE  IdemStep
    BY <2>2, WorkerKeysOK DEF SyncBegin, IdemStep, OpensFor
  <2> QED
    BY <1>1, <1>2, <2>1, <2>2 DEF Start, CreateCheckStock, WebhookLookup, StuckList,
       ExpireUncharged
<1>3. ASSUME NEW p \in Procs, CreateSave(p) \/ Pay(p) \/ Sync(p) PROVE UNCHANGED idem
  BY <1>3 DEF CreateSave, Pay, Sync, PayRead, ClaimForPayment, CardPaymentAnswered,
     CardPaymentAnswerLost, CardPaymentFails, AttachProviderTransactionId, AttachFails,
     ReleaseClaim, PayPoll, PollFails, SyncRead, SyncPoll
<1>4. ASSUME NEW p \in Procs, Webhook(p) \/ Stuck(p) PROVE IdemStep
  <2>1. CASE WebhookBegin(p) \/ WebhookBeginAgain(p) \/ StuckBegin(p)
    <3>1. ctx[p].key \in Keys /\ ctx[p].order \in Orders
          /\ (ctx[p].key \in ClientKeys \/ ctx[p].key[2] = ctx[p].pid)
          /\ charge[ctx[p].pid].ref = ctx[p].order
      BY <2>1 DEF WebhookBegin, WebhookBeginAgain, StuckBegin, MoneyOK, HandlerSound,
         PaymentLabels, ReportLabels, WebhookLabels, TypeOK, HandlersOK, LocalsOK
    <3>2. Open(ctx[p].key, ctx[p].order) \/ UNCHANGED idem
      BY <2>1 DEF WebhookBegin, WebhookBeginAgain, StuckBegin
    <3>3. CASE Open(ctx[p].key, ctx[p].order)
      BY <3>1, <3>3 DEF IdemStep, OpensFor
    <3> QED BY <1>1, <3>2, <3>3
  <2>2. ASSUME NEW at, NEW next, WebhookReclaim(p, at, next) PROVE IdemStep
    BY <2>2 DEF WebhookReclaim, IdemStep, TypeOK, IdemOK
  <2>3. ASSUME NEW at, NEW next, WebhookWait(p, at, next) PROVE UNCHANGED idem
    BY <2>3 DEF WebhookWait
  <2>4. ASSUME WebhookFind(p) \/ StuckPoll(p) \/ StuckPollFails(p) PROVE UNCHANGED idem
    BY <2>4 DEF WebhookFind, StuckPoll, StuckPollFails
  <2> QED BY <1>1, <1>4, <2>1, <2>2, <2>3, <2>4 DEF Webhook, Stuck
<1>5. ASSUME NEW p \in Procs, Settle(p) PROVE IdemStep
  <2>1. CASE Complete(p)
    BY <2>1 DEF Complete, IdemStep, Seals
  <2>2. CASE Abort(p)
    BY <2>2 DEF Abort, IdemStep, TypeOK, IdemOK
  <2>3. CASE ~Complete(p) /\ ~Abort(p)
    BY <1>1, <1>5, <2>3 DEF Settle, SettleInvalidState, SettleLostRace, SettleThrows,
       SettleApproved, SettleOutOfStock, SettleNotApproved, VoidPayment
  <2> QED BY <2>1, <2>2, <2>3
<1>6. ASSUME NEW p \in Procs, Crash(p) PROVE UNCHANGED idem
  BY <1>6 DEF Crash
<1>7. ASSUME World \/ UNCHANGED vars PROVE UNCHANGED idem
  BY <1>7 DEF World, LeaseLapses, GetWidgetSession, WidgetCharge, ResolveCharge, vars
<1> QED BY <1>1, <1>2, <1>3, <1>4, <1>5, <1>6, <1>7 DEF Next, Step

\* The order a key was opened for, as its payment tells it.
LEMMA WorkerKeysStaySound ==
  ASSUME TypeOK, WorkerKeySound, Grows, IdemStep
  PROVE  WorkerKeySound'
<1> SUFFICES ASSUME NEW k \in WorkerKeys, idem'[k] # None
             PROVE  charge'[k[2]].ref = idem'[k].order
  BY DEF WorkerKeySound
<1>1. k \in Keys /\ k \notin ClientKeys /\ k[2] \in Pids
  BY SentinelAssumption, WorkerKeysOK DEF WorkerKeys
<1>2. CASE idem[k] # None /\ idem'[k].order = idem[k].order
  <2>1. charge[k[2]].ref = idem[k].order /\ idem[k].order \in Orders
    BY <1>1, <1>2 DEF WorkerKeySound, TypeOK, IdemOK, KeyRow
  <2> QED BY <1>1, <1>2, <2>1 DEF Grows
<1>3. CASE \A x \in Keys : idem'[x] \in {idem[x], None}
  BY <1>1, <1>2, <1>3
<1>4. ASSUME NEW x \in Keys, NEW o \in Orders, OpensFor(x, o)
      PROVE  charge'[k[2]].ref = idem'[k].order
  <2>1. CASE x = k
    <3>1. charge[k[2]].ref = o /\ idem'[k].order = o
      BY <1>1, <1>4, <2>1 DEF OpensFor, Open, TypeOK, IdemOK
    <3> QED BY <1>1, <3>1 DEF Grows
  <2>2. CASE x # k
    BY <1>1, <1>2, <1>4, <2>2 DEF OpensFor, Open, TypeOK, IdemOK
  <2> QED BY <2>1, <2>2
<1>5. ASSUME NEW p \in Procs, Seals(p) PROVE idem[k] # None /\ idem'[k].order = idem[k].order
  BY <1>1, <1>5, SentinelAssumption DEF Seals, Seal, TypeOK, IdemOK, KeyRow
<1> QED BY <1>2, <1>3, <1>4, <1>5 DEF IdemStep

\* What one sealed row must say.
SealSound(k) ==
  Sealed(k) =>
    LET o == idem[k].order IN
      /\ idem[k].response = status[o] /\ status[o] \in Final
      /\ idem[k].state = "oos" => status[o] = "ERROR" /\ provider[o] \in voidTried

\* A handler seals its own order's answer, since its key was opened for that order:
\* a shopper's by itself, a worker's for the payment it names.
LEMMA SealingTellsTheTruth ==
  ASSUME TypeOK, MoneyOK, ClientKeyOwned, WorkerKeySound, Grows,
         NEW p \in Procs, Seals(p), NEW k, k = ctx[p].key
  PROVE  SealSound(k)'
<1> DEFINE o == ctx[p].order
<1>1. pc[p] \in {"complete", "complete_oos"} /\ pc[p] \in PaymentLabels /\ pc[p] # "stuck_poll"
  BY DEF Seals, PaymentLabels
<1>2. o \in Orders /\ ctx[p].pid \in Pids /\ k \in Keys
  BY <1>1 DEF TypeOK, HandlersOK, LocalsOK
<1>3. /\ charge[ctx[p].pid].ref = o
      /\ k \in ClientKeys \/ k[2] = ctx[p].pid
      /\ ctx[p].saved = status[o] /\ status[o] \in Final
      /\ pc[p] = "complete_oos" => Refunded(o, ctx[p].pid) /\ ctx[p].pid \in voidTried
  BY <1>1 DEF MoneyOK, HandlerSound
<1>4. CASE idem[k] = None
  BY <1>2, <1>4 DEF Seals, Seal, SealSound, Sealed
<1>5. CASE idem[k] # None
  <2>1. idem[k].order = o
    <3>1. CASE k \in ClientKeys
      BY <1>1, <1>2, <3>1, SentinelAssumption DEF ClientKeyOwned, HoldsClientKey
    <3>2. CASE k \notin ClientKeys
      BY <1>2, <1>3, <1>5, <3>2 DEF WorkerKeySound, Keys
    <3> QED BY <3>1, <3>2
  <2>2. /\ idem'[k].order = o /\ idem'[k].response = status[o]
        /\ idem'[k].state = "oos" => pc[p] = "complete_oos"
    BY <1>2, <1>3, <1>5, <2>1 DEF Seals, Seal, TypeOK, IdemOK, KeyRow
  <2>3. status'[o] = status[o] /\ provider'[o] = provider[o] /\ voidTried \subseteq voidTried'
    BY <1>2, <1>3 DEF Grows
  <2> QED BY <1>3, <2>2, <2>3 DEF SealSound, Refunded
<1> QED BY <1>4, <1>5

\* A row that is not written, or that another key's handler writes, goes on telling
\* the truth: its order is final.
LEMMA SealedStaysTrue ==
  ASSUME TypeOK, Grows, NEW k \in Keys, SealSound(k), idem'[k] = idem[k]
  PROVE  SealSound(k)'
<1> SUFFICES ASSUME Sealed(k) PROVE SealSound(k)'
  BY DEF SealSound, Sealed
<1>1. idem[k].order \in Orders
  BY DEF Sealed, TypeOK, IdemOK, KeyRow
<1> QED BY <1>1 DEF SealSound, Grows, Final

\* Sealed answers stay true through every step.
LEMMA SealsStaySound ==
  ASSUME TypeOK, MoneyOK, ClientKeyOwned, WorkerKeySound, ReplayTellsTheTruth, Grows, IdemStep
  PROVE  ReplayTellsTheTruth'
<1>1. \A k \in Keys : SealSound(k)
  BY DEF ReplayTellsTheTruth, SealSound
<1> SUFFICES ASSUME NEW k \in Keys PROVE SealSound(k)'
  BY DEF ReplayTellsTheTruth, SealSound
<1>2. CASE idem'[k] = idem[k]
  BY <1>1, <1>2, SealedStaysTrue
<1>3. CASE idem'[k] = None
  BY <1>3 DEF SealSound, Sealed
<1>4. ASSUME NEW x \in Keys, NEW o \in Orders, OpensFor(x, o) PROVE SealSound(k)'
  <2>1. CASE x = k
    BY <1>4, <2>1 DEF OpensFor, Open, SealSound, Sealed, TypeOK, IdemOK
  <2>2. CASE x # k
    BY <1>2, <1>4, <2>2 DEF OpensFor, Open, TypeOK, IdemOK
  <2> QED BY <2>1, <2>2
<1>5. ASSUME NEW p \in Procs, Seals(p) PROVE SealSound(k)'
  <2>1. CASE k = ctx[p].key
    BY <1>5, <2>1, SealingTellsTheTruth
  <2>2. CASE k # ctx[p].key
    BY <1>2, <1>5, <2>2 DEF Seals, Seal, TypeOK, IdemOK
  <2> QED BY <2>1, <2>2
<1> QED BY <1>2, <1>3, <1>4, <1>5 DEF IdemStep

\* What a repeated request or a redelivered event is answered from its sealed key is,
\* for ever and in every instance, what the order's row says.
THEOREM ReplayTellsTheTruthHolds == Spec => []ReplayTellsTheTruth
<1> DEFINE Inv == WorkerKeySound /\ ReplayTellsTheTruth
<1>1. Init => Inv
  BY WorkerKeysOK DEF Init, WorkerKeySound, ReplayTellsTheTruth, Sealed
<1>2. TypeOK /\ FreshIds /\ MoneyOK /\ ClientKeyOwned /\ Inv /\ [Next]_vars => Inv'
  BY EveryStepIsAMoneyStep, EveryStepGrows, EveryStepIsAnIdemStep, WorkerKeysStaySound,
     SealsStaySound
<1>3. Inv => ReplayTellsTheTruth
  OBVIOUS
<1> HIDE DEF Inv
<1> QED BY <1>1, <1>2, <1>3, MoneyBase, ClientKeyOwnedHolds, PTL DEF Spec
=============================================================================
