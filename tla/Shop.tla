-------------------------------- MODULE Shop --------------------------------
(***************************************************************************)
(* The checkout in the shopper's browser: the cart and checkout stores,    *)
(* which are persisted, the instances of the checkout page with the        *)
(* requests they wait for, the card form and the widget button, and the    *)
(* result page, against the orders that the API keeps.  A page that is     *)
(* left goes on with what it awaits: its watchers stop, its calls do not.  *)
(* A cart stands for its fingerprint, a city for all details of delivery.  *)
(***************************************************************************)
EXTENDS Integers, FiniteSets

CONSTANTS
  Carts,     \* fingerprints of carts that are not empty
  Cities,    \* what the shopper may ask for in the form
  Fee,       \* Fee[c]: the delivery fee
  Prices,    \* what the API may ask for a cart
  CartPrice, \* the total of a cart's lines as they were added
  Orders,    \* identities of orders
  Mounts,    \* instances of the checkout page
  Calls,     \* identities of calls of onSubmit and openWidget, 1..n
  MaxEdits,  \* bounds how often the shopper changes the cart or the form
  MaxBusy,   \* bounds the pages opened and the calls in flight together
  None

ASSUME ShopAssumption ==
  /\ Cities # {} /\ Fee \in [Cities -> Nat] /\ Prices \subseteq Nat /\ CartPrice \in Nat
  /\ MaxEdits \in Nat /\ MaxBusy \in Nat
  /\ None \notin Carts \cup Cities \cup Orders \cup Mounts

VARIABLES
  cart,            \* fingerprint of the lines, or None
  store,           \* the checkout store
  order,           \* order[o]: an order of the API, or None
  current,         \* the checkout page that is mounted, or None
  results,         \* orders whose result page waits for its answer
  page,            \* page[n]: an instance of the checkout page
  call,            \* call[i]: a call of onSubmit or openWidget
  overlays,        \* what Wompi's widget is open for
  script,          \* the <script> element of the widget
  edits            \* how often the shopper changed something

vars == <<cart, store, order, current, results, page, call, overlays, script, edits>>

Total(p, c) == p + Fee[c]

Shown == [cart : Carts, total : Nat]

Order == [cart : Carts, city : Cities, total : Nat,
          status : {"pending", "charging", "approved", "ended"},
          page : Mounts, epoch : Nat]

Create == [cart : Carts, city : Cities, epoch : Nat]

ASSUME RecordAssumption == None \notin Order \cup Create

\* method says that the form has a shipping method: from the draft, the resumed order or a
\* list of quotes; quote is the city whose list the page has.
Page == [at : {"new", "extras", "restore", "quotes", "resume", "ready", "gone"},
         txn : Orders \cup {None}, create : Create \cup {None},
         city : Cities, method : BOOLEAN, quote : Cities \cup {None},
         loads : SUBSET Cities, epoch : Nat,
         wanted : Orders \cup {None}, awaits : Cities \cup {None}]

\* shown is what the page showed at the click, id the order to pay once it is known; live
\* says that the form or button is still there.
Call == [pc : {"idle", "create", "token", "pay", "session", "script"},
         kind : {"card", "widget"}, page : Mounts \cup {None}, shown : Shown \cup {None},
         id : Orders \cup {None}, live : BOOLEAN]

NoPage == [at |-> "new", txn |-> None, create |-> None,
           city |-> CHOOSE c \in Cities : TRUE, method |-> FALSE, quote |-> None, loads |-> {},
           epoch |-> 0, wanted |-> None, awaits |-> None]

NoCall == [pc |-> "idle", kind |-> "card", page |-> None, shown |-> None, id |-> None,
           live |-> FALSE]

EmptyStore == [step |-> "product", pending |-> None, cart |-> None, draft |-> None]

ShopTypeOK ==
  /\ cart \in Carts \cup {None}
  /\ store \in [step : {"product", "payment"}, pending : Orders \cup {None},
                cart : Carts \cup {None}, draft : Cities \cup {None}]
  /\ order \in [Orders -> Order \cup {None}]
  /\ current \in Mounts \cup {None} /\ results \subseteq Orders
  /\ page \in [Mounts -> Page] /\ call \in [Calls -> Call]
  /\ \A i \in Calls :
       /\ call[i].pc # "idle" => call[i].page \in Mounts /\ call[i].shown \in Shown
       /\ call[i].pc \notin {"idle", "create"} => call[i].id \in Orders
  /\ overlays \subseteq [id : Orders, shown : Shown]
  /\ script \in {"absent", "loading", "ready", "failed"} /\ edits \in Nat

Init ==
  /\ cart \in Carts \cup {None}
  /\ store = EmptyStore /\ order = [o \in Orders |-> None]
  /\ current = None /\ results = {}
  /\ page = [n \in Mounts |-> NoPage] /\ call = [i \in Calls |-> NoCall]
  /\ overlays = {} /\ script = "absent" /\ edits = 0

-----------------------------------------------------------------------------
(* What the page shows. *)

\* Page n renders the given step, when cur is mounted, p its state, st the store and c
\* the cart: not while it loads or restores, and not for an empty cart without an order.
Renders(step, n, cur, p, st, c) ==
  /\ n = cur /\ p[n].at \in {"resume", "ready"}
  /\ c # None \/ p[n].txn # None
  /\ st.step = step

PaymentShown(n) == Renders("payment", n, current, page, store, cart)
DetailsShown(n) == Renders("product", n, current, page, store, cart)

\* displayLines and orderTotal.
Display(n) ==
  LET o == page[n].txn IN
    IF o # None THEN [cart |-> order[o].cart, total |-> order[o].total]
    ELSE [cart |-> cart,
          total |-> IF page[n].quote = None THEN CartPrice
                    ELSE Total(CartPrice, page[n].quote)]

\* A call outlives the form or button that made it when the page stops to show it.
CallsBecome(calls) ==
  call' = [i \in Calls |->
            IF calls[i].live /\ ~ Renders("payment", calls[i].page, current', page', store', cart')
              THEN [calls[i] EXCEPT !.live = FALSE] ELSE calls[i]]

Ends(i) == CallsBecome([call EXCEPT ![i] = NoCall])
CallsStay == CallsBecome(call)

\* Of a page that was left only what it awaits goes on, and nothing it would show.
Ghost(p) ==
  IF p.at \in {"ready", "gone"} /\ p.create = None THEN [NoPage EXCEPT !.at = "gone"]
  ELSE [p EXCEPT !.txn = None, !.city = NoPage.city, !.method = FALSE, !.quote = None,
                 !.loads = @ \cap {p.awaits}]

PagesBecome(pages) ==
  page' = [n \in Mounts |-> IF n = current' \/ pages[n].at = "new" THEN pages[n]
                            ELSE Ghost(pages[n])]
PageBecomes(n, p) == PagesBecome([page EXCEPT ![n] = p])

\* invalidatePendingOrder of page n: its part on the page, and on the store.
Invalidated(p) == [p EXCEPT !.txn = None, !.epoch = @ + 1]
WithoutPending(s) == [s EXCEPT !.pending = None, !.cart = None, !.step = "product"]

\* The cart becomes c; the watcher of the mounted page hears of it.
CartBecomes(c, s) ==
  /\ cart' = c
  /\ IF current # None /\ c # cart
       THEN /\ PagesBecome([page EXCEPT ![current] = Invalidated(@)])
            /\ store' = [WithoutPending(s) EXCEPT !.draft = None]
       ELSE PagesBecome(page) /\ store' = s

CartStays == PagesBecome(page) /\ UNCHANGED <<cart, store>>

\* Mutant of Finalize: every known outcome clears the cart.
FinalizeAlways(o) == CartBecomes(None, EmptyStore)

\* finalizeCheckout for the status order o has.
Finalize(o) ==
  IF order[o].status = "approved" THEN CartBecomes(None, EmptyStore) ELSE CartStays

-----------------------------------------------------------------------------
(* The shopper. *)

\* The widget covers the page.
Free == overlays = {}

Edit == edits < MaxEdits /\ edits' = edits + 1

\* add, setQuantity, remove.
EditCart(c) ==
  /\ Free /\ Edit /\ c # cart
  /\ UNCHANGED <<order, current, results, overlays, script>>
  /\ CartBecomes(c, store) /\ CallsStay

\* The next instance of the checkout page, when one is left.
Unused == {n \in Mounts : page[n].at = "new"}

\* Pages that were opened, and calls in flight.
Idle == {i \in Calls : call[i].pc = "idle"}
Busy == Cardinality(Mounts \ Unused) + Cardinality(Calls \ Idle)
NewMount == CHOOSE n \in Unused : TRUE

\* onMounted begins with loadExtras.
OpenCheckout ==
  /\ Free /\ current = None /\ Unused # {} /\ Busy < MaxBusy
  /\ current' = NewMount
  /\ page' = [page EXCEPT ![NewMount].at = "extras"]
  /\ UNCHANGED <<cart, store, order, results, overlays, script, edits>> /\ CallsStay

LeaveCheckout ==
  /\ Free /\ current # None
  /\ current' = None
  /\ UNCHANGED <<order, results, overlays, script, edits>>
  /\ CartStays /\ CallsStay

\* The result page mounts, and asks for the order: from Wompi's redirect, a link or
\* the history.
OpenResult(o) ==
  /\ Free /\ results = {} /\ order[o] # None /\ order[o].status # "pending"
  /\ current' = None /\ results' = results \cup {o}
  /\ UNCHANGED <<order, overlays, script, edits>>
  /\ CartStays /\ CallsStay

\* The browser forgets everything but the stores; what the API got it goes on with.
Reload ==
  /\ \E n \in Mounts : page[n].at \notin {"new", "gone"}
  /\ page' = [n \in Mounts |-> IF page[n].at = "new" THEN NoPage
                              ELSE [NoPage EXCEPT !.at = "gone"]]
  /\ current' = None /\ results' = {} /\ overlays' = {} /\ script' = "absent"
  /\ call' = [i \in Calls |-> NoCall]
  /\ UNCHANGED <<cart, store, order, edits>>

\* The city is a watched field.
EditForm(n, c) ==
  /\ Free /\ DetailsShown(n) /\ Edit /\ page[n].city # c
  /\ page' = [page EXCEPT ![n].city = c, ![n].loads = @ \cup {c}]
  /\ UNCHANGED <<cart, store, order, current, results, overlays, script>>
  /\ CallsStay

\* Validation asks for a shipping method; the button does not wait for the quotes.
ContinueToPayment(n) ==
  /\ Free /\ DetailsShown(n)
  /\ cart # None /\ page[n].method
  /\ store' = [store EXCEPT !.draft = page[n].city, !.step = "payment"]
  /\ UNCHANGED <<cart, order, current, results, page, overlays, script, edits>>
  /\ CallsStay

EditDetails(n) ==
  /\ Free /\ PaymentShown(n) /\ Edit
  /\ page' = [page EXCEPT ![n] = Invalidated(@)]
  /\ store' = WithoutPending(store)
  /\ UNCHANGED <<cart, order, current, results, overlays, script>>
  /\ CallsStay

-----------------------------------------------------------------------------
(* A page comes up. *)

\* The page asks for the quotes of city c, on its own or on behalf of what it awaits.
Load(p, c) == [p EXCEPT !.loads = @ \cup {c}]
AwaitQuotes(p, at, c) == [Load(p, c) EXCEPT !.at = at, !.awaits = c]
Begins(p) == [Load(p, p.city) EXCEPT !.at = "ready"]

\* The stored order does not fit the cart, or is not to be resumed.
NothingToResume == store.pending = None \/ store.cart = None
Outdated == cart = None \/ store.cart # cart

\* loadExtras ends; then the draft, and restorePendingOrder up to its first await.  Who
\* gets no payment config can but look at the page.
ExtrasAnswered(n) ==
  /\ page[n].at = "extras"
  /\ UNCHANGED <<cart, order, current, results, overlays, script, edits>>
  /\ LET p == [page[n] EXCEPT !.city = IF store.draft = None THEN @ ELSE store.draft,
                               !.method = store.draft # None]
         resume == store.draft # None /\ store.step = "payment" /\ cart # None IN
       \/ /\ ~ NothingToResume /\ ~ Outdated
          /\ PageBecomes(n, [p EXCEPT !.at = "restore", !.wanted = store.pending])
          /\ UNCHANGED store
       \/ /\ ~ NothingToResume /\ Outdated
          /\ PageBecomes(n, Begins(Invalidated(p)))
          /\ store' = WithoutPending(store)
       \/ /\ NothingToResume /\ resume
          /\ PageBecomes(n, AwaitQuotes(p, "resume", p.city))
          /\ UNCHANGED store
       \/ /\ NothingToResume /\ ~ resume
          /\ PageBecomes(n, Begins(p))
          /\ store' = [store EXCEPT !.step = "product"]
  /\ CallsStay

\* The order restorePendingOrder asked for is PENDING and has the lines of the cart.
Resumable(o) == order[o].status \in {"pending", "charging"} /\ order[o].cart = cart

RestoreAnswered(n) ==
  /\ page[n].at = "restore" /\ Resumable(page[n].wanted)
  /\ UNCHANGED <<cart, order, current, results, overlays, script, edits>>
  /\ LET c == order[page[n].wanted].city IN
       /\ PageBecomes(n, AwaitQuotes([page[n] EXCEPT !.city = c, !.method = TRUE], "quotes", c))
       /\ store' = [store EXCEPT !.draft = c]
  /\ CallsStay

ForgetsPending(n) ==
  /\ UNCHANGED <<cart, order, current, results, overlays, script, edits>>
  /\ PageBecomes(n, Begins([Invalidated(page[n]) EXCEPT !.wanted = None]))
  /\ store' = WithoutPending(store)
  /\ CallsStay

RestoreRefused(n) ==
  /\ page[n].at = "restore" /\ ~ Resumable(page[n].wanted)
  /\ ForgetsPending(n)

RestoreFails(n) == page[n].at = "restore" /\ ForgetsPending(n)

\* rememberPending.
Remembered(s, o, c) == [s EXCEPT !.pending = o, !.cart = c, !.step = "payment"]

\* Quotes arrive for city c, whichever city the form has by now, or none at all.  What
\* awaited them goes on: restorePendingOrder with the cart as it is now.
QuotesAnswered(n, c) ==
  /\ c \in page[n].loads
  /\ UNCHANGED <<cart, order, current, results, overlays, script, edits>>
  /\ \E q \in {c, None} :
       LET p == [page[n] EXCEPT !.loads = @ \ {c}, !.quote = q, !.method = q # None]
           done == [p EXCEPT !.at = "ready", !.awaits = None, !.wanted = None]
           awaited == page[n].awaits = c IN
         \/ /\ ~ awaited /\ UNCHANGED store
            /\ PageBecomes(n, p)
         \/ /\ awaited /\ page[n].at = "resume"
            /\ PageBecomes(n, done)
            /\ store' = [store EXCEPT !.step = "payment"]
         \/ /\ awaited /\ page[n].at = "quotes"
            /\ PageBecomes(n, [done EXCEPT !.txn = page[n].wanted])
            /\ store' = Remembered(store, page[n].wanted, cart)
  /\ CallsStay

-----------------------------------------------------------------------------
(* Paying. *)

\* Mutant of Proceeds: the id of the order is not passed on.
ProceedsWithoutId(c, o) == [c EXCEPT !.pc = IF c.kind = "card" THEN "token" ELSE "session"]

\* What a call does with the order it is to pay: the card form wants a token first, the
\* widget a session.
Proceeds(c, o) == [c EXCEPT !.id = o, !.pc = IF c.kind = "card" THEN "token" ELSE "session"]

\* The calls of page n that wait for the shared create.
Waiting(n) == {i \in Calls : call[i].pc = "create" /\ call[i].page = n}
WaitersEnd(n) == CallsBecome([i \in Calls |-> IF i \in Waiting(n) THEN NoCall ELSE call[i]])

\* The create in flight is shared, or a new one begins.
EnsureCreate(p) ==
  IF p.create # None THEN p
  ELSE [p EXCEPT !.create = [cart |-> cart, city |-> p.city, epoch |-> p.epoch]]

\* Mutant of Existing: the order of the page is not looked at.
ExistingIgnored(p) == None

\* getExisting of createSharedCreate.
Existing(p) == p.txn

\* onSubmit of the card form or openWidget, up to the first await of
\* resolveTransactionId; the form or button is not busy.
Click(n, kind) ==
  /\ Free /\ PaymentShown(n)
  /\ cart # None
  /\ \A i \in Calls : ~ (call[i].live /\ call[i].kind = kind)
  /\ Busy < MaxBusy
  /\ UNCHANGED <<cart, store, order, current, results, overlays, script, edits>>
  /\ \E i \in Idle :
       /\ \A j \in Idle : i <= j
       /\ LET c == [NoCall EXCEPT !.kind = kind, !.page = n, !.shown = Display(n),
                                  !.live = TRUE]
              o == Existing(page[n]) IN
            \/ /\ o # None /\ UNCHANGED page
               /\ CallsBecome([call EXCEPT ![i] = Proceeds(c, o)])
            \/ /\ o = None
               /\ page' = [page EXCEPT ![n] = EnsureCreate(@)]
               /\ CallsBecome([call EXCEPT ![i] = [c EXCEPT !.pc = "create"]])

CreateFails(n) ==
  /\ page[n].create # None
  /\ UNCHANGED <<cart, store, order, current, results, overlays, script, edits>>
  /\ PageBecomes(n, [page[n] EXCEPT !.create = None])
  /\ WaitersEnd(n)

Untaken == {o \in Orders : order[o] = None}
NewOrder == CHOOSE o \in Untaken : TRUE

\* Mutants of StillCurrent: only the epoch is compared, or only the fingerprint.
SameEpoch(n) == page[n].create.epoch = page[n].epoch
SameCart(n) == page[n].create.cart = cart

\* isCreateStillCurrent.
StillCurrent(n) == page[n].create.epoch = page[n].epoch /\ page[n].create.cart = cart

\* Mutant of Agrees: the total that was shown is not compared.
AgreesAlways(c, o) == TRUE

\* reconcileChargeTotal.
Agrees(c, o) == c.shown.total = order'[o].total

\* The API has priced and stored the order.  The answer is applied if it still fits,
\* and the calls that waited go on if the total is the one they showed.
CreateAnswered(n) ==
  /\ page[n].create # None /\ Untaken # {}
  /\ UNCHANGED <<cart, current, results, overlays, script, edits>>
  /\ LET x == page[n].create
         o == NewOrder IN
       /\ \E price \in Prices : order' = [order EXCEPT ![o] =
            [cart |-> x.cart, city |-> x.city, total |-> Total(price, x.city),
             status |-> "pending", page |-> n, epoch |-> x.epoch]]
       /\ IF StillCurrent(n)
            THEN /\ PageBecomes(n, [page[n] EXCEPT !.create = None, !.txn = o])
                 /\ store' = Remembered(store, o, x.cart)
                 /\ CallsBecome([i \in Calls |->
                      IF i \notin Waiting(n) THEN call[i]
                      ELSE IF Agrees(call[i], o) THEN Proceeds(call[i], o) ELSE NoCall])
            ELSE /\ PageBecomes(n, [page[n] EXCEPT !.create = None])
                 /\ UNCHANGED store /\ WaitersEnd(n)

\* Wompi has the charge of order o.
Charged(o) ==
  order' = [order EXCEPT ![o].status = IF @ = "pending" THEN "charging" ELSE @]

\* No token, or payTransaction, which the API refuses for an order that is decided.
TokenAnswered(i) ==
  /\ call[i].pc = "token"
  /\ UNCHANGED <<cart, store, current, results, page, overlays, script, edits>>
  /\ \/ Ends(i) /\ UNCHANGED order
     \/ /\ order[call[i].id].status \in {"pending", "charging"}
        /\ Charged(call[i].id)
        /\ CallsBecome([call EXCEPT ![i].pc = "pay"])

\* The answer to payTransaction, or none.  onPaid is an event of the form: it reaches
\* the page only while the form is there.
PayAnswered(i) ==
  /\ call[i].pc = "pay"
  /\ UNCHANGED <<order, overlays, script, edits>>
  /\ LET o == call[i].id
         paid == order[o].status = "approved" /\ call[i].live IN
       \/ /\ ~ paid /\ UNCHANGED <<current, results>> /\ Finalize(o)
       \/ /\ paid /\ current' = None /\ results' = results \cup {o} /\ Finalize(o)
       \/ UNCHANGED <<cart, store, page, current, results>>
  /\ Ends(i)

\* getWidgetSession, and then the script; the element that is there is waited for.
SessionAnswered(i) ==
  /\ call[i].pc = "session"
  /\ UNCHANGED <<cart, store, order, current, results, page, overlays, edits>>
  /\ \/ Ends(i) /\ UNCHANGED script
     \/ /\ order[call[i].id].status = "pending"
        /\ CallsBecome([call EXCEPT ![i].pc = "script"])
        /\ script' = IF script = "absent" THEN "loading" ELSE script

ScriptLoads ==
  /\ script = "loading" /\ script' = "ready"
  /\ UNCHANGED <<cart, store, order, current, results, page, call, overlays, edits>>

\* Who waits for the script is told; who comes later finds a dead element and waits.
ScriptFails ==
  /\ script = "loading" /\ script' = "failed"
  /\ UNCHANGED <<cart, store, order, current, results, page, overlays, edits>>
  /\ CallsBecome([i \in Calls |-> IF call[i].pc = "script" THEN NoCall ELSE call[i]])

OverlayOpens(i) ==
  /\ call[i].pc = "script" /\ script = "ready"
  /\ overlays' = overlays \cup {[id |-> call[i].id, shown |-> call[i].shown]}
  /\ UNCHANGED <<cart, store, order, current, results, page, script, edits>>
  /\ Ends(i)

\* The shopper pays in the widget, whose callback opens the result page.
OverlayPaid(v) ==
  /\ order[v.id].status = "pending" /\ Charged(v.id)
  /\ overlays' = overlays \ {v} /\ current' = None /\ results' = results \cup {v.id}
  /\ UNCHANGED <<script, edits>>
  /\ CartStays /\ CallsStay

OverlayCloses(v) ==
  /\ overlays' = overlays \ {v}
  /\ UNCHANGED <<cart, store, order, current, results, page, call, script, edits>>

\* The API learns how the charge ended, with or without a browser that waits, or lets
\* an order expire that nobody pays.
Settles(o) ==
  /\ order[o] # None
  /\ \E s \in CASE order[o].status = "charging" -> {"approved", "ended"}
              [] order[o].status = "pending" -> {"ended"}
              [] OTHER -> {} :
       order' = [order EXCEPT ![o].status = s]
  /\ UNCHANGED <<cart, store, current, results, page, call, overlays, script, edits>>

\* applyTransaction of the result page, unless the request fails.
ResultAnswered(o) ==
  /\ o \in results /\ results' = results \ {o}
  /\ UNCHANGED <<order, current, overlays, script, edits>>
  /\ Finalize(o) \/ CartStays
  /\ CallsStay

-----------------------------------------------------------------------------

Next ==
  \/ \E c \in Carts \cup {None} : EditCart(c)
  \/ OpenCheckout \/ LeaveCheckout \/ Reload \/ ScriptLoads \/ ScriptFails
  \/ \E n \in Mounts :
       \/ \E c \in Cities : EditForm(n, c) \/ QuotesAnswered(n, c)
       \/ \E kind \in {"card", "widget"} : Click(n, kind)
       \/ ContinueToPayment(n) \/ EditDetails(n)
       \/ ExtrasAnswered(n) \/ RestoreAnswered(n) \/ RestoreRefused(n) \/ RestoreFails(n)
       \/ CreateFails(n) \/ CreateAnswered(n)
  \/ \E i \in Calls :
       TokenAnswered(i) \/ PayAnswered(i) \/ SessionAnswered(i) \/ OverlayOpens(i)
  \/ \E v \in overlays : OverlayPaid(v) \/ OverlayCloses(v)
  \/ \E o \in Orders : OpenResult(o) \/ ResultAnswered(o) \/ Settles(o)

Spec == Init /\ [][Next]_vars

-----------------------------------------------------------------------------

\* Wompi charges what the shopper saw when they asked for it: the order whose charge
\* begins has the lines and the total that the page showed at the click, whatever the
\* cart, the catalog's prices or the form became meanwhile (resolveTransactionId).
ChargedAsShown ==
  [][\A o \in Orders :
       order[o] # None /\ order[o].status = "pending" /\ order'[o].status = "charging"
         => LET o1 == [cart |-> order[o].cart, total |-> order[o].total] IN
              \/ \E i \in Calls : call[i].pc = "token" /\ call[i].id = o
                                /\ call'[i].pc = "pay" /\ call[i].shown = o1
              \/ [id |-> o, shown |-> o1] \in overlays \ overlays']_vars

\* An order that a page created is of the page's present round: a late answer to a
\* create never comes back after the cart or the details it was for were given up.
CreatedOrderIsCurrent ==
  \A n \in Mounts : LET o == page[n].txn IN
    o # None /\ order[o].page = n =>
      /\ order[o].epoch = page[n].epoch
      /\ n = current => order[o].cart = cart

\* An answer that finds its page left makes no order the one to resume whose lines are
\* not in the cart any more: the page's watchers, which would have said so, are gone.
LateOrdersFitTheCart ==
  [][\A n \in Mounts :
       page[n].create # None /\ page'[n].create = None /\ store'.pending # store.pending
         => order'[store'.pending].cart = cart]_vars

\* However the card form and the widget are clicked, they share one order: one page
\* brings no two orders to Wompi without a change of cart or details in between.
OneChargePerRound ==
  \A o, x \in Orders :
    /\ order[o] # None /\ order[o].status \in {"charging", "approved"}
    /\ order[x] # None /\ order[x].status \in {"charging", "approved"}
    /\ order[o].page = order[x].page /\ order[o].epoch = order[x].epoch
    => o = x

\* Nothing but the shopper, or the answer that an order is APPROVED, empties the cart
\* (finalizeCheckout).
OnlyApprovalEmptiesTheCart ==
  [][cart # None /\ cart' = None =>
       \/ EditCart(None)
       \/ \E o \in Orders :
            /\ order[o] # None /\ order[o].status = "approved"
            /\ \/ o \in results \ results'
               \/ \E i \in Calls :
                    call[i].pc = "pay" /\ call[i].id = o /\ call'[i].pc = "idle"]_vars
=============================================================================
