----------------------------- MODULE ShopProofs -----------------------------
(***************************************************************************)
(* Proofs about the checkout in the browser: its state keeps its types,    *)
(* an order that a page created is of the page's present round, one round  *)
(* of a page brings no two orders to Wompi, what is charged is what was    *)
(* shown, a late order fits the cart, and approval alone empties it.       *)
(***************************************************************************)
EXTENDS Shop, TLAPS

-----------------------------------------------------------------------------
(* Pages that are left, and calls that outlive their form. *)

LEMMA NoPageIsAPage ==
  /\ NoPage \in Page /\ NoPage.at = "new" /\ NoPage.txn = None /\ NoPage.create = None
  /\ NoPage.wanted = None /\ NoPage.city \in Cities
BY ShopAssumption DEF NoPage, Page

LEMMA GonePage ==
  LET p == [NoPage EXCEPT !.at = "gone"] IN
    p \in Page /\ p.at = "gone" /\ p.txn = None /\ p.create = None /\ p.wanted = None
BY NoPageIsAPage DEF Page

\* What is left of a page that was left.
LEMMA GhostFields ==
  ASSUME NEW p \in Page
  PROVE  /\ Ghost(p) \in Page /\ Ghost(p).txn = None
         /\ Ghost(p).wanted \in {p.wanted, None}
         /\ \/ Ghost(p).at = "gone" /\ Ghost(p).create = None
            \/ /\ Ghost(p).at = p.at
               /\ Ghost(p).create = p.create /\ Ghost(p).epoch = p.epoch
               /\ Ghost(p).wanted = p.wanted
<1>1. CASE p.at \in {"ready", "gone"} /\ p.create = None
  BY <1>1, GonePage DEF Ghost
<1>2. CASE ~ (p.at \in {"ready", "gone"} /\ p.create = None)
  <2> DEFINE q == [p EXCEPT !.txn = None, !.city = NoPage.city, !.method = FALSE,
                            !.quote = None, !.loads = @ \cap {p.awaits}]
  <2>1. Ghost(p) = q
    BY <1>2 DEF Ghost
  <2>2. /\ q.at = p.at /\ q.txn = None /\ q.create = p.create /\ q.city = NoPage.city
        /\ q.method = FALSE /\ q.quote = None /\ q.loads = p.loads \cap {p.awaits}
        /\ q.epoch = p.epoch /\ q.wanted = p.wanted /\ q.awaits = p.awaits
    BY DEF Page
  <2>3. q \in Page
    BY NoPageIsAPage DEF Page
  <2> QED
    BY <2>1, <2>2, <2>3
<1> QED
  BY <1>1, <1>2

LEMMA PagesAfter ==
  ASSUME NEW pages \in [Mounts -> Page], PagesBecome(pages)
  PROVE  /\ page' \in [Mounts -> Page]
         /\ \A n \in Mounts :
              \/ (n = current' \/ pages[n].at = "new") /\ page'[n] = pages[n]
              \/ n # current' /\ pages[n].at # "new" /\ page'[n] = Ghost(pages[n])
BY GhostFields DEF PagesBecome

CallsOK(calls) ==
  /\ calls \in [Calls -> Call]
  /\ \A i \in Calls :
       /\ calls[i].pc # "idle" => calls[i].page \in Mounts /\ calls[i].shown \in Shown
       /\ calls[i].pc \notin {"idle", "create"} => calls[i].id \in Orders

LEMMA CallsAfter ==
  ASSUME NEW calls, CallsOK(calls), CallsBecome(calls)
  PROVE  /\ CallsOK(call)'
         /\ \A i \in Calls :
              /\ call'[i].pc = calls[i].pc /\ call'[i].id = calls[i].id
              /\ call'[i].page = calls[i].page /\ call'[i].shown = calls[i].shown
<1>1. \A i \in Calls : call'[i] = calls[i] \/ call'[i] = [calls[i] EXCEPT !.live = FALSE]
  BY DEF CallsBecome
<1>2. \A i \in Calls : call'[i] \in Call
  <2> SUFFICES ASSUME NEW i \in Calls PROVE call'[i] \in Call
    OBVIOUS
  <2>1. calls[i] \in Call
    BY DEF CallsOK
  <2>2. [calls[i] EXCEPT !.live = FALSE] \in Call
    BY <2>1 DEF Call
  <2> QED
    BY <1>1, <2>1, <2>2
<1>3. call' \in [Calls -> Call]
  BY <1>2 DEF CallsBecome
<1>4. \A i \in Calls :
         /\ call'[i].pc = calls[i].pc /\ call'[i].id = calls[i].id
         /\ call'[i].page = calls[i].page /\ call'[i].shown = calls[i].shown
  <2> SUFFICES ASSUME NEW i \in Calls
               PROVE  /\ call'[i].pc = calls[i].pc /\ call'[i].id = calls[i].id
                      /\ call'[i].page = calls[i].page /\ call'[i].shown = calls[i].shown
    OBVIOUS
  <2>1. calls[i] \in Call
    BY DEF CallsOK
  <2>2. LET c == [calls[i] EXCEPT !.live = FALSE] IN
          /\ c.pc = calls[i].pc /\ c.id = calls[i].id
          /\ c.page = calls[i].page /\ c.shown = calls[i].shown
    BY <2>1 DEF Call
  <2> QED
    BY <1>1, <2>2
<1> QED
  BY <1>3, <1>4 DEF CallsOK

-----------------------------------------------------------------------------
(* The invariant. *)

\* Order o was charged, or something may still bring it to Wompi.
Held(o) ==
  \/ order[o] # None /\ order[o].status \in {"charging", "approved"}
  \/ store.pending = o
  \/ \E n \in Mounts : page[n].txn = o \/ page[n].wanted = o
  \/ \E i \in Calls : call[i].pc \notin {"idle", "create"} /\ call[i].id = o
  \/ \E v \in overlays : v.id = o

Known == \A o \in Orders : Held(o) => order[o] # None

\* Order o is of page n; of its round e.
Of(o, n) == order[o] # None /\ order[o].page = n
OfRound(o, n, e) == Of(o, n) /\ order[o].epoch = e

\* The page has not got to its form yet.
Early(p) == p.at \in {"new", "extras", "restore", "quotes"}

\* No two orders of one round are held.
OneHeld ==
  \A o, x \in Orders : \A n \in Mounts : \A e \in Nat :
    Held(o) /\ Held(x) /\ OfRound(o, n, e) /\ OfRound(x, n, e) => o = x

\* A page that has no order, or a create under way, has none of its present round that
\* is held.
RoundOK(n) ==
  /\ \A o \in Orders : Held(o) /\ OfRound(o, n, page[n].epoch) =>
       /\ page[n].create # None => page[n].create.epoch # page[n].epoch
       /\ n = current => page[n].txn = o
  /\ Early(page[n]) => page[n].create = None /\ \A o \in Orders : ~ Of(o, n)
  /\ page[n].at # "gone" =>
       /\ \A o \in Orders : Of(o, n) => order[o].epoch <= page[n].epoch
       /\ page[n].create # None => page[n].create.epoch <= page[n].epoch
  /\ page[n].at \in {"new", "gone"} => page[n].create = None /\ n # current
  /\ page[n].at \in {"restore", "quotes"} => page[n].wanted # None
  /\ page[n].txn # None =>
       /\ n = current
       /\ Of(page[n].txn, n) => /\ order[page[n].txn].epoch = page[n].epoch
                                /\ order[page[n].txn].cart = cart

Rounds == OneHeld /\ \A n \in Mounts : RoundOK(n)

ShopInv == ShopTypeOK /\ Known /\ Rounds

LEMMA Typed ==
  ASSUME ShopTypeOK
  PROVE  /\ \A n \in Mounts : page[n] \in Page
         /\ \A i \in Calls : call[i] \in Call
         /\ \A o \in Orders : order[o] # None => order[o] \in Order
         /\ CallsOK(call)
BY DEF ShopTypeOK, CallsOK

-----------------------------------------------------------------------------
(* Steps that make no order and begin no create. *)

\* What becomes of page n.
PageCalm(n) ==
  LET p == page[n]
      q == page'[n] IN
    /\ q \in Page
    /\ Early(q) => Early(p)
    /\ q.wanted \in {p.wanted, None, store.pending}
    /\ p.at = "gone" => q.at = "gone"
    /\ q.at \in {"new", "gone"} => q.create = None /\ n # current'
    /\ q.at \in {"restore", "quotes"} => q.wanted # None
    /\ q.at \notin {"new", "gone"} =>
         q.create \in {None, p.create} /\ q.epoch \in {p.epoch, p.epoch + 1}
    /\ n = current' => n = current \/ Early(p)
    /\ q.txn \in {None, p.txn} \/ (Early(p) /\ q.txn = p.wanted)
    /\ n = current' => \/ q.epoch = p.epoch + 1 /\ q.txn = None
                       \/ q.epoch = p.epoch /\ (q.txn = p.txn \/ Early(p))
    /\ n # current' \/ cart' # cart => q.txn = None

SameOrder(o) ==
  /\ (order'[o] = None) <=> (order[o] = None)
  /\ order[o] # None => /\ order'[o].page = order[o].page /\ order'[o].epoch = order[o].epoch
                        /\ order'[o].cart = order[o].cart

SameOrders == \A o \in Orders : SameOrder(o)

\* An order of page n is as it was, or new and not held.
OrderCalm(n, o) ==
  \/ SameOrder(o) /\ (Held(o)' => Held(o))
  \/ /\ ~ Held(o)' /\ ~ Early(page[n]) /\ order'[o].epoch \in Nat
     /\ page[n].at # "gone" => order'[o].epoch <= page[n].epoch

LEMMA CalmRound ==
  ASSUME ShopInv, NEW n \in Mounts, PageCalm(n), \A o \in Orders : Of(o, n)' => OrderCalm(n, o)
  PROVE  RoundOK(n)'
<1> DEFINE p == page[n]
           q == page'[n]
<1>0. /\ RoundOK(n) /\ PageCalm(n) /\ p \in Page /\ q \in Page
      /\ p.epoch \in Nat /\ q.epoch \in Nat
      /\ q.create # None => q.create.epoch \in Nat
  BY Typed DEF ShopInv, Rounds, PageCalm, Page, Create
<1>1. ASSUME NEW o \in Orders, Of(o, n)', SameOrder(o)
      PROVE  /\ Of(o, n) /\ order[o].epoch \in Nat
             /\ order'[o].epoch = order[o].epoch /\ order'[o].cart = order[o].cart
  BY <1>1, Typed DEF SameOrder, Of, ShopInv, Order
<1>2. ASSUME NEW o \in Orders, Held(o)', OfRound(o, n, page[n].epoch)'
      PROVE  /\ q.create # None => q.create.epoch # q.epoch
             /\ n = current' => q.txn = o
  <2>1. Of(o, n)' /\ order'[o].epoch = q.epoch
    BY <1>2 DEF OfRound
  <2>2. SameOrder(o) /\ Held(o)
    BY <1>2, <2>1 DEF OrderCalm
  <2>3. Of(o, n) /\ order[o].epoch = q.epoch
    BY <1>1, <2>1, <2>2
  <2>4. ~ Early(p)
    BY <1>0, <2>3 DEF RoundOK
  <2>5. q.at # "new"
    BY <1>0, <2>4 DEF PageCalm, Early
  <2>6. CASE q.epoch = p.epoch
    <3>1. OfRound(o, n, page[n].epoch)
      BY <2>3, <2>6 DEF OfRound
    <3> QED
      BY <1>0, <2>2, <2>4, <2>5, <2>6, <3>1 DEF RoundOK, PageCalm
  <2>7. CASE q.epoch # p.epoch
    <3>1. q.at = "gone" \/ (p.at # "gone" /\ q.epoch = p.epoch + 1)
      BY <1>0, <2>5, <2>7 DEF PageCalm
    <3>2. q.at = "gone"
      BY <1>0, <2>3, <3>1 DEF RoundOK
    <3> QED
      BY <1>0, <3>2 DEF PageCalm
  <2> QED
    BY <2>6, <2>7
<1>3. Early(q) => q.create = None /\ \A o \in Orders : ~ Of(o, n)'
  <2>1. Early(q) => Early(p) /\ q.create = None
    BY <1>0 DEF RoundOK, PageCalm, Early
  <2>2. Early(p) => \A o \in Orders : ~ Of(o, n)'
    BY <1>0, <1>1 DEF RoundOK, OrderCalm
  <2> QED
    BY <2>1, <2>2
<1>4. q.at \in {"new", "gone"} => q.create = None /\ n # current'
  BY <1>0 DEF PageCalm
<1>5. ASSUME q.at # "gone"
      PROVE  /\ \A o \in Orders : Of(o, n)' => order'[o].epoch <= q.epoch
             /\ q.create # None => q.create.epoch <= q.epoch
  <2>1. CASE q.at = "new"
    BY <1>3, <1>4, <2>1 DEF Early
  <2>2. CASE q.at # "new"
    <3>1. p.at # "gone" /\ q.create \in {None, p.create} /\ p.epoch <= q.epoch
      BY <1>0, <1>5, <2>2 DEF PageCalm
    <3>2. ASSUME NEW o \in Orders, Of(o, n)' PROVE order'[o].epoch <= q.epoch
      <4>1. OrderCalm(n, o)
        BY <3>2
      <4>2. CASE SameOrder(o)
        BY <1>0, <1>1, <3>1, <3>2, <4>2 DEF RoundOK
      <4>3. CASE order'[o].epoch \in Nat /\ (p.at # "gone" => order'[o].epoch <= p.epoch)
        BY <1>0, <3>1, <4>3
      <4> QED
        BY <4>1, <4>2, <4>3 DEF OrderCalm
    <3>3. q.create # None => q.create.epoch <= q.epoch
      BY <1>0, <3>1 DEF RoundOK
    <3> QED
      BY <3>2, <3>3
  <2> QED
    BY <2>1, <2>2
<1>6. ASSUME q.txn # None
      PROVE  /\ n = current'
             /\ Of(page[n].txn, n)' => order'[q.txn].epoch = q.epoch /\ order'[q.txn].cart = cart'
  <2>1. n = current' /\ cart' = cart /\ q.txn \in Orders
    BY <1>0, <1>6 DEF PageCalm, Page
  <2>2. ASSUME Of(page[n].txn, n)'
        PROVE  order'[q.txn].epoch = q.epoch /\ order'[q.txn].cart = cart'
    <3>1. Held(page[n].txn)'
      BY DEF Held
    <3>2. SameOrder(q.txn)
      BY <2>1, <2>2, <3>1 DEF OrderCalm
    <3>3. Of(q.txn, n) /\ order'[q.txn].epoch = order[q.txn].epoch
          /\ order'[q.txn].cart = order[q.txn].cart
      BY <1>1, <2>1, <2>2, <3>2
    <3>4. ~ Early(p)
      BY <1>0, <2>1, <3>3 DEF RoundOK
    <3>5. q.txn = p.txn /\ q.epoch = p.epoch
      BY <1>0, <1>6, <2>1, <3>4 DEF PageCalm
    <3> QED
      BY <1>0, <1>6, <2>1, <3>3, <3>5 DEF RoundOK
  <2> QED
    BY <2>1, <2>2
<1>7. q.at \in {"restore", "quotes"} => q.wanted # None
  BY <1>0 DEF PageCalm
<1> QED
  BY <1>2, <1>3, <1>4, <1>5, <1>6, <1>7 DEF RoundOK, Early

LEMMA CalmOrders ==
  ASSUME ShopInv, \A o \in Orders : Held(o)' => Held(o) /\ SameOrder(o)
  PROVE  Known' /\ OneHeld'
<1>1. Known'
  BY DEF ShopInv, Known, SameOrder
<1>2. \A o \in Orders : \A n \in Mounts : \A e \in Nat :
        Held(o)' /\ OfRound(o, n, e)' => Held(o) /\ OfRound(o, n, e)
  BY DEF SameOrder, OfRound, Of
<1>3. OneHeld'
  <2> SUFFICES ASSUME NEW o \in Orders, NEW x \in Orders, NEW n \in Mounts, NEW e \in Nat,
                      Held(o)', Held(x)', OfRound(o, n, e)', OfRound(x, n, e)'
               PROVE  o = x
    BY DEF OneHeld
  <2>1. OneHeld /\ Held(o) /\ Held(x) /\ OfRound(o, n, e) /\ OfRound(x, n, e)
    BY <1>2 DEF ShopInv, Rounds
  <2> QED
    BY <2>1 DEF OneHeld
<1> QED
  BY <1>1, <1>3

LEMMA CalmStep ==
  ASSUME ShopInv, SameOrders, \A n \in Mounts : PageCalm(n), \A o \in Orders : Held(o)' => Held(o)
  PROVE  Known' /\ Rounds'
<1>1. Known' /\ OneHeld'
  BY CalmOrders DEF SameOrders
<1>2. \A n \in Mounts : RoundOK(n)'
  BY CalmRound DEF SameOrders, OrderCalm
<1> QED
  BY <1>1, <1>2 DEF Rounds

\* The page has p and is to have q.
Turns(p, q) ==
  /\ q \in Page
  /\ Early(q) => Early(p)
  /\ q.wanted \in {p.wanted, None, store.pending}
  /\ (q.at = "gone") <=> (p.at = "gone")
  /\ q.at = "new" => p.at = "new" /\ q.txn = p.txn
  /\ q.at \in {"restore", "quotes"} => q.wanted # None
  /\ q.create \in {None, p.create}
  /\ \/ q.epoch = p.epoch + 1 /\ q.txn = None
     \/ q.epoch = p.epoch /\ (q.txn = p.txn \/ (Early(p) /\ q.txn \in {None, p.wanted}))

LEMMA Unturned == ASSUME ShopInv, NEW n \in Mounts PROVE Turns(page[n], page[n])
BY Typed DEF Turns, ShopInv, Rounds, RoundOK

LEMMA TurnIsCalm ==
  ASSUME ShopInv, NEW n \in Mounts, NEW q, Turns(page[n], q), current' \in {current, None},
         \/ n = current' /\ page'[n] = q
         \/ n # current /\ n # current' /\ page'[n] = page[n]
         \/ n # current' /\ page'[n] = Ghost(q)
         \/ n # current' /\ q.at = "new" /\ page'[n] = q,
         cart' # cart /\ n = current' => q.txn = None
  PROVE  PageCalm(n)
<1>0. RoundOK(n) /\ page[n] \in Page /\ q \in Page /\ page[n].epoch \in Nat /\ n # None
  BY Typed, ShopAssumption DEF ShopInv, Rounds, Turns, Page
<1>1. CASE n = current' /\ page'[n] = q
  <2>1. n = current
    BY <1>0, <1>1
  <2>2. page[n].at \notin {"new", "gone"}
    BY <1>0, <2>1 DEF RoundOK
  <2> QED
    BY <1>0, <1>1, <2>1, <2>2 DEF PageCalm, Turns
<1>2. CASE n # current /\ n # current' /\ page'[n] = page[n]
  BY <1>0, <1>2 DEF PageCalm, RoundOK
<1>3. CASE n # current' /\ page'[n] = Ghost(q)
  <2> DEFINE g == Ghost(q)
  <2>1. /\ g \in Page /\ g.txn = None /\ g.wanted \in {q.wanted, None}
        /\ \/ g.at = "gone" /\ g.create = None
           \/ /\ g.at = q.at /\ g.create = q.create /\ g.epoch = q.epoch
              /\ g.wanted = q.wanted
    BY <1>0, GhostFields
  <2>2. CASE g.at = "gone" /\ g.create = None
    BY <1>0, <1>3, <2>1, <2>2 DEF PageCalm, Turns, Early
  <2>3. CASE g.at = q.at /\ g.create = q.create /\ g.epoch = q.epoch /\ g.wanted = q.wanted
    BY <1>0, <1>3, <2>1, <2>3 DEF PageCalm, Turns, Early, RoundOK
  <2> QED
    BY <2>1, <2>2, <2>3
<1>4. CASE n # current' /\ q.at = "new" /\ page'[n] = q
  BY <1>0, <1>4 DEF PageCalm, RoundOK, Turns
<1> QED
  BY <1>1, <1>2, <1>3, <1>4

LEMMA PagesTurn ==
  ASSUME ShopInv, NEW pages \in [Mounts -> Page], PagesBecome(pages),
         current' \in {current, None}, \A n \in Mounts : Turns(page[n], pages[n]),
         \A n \in Mounts : cart' # cart /\ n = current' => pages[n].txn = None
  PROVE  page' \in [Mounts -> Page] /\ \A n \in Mounts : PageCalm(n)
<1>1. page' \in [Mounts -> Page]
  BY PagesAfter
<1>2. ASSUME NEW n \in Mounts PROVE PageCalm(n)
  <2>1. CASE n = current' /\ page'[n] = pages[n]
    BY <2>1, TurnIsCalm
  <2>2. CASE n # current' /\ pages[n].at = "new" /\ page'[n] = pages[n]
    BY <2>2, TurnIsCalm
  <2>3. CASE n # current' /\ page'[n] = Ghost(pages[n])
    BY <2>3, TurnIsCalm
  <2> QED
    BY <2>1, <2>2, <2>3, PagesAfter
<1> QED
  BY <1>1, <1>2

\* One page turns.
LEMMA PageTurns ==
  ASSUME ShopInv, NEW n \in Mounts, NEW q, PageBecomes(n, q), Turns(page[n], q),
         current' \in {current, None}, cart' = cart
  PROVE  page' \in [Mounts -> Page] /\ \A m \in Mounts : PageCalm(m)
<1> DEFINE pages == [page EXCEPT ![n] = q]
<1>1. pages \in [Mounts -> Page] /\ \A m \in Mounts : pages[m] = IF m = n THEN q ELSE page[m]
  BY DEF ShopInv, ShopTypeOK, Turns
<1>2. \A m \in Mounts : Turns(page[m], pages[m])
  BY <1>1, Unturned
<1> QED
  BY <1>1, <1>2, PagesTurn DEF PageBecomes

LEMMA PagesStay ==
  ASSUME ShopInv, UNCHANGED <<page, current, cart>>
  PROVE  page' \in [Mounts -> Page] /\ \A n \in Mounts : PageCalm(n)
<1>1. ASSUME NEW n \in Mounts PROVE PageCalm(n)
  <2>1. CASE n = current
    BY <2>1, Unturned, TurnIsCalm
  <2>2. CASE n # current
    BY <2>2, Unturned, TurnIsCalm
  <2> QED
    BY <2>1, <2>2
<1> QED
  BY <1>1 DEF ShopInv, ShopTypeOK

Store == [step : {"product", "payment"}, pending : Orders \cup {None},
          cart : Carts \cup {None}, draft : Cities \cup {None}]

LEMMA InvalidatedTurns ==
  ASSUME ShopInv, NEW n \in Mounts, n = current
  PROVE  Turns(page[n], Invalidated(page[n])) /\ Invalidated(page[n]).txn = None
<1>1. page[n] \in Page /\ page[n].at # "new"
  BY Typed DEF ShopInv, Rounds, RoundOK
<1> DEFINE q == [page[n] EXCEPT !.txn = None, !.epoch = @ + 1]
<1>2. /\ q \in Page /\ q.txn = None /\ q.epoch = page[n].epoch + 1 /\ q.at = page[n].at
      /\ q.create = page[n].create /\ q.wanted = page[n].wanted
  <2>1. /\ q.txn = None /\ q.epoch = page[n].epoch + 1 /\ q.at = page[n].at
        /\ q.create = page[n].create /\ q.wanted = page[n].wanted
        /\ q.city = page[n].city /\ q.quote = page[n].quote /\ q.loads = page[n].loads
        /\ q.awaits = page[n].awaits
    BY <1>1 DEF Page
  <2>2. page[n].epoch + 1 \in Nat
    BY <1>1 DEF Page
  <2>3. q \in Page
    BY <1>1, <2>2 DEF Page
  <2> QED
    BY <2>1, <2>3
<1> QED
  BY <1>1, <1>2 DEF Invalidated, Turns, Early, ShopInv, Rounds, RoundOK

LEMMA WithoutPendingIsAStore ==
  ASSUME NEW s \in Store, NEW t,
         t = WithoutPending(s) \/ t = [WithoutPending(s) EXCEPT !.draft = None]
  PROVE  t \in Store /\ t.pending = None
BY DEF WithoutPending, Store

LEMMA CartTurns ==
  ASSUME ShopInv, NEW c \in Carts \cup {None}, NEW s \in Store, CartBecomes(c, s),
         current' \in {current, None}
  PROVE  /\ cart' = c /\ store' \in Store /\ store'.pending \in {s.pending, None}
         /\ page' \in [Mounts -> Page] /\ \A n \in Mounts : PageCalm(n)
<1>0. current \in Mounts \cup {None} /\ page \in [Mounts -> Page] /\ cart' = c
  BY DEF ShopInv, ShopTypeOK, CartBecomes
<1>1. CASE current # None /\ c # cart
  <2> DEFINE pages == [page EXCEPT ![current] = Invalidated(page[current])]
  <2>1. PagesBecome(pages) /\ store' = [WithoutPending(s) EXCEPT !.draft = None]
    BY <1>0, <1>1 DEF CartBecomes
  <2>2. store' \in Store /\ store'.pending = None
    BY <2>1, WithoutPendingIsAStore
  <2>3. current \in Mounts /\ Turns(page[current], Invalidated(page[current]))
        /\ Invalidated(page[current]).txn = None
    BY <1>0, <1>1, InvalidatedTurns
  <2>4. /\ pages \in [Mounts -> Page]
        /\ \A m \in Mounts : pages[m] = IF m = current THEN Invalidated(page[current]) ELSE page[m]
    BY <1>0, <2>3 DEF Turns
  <2>5. \A m \in Mounts : Turns(page[m], pages[m])
    BY <2>3, <2>4, Unturned
  <2>6. \A m \in Mounts : cart' # cart /\ m = current' => pages[m].txn = None
    BY <2>3, <2>4, ShopAssumption
  <2> QED
    BY <1>0, <2>1, <2>2, <2>4, <2>5, <2>6, PagesTurn
<1>2. CASE ~ (current # None /\ c # cart)
  <2>1. PagesBecome(page) /\ store' = s
    BY <1>2 DEF CartBecomes
  <2>2. \A m \in Mounts : Turns(page[m], page[m])
    BY Unturned
  <2>3. \A m \in Mounts : cart' # cart /\ m = current' => page[m].txn = None
    BY <1>0, <1>2, ShopAssumption
  <2> QED
    BY <1>0, <2>1, <2>2, <2>3, PagesTurn
<1> QED
  BY <1>1, <1>2

LEMMA CartStaysCalm ==
  ASSUME ShopInv, CartStays, current' \in {current, None}
  PROVE  page' \in [Mounts -> Page] /\ \A n \in Mounts : PageCalm(n)
<1>1. page \in [Mounts -> Page] /\ PagesBecome(page) /\ cart' = cart
  BY DEF ShopInv, ShopTypeOK, CartStays
<1> QED
  BY <1>1, Unturned, PagesTurn

-----------------------------------------------------------------------------
(* A step that holds no order that was not held. *)

Overlays == SUBSET [id : Orders, shown : Shown]

RestOK ==
  /\ cart \in Carts \cup {None} /\ current \in Mounts \cup {None} /\ results \subseteq Orders
  /\ script \in {"absent", "loading", "ready", "failed"} /\ edits \in Nat

StoreCalm == store' \in Store /\ (store'.pending # None => Held(store'.pending))

OrdersCalm ==
  /\ order' \in [Orders -> Order \cup {None}] /\ SameOrders
  /\ \A o \in Orders :
       order'[o] # None /\ order'[o].status \in {"charging", "approved"} => Held(o)

PagesCalm == page' \in [Mounts -> Page] /\ \A n \in Mounts : PageCalm(n)

\* Calls that hold nothing new.
CallsQuiet(calls) ==
  CallsOK(calls) /\ \A i \in Calls : calls[i].pc \notin {"idle", "create"} => Held(calls[i].id)

CallsCalm ==
  CallsOK(call)' /\ \A i \in Calls : call'[i].pc \notin {"idle", "create"} => Held(call'[i].id)

OverlaysCalm == overlays' \in Overlays /\ \A v \in overlays' : Held(v.id)

LEMMA CalmHolds ==
  ASSUME ShopInv, StoreCalm, OrdersCalm, PagesCalm, CallsCalm, OverlaysCalm,
         NEW o \in Orders, Held(o)'
  PROVE  Held(o)
<1>0. o # None
  BY ShopAssumption
<1>1. ASSUME NEW n \in Mounts, page'[n].txn = o \/ page'[n].wanted = o PROVE Held(o)
  BY <1>0, <1>1 DEF PagesCalm, PageCalm, Held
<1> QED
  BY <1>0, <1>1 DEF Held, StoreCalm, OrdersCalm, CallsCalm, OverlaysCalm

LEMMA Calm ==
  ASSUME ShopInv, RestOK', StoreCalm, OrdersCalm, PagesCalm, CallsCalm, OverlaysCalm
  PROVE  ShopInv'
<1>1. ShopTypeOK'
  BY DEF ShopTypeOK, RestOK, StoreCalm, OrdersCalm, PagesCalm, CallsCalm, OverlaysCalm,
         CallsOK, Store, Overlays
<1>2. \A o \in Orders : Held(o)' => Held(o)
  BY CalmHolds
<1> QED
  BY <1>1, <1>2, CalmStep DEF ShopInv, OrdersCalm, PagesCalm

LEMMA RestStays ==
  ASSUME ShopInv
  PROVE  /\ RestOK /\ store \in Store /\ overlays \in Overlays
         /\ store' = store => StoreCalm
         /\ order' = order => OrdersCalm
         /\ overlays' \in SUBSET overlays => OverlaysCalm
<1>1. RestOK /\ store \in Store /\ overlays \in Overlays
  BY DEF ShopInv, ShopTypeOK, RestOK, Store, Overlays
<1>2. store' = store => StoreCalm
  BY <1>1 DEF StoreCalm, Held
<1>3. order' = order => OrdersCalm
  BY DEF OrdersCalm, Held, SameOrders, SameOrder, ShopInv, ShopTypeOK
<1>4. overlays' \in SUBSET overlays => OverlaysCalm
  BY <1>1 DEF OverlaysCalm, Overlays, Held
<1> QED
  BY <1>1, <1>2, <1>3, <1>4

-----------------------------------------------------------------------------
(* Calls. *)

LEMMA CallsQuietly ==
  ASSUME NEW calls, CallsQuiet(calls), CallsBecome(calls)
  PROVE  CallsCalm
BY CallsAfter DEF CallsQuiet, CallsCalm

LEMMA CallsAsTheyAre ==
  ASSUME ShopInv
  PROVE  /\ CallsQuiet(call)
         /\ CallsStay => CallsCalm
         /\ call' = call => CallsCalm
<1>1. CallsQuiet(call)
  BY Typed DEF ShopInv, CallsQuiet, Held
<1>2. CallsStay => CallsCalm
  BY <1>1, CallsQuietly DEF CallsStay
<1>3. call' = call => CallsCalm
  BY <1>1 DEF CallsCalm, CallsQuiet, CallsOK
<1> QED
  BY <1>1, <1>2, <1>3

LEMMA NoCallIsACall == NoCall \in Call /\ NoCall.pc = "idle"
BY DEF NoCall, Call

LEMMA OneCallBecomes ==
  ASSUME ShopInv, NEW i \in Calls, NEW c \in Call, CallsBecome([call EXCEPT ![i] = c]),
         c.pc # "idle" => c.page \in Mounts /\ c.shown \in Shown,
         c.pc \notin {"idle", "create"} => c.id \in Orders /\ Held(c.id)
  PROVE  CallsCalm
<1> DEFINE calls == [call EXCEPT ![i] = c]
<1>1. calls \in [Calls -> Call] /\ \A j \in Calls : calls[j] = IF j = i THEN c ELSE call[j]
  BY DEF ShopInv, ShopTypeOK
<1>2. CallsQuiet(calls)
  BY <1>1, CallsAsTheyAre DEF CallsQuiet, CallsOK
<1> QED
  BY <1>2, CallsQuietly

LEMMA CallEnds ==
  ASSUME ShopInv, NEW i \in Calls, Ends(i)
  PROVE  CallsCalm
BY NoCallIsACall, OneCallBecomes DEF Ends

LEMMA SomeCallsEnd ==
  ASSUME ShopInv, NEW S, CallsBecome([i \in Calls |-> IF i \in S THEN NoCall ELSE call[i]])
  PROVE  CallsCalm
<1> DEFINE calls == [i \in Calls |-> IF i \in S THEN NoCall ELSE call[i]]
<1>1. calls \in [Calls -> Call] /\ \A j \in Calls : calls[j] = IF j \in S THEN NoCall ELSE call[j]
  BY NoCallIsACall DEF ShopInv, ShopTypeOK
<1>2. CallsQuiet(calls)
  BY <1>1, NoCallIsACall, CallsAsTheyAre DEF CallsQuiet, CallsOK
<1> QED
  BY <1>2, CallsQuietly

-----------------------------------------------------------------------------
(* The shopper's steps. *)

LEMMA EditCartKeeps ==
  ASSUME ShopInv, NEW c \in Carts \cup {None}, EditCart(c)
  PROVE  ShopInv'
<1>1. /\ cart' = c /\ store' \in Store /\ store'.pending \in {store.pending, None}
      /\ page' \in [Mounts -> Page] /\ \A n \in Mounts : PageCalm(n)
  BY CartTurns, RestStays DEF EditCart
<1>2. RestOK' /\ edits' \in Nat
  BY <1>1, RestStays DEF EditCart, Edit, RestOK
<1>3. StoreCalm
  BY <1>1 DEF StoreCalm, Held
<1> QED
  BY <1>1, <1>2, <1>3, RestStays, CallsAsTheyAre, Calm DEF EditCart, PagesCalm

LEMMA LeaveCheckoutKeeps ==
  ASSUME ShopInv, LeaveCheckout
  PROVE  ShopInv'
<1>1. PagesCalm
  BY CartStaysCalm DEF LeaveCheckout, PagesCalm
<1>2. RestOK'
  BY RestStays DEF LeaveCheckout, CartStays, RestOK
<1> QED
  BY <1>1, <1>2, RestStays, CallsAsTheyAre, Calm DEF LeaveCheckout, CartStays

LEMMA OpenResultKeeps ==
  ASSUME ShopInv, NEW o \in Orders, OpenResult(o)
  PROVE  ShopInv'
<1>1. PagesCalm
  BY CartStaysCalm DEF OpenResult, PagesCalm
<1>2. RestOK'
  BY RestStays DEF OpenResult, CartStays, RestOK
<1> QED
  BY <1>1, <1>2, RestStays, CallsAsTheyAre, Calm DEF OpenResult, CartStays

LEMMA OpenCheckoutKeeps ==
  ASSUME ShopInv, OpenCheckout
  PROVE  ShopInv'
<1>0. NewMount \in Unused /\ NewMount \in Mounts /\ page[NewMount].at = "new"
  BY DEF OpenCheckout, NewMount, Unused
<1> DEFINE q == [page[NewMount] EXCEPT !.at = "extras"]
<1>1. /\ \A n \in Mounts : page'[n] = IF n = NewMount THEN q ELSE page[n]
      /\ page \in [Mounts -> Page] /\ page' = [page EXCEPT ![NewMount] = q]
  BY <1>0 DEF OpenCheckout, ShopInv, ShopTypeOK
<1>2. /\ q.at = "extras" /\ q.txn = page[NewMount].txn /\ q.create = page[NewMount].create
      /\ q.wanted = page[NewMount].wanted /\ q.epoch = page[NewMount].epoch
  BY <1>0, <1>1 DEF Page
<1>3. q \in Page
  BY <1>0, <1>1 DEF Page
<1>4. RoundOK(NewMount) /\ current = None /\ current' = NewMount /\ cart' = cart
  BY <1>0 DEF OpenCheckout, ShopInv, Rounds
<1>5. PageCalm(NewMount)
  <2>1. page'[NewMount] = q /\ page[NewMount].txn = None
    BY <1>0, <1>1, <1>4 DEF RoundOK
  <2> QED
    BY <1>0, <1>2, <1>3, <1>4, <2>1 DEF PageCalm, RoundOK, Early
<1>6. ASSUME NEW n \in Mounts, n # NewMount PROVE PageCalm(n)
  <2>1. /\ page'[n] = page[n] /\ RoundOK(n) /\ n # current /\ n # current' /\ page[n] \in Page
    BY <1>1, <1>4, <1>6, ShopAssumption DEF ShopInv, Rounds
  <2> QED
    BY <2>1, <1>4 DEF PageCalm, RoundOK
<1>7. PagesCalm
  BY <1>0, <1>1, <1>3, <1>5, <1>6 DEF PagesCalm
<1>8. RestOK'
  BY <1>0, RestStays DEF OpenCheckout, RestOK
<1> QED
  BY <1>7, <1>8, RestStays, CallsAsTheyAre, Calm DEF OpenCheckout

LEMMA ReloadKeeps ==
  ASSUME ShopInv, Reload
  PROVE  ShopInv'
<1> DEFINE gone == [NoPage EXCEPT !.at = "gone"]
<1>1. page' \in [Mounts -> Page]
      /\ \A n \in Mounts : page'[n] = IF page[n].at = "new" THEN NoPage ELSE gone
  BY NoPageIsAPage, GonePage DEF Reload
<1>2. ASSUME NEW n \in Mounts PROVE PageCalm(n)
  <2>1. RoundOK(n) /\ page[n] \in Page /\ n # current' /\ n # None
    BY Typed, ShopAssumption DEF Reload, ShopInv, Rounds
  <2>2. CASE page[n].at = "new"
    BY <1>1, <2>1, <2>2, NoPageIsAPage DEF PageCalm, Early
  <2>3. CASE page[n].at # "new"
    BY <1>1, <2>1, <2>3, GonePage DEF PageCalm, Early
  <2> QED
    BY <2>2, <2>3
<1>3. CallsCalm
  BY NoCallIsACall DEF CallsCalm, CallsOK, Reload
<1>4. RestOK'
  BY RestStays DEF Reload, RestOK
<1> QED
  BY <1>1, <1>2, <1>3, <1>4, RestStays, Calm DEF Reload, PagesCalm

LEMMA ShownPageTurns ==
  ASSUME ShopInv, NEW n \in Mounts, n = current, NEW q, page' = [page EXCEPT ![n] = q],
         Turns(page[n], q), current' = current, cart' = cart
  PROVE  PagesCalm
<1>1. /\ page' \in [Mounts -> Page]
      /\ \A m \in Mounts : page'[m] = IF m = n THEN q ELSE page[m]
  BY DEF ShopInv, ShopTypeOK, Turns
<1>2. ASSUME NEW m \in Mounts PROVE PageCalm(m)
  <2>1. CASE m = n
    BY <1>1, <2>1, TurnIsCalm
  <2>2. CASE m # n
    BY <1>1, <2>2, Unturned, TurnIsCalm
  <2> QED
    BY <2>1, <2>2
<1> QED
  BY <1>1, <1>2 DEF PagesCalm

\* A page may take in cities, quotes and loads as it likes.
LEMMA FormTurns ==
  ASSUME ShopInv, NEW n \in Mounts, NEW q \in Page,
         q.at = page[n].at, q.txn = page[n].txn, q.create = page[n].create,
         q.epoch = page[n].epoch, q.wanted = page[n].wanted
  PROVE  Turns(page[n], q)
BY Unturned DEF Turns, Early

LEMMA EditFormKeeps ==
  ASSUME ShopInv, NEW n \in Mounts, NEW c \in Cities, EditForm(n, c)
  PROVE  ShopInv'
<1> DEFINE q == [page[n] EXCEPT !.city = c, !.loads = page[n].loads \cup {c}]
<1>1. n = current /\ page[n] \in Page /\ page[n].loads \cup {c} \in SUBSET Cities
  BY Typed DEF EditForm, DetailsShown, Renders, ShopInv, Page
<1>2. page' = [page EXCEPT ![n] = q]
  BY <1>1 DEF EditForm, ShopInv, ShopTypeOK
<1>3. Turns(page[n], q)
  <2>1. /\ q.at = page[n].at /\ q.txn = page[n].txn /\ q.create = page[n].create
        /\ q.epoch = page[n].epoch /\ q.wanted = page[n].wanted
    BY <1>1 DEF Page
  <2>2. q \in Page
    <3> DEFINE r == [page[n] EXCEPT !.loads = page[n].loads \cup {c}]
    <3>1. r \in Page
      BY <1>1 DEF Page
    <3>2. q = [r EXCEPT !.city = c]
      BY <1>1 DEF Page
    <3> HIDE DEF r, q
    <3> QED BY <3>1, <3>2 DEF Page
  <2> QED
    BY <2>1, <2>2, FormTurns
<1>4. PagesCalm
  BY <1>1, <1>2, <1>3, ShownPageTurns DEF EditForm
<1>5. RestOK'
  BY RestStays DEF EditForm, Edit, RestOK
<1> QED
  BY <1>4, <1>5, RestStays, CallsAsTheyAre, Calm DEF EditForm

LEMMA ContinueToPaymentKeeps ==
  ASSUME ShopInv, NEW n \in Mounts, ContinueToPayment(n)
  PROVE  ShopInv'
<1>1. PagesCalm
  BY PagesStay DEF ContinueToPayment, PagesCalm
<1>2. store \in Store /\ page[n].city \in Cities
  BY Typed, RestStays DEF ShopInv, Page
<1>3. store' \in Store /\ store'.pending = store.pending
  BY <1>2 DEF ContinueToPayment, Store
<1>4. StoreCalm
  BY <1>3 DEF StoreCalm, Held
<1>5. RestOK'
  BY RestStays DEF ContinueToPayment, RestOK
<1> QED
  BY <1>1, <1>4, <1>5, RestStays, CallsAsTheyAre, Calm DEF ContinueToPayment

LEMMA EditDetailsKeeps ==
  ASSUME ShopInv, NEW n \in Mounts, EditDetails(n)
  PROVE  ShopInv'
<1>1. n = current
  BY DEF EditDetails, PaymentShown, Renders
<1>2. PagesCalm
  BY <1>1, InvalidatedTurns, ShownPageTurns DEF EditDetails
<1>3. StoreCalm
  BY RestStays, WithoutPendingIsAStore DEF EditDetails, StoreCalm
<1>4. RestOK'
  BY RestStays DEF EditDetails, Edit, RestOK
<1> QED
  BY <1>2, <1>3, <1>4, RestStays, CallsAsTheyAre, Calm DEF EditDetails

-----------------------------------------------------------------------------
(* A page comes up. *)

\* The pages p and q differ at most in their form, and in where they are.
SameRound(p, q) ==
  q \in Page /\ q.txn = p.txn /\ q.create = p.create /\ q.epoch = p.epoch /\ q.wanted = p.wanted

LEMMA AtAndLoads ==
  ASSUME NEW p \in Page, NEW c \in Cities
  PROVE  /\ SameRound(p, Begins(p)) /\ Begins(p).at = "ready"
         /\ \A at \in {"resume", "quotes"} :
              SameRound(p, AwaitQuotes(p, at, c)) /\ AwaitQuotes(p, at, c).at = at
<1>0. /\ p.city \in Cities /\ p.loads \cup {c} \in SUBSET Cities
      /\ p.loads \cup {p.city} \in SUBSET Cities
  BY DEF Page
<1>1. SameRound(p, Begins(p)) /\ Begins(p).at = "ready"
  <2> DEFINE q == [[p EXCEPT !.loads = p.loads \cup {p.city}] EXCEPT !.at = "ready"]
  <2>1. Begins(p) = q
    BY DEF Begins, Load
  <2>2. q.txn = p.txn /\ q.create = p.create /\ q.epoch = p.epoch /\ q.wanted = p.wanted
        /\ q.at = "ready"
    BY DEF Page
  <2>3. q \in Page
    BY <1>0 DEF Page
  <2> QED
    BY <2>1, <2>2, <2>3 DEF SameRound
<1>2. ASSUME NEW at \in {"resume", "quotes"}
      PROVE  SameRound(p, AwaitQuotes(p, at, c)) /\ AwaitQuotes(p, at, c).at = at
  <2> DEFINE q == [[p EXCEPT !.loads = p.loads \cup {c}] EXCEPT !.at = at, !.awaits = c]
  <2>1. AwaitQuotes(p, at, c) = q
    BY DEF AwaitQuotes, Load
  <2>2. q.txn = p.txn /\ q.create = p.create /\ q.epoch = p.epoch /\ q.wanted = p.wanted
        /\ q.at = at
    BY DEF Page
  <2>3. q \in Page
    BY <1>0 DEF Page
  <2> QED
    BY <2>1, <2>2, <2>3 DEF SameRound
<1> QED
  BY <1>1, <1>2

LEMMA AsksFor ==
  ASSUME NEW p \in Page, NEW o \in Orders \cup {None}
  PROVE  LET q == [p EXCEPT !.at = "restore", !.wanted = o] IN
           /\ q \in Page /\ q.at = "restore" /\ q.wanted = o
           /\ q.txn = p.txn /\ q.create = p.create /\ q.epoch = p.epoch
<1> DEFINE q == [p EXCEPT !.at = "restore", !.wanted = o]
<1>1. /\ q.at = "restore" /\ q.wanted = o
      /\ q.txn = p.txn /\ q.create = p.create /\ q.epoch = p.epoch
  BY DEF Page
<1>2. q \in Page
  BY DEF Page
<1> QED
  BY <1>1, <1>2

LEMMA InvalidatedFields ==
  ASSUME NEW p \in Page
  PROVE  LET q == Invalidated(p) IN
           /\ q \in Page /\ q.at = p.at /\ q.txn = None /\ q.epoch = p.epoch + 1
           /\ q.create = p.create /\ q.wanted = p.wanted
<1> DEFINE q == [p EXCEPT !.txn = None, !.epoch = @ + 1]
<1>1. /\ q.at = p.at /\ q.txn = None /\ q.epoch = p.epoch + 1
      /\ q.create = p.create /\ q.wanted = p.wanted
  BY DEF Page
<1>2. p.epoch + 1 \in Nat
  BY DEF Page
<1>3. q \in Page
  BY <1>2 DEF Page
<1> QED
  BY <1>1, <1>3 DEF Invalidated

\* A page that was coming up gets on: in its round, or with a new one.
LEMMA EarlyTurns ==
  ASSUME ShopInv, NEW n \in Mounts, NEW p, NEW q, Early(page[n]), page[n].at # "new",
         p.txn = page[n].txn, p.create = page[n].create, p.epoch = page[n].epoch,
         p.wanted = page[n].wanted,
         SameRound(p, q) \/ SameRound(Invalidated(p), q), p \in Page,
         q.at \in {"resume", "ready"} \/ (q.at = "quotes" /\ p.wanted # None)
  PROVE  Turns(page[n], q)
BY InvalidatedFields DEF Turns, SameRound, Early

LEMMA ExtrasAnsweredKeeps ==
  ASSUME ShopInv, NEW n \in Mounts, ExtrasAnswered(n)
  PROVE  ShopInv'
<1> DEFINE city == IF store.draft = None THEN page[n].city ELSE store.draft
           p == [page[n] EXCEPT !.city = city, !.method = store.draft # None]
           resume == store.draft # None /\ store.step = "payment" /\ cart # None
<1>1. /\ page[n] \in Page /\ page[n].at = "extras" /\ Early(page[n])
      /\ city \in Cities /\ store \in Store
  BY Typed, RestStays DEF ExtrasAnswered, Early, ShopInv, Page, Store
<1>2. SameRound(page[n], p) /\ p.at = "extras" /\ p.city = city
  <2>1. /\ p.txn = page[n].txn /\ p.create = page[n].create /\ p.epoch = page[n].epoch
        /\ p.wanted = page[n].wanted /\ p.at = "extras" /\ p.city = city
    BY <1>1 DEF Page
  <2>2. p \in Page
    BY <1>1 DEF Page
  <2> QED
    BY <2>1, <2>2 DEF SameRound
<1>3. p \in Page /\ Invalidated(p) \in Page
  BY <1>2, InvalidatedFields DEF SameRound
<1>4. RestOK' /\ CallsCalm /\ OrdersCalm /\ OverlaysCalm
  BY RestStays, CallsAsTheyAre DEF ExtrasAnswered, RestOK
<1>5. \/ /\ ~ NothingToResume
         /\ PageBecomes(n, [p EXCEPT !.at = "restore", !.wanted = store.pending])
         /\ store' = store
      \/ PageBecomes(n, Begins(Invalidated(p))) /\ store' = WithoutPending(store)
      \/ PageBecomes(n, AwaitQuotes(p, "resume", p.city)) /\ store' = store
      \/ PageBecomes(n, Begins(p)) /\ store' = [store EXCEPT !.step = "product"]
  BY DEF ExtrasAnswered
<1>6. StoreCalm
  <2>1. LET s == [store EXCEPT !.step = "product"] IN s \in Store /\ s.pending = store.pending
    BY <1>1 DEF Store
  <2>2. WithoutPending(store) \in Store /\ WithoutPending(store).pending = None
    BY <1>1, WithoutPendingIsAStore
  <2> QED
    BY <1>1, <1>5, <2>1, <2>2 DEF StoreCalm, Held
<1>7. PagesCalm
  <2> SUFFICES ASSUME NEW r, PageBecomes(n, r), Turns(page[n], r) PROVE PagesCalm
    <3> DEFINE q == [p EXCEPT !.at = "restore", !.wanted = store.pending]
    <3>1. ASSUME ~ NothingToResume PROVE Turns(page[n], q)
      <4>1. /\ q \in Page /\ q.at = "restore" /\ q.wanted = store.pending /\ q.txn = p.txn
            /\ q.create = p.create /\ q.epoch = p.epoch
        <5>1. store.pending \in Orders \cup {None}
          BY <1>1 DEF Store
        <5>2. p \in Page
          BY <1>3
        <5> HIDE DEF p
        <5> QED
          BY <5>1, <5>2, AsksFor
      <4>3. store.pending # None
        BY <3>1 DEF NothingToResume
      <4> QED
        BY <1>1, <1>2, <4>1, <4>3 DEF Turns, SameRound, Early
    <3>0. /\ page[n].at # "new" /\ p.txn = page[n].txn /\ p.create = page[n].create
          /\ p.epoch = page[n].epoch /\ p.wanted = page[n].wanted
      BY <1>1, <1>2 DEF SameRound
    <3>2. Turns(page[n], Begins(Invalidated(p)))
      <4>1. LET t == Begins(Invalidated(p)) IN SameRound(Invalidated(p), t) /\ t.at = "ready"
        BY <1>1, <1>3, AtAndLoads
      <4> QED
        BY <1>1, <1>3, <3>0, <4>1, EarlyTurns
    <3>3. Turns(page[n], AwaitQuotes(p, "resume", p.city))
      <4>1. LET t == AwaitQuotes(p, "resume", p.city) IN SameRound(p, t) /\ t.at = "resume"
        BY <1>1, <1>2, <1>3, AtAndLoads
      <4> QED
        BY <1>1, <1>3, <3>0, <4>1, EarlyTurns
    <3>4. Turns(page[n], Begins(p))
      <4>1. LET t == Begins(p) IN SameRound(p, t) /\ t.at = "ready"
        BY <1>1, <1>3, AtAndLoads
      <4> QED
        BY <1>1, <1>3, <3>0, <4>1, EarlyTurns
    <3> QED
      BY <1>5, <3>1, <3>2, <3>3, <3>4
  <2>1. current' = current /\ cart' = cart
    BY DEF ExtrasAnswered
  <2> QED
    BY <2>1, PageTurns DEF PagesCalm
<1> QED
  BY <1>4, <1>6, <1>7, Calm

LEMMA RestoreAnsweredKeeps ==
  ASSUME ShopInv, NEW n \in Mounts, RestoreAnswered(n)
  PROVE  ShopInv'
<1> DEFINE o == page[n].wanted
           c == order[o].city
           p == [page[n] EXCEPT !.city = c, !.method = TRUE]
<1>1. /\ page[n] \in Page /\ page[n].at = "restore" /\ Early(page[n])
      /\ o \in Orders /\ Held(o) /\ store \in Store
  BY Typed, RestStays DEF RestoreAnswered, Early, ShopInv, Page, Rounds, RoundOK, Held
<1>2. c \in Cities
  BY <1>1, Typed DEF ShopInv, Known, Order
<1>3. SameRound(page[n], p)
  <2>1. /\ p.txn = page[n].txn /\ p.create = page[n].create /\ p.epoch = page[n].epoch
        /\ p.wanted = page[n].wanted
    BY <1>1 DEF Page
  <2>2. p \in Page
    BY <1>1, <1>2 DEF Page
  <2> QED
    BY <2>1, <2>2 DEF SameRound
<1>4. Turns(page[n], AwaitQuotes(p, "quotes", c))
  <2>1. /\ p.wanted # None /\ p \in Page /\ p.txn = page[n].txn
        /\ p.create = page[n].create /\ p.epoch = page[n].epoch /\ p.wanted = page[n].wanted
    BY <1>1, <1>3, ShopAssumption DEF SameRound
  <2>2. LET q == AwaitQuotes(p, "quotes", c) IN SameRound(p, q) /\ q.at = "quotes"
    BY <1>2, <2>1, AtAndLoads
  <2> QED
    BY <1>1, <2>1, <2>2, EarlyTurns
<1>5. PagesCalm
  BY <1>4, PageTurns DEF RestoreAnswered, PagesCalm
<1>6. StoreCalm
  <2>1. store' = [store EXCEPT !.draft = c]
    BY DEF RestoreAnswered
  <2>2. store' \in Store /\ store'.pending = store.pending
    BY <1>1, <1>2, <2>1 DEF Store
  <2> QED
    BY <2>2 DEF StoreCalm, Held
<1>7. RestOK' /\ CallsCalm /\ OrdersCalm /\ OverlaysCalm
  BY RestStays, CallsAsTheyAre DEF RestoreAnswered, RestOK
<1> QED
  BY <1>5, <1>6, <1>7, Calm

LEMMA ForgetsPendingKeeps ==
  ASSUME ShopInv, NEW n \in Mounts, page[n].at = "restore", ForgetsPending(n)
  PROVE  ShopInv'
<1> DEFINE i == Invalidated(page[n])
           p == [i EXCEPT !.wanted = None]
<1>1. page[n] \in Page /\ Early(page[n])
  BY Typed DEF ShopInv, Early
<1>2. i \in Page /\ i.txn = None /\ i.epoch = page[n].epoch + 1 /\ i.create = page[n].create
  BY <1>1, InvalidatedFields
<1>3. p \in Page /\ p.txn = None /\ p.epoch = page[n].epoch + 1 /\ p.create = page[n].create
      /\ p.wanted = None
  <2>1. p.txn = None /\ p.epoch = page[n].epoch + 1 /\ p.create = page[n].create /\ p.wanted = None
    BY <1>2 DEF Page
  <2>2. p \in Page
    BY <1>2 DEF Page
  <2> QED
    BY <2>1, <2>2
<1>4. Turns(page[n], Begins(p))
  <2>1. SameRound(p, Begins(p)) /\ Begins(p).at = "ready"
    BY <1>3, ShopAssumption, AtAndLoads
  <2> QED
    BY <1>1, <1>3, <2>1 DEF Turns, SameRound, Early
<1>5. PagesCalm
  BY <1>4, PageTurns DEF ForgetsPending, PagesCalm
<1>6. StoreCalm
  BY RestStays, WithoutPendingIsAStore DEF ForgetsPending, StoreCalm
<1>7. RestOK' /\ CallsCalm /\ OrdersCalm /\ OverlaysCalm
  BY RestStays, CallsAsTheyAre DEF ForgetsPending, RestOK
<1> QED
  BY <1>5, <1>6, <1>7, Calm

LEMMA QuotesAnsweredKeeps ==
  ASSUME ShopInv, NEW n \in Mounts, NEW c \in Cities, QuotesAnswered(n, c)
  PROVE  ShopInv'
<1>1. /\ page[n] \in Page /\ page[n].wanted \in Orders \cup {None} /\ store \in Store
      /\ cart \in Carts \cup {None}
  BY Typed, RestStays DEF ShopInv, Page, RestOK
<1>2. RestOK' /\ CallsCalm /\ OrdersCalm /\ OverlaysCalm
  BY RestStays, CallsAsTheyAre DEF QuotesAnswered, RestOK
<1>3. PICK quote \in {c, None} :
        LET p == [page[n] EXCEPT !.loads = @ \ {c}, !.quote = quote, !.method = quote # None]
            done == [p EXCEPT !.at = "ready", !.awaits = None, !.wanted = None] IN
          \/ store' = store /\ PageBecomes(n, p)
          \/ /\ page[n].at = "resume" /\ PageBecomes(n, done)
             /\ store' = [store EXCEPT !.step = "payment"]
          \/ /\ page[n].at = "quotes" /\ PageBecomes(n, [done EXCEPT !.txn = page[n].wanted])
             /\ store' = Remembered(store, page[n].wanted, cart)
  BY DEF QuotesAnswered
<1> DEFINE p == [page[n] EXCEPT !.loads = @ \ {c}, !.quote = quote, !.method = quote # None]
           done == [p EXCEPT !.at = "ready", !.awaits = None, !.wanted = None]
           resumed == [done EXCEPT !.txn = page[n].wanted]
<1>4. /\ p \in Page /\ p.at = page[n].at /\ p.txn = page[n].txn /\ p.create = page[n].create
      /\ p.epoch = page[n].epoch /\ p.wanted = page[n].wanted
  <2>1. /\ p.at = page[n].at /\ p.txn = page[n].txn /\ p.create = page[n].create
        /\ p.epoch = page[n].epoch /\ p.wanted = page[n].wanted
    BY <1>1 DEF Page
  <2>2. p \in Page
    BY <1>1, <1>3 DEF Page
  <2> QED
    BY <2>1, <2>2
<1>5. /\ done \in Page /\ done.at = "ready" /\ done.txn = page[n].txn
      /\ done.create = page[n].create /\ done.epoch = page[n].epoch /\ done.wanted = None
  <2> HIDE DEF p
  <2>1. /\ done.at = "ready" /\ done.txn = p.txn /\ done.create = p.create
        /\ done.epoch = p.epoch /\ done.wanted = None
    BY <1>4 DEF Page
  <2>2. done \in Page
    BY <1>4 DEF Page
  <2> QED
    BY <1>4, <2>1, <2>2
<1>6. /\ resumed \in Page /\ resumed.at = "ready" /\ resumed.txn = page[n].wanted
      /\ resumed.create = page[n].create /\ resumed.epoch = page[n].epoch
      /\ resumed.wanted = None
  <2> HIDE DEF done
  <2>1. /\ resumed.at = done.at /\ resumed.txn = page[n].wanted
        /\ resumed.create = done.create /\ resumed.epoch = done.epoch
        /\ resumed.wanted = done.wanted
    BY <1>5 DEF Page
  <2>2. resumed \in Page
    BY <1>1, <1>5 DEF Page
  <2> QED
    BY <1>5, <2>1, <2>2
<1>7. PagesCalm
  <2>0. current' = current /\ cart' = cart
    BY DEF QuotesAnswered
  <2>1. Turns(page[n], p)
    BY <1>4, FormTurns
  <2>2. page[n].at = "resume" => Turns(page[n], done)
    BY <1>5 DEF Turns, Early
  <2>3. page[n].at = "quotes" => Turns(page[n], resumed)
    BY <1>6 DEF Turns, Early
  <2> HIDE DEF p, done, resumed
  <2>4. \/ PageBecomes(n, p)
        \/ page[n].at = "resume" /\ PageBecomes(n, done)
        \/ page[n].at = "quotes" /\ PageBecomes(n, resumed)
    BY <1>3 DEF p, done, resumed
  <2> QED
    BY <2>0, <2>1, <2>2, <2>3, <2>4, PageTurns DEF PagesCalm
<1>8. StoreCalm
  <2>1. LET s == [store EXCEPT !.step = "payment"] IN s \in Store /\ s.pending = store.pending
    BY <1>1 DEF Store
  <2>2. LET s == Remembered(store, page[n].wanted, cart) IN
          s \in Store /\ s.pending = page[n].wanted
    BY <1>1 DEF Store, Remembered
  <2>3. \/ store' \in {store, [store EXCEPT !.step = "payment"]}
        \/ store' = Remembered(store, page[n].wanted, cart)
    BY <1>3
  <2> QED
    BY <1>1, <2>1, <2>2, <2>3 DEF StoreCalm, Held
<1> QED
  BY <1>2, <1>7, <1>8, Calm

-----------------------------------------------------------------------------
(* Paying. *)

\* A create ends, and leaves the page nothing.
LEMMA CreateEnds ==
  ASSUME ShopInv, NEW n \in Mounts, PageBecomes(n, [page[n] EXCEPT !.create = None]),
         UNCHANGED <<cart, current>>
  PROVE  PagesCalm
<1> DEFINE q == [page[n] EXCEPT !.create = None]
<1>1. page[n] \in Page /\ Turns(page[n], page[n])
  BY Typed, Unturned DEF ShopInv
<1>2. /\ q.create = None /\ q.at = page[n].at /\ q.txn = page[n].txn
      /\ q.epoch = page[n].epoch /\ q.wanted = page[n].wanted
  BY <1>1 DEF Page
<1>3. q \in Page
  BY <1>1 DEF Page
<1>4. PageBecomes(n, q)
  OBVIOUS
<1> HIDE DEF q
<1>5. Turns(page[n], q)
  BY <1>1, <1>2, <1>3 DEF Turns, Early
<1> QED
  BY <1>4, <1>5, PageTurns DEF PagesCalm

LEMMA CreateFailsKeeps ==
  ASSUME ShopInv, NEW n \in Mounts, CreateFails(n)
  PROVE  ShopInv'
<1>1. PagesCalm
  BY CreateEnds DEF CreateFails
<1>2. CallsCalm
  BY SomeCallsEnd DEF CreateFails, WaitersEnd
<1>3. RestOK' /\ StoreCalm /\ OrdersCalm /\ OverlaysCalm
  BY RestStays DEF CreateFails, RestOK
<1> QED
  BY <1>1, <1>2, <1>3, Calm

\* The status of an order changes, and not to that of a charge that nobody held.
LEMMA StatusCalm ==
  ASSUME ShopInv, NEW o \in Orders, order[o] # None,
         NEW st \in {"pending", "charging", "approved", "ended"},
         st \in {"charging", "approved"} => Held(o),
         order' = [order EXCEPT ![o].status = st]
  PROVE  OrdersCalm
<1> DEFINE x == [order[o] EXCEPT !.status = st]
<1>1. order[o] \in Order /\ order \in [Orders -> Order \cup {None}]
  BY Typed DEF ShopInv, ShopTypeOK
<1>2. /\ x.status = st /\ x.cart = order[o].cart /\ x.page = order[o].page
      /\ x.epoch = order[o].epoch
  BY <1>1 DEF Order
<1>3. x \in Order
  BY <1>1 DEF Order
<1>4. x # None
  BY <1>3, RecordAssumption
<1>5. \A y \in Orders : order'[y] = IF y = o THEN x ELSE order[y]
  BY <1>1
<1> HIDE DEF x
<1>6. order' \in [Orders -> Order \cup {None}]
  BY <1>1, <1>3 DEF x
<1>7. SameOrders
  BY <1>2, <1>4, <1>5 DEF SameOrders, SameOrder
<1> QED
  BY <1>2, <1>5, <1>6, <1>7 DEF OrdersCalm, Held

LEMMA ChargedCalm ==
  ASSUME ShopInv, NEW o \in Orders, Held(o), Charged(o)
  PROVE  OrdersCalm
<1> DEFINE st == IF order[o].status = "pending" THEN "charging" ELSE order[o].status
<1>1. order[o] # None /\ order[o] \in Order
  BY Typed DEF ShopInv, Known
<1>2. st \in {"pending", "charging", "approved", "ended"}
  BY <1>1 DEF Order
<1>3. order' = [order EXCEPT ![o].status = st]
  BY DEF Charged
<1> QED
  BY <1>1, <1>2, <1>3, StatusCalm

\* A call goes on with the order it has.
LEMMA CallGoesOn ==
  ASSUME ShopInv, NEW i \in Calls, NEW pc \in {"token", "pay", "session", "script"},
         call[i].pc \notin {"idle", "create"}, CallsBecome([call EXCEPT ![i].pc = pc])
  PROVE  CallsCalm
<1> DEFINE c == [call[i] EXCEPT !.pc = pc]
<1>1. call[i] \in Call /\ call[i].page \in Mounts /\ call[i].shown \in Shown
      /\ call[i].id \in Orders /\ Held(call[i].id)
  BY Typed DEF ShopInv, CallsOK, Held
<1>2. c.pc = pc /\ c.page = call[i].page /\ c.shown = call[i].shown /\ c.id = call[i].id
  BY <1>1 DEF Call
<1>3. c \in Call
  BY <1>1 DEF Call
<1>4. CallsBecome([call EXCEPT ![i] = c])
  OBVIOUS
<1> HIDE DEF c
<1> QED
  BY <1>1, <1>2, <1>3, <1>4, OneCallBecomes

LEMMA TokenAnsweredKeeps ==
  ASSUME ShopInv, NEW i \in Calls, TokenAnswered(i)
  PROVE  ShopInv'
<1>1. call[i].id \in Orders /\ Held(call[i].id)
  BY Typed DEF TokenAnswered, ShopInv, CallsOK, Held
<1>2. OrdersCalm /\ CallsCalm
  <2>1. CASE Ends(i) /\ order' = order
    BY <2>1, RestStays, CallEnds
  <2>2. CASE Charged(call[i].id) /\ CallsBecome([call EXCEPT ![i].pc = "pay"])
    BY <1>1, <2>2, ChargedCalm, CallGoesOn DEF TokenAnswered
  <2> QED
    BY <2>1, <2>2 DEF TokenAnswered
<1>3. PagesCalm
  BY PagesStay DEF TokenAnswered, PagesCalm
<1>4. RestOK' /\ StoreCalm /\ OverlaysCalm
  BY RestStays DEF TokenAnswered, RestOK
<1> QED
  BY <1>2, <1>3, <1>4, Calm

LEMMA FinalizeCalm ==
  ASSUME ShopInv, NEW o \in Orders, Finalize(o), current' \in {current, None}
  PROVE  PagesCalm /\ StoreCalm /\ cart' \in Carts \cup {None}
<1>1. CASE CartBecomes(None, EmptyStore)
  <2>1. EmptyStore \in Store /\ EmptyStore.pending = None
    BY DEF EmptyStore, Store
  <2> QED
    BY <1>1, <2>1, CartTurns DEF PagesCalm, StoreCalm
<1>2. CASE CartStays
  BY <1>2, CartStaysCalm, RestStays DEF CartStays, PagesCalm, RestOK
<1> QED
  BY <1>1, <1>2 DEF Finalize

LEMMA PayAnsweredKeeps ==
  ASSUME ShopInv, NEW i \in Calls, PayAnswered(i)
  PROVE  ShopInv'
<1>1. call[i].id \in Orders
  BY Typed DEF PayAnswered, ShopInv, CallsOK
<1>2. /\ PagesCalm /\ StoreCalm /\ cart' \in Carts \cup {None}
      /\ current' \in {current, None} /\ results' \subseteq Orders
  <2>1. CASE /\ Finalize(call[i].id) /\ current' \in {current, None}
             /\ results' \in {results, results \cup {call[i].id}}
    BY <1>1, <2>1, FinalizeCalm, RestStays DEF RestOK
  <2>2. CASE UNCHANGED <<cart, store, page, current, results>>
    BY <2>2, PagesStay, RestStays DEF RestOK, PagesCalm
  <2> QED
    BY <2>1, <2>2 DEF PayAnswered
<1>3. CallsCalm
  BY CallEnds DEF PayAnswered
<1>4. RestOK' /\ OrdersCalm /\ OverlaysCalm
  BY <1>2, RestStays DEF PayAnswered, RestOK
<1> QED
  BY <1>2, <1>3, <1>4, Calm

LEMMA SessionAnsweredKeeps ==
  ASSUME ShopInv, NEW i \in Calls, SessionAnswered(i)
  PROVE  ShopInv'
<1>1. CallsCalm
  BY CallEnds, CallGoesOn DEF SessionAnswered
<1>2. PagesCalm
  BY PagesStay DEF SessionAnswered, PagesCalm
<1>3. RestOK' /\ StoreCalm /\ OrdersCalm /\ OverlaysCalm
  BY RestStays DEF SessionAnswered, RestOK
<1> QED
  BY <1>1, <1>2, <1>3, Calm

LEMMA ScriptKeeps ==
  ASSUME ShopInv, ScriptLoads \/ ScriptFails
  PROVE  ShopInv'
<1>1. CallsCalm
  <2> DEFINE S == {i \in Calls : call[i].pc = "script"}
  <2>1. ASSUME ScriptFails
        PROVE  CallsBecome([i \in Calls |-> IF i \in S THEN NoCall ELSE call[i]])
    <3>1. [i \in Calls |-> IF call[i].pc = "script" THEN NoCall ELSE call[i]]
            = [i \in Calls |-> IF i \in S THEN NoCall ELSE call[i]]
      OBVIOUS
    <3> QED
      BY <2>1, <3>1 DEF ScriptFails
  <2> QED
    BY <2>1, SomeCallsEnd, CallsAsTheyAre DEF ScriptLoads
<1>2. PagesCalm
  BY PagesStay DEF ScriptLoads, ScriptFails, PagesCalm
<1>3. RestOK' /\ StoreCalm /\ OrdersCalm /\ OverlaysCalm
  BY RestStays DEF ScriptLoads, ScriptFails, RestOK
<1> QED
  BY <1>1, <1>2, <1>3, Calm

LEMMA OverlayOpensKeeps ==
  ASSUME ShopInv, NEW i \in Calls, OverlayOpens(i)
  PROVE  ShopInv'
<1>1. call[i].id \in Orders /\ Held(call[i].id) /\ call[i].shown \in Shown
  BY Typed DEF OverlayOpens, ShopInv, CallsOK, Held
<1>2. OverlaysCalm
  BY <1>1, RestStays DEF OverlayOpens, OverlaysCalm, Overlays, Held
<1>3. PagesCalm
  BY PagesStay DEF OverlayOpens, PagesCalm
<1>4. RestOK' /\ StoreCalm /\ OrdersCalm /\ CallsCalm
  BY RestStays, CallEnds DEF OverlayOpens, RestOK
<1> QED
  BY <1>2, <1>3, <1>4, Calm

LEMMA OverlayPaidKeeps ==
  ASSUME ShopInv, NEW v \in overlays, OverlayPaid(v)
  PROVE  ShopInv'
<1>1. v.id \in Orders /\ Held(v.id)
  BY RestStays DEF Overlays, Held
<1>2. PagesCalm
  BY CartStaysCalm DEF OverlayPaid, PagesCalm
<1>3. OrdersCalm
  BY <1>1, ChargedCalm DEF OverlayPaid
<1>4. RestOK' /\ StoreCalm /\ OverlaysCalm /\ CallsCalm
  BY <1>1, RestStays, CallsAsTheyAre DEF OverlayPaid, CartStays, RestOK
<1> QED
  BY <1>2, <1>3, <1>4, Calm

LEMMA OverlayClosesKeeps ==
  ASSUME ShopInv, NEW v \in overlays, OverlayCloses(v)
  PROVE  ShopInv'
<1>1. PagesCalm
  BY PagesStay DEF OverlayCloses, PagesCalm
<1>2. RestOK' /\ StoreCalm /\ OrdersCalm /\ OverlaysCalm /\ CallsCalm
  BY RestStays, CallsAsTheyAre DEF OverlayCloses, RestOK
<1> QED
  BY <1>1, <1>2, Calm

LEMMA SettlesKeeps ==
  ASSUME ShopInv, NEW o \in Orders, Settles(o)
  PROVE  ShopInv'
<1>1. OrdersCalm
  <2>1. order[o] \in Order /\ order[o] # None
    BY Typed DEF Settles, ShopInv
  <2>2. PICK st \in CASE order[o].status = "charging" -> {"approved", "ended"}
                      [] order[o].status = "pending" -> {"ended"}
                      [] OTHER -> {} :
               order' = [order EXCEPT ![o].status = st]
    BY DEF Settles
  <2>3. /\ st \in {"pending", "charging", "approved", "ended"}
        /\ st \in {"charging", "approved"} => order[o].status = "charging"
    BY <2>1, <2>2 DEF Order
  <2> QED
    BY <2>1, <2>2, <2>3, StatusCalm DEF Held
<1>2. PagesCalm
  BY PagesStay DEF Settles, PagesCalm
<1>3. RestOK' /\ StoreCalm /\ OverlaysCalm /\ CallsCalm
  BY RestStays, CallsAsTheyAre DEF Settles, RestOK
<1> QED
  BY <1>1, <1>2, <1>3, Calm

LEMMA ResultAnsweredKeeps ==
  ASSUME ShopInv, NEW o \in Orders, ResultAnswered(o)
  PROVE  ShopInv'
<1>1. PagesCalm /\ StoreCalm /\ cart' \in Carts \cup {None}
  <2>1. CASE Finalize(o)
    BY <2>1, FinalizeCalm DEF ResultAnswered
  <2>2. CASE CartStays
    BY <2>2, CartStaysCalm, RestStays DEF ResultAnswered, CartStays, RestOK, PagesCalm
  <2> QED
    BY <2>1, <2>2 DEF ResultAnswered
<1>2. RestOK' /\ OrdersCalm /\ OverlaysCalm /\ CallsCalm
  BY <1>1, RestStays, CallsAsTheyAre DEF ResultAnswered, RestOK
<1> QED
  BY <1>1, <1>2, Calm

\* What the page shows at the click.
LEMMA DisplayIsShown ==
  ASSUME ShopInv, NEW n \in Mounts, cart # None
  PROVE  Display(n) \in Shown
<1>1. page[n] \in Page /\ cart \in Carts
  BY Typed, RestStays DEF ShopInv, RestOK
<1>2. CASE page[n].txn # None
  <2>1. page[n].txn \in Orders
    BY <1>1, <1>2 DEF Page
  <2>2. order[page[n].txn] \in Order
    BY <2>1, Typed DEF ShopInv, Known, Held
  <2> QED
    BY <1>2, <2>2 DEF Display, Shown, Order
<1>3. CASE page[n].txn = None
  <2>1. page[n].quote # None => Fee[page[n].quote] \in Nat
    BY <1>1, ShopAssumption DEF Page
  <2>2. (IF page[n].quote = None THEN CartPrice ELSE CartPrice + Fee[page[n].quote]) \in Nat
    BY <2>1, ShopAssumption
  <2> QED
    BY <1>1, <1>3, <2>2 DEF Display, Shown, Total
<1> QED
  BY <1>2, <1>3

\* A call goes on with order o.
LEMMA ProceedsIsACall ==
  ASSUME NEW c \in Call, NEW o \in Orders
  PROVE  /\ Proceeds(c, o) \in Call /\ Proceeds(c, o).pc \in {"token", "session"}
         /\ Proceeds(c, o).id = o /\ Proceeds(c, o).page = c.page
         /\ Proceeds(c, o).shown = c.shown
BY DEF Proceeds, Call

\* A page without an order begins a create: none of its round is held.
LEMMA EnsureCreateKeeps ==
  ASSUME ShopInv, NEW n \in Mounts, n = current, page[n].txn = None, cart # None,
         page[n].at \in {"resume", "ready"},
         page' = [page EXCEPT ![n] = EnsureCreate(@)], CallsCalm,
         UNCHANGED <<cart, store, order, current, results, overlays, script, edits>>
  PROVE  ShopInv'
<1>1. /\ page[n] \in Page /\ RoundOK(n) /\ page \in [Mounts -> Page] /\ cart \in Carts
      /\ RestOK' /\ StoreCalm /\ OrdersCalm /\ OverlaysCalm
  BY Typed, RestStays DEF ShopInv, Rounds, ShopTypeOK, RestOK
<1>2. CASE page[n].create # None
  <2>1. page' = page
    BY <1>1, <1>2 DEF EnsureCreate
  <2> QED
    BY <1>1, <2>1, PagesStay, Calm DEF PagesCalm
<1>3. CASE page[n].create = None
  <2> DEFINE x == [cart |-> cart, city |-> page[n].city, epoch |-> page[n].epoch]
             q == [page[n] EXCEPT !.create = x]
  <2>1. x \in Create /\ x.epoch = page[n].epoch
    BY <1>1 DEF Create, Page
  <2>2. /\ q \in Page /\ q.at = page[n].at /\ q.txn = None /\ q.create = x
        /\ q.epoch = page[n].epoch /\ q.wanted = page[n].wanted
    <3> HIDE DEF x
    <3>1. /\ q.at = page[n].at /\ q.txn = page[n].txn /\ q.create = x
          /\ q.epoch = page[n].epoch /\ q.wanted = page[n].wanted
      BY <1>1 DEF Page
    <3>2. q \in Page
      BY <1>1, <2>1 DEF Page
    <3> QED
      BY <3>1, <3>2
  <2>3. \A m \in Mounts : page'[m] = IF m = n THEN q ELSE page[m]
    BY <1>1, <1>3 DEF EnsureCreate
  <2>4. page' \in [Mounts -> Page]
    BY <1>1, <1>3, <2>2 DEF EnsureCreate
  <2> HIDE DEF q, x
  <2>5. \A m \in Mounts : page'[m].txn = page[m].txn /\ page'[m].wanted = page[m].wanted
    BY <2>2, <2>3
  <2>6. \A o \in Orders : Held(o)' => Held(o)
    BY <1>1, <2>5, ShopAssumption DEF Held, CallsCalm
  <2>7. Known' /\ OneHeld'
    BY <1>1, <2>6, CalmOrders DEF OrdersCalm, SameOrders
  <2>8. \A o \in Orders : \A m \in Mounts :
          /\ Of(o, m)' <=> Of(o, m)
          /\ \A e \in Nat : OfRound(o, m, e)' <=> OfRound(o, m, e)
    BY DEF Of, OfRound
  <2>9. ASSUME NEW m \in Mounts PROVE RoundOK(m)'
    <3>0. /\ RoundOK(m) /\ page[m].epoch \in Nat /\ page'[m].epoch = page[m].epoch
          /\ order' = order /\ cart' = cart /\ current' = current
      BY <2>2, <2>3, Typed DEF ShopInv, Rounds, Page
    <3>1. CASE m # n
      <4>1. page'[m] = page[m]
        BY <2>3, <3>1
      <4> QED
        BY <2>6, <2>8, <3>0, <4>1 DEF RoundOK
    <3>2. CASE m = n
      <4>1. \A o \in Orders : ~ (Held(o) /\ OfRound(o, n, page[n].epoch))
        BY <1>1, ShopAssumption DEF RoundOK
      <4>2. /\ page'[n] = q /\ ~ Early(q) /\ q.at \notin {"new", "gone", "restore", "quotes"}
            /\ \A o \in Orders : Of(o, n) => order[o].epoch <= page[n].epoch
            /\ x.epoch <= page[n].epoch
        BY <1>1, <2>1, <2>2, <2>3, <3>0, <3>2 DEF RoundOK, Early
      <4> QED
        BY <2>2, <2>6, <2>8, <3>0, <3>2, <4>1, <4>2 DEF RoundOK
    <3> QED
      BY <3>1, <3>2
  <2>10. ShopTypeOK'
    BY <1>1, <2>4 DEF ShopTypeOK, RestOK, StoreCalm, OrdersCalm, CallsCalm, OverlaysCalm,
                      CallsOK, Store, Overlays
  <2> QED
    BY <2>7, <2>9, <2>10 DEF ShopInv, Rounds
<1> QED
  BY <1>2, <1>3

LEMMA ClickKeeps ==
  ASSUME ShopInv, NEW n \in Mounts, NEW kind \in {"card", "widget"}, Click(n, kind)
  PROVE  ShopInv'
<1>1. /\ n = current /\ cart # None /\ Display(n) \in Shown
      /\ page[n].at \in {"resume", "ready"}
  BY DisplayIsShown DEF Click, PaymentShown, Renders
<1> DEFINE c == [NoCall EXCEPT !.kind = kind, !.page = n, !.shown = Display(n), !.live = TRUE]
<1>2. c \in Call /\ c.page = n /\ c.shown = Display(n)
  BY <1>1 DEF NoCall, Call
<1>3. PICK i \in Idle :
        \/ /\ page[n].txn # None /\ page' = page
           /\ CallsBecome([call EXCEPT ![i] = Proceeds(c, page[n].txn)])
        \/ /\ page[n].txn = None
           /\ page' = [page EXCEPT ![n] = EnsureCreate(@)]
           /\ CallsBecome([call EXCEPT ![i] = [c EXCEPT !.pc = "create"]])
  BY DEF Click, Existing
<1>4. i \in Calls
  BY DEF Idle
<1> HIDE DEF c
<1>5. CASE /\ page[n].txn # None /\ page' = page
           /\ CallsBecome([call EXCEPT ![i] = Proceeds(c, page[n].txn)])
  <2>1. page[n].txn \in Orders /\ Held(page[n].txn)
    BY <1>5, Typed DEF ShopInv, Page, Held
  <2>2. CallsCalm
    <3> DEFINE w == Proceeds(c, page[n].txn)
    <3>1. /\ w \in Call /\ w.pc \in {"token", "session"} /\ w.id = page[n].txn /\ w.page = n
          /\ w.shown = Display(n)
      BY <1>2, <2>1, ProceedsIsACall
    <3>2. CallsBecome([call EXCEPT ![i] = w])
      BY <1>5
    <3> HIDE DEF w
    <3> QED
      BY <1>1, <1>4, <2>1, <3>1, <3>2, OneCallBecomes
  <2>3. PagesCalm
    BY <1>5, PagesStay DEF Click, PagesCalm
  <2>4. RestOK' /\ StoreCalm /\ OrdersCalm /\ OverlaysCalm
    BY RestStays DEF Click, RestOK
  <2> QED
    BY <2>2, <2>3, <2>4, Calm
<1>6. CASE /\ page[n].txn = None
           /\ page' = [page EXCEPT ![n] = EnsureCreate(@)]
           /\ CallsBecome([call EXCEPT ![i] = [c EXCEPT !.pc = "create"]])
  <2>1. LET w == [c EXCEPT !.pc = "create"] IN
          w \in Call /\ w.pc = "create" /\ w.page = n /\ w.shown = Display(n)
    BY <1>2 DEF Call
  <2>2. CallsCalm
    BY <1>1, <1>4, <1>6, <2>1, OneCallBecomes
  <2> QED
    BY <1>1, <1>6, <2>2, EnsureCreateKeeps DEF Click
<1> QED
  BY <1>3, <1>5, <1>6

-----------------------------------------------------------------------------
(* The answer to a create. *)

\* Order o is new, and of the round in which page n asked for it.
Made(n, o) ==
  /\ o \in Orders /\ ~ Held(o) /\ page[n].create # None
  /\ order' \in [Orders -> Order \cup {None}]
  /\ \A y \in Orders : y # o => order'[y] = order[y]
  /\ order'[o] # None /\ order'[o].status = "pending" /\ order'[o].page = n
  /\ order'[o].epoch = page[n].create.epoch /\ order'[o].cart = page[n].create.cart
  /\ page[n].create.epoch \in Nat /\ page[n].create.epoch <= page[n].epoch
  /\ page[n].create.cart \in Carts
  /\ page[n].at \notin {"new", "gone"} /\ ~ Early(page[n])

LEMMA OrderIsMade ==
  ASSUME ShopInv, NEW n \in Mounts, CreateAnswered(n)
  PROVE  Made(n, NewOrder)
<1> DEFINE x == page[n].create
           o == NewOrder
<1>1. o \in Orders /\ order[o] = None
  BY DEF CreateAnswered, NewOrder, Untaken
<1>2. PICK price \in Prices :
        order' = [order EXCEPT ![o] =
                    [cart |-> x.cart, city |-> x.city, total |-> Total(price, x.city),
                     status |-> "pending", page |-> n, epoch |-> x.epoch]]
  BY DEF CreateAnswered
<1>3. /\ page[n] \in Page /\ x \in Create /\ x.epoch \in Nat /\ x.cart \in Carts
      /\ x.city \in Cities /\ RoundOK(n) /\ x # None
  BY Typed DEF CreateAnswered, ShopInv, Rounds, Page, Create
<1>4. Total(price, x.city) \in Nat
  BY <1>2, <1>3, ShopAssumption DEF Total
<1> HIDE DEF x, o
<1> DEFINE r == [cart |-> x.cart, city |-> x.city, total |-> Total(price, x.city),
                 status |-> "pending", page |-> n, epoch |-> x.epoch]
<1>5. r \in Order
  BY <1>3, <1>4 DEF Order
<1>6. /\ order' \in [Orders -> Order \cup {None}]
      /\ \A y \in Orders : order'[y] = IF y = o THEN r ELSE order[y]
  BY <1>1, <1>2, <1>5 DEF ShopInv, ShopTypeOK
<1>7. r # None
  BY <1>5, RecordAssumption
<1>8. ~ Held(o)
  BY <1>1 DEF ShopInv, Known
<1>9. page[n].at \notin {"new", "gone"} /\ ~ Early(page[n]) /\ x.epoch <= page[n].epoch
  BY <1>3 DEF RoundOK, x
<1>10. /\ r.status = "pending" /\ r.page = n /\ r.epoch = x.epoch /\ r.cart = x.cart
  OBVIOUS
<1> HIDE DEF r
<1> QED
  BY <1>1, <1>3, <1>6, <1>7, <1>8, <1>9, <1>10 DEF Made, x, o

\* The answer is not applied: nobody holds the order.
LEMMA StaleKeeps ==
  ASSUME ShopInv, NEW n \in Mounts, NEW o, Made(n, o),
         PageBecomes(n, [page[n] EXCEPT !.create = None]), WaitersEnd(n),
         UNCHANGED <<cart, store, current, results, overlays, script, edits>>
  PROVE  ShopInv'
<1>1. PagesCalm /\ RestOK' /\ StoreCalm /\ OverlaysCalm
  BY CreateEnds, RestStays DEF RestOK
<1>2. CallsCalm
  BY SomeCallsEnd DEF WaitersEnd
<1>3. \A y \in Orders : Held(y)' => Held(y) /\ y # o
  <2> SUFFICES ASSUME NEW y \in Orders, Held(y)' PROVE Held(y)
    BY DEF Made
  <2>0. y # None
    BY ShopAssumption
  <2>1. CASE order'[y] # None /\ order'[y].status \in {"charging", "approved"}
    BY <2>1 DEF Made, Held
  <2>2. ASSUME NEW m \in Mounts, page'[m].txn = y \/ page'[m].wanted = y PROVE Held(y)
    BY <1>1, <2>0, <2>2 DEF PagesCalm, PageCalm, Held
  <2> QED
    BY <1>1, <1>2, <2>0, <2>1, <2>2 DEF Held, StoreCalm, CallsCalm, OverlaysCalm
<1>4. \A y \in Orders : y # o => SameOrder(y)
  BY DEF Made, SameOrder
<1>5. Known' /\ OneHeld'
  BY <1>3, <1>4, CalmOrders
<1>6. ASSUME NEW m \in Mounts PROVE RoundOK(m)'
  <2>1. ASSUME NEW y \in Orders, Of(y, m)' PROVE OrderCalm(m, y)
    <3>1. CASE y # o
      BY <1>3, <1>4, <3>1 DEF OrderCalm
    <3>2. CASE y = o
      BY <1>3, <2>1, <3>2 DEF OrderCalm, Made, Of
    <3> QED
      BY <3>1, <3>2
  <2> QED
    BY <1>1, <2>1, CalmRound DEF PagesCalm
<1>7. ShopTypeOK'
  BY <1>1, <1>2 DEF ShopTypeOK, RestOK, StoreCalm, Made, PagesCalm, CallsCalm, OverlaysCalm,
                    CallsOK, Store, Overlays
<1> QED
  BY <1>5, <1>6, <1>7 DEF ShopInv, Rounds

\* The answer is applied: the page's round had no order that was held.
LEMMA FreshKeeps ==
  ASSUME ShopInv, NEW n \in Mounts, NEW o, Made(n, o), StillCurrent(n),
         PageBecomes(n, [page[n] EXCEPT !.create = None, !.txn = o]),
         store' = Remembered(store, o, page[n].create.cart),
         CallsOK(call)',
         \A i \in Calls : call'[i].pc \notin {"idle", "create"} =>
                            call'[i].id = o \/ Held(call'[i].id),
         UNCHANGED <<cart, current, results, overlays, script, edits>>
  PROVE  ShopInv'
<1> DEFINE q == [page[n] EXCEPT !.create = None, !.txn = o]
           x == page[n].create
<1>1. page[n] \in Page /\ RoundOK(n) /\ page[n].epoch \in Nat /\ page \in [Mounts -> Page]
  BY Typed DEF ShopInv, Rounds, Page, ShopTypeOK
<1>2. /\ q \in Page /\ q.create = None /\ q.txn = o /\ q.at = page[n].at
      /\ q.epoch = page[n].epoch /\ q.wanted = page[n].wanted
  <2>1. /\ q.create = None /\ q.txn = o /\ q.at = page[n].at
        /\ q.epoch = page[n].epoch /\ q.wanted = page[n].wanted
    BY <1>1 DEF Page
  <2>2. q \in Page
    BY <1>1 DEF Page, Made
  <2> QED
    BY <2>1, <2>2
<1>3. PagesBecome([page EXCEPT ![n] = q])
  BY DEF PageBecomes
<1> HIDE DEF q
<1> DEFINE pages == [page EXCEPT ![n] = q]
<1>4. pages \in [Mounts -> Page] /\ \A m \in Mounts : pages[m] = IF m = n THEN q ELSE page[m]
  BY <1>1, <1>2
<1> HIDE DEF pages
<1>5. /\ page' \in [Mounts -> Page]
      /\ \A m \in Mounts :
           \/ (m = current' \/ pages[m].at = "new") /\ page'[m] = pages[m]
           \/ m # current' /\ pages[m].at # "new" /\ page'[m] = Ghost(pages[m])
  BY <1>3, <1>4, PagesAfter DEF pages
<1>6. \/ n = current' /\ page'[n] = q
      \/ n # current' /\ page'[n] = Ghost(q)
  BY <1>2, <1>4, <1>5 DEF Made
<1>7. ASSUME NEW m \in Mounts, m # n PROVE PageCalm(m)
  <2>1. \/ m = current' /\ page'[m] = page[m]
        \/ m # current' /\ page'[m] = Ghost(page[m])
        \/ m # current' /\ page[m].at = "new" /\ page'[m] = page[m]
    BY <1>4, <1>5, <1>7
  <2> QED
    BY <2>1, Unturned, TurnIsCalm
<1>8. /\ page'[n] \in Page /\ page'[n].create = None /\ page'[n].txn \in {None, o}
      /\ page'[n].wanted \in {page[n].wanted, None}
      /\ page'[n].at \notin {"new"} /\ ~ Early(page'[n])
      /\ page'[n].at = "gone" => n # current'
      /\ n = current' => page'[n].txn = o
      /\ page'[n].txn # None => n = current'
      /\ page'[n].at # "gone" => page'[n].epoch = page[n].epoch
  <2>1. CASE n = current' /\ page'[n] = q
    BY <1>1, <1>2, <2>1 DEF Made, Early
  <2>2. CASE n # current' /\ page'[n] = Ghost(q)
    BY <1>1, <1>2, <2>2, GhostFields DEF Made, Early
  <2> QED
    BY <1>6, <2>1, <2>2
<1>9. store' \in Store /\ store'.pending = o
  BY RestStays DEF Remembered, Store, Made
<1>10. \A y \in Orders : y # o => (Held(y)' => Held(y)) /\ SameOrder(y)
  <2> SUFFICES ASSUME NEW y \in Orders, y # o, Held(y)' PROVE Held(y)
    BY DEF Made, SameOrder
  <2>0. y # None
    BY ShopAssumption
  <2>1. CASE order'[y] # None /\ order'[y].status \in {"charging", "approved"}
    BY <2>1 DEF Made, Held
  <2>2. ASSUME NEW m \in Mounts, page'[m].txn = y \/ page'[m].wanted = y PROVE Held(y)
    <3>1. CASE m = n
      BY <1>8, <2>0, <2>2, <3>1 DEF Held
    <3>2. CASE m # n
      BY <1>7, <2>0, <2>2, <3>2 DEF PageCalm, Held
    <3> QED
      BY <3>1, <3>2
  <2> QED
    BY <1>9, <2>0, <2>1, <2>2 DEF Held
<1>11. \A y \in Orders : ~ (Held(y) /\ OfRound(y, n, page[n].epoch))
  BY <1>1 DEF RoundOK, Made, StillCurrent
<1>12. Known'
  BY <1>10 DEF Known, ShopInv, SameOrder, Made
<1>13. OneHeld'
  <2> SUFFICES ASSUME NEW y \in Orders, NEW z \in Orders, NEW m \in Mounts, NEW e \in Nat,
                      Held(y)', Held(z)', OfRound(y, m, e)', OfRound(z, m, e)'
               PROVE  y = z
    BY DEF OneHeld
  <2>1. \A w \in Orders : w # o => (OfRound(w, m, e)' => OfRound(w, m, e))
    BY DEF Made, OfRound, Of
  <2>2. OfRound(o, m, e)' => m = n /\ e = page[n].epoch
    BY DEF Made, StillCurrent, OfRound, Of
  <2>3. CASE y # o /\ z # o
    BY <1>10, <2>1, <2>3 DEF OneHeld, ShopInv, Rounds
  <2>4. CASE y = o \/ z = o
    BY <1>10, <1>11, <2>1, <2>2, <2>4
  <2> QED
    BY <2>3, <2>4
<1>14. ASSUME NEW m \in Mounts, m # n PROVE RoundOK(m)'
  <2>1. ASSUME NEW y \in Orders, Of(y, m)' PROVE OrderCalm(m, y)
    <3>1. y # o
      BY <1>14, <2>1 DEF Of, Made
    <3> QED
      BY <1>10, <3>1 DEF OrderCalm
  <2> QED
    BY <1>7, <1>14, <2>1, CalmRound
<1>15. RoundOK(n)'
  <2>1. ASSUME NEW y \in Orders, Held(y)', OfRound(y, n, page[n].epoch)', n = current'
        PROVE  page'[n].txn = y
    <3>1. page'[n].epoch = page[n].epoch
      BY <1>8, <2>1
    <3>2. CASE y # o
      BY <1>10, <1>11, <2>1, <3>1, <3>2 DEF OfRound, Of, Made
    <3> QED
      BY <1>8, <2>1, <3>2
  <2>2. ASSUME NEW y \in Orders, Of(y, n)', page'[n].at # "gone"
        PROVE  order'[y].epoch <= page'[n].epoch
    <3>1. page'[n].epoch = page[n].epoch
      BY <1>8, <2>2
    <3>2. CASE y = o
      BY <3>1, <3>2 DEF Made
    <3>3. CASE y # o
      <4>1. Of(y, n) /\ order'[y] = order[y] /\ page[n].at # "gone"
        BY <2>2, <3>3 DEF Made, Of
      <4> QED
        BY <1>1, <3>1, <4>1 DEF RoundOK
    <3> QED
      BY <3>2, <3>3
  <2>3. ASSUME page'[n].txn # None
        PROVE  /\ n = current' /\ page'[n].txn = o
               /\ order'[o].epoch = page'[n].epoch /\ order'[o].cart = cart'
    BY <1>8, <2>3 DEF Made, StillCurrent
  <2> QED
    BY <1>8, <2>1, <2>2, <2>3 DEF RoundOK, Early
<1>16. ShopTypeOK'
  <2>1. RestOK' /\ overlays' \in Overlays
    BY RestStays DEF RestOK
  <2> QED
    BY <1>5, <1>9, <2>1 DEF ShopTypeOK, RestOK, Made, CallsOK, Store, Overlays
<1> QED
  BY <1>12, <1>13, <1>14, <1>15, <1>16 DEF ShopInv, Rounds

LEMMA CreateAnsweredKeeps ==
  ASSUME ShopInv, NEW n \in Mounts, CreateAnswered(n)
  PROVE  ShopInv'
<1> DEFINE o == NewOrder
<1>1. Made(n, o)
  BY OrderIsMade
<1> HIDE DEF o
<1>2. CASE /\ StillCurrent(n)
           /\ PageBecomes(n, [page[n] EXCEPT !.create = None, !.txn = o])
           /\ store' = Remembered(store, o, page[n].create.cart)
           /\ CallsBecome([i \in Calls |->
                IF i \notin Waiting(n) THEN call[i]
                ELSE IF Agrees(call[i], o) THEN Proceeds(call[i], o) ELSE NoCall])
  <2> DEFINE calls == [i \in Calls |->
                IF i \notin Waiting(n) THEN call[i]
                ELSE IF Agrees(call[i], o) THEN Proceeds(call[i], o) ELSE NoCall]
  <2>0. o \in Orders
    BY <1>1 DEF Made
  <2>1. ASSUME NEW i \in Calls
        PROVE  /\ calls[i] \in Call
               /\ calls[i].pc # "idle" => calls[i].page \in Mounts /\ calls[i].shown \in Shown
               /\ calls[i].pc \notin {"idle", "create"} =>
                    /\ calls[i].id \in Orders
                    /\ calls[i].id = o \/ Held(calls[i].id)
    <3>1. /\ call[i] \in Call
          /\ call[i].pc # "idle" => call[i].page \in Mounts /\ call[i].shown \in Shown
          /\ call[i].pc \notin {"idle", "create"} => call[i].id \in Orders /\ Held(call[i].id)
      BY Typed DEF ShopInv, CallsOK, Held
    <3>2. CASE calls[i] = call[i]
      BY <3>1, <3>2
    <3>3. CASE calls[i] = NoCall
      BY <3>3, NoCallIsACall
    <3>4. CASE i \in Waiting(n) /\ calls[i] = Proceeds(call[i], o)
      <4>1. call[i].pc # "idle"
        BY <3>4 DEF Waiting
      <4> QED
        BY <2>0, <3>1, <3>4, <4>1, ProceedsIsACall
    <3> QED
      BY <3>2, <3>3, <3>4
  <2>2. CallsOK(calls) /\ CallsBecome(calls)
    BY <1>2, <2>1 DEF CallsOK
  <2> HIDE DEF calls
  <2>3. /\ CallsOK(call)'
        /\ \A i \in Calls : call'[i].pc = calls[i].pc /\ call'[i].id = calls[i].id
    BY <2>2, CallsAfter
  <2> QED
    BY <1>1, <1>2, <2>1, <2>3, FreshKeeps DEF CreateAnswered
<1>3. CASE /\ PageBecomes(n, [page[n] EXCEPT !.create = None])
           /\ UNCHANGED store /\ WaitersEnd(n)
  BY <1>1, <1>3, StaleKeeps DEF CreateAnswered
<1> QED
  BY <1>2, <1>3 DEF CreateAnswered, o

-----------------------------------------------------------------------------

LEMMA InvInitially == Init => ShopInv
<1> SUFFICES ASSUME Init PROVE ShopInv
  OBVIOUS
<1>1. /\ NoPage \in Page /\ NoPage.at = "new" /\ NoPage.txn = None /\ NoPage.create = None
      /\ NoPage.wanted = None
  BY NoPageIsAPage
<1>2. ShopTypeOK
  BY <1>1, NoCallIsACall DEF Init, ShopTypeOK, EmptyStore
<1>3. \A o \in Orders : ~ Held(o)
  <2>1. \A n \in Mounts : page[n] = NoPage
    BY DEF Init
  <2>2. \A i \in Calls : call[i].pc = "idle"
    BY NoCallIsACall DEF Init
  <2> QED
    BY <1>1, <2>1, <2>2, ShopAssumption DEF Init, Held, EmptyStore
<1>4. \A n \in Mounts : RoundOK(n)
  <2> SUFFICES ASSUME NEW n \in Mounts PROVE RoundOK(n)
    OBVIOUS
  <2>1. /\ page[n] = NoPage /\ current = None /\ n # None
        /\ \A o \in Orders : ~ Of(o, n)
    BY ShopAssumption DEF Init, Of
  <2> QED
    BY <1>1, <1>3, <2>1 DEF RoundOK
<1> QED
  BY <1>2, <1>3, <1>4 DEF ShopInv, Known, Rounds, OneHeld

LEMMA InvKept == ShopInv /\ [Next]_vars => ShopInv'
<1> SUFFICES ASSUME ShopInv, [Next]_vars PROVE ShopInv'
  OBVIOUS
<1>1. CASE UNCHANGED vars
  BY <1>1, PagesStay, RestStays, CallsAsTheyAre, Calm DEF vars, PagesCalm, RestOK
<1>2. ASSUME NEW c \in Carts \cup {None}, EditCart(c) PROVE ShopInv'
  BY <1>2, EditCartKeeps
<1>3. CASE OpenCheckout \/ LeaveCheckout \/ Reload \/ ScriptLoads \/ ScriptFails
  BY <1>3, OpenCheckoutKeeps, LeaveCheckoutKeeps, ReloadKeeps, ScriptKeeps
<1>4. ASSUME NEW n \in Mounts,
             \/ \E c \in Cities : EditForm(n, c) \/ QuotesAnswered(n, c)
             \/ \E kind \in {"card", "widget"} : Click(n, kind)
             \/ ContinueToPayment(n) \/ EditDetails(n)
      PROVE  ShopInv'
  BY <1>4, EditFormKeeps, QuotesAnsweredKeeps, ClickKeeps, ContinueToPaymentKeeps,
     EditDetailsKeeps
<1>5. ASSUME NEW n \in Mounts,
             \/ ExtrasAnswered(n) \/ RestoreAnswered(n) \/ RestoreRefused(n) \/ RestoreFails(n)
             \/ CreateFails(n) \/ CreateAnswered(n)
      PROVE  ShopInv'
  <2>1. CASE RestoreRefused(n) \/ RestoreFails(n)
    BY <2>1, ForgetsPendingKeeps DEF RestoreRefused, RestoreFails
  <2> QED
    BY <1>5, <2>1, ExtrasAnsweredKeeps, RestoreAnsweredKeeps, CreateFailsKeeps,
       CreateAnsweredKeeps
<1>6. ASSUME NEW i \in Calls,
             TokenAnswered(i) \/ PayAnswered(i) \/ SessionAnswered(i) \/ OverlayOpens(i)
      PROVE  ShopInv'
  BY <1>6, TokenAnsweredKeeps, PayAnsweredKeeps, SessionAnsweredKeeps, OverlayOpensKeeps
<1>7. ASSUME NEW v \in overlays, OverlayPaid(v) \/ OverlayCloses(v) PROVE ShopInv'
  BY <1>7, OverlayPaidKeeps, OverlayClosesKeeps
<1>8. ASSUME NEW o \in Orders, OpenResult(o) \/ ResultAnswered(o) \/ Settles(o) PROVE ShopInv'
  BY <1>8, OpenResultKeeps, ResultAnsweredKeeps, SettlesKeeps
<1> QED
  BY <1>1, <1>2, <1>3, <1>4, <1>5, <1>6, <1>7, <1>8 DEF Next

THEOREM InvHolds == Spec => []ShopInv
BY InvInitially, InvKept, PTL DEF Spec

\* The stores, the pages, the calls and the orders keep their types.
THEOREM ShopTypeCorrect == Spec => []ShopTypeOK
<1>1. ShopInv => ShopTypeOK
  BY DEF ShopInv
<1> QED
  BY <1>1, InvHolds, PTL

\* However many pages are opened and left, edited and clicked, one page brings no two
\* orders to Wompi without a change of cart or details in between.
THEOREM OneChargePerRoundHolds == Spec => []OneChargePerRound
<1>1. ShopInv => OneChargePerRound
  <2> SUFFICES ASSUME ShopInv, NEW o \in Orders, NEW x \in Orders,
                      order[o] # None, order[o].status \in {"charging", "approved"},
                      order[x] # None, order[x].status \in {"charging", "approved"},
                      order[o].page = order[x].page, order[o].epoch = order[x].epoch
               PROVE  o = x
    BY DEF OneChargePerRound
  <2>1. order[o].page \in Mounts /\ order[o].epoch \in Nat
    BY Typed DEF ShopInv, Order
  <2>2. /\ Held(o) /\ Held(x) /\ OfRound(o, order[o].page, order[o].epoch)
        /\ OfRound(x, order[o].page, order[o].epoch)
    BY DEF Held, OfRound, Of
  <2> QED
    BY <2>1, <2>2 DEF ShopInv, Rounds, OneHeld
<1> QED
  BY <1>1, InvHolds, PTL

\* A late answer to a create never comes back after the cart or the details it was for
\* were given up.
THEOREM CreatedOrderIsCurrentHolds == Spec => []CreatedOrderIsCurrent
<1>1. ShopInv => CreatedOrderIsCurrent
  <2> SUFFICES ASSUME ShopInv, NEW n \in Mounts, page[n].txn # None,
                      order[page[n].txn].page = n
               PROVE  /\ order[page[n].txn].epoch = page[n].epoch
                      /\ n = current => order[page[n].txn].cart = cart
    BY DEF CreatedOrderIsCurrent
  <2>1. page[n].txn \in Orders /\ RoundOK(n)
    BY Typed DEF ShopInv, Rounds, Page
  <2>2. Of(page[n].txn, n)
    BY <2>1 DEF ShopInv, Known, Held, Of
  <2> QED
    BY <2>1, <2>2 DEF RoundOK
<1> QED
  BY <1>1, InvHolds, PTL

-----------------------------------------------------------------------------
(* What the shopper saw.  An order is charged for a call or an overlay,    *)
(* which keeps what the page showed at the click; the calls that wait for  *)
(* a create showed the cart it was made for, or it comes too late.         *)

\* What order o asks for.
Asked(o) == [cart |-> order[o].cart, total |-> order[o].total]

CallsShow ==
  \A i \in Calls : call[i].pc \notin {"idle", "create"} => call[i].shown = Asked(call[i].id)

OverlaysShow == \A v \in overlays : v.shown = Asked(v.id)

\* Call i waits for the create of its page.
Waits(i) ==
  LET p == page[call[i].page] IN
    /\ p.create # None
    /\ p.create.epoch = p.epoch => call[i].shown.cart = p.create.cart

WaitersShow == \A i \in Calls : call[i].pc = "create" => Waits(i)

\* A create of the present round is for the cart.
CreateFits(n) ==
  n = current /\ page[n].create # None /\ page[n].create.epoch = page[n].epoch
    => page[n].create.cart = cart

CreatesFit == \A n \in Mounts : CreateFits(n)

\* A result page asks for an order that there is.
ResultsKnown == \A o \in results : order[o] # None

ShownInv ==
  ShopInv /\ CallsShow /\ OverlaysShow /\ WaitersShow /\ CreatesFit /\ ResultsKnown

\* The page had p and has q: the same create, and no round but the next.
Kept(p, q) == q.create = p.create /\ (p.create # None => q.epoch \in {p.epoch, p.epoch + 1})

PageKept(n) ==
  /\ Kept(page[n], page'[n])
  /\ n = current' => \/ page'[n].create = None
                     \/ n = current /\ (cart' = cart \/ page'[n].epoch = page[n].epoch + 1)

PagesKept == \A n \in Mounts : PageKept(n)

\* The call was c and is d: it ends, waits on, or goes on with its order.
CallOn(c, d) ==
  \/ d.pc = "idle"
  \/ d.shown = c.shown /\ d.pc = "create" /\ c.pc = "create" /\ d.page = c.page
  \/ /\ d.shown = c.shown /\ d.id = c.id
     /\ d.pc \notin {"idle", "create"} /\ c.pc \notin {"idle", "create"}

CallsKept == \A i \in Calls : CallOn(call[i], call'[i])

OverlaysKept ==
  \A v \in overlays' :
    \/ v \in overlays
    \/ \E i \in Calls : /\ call[i].pc \notin {"idle", "create"}
                        /\ v.id = call[i].id /\ v.shown = call[i].shown

\* An order keeps what it asks for.
OrdersKept == \A o \in Orders : order[o] # None => Asked(o)' = Asked(o)

Quiet == PagesKept /\ CallsKept /\ OverlaysKept /\ OrdersKept

LEMMA QuietKeeps ==
  ASSUME ShownInv, Quiet
  PROVE  CallsShow' /\ OverlaysShow' /\ WaitersShow' /\ CreatesFit'
<1>1. /\ \A i \in Calls : call[i].pc \notin {"idle", "create"} =>
           order[call[i].id] # None /\ call[i].id \in Orders
      /\ \A v \in overlays : order[v.id] # None /\ v.id \in Orders
  BY Typed DEF ShownInv, ShopInv, ShopTypeOK, CallsOK, Known, Held
<1>2. CallsShow'
  BY <1>1 DEF ShownInv, CallsShow, Quiet, CallsKept, CallOn, OrdersKept
<1>3. OverlaysShow'
  BY <1>1 DEF ShownInv, CallsShow, OverlaysShow, Quiet, OverlaysKept, OrdersKept
<1>4. ASSUME NEW n \in Mounts, page[n].create # None
      PROVE  /\ page'[n].create = page[n].create
             /\ page'[n].create.epoch = page'[n].epoch => page'[n].epoch = page[n].epoch
  <2>1. RoundOK(n) /\ page[n].at # "gone" /\ page[n].epoch \in Nat
    BY <1>4, Typed DEF ShownInv, ShopInv, Rounds, RoundOK, Page
  <2>2. page[n].create.epoch \in Nat
    BY <1>4, Typed DEF ShownInv, ShopInv, Page, Create
  <2> QED BY <1>4, <2>1, <2>2 DEF RoundOK, Quiet, PagesKept, PageKept, Kept
<1>5. WaitersShow'
  <2> SUFFICES ASSUME NEW i \in Calls, call'[i].pc = "create" PROVE Waits(i)'
    BY DEF WaitersShow
  <2>1. call[i].pc = "create" /\ call'[i].page = call[i].page /\ call'[i].shown = call[i].shown
    BY DEF Quiet, CallsKept, CallOn
  <2>2. Waits(i) /\ call[i].page \in Mounts
    BY <2>1, Typed DEF ShownInv, WaitersShow, ShopInv, CallsOK
  <2> QED BY <1>4, <2>1, <2>2 DEF Waits
<1>6. CreatesFit'
  <2> SUFFICES ASSUME NEW n \in Mounts, n = current', page'[n].create # None,
                      page'[n].create.epoch = page'[n].epoch
               PROVE  page'[n].create.cart = cart'
    BY DEF CreatesFit, CreateFits
  <2>1. page[n].create # None
    BY DEF Quiet, PagesKept, PageKept, Kept
  <2>2. page'[n].create = page[n].create /\ page'[n].epoch = page[n].epoch
    BY <1>4, <2>1
  <2>3. page[n].epoch \in Nat
    BY Typed DEF ShownInv, ShopInv, Page
  <2>4. n = current /\ cart' = cart
    BY <2>2, <2>3 DEF Quiet, PagesKept, PageKept
  <2> QED BY <2>1, <2>2, <2>4 DEF ShownInv, CreatesFit, CreateFits
<1> QED BY <1>2, <1>3, <1>5, <1>6

-----------------------------------------------------------------------------
(* Pages, calls and orders that are kept. *)

LEMMA GhostIsKept ==
  ASSUME NEW p \in Page
  PROVE  Ghost(p).create = p.create /\ (p.create # None => Ghost(p).epoch = p.epoch)
<1>1. CASE p.at \in {"ready", "gone"} /\ p.create = None
  BY <1>1, GonePage DEF Ghost
<1>2. CASE ~ (p.at \in {"ready", "gone"} /\ p.create = None)
  <2> DEFINE q == [p EXCEPT !.txn = None, !.city = NoPage.city, !.method = FALSE,
                            !.quote = None, !.loads = @ \cap {p.awaits}]
  <2>1. Ghost(p) = q
    BY <1>2 DEF Ghost
  <2>2. q.create = p.create /\ q.epoch = p.epoch
    BY DEF Page
  <2> QED BY <2>1, <2>2
<1> QED BY <1>1, <1>2

\* Pages that are each kept, are kept when those that were left become ghosts.
LEMMA PagesAreKept ==
  ASSUME ShopInv, NEW pages \in [Mounts -> Page], PagesBecome(pages),
         current' \in {current, None},
         \A n \in Mounts : Kept(page[n], pages[n]),
         cart' = cart \/ current = None \/ pages[current].epoch = page[current].epoch + 1
  PROVE  PagesKept
<1> SUFFICES ASSUME NEW n \in Mounts PROVE PageKept(n)
  BY DEF PagesKept
<1>1. Kept(page[n], pages[n]) /\ n # None
  BY ShopAssumption
<1>2. CASE page'[n] = pages[n]
  BY <1>1, <1>2 DEF PageKept
<1>3. CASE n # current' /\ page'[n] = Ghost(pages[n])
  <2> DEFINE p == pages[n]
  <2>1. p \in Page
    OBVIOUS
  <2>2. Ghost(p).create = p.create /\ (p.create # None => Ghost(p).epoch = p.epoch)
    BY <2>1, GhostIsKept
  <2> QED BY <1>1, <1>3, <2>2 DEF Kept, PageKept
<1> QED BY <1>2, <1>3, PagesAfter

LEMMA OnePageIsKept ==
  ASSUME ShopInv, NEW n \in Mounts, NEW q \in Page, PageBecomes(n, q), Kept(page[n], q),
         UNCHANGED <<current, cart>>
  PROVE  PagesKept
<1> DEFINE pages == [page EXCEPT ![n] = q]
<1>1. pages \in [Mounts -> Page] /\ \A m \in Mounts : pages[m] = IF m = n THEN q ELSE page[m]
  BY DEF ShopInv, ShopTypeOK
<1>2. \A m \in Mounts : Kept(page[m], pages[m])
  BY <1>1 DEF Kept
<1>3. PagesBecome(pages)
  BY DEF PageBecomes
<1> HIDE DEF pages
<1> QED BY <1>1, <1>2, <1>3, PagesAreKept

LEMMA PagesAsTheyAre ==
  ASSUME ShopInv, UNCHANGED <<page, current, cart>>
  PROVE  PagesKept
BY DEF PagesKept, PageKept, Kept

LEMMA CartStaysKept ==
  ASSUME ShopInv, CartStays, current' \in {current, None}
  PROVE  PagesKept
<1>1. page \in [Mounts -> Page] /\ PagesBecome(page) /\ cart' = cart
  BY DEF ShopInv, ShopTypeOK, CartStays
<1>2. \A n \in Mounts : Kept(page[n], page[n])
  BY DEF Kept
<1> QED BY <1>1, <1>2, PagesAreKept

LEMMA CartBecomesKept ==
  ASSUME ShopInv, NEW c, NEW s, CartBecomes(c, s), current' \in {current, None}
  PROVE  PagesKept
<1>1. current \in Mounts \cup {None} /\ page \in [Mounts -> Page] /\ cart' = c
  BY DEF ShopInv, ShopTypeOK, CartBecomes
<1>2. CASE current # None /\ c # cart
  <2> DEFINE pages == [page EXCEPT ![current] = Invalidated(page[current])]
  <2>1. PagesBecome(pages)
    BY <1>1, <1>2 DEF CartBecomes
  <2>2. LET q == Invalidated(page[current]) IN
          q \in Page /\ q.create = page[current].create /\ q.epoch = page[current].epoch + 1
    BY <1>1, <1>2, InvalidatedFields
  <2>3. /\ pages \in [Mounts -> Page]
        /\ \A m \in Mounts : pages[m] = IF m = current THEN Invalidated(page[current]) ELSE page[m]
    BY <1>1, <1>2, <2>2
  <2>4. \A n \in Mounts : Kept(page[n], pages[n])
    BY <2>2, <2>3 DEF Kept
  <2>5. pages[current].epoch = page[current].epoch + 1
    BY <1>1, <1>2, <2>2, <2>3
  <2> HIDE DEF pages
  <2> QED BY <2>1, <2>3, <2>4, <2>5, PagesAreKept
<1>3. CASE ~ (current # None /\ c # cart)
  <2>1. PagesBecome(page)
    BY <1>3 DEF CartBecomes
  <2>2. \A n \in Mounts : Kept(page[n], page[n])
    BY DEF Kept
  <2> QED BY <1>1, <1>3, <2>1, <2>2, PagesAreKept
<1> QED BY <1>2, <1>3

\* Calls that go on do so also when their form is gone.
LEMMA CallsAreKept ==
  ASSUME NEW calls \in [Calls -> Call], CallsBecome(calls),
         \A i \in Calls : CallOn(call[i], calls[i])
  PROVE  CallsKept
<1> SUFFICES ASSUME NEW i \in Calls PROVE CallOn(call[i], call'[i])
  BY DEF CallsKept
<1>1. calls[i] \in Call /\ CallOn(call[i], calls[i])
  OBVIOUS
<1>2. LET c == [calls[i] EXCEPT !.live = FALSE] IN
        /\ c.pc = calls[i].pc /\ c.id = calls[i].id
        /\ c.page = calls[i].page /\ c.shown = calls[i].shown
  BY <1>1 DEF Call
<1>3. call'[i] = calls[i] \/ call'[i] = [calls[i] EXCEPT !.live = FALSE]
  BY DEF CallsBecome
<1> QED BY <1>1, <1>2, <1>3 DEF CallOn

LEMMA CallsStayKept ==
  ASSUME ShopInv, CallsStay \/ call' = call
  PROVE  CallsKept
<1>1. call \in [Calls -> Call]
  BY DEF ShopInv, ShopTypeOK
<1>2. \A i \in Calls : CallOn(call[i], call[i])
  BY DEF CallOn
<1> QED BY <1>1, <1>2, CallsAreKept DEF CallsStay, CallsKept

LEMMA SomeEndKept ==
  ASSUME ShopInv, NEW S, CallsBecome([i \in Calls |-> IF i \in S THEN NoCall ELSE call[i]])
  PROVE  CallsKept
<1> DEFINE calls == [i \in Calls |-> IF i \in S THEN NoCall ELSE call[i]]
<1>1. calls \in [Calls -> Call] /\ \A j \in Calls : calls[j] = IF j \in S THEN NoCall ELSE call[j]
  BY NoCallIsACall DEF ShopInv, ShopTypeOK
<1>2. \A i \in Calls : CallOn(call[i], calls[i])
  BY <1>1, NoCallIsACall DEF CallOn
<1> HIDE DEF calls
<1> QED BY <1>1, <1>2, CallsAreKept DEF calls

LEMMA OneCallKept ==
  ASSUME ShopInv, NEW i \in Calls, NEW c \in Call, CallsBecome([call EXCEPT ![i] = c]),
         CallOn(call[i], c)
  PROVE  CallsKept
<1> DEFINE calls == [call EXCEPT ![i] = c]
<1>1. calls \in [Calls -> Call] /\ \A j \in Calls : calls[j] = IF j = i THEN c ELSE call[j]
  BY DEF ShopInv, ShopTypeOK
<1>2. \A j \in Calls : CallOn(call[j], calls[j])
  BY <1>1 DEF CallOn
<1> HIDE DEF calls
<1> QED BY <1>1, <1>2, CallsAreKept DEF calls

LEMMA EndsKept == ASSUME ShopInv, NEW i \in Calls, Ends(i) PROVE CallsKept
BY NoCallIsACall, OneCallKept DEF Ends, CallOn

LEMMA GoesOnKept ==
  ASSUME ShopInv, NEW i \in Calls, NEW pc \in {"token", "pay", "session", "script"},
         call[i].pc \notin {"idle", "create"}, CallsBecome([call EXCEPT ![i].pc = pc])
  PROVE  CallsKept
<1> DEFINE c == [call[i] EXCEPT !.pc = pc]
<1>1. call[i] \in Call
  BY Typed DEF ShopInv
<1>2. c.pc = pc /\ c.page = call[i].page /\ c.shown = call[i].shown /\ c.id = call[i].id
  BY <1>1 DEF Call
<1>3. c \in Call
  BY <1>1 DEF Call
<1>4. CallsBecome([call EXCEPT ![i] = c])
  OBVIOUS
<1>5. CallOn(call[i], c)
  BY <1>2 DEF CallOn
<1> HIDE DEF c
<1> QED BY <1>3, <1>4, <1>5, OneCallKept

LEMMA StatusKept ==
  ASSUME ShopInv, NEW o \in Orders, order[o] # None, NEW st,
         order' = [order EXCEPT ![o].status = st]
  PROVE  OrdersKept
<1>1. order[o] \in Order /\ order \in [Orders -> Order \cup {None}]
  BY Typed DEF ShopInv, ShopTypeOK
<1> DEFINE x == [order[o] EXCEPT !.status = st]
<1>2. x.cart = order[o].cart /\ x.total = order[o].total
  BY <1>1 DEF Order
<1>3. \A y \in Orders : order'[y] = IF y = o THEN x ELSE order[y]
  BY <1>1
<1> HIDE DEF x
<1> QED BY <1>2, <1>3 DEF OrdersKept, Asked

LEMMA OrdersAsTheyAre == ASSUME UNCHANGED order PROVE OrdersKept
BY DEF OrdersKept, Asked

LEMMA OverlaysAsTheyAre == ASSUME overlays' \in SUBSET overlays PROVE OverlaysKept
BY DEF OverlaysKept

-----------------------------------------------------------------------------
(* All steps but those of a create, a click and a reload are quiet. *)

LEMMA PagesThatComeUpAreKept ==
  ASSUME ShopInv, NEW n \in Mounts,
         \/ ExtrasAnswered(n) \/ RestoreAnswered(n) \/ RestoreRefused(n) \/ RestoreFails(n)
  PROVE  PagesKept
<1>1. page[n] \in Page /\ UNCHANGED <<current, cart>> /\ store \in Store
  BY Typed, RestStays
     DEF ShopInv, ExtrasAnswered, RestoreAnswered, RestoreRefused, RestoreFails, ForgetsPending
<1>2. ASSUME NEW p \in Page, p.create = page[n].create,
             p.epoch \in {page[n].epoch, page[n].epoch + 1},
             \/ PageBecomes(n, Begins(p))
             \/ \E at \in {"resume", "quotes"}, c \in Cities : PageBecomes(n, AwaitQuotes(p, at, c))
      PROVE  PagesKept
  <2>1. PICK q : SameRound(p, q) /\ PageBecomes(n, q)
    BY <1>2, AtAndLoads, ShopAssumption
  <2>2. q \in Page /\ Kept(page[n], q)
    BY <1>2, <2>1 DEF SameRound, Kept
  <2> QED BY <1>1, <2>1, <2>2, OnePageIsKept
<1>3. CASE ExtrasAnswered(n)
  <2> DEFINE city == IF store.draft = None THEN page[n].city ELSE store.draft
             p == [page[n] EXCEPT !.city = city, !.method = store.draft # None]
  <2>1. city \in Cities
    BY <1>1 DEF Page, Store
  <2>2. p \in Page /\ p.create = page[n].create /\ p.epoch = page[n].epoch /\ p.city = city
    <3>1. p.create = page[n].create /\ p.epoch = page[n].epoch /\ p.city = city
      BY <1>1 DEF Page
    <3>2. p \in Page
      BY <1>1, <2>1 DEF Page
    <3> QED BY <3>1, <3>2
  <2>3. \/ PageBecomes(n, [p EXCEPT !.at = "restore", !.wanted = store.pending])
        \/ PageBecomes(n, Begins(Invalidated(p)))
        \/ PageBecomes(n, AwaitQuotes(p, "resume", p.city))
        \/ PageBecomes(n, Begins(p))
    BY <1>3 DEF ExtrasAnswered
  <2> HIDE DEF p, city
  <2>4. CASE PageBecomes(n, [p EXCEPT !.at = "restore", !.wanted = store.pending])
    <3>1. store.pending \in Orders \cup {None}
      BY <1>1 DEF Store
    <3> DEFINE q == [p EXCEPT !.at = "restore", !.wanted = store.pending]
    <3>2. q \in Page /\ q.create = p.create /\ q.epoch = p.epoch
      BY <2>2, <3>1, AsksFor
    <3>3. PageBecomes(n, q) /\ Kept(page[n], q)
      BY <2>2, <2>4, <3>2 DEF Kept
    <3> HIDE DEF q
    <3> QED BY <1>1, <3>2, <3>3, OnePageIsKept
  <2>5. CASE PageBecomes(n, Begins(Invalidated(p)))
    <3>1. LET t == Invalidated(p) IN
            t \in Page /\ t.create = page[n].create /\ t.epoch = page[n].epoch + 1
      BY <2>2, InvalidatedFields
    <3> QED BY <1>2, <2>5, <3>1
  <2>6. CASE PageBecomes(n, AwaitQuotes(p, "resume", p.city)) \/ PageBecomes(n, Begins(p))
    BY <1>2, <2>1, <2>2, <2>6
  <2> QED BY <2>3, <2>4, <2>5, <2>6
<1>4. CASE RestoreAnswered(n)
  <2> DEFINE o == page[n].wanted
             c == order[o].city
             p == [page[n] EXCEPT !.city = c, !.method = TRUE]
  <2>1. o \in Orders /\ Held(o)
    BY <1>1, <1>4 DEF RestoreAnswered, ShopInv, Page, Rounds, RoundOK, Held
  <2>2. c \in Cities
    BY <2>1, Typed DEF ShopInv, Known, Order
  <2>3. p \in Page /\ p.create = page[n].create /\ p.epoch = page[n].epoch
    <3>1. p.create = page[n].create /\ p.epoch = page[n].epoch
      BY <1>1 DEF Page
    <3>2. p \in Page
      BY <1>1, <2>2 DEF Page
    <3> QED BY <3>1, <3>2
  <2>4. PageBecomes(n, AwaitQuotes(p, "quotes", c))
    BY <1>4 DEF RestoreAnswered
  <2> HIDE DEF p, c
  <2> QED BY <1>2, <2>2, <2>3, <2>4
<1>5. CASE ForgetsPending(n)
  <2> DEFINE i == Invalidated(page[n])
             p == [i EXCEPT !.wanted = None]
  <2>1. i \in Page /\ i.create = page[n].create /\ i.epoch = page[n].epoch + 1
    BY <1>1, InvalidatedFields
  <2>2. PageBecomes(n, Begins(p))
    BY <1>5 DEF ForgetsPending
  <2> HIDE DEF i
  <2>3. p \in Page /\ p.create = i.create /\ p.epoch = i.epoch
    <3>1. p.create = i.create /\ p.epoch = i.epoch
      BY <2>1 DEF Page
    <3>2. p \in Page
      BY <2>1 DEF Page
    <3> QED BY <3>1, <3>2
  <2> HIDE DEF p
  <2> QED BY <1>2, <2>1, <2>2, <2>3
<1> QED BY <1>3, <1>4, <1>5 DEF RestoreRefused, RestoreFails

LEMMA QuotesKept ==
  ASSUME ShopInv, NEW n \in Mounts, NEW c \in Cities, QuotesAnswered(n, c)
  PROVE  PagesKept
<1>1. page[n] \in Page /\ page[n].wanted \in Orders \cup {None} /\ UNCHANGED <<current, cart>>
  BY Typed DEF ShopInv, Page, QuotesAnswered
<1>2. PICK quote \in {c, None} :
        LET p == [page[n] EXCEPT !.loads = @ \ {c}, !.quote = quote, !.method = quote # None]
            done == [p EXCEPT !.at = "ready", !.awaits = None, !.wanted = None] IN
          \/ PageBecomes(n, p) \/ PageBecomes(n, done)
          \/ PageBecomes(n, [done EXCEPT !.txn = page[n].wanted])
  BY DEF QuotesAnswered
<1> DEFINE p == [page[n] EXCEPT !.loads = @ \ {c}, !.quote = quote, !.method = quote # None]
           done == [p EXCEPT !.at = "ready", !.awaits = None, !.wanted = None]
           resumed == [done EXCEPT !.txn = page[n].wanted]
           Fits(q) == q \in Page /\ q.create = page[n].create /\ q.epoch = page[n].epoch
<1>3. Fits(p)
  <2>1. p.create = page[n].create /\ p.epoch = page[n].epoch
    BY <1>1 DEF Page
  <2>2. p \in Page
    BY <1>1, <1>2 DEF Page
  <2> QED BY <2>1, <2>2
<1>4. Fits(done)
  <2> HIDE DEF p
  <2>1. done.create = p.create /\ done.epoch = p.epoch
    BY <1>3 DEF Page
  <2>2. done \in Page
    BY <1>3 DEF Page
  <2> QED BY <1>3, <2>1, <2>2
<1>5. Fits(resumed)
  <2> HIDE DEF done
  <2>1. resumed.create = done.create /\ resumed.epoch = done.epoch
    BY <1>4 DEF Page
  <2>2. resumed \in Page
    BY <1>1, <1>4 DEF Page
  <2> QED BY <1>4, <2>1, <2>2
<1>6. PICK q \in {p, done, resumed} : PageBecomes(n, q)
  BY <1>2
<1>7. q \in Page /\ Kept(page[n], q)
  BY <1>3, <1>4, <1>5, <1>6 DEF Kept
<1> QED BY <1>1, <1>6, <1>7, OnePageIsKept

LEMMA OpenCheckoutKept ==
  ASSUME ShopInv, OpenCheckout
  PROVE  PagesKept
<1>0. NewMount \in Mounts /\ page[NewMount].at = "new" /\ current' = NewMount
  BY DEF OpenCheckout, NewMount, Unused
<1> DEFINE q == [page[NewMount] EXCEPT !.at = "extras"]
<1>1. \A n \in Mounts : page'[n] = IF n = NewMount THEN q ELSE page[n]
  BY <1>0 DEF OpenCheckout, ShopInv, ShopTypeOK
<1>2. q.create = page[NewMount].create /\ q.epoch = page[NewMount].epoch
      /\ page[NewMount].create = None
  <2>1. page[NewMount] \in Page /\ RoundOK(NewMount)
    BY <1>0, Typed DEF ShopInv, Rounds
  <2> QED BY <1>0, <2>1 DEF Page, RoundOK
<1> HIDE DEF q
<1> QED BY <1>0, <1>1, <1>2 DEF PagesKept, PageKept, Kept

LEMMA FormKept ==
  ASSUME ShopInv, NEW n \in Mounts, EditDetails(n) \/ \E c \in Cities : EditForm(n, c)
  PROVE  PagesKept
<1>1. page[n] \in Page /\ page \in [Mounts -> Page] /\ n = current /\ UNCHANGED <<current, cart>>
  BY Typed DEF ShopInv, ShopTypeOK, EditDetails, EditForm, PaymentShown, DetailsShown, Renders
<1>2. ASSUME NEW q, page' = [page EXCEPT ![n] = q], Kept(page[n], q) PROVE PagesKept
  BY <1>1, <1>2 DEF PagesKept, PageKept, Kept
<1>3. CASE EditDetails(n)
  <2>1. Kept(page[n], Invalidated(page[n]))
    BY <1>1, InvalidatedFields DEF Kept
  <2> QED BY <1>2, <1>3, <2>1 DEF EditDetails
<1>4. ASSUME NEW c \in Cities, EditForm(n, c) PROVE PagesKept
  <2> DEFINE q == [page[n] EXCEPT !.city = c, !.loads = page[n].loads \cup {c}]
  <2>1. page' = [page EXCEPT ![n] = q]
    BY <1>1, <1>4 DEF EditForm
  <2>2. Kept(page[n], q)
    BY <1>1 DEF Page, Kept
  <2> HIDE DEF q
  <2> QED BY <1>2, <2>1, <2>2
<1> QED BY <1>3, <1>4

LEMMA FinalizeKept ==
  ASSUME ShopInv, NEW o, Finalize(o) \/ CartStays, current' \in {current, None}
  PROVE  PagesKept
BY CartBecomesKept, CartStaysKept DEF Finalize

\* A charge is what begins it, and what it is for stays.
LEMMA ChargedKept ==
  ASSUME ShopInv, NEW o \in Orders, Held(o), Charged(o)
  PROVE  OrdersKept
BY StatusKept DEF Charged, ShopInv, Known

LEMMA QuietSteps ==
  ASSUME ShopInv, [Next]_vars
  PROVE  \/ Quiet \/ Reload
         \/ \E n \in Mounts : \/ CreateFails(n) \/ CreateAnswered(n)
                              \/ \E kind \in {"card", "widget"} : Click(n, kind)
<1>0. ASSUME UNCHANGED order, overlays' \in SUBSET overlays, PagesKept, CallsKept PROVE Quiet
  BY <1>0, OrdersAsTheyAre, OverlaysAsTheyAre DEF Quiet
<1>1. CASE UNCHANGED vars
  BY <1>0, <1>1, PagesAsTheyAre, CallsStayKept DEF vars
<1>2. ASSUME NEW c \in Carts \cup {None}, EditCart(c) PROVE Quiet
  BY <1>0, <1>2, CartBecomesKept, CallsStayKept DEF EditCart
<1>3. CASE OpenCheckout
  BY <1>0, <1>3, OpenCheckoutKept, CallsStayKept DEF OpenCheckout
<1>4. CASE LeaveCheckout
  BY <1>0, <1>4, CartStaysKept, CallsStayKept DEF LeaveCheckout
<1>5. CASE ScriptLoads \/ ScriptFails
  <2> DEFINE S == {i \in Calls : call[i].pc = "script"}
  <2>1. [i \in Calls |-> IF call[i].pc = "script" THEN NoCall ELSE call[i]]
          = [i \in Calls |-> IF i \in S THEN NoCall ELSE call[i]]
    OBVIOUS
  <2>2. CallsKept
    BY <1>5, <2>1, SomeEndKept, CallsStayKept DEF ScriptLoads, ScriptFails
  <2> QED BY <1>0, <1>5, <2>2, PagesAsTheyAre DEF ScriptLoads, ScriptFails
<1>6. ASSUME NEW n \in Mounts, EditDetails(n) \/ \E c \in Cities : EditForm(n, c) PROVE Quiet
  <2>1. PagesKept
    BY <1>6, FormKept
  <2> QED BY <1>0, <1>6, <2>1, CallsStayKept DEF EditDetails, EditForm
<1>7. ASSUME NEW n \in Mounts, NEW c \in Cities, QuotesAnswered(n, c) PROVE Quiet
  BY <1>0, <1>7, QuotesKept, CallsStayKept DEF QuotesAnswered
<1>8. ASSUME NEW n \in Mounts, ContinueToPayment(n) PROVE Quiet
  BY <1>0, <1>8, PagesAsTheyAre, CallsStayKept DEF ContinueToPayment
<1>9. ASSUME NEW n \in Mounts,
             \/ ExtrasAnswered(n) \/ RestoreAnswered(n) \/ RestoreRefused(n) \/ RestoreFails(n)
      PROVE  Quiet
  <2>1. PagesKept
    BY <1>9, PagesThatComeUpAreKept
  <2> QED
    BY <1>0, <1>9, <2>1, CallsStayKept
       DEF ExtrasAnswered, RestoreAnswered, RestoreRefused, RestoreFails, ForgetsPending
<1>10. ASSUME NEW i \in Calls, TokenAnswered(i) PROVE Quiet
  <2>1. call[i].id \in Orders /\ Held(call[i].id)
    BY <1>10, Typed DEF TokenAnswered, ShopInv, CallsOK, Held
  <2>2. OrdersKept /\ CallsKept
    BY <1>10, <2>1, OrdersAsTheyAre, ChargedKept, EndsKept, GoesOnKept DEF TokenAnswered
  <2> QED BY <1>10, <2>2, PagesAsTheyAre, OverlaysAsTheyAre DEF TokenAnswered, Quiet
<1>11. ASSUME NEW i \in Calls, PayAnswered(i) PROVE Quiet
  <2>1. PagesKept
    BY <1>11, FinalizeKept, PagesAsTheyAre DEF PayAnswered
  <2> QED BY <1>0, <1>11, <2>1, EndsKept DEF PayAnswered
<1>12. ASSUME NEW i \in Calls, SessionAnswered(i) PROVE Quiet
  BY <1>0, <1>12, PagesAsTheyAre, EndsKept, GoesOnKept DEF SessionAnswered
<1>13. ASSUME NEW i \in Calls, OverlayOpens(i) PROVE Quiet
  BY <1>13, PagesAsTheyAre, EndsKept, OrdersAsTheyAre DEF OverlayOpens, Quiet, OverlaysKept
<1>14. ASSUME NEW v \in overlays, OverlayPaid(v) PROVE Quiet
  <2>1. v.id \in Orders /\ Held(v.id)
    BY RestStays DEF Overlays, Held
  <2> QED
    BY <1>14, <2>1, ChargedKept, CartStaysKept, CallsStayKept, OverlaysAsTheyAre
       DEF OverlayPaid, Quiet
<1>15. ASSUME NEW v \in overlays, OverlayCloses(v) PROVE Quiet
  BY <1>0, <1>15, PagesAsTheyAre, CallsStayKept DEF OverlayCloses
<1>16. ASSUME NEW o \in Orders, OpenResult(o) PROVE Quiet
  BY <1>0, <1>16, CartStaysKept, CallsStayKept DEF OpenResult
<1>17. ASSUME NEW o \in Orders, ResultAnswered(o) PROVE Quiet
  BY <1>0, <1>17, FinalizeKept, CallsStayKept DEF ResultAnswered
<1>18. ASSUME NEW o \in Orders, Settles(o) PROVE Quiet
  BY <1>18, StatusKept, PagesAsTheyAre, CallsStayKept, OverlaysAsTheyAre DEF Settles, Quiet
<1> QED
  BY <1>1, <1>2, <1>3, <1>4, <1>5, <1>6, <1>7, <1>8, <1>9, <1>10, <1>11, <1>12, <1>13, <1>14,
     <1>15, <1>16, <1>17, <1>18 DEF Next

-----------------------------------------------------------------------------
(* Creates, clicks and reloads. *)

LEMMA ReloadShows ==
  ASSUME ShownInv, Reload
  PROVE  CallsShow' /\ OverlaysShow' /\ WaitersShow' /\ CreatesFit'
BY NoCallIsACall, ShopAssumption
   DEF Reload, CallsShow, OverlaysShow, WaitersShow, CreatesFit, CreateFits

\* Overlays and orders as they are, and all calls but i.
LEMMA OthersShow ==
  ASSUME ShownInv, UNCHANGED <<order, overlays>>,
         NEW calls \in [Calls -> Call], CallsBecome(calls), CallsOK(calls),
         \A j \in Calls : calls[j].pc \notin {"idle", "create"} =>
                            calls[j].shown = Asked(calls[j].id)
  PROVE  CallsShow' /\ OverlaysShow'
<1>1. OverlaysShow'
  BY DEF ShownInv, OverlaysShow, Asked
<1>2. CallsShow'
  BY CallsAfter DEF CallsShow, Asked
<1> QED BY <1>1, <1>2

LEMMA ClickShows ==
  ASSUME ShownInv, NEW n \in Mounts, NEW kind \in {"card", "widget"}, Click(n, kind)
  PROVE  CallsShow' /\ OverlaysShow' /\ WaitersShow' /\ CreatesFit'
<1>1. /\ n = current /\ cart # None /\ Display(n) \in Shown /\ page[n] \in Page
      /\ page \in [Mounts -> Page] /\ call \in [Calls -> Call] /\ CallsOK(call)
      /\ UNCHANGED <<cart, order, current, overlays>>
  BY DisplayIsShown, Typed DEF Click, PaymentShown, Renders, ShownInv, ShopInv, ShopTypeOK
<1> DEFINE c == [NoCall EXCEPT !.kind = kind, !.page = n, !.shown = Display(n), !.live = TRUE]
<1>2. c \in Call /\ c.page = n /\ c.shown = Display(n)
  BY <1>1 DEF NoCall, Call
<1>3. PICK i \in Idle :
        \/ /\ page[n].txn # None /\ page' = page
           /\ CallsBecome([call EXCEPT ![i] = Proceeds(c, page[n].txn)])
        \/ /\ page[n].txn = None
           /\ page' = [page EXCEPT ![n] = EnsureCreate(@)]
           /\ CallsBecome([call EXCEPT ![i] = [c EXCEPT !.pc = "create"]])
  BY DEF Click, Existing
<1>4. i \in Calls
  BY DEF Idle
<1> HIDE DEF c
<1>5. ASSUME NEW w \in Call, w.page = n, w.shown = Display(n), w.pc # "idle",
             w.pc # "create" => w.id \in Orders /\ w.shown = Asked(w.id),
             CallsBecome([call EXCEPT ![i] = w])
      PROVE  /\ CallsShow' /\ OverlaysShow'
             /\ \A j \in Calls : j # i => /\ call'[j].pc = call[j].pc
                                          /\ call'[j].page = call[j].page
                                          /\ call'[j].shown = call[j].shown
             /\ call'[i].pc = w.pc /\ call'[i].page = n /\ call'[i].shown = Display(n)
  <2> DEFINE calls == [call EXCEPT ![i] = w]
  <2>1. /\ calls \in [Calls -> Call]
        /\ \A j \in Calls : calls[j] = IF j = i THEN w ELSE call[j]
    BY <1>1
  <2>2. CallsBecome(calls)
    BY <1>5
  <2> HIDE DEF calls
  <2>3. CallsOK(calls)
    BY <1>1, <1>5, <2>1 DEF CallsOK
  <2>4. \A j \in Calls : calls[j].pc \notin {"idle", "create"} =>
                           calls[j].shown = Asked(calls[j].id)
    BY <1>5, <2>1 DEF ShownInv, CallsShow
  <2>5. CallsShow' /\ OverlaysShow'
    BY <1>1, <2>1, <2>2, <2>3, <2>4, OthersShow
  <2>6. \A j \in Calls : /\ call'[j].pc = calls[j].pc /\ call'[j].page = calls[j].page
                         /\ call'[j].shown = calls[j].shown
    BY <2>2, <2>3, CallsAfter
  <2> QED BY <1>4, <1>5, <2>1, <2>5, <2>6
<1>6. CASE /\ page[n].txn # None /\ page' = page
           /\ CallsBecome([call EXCEPT ![i] = Proceeds(c, page[n].txn)])
  <2> DEFINE w == Proceeds(c, page[n].txn)
  <2>1. page[n].txn \in Orders
    BY <1>1, <1>6 DEF Page
  <2>2. /\ w \in Call /\ w.pc \in {"token", "session"} /\ w.id = page[n].txn /\ w.page = n
        /\ w.shown = Display(n)
    BY <1>2, <2>1, ProceedsIsACall
  <2>3. Display(n) = Asked(page[n].txn)
    BY <1>6 DEF Display, Asked
  <2>4. CallsBecome([call EXCEPT ![i] = w])
    BY <1>6
  <2> HIDE DEF w
  <2>5. /\ CallsShow' /\ OverlaysShow'
        /\ \A j \in Calls : call'[j].pc = "create" => /\ call[j].pc = "create"
                                                      /\ call'[j].page = call[j].page
                                                      /\ call'[j].shown = call[j].shown
    BY <1>5, <2>1, <2>2, <2>3, <2>4
  <2>6. WaitersShow'
    BY <1>6, <2>5 DEF ShownInv, WaitersShow, Waits
  <2>7. CreatesFit'
    BY <1>1, <1>6 DEF ShownInv, CreatesFit, CreateFits
  <2> QED BY <2>5, <2>6, <2>7
<1>7. CASE /\ page[n].txn = None
           /\ page' = [page EXCEPT ![n] = EnsureCreate(@)]
           /\ CallsBecome([call EXCEPT ![i] = [c EXCEPT !.pc = "create"]])
  <2> DEFINE w == [c EXCEPT !.pc = "create"]
             q == EnsureCreate(page[n])
  <2>1. w \in Call /\ w.pc = "create" /\ w.page = n /\ w.shown = Display(n)
    BY <1>2 DEF Call
  <2>2. CallsBecome([call EXCEPT ![i] = w])
    BY <1>7
  <2> HIDE DEF w
  <2>3. /\ CallsShow' /\ OverlaysShow'
        /\ \A j \in Calls : j # i => /\ call'[j].pc = call[j].pc
                                     /\ call'[j].page = call[j].page
                                     /\ call'[j].shown = call[j].shown
        /\ call'[i].page = n /\ call'[i].shown = Display(n)
    BY <1>5, <2>1, <2>2
  <2>4. /\ q.create # None /\ (page[n].create # None => q = page[n])
        /\ q.create.epoch = q.epoch => q.create.cart = cart
    <3>1. CASE page[n].create # None
      BY <1>1, <3>1 DEF EnsureCreate, ShownInv, CreatesFit, CreateFits
    <3>2. CASE page[n].create = None
      <4> DEFINE x == [cart |-> cart, city |-> page[n].city, epoch |-> page[n].epoch]
      <4>1. x \in Create /\ x.cart = cart
        BY <1>1 DEF Create, Page, ShownInv, ShopInv, ShopTypeOK
      <4>2. x # None
        BY <4>1, RecordAssumption
      <4>3. q = [page[n] EXCEPT !.create = x]
        BY <3>2 DEF EnsureCreate
      <4> QED BY <1>1, <3>2, <4>1, <4>2, <4>3 DEF Page
    <3> QED BY <3>1, <3>2
  <2>5. \A m \in Mounts : page'[m] = IF m = n THEN q ELSE page[m]
    BY <1>1, <1>7
  <2> HIDE DEF q
  <2>6. Display(n).cart = cart
    BY <1>7 DEF Display
  <2>7. WaitersShow'
    <3> SUFFICES ASSUME NEW j \in Calls, call'[j].pc = "create" PROVE Waits(j)'
      BY DEF WaitersShow
    <3>1. CASE j = i
      BY <2>3, <2>4, <2>5, <2>6, <3>1 DEF Waits
    <3>2. CASE j # i
      <4>1. call[j].pc = "create" /\ call'[j].page = call[j].page /\ call'[j].shown = call[j].shown
        BY <2>3, <3>2
      <4>2. Waits(j) /\ call[j].page \in Mounts
        BY <1>1, <4>1 DEF ShownInv, WaitersShow, CallsOK
      <4>3. page'[call[j].page] = page[call[j].page]
        BY <2>4, <2>5, <4>2 DEF Waits
      <4> QED BY <4>1, <4>2, <4>3 DEF Waits
    <3> QED BY <3>1, <3>2
  <2>8. CreatesFit'
    BY <1>1, <2>4, <2>5, ShopAssumption DEF ShownInv, CreatesFit, CreateFits
  <2> QED BY <2>3, <2>7, <2>8
<1> QED BY <1>3, <1>6, <1>7

LEMMA CreateEndShows ==
  ASSUME ShownInv, NEW n \in Mounts, NEW q \in Page, page[n].create # None, q.create = None,
         PageBecomes(n, q), UNCHANGED <<cart, current>>,
         \A i \in Calls : call'[i].pc = "create" =>
           /\ call[i].pc = "create" /\ call[i].page # n
           /\ call'[i].page = call[i].page /\ call'[i].shown = call[i].shown
  PROVE  WaitersShow' /\ CreatesFit'
<1> DEFINE pages == [page EXCEPT ![n] = q]
<1>1. pages \in [Mounts -> Page] /\ \A m \in Mounts : pages[m] = IF m = n THEN q ELSE page[m]
  BY DEF ShownInv, ShopInv, ShopTypeOK
<1>2. PagesBecome(pages)
  BY DEF PageBecomes
<1> HIDE DEF pages
<1>3. ASSUME NEW m \in Mounts
      PROVE  /\ page'[m].create = pages[m].create
             /\ pages[m].create # None => page'[m].epoch = pages[m].epoch
  <2> DEFINE p == pages[m]
  <2>1. Ghost(p).create = p.create /\ (p.create # None => Ghost(p).epoch = p.epoch)
    BY <1>1, GhostIsKept
  <2> QED BY <1>1, <1>2, <2>1, PagesAfter
<1>4. WaitersShow'
  <2> SUFFICES ASSUME NEW i \in Calls, call'[i].pc = "create" PROVE Waits(i)'
    BY DEF WaitersShow
  <2> DEFINE m == call[i].page
  <2>1. /\ call[i].pc = "create" /\ m # n /\ m \in Mounts /\ Waits(i)
        /\ call'[i].page = m /\ call'[i].shown = call[i].shown
    BY Typed DEF ShownInv, WaitersShow, ShopInv, CallsOK
  <2>2. page'[m].create = page[m].create /\ page'[m].epoch = page[m].epoch
    BY <1>1, <1>3, <2>1 DEF Waits
  <2> QED BY <2>1, <2>2 DEF Waits
<1>5. CreatesFit'
  <2> SUFFICES ASSUME NEW m \in Mounts, m = current', page'[m].create # None,
                      page'[m].create.epoch = page'[m].epoch
               PROVE  page'[m].create.cart = cart'
    BY DEF CreatesFit, CreateFits
  <2>1. m # n
    BY <1>1, <1>3
  <2>2. page'[m].create = page[m].create /\ page'[m].epoch = page[m].epoch
    BY <1>1, <1>3, <2>1
  <2> QED BY <2>2 DEF ShownInv, CreatesFit, CreateFits
<1> QED BY <1>4, <1>5

\* What is left of the calls when those that wait for page n do not all end.
LEMMA WaitersOn ==
  ASSUME ShownInv, NEW n \in Mounts, NEW calls \in [Calls -> Call], CallsBecome(calls),
         \A i \in Calls : \/ i \notin Waiting(n) /\ calls[i] = call[i]
                          \/ calls[i].pc # "create"
  PROVE  \A i \in Calls : call'[i].pc = "create" =>
           /\ call[i].pc = "create" /\ call[i].page # n
           /\ call'[i].page = call[i].page /\ call'[i].shown = call[i].shown
<1> SUFFICES ASSUME NEW i \in Calls, call'[i].pc = "create"
             PROVE  /\ call[i].pc = "create" /\ call[i].page # n
                    /\ call'[i].page = call[i].page /\ call'[i].shown = call[i].shown
  OBVIOUS
<1>1. calls[i] \in Call
  OBVIOUS
<1>2. LET c == [calls[i] EXCEPT !.live = FALSE] IN
        c.pc = calls[i].pc /\ c.page = calls[i].page /\ c.shown = calls[i].shown
  BY <1>1 DEF Call
<1>3. call'[i] = calls[i] \/ call'[i] = [calls[i] EXCEPT !.live = FALSE]
  BY DEF CallsBecome
<1> QED BY <1>2, <1>3 DEF Waiting

LEMMA WithoutCreate ==
  ASSUME NEW p \in Page
  PROVE  LET q == [p EXCEPT !.create = None] IN q \in Page /\ q.create = None
BY DEF Page

LEMMA CreateFailsShows ==
  ASSUME ShownInv, NEW n \in Mounts, CreateFails(n)
  PROVE  CallsShow' /\ OverlaysShow' /\ WaitersShow' /\ CreatesFit'
<1> DEFINE calls == [i \in Calls |-> IF i \in Waiting(n) THEN NoCall ELSE call[i]]
<1>1. /\ calls \in [Calls -> Call] /\ CallsBecome(calls)
      /\ \A i \in Calls : calls[i] = IF i \in Waiting(n) THEN NoCall ELSE call[i]
  BY NoCallIsACall DEF ShownInv, ShopInv, ShopTypeOK, CreateFails, WaitersEnd
<1> HIDE DEF calls
<1>2. CallsOK(calls)
  BY <1>1, NoCallIsACall, Typed DEF ShownInv, ShopInv, CallsOK
<1>3. CallsShow' /\ OverlaysShow'
  BY <1>1, <1>2, NoCallIsACall, OthersShow DEF ShownInv, CallsShow, CreateFails
<1>4. LET q == [page[n] EXCEPT !.create = None] IN q \in Page /\ q.create = None
  BY Typed, WithoutCreate DEF ShownInv, ShopInv
<1>5. \A i \in Calls : call'[i].pc = "create" =>
        /\ call[i].pc = "create" /\ call[i].page # n
        /\ call'[i].page = call[i].page /\ call'[i].shown = call[i].shown
  BY <1>1, NoCallIsACall, WaitersOn
<1>6. WaitersShow' /\ CreatesFit'
  BY <1>4, <1>5, CreateEndShows DEF CreateFails
<1> QED BY <1>3, <1>6

\* The order that the API made for a create.
LEMMA MadeAsks ==
  ASSUME ShopInv, NEW n \in Mounts, CreateAnswered(n)
  PROVE  /\ NewOrder \in Orders /\ order[NewOrder] = None
         /\ \A y \in Orders : y # NewOrder => order'[y] = order[y]
         /\ order'[NewOrder].cart = page[n].create.cart
<1>1. NewOrder \in Orders /\ order[NewOrder] = None
  BY DEF CreateAnswered, NewOrder, Untaken
<1> QED BY <1>1, OrderIsMade DEF Made

LEMMA CreateAnsweredShows ==
  ASSUME ShownInv, NEW n \in Mounts, CreateAnswered(n)
  PROVE  CallsShow' /\ OverlaysShow' /\ WaitersShow' /\ CreatesFit'
<1>1. PICK o \in Orders :
      /\ o = NewOrder /\ order[o] = None /\ page[n].create # None
      /\ \A y \in Orders : y # o => order'[y] = order[y]
      /\ order'[o].cart = page[n].create.cart
      /\ UNCHANGED <<cart, current, overlays>> /\ page[n] \in Page
  BY MadeAsks, Typed DEF ShownInv, ShopInv, CreateAnswered
<1>2. /\ \A i \in Calls : call[i].pc \notin {"idle", "create"} =>
           call[i].id \in Orders /\ call[i].id # o
      /\ \A v \in overlays : v.id \in Orders /\ v.id # o
  <2>1. /\ \A i \in Calls : call[i].pc \notin {"idle", "create"} =>
             order[call[i].id] # None /\ call[i].id \in Orders
        /\ \A v \in overlays : order[v.id] # None /\ v.id \in Orders
    BY Typed DEF ShownInv, ShopInv, ShopTypeOK, CallsOK, Known, Held
  <2> QED BY <1>1, <2>1
<1>3. OverlaysShow'
  BY <1>1, <1>2 DEF ShownInv, OverlaysShow, Asked
<1>4. ASSUME NEW calls \in [Calls -> Call], CallsBecome(calls),
             \A i \in Calls :
               \/ i \notin Waiting(n) /\ calls[i] = call[i]
               \/ calls[i] = NoCall
               \/ /\ i \in Waiting(n) /\ calls[i] = Proceeds(call[i], o)
                  /\ call[i].shown = Asked(o)'
      PROVE  CallsShow' /\ \A i \in Calls : call'[i].pc = "create" =>
               /\ call[i].pc = "create" /\ call[i].page # n
               /\ call'[i].page = call[i].page /\ call'[i].shown = call[i].shown
  <2>1. \A i \in Calls : call[i] \in Call /\ (call[i].pc # "idle" =>
          call[i].page \in Mounts /\ call[i].shown \in Shown)
    BY Typed DEF ShownInv, ShopInv, CallsOK
  <2>2. \A i \in Calls : i \in Waiting(n) => LET w == Proceeds(call[i], o) IN
          /\ w.pc \in {"token", "session"} /\ w.id = o /\ w.page = call[i].page
          /\ w.shown = call[i].shown /\ call[i].pc = "create"
    BY <1>1, <2>1, ProceedsIsACall DEF Waiting
  <2>3. CallsOK(calls)
    <3> SUFFICES ASSUME NEW i \in Calls
                 PROVE  /\ calls[i].pc # "idle" =>
                             calls[i].page \in Mounts /\ calls[i].shown \in Shown
                        /\ calls[i].pc \notin {"idle", "create"} => calls[i].id \in Orders
      BY <1>4 DEF CallsOK
    <3>1. CASE calls[i] = call[i]
      BY <1>2, <2>1, <3>1
    <3>2. CASE calls[i] = NoCall
      BY <3>2, NoCallIsACall
    <3>3. CASE i \in Waiting(n) /\ calls[i] = Proceeds(call[i], o)
      BY <1>1, <2>1, <2>2, <3>3
    <3> QED BY <1>4, <3>1, <3>2, <3>3
  <2>4. ASSUME NEW i \in Calls, calls[i].pc \notin {"idle", "create"}
        PROVE  calls[i].shown = Asked(calls[i].id)'
    <3>1. CASE calls[i] = call[i]
      <4>1. call[i].shown = Asked(call[i].id) /\ call[i].id \in Orders /\ call[i].id # o
        BY <1>2, <2>4, <3>1 DEF ShownInv, CallsShow
      <4> QED BY <1>1, <3>1, <4>1 DEF Asked
    <3>2. CASE calls[i] = NoCall
      BY <2>4, <3>2, NoCallIsACall
    <3>3. CASE i \in Waiting(n) /\ calls[i] = Proceeds(call[i], o) /\ call[i].shown = Asked(o)'
      <4>1. calls[i].id = o /\ calls[i].shown = call[i].shown
        BY <2>2, <3>3
      <4>2. call[i].shown = [cart |-> order'[o].cart, total |-> order'[o].total]
        BY <3>3 DEF Asked
      <4>3. Asked(calls[i].id)' = [cart |-> order'[calls[i].id].cart,
                                   total |-> order'[calls[i].id].total]
        BY <1>4 DEF Asked
      <4> QED BY <4>1, <4>2, <4>3
    <3> QED BY <1>4, <3>1, <3>2, <3>3
  <2>5. CallsShow'
    <3>1. \A i \in Calls : /\ call'[i].pc = calls[i].pc /\ call'[i].id = calls[i].id
                           /\ call'[i].shown = calls[i].shown
      BY <1>4, <2>3, CallsAfter
    <3> QED BY <2>4, <3>1 DEF CallsShow, Asked
  <2>6. \A i \in Calls : \/ i \notin Waiting(n) /\ calls[i] = call[i]
                         \/ calls[i].pc # "create"
    BY <1>4, <2>2, NoCallIsACall
  <2> QED BY <1>4, <2>5, <2>6, WaitersOn
<1>5. CASE /\ StillCurrent(n)
           /\ PageBecomes(n, [page[n] EXCEPT !.create = None, !.txn = o])
           /\ CallsBecome([i \in Calls |->
                IF i \notin Waiting(n) THEN call[i]
                ELSE IF Agrees(call[i], o) THEN Proceeds(call[i], o) ELSE NoCall])
  <2> DEFINE calls == [i \in Calls |->
                IF i \notin Waiting(n) THEN call[i]
                ELSE IF Agrees(call[i], o) THEN Proceeds(call[i], o) ELSE NoCall]
             q == [page[n] EXCEPT !.create = None, !.txn = o]
  <2>1. q \in Page /\ q.create = None
    <3> DEFINE r == [page[n] EXCEPT !.create = None]
    <3>1. r \in Page /\ r.create = None
      BY <1>1, WithoutCreate
    <3>2. q = [r EXCEPT !.txn = o]
      OBVIOUS
    <3> HIDE DEF r, q
    <3> QED BY <1>1, <3>1, <3>2 DEF Page
  <2>2. calls \in [Calls -> Call]
    BY <1>1, Typed, NoCallIsACall, ProceedsIsACall DEF ShownInv, ShopInv
  <2>3. ASSUME NEW i \in Calls, i \in Waiting(n), Agrees(call[i], o)
        PROVE  call[i].shown = Asked(o)'
    <3>1. call[i].pc = "create" /\ call[i].page = n /\ call[i].shown.total = order'[o].total
      BY <2>3 DEF Waiting, Agrees
    <3>2. call[i].shown.cart = page[n].create.cart
      <4>1. Waits(i)
        BY <3>1 DEF ShownInv, WaitersShow
      <4> QED BY <1>5, <3>1, <4>1 DEF StillCurrent, Waits
    <3>3. call[i].shown \in Shown
      BY <3>1, Typed DEF ShownInv, ShopInv, CallsOK
    <3>4. call[i].shown = [cart |-> call[i].shown.cart, total |-> call[i].shown.total]
      BY <3>3 DEF Shown
    <3>5. call[i].shown = [cart |-> order'[o].cart, total |-> order'[o].total]
      BY <1>1, <3>1, <3>2, <3>4
    <3> QED BY <3>5 DEF Asked
  <2>4. \A i \in Calls :
          \/ i \notin Waiting(n) /\ calls[i] = call[i]
          \/ calls[i] = NoCall
          \/ /\ i \in Waiting(n) /\ calls[i] = Proceeds(call[i], o)
             /\ call[i].shown = Asked(o)'
    BY <2>3
  <2>5. CallsBecome(calls) /\ PageBecomes(n, q)
    BY <1>5
  <2> HIDE DEF calls, q
  <2>6. CallsShow' /\ \A i \in Calls : call'[i].pc = "create" =>
          /\ call[i].pc = "create" /\ call[i].page # n
          /\ call'[i].page = call[i].page /\ call'[i].shown = call[i].shown
    BY <1>4, <2>2, <2>4, <2>5
  <2> QED BY <1>1, <1>3, <2>1, <2>5, <2>6, CreateEndShows
<1>6. CASE PageBecomes(n, [page[n] EXCEPT !.create = None]) /\ WaitersEnd(n)
  <2> DEFINE calls == [i \in Calls |-> IF i \in Waiting(n) THEN NoCall ELSE call[i]]
  <2>1. LET q == [page[n] EXCEPT !.create = None] IN q \in Page /\ q.create = None
    BY <1>1, WithoutCreate
  <2>2. /\ calls \in [Calls -> Call] /\ CallsBecome(calls)
        /\ \A i \in Calls : (i \notin Waiting(n) /\ calls[i] = call[i]) \/ calls[i] = NoCall
    BY <1>6, Typed, NoCallIsACall DEF ShownInv, ShopInv, WaitersEnd
  <2> HIDE DEF calls
  <2>3. CallsShow' /\ \A i \in Calls : call'[i].pc = "create" =>
          /\ call[i].pc = "create" /\ call[i].page # n
          /\ call'[i].page = call[i].page /\ call'[i].shown = call[i].shown
    BY <1>4, <2>2
  <2> QED BY <1>1, <1>3, <1>6, <2>1, <2>3, CreateEndShows
<1> QED BY <1>1, <1>5, <1>6 DEF CreateAnswered

\* Which steps write the rows of the orders, open result pages and touch the cart.
LEMMA WhoWrites ==
  ASSUME [Next]_vars
  PROVE  /\ \/ UNCHANGED order
            \/ \E n \in Mounts : CreateAnswered(n)
            \/ \E i \in Calls : TokenAnswered(i)
            \/ \E v \in overlays : OverlayPaid(v)
            \/ \E o \in Orders : Settles(o)
         /\ \/ results' \subseteq results
            \/ \E i \in Calls : PayAnswered(i)
            \/ \E v \in overlays : OverlayPaid(v)
            \/ \E o \in Orders : OpenResult(o)
         /\ \/ UNCHANGED cart
            \/ \E c \in Carts \cup {None} : EditCart(c)
            \/ \E i \in Calls : PayAnswered(i)
            \/ \E o \in Orders : ResultAnswered(o)
<1> DEFINE Idles == UNCHANGED <<order, cart>> /\ results' \subseteq results
<1>1. ASSUME OpenCheckout \/ LeaveCheckout \/ Reload \/ ScriptLoads \/ ScriptFails \/ UNCHANGED vars
      PROVE  Idles
  <2>1. CASE OpenCheckout \/ LeaveCheckout
    BY <2>1 DEF OpenCheckout, LeaveCheckout, CartStays
  <2>2. CASE Reload \/ UNCHANGED vars
    BY <2>2 DEF Reload, vars
  <2>3. CASE ScriptLoads \/ ScriptFails
    BY <2>3 DEF ScriptLoads, ScriptFails
  <2> QED BY <1>1, <2>1, <2>2, <2>3
<1>2. ASSUME NEW n \in Mounts, NEW c \in Cities, EditForm(n, c) \/ QuotesAnswered(n, c) PROVE Idles
  BY <1>2 DEF EditForm, QuotesAnswered
<1>3. ASSUME NEW n \in Mounts, NEW kind \in {"card", "widget"}, Click(n, kind) PROVE Idles
  BY <1>3 DEF Click
<1>4. ASSUME NEW n \in Mounts, \/ ContinueToPayment(n) \/ EditDetails(n) \/ ExtrasAnswered(n)
                               \/ RestoreAnswered(n) \/ RestoreRefused(n) \/ RestoreFails(n)
                               \/ CreateFails(n)
      PROVE  Idles
  BY <1>4 DEF ContinueToPayment, EditDetails, ExtrasAnswered, RestoreAnswered, RestoreRefused,
              RestoreFails, ForgetsPending, CreateFails
<1>5. ASSUME NEW n \in Mounts, CreateAnswered(n) PROVE UNCHANGED <<cart, results>>
  BY <1>5 DEF CreateAnswered
<1>6. ASSUME NEW i \in Calls, SessionAnswered(i) \/ OverlayOpens(i) PROVE Idles
  BY <1>6 DEF SessionAnswered, OverlayOpens
<1>7. ASSUME NEW i \in Calls, TokenAnswered(i) PROVE UNCHANGED <<cart, results>>
  BY <1>7 DEF TokenAnswered
<1>8. ASSUME NEW i \in Calls, PayAnswered(i) PROVE UNCHANGED order
  BY <1>8 DEF PayAnswered
<1>9. ASSUME NEW v \in overlays, OverlayPaid(v) PROVE UNCHANGED cart
  BY <1>9 DEF OverlayPaid, CartStays
<1>10. ASSUME NEW v \in overlays, OverlayCloses(v) PROVE Idles
  BY <1>10 DEF OverlayCloses
<1>11. ASSUME NEW o \in Orders, OpenResult(o) PROVE UNCHANGED <<order, cart>>
  BY <1>11 DEF OpenResult, CartStays
<1>12. ASSUME NEW o \in Orders, ResultAnswered(o)
       PROVE  UNCHANGED order /\ results' \subseteq results
  BY <1>12 DEF ResultAnswered
<1>13. ASSUME NEW o \in Orders, Settles(o) PROVE UNCHANGED <<cart, results>>
  BY <1>13 DEF Settles
<1>14. ASSUME NEW c \in Carts \cup {None}, EditCart(c)
       PROVE  UNCHANGED order /\ results' \subseteq results
  BY <1>14 DEF EditCart
<1>15. Idles => /\ UNCHANGED order /\ UNCHANGED cart /\ results' \subseteq results
  OBVIOUS
<1> HIDE DEF Idles
<1> QED BY <1>1, <1>2, <1>3, <1>4, <1>5, <1>6, <1>7, <1>8, <1>9, <1>10, <1>11, <1>12, <1>13,
           <1>14, <1>15 DEF Next

LEMMA ResultsStayKnown ==
  ASSUME ShownInv, [Next]_vars
  PROVE  ResultsKnown'
<1>0. ShopInv /\ results \subseteq Orders /\ \A o \in results : order[o] # None
  BY RestStays DEF ShownInv, ResultsKnown, RestOK
<1>1. \A o \in Orders : order[o] # None => order'[o] # None
  <2>1. CASE UNCHANGED order
    BY <2>1
  <2>2. ASSUME NEW n \in Mounts, CreateAnswered(n)
        PROVE  \A o \in Orders : order[o] # None => order'[o] # None
    BY <1>0, <2>2, MadeAsks
  <2>3. ASSUME NEW i \in Calls, TokenAnswered(i)
        PROVE  \A o \in Orders : order[o] # None => order'[o] # None
    <3>1. call[i].id \in Orders /\ Held(call[i].id)
      BY <1>0, <2>3, Typed DEF TokenAnswered, ShopInv, CallsOK, Held
    <3> QED BY <1>0, <2>3, <3>1, ChargedCalm DEF TokenAnswered, OrdersCalm, SameOrders, SameOrder
  <2>4. ASSUME NEW v \in overlays, OverlayPaid(v)
        PROVE  \A o \in Orders : order[o] # None => order'[o] # None
    <3>1. v.id \in Orders /\ Held(v.id)
      BY <1>0, RestStays DEF Overlays, Held
    <3> QED BY <1>0, <2>4, <3>1, ChargedCalm DEF OverlayPaid, OrdersCalm, SameOrders, SameOrder
  <2>5. ASSUME NEW x \in Orders, Settles(x)
        PROVE  \A o \in Orders : order[o] # None => order'[o] # None
    <3>1. PICK s \in {"approved", "ended"} : order' = [order EXCEPT ![x].status = s]
      BY <2>5 DEF Settles
    <3>2. order[x] \in Order /\ order \in [Orders -> Order \cup {None}]
      BY <1>0, <2>5, Typed DEF Settles, ShopInv, ShopTypeOK
    <3>3. [order[x] EXCEPT !.status = s] \in Order
      BY <3>2 DEF Order
    <3>4. [order[x] EXCEPT !.status = s] # None
      BY <3>3, RecordAssumption
    <3> QED BY <3>1, <3>2, <3>4
  <2> QED BY <2>1, <2>2, <2>3, <2>4, <2>5, WhoWrites
<1>2. \A o \in results' : o \in Orders /\ order[o] # None
  <2>1. CASE results' \subseteq results
    BY <1>0, <2>1
  <2>2. ASSUME NEW i \in Calls, PayAnswered(i)
        PROVE  \A o \in results' : o \in Orders /\ order[o] # None
    <3>1. call[i].id \in Orders /\ order[call[i].id] # None
      BY <1>0, <2>2, Typed DEF PayAnswered, ShopInv, CallsOK, Known, Held
    <3> QED BY <1>0, <2>2, <3>1 DEF PayAnswered
  <2>3. ASSUME NEW v \in overlays, OverlayPaid(v)
        PROVE  \A o \in results' : o \in Orders /\ order[o] # None
    <3>1. v.id \in Orders /\ order[v.id] # None
      BY <1>0, RestStays DEF Overlays, ShopInv, Known, Held
    <3> QED BY <1>0, <2>3, <3>1 DEF OverlayPaid
  <2>4. ASSUME NEW x \in Orders, OpenResult(x)
        PROVE  \A o \in results' : o \in Orders /\ order[o] # None
    BY <1>0, <2>4 DEF OpenResult
  <2> QED BY <2>1, <2>2, <2>3, <2>4, WhoWrites
<1> QED BY <1>1, <1>2 DEF ResultsKnown

LEMMA ShownInvHolds == Spec => []ShownInv
<1>1. Init => ShownInv
  <2> SUFFICES ASSUME Init PROVE ShownInv
    OBVIOUS
  <2>1. \A i \in Calls : call[i].pc = "idle"
    BY NoCallIsACall DEF Init
  <2>2. current = None /\ overlays = {} /\ results = {}
    BY DEF Init
  <2> QED
    BY <2>1, <2>2, InvInitially, ShopAssumption
       DEF ShownInv, CallsShow, OverlaysShow, WaitersShow, CreatesFit, CreateFits,
           ResultsKnown
<1>2. ShownInv /\ [Next]_vars => ShownInv'
  <2> SUFFICES ASSUME ShownInv, [Next]_vars PROVE ShownInv'
    OBVIOUS
  <2>1. ShopInv'
    BY InvKept DEF ShownInv
  <2>2. CallsShow' /\ OverlaysShow' /\ WaitersShow' /\ CreatesFit'
    BY QuietSteps, QuietKeeps, ReloadShows, CreateFailsShows, CreateAnsweredShows, ClickShows
       DEF ShownInv
  <2> QED BY <2>1, <2>2, ResultsStayKnown DEF ShownInv
<1> QED BY <1>1, <1>2, PTL DEF Spec

-----------------------------------------------------------------------------
(* What is charged, remembered and emptied. *)

LEMMA GoesOnTo ==
  ASSUME ShopInv, NEW i \in Calls, NEW pc \in {"token", "pay", "session", "script"},
         call[i].pc \notin {"idle", "create"}, CallsBecome([call EXCEPT ![i].pc = pc])
  PROVE  call'[i].pc = pc
<1> DEFINE calls == [call EXCEPT ![i].pc = pc]
<1>1. calls[i] = [call[i] EXCEPT !.pc = pc] /\ call[i] \in Call
  BY Typed DEF ShopInv, ShopTypeOK
<1> HIDE DEF calls
<1>2. calls[i].pc = pc /\ [calls[i] EXCEPT !.live = FALSE].pc = pc
  BY <1>1 DEF Call
<1>3. call'[i] = calls[i] \/ call'[i] = [calls[i] EXCEPT !.live = FALSE]
  BY DEF CallsBecome, calls
<1> QED BY <1>2, <1>3

LEMMA EndsAtOnce ==
  ASSUME ShopInv, NEW i \in Calls, Ends(i)
  PROVE  call'[i].pc = "idle"
<1> DEFINE calls == [call EXCEPT ![i] = NoCall]
<1>1. calls[i] = NoCall
  BY DEF ShopInv, ShopTypeOK
<1> HIDE DEF calls
<1>2. calls[i].pc = "idle" /\ [calls[i] EXCEPT !.live = FALSE].pc = "idle"
  BY <1>1, NoCallIsACall DEF Call
<1>3. call'[i] = calls[i] \/ call'[i] = [calls[i] EXCEPT !.live = FALSE]
  BY DEF CallsBecome, Ends, calls
<1> QED BY <1>2, <1>3

\* A charge begins with the answer to a token, or when the widget is paid.
LEMMA WhoCharges ==
  ASSUME ShopInv, [Next]_vars, NEW o \in Orders, order[o] # None, order[o].status = "pending",
         order'[o].status = "charging"
  PROVE  \/ \E i \in Calls : /\ call[i].pc = "token" /\ call[i].id = o
                             /\ CallsBecome([call EXCEPT ![i].pc = "pay"])
         \/ \E v \in overlays : v.id = o /\ v \notin overlays'
<1>0. order \in [Orders -> Order \cup {None}]
  BY DEF ShopInv, ShopTypeOK
<1>1. order' # order
  OBVIOUS
<1>2. ASSUME NEW x \in Orders, Charged(x) PROVE x = o
  BY <1>0, <1>2 DEF Charged
<1>3. ASSUME NEW n \in Mounts, CreateAnswered(n) PROVE FALSE
  BY <1>3, MadeAsks
<1>4. ASSUME NEW x \in Orders, Settles(x) PROVE FALSE
  <2>1. PICK s \in {"approved", "ended"} : order' = [order EXCEPT ![x].status = s]
    BY <1>4 DEF Settles
  <2>2. order[o] \in Order
    BY Typed DEF ShopInv
  <2>3. order'[o] = IF x = o THEN [order[o] EXCEPT !.status = s] ELSE order[o]
    BY <1>0, <2>1
  <2>4. [order[o] EXCEPT !.status = s].status = s
    BY <2>2 DEF Order
  <2> QED BY <2>3, <2>4
<1>5. ASSUME NEW i \in Calls, TokenAnswered(i)
      PROVE  /\ call[i].pc = "token" /\ call[i].id = o
             /\ CallsBecome([call EXCEPT ![i].pc = "pay"])
  <2>1. call[i].id \in Orders
    BY <1>5, Typed DEF TokenAnswered, ShopInv, CallsOK
  <2> QED BY <1>1, <1>2, <1>5, <2>1 DEF TokenAnswered
<1>6. ASSUME NEW v \in overlays, OverlayPaid(v) PROVE v.id = o /\ v \notin overlays'
  <2>1. v.id \in Orders
    BY RestStays DEF Overlays
  <2> QED BY <1>2, <1>6, <2>1 DEF OverlayPaid
<1>7. \/ \E n \in Mounts : CreateAnswered(n)
      \/ \E i \in Calls : TokenAnswered(i)
      \/ \E v \in overlays : OverlayPaid(v)
      \/ \E x \in Orders : Settles(x)
  BY <1>1, WhoWrites
<1> QED BY <1>3, <1>4, <1>5, <1>6, <1>7

\* Wompi charges what the shopper saw when they asked for it, for any carts, fees, prices,
\* pages and calls: whatever is edited, answered late or shared by several clicks, the
\* order whose charge begins has the lines and the total that the page showed
\* (resolveTransactionId, reconcileChargeTotal).
THEOREM ChargedAsShownHolds == Spec => ChargedAsShown
<1>1. ASSUME ShownInv, [Next]_vars, NEW o \in Orders, order[o] # None,
             order[o].status = "pending", order'[o].status = "charging"
      PROVE  LET o1 == [cart |-> order[o].cart, total |-> order[o].total] IN
               \/ \E i \in Calls : call[i].pc = "token" /\ call[i].id = o
                                 /\ call'[i].pc = "pay" /\ call[i].shown = o1
               \/ [id |-> o, shown |-> o1] \in overlays \ overlays'
  <2>1. ShopInv
    BY <1>1 DEF ShownInv
  <2>2. ASSUME NEW i \in Calls, call[i].pc = "token", call[i].id = o,
               CallsBecome([call EXCEPT ![i].pc = "pay"])
        PROVE  call'[i].pc = "pay" /\ call[i].shown = Asked(o)
    BY <1>1, <2>1, <2>2, GoesOnTo DEF ShownInv, CallsShow
  <2>3. ASSUME NEW v \in overlays, v.id = o, v \notin overlays'
        PROVE  [id |-> o, shown |-> Asked(o)] \in overlays \ overlays'
    <3>1. v \in [id : Orders, shown : Shown] /\ v.shown = Asked(o)
      BY <1>1, <2>1, <2>3, RestStays DEF Overlays, ShownInv, OverlaysShow
    <3>2. v = [id |-> o, shown |-> Asked(o)]
      BY <2>3, <3>1
    <3> QED BY <2>3, <3>2
  <2> QED BY <1>1, <2>1, <2>2, <2>3, WhoCharges DEF Asked
<1>2. ShownInv /\ [Next]_vars =>
        \A o \in Orders :
          order[o] # None /\ order[o].status = "pending" /\ order'[o].status = "charging"
            => LET o1 == [cart |-> order[o].cart, total |-> order[o].total] IN
                 \/ \E i \in Calls : call[i].pc = "token" /\ call[i].id = o
                                   /\ call'[i].pc = "pay" /\ call[i].shown = o1
                 \/ [id |-> o, shown |-> o1] \in overlays \ overlays'
  BY <1>1
<1> QED BY <1>2, ShownInvHolds, PTL DEF Spec, ChargedAsShown

\* An answer that finds its page left, or its round given up, makes no order the one to
\* resume whose lines are not in the cart: what is remembered when a create is answered
\* is made of the cart as it is.
THEOREM LateOrdersFitTheCartHolds == Spec => LateOrdersFitTheCart
<1>1. ASSUME ShownInv, [Next]_vars, NEW n \in Mounts, page[n].create # None,
             page'[n].create = None, store'.pending # store.pending
      PROVE  order'[store'.pending].cart = cart
  <2>1. ShopInv
    BY <1>1 DEF ShownInv
  <2>2. ~ Quiet
    BY <1>1 DEF Quiet, PagesKept, PageKept, Kept
  <2>3. ~ Reload /\ \A m \in Mounts : ~ CreateFails(m)
    BY <1>1 DEF Reload, CreateFails
  <2>4. \A m \in Mounts : \A kind \in {"card", "widget"} : ~ Click(m, kind)
    BY <1>1 DEF Click
  <2>5. PICK m \in Mounts : CreateAnswered(m)
    BY <1>1, <2>1, <2>2, <2>3, <2>4, QuietSteps
  <2>6. StillCurrent(m) /\ store' = Remembered(store, NewOrder, page[m].create.cart)
    BY <1>1, <2>5 DEF CreateAnswered
  <2>7. store'.pending = NewOrder
    <3>1. store \in Store
      BY <2>1, RestStays
    <3> QED BY <2>6, <3>1 DEF Remembered, Store
  <2>8. order'[NewOrder].cart = page[m].create.cart
    BY <2>1, <2>5, MadeAsks
  <2> QED BY <2>6, <2>7, <2>8 DEF StillCurrent
<1>2. ShownInv /\ [Next]_vars =>
        \A n \in Mounts :
          page[n].create # None /\ page'[n].create = None /\ store'.pending # store.pending
            => order'[store'.pending].cart = cart
  BY <1>1
<1> QED BY <1>2, ShownInvHolds, PTL DEF Spec, LateOrdersFitTheCart

\* A cart is emptied by the shopper or by an order that the API has said is APPROVED,
\* and by no answer that is late, lost or of a page that was left (finalizeCheckout).
THEOREM OnlyApprovalEmptiesTheCartHolds == Spec => OnlyApprovalEmptiesTheCart
<1> DEFINE Emptied ==
             \/ EditCart(None)
             \/ \E o \in Orders :
                  /\ order[o] # None /\ order[o].status = "approved"
                  /\ \/ o \in results \ results'
                     \/ \E i \in Calls :
                          call[i].pc = "pay" /\ call[i].id = o /\ call'[i].pc = "idle"
<1>1. ASSUME ShownInv, [Next]_vars, cart # None, cart' = None PROVE Emptied
  <2>0. ShopInv
    BY <1>1 DEF ShownInv
  <2>1. ASSUME NEW o, Finalize(o) PROVE order[o].status = "approved"
    BY <1>1, <2>1 DEF Finalize, CartStays
  <2>2. ASSUME NEW i \in Calls, PayAnswered(i)
        PROVE  /\ call[i].id \in Orders /\ order[call[i].id] # None
               /\ order[call[i].id].status = "approved"
               /\ call[i].pc = "pay" /\ call'[i].pc = "idle"
    <3>1. call[i].pc = "pay" /\ Ends(i) /\ Finalize(call[i].id)
      BY <1>1, <2>2 DEF PayAnswered
    <3>2. call[i].id \in Orders /\ order[call[i].id] # None
      BY <2>0, <3>1, Typed DEF ShopInv, CallsOK, Known, Held
    <3> QED BY <2>0, <2>1, <3>1, <3>2, EndsAtOnce
  <2>3. ASSUME NEW o \in Orders, ResultAnswered(o)
        PROVE  order[o] # None /\ order[o].status = "approved" /\ o \in results \ results'
    <3>1. Finalize(o) /\ o \in results /\ results' = results \ {o}
      BY <1>1, <2>3 DEF ResultAnswered, CartStays
    <3> QED BY <1>1, <2>1, <3>1 DEF ShownInv, ResultsKnown
  <2>4. \/ \E c \in Carts \cup {None} : EditCart(c)
        \/ \E i \in Calls : PayAnswered(i)
        \/ \E o \in Orders : ResultAnswered(o)
    BY <1>1, WhoWrites
  <2>5. ASSUME NEW c \in Carts \cup {None}, EditCart(c) PROVE EditCart(None)
    <3>1. c = None
      BY <1>1, <2>5 DEF EditCart, CartBecomes
    <3> QED BY <2>5, <3>1
  <2> QED BY <2>2, <2>3, <2>4, <2>5
<1>2. ShownInv /\ [Next]_vars => (cart # None /\ cart' = None => Emptied)
  BY <1>1
<1> QED BY <1>2, ShownInvHolds, PTL DEF Spec, OnlyApprovalEmptiesTheCart
=============================================================================
