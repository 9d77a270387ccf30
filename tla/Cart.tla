-------------------------------- MODULE Cart --------------------------------
(***************************************************************************)
(* The cart of the shop in the tabs of one browser: quantities against the *)
(* stock that a page showed when it was loaded, the copy of the lines in   *)
(* localStorage that the tabs share, and the pages that offer products,    *)
(* whose requests are overtaken by navigation.  A tab reads the stored     *)
(* lines only when it loads; each change of its store, the opening of the  *)
(* sheet included, writes them.                                            *)
(***************************************************************************)
EXTENDS Integers, SequencesExt

CONSTANTS
  Products,
  Tabs,          \* the tabs of one browser
  MaxStock,      \* bounds the stock of a product
  MaxActs,       \* bounds the acts of shoppers and of the shop together
  EarlierCarts   \* carts that earlier versions of the shop may have stored

Line == [id : Products, qty : Nat \ {0}, stock : Nat \ {0}]

ASSUME CartAssumption ==
  /\ MaxStock \in Nat \ {0} /\ MaxActs \in Nat
  /\ EarlierCarts \subseteq Seq(Line)
  /\ Products \cap {"list", "checkout"} = {}

VARIABLES
  stock,    \* stock[p]: available units in the API's catalog
  stored,   \* the lines in localStorage
  lines,    \* lines[t]: the cart of tab t
  isOpen,   \* isOpen[t]: the cart sheet covers the page
  opening,  \* opening[t]: openAfterAdd is set
  screen,   \* screen[t]: the route of the tab, and the products it shows
  asks,     \* asks[t]: requests of the tab that have no answer yet
  acts

vars == <<stock, stored, lines, isOpen, opening, screen, asks, acts>>

\* Each page that asks the catalog: the list, and the page of each product.
Pages == {"list"} \cup Products
Routes == Pages \cup {"checkout"}

Nothing == <<>>

CartTypeOK ==
  /\ stock \in [Products -> 0..MaxStock]
  /\ stored \in Seq(Line)
  /\ lines \in [Tabs -> Seq(Line)]
  /\ isOpen \in [Tabs -> BOOLEAN] /\ opening \in [Tabs -> BOOLEAN]
  /\ \A t \in Tabs :
       /\ screen[t].route \in Routes /\ DOMAIN screen[t].shown \subseteq Products
       /\ asks[t] \subseteq [page : Pages, aborted : BOOLEAN]

Act == acts < MaxActs /\ acts' = acts + 1

-----------------------------------------------------------------------------
(* Lines. *)

InCart(ls, p) == \E i \in DOMAIN ls : ls[i].id = p

\* The line of a product that is in the cart; there is one.
LineOf(ls, p) == ls[CHOOSE i \in DOMAIN ls : ls[i].id = p]

\* The lines that are in S.
Filter(ls, S) ==
  FoldLeft(LAMBDA kept, l : IF l \in S THEN Append(kept, l) ELSE kept, Nothing, ls)

\* The lines with F applied to the line of p.
WithLine(ls, p, F(_)) == [i \in DOMAIN ls |-> IF ls[i].id = p THEN F(ls[i]) ELSE ls[i]]

AtMost(n, bound) == IF n < bound THEN n ELSE bound
AtLeast(n, bound) == IF n > bound THEN n ELSE bound

\* isCartLine: a stored line that asks for more than its stock is not one.
IsCartLine(l) == l.qty <= l.stock

\* Mutant of Merged: the lines are not compared.
Collected(ls, l) == Append(ls, l)

\* One round of the loop of normalizeLines.
Merged(ls, l) ==
  IF ~ InCart(ls, l.id) THEN Append(ls, l)
  ELSE WithLine(ls, l.id, LAMBDA old :
         LET most == AtLeast(old.stock, l.stock) IN
           [old EXCEPT !.stock = most, !.qty = AtMost(old.qty + l.qty, most)])

ParseStoredLines(ls) == FoldLeft(Merged, Nothing, Filter(ls, {l \in Line : IsCartLine(l)}))

\* Mutants of Added: the comparison is off by one; a product that is sold out is taken.
AddedPastStock(ls, p, available) ==
  IF ~ InCart(ls, p) THEN Append(ls, [id |-> p, qty |-> 1, stock |-> available])
  ELSE WithLine(ls, p, LAMBDA l :
         [l EXCEPT !.stock = available, !.qty = IF @ > available THEN @ ELSE @ + 1])

\* cart.add of a product that a page shows with the given stock.  A quantity that is
\* above it already stays.
Added(ls, p, available) ==
  IF ~ InCart(ls, p) THEN Append(ls, [id |-> p, qty |-> 1, stock |-> available])
  ELSE WithLine(ls, p, LAMBDA l :
         [l EXCEPT !.stock = available, !.qty = IF @ >= available THEN @ ELSE @ + 1])

-----------------------------------------------------------------------------

\* A tab loads: its store takes the stored lines.
Loaded(t) == lines' = [lines EXCEPT ![t] = ParseStoredLines(stored)]

Init ==
  /\ stock = [p \in Products |-> MaxStock]
  /\ stored \in EarlierCarts
  /\ lines = [t \in Tabs |-> ParseStoredLines(stored)]
  /\ isOpen = [t \in Tabs |-> FALSE] /\ opening = [t \in Tabs |-> FALSE]
  /\ screen = [t \in Tabs |-> [route |-> "list", shown |-> Nothing]]
  /\ asks = [t \in Tabs |-> {[page |-> "list", aborted |-> FALSE]}]
  /\ acts = 0

\* The store of tab t changes, and what it holds is stored.
LinesBecome(t, ls) == lines' = [lines EXCEPT ![t] = ls] /\ stored' = ls

\* The store is asked for a change that may be none.
LinesMayBecome(t, ls) ==
  IF ls = lines[t] THEN UNCHANGED <<lines, stored>> ELSE LinesBecome(t, ls)

-----------------------------------------------------------------------------
(* Pages. *)

\* Mutant of Superseded: the requests of the page that was left stay alive.
LeftAlone(rs) == rs

\* abortScope: the page that is left, or asks anew, aborts what it asked for.
Superseded(rs) == {[r EXCEPT !.aborted = TRUE] : r \in rs}

\* Tab t goes to a page, which shows nothing before its answer.
Goes(t, route) ==
  /\ screen' = [screen EXCEPT ![t] = [route |-> route, shown |-> Nothing]]
  /\ asks' = [asks EXCEPT ![t] = Superseded(@)
        \cup (IF route \in Pages THEN {[page |-> route, aborted |-> FALSE]} ELSE {})]

\* By a link, or by the history of the browser.
Visit(t, page) ==
  /\ Act /\ screen[t].route # page
  /\ Goes(t, page)
  /\ UNCHANGED <<stock, stored, lines, isOpen, opening>>

\* The catalog's answer to the request for a page.
Offer(page) ==
  IF page = "list" THEN stock ELSE [p \in {page} |-> stock[p]]

\* An answer, a failure, or the error of a request that was aborted.
Answered(t, r) ==
  /\ asks' = [asks EXCEPT ![t] = @ \ {r}]
  /\ \/ ~ r.aborted /\ screen' = [screen EXCEPT ![t].shown = Offer(r.page)]
     \/ UNCHANGED screen
  /\ UNCHANGED <<stock, stored, lines, isOpen, opening, acts>>

-----------------------------------------------------------------------------
(* The cart. *)

\* Mutant of OnSale: the button is not disabled.
OnSaleAlways(t, p) == p \in DOMAIN screen[t].shown

\* The button of a product that the page shows in stock.
OnSale(t, p) == p \in DOMAIN screen[t].shown /\ screen[t].shown[p] >= 1

\* addToCart of a page with the stock it shows; the sheet covers the page.  It opens a
\* moment after a quantity was raised.
Add(t, p) ==
  /\ Act /\ ~ isOpen[t] /\ OnSale(t, p)
  /\ LET ls == Added(lines[t], p, screen[t].shown[p]) IN
       /\ LinesMayBecome(t, ls)
       /\ opening' = [opening EXCEPT ![t] = @ \/ ~ InCart(lines[t], p)
                                       \/ LineOf(ls, p).qty > LineOf(lines[t], p).qty]
  /\ UNCHANGED <<stock, isOpen, screen, asks>>

\* Opening and closing are changes of the store too.
Sheet(t, open) ==
  /\ isOpen' = [isOpen EXCEPT ![t] = open]
  /\ LinesBecome(t, lines[t])

OpenSheet(t) ==
  /\ Act /\ ~ isOpen[t] /\ Sheet(t, TRUE)
  /\ UNCHANGED <<stock, opening, screen, asks>>

CloseSheet(t) ==
  /\ isOpen[t] /\ Sheet(t, FALSE)
  /\ UNCHANGED <<stock, opening, screen, asks, acts>>

\* The timer of add; neither closing nor leaving the page stops it.
OpensAfterAdd(t) ==
  /\ opening[t] /\ opening' = [opening EXCEPT ![t] = FALSE]
  /\ IF isOpen[t] THEN UNCHANGED <<stored, lines, isOpen>> ELSE Sheet(t, TRUE)
  /\ UNCHANGED <<stock, screen, asks, acts>>

\* setQuantity.
Clamped(l, n) == AtMost(AtLeast(n, 1), l.stock)

\* The buttons of the sheet, which are disabled at 1 and at the stock of the line.
SetQuantity(t, p) ==
  /\ Act /\ isOpen[t] /\ InCart(lines[t], p)
  /\ LET l == LineOf(lines[t], p) IN
       \E n \in {l.qty - 1, l.qty + 1} :
         /\ n < l.qty => l.qty > 1
         /\ n > l.qty => l.qty < l.stock
         /\ LinesBecome(t, WithLine(lines[t], p, LAMBDA o : [o EXCEPT !.qty = Clamped(o, n)]))
  /\ UNCHANGED <<stock, isOpen, opening, screen, asks>>

RemoveLine(t, p) ==
  /\ Act /\ isOpen[t] /\ InCart(lines[t], p)
  /\ LinesBecome(t, Filter(lines[t], {l \in Line : l.id # p}))
  /\ UNCHANGED <<stock, isOpen, opening, screen, asks>>

ContinueToCheckout(t) ==
  /\ isOpen[t] /\ lines[t] # Nothing
  /\ Sheet(t, FALSE) /\ Goes(t, "checkout")
  /\ UNCHANGED <<stock, opening, acts>>

\* finalizeCheckout: the order of the cart was approved.
FinalizeCheckout(t) ==
  /\ Act /\ screen[t].route = "checkout" /\ LinesBecome(t, Nothing)
  /\ UNCHANGED <<stock, isOpen, opening, screen, asks>>

Reload(t) ==
  /\ Act /\ Loaded(t)
  /\ isOpen' = [isOpen EXCEPT ![t] = FALSE] /\ opening' = [opening EXCEPT ![t] = FALSE]
  /\ screen' = [screen EXCEPT ![t].shown = Nothing]
  /\ asks' = [asks EXCEPT ![t] = IF screen[t].route = "checkout" THEN {}
                                 ELSE {[page |-> screen[t].route, aborted |-> FALSE]}]
  /\ UNCHANGED <<stock, stored>>

\* Orders of anyone are paid, or the shop takes delivery.
StockChanges(p) ==
  /\ Act /\ \E n \in 0..MaxStock : n # stock[p] /\ stock' = [stock EXCEPT ![p] = n]
  /\ UNCHANGED <<stored, lines, isOpen, opening, screen, asks>>

-----------------------------------------------------------------------------

Next ==
  \/ \E t \in Tabs :
       \/ \E page \in Pages : Visit(t, page)
       \/ \E r \in asks[t] : Answered(t, r)
       \/ \E p \in Products : Add(t, p) \/ SetQuantity(t, p) \/ RemoveLine(t, p)
       \/ OpenSheet(t) \/ CloseSheet(t) \/ OpensAfterAdd(t)
       \/ ContinueToCheckout(t) \/ FinalizeCheckout(t) \/ Reload(t)
  \/ \E p \in Products : StockChanges(p)

Spec == Init /\ [][Next]_vars

-----------------------------------------------------------------------------

\* A cart never names a product twice, whatever was stored before and whichever tab
\* stored it: the decrement of the API is wrong for an order with repeated lines
\* (normalizeLines, cart.add).
OneLinePerProduct ==
  \A t \in Tabs : \A i, j \in DOMAIN lines[t] : lines[t][i].id = lines[t][j].id => i = j

\* No step raises the quantity of a product above the stock its line then has: not an
\* add from a page that is out of date, not the buttons, and not a reload that takes or
\* merges what another tab stored.  Only a stock that shrank leaves a line above it.
RaisesStayInStock ==
  [][\A t \in Tabs : \A i \in DOMAIN lines'[t] :
       LET l == lines'[t][i] IN
         \/ l.qty <= l.stock
         \/ \E k \in DOMAIN lines[t] : lines[t][k].id = l.id /\ lines[t][k].qty >= l.qty]_vars

\* A page offers no product that is not its own: the answer of a page that was left
\* comes too late (use-product, use-product-list).
OffersItsOwn ==
  \A t \in Tabs : DOMAIN screen[t].shown \subseteq
    CASE screen[t].route = "list" -> Products
      [] screen[t].route = "checkout" -> {}
      [] OTHER -> {screen[t].route}
=============================================================================
