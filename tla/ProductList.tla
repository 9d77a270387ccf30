----------------------------- MODULE ProductList -----------------------------
(***************************************************************************)
(* The catalog page in the browser: the query in the address bar, the      *)
(* search box with its delay, the requests that are superseded while they  *)
(* are on their way, and the page number, which is corrected when the list *)
(* turns out to be shorter.                                                *)
(***************************************************************************)
EXTENDS ProductReader

CONSTANTS
  Catalogs,  \* the catalogs there may be
  Needles,   \* search terms
  Links,     \* queries of links to the page
  MaxPage,   \* PRODUCT_LIST_OFFSET_PAGE_MAX
  MaxMoves   \* bounds what the shopper does

Sorts == {"name", "price"}
Directions == {"asc", "desc"}
Terms == Needles \cup {None}

Cursors ==
  [sort : Sorts, order : Directions, q : Terms, name : Nat, price : Nat, id : Nat]

\* What the address bar may ask for.  toListProductsQuery drops ids that are repeated,
\* and with ids the rest.
Query ==
  {r \in [q : Terms, sort : Sorts, order : Directions, page : 1 .. MaxPage,
          after : Cursors \cup {None}, before : Cursors \cup {None},
          ids : Seq(Nat) \cup {None}] :
     r.ids # None => /\ IsInjective(r.ids) /\ r.q = None /\ r.page = 1
                     /\ r.after = None /\ r.before = None}

ASSUME ProductListAssumption ==
  /\ PageSize \in Nat \ {0} /\ MaxPage \in Nat \ {0} /\ MaxMoves \in Nat
  /\ Catalogs \subseteq Seq([name : Nat, price : Nat])
  /\ Links \subseteq Query
  /\ None \notin Nat \cup Cursors

\* A cursor in a query was handed out for a product of its list.
CutFrom(cat, r) ==
  \A c \in {r.after, r.before} \ {None} :
    CursorMatches(c, r) =>
      /\ c.id \in Matching(cat, r.q)
      /\ SortKey(c, c.id, r.sort) = SortKey(cat[c.id], c.id, r.sort)

ASSUME LinksAssumption == \A cat \in Catalogs, r \in Links : CutFrom(cat, r)

VARIABLES
  catalog,   \* the products
  query,     \* what the address bar asks for
  behind,    \* the query of the history entry behind this one, or None
  shown,     \* items, total and cursors, or what a failure leaves
  loading,
  requests,  \* the requests on their way, and whether they were aborted
  box,       \* the text in the search box
  timer,     \* the box changed and the delay is running
  moves

vars == <<catalog, query, behind, shown, loading, requests, box, timer, moves>>

Home == [q |-> None, sort |-> "name", order |-> "asc", page |-> 1,
         after |-> None, before |-> None, ids |-> None]

\* HttpCatalogAdapter: the first page is not asked for by its number, and ids are asked
\* for alone.
Sent(r) ==
  IF r.ids # None
    THEN [r EXCEPT !.q = None, !.page = None, !.after = None, !.before = None]
  ELSE [r EXCEPT !.page = IF @ = 1 THEN None ELSE @]

\* pageCount of a list of so many products.
PageCount(r, total) ==
  IF r.ids # None \/ total = 0 THEN 0
  ELSE Min({(total + PageSize - 1) \div PageSize, MaxPage})

\* goToPage.
WithPage(r, p) ==
  IF r.ids # None THEN r
  ELSE [r EXCEPT !.page = Min({p, MaxPage}), !.after = None, !.before = None]

\* Mutant of InRange: the page number is not corrected.
AnyPage(r, total) == r

\* The watcher of the page number and of the page count.
InRange(r, total) ==
  LET count == PageCount(r, total) IN
    IF count > 0 /\ r.page > count THEN WithPage(r, count) ELSE r

CatalogTypeOK ==
  /\ catalog \in Catalogs
  /\ query \in Query /\ behind \in Query \cup {None}
  /\ requests \subseteq [query : Query, aborted : BOOLEAN]
  /\ shown.total \in Nat /\ shown.ok \in BOOLEAN
  /\ loading \in BOOLEAN /\ timer \in BOOLEAN
  /\ box \in Terms /\ moves \in 0 .. MaxMoves

Init ==
  /\ catalog \in Catalogs
  /\ query \in Links /\ behind = None
  /\ shown = [Rejected EXCEPT !.ok = TRUE]
  /\ loading = TRUE
  /\ requests = {[query |-> query, aborted |-> FALSE]}
  /\ box = query.q /\ timer = FALSE /\ moves = 0

-----------------------------------------------------------------------------

\* Mutant of Superseded: the request before is not aborted.
LeftAlone(rs) == rs

\* abortScope.start.
Superseded(rs) == {[r EXCEPT !.aborted = TRUE] : r \in rs}

\* The query in the address bar becomes r, or r with a page that exists in the list of
\* the given length, and is loaded; the box follows the search term.  total is what the
\* last answer said, also if that was for another query.
Becomes(r, total, rs) ==
  LET r1 == InRange(r, total) IN
    /\ query' = r1
    /\ IF r1 = query THEN requests' = rs /\ UNCHANGED loading
       ELSE /\ requests' = Superseded(rs) \cup {[query |-> r1, aborted |-> FALSE]}
            /\ loading' = TRUE

Move == moves < MaxMoves /\ moves' = moves + 1

\* router.replace, with a patch of the query.
Replace(r) == Becomes(r, shown.total, requests) /\ UNCHANGED <<catalog, behind, shown>>

\* What the shopper types waits for the timer.
Type(text) ==
  /\ Move /\ text # box /\ box' = text /\ timer' = TRUE
  /\ UNCHANGED <<catalog, query, behind, shown, loading, requests>>

\* setSearch: the search is of the whole catalog, from its first page.
Searched(text) == [query EXCEPT !.q = text, !.ids = None, !.page = 1,
                               !.after = None, !.before = None]

TimerFires ==
  /\ timer /\ timer' = FALSE
  /\ IF query.q # box THEN Replace(Searched(box))
     ELSE UNCHANGED <<catalog, query, behind, shown, loading, requests>>
  /\ UNCHANGED <<box, moves>>

SearchSubmitted ==
  /\ Move /\ timer' = FALSE /\ Replace(Searched(box)) /\ UNCHANGED box

\* clearSearch; setting the box starts the timer.
ClearSearch ==
  /\ Move /\ query.q # None
  /\ box' = None /\ timer' = (box # None) /\ Replace(Searched(None))

\* setListing of a sort preset.
SetListing(sort, order) ==
  /\ Move /\ <<sort, order>> # <<query.sort, query.order>>
  /\ Replace([query EXCEPT !.sort = sort, !.order = order, !.page = 1,
                           !.after = None, !.before = None])
  /\ UNCHANGED <<box, timer>>

ClearAll ==
  /\ query.q # None \/ query.ids # None \/ <<query.sort, query.order>> # <<"name", "asc">>
  /\ Move /\ box' = None /\ timer' = (box # None) /\ Replace(Home)

\* goPrev, goNext and jumpToDraft of the pager.
GoToPage(p) ==
  /\ ~ loading /\ PageCount(query, shown.total) > 1
  /\ p <= PageCount(query, shown.total)
  /\ Move /\ Replace(WithPage(query, p)) /\ UNCHANGED <<box, timer>>

\* A link, or the history entry behind: the box takes the search term if that is another one.
Enters(r) ==
  /\ Becomes(r, shown.total, requests)
  /\ box' = IF r.q # query.q THEN r.q ELSE box
  /\ timer' = (timer \/ box' # box)
  /\ UNCHANGED <<catalog, shown>>

OpenLink(r) == Move /\ r # query /\ behind' = query /\ Enters(r)
Back == Move /\ behind # None /\ behind' = None /\ Enters(behind)

\* An answer, or a failure.  Of a request that was aborted nobody hears any more; the
\* length of the list may call for another page.
Answered(r) ==
  /\ UNCHANGED <<catalog, behind, box, timer, moves>>
  /\ IF r.aborted
       THEN requests' = requests \ {r} /\ UNCHANGED <<query, shown, loading>>
       ELSE \E answer \in {ListProducts(catalog, Sent(r.query)), Rejected} :
              /\ shown' = answer
              /\ LET r1 == InRange(query, shown'.total)
                     rest == requests \ {r} IN
                   /\ query' = r1
                   /\ loading' = (r1 # query)
                   /\ requests' = IF r1 = query THEN rest
                                  ELSE Superseded(rest) \cup {[query |-> r1, aborted |-> FALSE]}

Next ==
  \/ \E t \in Terms : Type(t)
  \/ TimerFires \/ SearchSubmitted \/ ClearSearch \/ ClearAll \/ Back
  \/ \E s \in Sorts, d \in Directions : SetListing(s, d)
  \/ \E p \in 1 .. MaxPage : GoToPage(p)
  \/ \E r \in Links : OpenLink(r)
  \/ \E r \in requests : Answered(r)

Spec == Init /\ [][Next]_vars

-----------------------------------------------------------------------------

\* What the page shows is the answer to the query in the address bar, whatever was
\* asked for before and answers late; and the search box and the query agree, but for
\* the delay (load of useProductList, the watchers of ProductListPage).
ShownIsAsked ==
  /\ ~ loading /\ shown.ok => shown = ListProducts(catalog, Sent(query))
  /\ ~ timer => box = query.q

\* The answers of the API tile the list: the items of a page follow each other in it,
\* the links lead to the pages right behind and before, with no product left out or
\* shown twice, ties of name or price included, and there is no link at an end.
PagesTile ==
  LET r == Sent(query)
      all == Sorted(catalog, Matching(catalog, r.q), r.sort, r.order)
      from == CHOOSE k \in 1 .. Len(all) : all[k] = Head(shown.items)
      to == from + Len(shown.items) - 1
      Follow(after, before) ==
        ListProducts(catalog, [r EXCEPT !.page = None, !.after = after, !.before = before])
    IN ~ loading /\ shown.ok /\ r.ids = None /\ shown.items # <<>> =>
         /\ shown.items = SubSeq(all, from, to)
         /\ (shown.next = None) <=> (to = Len(all))
         /\ (shown.prev = None) <=> (from = 1)
         /\ shown.next # None =>
              Follow(shown.next, None).items = Window(all, to, PageSize)
         /\ shown.prev # None =>
              Follow(None, shown.prev).items = SubSeq(all, Max({1, from - PageSize}), from - 1)

\* The page comes to rest on a page that the list has: it loads only while a request
\* for its query can still end that, and a page number beyond the end of the list does
\* not stay once its length is known.
ComesToRest ==
  /\ loading => [query |-> query, aborted |-> FALSE] \in requests
  /\ ~ loading /\ PageCount(query, shown.total) > 0 =>
       query.page <= PageCount(query, shown.total)
=============================================================================
