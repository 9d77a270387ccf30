---------------------------- MODULE ProductReader ----------------------------
(***************************************************************************)
(* GET /products: what the API answers to a list query over a catalog.  A  *)
(* catalog is the table of products, whose ids are numbers here, as are    *)
(* names; a search term is the set of names that have it.                  *)
(***************************************************************************)
EXTENDS Integers, Sequences, SequencesExt, FiniteSets

CONSTANTS PageSize, None

Descending(order) == order = "desc"
Inverted(order) == IF Descending(order) THEN "asc" ELSE "desc"

\* The values the rows are sorted by; the id breaks the ties.
SortKey(row, id, sort) == <<IF sort = "price" THEN row.price ELSE row.name, id>>

Less(k, l) == k[1] < l[1] \/ (k[1] = l[1] /\ k[2] < l[2])
Precedes(k, l, order) == IF Descending(order) THEN Less(l, k) ELSE Less(k, l)

\* Mutant of Beyond: the keyset compares the column that is sorted by, not the id.
BeyondTheColumn(cat, c, sort, order, i) ==
  LET k == SortKey(c, c.id, sort)
      l == SortKey(cat[i], i, sort) IN
    IF Descending(order) THEN l[1] < k[1] ELSE k[1] < l[1]

\* Product i comes after cursor c.
Beyond(cat, c, sort, order, i) ==
  Precedes(SortKey(c, c.id, sort), SortKey(cat[i], i, sort), order)

Matching(cat, q) == {i \in DOMAIN cat : q = None \/ cat[i].name \in q}

\* How many rows of S come before row i.
Rank(cat, S, sort, order, i) ==
  Cardinality({j \in S : Precedes(SortKey(cat[j], j, sort), SortKey(cat[i], i, sort), order)})

\* ORDER BY, of those rows of the table that are in S: each has its rank as its place.
Sorted(cat, S, sort, order) ==
  [n \in 1 .. Cardinality(S) |-> CHOOSE i \in S : Rank(cat, S, sort, order, i) = n - 1]

CursorFromItem(cat, i, query) ==
  [sort |-> query.sort, order |-> query.order, q |-> query.q,
   name |-> cat[i].name, price |-> cat[i].price, id |-> i]

CursorMatches(c, query) == c.sort = query.sort /\ c.order = query.order /\ c.q = query.q

Rejected == [items |-> <<>>, total |-> 0, next |-> None, prev |-> None, ok |-> FALSE]

\* buildProductPageCursors.
PageLinks(cat, query, items, backward, extra, offsetPage) ==
  LET next == backward \/ extra
      prev == (backward /\ extra) \/ query.after # None \/ offsetPage > 1 IN
    [next |-> IF items # <<>> /\ next THEN CursorFromItem(cat, Last(items), query) ELSE None,
     prev |-> IF items # <<>> /\ prev THEN CursorFromItem(cat, Head(items), query) ELSE None]

\* OFFSET and LIMIT.
Window(rows, offset, limit) == SubSeq(rows, offset + 1, Min({offset + limit, Len(rows)}))

\* list by cursor or by offset: one row more than the page tells if there is more.
ListPage(cat, query) ==
  LET backward == query.before # None
      cursor == IF backward THEN query.before ELSE query.after
      order == IF backward THEN Inverted(query.order) ELSE query.order
      offsetPage == IF cursor # None \/ query.page = None THEN 1 ELSE query.page
      matching == Matching(cat, query.q)
      rows == Sorted(cat, {i \in matching :
                             cursor # None => Beyond(cat, cursor, query.sort, order, i)},
                     query.sort, order)
      fetched == Window(rows, (offsetPage - 1) * PageSize, PageSize + 1)
      extra == Len(fetched) > PageSize
      kept == Window(fetched, 0, PageSize)
      items == IF backward THEN Reverse(kept) ELSE kept
      links == PageLinks(cat, query, items, backward, extra, offsetPage) IN
    [items |-> items, total |-> Cardinality(matching),
     next |-> links.next, prev |-> links.prev, ok |-> TRUE]

\* listByIds: the order asked for, without the ids nobody knows; none is asked for twice.
ListByIds(cat, ids) ==
  LET items == SelectSeq(ids, LAMBDA i : i \in DOMAIN cat) IN
    [items |-> items, total |-> Cardinality(ToSet(ids) \cap DOMAIN cat),
     next |-> None, prev |-> None, ok |-> TRUE]

\* ListProductsUseCase.execute.
ListProducts(cat, query) ==
  LET cursors == {query.after, query.before} \ {None} IN
    IF query.ids # None
      THEN IF cursors # {} \/ query.page # None \/ query.q # None THEN Rejected
           ELSE ListByIds(cat, query.ids)
    ELSE IF \/ query.after # None /\ query.before # None
            \/ query.page # None /\ cursors # {}
            \/ \E c \in cursors : ~ CursorMatches(c, query)
      THEN Rejected
    ELSE ListPage(cat, query)
=============================================================================
