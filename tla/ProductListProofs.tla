-------------------------- MODULE ProductListProofs --------------------------
(***************************************************************************)
(* Proofs about the catalog page, for any catalogs, links, search terms    *)
(* and page size: first of what the API answers, its sort included, then   *)
(* of what the page shows.                                                 *)
(***************************************************************************)
EXTENDS ProductList, FiniteSetTheorems, SequenceTheorems, TLAPS

-----------------------------------------------------------------------------
(* Queries and page numbers. *)

\* The smaller of two numbers.
LEMMA MinOfTwo ==
  ASSUME NEW a \in Int, NEW b \in Int
  PROVE  Min({a, b}) \in {a, b} /\ Min({a, b}) <= a /\ Min({a, b}) <= b
<1>1. \E x \in {a, b} : \A y \in {a, b} : x =< y
  OBVIOUS
<1> QED BY <1>1 DEF Min

\* A list has between no page and MaxPage.
LEMMA PageCountBound ==
  ASSUME NEW r, NEW total \in Nat
  PROVE  PageCount(r, total) \in 0 .. MaxPage
<1> DEFINE pages == (total + PageSize - 1) \div PageSize
<1>1. CASE ~ (r.ids # None \/ total = 0)
  <2>1. pages \in Nat
    BY ProductListAssumption
  <2> HIDE DEF pages
  <2>2. MaxPage \in Nat
    BY ProductListAssumption
  <2>3. Min({pages, MaxPage}) \in {pages, MaxPage} /\ Min({pages, MaxPage}) <= MaxPage
    BY <2>1, <2>2, MinOfTwo
  <2>4. Min({pages, MaxPage}) \in 0 .. MaxPage
    BY <2>1, <2>2, <2>3
  <2> QED BY <1>1, <2>4 DEF PageCount, pages
<1>2. CASE r.ids # None \/ total = 0
  BY <1>2, ProductListAssumption DEF PageCount
<1> QED BY <1>1, <1>2

\* A query with other parts that are its own to change.
LEMMA QueryFields ==
  ASSUME NEW r \in Query
  PROVE  /\ r = [q |-> r.q, sort |-> r.sort, order |-> r.order, page |-> r.page,
                 after |-> r.after, before |-> r.before, ids |-> r.ids]
         /\ r.q \in Terms /\ r.sort \in Sorts /\ r.order \in Directions
         /\ r.page \in 1 .. MaxPage
         /\ r.after \in Cursors \cup {None} /\ r.before \in Cursors \cup {None}
         /\ r.ids \in Seq(Nat) \cup {None}
         /\ r.ids # None => /\ IsInjective(r.ids) /\ r.q = None /\ r.page = 1
                            /\ r.after = None /\ r.before = None
<1> HIDE DEF Terms, Cursors, Sorts, Directions
<1> QED BY DEF Query

\* What makes a query.
LEMMA QueryOf ==
  ASSUME NEW q \in Terms, NEW sort \in Sorts, NEW order \in Directions,
         NEW page \in 1 .. MaxPage, NEW ids \in Seq(Nat) \cup {None},
         ids # None => IsInjective(ids) /\ q = None /\ page = 1
  PROVE  [q |-> q, sort |-> sort, order |-> order, page |-> page,
          after |-> None, before |-> None, ids |-> ids] \in Query
BY DEF Query

\* goToPage changes the number only, and nothing where ids are asked for.
LEMMA WithPageIsAQuery ==
  ASSUME NEW r \in Query, NEW p \in 1 .. MaxPage
  PROVE  /\ WithPage(r, p) \in Query /\ WithPage(r, p).q = r.q /\ WithPage(r, p).ids = r.ids
         /\ r.ids = None => WithPage(r, p).page = p
         /\ WithPage(r, p).after = None /\ WithPage(r, p).before = None
<1>1. CASE r.ids # None
  BY <1>1, QueryFields DEF WithPage
<1>2. CASE r.ids = None
  <2>1. Min({p, MaxPage}) = p
    <3>1. MaxPage \in Nat /\ p \in Int /\ p <= MaxPage
      BY ProductListAssumption
    <3>2. Min({p, MaxPage}) \in {p, MaxPage} /\ Min({p, MaxPage}) <= p
      BY <3>1, MinOfTwo
    <3> QED BY <3>1, <3>2
  <2> DEFINE Q(page, after, before) ==
               [q |-> r.q, sort |-> r.sort, order |-> r.order, page |-> page,
                after |-> after, before |-> before, ids |-> None]
  <2> DEFINE a == [r EXCEPT !.page = p]
  <2> DEFINE b == [a EXCEPT !.after = None]
  <2> DEFINE c == [b EXCEPT !.before = None]
  <2> DEFINE r1 == Q(p, None, None)
  <2>2. WithPage(r, p) = c
    BY <1>2, <2>1 DEF WithPage
  <2>3. r = Q(r.page, r.after, r.before)
    BY <1>2, QueryFields
  <2>4. WithPage(r, p) = r1
    <3>1. a = Q(p, r.after, r.before)
      BY <2>3
    <3> HIDE DEF a
    <3>2. b = Q(p, None, r.before)
      BY <3>1
    <3> HIDE DEF b
    <3>3. c = Q(p, None, None)
      BY <3>2
    <3> HIDE DEF c
    <3> QED BY <2>2, <3>3
  <2>5. r1 \in Query
    BY QueryFields, QueryOf
  <2> QED BY <1>2, <2>4, <2>5
<1> QED BY <1>1, <1>2

\* The watcher leaves a query with a page that the list has.
LEMMA InRangeFits ==
  ASSUME NEW r \in Query, NEW total \in Nat
  PROVE  LET r1 == InRange(r, total) IN
           /\ r1 \in Query /\ r1.q = r.q
           /\ PageCount(r1, total) > 0 => r1.page <= PageCount(r1, total)
<1> DEFINE count == PageCount(r, total)
<1>1. count \in 0 .. MaxPage /\ r.page \in 1 .. MaxPage
  BY PageCountBound, QueryFields
<1>2. CASE count > 0 /\ r.page > count
  <2>1. r.ids = None
    BY <1>2 DEF PageCount
  <2>2. count \in 1 .. MaxPage
    BY <1>1, <1>2, ProductListAssumption
  <2> DEFINE r1 == WithPage(r, count)
  <2>3. r1 \in Query /\ r1.q = r.q /\ r1.ids = r.ids /\ r1.page = count
    BY <2>1, <2>2, WithPageIsAQuery
  <2>4. InRange(r, total) = r1
    BY <1>2 DEF InRange
  <2> HIDE DEF r1
  <2>5. PageCount(r1, total) = count
    BY <2>3 DEF PageCount
  <2> QED BY <2>2, <2>3, <2>4, <2>5
<1>3. CASE ~ (count > 0 /\ r.page > count)
  <2>1. InRange(r, total) = r
    BY <1>3 DEF InRange
  <2> QED BY <1>1, <1>3, <2>1, ProductListAssumption
<1> QED BY <1>2, <1>3

\* setSearch asks for the whole catalog, from its first page.
LEMMA SearchedIsAQuery ==
  ASSUME NEW r \in Query, r = query, NEW text \in Terms
  PROVE  /\ Searched(text) \in Query /\ Searched(text).q = text
         /\ Searched(text).after = None /\ Searched(text).before = None
<1> DEFINE Q(q, ids, page, after, before) ==
             [q |-> q, sort |-> r.sort, order |-> r.order, page |-> page,
              after |-> after, before |-> before, ids |-> ids]
<1> DEFINE a == [r EXCEPT !.q = text]
<1> DEFINE b == [a EXCEPT !.ids = None]
<1> DEFINE c == [b EXCEPT !.page = 1]
<1> DEFINE d == [c EXCEPT !.after = None]
<1> DEFINE e == [d EXCEPT !.before = None]
<1>1. Searched(text) = e
  BY DEF Searched
<1>2. r = Q(r.q, r.ids, r.page, r.after, r.before)
  BY QueryFields
<1>3. a = Q(text, r.ids, r.page, r.after, r.before)
  BY <1>2
<1> HIDE DEF a
<1>4. b = Q(text, None, r.page, r.after, r.before)
  BY <1>3
<1> HIDE DEF b
<1>5. c = Q(text, None, 1, r.after, r.before)
  BY <1>4
<1> HIDE DEF c
<1>6. d = Q(text, None, 1, None, r.before)
  BY <1>5
<1> HIDE DEF d
<1>7. e = Q(text, None, 1, None, None)
  BY <1>6
<1> HIDE DEF e
<1>8. Q(text, None, 1, None, None) \in Query
  <2>1. 1 \in 1 .. MaxPage
    BY ProductListAssumption
  <2> QED BY <2>1, QueryFields, QueryOf
<1> QED BY <1>1, <1>7, <1>8

\* setListing.
Listed(sort, order) ==
  [query EXCEPT !.sort = sort, !.order = order, !.page = 1, !.after = None, !.before = None]

LEMMA ListedIsAQuery ==
  ASSUME NEW r \in Query, r = query, NEW sort \in Sorts, NEW order \in Directions
  PROVE  /\ Listed(sort, order) \in Query /\ Listed(sort, order).q = r.q
         /\ Listed(sort, order).after = None /\ Listed(sort, order).before = None
<1> DEFINE Q(by, way, page, after, before) ==
             [q |-> r.q, sort |-> by, order |-> way, page |-> page,
              after |-> after, before |-> before, ids |-> r.ids]
<1> DEFINE a == [r EXCEPT !.sort = sort]
<1> DEFINE b == [a EXCEPT !.order = order]
<1> DEFINE c == [b EXCEPT !.page = 1]
<1> DEFINE d == [c EXCEPT !.after = None]
<1> DEFINE e == [d EXCEPT !.before = None]
<1>1. Listed(sort, order) = e
  BY DEF Listed
<1>2. r = Q(r.sort, r.order, r.page, r.after, r.before)
  BY QueryFields
<1>3. a = Q(sort, r.order, r.page, r.after, r.before)
  BY <1>2
<1> HIDE DEF a
<1>4. b = Q(sort, order, r.page, r.after, r.before)
  BY <1>3
<1> HIDE DEF b
<1>5. c = Q(sort, order, 1, r.after, r.before)
  BY <1>4
<1> HIDE DEF c
<1>6. d = Q(sort, order, 1, None, r.before)
  BY <1>5
<1> HIDE DEF d
<1>7. e = Q(sort, order, 1, None, None)
  BY <1>6
<1> HIDE DEF e
<1>8. Q(sort, order, 1, None, None) \in Query
  <2>1. 1 \in 1 .. MaxPage
    BY ProductListAssumption
  <2> QED BY <2>1, QueryFields, QueryOf
<1> QED BY <1>1, <1>7, <1>8

LEMMA HomeIsAQuery == Home \in Query /\ Home.q = None
<1>1. 1 \in 1 .. MaxPage
  BY ProductListAssumption
<1>2. /\ None \in Terms /\ "name" \in Sorts /\ "asc" \in Directions
      /\ None \in Seq(Nat) \cup {None}
  BY DEF Terms, Sorts, Directions
<1> QED BY <1>1, <1>2, QueryOf DEF Home

-----------------------------------------------------------------------------
(* The sort. *)

Row == [name : Nat, price : Nat]

\* Row i of the table comes before row j.
Ahead(cat, sort, order, i, j) ==
  Precedes(SortKey(cat[i], i, sort), SortKey(cat[j], j, sort), order)

\* No two rows are equal to the sort, as the id breaks the ties; turned around, it is the
\* other way round.
LEMMA RowsAreOrdered ==
  ASSUME NEW cat \in Seq(Row), NEW sort, NEW order,
         NEW i \in DOMAIN cat, NEW j \in DOMAIN cat, NEW k \in DOMAIN cat
  PROVE  /\ ~ Ahead(cat, sort, order, i, i)
         /\ Ahead(cat, sort, order, i, j) /\ Ahead(cat, sort, order, j, k)
              => Ahead(cat, sort, order, i, k)
         /\ i # j => Ahead(cat, sort, order, i, j) \/ Ahead(cat, sort, order, j, i)
         /\ Ahead(cat, sort, Inverted(order), i, j) <=> Ahead(cat, sort, order, j, i)
<1> DEFINE v(x) == IF sort = "price" THEN cat[x].price ELSE cat[x].name
<1>1. \A x \in DOMAIN cat : x \in Int /\ v(x) \in Int
  <2>1. \A x \in DOMAIN cat : x \in Int /\ cat[x] \in Row
    OBVIOUS
  <2>2. \A row \in Row : row.price \in Int /\ row.name \in Int
    BY DEF Row
  <2>3. \A x \in DOMAIN cat : cat[x].price \in Int /\ cat[x].name \in Int
    BY ONLY <2>1, <2>2
  <2> QED BY <2>1, <2>3
<1>0. \A x \in DOMAIN cat : SortKey(cat[x], x, sort) = <<v(x), x>>
  BY DEF SortKey
<1>2. Descending(Inverted(order)) <=> ~ Descending(order)
  BY DEF Descending, Inverted
<1> HIDE DEF v
<1>3. \A x, y \in DOMAIN cat :
        /\ Ahead(cat, sort, order, x, y) <=>
             IF Descending(order) THEN v(y) < v(x) \/ (v(y) = v(x) /\ y < x)
             ELSE v(x) < v(y) \/ (v(x) = v(y) /\ x < y)
        /\ Ahead(cat, sort, Inverted(order), x, y) <=>
             IF Descending(order) THEN v(x) < v(y) \/ (v(x) = v(y) /\ x < y)
             ELSE v(y) < v(x) \/ (v(y) = v(x) /\ y < x)
  BY <1>0, <1>2 DEF Ahead, Precedes, Less
<1>4. /\ i \in Int /\ j \in Int /\ k \in Int
      /\ v(i) \in Int /\ v(j) \in Int /\ v(k) \in Int
  BY <1>1
<1>5. CASE Descending(order)
  BY <1>3, <1>4, <1>5
<1>6. CASE ~ Descending(order)
  BY <1>3, <1>4, <1>6
<1> QED BY <1>5, <1>6

\* A set of rows of a table is finite.
LEMMA RowsAreFinite ==
  ASSUME NEW cat \in Seq(Row), NEW S \in SUBSET DOMAIN cat
  PROVE  IsFiniteSet(S) /\ Cardinality(S) \in Nat /\ S \subseteq Nat
<1>1. DOMAIN cat = 1 .. Len(cat) /\ Len(cat) \in Nat
  OBVIOUS
<1>2. IsFiniteSet(DOMAIN cat)
  BY <1>1, FS_Interval
<1> QED BY <1>1, <1>2, FS_Subset, FS_CardinalityType

\* The rows of S that come before row i.
Before(cat, S, sort, order, i) == {j \in S : Ahead(cat, sort, order, j, i)}

LEMMA RankIsACount ==
  ASSUME NEW cat \in Seq(Row), NEW sort, NEW order, NEW S \in SUBSET DOMAIN cat, NEW i
  PROVE  /\ Rank(cat, S, sort, order, i) = Cardinality(Before(cat, S, sort, order, i))
         /\ IsFiniteSet(Before(cat, S, sort, order, i))
         /\ Rank(cat, S, sort, order, i) \in Nat
<1> DEFINE B == Before(cat, S, sort, order, i)
<1>1. Rank(cat, S, sort, order, i) = Cardinality(B)
  BY DEF Rank, Before, Ahead
<1>2. B \in SUBSET S
  BY DEF Before
<1> HIDE DEF B
<1>3. IsFiniteSet(B) /\ Cardinality(B) \in Nat
  BY <1>2, RowsAreFinite, FS_Subset, FS_CardinalityType
<1> QED BY <1>1, <1>3 DEF B

\* A row that comes later has more before it, and less than there are.
LEMMA RankGrows ==
  ASSUME NEW cat \in Seq(Row), NEW sort, NEW order, NEW S \in SUBSET DOMAIN cat,
         NEW i \in S
  PROVE  /\ Rank(cat, S, sort, order, i) < Cardinality(S)
         /\ \A j \in S : Ahead(cat, sort, order, i, j)
              => Rank(cat, S, sort, order, i) < Rank(cat, S, sort, order, j)
<1> DEFINE B(x) == Before(cat, S, sort, order, x)
<1>1. i \notin B(i) /\ B(i) \in SUBSET S
  BY RowsAreOrdered DEF Before
<1>2. \A j \in S : Ahead(cat, sort, order, i, j) => i \in B(j) /\ B(i) \in SUBSET B(j)
  BY RowsAreOrdered DEF Before
<1>3. /\ IsFiniteSet(S) /\ Cardinality(S) \in Nat
      /\ \A x \in S : /\ IsFiniteSet(B(x)) /\ Cardinality(B(x)) \in Nat
                      /\ Rank(cat, S, sort, order, x) = Cardinality(B(x))
  BY RowsAreFinite, RankIsACount
<1> HIDE DEF B
<1>4. Cardinality(B(i)) <= Cardinality(S) /\ Cardinality(B(i)) # Cardinality(S)
  BY <1>1, <1>3, FS_Subset
<1>5. ASSUME NEW j \in S, Ahead(cat, sort, order, i, j)
      PROVE  Cardinality(B(i)) < Cardinality(B(j))
  <2>1. Cardinality(B(i)) <= Cardinality(B(j)) /\ Cardinality(B(i)) # Cardinality(B(j))
    BY <1>1, <1>2, <1>3, <1>5, FS_Subset
  <2> QED BY <1>3, <2>1
<1> QED BY <1>3, <1>4, <1>5

\* No two rows have the same rank.
LEMMA RanksDiffer ==
  ASSUME NEW cat \in Seq(Row), NEW sort, NEW order, NEW S \in SUBSET DOMAIN cat,
         NEW i \in S, NEW j \in S,
         Rank(cat, S, sort, order, i) = Rank(cat, S, sort, order, j)
  PROVE  i = j
<1>1. i # j => Ahead(cat, sort, order, i, j) \/ Ahead(cat, sort, order, j, i)
  BY RowsAreOrdered
<1>2. Rank(cat, S, sort, order, i) \in Nat
  BY RankIsACount
<1> QED BY <1>1, <1>2, RankGrows

\* Every row is in the sort, at the place of its rank.
LEMMA SortIsAPermutation ==
  ASSUME NEW cat \in Seq(Row), NEW sort, NEW order, NEW S \in SUBSET DOMAIN cat
  PROVE  LET all == Sorted(cat, S, sort, order) IN
         /\ all \in Seq(S) /\ Len(all) = Cardinality(S)
         /\ \A n \in 1 .. Len(all) : all[n] \in S /\ Rank(cat, S, sort, order, all[n]) = n - 1
         /\ \A i \in S : LET n == Rank(cat, S, sort, order, i) + 1 IN
              n \in 1 .. Len(all) /\ all[n] = i
<1> DEFINE N == Cardinality(S)
<1> DEFINE rank(i) == Rank(cat, S, sort, order, i)
<1> DEFINE all == Sorted(cat, S, sort, order)
<1> DEFINE f == [i \in S |-> rank(i) + 1]
<1>1. IsFiniteSet(S) /\ N \in Nat
  BY RowsAreFinite
<1>2. \A i \in S : rank(i) \in Nat /\ rank(i) < N
  BY RankIsACount, RankGrows
<1>3. \A i, j \in S : rank(i) = rank(j) => i = j
  BY RanksDiffer
<1>4. all = [n \in 1 .. N |-> CHOOSE i \in S : rank(i) = n - 1]
  BY DEF Sorted
<1> HIDE DEF N, rank, all
<1>5. f \in Injection(S, 1 .. N)
  <2>1. f \in [S -> 1 .. N]
    BY <1>1, <1>2
  <2>2. \A i, j \in S : f[i] = f[j] => i = j
    BY <1>2, <1>3
  <2> HIDE DEF f
  <2> QED BY <2>1, <2>2 DEF Injection, IsInjective
<1>6. f \in Surjection(S, 1 .. N)
  <2>1. IsFiniteSet(1 .. N) /\ Cardinality(1 .. N) = N
    BY <1>1, FS_Interval
  <2> HIDE DEF f
  <2> QED BY <1>1, <1>5, <2>1, FS_Injection DEF N
<1>7. ASSUME NEW n \in 1 .. N
      PROVE  all[n] \in S /\ rank(all[n]) = n - 1
  <2>1. PICK i \in S : f[i] = n
    BY <1>6 DEF Surjection
  <2>2. rank(i) = n - 1
    BY <1>1, <1>2, <2>1
  <2>3. all[n] = CHOOSE x \in S : rank(x) = n - 1
    BY <1>4
  <2> QED BY <2>2, <2>3
<1>8. all \in [1 .. N -> S]
  BY <1>4, <1>7
<1>9. all \in Seq(S) /\ Len(all) = N
  BY <1>1, <1>8
<1>10. ASSUME NEW i \in S PROVE rank(i) + 1 \in 1 .. N /\ all[rank(i) + 1] = i
  <2>1. rank(i) + 1 \in 1 .. N
    BY <1>1, <1>2
  <2>2. all[rank(i) + 1] \in S /\ rank(all[rank(i) + 1]) = rank(i)
    BY <1>2, <1>7, <2>1
  <2> QED BY <1>3, <2>1, <2>2
<1> QED BY <1>7, <1>9, <1>10 DEF N, rank, all

\* A place of the sort has a row of which it is the place.
LEMMA PlaceHasARow ==
  ASSUME NEW cat \in Seq(Row), NEW sort, NEW order, NEW S \in SUBSET DOMAIN cat,
         NEW n \in 1 .. Len(Sorted(cat, S, sort, order))
  PROVE  LET i == Sorted(cat, S, sort, order)[n] IN
         i \in S /\ Rank(cat, S, sort, order, i) = n - 1
BY SortIsAPermutation

\* The sort has row i at its place.
LEMMA RowIsAtItsPlace ==
  ASSUME NEW cat \in Seq(Row), NEW sort, NEW order, NEW S \in SUBSET DOMAIN cat, NEW i \in S
  PROVE  Sorted(cat, S, sort, order)[Rank(cat, S, sort, order, i) + 1] = i
BY SortIsAPermutation

-----------------------------------------------------------------------------
(* What follows a row and what precedes it. *)

\* Two parts of a set that have no row in common.
LEMMA PartsAddUp ==
  ASSUME NEW A, NEW B, IsFiniteSet(A), IsFiniteSet(B), A \cap B = {}
  PROVE  Cardinality(A \cup B) = Cardinality(A) + Cardinality(B)
<1>1. Cardinality(A \cap B) = 0
  BY FS_EmptySet
<1>2. Cardinality(A) \in Nat /\ Cardinality(B) \in Nat
  BY FS_CardinalityType
<1>3. Cardinality(A \cup B) = Cardinality(A) + Cardinality(B) - Cardinality(A \cap B)
  BY FS_Union
<1> QED BY <1>1, <1>2, <1>3

\* The rows of S that come after row k.
Behind(cat, S, sort, order, k) == {i \in S : Ahead(cat, sort, order, k, i)}

\* The rows behind row k, sorted, are the end of the sort.
LEMMA BehindARow ==
  ASSUME NEW cat \in Seq(Row), NEW sort, NEW order, NEW S \in SUBSET DOMAIN cat, NEW k \in S
  PROVE  LET T == Behind(cat, S, sort, order, k)
             all == Sorted(cat, S, sort, order)
             rows == Sorted(cat, T, sort, order)
             b == Rank(cat, S, sort, order, k) + 1 IN
         /\ b \in 1 .. Len(all) /\ Len(all) = b + Len(rows)
         /\ \A n \in 1 .. Len(rows) : rows[n] = all[b + n]
<1> DEFINE T == Behind(cat, S, sort, order, k)
           U == Before(cat, S, sort, order, k) \cup {k}
           all == Sorted(cat, S, sort, order)
           rows == Sorted(cat, T, sort, order)
           b == Rank(cat, S, sort, order, k) + 1
<1>1. T \in SUBSET DOMAIN cat /\ T \in SUBSET S /\ U \in SUBSET S
  BY DEF Before, Behind
<1>2. IsFiniteSet(U) /\ Cardinality(U) = b
  <2> DEFINE P == Before(cat, S, sort, order, k)
  <2>1. k \notin P
    BY RowsAreOrdered DEF Before
  <2>2. IsFiniteSet(P) /\ Cardinality(P) = Rank(cat, S, sort, order, k)
    BY RankIsACount
  <2> HIDE DEF P
  <2>3. IsFiniteSet(P \cup {k}) /\ Cardinality(P \cup {k}) = Cardinality(P) + 1
    BY <2>1, <2>2, FS_AddElement
  <2> QED BY <2>2, <2>3 DEF P
<1>3. T \cap U = {} /\ T \cup U = S
  <2>1. /\ \A i \in S : ~ (Ahead(cat, sort, order, i, k) /\ Ahead(cat, sort, order, k, i))
        /\ \A i \in S : \/ i = k \/ Ahead(cat, sort, order, i, k)
                         \/ Ahead(cat, sort, order, k, i)
        /\ ~ Ahead(cat, sort, order, k, k)
    BY RowsAreOrdered
  <2> QED BY <2>1 DEF Before, Behind
<1>4. Cardinality(S) = Cardinality(T) + b
  <2>1. IsFiniteSet(T)
    BY <1>1, RowsAreFinite
  <2> HIDE DEF T, U, b
  <2> QED BY <1>2, <1>3, <2>1, PartsAddUp
<1>5. ASSUME NEW i \in T
      PROVE  Rank(cat, S, sort, order, i) = Rank(cat, T, sort, order, i) + b
  <2> DEFINE P == Before(cat, T, sort, order, i)
             Q == Before(cat, S, sort, order, i)
  <2>1. P \cap U = {}
    BY <1>3 DEF Before
  <2>2. Q = P \cup U
    BY RowsAreOrdered DEF Before, Behind
  <2>3. /\ IsFiniteSet(P) /\ Rank(cat, T, sort, order, i) = Cardinality(P)
        /\ Rank(cat, S, sort, order, i) = Cardinality(Q)
    BY <1>1, RankIsACount
  <2> HIDE DEF P, Q, U, T, b
  <2> QED BY <1>2, <2>1, <2>2, <2>3, PartsAddUp
<1>6. b \in 1 .. Len(all) /\ Len(all) = Cardinality(S)
  BY SortIsAPermutation
<1>7. Len(rows) = Cardinality(T) /\ Cardinality(T) \in Nat
  BY <1>1, SortIsAPermutation, RowsAreFinite
<1>8. \A i \in S : all[Rank(cat, S, sort, order, i) + 1] = i
  BY RowIsAtItsPlace
<1>9. ASSUME NEW n \in 1 .. Len(rows) PROVE rows[n] = all[b + n]
  <2>1. rows[n] \in T /\ Rank(cat, T, sort, order, rows[n]) = n - 1
    BY <1>1, SortIsAPermutation
  <2>2. PICK i \in T : i = rows[n]
    BY <2>1
  <2>3. Rank(cat, S, sort, order, i) + 1 = b + n
    <3>1. Rank(cat, S, sort, order, i) = (n - 1) + b
      BY <1>5, <2>1, <2>2
    <3>2. b \in Int /\ n \in Int
      BY <1>6, <1>7
    <3> HIDE DEF b, rows
    <3> QED BY <3>1, <3>2
  <2>4. all[Rank(cat, S, sort, order, i) + 1] = i
    BY <1>1, <1>8
  <2> QED BY <2>2, <2>3, <2>4
<1> HIDE DEF all, rows, b, T
<1>10. Len(all) = b + Len(rows)
  BY <1>4, <1>6, <1>7
<1> QED BY <1>6, <1>9, <1>10 DEF all, rows, b, T

\* The rows before row k, sorted the other way, are the start of the sort, read backwards.
LEMMA AheadOfARow ==
  ASSUME NEW cat \in Seq(Row), NEW sort, NEW order, NEW S \in SUBSET DOMAIN cat, NEW k \in S
  PROVE  LET T == Behind(cat, S, sort, Inverted(order), k)
             all == Sorted(cat, S, sort, order)
             rows == Sorted(cat, T, sort, Inverted(order))
             b == Rank(cat, S, sort, order, k) IN
         /\ b \in 0 .. Len(all) - 1 /\ Len(rows) = b
         /\ \A n \in 1 .. Len(rows) : rows[n] = all[b - n + 1]
<1> DEFINE back == Inverted(order)
           T == Behind(cat, S, sort, back, k)
           all == Sorted(cat, S, sort, order)
           rows == Sorted(cat, T, sort, back)
           b == Rank(cat, S, sort, order, k)
<1>1. T \in SUBSET DOMAIN cat /\ T \in SUBSET S
  BY DEF Behind
<1>2. T = Before(cat, S, sort, order, k)
  BY RowsAreOrdered DEF Before, Behind
<1>3. IsFiniteSet(T) /\ Cardinality(T) = b /\ b \in Nat
  <2>1. /\ IsFiniteSet(Before(cat, S, sort, order, k)) /\ b \in Nat
        /\ Cardinality(Before(cat, S, sort, order, k)) = b
    BY RankIsACount
  <2> HIDE DEF T, b
  <2> QED BY <1>2, <2>1
<1>4. ASSUME NEW i \in T
      PROVE  Rank(cat, S, sort, order, i) = b - 1 - Rank(cat, T, sort, back, i)
  <2> DEFINE P == Before(cat, S, sort, order, i)
             Q == Before(cat, T, sort, back, i)
  <2>1. i \notin P /\ i \notin Q
    BY RowsAreOrdered DEF Before, Behind
  <2>2. P \cap (Q \cup {i}) = {} /\ Q \cap {i} = {}
    BY <2>1, RowsAreOrdered DEF Before, Behind
  <2>3. T = P \cup (Q \cup {i})
    BY <1>2, RowsAreOrdered DEF Before
  <2>4. /\ IsFiniteSet(P) /\ IsFiniteSet(Q) /\ Cardinality(P) \in Nat /\ Cardinality(Q) \in Nat
        /\ Rank(cat, T, sort, back, i) = Cardinality(Q)
        /\ Rank(cat, S, sort, order, i) = Cardinality(P)
    BY <1>1, RankIsACount
  <2> HIDE DEF P, Q, T, b
  <2>6. IsFiniteSet(Q \cup {i}) /\ Cardinality(Q \cup {i}) = Cardinality(Q) + 1
    BY <2>1, <2>4, FS_AddElement
  <2>7. Cardinality(T) = Cardinality(P) + (Cardinality(Q) + 1)
    BY <2>2, <2>3, <2>4, <2>6, PartsAddUp
  <2> QED BY <1>3, <2>4, <2>7
<1>5. b < Len(all) /\ Len(all) \in Nat /\ Len(rows) = b
  BY <1>1, <1>3, SortIsAPermutation, RankGrows, RowsAreFinite
<1>6. ASSUME NEW n \in 1 .. Len(rows) PROVE rows[n] = all[b - n + 1]
  <2>1. rows[n] \in T /\ Rank(cat, T, sort, back, rows[n]) = n - 1
    BY <1>1, SortIsAPermutation
  <2>2. PICK i \in T : i = rows[n]
    BY <2>1
  <2>3. Rank(cat, S, sort, order, i) + 1 = b - n + 1
    <3>1. Rank(cat, S, sort, order, i) = b - 1 - (n - 1)
      BY <1>4, <2>1, <2>2
    <3>2. b \in Int /\ n \in Int
      BY <1>3, <1>5
    <3> HIDE DEF b, rows
    <3> QED BY <3>1, <3>2
  <2>4. all[Rank(cat, S, sort, order, i) + 1] = i
    BY <1>1, RowIsAtItsPlace
  <2> QED BY <2>2, <2>3, <2>4
<1>7. b \in 0 .. Len(all) - 1
  <2> HIDE DEF b, all, rows
  <2> QED BY <1>3, <1>5
<1> QED BY <1>5, <1>6, <1>7

-----------------------------------------------------------------------------
(* The page that is cut from the sort. *)

\* The larger of two numbers.
LEMMA MaxOfTwo ==
  ASSUME NEW a \in Int, NEW b \in Int
  PROVE  Max({a, b}) = IF a < b THEN b ELSE a
<1>1. \E x \in {a, b} : \A y \in {a, b} : x >= y
  OBVIOUS
<1>2. Max({a, b}) \in {a, b} /\ Max({a, b}) >= a /\ Max({a, b}) >= b
  BY <1>1 DEF Max
<1> QED BY <1>2

\* OFFSET and LIMIT skip so many rows and take so many of what is left.
LEMMA WindowTakes ==
  ASSUME NEW X, NEW rows \in Seq(X), NEW offset \in Nat, NEW limit \in Nat
  PROVE  LET w == Window(rows, offset, limit) IN
         /\ w \in Seq(X)
         /\ Len(w) = IF offset >= Len(rows) THEN 0
                     ELSE IF offset + limit <= Len(rows) THEN limit ELSE Len(rows) - offset
         /\ \A n \in 1 .. Len(w) : offset + n \in 1 .. Len(rows) /\ w[n] = rows[offset + n]
<1> DEFINE m == Min({offset + limit, Len(rows)})
           w == SubSeq(rows, offset + 1, m)
<1>1. Len(rows) \in Nat /\ \A n \in 1 .. Len(rows) : rows[n] \in X
  OBVIOUS
<1>2. m = IF offset + limit <= Len(rows) THEN offset + limit ELSE Len(rows)
  <2>1. offset + limit \in Int /\ Len(rows) \in Int
    BY <1>1
  <2>2. m \in {offset + limit, Len(rows)} /\ m <= offset + limit /\ m <= Len(rows)
    BY <2>1, MinOfTwo
  <2> HIDE DEF m
  <2> QED BY <2>1, <2>2
<1> HIDE DEF m
<1>3. offset + 1 \in Int /\ m \in Int /\ \A n \in offset + 1 .. m : rows[n] \in X
  BY <1>1, <1>2
<1>4. /\ w \in Seq(X) /\ Len(w) = IF offset + 1 <= m THEN m - (offset + 1) + 1 ELSE 0
      /\ \A n \in 1 .. m - (offset + 1) + 1 : w[n] = rows[offset + 1 + n - 1]
  BY <1>3, SubSeqProperties
<1>5. Window(rows, offset, limit) = w
  BY DEF Window, m
<1> HIDE DEF w
<1>6. Len(w) = IF offset >= Len(rows) THEN 0
               ELSE IF offset + limit <= Len(rows) THEN limit ELSE Len(rows) - offset
  BY <1>1, <1>2, <1>4
<1>7. ASSUME NEW n \in 1 .. Len(w)
      PROVE  offset + n \in 1 .. Len(rows) /\ w[n] = rows[offset + n]
  <2>1. n \in 1 .. m - (offset + 1) + 1 /\ offset + 1 + n - 1 = offset + n
    BY <1>1, <1>2, <1>4
  <2> QED BY <1>1, <1>2, <1>4, <2>1
<1> QED BY <1>4, <1>5, <1>6, <1>7

\* One row more than the page is fetched.
LEMMA Fetches ==
  ASSUME NEW X, NEW rows \in Seq(X), NEW offset \in Nat
  PROVE  LET fetched == Window(rows, offset, PageSize + 1) IN
         /\ fetched \in Seq(X)
         /\ Len(fetched) = IF offset >= Len(rows) THEN 0
                           ELSE IF offset + PageSize < Len(rows) THEN PageSize + 1
                           ELSE Len(rows) - offset
         /\ \A n \in 1 .. Len(fetched) :
              offset + n \in 1 .. Len(rows) /\ fetched[n] = rows[offset + n]
<1> DEFINE limit == PageSize + 1
<1>1. limit \in Nat /\ PageSize \in Nat /\ Len(rows) \in Nat
  BY ProductListAssumption
<1>2. offset + limit <= Len(rows) <=> offset + PageSize < Len(rows)
  BY <1>1
<1> HIDE DEF limit
<1>3. LET w == Window(rows, offset, limit) IN
      /\ w \in Seq(X)
      /\ Len(w) = IF offset >= Len(rows) THEN 0
                  ELSE IF offset + limit <= Len(rows) THEN limit ELSE Len(rows) - offset
      /\ \A n \in 1 .. Len(w) : offset + n \in 1 .. Len(rows) /\ w[n] = rows[offset + n]
  <2>1. limit \in Nat
    BY <1>1
  <2> QED BY ONLY rows \in Seq(X), offset \in Nat, <2>1, WindowTakes
<1> QED BY <1>2, <1>3 DEF limit

\* Of the rows fetched the page keeps the first.
LEMMA Keeps ==
  ASSUME NEW X, NEW rows \in Seq(X)
  PROVE  LET kept == Window(rows, 0, PageSize) IN
         /\ kept \in Seq(X)
         /\ Len(kept) = IF PageSize <= Len(rows) THEN PageSize ELSE Len(rows)
         /\ \A n \in 1 .. Len(kept) : n \in 1 .. Len(rows) /\ kept[n] = rows[n]
<1> DEFINE first == 0
<1>1. first \in Nat /\ PageSize \in Nat /\ Len(rows) \in Nat
  BY ProductListAssumption
<1>0. PageSize > 0
  BY ProductListAssumption
<1> HIDE DEF first
<1>2. LET w == Window(rows, first, PageSize) IN
      /\ w \in Seq(X)
      /\ Len(w) = IF first >= Len(rows) THEN 0
                  ELSE IF first + PageSize <= Len(rows) THEN PageSize ELSE Len(rows) - first
      /\ \A n \in 1 .. Len(w) : first + n \in 1 .. Len(rows) /\ w[n] = rows[first + n]
  BY <1>1, WindowTakes
<1> DEFINE w == Window(rows, first, PageSize)
<1>3. w \in Seq(X) /\ Len(w) \in Nat
  BY <1>2
<1>4. Len(w) = IF PageSize <= Len(rows) THEN PageSize ELSE Len(rows)
  BY <1>0, <1>1, <1>2 DEF first
<1>5. \A n \in 1 .. Len(w) : n \in 1 .. Len(rows) /\ w[n] = rows[n]
  <2> SUFFICES ASSUME NEW n \in 1 .. Len(w) PROVE n \in 1 .. Len(rows) /\ w[n] = rows[n]
    OBVIOUS
  <2>1. first + n \in 1 .. Len(rows) /\ w[n] = rows[first + n]
    BY <1>2
  <2>2. first + n = n
    BY <1>3 DEF first
  <2> HIDE DEF w
  <2> QED BY <2>1, <2>2
<1> HIDE DEF w
<1>6. Window(rows, 0, PageSize) = w
  BY DEF w, first
<1> QED BY <1>3, <1>4, <1>5, <1>6

\* Rows that are the end of the sort: the page is cut from the sort.
LEMMA PageOfTheEnd ==
  ASSUME NEW X, NEW all \in Seq(X), NEW rows \in Seq(X), NEW base \in 0 .. Len(all),
         Len(all) = base + Len(rows), \A n \in 1 .. Len(rows) : rows[n] = all[base + n],
         NEW offset \in Nat
  PROVE  LET fetched == Window(rows, offset, PageSize + 1)
             kept == Window(fetched, 0, PageSize)
             b == base + offset IN
         /\ b >= Len(all) => kept = <<>>
         /\ kept = Window(all, b, PageSize)
         /\ Len(fetched) > PageSize <=> Len(all) > b + PageSize
<1> DEFINE fetched == Window(rows, offset, PageSize + 1)
           kept == Window(fetched, 0, PageSize)
           b == base + offset
           page == Window(all, b, PageSize)
<1>1. /\ PageSize \in Nat /\ PageSize + 1 \in Nat /\ Len(rows) \in Nat /\ Len(all) \in Nat
      /\ b \in Nat /\ 0 \in Nat
  BY ProductListAssumption
<1>2. /\ fetched \in Seq(X)
      /\ Len(fetched) = IF offset >= Len(rows) THEN 0
                        ELSE IF offset + PageSize < Len(rows) THEN PageSize + 1
                        ELSE Len(rows) - offset
      /\ \A n \in 1 .. Len(fetched) :
           offset + n \in 1 .. Len(rows) /\ fetched[n] = rows[offset + n]
  BY ONLY rows \in Seq(X), offset \in Nat, Fetches
<1> HIDE DEF fetched
<1>3. Len(fetched) \in Nat
  BY <1>2
<1>4. /\ kept \in Seq(X)
      /\ Len(kept) = IF PageSize <= Len(fetched) THEN PageSize ELSE Len(fetched)
      /\ \A n \in 1 .. Len(kept) : n \in 1 .. Len(fetched) /\ kept[n] = fetched[n]
  BY <1>2, Keeps
<1>5. /\ page \in Seq(X)
      /\ Len(page) = IF b >= Len(all) THEN 0
                     ELSE IF b + PageSize <= Len(all) THEN PageSize ELSE Len(all) - b
      /\ \A n \in 1 .. Len(page) : b + n \in 1 .. Len(all) /\ page[n] = all[b + n]
  <2>1. b \in Nat /\ PageSize \in Nat
    BY <1>1
  <2>2. all \in Seq(X)
    OBVIOUS
  <2> HIDE DEF b
  <2> QED BY ONLY <2>1, <2>2, WindowTakes DEF page
<1> HIDE DEF kept, page
<1>6. Len(fetched) > PageSize <=> Len(all) > b + PageSize
  BY <1>1, <1>2
<1>7. Len(kept) = Len(page)
  BY <1>1, <1>2, <1>3, <1>4, <1>5
<1>8. ASSUME NEW n \in 1 .. Len(kept) PROVE kept[n] = page[n]
  <2>1. n \in 1 .. Len(fetched) /\ kept[n] = fetched[n]
    BY <1>4
  <2>2. offset + n \in 1 .. Len(rows) /\ kept[n] = rows[offset + n]
    BY <1>2, <2>1
  <2>3. kept[n] = all[base + (offset + n)]
    BY <2>2
  <2>4. page[n] = all[b + n]
    BY <1>5, <1>7
  <2>5. base + (offset + n) = b + n
    BY <2>1
  <2> QED BY <2>3, <2>4, <2>5
<1>9. kept = page
  BY <1>4, <1>5, <1>7, <1>8, SeqEqual
<1>10. b >= Len(all) => kept = <<>>
  BY <1>1, <1>4, <1>5, <1>7
<1> QED BY <1>6, <1>9, <1>10 DEF fetched, kept, page

\* Rows that are the start of the sort, read backwards: the page, turned around, is what
\* the start ends with.
LEMMA PageOfTheStart ==
  ASSUME NEW X, NEW all \in Seq(X), NEW rows \in Seq(X), NEW b \in 0 .. Len(all),
         b = Len(rows), \A n \in 1 .. Len(rows) : rows[n] = all[b - n + 1],
         NEW offset, offset = 0
  PROVE  LET fetched == Window(rows, offset, PageSize + 1)
             kept == Window(fetched, 0, PageSize)
             from == Max({1, b + 1 - PageSize}) IN
         /\ b = 0 => Reverse(kept) = <<>>
         /\ b > 0 => from \in 1 .. b
         /\ Reverse(kept) = SubSeq(all, from, b)
         /\ Len(fetched) > PageSize <=> from > 1
<1> DEFINE fetched == Window(rows, offset, PageSize + 1)
           kept == Window(fetched, 0, PageSize)
           items == Reverse(kept)
           from == Max({1, b + 1 - PageSize})
           part == SubSeq(all, from, b)
<1>1. /\ PageSize \in Nat /\ PageSize > 0 /\ Len(rows) \in Nat /\ Len(all) \in Nat
      /\ b \in Nat
  BY ProductListAssumption
<1>2. /\ fetched \in Seq(X)
      /\ Len(fetched) = IF offset >= Len(rows) THEN 0
                        ELSE IF offset + PageSize < Len(rows) THEN PageSize + 1
                        ELSE Len(rows) - offset
      /\ \A n \in 1 .. Len(fetched) :
           offset + n \in 1 .. Len(rows) /\ fetched[n] = rows[offset + n]
  <2>1. rows \in Seq(X) /\ offset \in Nat
    OBVIOUS
  <2> QED BY ONLY <2>1, Fetches
<1> HIDE DEF fetched
<1>0. Len(fetched) \in Nat
  BY <1>2
<1>3. /\ kept \in Seq(X)
      /\ Len(kept) = IF PageSize <= Len(fetched) THEN PageSize ELSE Len(fetched)
      /\ \A n \in 1 .. Len(kept) : n \in 1 .. Len(fetched) /\ kept[n] = fetched[n]
  BY <1>2, Keeps
<1> HIDE DEF kept
<1>4. from = IF 1 < b + 1 - PageSize THEN b + 1 - PageSize ELSE 1
  <2>1. 1 \in Int /\ b + 1 - PageSize \in Int
    BY <1>1
  <2> QED BY <2>1, MaxOfTwo
<1> HIDE DEF from
<1>5. Len(fetched) > PageSize <=> from > 1
  BY <1>0, <1>1, <1>2, <1>4
<1>6. Len(kept) = b - from + 1 /\ Len(kept) \in Nat /\ from \in Nat
  <2> DEFINE p == PageSize  f == Len(fetched)  l == Len(kept)
  <2>1. f = IF b <= 0 THEN 0 ELSE IF p < b THEN p + 1 ELSE b
    BY <1>1, <1>2
  <2>2. l = IF p <= f THEN p ELSE f
    BY <1>3
  <2>3. p \in Nat /\ p > 0 /\ f \in Nat /\ b \in Nat
    BY <1>0, <1>1
  <2> HIDE DEF p, f, l
  <2>4. l = IF p < b THEN p ELSE b
    BY <2>1, <2>2, <2>3
  <2>5. from = IF p < b THEN b + 1 - p ELSE 1
    BY <1>4, <2>3 DEF p
  <2>6. l = b - from + 1 /\ l \in Nat /\ from \in Nat
    BY ONLY <2>3, <2>4, <2>5
  <2> QED BY <2>6 DEF l
<1>7. /\ items = [n \in 1 .. Len(kept) |-> kept[Len(kept) - n + 1]]
      /\ items \in Seq(X) /\ Len(items) = Len(kept)
  <2>1. items = [n \in 1 .. Len(kept) |-> kept[Len(kept) - n + 1]]
    BY DEF Reverse
  <2>2. \A n \in 1 .. Len(kept) : kept[Len(kept) - n + 1] \in X
    BY <1>3, <1>6
  <2>3. items \in [1 .. Len(kept) -> X]
    BY <2>1, <2>2
  <2>4. Len(kept) \in Nat
    BY <1>6
  <2> HIDE DEF items
  <2>5. items \in Seq(X)
    BY ONLY <2>3, <2>4
  <2>6. Len(items) = Len(kept)
    BY ONLY <2>3, <2>4, <2>5
  <2> QED BY <2>1, <2>5, <2>6
<1>8. /\ part \in Seq(X) /\ Len(part) = IF from <= b THEN b - from + 1 ELSE 0
      /\ \A n \in 1 .. b - from + 1 : part[n] = all[from + n - 1]
  <2>1. from \in Int /\ b \in Int /\ \A n \in from .. b : all[n] \in X
    BY <1>4, <1>6
  <2> QED BY <2>1, SubSeqProperties
<1> HIDE DEF items, part
<1>9. Len(items) = Len(part)
  BY <1>1, <1>6, <1>7, <1>8
<1>10. ASSUME NEW n \in 1 .. Len(items) PROVE items[n] = part[n]
  <2> DEFINE m == Len(kept) - n + 1
  <2>1. m \in 1 .. Len(kept) /\ items[n] = kept[m]
    BY <1>6, <1>7
  <2>2. items[n] = fetched[m] /\ m \in 1 .. Len(fetched)
    BY <1>3, <2>1
  <2>3. items[n] = rows[m] /\ m \in 1 .. Len(rows)
    BY <1>0, <1>2, <2>2
  <2>4. items[n] = all[b - m + 1]
    BY <2>3
  <2>5. b - m + 1 = from + n - 1
    BY <1>1, <1>6, <1>7
  <2>6. part[n] = all[from + n - 1]
    BY <1>6, <1>7, <1>8
  <2> QED BY <2>4, <2>5, <2>6
<1>11. items = part
  BY <1>7, <1>8, <1>9, <1>10, SeqEqual
<1>12. b = 0 => items = <<>>
  BY <1>1, <1>4, <1>6, <1>7
<1>13. b > 0 => from \in 1 .. b
  BY <1>1, <1>4
<1> QED BY <1>5, <1>11, <1>12, <1>13 DEF fetched, kept, items, part, from

-----------------------------------------------------------------------------
(* The answers to a list query. *)

\* The list that query r asks for pages of.
List(cat, r) == Sorted(cat, Matching(cat, r.q), r.sort, r.order)

\* Answer a is the part of the list from one place to another, with its links; it is no
\* longer than a page, and as long unless it ends the list or begins it.
IsPart(cat, r, a, from, to) ==
  LET all == List(cat, r) IN
    /\ from \in 1 .. Len(all) /\ to \in from .. Len(all)
    /\ a.items = SubSeq(all, from, to)
    /\ a.next = IF to = Len(all) THEN None ELSE CursorFromItem(cat, all[to], r)
    /\ a.prev = IF from = 1 THEN None ELSE CursorFromItem(cat, all[from], r)
    /\ to < from + PageSize /\ (to # Len(all) => from = Max({1, to + 1 - PageSize}))

\* Where a part of a list begins and ends.
LEMMA EndsOfAPart ==
  ASSUME NEW X, NEW all \in Seq(X), NEW from \in 1 .. Len(all), NEW to \in from .. Len(all)
  PROVE  LET s == SubSeq(all, from, to) IN
         /\ s \in Seq(X) /\ s # <<>> /\ Len(s) = to - from + 1
         /\ Head(s) = all[from] /\ Last(s) = all[to]
<1> DEFINE s == SubSeq(all, from, to)
<1>1. from \in Int /\ to \in Int /\ from <= to /\ \A n \in from .. to : all[n] \in X
  OBVIOUS
<1>2. /\ s \in Seq(X) /\ Len(s) = IF from <= to THEN to - from + 1 ELSE 0
      /\ \A n \in 1 .. to - from + 1 : s[n] = all[from + n - 1]
  BY <1>1, SubSeqProperties
<1> HIDE DEF s
<1>3. Len(s) = to - from + 1 /\ Len(s) \in Nat /\ Len(s) > 0
  BY <1>1, <1>2
<1>4. s[1] = all[from]
  <2>1. 1 \in 1 .. to - from + 1 /\ from + 1 - 1 = from
    BY <1>1
  <2> QED BY <1>2, <2>1
<1>5. s[Len(s)] = all[to]
  <2>1. to - from + 1 \in 1 .. to - from + 1 /\ from + (to - from + 1) - 1 = to
    BY <1>1
  <2> QED BY <1>2, <1>3, <2>1
<1>6. s # <<>>
  BY <1>3
<1> QED BY <1>2, <1>3, <1>4, <1>5, <1>6 DEF Last, s

\* A window that begins before the end.
LEMMA WindowIsAPart ==
  ASSUME NEW X, NEW all \in Seq(X), NEW b \in Nat, b < Len(all)
  PROVE  LET to == Min({b + PageSize, Len(all)}) IN
         /\ Window(all, b, PageSize) = SubSeq(all, b + 1, to)
         /\ to \in b + 1 .. Len(all) /\ b + 1 \in 1 .. Len(all)
         /\ to = Len(all) <=> ~ (Len(all) > b + PageSize)
         /\ to < b + 1 + PageSize
         /\ to # Len(all) => b + 1 = Max({1, to + 1 - PageSize})
<1>1. PageSize \in Nat /\ PageSize > 0 /\ Len(all) \in Nat
  BY ProductListAssumption
<1> DEFINE to == Min({b + PageSize, Len(all)})
<1>2. to \in {b + PageSize, Len(all)} /\ to <= b + PageSize /\ to <= Len(all)
  <2>1. b + PageSize \in Int /\ Len(all) \in Int
    BY <1>1
  <2> QED BY <2>1, MinOfTwo
<1>3. Window(all, b, PageSize) = SubSeq(all, b + 1, to)
  BY DEF Window
<1> HIDE DEF to
<1>4. to \in b + 1 .. Len(all) /\ b + 1 \in 1 .. Len(all)
  BY <1>1, <1>2
<1>5. to = Len(all) <=> ~ (Len(all) > b + PageSize)
  BY <1>1, <1>2
<1>6. ASSUME to # Len(all) PROVE b + 1 = Max({1, to + 1 - PageSize})
  <2> DEFINE m == to + 1 - PageSize
             x == Max({1, m})
  <2>1. m = b + 1 /\ m \in Int /\ 1 \in Int /\ 1 <= m
    BY <1>1, <1>2, <1>6
  <2> HIDE DEF m
  <2>2. x = IF 1 < m THEN m ELSE 1
    BY <2>1, MaxOfTwo
  <2> HIDE DEF x
  <2>3. x = b + 1
    BY <2>1, <2>2
  <2> QED BY <2>3 DEF x, m
<1>7. to < b + 1 + PageSize
  BY <1>1, <1>2
<1> QED BY <1>3, <1>4, <1>5, <1>6, <1>7 DEF to

\* The list of a query, and the place of a row in it.
LEMMA ListIsASequence ==
  ASSUME NEW cat \in Seq(Row), NEW r
  PROVE  /\ Matching(cat, r.q) \in SUBSET DOMAIN cat
         /\ List(cat, r) \in Seq(Matching(cat, r.q))
         /\ Len(List(cat, r)) \in Nat
<1>1. Matching(cat, r.q) \in SUBSET DOMAIN cat
  BY DEF Matching
<1>2. List(cat, r) \in Seq(Matching(cat, r.q))
  BY <1>1, SortIsAPermutation DEF List
<1> QED BY <1>1, <1>2

\* The place of row k.
Place(cat, r, k) == Rank(cat, Matching(cat, r.q), r.sort, r.order, k) + 1

\* Cursor c is that of row k, as far as the sort goes.
IsCursorOf(cat, r, c, k) == SortKey(c, c.id, r.sort) = SortKey(cat[k], k, r.sort)

\* A page after a cursor begins right behind the row of the cursor.
LEMMA PageAfter ==
  ASSUME NEW cat \in Seq(Row), NEW r, NEW k \in Matching(cat, r.q),
         r.after # None, r.before = None, IsCursorOf(cat, r, r.after, k)
  PROVE  LET all == List(cat, r)
             b == Place(cat, r, k)
             a == ListPage(cat, r) IN
         /\ a.items = Window(all, b, PageSize)
         /\ b >= Len(all) => a.items = <<>>
         /\ b < Len(all) => IsPart(cat, r, a, b + 1, Min({b + PageSize, Len(all)}))
<1> DEFINE S == Matching(cat, r.q)
           T == Behind(cat, S, r.sort, r.order, k)
           rows == Sorted(cat, T, r.sort, r.order)
           fetched == Window(rows, 0, PageSize + 1)
           kept == Window(fetched, 0, PageSize)
           all == List(cat, r)
           b == Place(cat, r, k)
           a == ListPage(cat, r)
<1>1. {i \in S : r.after # None => Beyond(cat, r.after, r.sort, r.order, i)} = T
  BY DEF Beyond, Ahead, IsCursorOf, Behind
<1>2. (1 - 1) * PageSize = 0
  BY ProductListAssumption
<1>3. /\ a.items = kept
      /\ a.next = IF kept # <<>> /\ Len(fetched) > PageSize
                    THEN CursorFromItem(cat, Last(kept), r) ELSE None
      /\ a.prev = IF kept # <<>> THEN CursorFromItem(cat, Head(kept), r) ELSE None
  <2> HIDE DEF T
  <2> QED BY <1>1, <1>2 DEF ListPage, PageLinks
<1>4. S \in SUBSET DOMAIN cat /\ all \in Seq(S) /\ Len(all) \in Nat
  BY ListIsASequence
<1>5. /\ b \in 1 .. Len(all) /\ Len(all) = b + Len(rows)
      /\ \A n \in 1 .. Len(rows) : rows[n] = all[b + n]
  <2> DEFINE sort == r.sort  order == r.order
             T1 == Behind(cat, S, sort, order, k)
             rows1 == Sorted(cat, T1, sort, order)
             all1 == Sorted(cat, S, sort, order)
             b1 == Rank(cat, S, sort, order, k) + 1
  <2>1. S \in SUBSET DOMAIN cat /\ k \in S
    BY <1>4
  <2> HIDE DEF S, sort, order, T, rows, all, b
  <2>2. b1 \in 1 .. Len(all1)
    BY <2>1, BehindARow
  <2>3. Len(all1) = b1 + Len(rows1)
    BY <2>1, BehindARow
  <2>4. \A n \in 1 .. Len(rows1) : rows1[n] = all1[b1 + n]
    BY <2>1, BehindARow
  <2> QED BY <2>2, <2>3, <2>4 DEF List, Place, S, sort, order, T, rows, all, b
<1>6. rows \in Seq(T) /\ Len(rows) \in Nat
  <2>1. T \in SUBSET DOMAIN cat
    BY <1>4 DEF Behind
  <2> HIDE DEF T
  <2> QED BY <2>1, SortIsAPermutation
<1> HIDE DEF S, all, b, a, rows
<1>7. rows \in Seq(S)
  <2>1. T \subseteq S
    BY DEF Behind
  <2> HIDE DEF T
  <2> QED BY <1>6, <2>1
<1> HIDE DEF T
<1>8. /\ b >= Len(all) => kept = <<>>
      /\ kept = Window(all, b, PageSize)
      /\ Len(fetched) > PageSize <=> Len(all) > b + PageSize
  <2>1. b \in 0 .. Len(all) /\ Len(all) = b + Len(rows)
    BY <1>4, <1>5, <1>6
  <2>2. 0 \in Nat /\ b + 0 = b
    BY <2>1
  <2>3. LET c == b + 0 IN
        /\ c >= Len(all) => kept = <<>>
        /\ kept = Window(all, c, PageSize)
        /\ Len(fetched) > PageSize <=> Len(all) > c + PageSize
    BY <1>4, <1>5, <1>7, <2>1, PageOfTheEnd
  <2> HIDE DEF fetched, kept
  <2> QED BY <2>2, <2>3
<1> HIDE DEF fetched, kept
<1>9. ASSUME b < Len(all)
      PROVE  IsPart(cat, r, a, b + 1, Min({b + PageSize, Len(all)}))
  <2> DEFINE to == Min({b + PageSize, Len(all)})
  <2>1. b \in Nat
    BY <1>5
  <2>2. /\ kept = SubSeq(all, b + 1, to)
        /\ to \in b + 1 .. Len(all) /\ b + 1 \in 1 .. Len(all)
        /\ to = Len(all) <=> ~ (Len(all) > b + PageSize)
        /\ to < b + 1 + PageSize
        /\ to # Len(all) => b + 1 = Max({1, to + 1 - PageSize})
    BY <1>4, <1>8, <1>9, <2>1, WindowIsAPart
  <2> DEFINE from == b + 1
  <2> HIDE DEF to
  <2>3. from # 1
    BY <1>5
  <2>4. to \in from .. Len(all) /\ from \in 1 .. Len(all)
    BY <2>2
  <2> HIDE DEF from
  <2>5. kept # <<>> /\ Head(kept) = all[from] /\ Last(kept) = all[to]
    <3> DEFINE part == SubSeq(all, from, to)
    <3>1. part # <<>> /\ Head(part) = all[from] /\ Last(part) = all[to]
      BY ONLY <1>4, <2>4, EndsOfAPart
    <3> HIDE DEF part
    <3>2. kept = part
      BY <2>2 DEF part, from
    <3> QED BY <3>1, <3>2
  <2>6. IsPart(cat, r, a, from, to)
    <3>1. /\ kept = SubSeq(all, from, to)
          /\ to < from + PageSize
          /\ to # Len(all) => from = Max({1, to + 1 - PageSize})
      BY <2>2 DEF from
    <3> QED BY <1>3, <1>8, <2>2, <2>3, <2>4, <2>5, <3>1 DEF IsPart, all
  <2> QED BY <2>6 DEF to, from
<1> QED BY <1>3, <1>8, <1>9 DEF all, b, a

\* A page with a number begins behind the pages before it.
LEMMA PageByNumber ==
  ASSUME NEW cat \in Seq(Row), NEW r, r.after = None, r.before = None,
         NEW p \in Nat \ {0}, p = IF r.page = None THEN 1 ELSE r.page
  PROVE  LET all == List(cat, r)
             b == (p - 1) * PageSize
             a == ListPage(cat, r) IN
         /\ b \in Nat
         /\ b >= Len(all) => a.items = <<>>
         /\ b < Len(all) => IsPart(cat, r, a, b + 1, Min({b + PageSize, Len(all)}))
<1> DEFINE S == Matching(cat, r.q)
           all == List(cat, r)
           b == (p - 1) * PageSize
           fetched == Window(all, b, PageSize + 1)
           kept == Window(fetched, 0, PageSize)
           a == ListPage(cat, r)
<1>1. {i \in S : None # None => Beyond(cat, None, r.sort, r.order, i)} = S
  OBVIOUS
<1>2. /\ a.items = kept
      /\ a.next = IF kept # <<>> /\ Len(fetched) > PageSize
                    THEN CursorFromItem(cat, Last(kept), r) ELSE None
      /\ a.prev = IF kept # <<>> /\ p > 1 THEN CursorFromItem(cat, Head(kept), r) ELSE None
  <2> HIDE DEF S
  <2> QED BY <1>1 DEF ListPage, PageLinks, List, S
<1>3. b \in Nat /\ (p > 1 <=> b + 1 # 1)
  <2>1. p - 1 \in Nat /\ PageSize \in Nat /\ PageSize > 0
    BY ProductListAssumption
  <2>2. \A x, y \in Nat : x * y \in Nat /\ (y > 0 => (x * y = 0 <=> x = 0))
    OBVIOUS
  <2>3. b \in Nat /\ (b = 0 <=> p - 1 = 0)
    BY <2>1, <2>2
  <2> HIDE DEF b
  <2> QED BY <2>3
<1> HIDE DEF b
<1>4. all \in Seq(S) /\ Len(all) \in Nat
  BY ListIsASequence
<1> HIDE DEF S, all, a
<1>5. /\ b >= Len(all) => kept = <<>>
      /\ kept = Window(all, b, PageSize)
      /\ Len(fetched) > PageSize <=> Len(all) > b + PageSize
  <2> DEFINE base == 0
  <2>1. base \in 0 .. Len(all) /\ Len(all) = base + Len(all)
    BY <1>4
  <2>2. \A n \in 1 .. Len(all) : all[n] = all[base + n]
    BY <1>4
  <2>3. base + b = b
    BY <1>3
  <2> HIDE DEF base
  <2>4. LET c == base + b IN
        /\ c >= Len(all) => kept = <<>>
        /\ kept = Window(all, c, PageSize)
        /\ Len(fetched) > PageSize <=> Len(all) > c + PageSize
    BY <1>3, <1>4, <2>1, <2>2, PageOfTheEnd
  <2> HIDE DEF fetched, kept
  <2> QED BY <2>3, <2>4
<1> HIDE DEF fetched, kept
<1>6. ASSUME b < Len(all)
      PROVE  IsPart(cat, r, a, b + 1, Min({b + PageSize, Len(all)}))
  <2> DEFINE to == Min({b + PageSize, Len(all)})
             from == b + 1
  <2>1. /\ kept = SubSeq(all, b + 1, to)
        /\ to \in b + 1 .. Len(all) /\ b + 1 \in 1 .. Len(all)
        /\ to = Len(all) <=> ~ (Len(all) > b + PageSize)
        /\ to < b + 1 + PageSize
        /\ to # Len(all) => b + 1 = Max({1, to + 1 - PageSize})
    BY <1>3, <1>4, <1>5, <1>6, WindowIsAPart
  <2>2. kept = SubSeq(all, from, to) /\ to \in from .. Len(all) /\ from \in 1 .. Len(all)
    BY <2>1
  <2> HIDE DEF to, from
  <2>3. kept # <<>> /\ Head(kept) = all[from] /\ Last(kept) = all[to]
    <3> DEFINE part == SubSeq(all, from, to)
    <3>1. to \in from .. Len(all) /\ from \in 1 .. Len(all)
      BY <2>2
    <3>2. part # <<>> /\ Head(part) = all[from] /\ Last(part) = all[to]
      BY ONLY <1>4, <3>1, EndsOfAPart
    <3> HIDE DEF part
    <3>3. kept = part
      BY <2>2 DEF part
    <3> QED BY <3>2, <3>3
  <2>4. IsPart(cat, r, a, from, to)
    <3>1. to = Len(all) <=> ~ (Len(fetched) > PageSize)
      BY <1>5, <2>1
    <3>2. /\ from = 1 <=> ~ (p > 1)
          /\ to < from + PageSize
          /\ to # Len(all) => from = Max({1, to + 1 - PageSize})
      BY <1>3, <2>1 DEF from
    <3> QED BY <1>2, <2>2, <2>3, <3>1, <3>2 DEF IsPart, all
  <2> QED BY <2>4 DEF to, from
<1> QED BY <1>2, <1>3, <1>5, <1>6 DEF all, b, a

\* A page before a cursor ends right before the row of the cursor.
LEMMA PageBefore ==
  ASSUME NEW cat \in Seq(Row), NEW r, NEW k \in Matching(cat, r.q),
         r.before # None, IsCursorOf(cat, r, r.before, k)
  PROVE  LET all == List(cat, r)
             b == Place(cat, r, k) - 1
             from == Max({1, b + 1 - PageSize})
             a == ListPage(cat, r) IN
         /\ a.items = SubSeq(all, from, b)
         /\ b = 0 => a.items = <<>>
         /\ r.after = None /\ b > 0 => IsPart(cat, r, a, from, b)
<1> DEFINE S == Matching(cat, r.q)
           back == Inverted(r.order)
           T == Behind(cat, S, r.sort, back, k)
           rows == Sorted(cat, T, r.sort, back)
           fetched == Window(rows, 0, PageSize + 1)
           kept == Window(fetched, 0, PageSize)
           items == Reverse(kept)
           all == List(cat, r)
           b == Place(cat, r, k) - 1
           from == Max({1, b + 1 - PageSize})
           a == ListPage(cat, r)
<1> DEFINE cursor == IF r.before # None THEN r.before ELSE r.after
           order == IF r.before # None THEN Inverted(r.order) ELSE r.order
<1>1. /\ order = back
      /\ {i \in S : cursor # None => Beyond(cat, cursor, r.sort, order, i)} = T
  BY DEF Beyond, Ahead, IsCursorOf, Behind
<1>2. (1 - 1) * PageSize = 0
  BY ProductListAssumption
<1>3. /\ a.items = items
      /\ a.next = IF items # <<>> THEN CursorFromItem(cat, Last(items), r) ELSE None
      /\ r.after = None =>
           a.prev = IF items # <<>> /\ Len(fetched) > PageSize
                      THEN CursorFromItem(cat, Head(items), r) ELSE None
  <2> DEFINE T1 == {i \in S : cursor # None => Beyond(cat, cursor, r.sort, order, i)}
             rows1 == Sorted(cat, T1, r.sort, order)
             page == IF cursor # None \/ r.page = None THEN 1 ELSE r.page
             fetched1 == Window(rows1, (page - 1) * PageSize, PageSize + 1)
             kept1 == Window(fetched1, 0, PageSize)
             items1 == IF r.before # None THEN Reverse(kept1) ELSE kept1
  <2>1. cursor # None
    OBVIOUS
  <2>2. rows1 = rows /\ page = 1
    BY <1>1, <2>1
  <2>3. a = LET extra == Len(fetched1) > PageSize
                links == PageLinks(cat, r, items1, r.before # None, extra, page) IN
              [items |-> items1, total |-> Cardinality(S),
               next |-> links.next, prev |-> links.prev, ok |-> TRUE]
    BY DEF ListPage
  <2> HIDE DEF rows1, rows, page, cursor, order, S, T
  <2>4. fetched1 = fetched
    BY <1>2, <2>2
  <2>5. items1 = items
    BY <2>4
  <2> HIDE DEF fetched1, fetched, items1, items, a
  <2> QED BY <2>2, <2>3, <2>4, <2>5 DEF PageLinks
<1>4. S \in SUBSET DOMAIN cat /\ all \in Seq(S) /\ Len(all) \in Nat
  BY ListIsASequence
<1>5. b \in 0 .. Len(all) - 1 /\ b = Len(rows) /\ \A n \in 1 .. b : rows[n] = all[b - n + 1]
  <2> DEFINE sort == r.sort  way == r.order
             T1 == Behind(cat, S, sort, Inverted(way), k)
             rows1 == Sorted(cat, T1, sort, Inverted(way))
             all1 == Sorted(cat, S, sort, way)
             b1 == Rank(cat, S, sort, way, k)
  <2>1. S \in SUBSET DOMAIN cat /\ k \in S
    BY <1>4
  <2> HIDE DEF S, sort, way
  <2>2. b1 \in 0 .. Len(all1) - 1
    BY <2>1, AheadOfARow
  <2>3. Len(rows1) = b1
    BY ONLY <2>1, cat \in Seq(Row), AheadOfARow
  <2>4. \A n \in 1 .. Len(rows1) : rows1[n] = all1[b1 - n + 1]
    BY <2>1, AheadOfARow
  <2>5. all = all1 /\ rows = rows1
    BY DEF List, S, sort, way
  <2> HIDE DEF T1, rows1, all1, b1, all, rows
  <2>6. b1 \in Nat
    BY <1>4, <2>2, <2>5
  <2>7. b = b1
    <3>1. b = (b1 + 1) - 1
      BY DEF b1, Place, S, sort, way
    <3> QED BY <2>6, <3>1
  <2> HIDE DEF b
  <2> QED BY <2>2, <2>3, <2>4, <2>5, <2>7
<1>6. rows \in Seq(S)
  <2>1. T \in SUBSET DOMAIN cat /\ T \subseteq S
    BY <1>4 DEF Behind
  <2> HIDE DEF T, S
  <2>2. rows \in Seq(T)
    BY <2>1, SortIsAPermutation
  <2> HIDE DEF rows
  <2> QED BY <2>1, <2>2
<1> HIDE DEF S, T, all, b, a, rows
<1>7. /\ b = 0 => items = <<>>
      /\ b > 0 => from \in 1 .. b
      /\ items = SubSeq(all, from, b)
      /\ Len(fetched) > PageSize <=> from > 1
  <2> DEFINE offset == 0
  <2>1. b \in 0 .. Len(all)
    BY <1>4, <1>5
  <2>2. \A n \in 1 .. Len(rows) : rows[n] = all[b - n + 1]
    BY <1>5
  <2>3. offset = 0
    OBVIOUS
  <2>4. b = Len(rows)
    BY <1>5
  <2> HIDE DEF offset
  <2>5. LET fetched1 == Window(rows, offset, PageSize + 1)
            kept1 == Window(fetched1, 0, PageSize) IN
         /\ b = 0 => Reverse(kept1) = <<>>
         /\ b > 0 => from \in 1 .. b
         /\ Reverse(kept1) = SubSeq(all, from, b)
         /\ Len(fetched1) > PageSize <=> from > 1
    BY ONLY <1>4, <1>6, <2>1, <2>2, <2>3, <2>4, PageOfTheStart
  <2> HIDE DEF from
  <2> QED BY <2>5 DEF offset
<1>8. from = Max({1, b + 1 - PageSize}) /\ b < from + PageSize
  <2> DEFINE m == b + 1 - PageSize
  <2>1. m \in Int /\ 1 \in Int /\ b \in Int /\ PageSize \in Nat /\ PageSize > 0
    BY <1>4, <1>5, ProductListAssumption
  <2>2. b < m + PageSize
    BY <2>1
  <2> HIDE DEF m
  <2>3. Max({1, m}) = IF 1 < m THEN m ELSE 1
    BY <2>1, MaxOfTwo
  <2>4. from = Max({1, m})
    BY DEF m
  <2> HIDE DEF from
  <2>5. from >= m /\ from \in Int
    BY <2>1, <2>3, <2>4
  <2>6. b < from + PageSize
    BY ONLY <2>1, <2>2, <2>5
  <2> QED BY <2>4, <2>6 DEF m
<1> HIDE DEF fetched, items, from
<1>9. ASSUME r.after = None, b > 0
      PROVE  IsPart(cat, r, a, from, b)
  <2>1. from \in 1 .. Len(all) /\ b \in from .. Len(all) /\ b # Len(all)
    BY <1>4, <1>5, <1>7, <1>9
  <2>2. items # <<>> /\ Head(items) = all[from] /\ Last(items) = all[b]
    <3> DEFINE part == SubSeq(all, from, b)
    <3>1. b \in from .. Len(all) /\ from \in 1 .. Len(all)
      BY <2>1
    <3>2. part # <<>> /\ Head(part) = all[from] /\ Last(part) = all[b]
      BY ONLY <1>4, <3>1, EndsOfAPart
    <3> HIDE DEF part
    <3>3. items = part
      BY <1>7 DEF part
    <3> QED BY <3>2, <3>3
  <2>3. from = 1 <=> ~ (Len(fetched) > PageSize)
    BY <1>4, <1>7, <2>1
  <2> QED BY <1>3, <1>7, <1>9, <1>8, <2>1, <2>2, <2>3 DEF IsPart, all
<1> QED BY <1>3, <1>7, <1>9 DEF all, b, a, from

\* A part of the list has items.
LEMMA PartsHaveItems ==
  ASSUME NEW cat \in Seq(Row), NEW r, NEW a, NEW f, NEW t, IsPart(cat, r, a, f, t)
  PROVE  a.items # <<>>
<1> DEFINE all == List(cat, r)
           part == SubSeq(all, f, t)
<1>1. all \in Seq(Matching(cat, r.q))
  BY ListIsASequence
<1>2. f \in 1 .. Len(all) /\ t \in f .. Len(all) /\ a.items = part
  BY DEF IsPart
<1> HIDE DEF all
<1>3. part # <<>>
  BY <1>1, <1>2, EndsOfAPart
<1> QED BY <1>2, <1>3

\* Every row is at its place in the list.
LEMMA PlacesOfRows ==
  ASSUME NEW cat \in Seq(Row), NEW r, NEW n \in 1 .. Len(List(cat, r))
  PROVE  LET k == List(cat, r)[n] IN k \in Matching(cat, r.q) /\ Place(cat, r, k) = n
<1> DEFINE S == Matching(cat, r.q)
           all == List(cat, r)
<1>1. S \in SUBSET DOMAIN cat /\ Len(all) \in Nat
  BY ListIsASequence
<1>2. all[n] \in S /\ Rank(cat, S, r.sort, r.order, all[n]) = n - 1
  BY <1>1, PlaceHasARow DEF List
<1> QED BY <1>1, <1>2 DEF Place

\* The cursor that the API makes of a row is one, and it is for the query.
LEMMA CursorsOfRows ==
  ASSUME NEW cat \in Seq(Row), NEW i \in DOMAIN cat, NEW r,
         r.q \in Terms, r.sort \in Sorts, r.order \in Directions
  PROVE  LET c == CursorFromItem(cat, i, r) IN
         c # None /\ CursorMatches(c, r) /\ IsCursorOf(cat, r, c, i)
<1> DEFINE c == CursorFromItem(cat, i, r)
<1>1. c \in Cursors
  <2>1. cat[i] \in Row /\ i \in Nat
    OBVIOUS
  <2>2. cat[i].name \in Nat /\ cat[i].price \in Nat
    BY <2>1 DEF Row
  <2> QED BY <2>1, <2>2 DEF Cursors, CursorFromItem
<1>2. c # None
  <2> HIDE DEF c
  <2> QED BY <1>1, ProductListAssumption
<1>3. CursorMatches(c, r)
  BY DEF CursorMatches, CursorFromItem
<1>4. IsCursorOf(cat, r, c, i)
  BY DEF IsCursorOf, SortKey, CursorFromItem
<1> QED BY <1>2, <1>3, <1>4

\* A query with a cursor and no number is answered with a page.
LEMMA CursorIsFollowed ==
  ASSUME NEW cat, NEW r, r.ids = None, r.page = None, NEW c, c # None, CursorMatches(c, r),
         (r.after = c /\ r.before = None) \/ (r.after = None /\ r.before = c)
  PROVE  ListProducts(cat, r) = ListPage(cat, r)
BY DEF ListProducts

\* A query as it is sent, when it asks for no ids.
IsSent(r) ==
  /\ r = [q |-> r.q, sort |-> r.sort, order |-> r.order, page |-> r.page,
          after |-> r.after, before |-> r.before, ids |-> None]
  /\ r.q \in Terms /\ r.sort \in Sorts /\ r.order \in Directions

\* Query r with other links, and no number.
Linked(r, after, before) == [r EXCEPT !.page = None, !.after = after, !.before = before]

LEMMA LinkedFields ==
  ASSUME NEW r, IsSent(r), NEW x, NEW y
  PROVE  LET r1 == Linked(r, x, y) IN
         /\ r1.q = r.q /\ r1.sort = r.sort /\ r1.order = r.order
         /\ r1.page = None /\ r1.after = x /\ r1.before = y /\ r1.ids = None
         /\ IsSent(r1)
<1>1. r = [q |-> r.q, sort |-> r.sort, order |-> r.order, page |-> r.page,
            after |-> r.after, before |-> r.before, ids |-> None]
  BY DEF IsSent
<1> DEFINE Q(number, a, b) == [q |-> r.q, sort |-> r.sort, order |-> r.order, page |-> number,
                               after |-> a, before |-> b, ids |-> None]
           r1 == [r EXCEPT !.page = None]
           r2 == [r1 EXCEPT !.after = x]
           r3 == [r2 EXCEPT !.before = y]
<1>2. r1 = Q(None, r.after, r.before)
  BY <1>1
<1> HIDE DEF r1
<1>3. r2 = Q(None, x, r.before)
  BY <1>2
<1> HIDE DEF r2
<1>4. r3 = Q(None, x, y)
  BY <1>3
<1> HIDE DEF r3
<1>5. /\ r3.q = r.q /\ r3.sort = r.sort /\ r3.order = r.order
      /\ r3.page = None /\ r3.after = x /\ r3.before = y /\ r3.ids = None
  BY <1>1, <1>4
<1>6. IsSent(r3)
  <2>1. r.q \in Terms /\ r.sort \in Sorts /\ r.order \in Directions
    BY DEF IsSent
  <2> QED BY <1>4, <2>1 DEF IsSent
<1>7. Linked(r, x, y) = r3
  BY DEF Linked, r3, r2, r1
<1> QED BY <1>5, <1>6, <1>7

\* The answer to query r with other links.
Follow(cat, r, after, before) ==
  ListProducts(cat, Linked(r, after, before))

\* The links of part a lead to the parts behind and before it.
Leads(cat, r, a, f, t) ==
  LET all == List(cat, r) IN
    /\ (a.next = None) <=> (t = Len(all))
    /\ (a.prev = None) <=> (f = 1)
    /\ a.next # None =>
         /\ Follow(cat, r, a.next, None).items = Window(all, t, PageSize)
         /\ IsPart(cat, Linked(r, a.next, None),
                   Follow(cat, r, a.next, None), t + 1, Min({t + PageSize, Len(all)}))
    /\ a.prev # None =>
         LET from == Max({1, f - PageSize}) IN
           /\ Follow(cat, r, None, a.prev).items = SubSeq(all, from, f - 1)
           /\ IsPart(cat, Linked(r, None, a.prev),
                     Follow(cat, r, None, a.prev), from, f - 1)

LEMMA LinksLead ==
  ASSUME NEW cat \in Seq(Row), NEW r, IsSent(r), NEW a, NEW f, NEW t, IsPart(cat, r, a, f, t)
  PROVE  Leads(cat, r, a, f, t)
<1> DEFINE S == Matching(cat, r.q)
           all == List(cat, r)
           To == Min({t + PageSize, Len(all)})
           From == Max({1, f - PageSize})
<1>1. r.q \in Terms /\ r.sort \in Sorts /\ r.order \in Directions
  BY DEF IsSent
<1>2. S \in SUBSET DOMAIN cat /\ all \in Seq(S) /\ Len(all) \in Nat
  BY ListIsASequence
<1>3. \A n \in 1 .. Len(all) : all[n] \in S /\ Place(cat, r, all[n]) = n
  BY PlacesOfRows
<1>4. \A n \in 1 .. Len(all) :
        LET c == CursorFromItem(cat, all[n], r) IN
        c # None /\ CursorMatches(c, r) /\ IsCursorOf(cat, r, c, all[n])
  <2> SUFFICES ASSUME NEW n \in 1 .. Len(all)
               PROVE  LET c == CursorFromItem(cat, all[n], r) IN
                      c # None /\ CursorMatches(c, r) /\ IsCursorOf(cat, r, c, all[n])
    OBVIOUS
  <2>1. PICK i \in DOMAIN cat : i = all[n]
    BY <1>2, <1>3
  <2> HIDE DEF all
  <2> QED BY <1>1, <2>1, CursorsOfRows
<1>5. /\ f \in 1 .. Len(all) /\ t \in f .. Len(all)
      /\ a.next = IF t = Len(all) THEN None ELSE CursorFromItem(cat, all[t], r)
      /\ a.prev = IF f = 1 THEN None ELSE CursorFromItem(cat, all[f], r)
  BY DEF IsPart
<1> HIDE DEF all
<1>6. t \in 1 .. Len(all) /\ f \in 1 .. Len(all)
  BY <1>2, <1>5
<1>7. /\ a.next = None <=> t = Len(all)
      /\ a.prev = None <=> f = 1
  BY <1>4, <1>5, <1>6
<1>8. ASSUME a.next # None
      PROVE  /\ Follow(cat, r, a.next, None).items = Window(all, t, PageSize)
             /\ IsPart(cat, Linked(r, a.next, None),
                       Follow(cat, r, a.next, None), t + 1, To)
  <2> DEFINE c == a.next
             k == all[t]
             r1 == Linked(r, c, None)
             p == ListPage(cat, r1)
  <2>1. /\ r1.q = r.q /\ r1.sort = r.sort /\ r1.order = r.order
        /\ r1.page = None /\ r1.after = c /\ r1.before = None /\ r1.ids = None
    BY LinkedFields
  <2>2. k \in S /\ Place(cat, r, k) = t
    BY <1>3, <1>6
  <2>3. c # None /\ CursorMatches(c, r) /\ IsCursorOf(cat, r, c, k)
    BY <1>4, <1>5, <1>6, <1>8
  <2> HIDE DEF r1, k, c
  <2>4. /\ List(cat, r1) = List(cat, r) /\ Place(cat, r1, k) = Place(cat, r, k)
        /\ IsCursorOf(cat, r1, c, k) <=> IsCursorOf(cat, r, c, k)
        /\ CursorMatches(c, r1) <=> CursorMatches(c, r)
    BY <2>1 DEF List, Place, IsCursorOf, CursorMatches
  <2>5. List(cat, r1) = all /\ Place(cat, r1, k) = t
    BY <2>2, <2>4 DEF all
  <2>6. IsCursorOf(cat, r1, c, k) /\ CursorMatches(c, r1)
    BY <2>3, <2>4
  <2>7. ListProducts(cat, r1) = p
    BY <2>1, <2>3, <2>6, CursorIsFollowed
  <2>8. k \in Matching(cat, r1.q) /\ r1.after # None /\ IsCursorOf(cat, r1, r1.after, k)
    BY <2>1, <2>2, <2>3, <2>6
  <2> DEFINE b == Place(cat, r1, k)
             all1 == List(cat, r1)
             to == Min({b + PageSize, Len(all1)})
  <2>9. p.items = Window(all1, b, PageSize)
    BY <2>1, <2>8, PageAfter
  <2>10. b < Len(all1) => IsPart(cat, r1, p, b + 1, to)
    BY <2>1, <2>8, PageAfter
  <2>11. t < Len(all)
    BY <1>2, <1>6, <1>7, <1>8
  <2> HIDE DEF p, b, all1, to
  <2>12. b = t /\ all1 = all
    BY <2>5 DEF b, all1
  <2>13. to = To
    BY <2>12 DEF to
  <2> HIDE DEF To
  <2>14. IsPart(cat, r1, p, t + 1, To)
    BY <2>10, <2>11, <2>12, <2>13
  <2> QED BY <2>7, <2>9, <2>12, <2>14 DEF Follow, r1, c
<1>9. ASSUME a.prev # None
      PROVE  /\ Follow(cat, r, None, a.prev).items = SubSeq(all, From, f - 1)
             /\ IsPart(cat, Linked(r, None, a.prev),
                       Follow(cat, r, None, a.prev), From, f - 1)
  <2> DEFINE c == a.prev
             k == all[f]
             r1 == Linked(r, None, c)
             p == ListPage(cat, r1)
  <2>1. /\ r1.q = r.q /\ r1.sort = r.sort /\ r1.order = r.order
        /\ r1.page = None /\ r1.after = None /\ r1.before = c /\ r1.ids = None
    BY LinkedFields
  <2>2. k \in S /\ Place(cat, r, k) = f
    BY <1>3, <1>6
  <2>3. c # None /\ CursorMatches(c, r) /\ IsCursorOf(cat, r, c, k)
    BY <1>4, <1>5, <1>6, <1>9
  <2> HIDE DEF r1, k, c
  <2>4. /\ List(cat, r1) = List(cat, r) /\ Place(cat, r1, k) = Place(cat, r, k)
        /\ IsCursorOf(cat, r1, c, k) <=> IsCursorOf(cat, r, c, k)
        /\ CursorMatches(c, r1) <=> CursorMatches(c, r)
    BY <2>1 DEF List, Place, IsCursorOf, CursorMatches
  <2>5. List(cat, r1) = all /\ Place(cat, r1, k) = f
    BY <2>2, <2>4 DEF all
  <2>6. IsCursorOf(cat, r1, c, k) /\ CursorMatches(c, r1)
    BY <2>3, <2>4
  <2>7. ListProducts(cat, r1) = p
    BY <2>1, <2>3, <2>6, CursorIsFollowed
  <2>8. k \in Matching(cat, r1.q) /\ r1.before # None /\ IsCursorOf(cat, r1, r1.before, k)
    BY <2>1, <2>2, <2>3, <2>6
  <2> DEFINE b == Place(cat, r1, k) - 1
             all1 == List(cat, r1)
             from == Max({1, b + 1 - PageSize})
  <2>9. p.items = SubSeq(all1, from, b)
    BY <2>8, PageBefore
  <2>10. b > 0 => IsPart(cat, r1, p, from, b)
    BY <2>1, <2>8, PageBefore
  <2>11. b = f - 1 /\ all1 = all
    BY <2>5
  <2>12. b > 0 /\ b + 1 - PageSize = f - PageSize
    BY <1>2, <1>6, <1>7, <1>9, <2>11, ProductListAssumption
  <2>13. from = From
    BY <2>12
  <2> HIDE DEF p, b, all1, from, From
  <2>14. IsPart(cat, r1, p, From, f - 1)
    BY <2>10, <2>11, <2>12, <2>13
  <2> QED BY <2>7, <2>9, <2>11, <2>13, <2>14 DEF Follow, r1, c
<1> QED BY <1>7, <1>8, <1>9 DEF Leads, all

\* What PagesTile says of an answer.
Tiles(cat, r, a) ==
  LET all == List(cat, r)
      from == CHOOSE k \in 1 .. Len(all) : all[k] = Head(a.items)
      to == from + Len(a.items) - 1
    IN /\ a.items = SubSeq(all, from, to)
       /\ (a.next = None) <=> (to = Len(all))
       /\ (a.prev = None) <=> (from = 1)
       /\ a.next # None => Follow(cat, r, a.next, None).items = Window(all, to, PageSize)
       /\ a.prev # None =>
            Follow(cat, r, None, a.prev).items = SubSeq(all, Max({1, from - PageSize}), from - 1)

\* A part of the list begins where its first item is: no row is in the list twice.
LEMMA PartsTile ==
  ASSUME NEW cat \in Seq(Row), NEW r, IsSent(r), NEW a, NEW f, NEW t, IsPart(cat, r, a, f, t)
  PROVE  Tiles(cat, r, a)
<1> DEFINE S == Matching(cat, r.q)
           all == List(cat, r)
           from == CHOOSE k \in 1 .. Len(all) : all[k] = Head(a.items)
           to == from + Len(a.items) - 1
<1>1. all \in Seq(S) /\ Len(all) \in Nat
  BY ListIsASequence
<1>2. \A n \in 1 .. Len(all) : Place(cat, r, all[n]) = n
  BY PlacesOfRows
<1>3. f \in 1 .. Len(all) /\ t \in f .. Len(all) /\ a.items = SubSeq(all, f, t)
  BY DEF IsPart
<1>4. /\ a.next = None <=> t = Len(all)
      /\ a.prev = None <=> f = 1
      /\ a.next # None => Follow(cat, r, a.next, None).items = Window(all, t, PageSize)
      /\ a.prev # None =>
           Follow(cat, r, None, a.prev).items = SubSeq(all, Max({1, f - PageSize}), f - 1)
  <2>1. Leads(cat, r, a, f, t)
    BY LinksLead
  <2> QED BY <2>1 DEF Leads
<1> HIDE DEF all
<1>5. Head(a.items) = all[f] /\ Len(a.items) = t - f + 1
  <2> DEFINE part == SubSeq(all, f, t)
  <2>1. f \in 1 .. Len(all) /\ t \in f .. Len(all)
    BY <1>3
  <2>2. Head(part) = all[f] /\ Len(part) = t - f + 1
    BY ONLY <1>1, <2>1, EndsOfAPart
  <2> HIDE DEF part
  <2>3. a.items = part
    BY <1>3 DEF part
  <2> QED BY <2>2, <2>3
<1>6. from = f
  <2>1. \A n \in 1 .. Len(all) : all[n] = all[f] => n = f
    BY <1>2, <1>3
  <2> QED BY <1>3, <1>5, <2>1
<1> HIDE DEF from
<1>7. to = t
  BY <1>1, <1>3, <1>5, <1>6
<1> HIDE DEF to
<1> QED BY <1>3, <1>4, <1>6, <1>7 DEF Tiles, all, from, to

\* How a query that asks for no ids is sent.
LEMMA SentFields ==
  ASSUME NEW r \in Query, r.ids = None
  PROVE  /\ IsSent(Sent(r))
         /\ Sent(r).q = r.q /\ Sent(r).sort = r.sort /\ Sent(r).order = r.order
         /\ Sent(r).page = IF r.page = 1 THEN None ELSE r.page
         /\ Sent(r).after = r.after /\ Sent(r).before = r.before /\ Sent(r).ids = None
<1> DEFINE s == [q |-> r.q, sort |-> r.sort, order |-> r.order,
                 page |-> IF r.page = 1 THEN None ELSE r.page,
                 after |-> r.after, before |-> r.before, ids |-> None]
<1>1. /\ r = [q |-> r.q, sort |-> r.sort, order |-> r.order, page |-> r.page,
              after |-> r.after, before |-> r.before, ids |-> None]
      /\ r.q \in Terms /\ r.sort \in Sorts /\ r.order \in Directions
  BY QueryFields
<1>2. Sent(r) = s
  BY <1>1 DEF Sent
<1>3. IsSent(s)
  BY <1>1 DEF IsSent
<1> QED BY <1>2, <1>3

\* An answer that has items is a part of the list.
LEMMA AnswersAreParts ==
  ASSUME NEW cat \in Seq(Row), NEW r0 \in Query, r0.ids = None, CutFrom(cat, r0),
         NEW a, a = ListProducts(cat, Sent(r0)), a.ok, a.items # <<>>
  PROVE  \E f, t : IsPart(cat, Sent(r0), a, f, t)
<1> DEFINE r == Sent(r0)
           all == List(cat, r)
<1>1. /\ r.q = r0.q /\ r.sort = r0.sort /\ r.order = r0.order
      /\ r.page = IF r0.page = 1 THEN None ELSE r0.page
      /\ r.after = r0.after /\ r.before = r0.before /\ r.ids = None
  BY SentFields
<1>2. /\ r0.page \in 1 .. MaxPage /\ r0.page \in Nat \ {0}
      /\ r0.after \in Cursors \cup {None} /\ r0.before \in Cursors \cup {None}
  BY QueryFields, ProductListAssumption
<1>3. Len(all) \in Nat
  BY ListIsASequence
<1> HIDE DEF r
<1>4. /\ a = ListPage(cat, r)
      /\ ~ (r.after # None /\ r.before # None)
      /\ \A c \in {r.after, r.before} \ {None} : CursorMatches(c, r)
  BY <1>1 DEF ListProducts, Rejected, r
<1>5. \A c \in {r.after, r.before} \ {None} :
        c.id \in Matching(cat, r.q) /\ IsCursorOf(cat, r, c, c.id)
  <2>1. \A c \in {r.after, r.before} \ {None} : CursorMatches(c, r0)
    BY <1>1, <1>4 DEF CursorMatches
  <2> QED BY <1>1, <2>1 DEF CutFrom, IsCursorOf
<1>6. CASE r.before # None
  <2>1. /\ r.before.id \in Matching(cat, r.q) /\ r.after = None
        /\ IsCursorOf(cat, r, r.before, r.before.id)
    BY <1>4, <1>5, <1>6
  <2> DEFINE b == Place(cat, r, r.before.id) - 1
             from == Max({1, b + 1 - PageSize})
             p == ListPage(cat, r)
  <2>2. b = 0 => p.items = <<>>
    BY <1>6, <2>1, PageBefore
  <2>3. b > 0 => IsPart(cat, r, p, from, b)
    BY <1>6, <2>1, PageBefore
  <2>4. b \in Nat
    <3> DEFINE n == Rank(cat, Matching(cat, r.q), r.sort, r.order, r.before.id)
    <3>1. n \in Nat
      BY ListIsASequence, RankIsACount
    <3>2. Place(cat, r, r.before.id) = n + 1
      BY DEF Place
    <3> HIDE DEF n
    <3> QED BY <3>1, <3>2
  <2> HIDE DEF b, from, p
  <2>5. IsPart(cat, r, p, from, b)
    BY <1>4, <2>2, <2>3, <2>4 DEF p
  <2> QED BY <1>4, <2>5 DEF p, r
<1>7. CASE r.before = None /\ r.after # None
  <2>1. r.after.id \in Matching(cat, r.q) /\ IsCursorOf(cat, r, r.after, r.after.id)
    BY <1>5, <1>7
  <2> DEFINE b == Place(cat, r, r.after.id)
             to == Min({b + PageSize, Len(all)})
             p == ListPage(cat, r)
  <2>2. b >= Len(all) => p.items = <<>>
    BY <1>7, <2>1, PageAfter
  <2>3. b < Len(all) => IsPart(cat, r, p, b + 1, to)
    BY <1>7, <2>1, PageAfter
  <2>4. b \in Nat
    <3> DEFINE n == Rank(cat, Matching(cat, r.q), r.sort, r.order, r.after.id)
    <3>1. n \in Nat
      BY ListIsASequence, RankIsACount
    <3>2. b = n + 1
      BY DEF Place
    <3> HIDE DEF n, b
    <3> QED BY <3>1, <3>2
  <2> HIDE DEF b, to, p, all
  <2>5. IsPart(cat, r, p, b + 1, to)
    BY <1>3, <1>4, <2>2, <2>3, <2>4 DEF p
  <2> QED BY <1>4, <2>5 DEF p, r
<1>8. CASE r.before = None /\ r.after = None
  <2> DEFINE n == IF r.page = None THEN 1 ELSE r.page
             b == (n - 1) * PageSize
             to == Min({b + PageSize, Len(all)})
             p == ListPage(cat, r)
  <2>1. n \in Nat \ {0}
    BY <1>1, <1>2
  <2> HIDE DEF n
  <2>2. n = IF r.page = None THEN 1 ELSE r.page
    BY DEF n
  <2>3. b \in Nat
    BY <1>8, <2>1, <2>2, PageByNumber
  <2>4. b >= Len(all) => p.items = <<>>
    BY <1>8, <2>1, <2>2, PageByNumber
  <2>5. b < Len(all) => IsPart(cat, r, p, b + 1, to)
    BY <1>8, <2>1, <2>2, PageByNumber
  <2> HIDE DEF b, to, p, all
  <2>6. IsPart(cat, r, p, b + 1, to)
    BY <1>3, <1>4, <2>3, <2>4, <2>5 DEF p
  <2> QED BY <1>4, <2>6 DEF p, r
<1> QED BY <1>6, <1>7, <1>8

\* An answer that has items tiles the list.
LEMMA AnswersTile ==
  ASSUME NEW cat \in Seq(Row), NEW r0 \in Query, r0.ids = None, CutFrom(cat, r0),
         NEW a, a = ListProducts(cat, Sent(r0)), a.ok, a.items # <<>>
  PROVE  Tiles(cat, Sent(r0), a)
<1>1. PICK f, t : IsPart(cat, Sent(r0), a, f, t)
  BY AnswersAreParts
<1>2. IsSent(Sent(r0))
  BY SentFields
<1> QED BY <1>1, <1>2, PartsTile

\* An answer says how long the list is.
LEMMA AnswersCount ==
  ASSUME NEW cat \in Catalogs, NEW r
  PROVE  ListProducts(cat, r).total \in Nat /\ ListProducts(cat, r).ok \in BOOLEAN
<1>1. IsFiniteSet(DOMAIN cat)
  <2>1. cat \in Seq(Row)
    BY ProductListAssumption DEF Row
  <2>2. DOMAIN cat \in SUBSET DOMAIN cat
    OBVIOUS
  <2> QED BY <2>1, <2>2, RowsAreFinite
<1>2. Cardinality(ToSet(r.ids) \cap DOMAIN cat) \in Nat
  BY <1>1, FS_Subset, FS_CardinalityType
<1>3. Cardinality(Matching(cat, r.q)) \in Nat
  BY <1>1, FS_Subset, FS_CardinalityType DEF Matching
<1>4. Rejected.total \in Nat /\ Rejected.ok \in BOOLEAN
  BY DEF Rejected
<1>5. ListByIds(cat, r.ids).total \in Nat /\ ListByIds(cat, r.ids).ok \in BOOLEAN
  BY <1>2 DEF ListByIds
<1>6. ListPage(cat, r).total \in Nat /\ ListPage(cat, r).ok \in BOOLEAN
  BY <1>3 DEF ListPage
<1> QED BY <1>4, <1>5, <1>6 DEF ListProducts

-----------------------------------------------------------------------------
(* The inductive invariant. *)

Live == [query |-> query, aborted |-> FALSE]

\* Only a request for the query is alive, and one is while the page loads.
RequestsOK ==
  /\ requests \subseteq [query : Query, aborted : BOOLEAN]
  /\ \A r \in requests : ~ r.aborted => r.query = query
  /\ loading => Live \in requests

\* What is shown at rest.
ShownOK ==
  ~ loading =>
    /\ shown.ok => shown = ListProducts(catalog, Sent(query))
    /\ PageCount(query, shown.total) > 0 => query.page <= PageCount(query, shown.total)

BoxOK == ~ timer => box = query.q

ListInv == CatalogTypeOK /\ RequestsOK /\ ShownOK /\ BoxOK

\* The query becomes another one, in the address bar and in the requests.
Turned ==
  /\ UNCHANGED <<catalog, shown>>
  /\ \E r \in Query : Becomes(r, shown.total, requests)

\* What the box, its timer, the history and the shopper's patience may become.
BoxStep ==
  /\ box' \in Terms /\ timer' \in BOOLEAN
  /\ ~ timer' => box' = query'.q
  /\ behind' \in {None, behind, query}
  /\ moves' \in 0 .. MaxMoves

LEMMA TurnedKeeps ==
  ASSUME ListInv, Turned, BoxStep
  PROVE  ListInv'
<1> PICK r \in Query : Becomes(r, shown.total, requests)
  BY DEF Turned
<1> DEFINE r1 == InRange(r, shown.total)
<1>1. /\ query \in Query /\ shown.total \in Nat /\ shown.ok \in BOOLEAN /\ catalog \in Catalogs
      /\ behind \in Query \cup {None} /\ loading \in BOOLEAN
      /\ requests \subseteq [query : Query, aborted : BOOLEAN]
  BY DEF ListInv, CatalogTypeOK
<1>2. r1 \in Query /\ query' = r1
  BY <1>1, InRangeFits DEF Becomes
<1>3. UNCHANGED <<catalog, shown>>
  BY DEF Turned
<1>4. behind' \in Query \cup {None}
  BY <1>1 DEF BoxStep
<1>5. BoxOK'
  BY DEF BoxStep, BoxOK
<1>6. CASE r1 = query
  <2>1. query' = query /\ requests' = requests /\ loading' = loading
    BY <1>2, <1>6 DEF Becomes
  <2>2. RequestsOK' /\ ShownOK'
    BY <1>3, <2>1 DEF ListInv, RequestsOK, ShownOK, Live
  <2>3. CatalogTypeOK'
    BY <1>1, <1>3, <1>4, <2>1 DEF BoxStep, CatalogTypeOK
  <2> QED BY <1>5, <2>2, <2>3 DEF ListInv
<1>7. CASE r1 # query
  <2> DEFINE new == [query |-> r1, aborted |-> FALSE]
  <2>1. requests' = Superseded(requests) \cup {new} /\ loading' = TRUE
    BY <1>7 DEF Becomes
  <2>2. \A x \in Superseded(requests) : x \in [query : Query, aborted : BOOLEAN] /\ x.aborted
    BY <1>1 DEF Superseded
  <2>3. new \in [query : Query, aborted : BOOLEAN] /\ new.query = r1 /\ new = Live'
    BY <1>2 DEF Live
  <2> HIDE DEF r1, new
  <2>4. RequestsOK'
    BY <1>2, <2>1, <2>2, <2>3 DEF RequestsOK
  <2>5. ShownOK'
    BY <2>1 DEF ShownOK
  <2>6. CatalogTypeOK'
    BY <1>1, <1>2, <1>3, <1>4, <2>1, <2>4 DEF BoxStep, CatalogTypeOK, RequestsOK
  <2> QED BY <1>5, <2>4, <2>5, <2>6 DEF ListInv
<1> QED BY <1>6, <1>7

LEMMA AnsweredKeeps ==
  ASSUME ListInv, NEW r \in requests, Answered(r)
  PROVE  ListInv'
<1>1. /\ query \in Query /\ shown.total \in Nat /\ shown.ok \in BOOLEAN /\ catalog \in Catalogs
      /\ behind \in Query \cup {None} /\ loading \in BOOLEAN /\ timer \in BOOLEAN
      /\ requests \subseteq [query : Query, aborted : BOOLEAN]
      /\ box \in Terms /\ moves \in 0 .. MaxMoves
  BY DEF ListInv, CatalogTypeOK
<1>2. UNCHANGED <<catalog, behind, box, timer, moves>>
  BY DEF Answered
<1>3. CASE r.aborted
  <2>1. requests' = requests \ {r} /\ UNCHANGED <<query, shown, loading>>
    BY <1>3 DEF Answered
  <2>2. Live # r
    BY <1>3 DEF Live
  <2>3. RequestsOK' /\ ShownOK' /\ BoxOK'
    BY <1>2, <2>1, <2>2 DEF ListInv, RequestsOK, ShownOK, BoxOK, Live
  <2>4. CatalogTypeOK'
    BY <1>1, <1>2, <2>1 DEF CatalogTypeOK
  <2> QED BY <2>3, <2>4 DEF ListInv
<1>4. CASE ~ r.aborted
  <2>1. r.query = query
    BY <1>4 DEF ListInv, RequestsOK
  <2> DEFINE rest == requests \ {r}
  <2> DEFINE r1 == InRange(query, shown'.total)
  <2>2. /\ shown' \in {ListProducts(catalog, Sent(query)), Rejected}
        /\ query' = r1 /\ loading' = (r1 # query)
        /\ requests' = IF r1 = query THEN rest
                       ELSE Superseded(rest) \cup {[query |-> r1, aborted |-> FALSE]}
    BY <1>4, <2>1 DEF Answered
  <2>3. /\ shown'.total \in Nat /\ shown'.ok \in BOOLEAN
        /\ shown'.ok => shown' = ListProducts(catalog, Sent(query))
    <3> DEFINE asked == ListProducts(catalog, Sent(query))
    <3>1. asked.total \in Nat /\ asked.ok \in BOOLEAN
      BY <1>1, AnswersCount
    <3>2. Rejected.total \in Nat /\ Rejected.ok \in BOOLEAN /\ ~ Rejected.ok
      BY DEF Rejected
    <3>3. CASE shown' = asked
      BY <3>1, <3>3
    <3>4. CASE shown' = Rejected
      BY <3>2, <3>4
    <3> QED BY <2>2, <3>3, <3>4
  <2>4. /\ r1 \in Query /\ r1.q = query.q
        /\ PageCount(r1, shown'.total) > 0 => r1.page <= PageCount(r1, shown'.total)
    BY <1>1, <2>3, InRangeFits
  <2>5. BoxOK'
    BY <1>2, <2>2, <2>4 DEF ListInv, BoxOK
  <2>6. \A x \in rest : x \in [query : Query, aborted : BOOLEAN] /\ (~ x.aborted => x.query = query)
    BY <1>1 DEF ListInv, RequestsOK
  <2>7. CASE r1 = query
    <3>1. query' = query /\ loading' = FALSE /\ requests' = rest
      BY <2>2, <2>7
    <3> HIDE DEF rest, r1
    <3>2. RequestsOK'
      BY <2>6, <3>1 DEF RequestsOK
    <3>3. ShownOK'
      BY <1>2, <2>3, <2>4, <2>7, <3>1 DEF ShownOK
    <3>4. CatalogTypeOK'
      BY <1>1, <1>2, <2>3, <3>1, <3>2 DEF CatalogTypeOK, RequestsOK
    <3> QED BY <2>5, <3>2, <3>3, <3>4 DEF ListInv
  <2>8. CASE r1 # query
    <3> DEFINE new == [query |-> r1, aborted |-> FALSE]
    <3>1. query' = r1 /\ loading' = TRUE /\ requests' = Superseded(rest) \cup {new}
      BY <2>2, <2>8
    <3>2. \A x \in Superseded(rest) : x \in [query : Query, aborted : BOOLEAN] /\ x.aborted
      BY <2>6 DEF Superseded
    <3>3. new \in [query : Query, aborted : BOOLEAN] /\ new.query = r1 /\ new = Live'
      BY <2>2, <2>4 DEF Live
    <3> HIDE DEF r1, new, rest
    <3>4. RequestsOK'
      BY <3>1, <3>2, <3>3 DEF RequestsOK
    <3>5. ShownOK'
      BY <3>1 DEF ShownOK
    <3>6. CatalogTypeOK'
      BY <1>1, <1>2, <2>3, <2>4, <3>1, <3>4 DEF CatalogTypeOK, RequestsOK
    <3> QED BY <2>5, <3>4, <3>5, <3>6 DEF ListInv
  <2> QED BY <2>7, <2>8
<1> QED BY <1>3, <1>4

\* Steps that leave the address bar and what is shown alone.
Calm == UNCHANGED <<catalog, query, shown, loading, requests>>

LEMMA CalmKeeps ==
  ASSUME ListInv, Calm, BoxStep
  PROVE  ListInv'
<1>1. RequestsOK' /\ ShownOK' /\ BoxOK'
  BY DEF ListInv, RequestsOK, ShownOK, BoxOK, Live, Calm, BoxStep
<1>2. CatalogTypeOK'
  BY DEF ListInv, CatalogTypeOK, Calm, BoxStep
<1> QED BY <1>1, <1>2 DEF ListInv

\* The query that the address bar then has keeps the search term of r.
LEMMA BecomesKeepsTheTerm ==
  ASSUME ListInv, NEW r \in Query, Becomes(r, shown.total, requests)
  PROVE  query'.q = r.q
BY InRangeFits DEF ListInv, CatalogTypeOK, Becomes

LEMMA EveryStepKeeps ==
  ASSUME ListInv, [Next]_vars
  PROVE  ListInv'
<1>1. /\ query \in Query /\ behind \in Query \cup {None} /\ box \in Terms /\ timer \in BOOLEAN
      /\ moves \in 0 .. MaxMoves
  BY DEF ListInv, CatalogTypeOK
<1>2. query.q \in Terms /\ None \in Terms
  BY <1>1, QueryFields DEF Terms
<1>3. Move => moves' \in 0 .. MaxMoves
  BY <1>1, ProductListAssumption DEF Move
<1>4. ~ timer => box = query.q
  BY DEF ListInv, BoxOK
<1>5. ASSUME NEW text \in Terms, Type(text) PROVE ListInv'
  <2>1. Calm /\ BoxStep
    BY <1>1, <1>3, <1>5 DEF Type, Calm, BoxStep
  <2> QED BY <2>1, CalmKeeps
<1>6. ASSUME NEW r \in Query, Replace(r), box' \in Terms, timer' \in BOOLEAN,
             ~ timer' => box' = r.q, moves' \in 0 .. MaxMoves
      PROVE  ListInv'
  <2>1. query'.q = r.q
    BY <1>6, BecomesKeepsTheTerm DEF Replace
  <2>2. Turned /\ BoxStep
    BY <1>6, <2>1 DEF Replace, Turned, BoxStep
  <2> QED BY <2>2, TurnedKeeps
<1>7. \A text \in Terms : Searched(text) \in Query /\ Searched(text).q = text
  BY <1>1, SearchedIsAQuery
<1>8. CASE TimerFires
  <2>1. CASE query.q # box
    BY <1>1, <1>6, <1>7, <1>8, <2>1 DEF TimerFires
  <2>2. CASE query.q = box
    <3>1. Calm /\ BoxStep
      BY <1>1, <1>8, <2>2 DEF TimerFires, Calm, BoxStep
    <3> QED BY <3>1, CalmKeeps
  <2> QED BY <2>1, <2>2
<1>9. CASE SearchSubmitted
  BY <1>1, <1>3, <1>6, <1>7, <1>9 DEF SearchSubmitted
<1>10. CASE ClearSearch
  BY <1>1, <1>2, <1>3, <1>6, <1>7, <1>10 DEF ClearSearch
<1>11. CASE ClearAll
  BY <1>1, <1>2, <1>3, <1>6, <1>11, HomeIsAQuery DEF ClearAll
<1>12. ASSUME NEW sort \in Sorts, NEW order \in Directions, SetListing(sort, order)
       PROVE  ListInv'
  <2>1. Listed(sort, order) \in Query /\ Listed(sort, order).q = query.q
    BY <1>1, ListedIsAQuery
  <2>2. Replace(Listed(sort, order)) /\ Move /\ UNCHANGED <<box, timer>>
    BY <1>12 DEF SetListing, Listed
  <2> QED BY <1>1, <1>3, <1>4, <1>6, <2>1, <2>2
<1>13. ASSUME NEW p \in 1 .. MaxPage, GoToPage(p) PROVE ListInv'
  <2>1. WithPage(query, p) \in Query /\ WithPage(query, p).q = query.q
    BY <1>1, WithPageIsAQuery
  <2>2. Replace(WithPage(query, p)) /\ Move /\ UNCHANGED <<box, timer>>
    BY <1>13 DEF GoToPage
  <2> QED BY <1>1, <1>3, <1>4, <1>6, <2>1, <2>2
<1>14. ASSUME NEW r \in Query, Enters(r), Move, behind' \in {None, query} PROVE ListInv'
  <2>1. query'.q = r.q /\ r.q \in Terms
    BY <1>14, BecomesKeepsTheTerm, QueryFields DEF Enters
  <2>2. Turned
    BY <1>14 DEF Enters, Turned
  <2>3. box' = IF r.q # query.q THEN r.q ELSE box
    BY <1>14 DEF Enters
  <2>4. timer' = (timer \/ box' # box)
    BY <1>14 DEF Enters
  <2>5. ~ timer' => box' = query'.q
    BY <1>4, <2>1, <2>3, <2>4
  <2>6. BoxStep
    BY <1>1, <1>3, <1>14, <2>1, <2>3, <2>4, <2>5 DEF BoxStep
  <2> QED BY <2>2, <2>6, TurnedKeeps
<1>15. ASSUME NEW r \in Links, OpenLink(r) PROVE ListInv'
  BY <1>14, <1>15, ProductListAssumption DEF OpenLink
<1>16. CASE Back
  BY <1>1, <1>14, <1>16 DEF Back
<1>17. ASSUME NEW r \in requests, Answered(r) PROVE ListInv'
  BY <1>17, AnsweredKeeps
<1>18. CASE UNCHANGED vars
  <2>1. Calm /\ BoxStep
    BY <1>1, <1>4, <1>18 DEF vars, Calm, BoxStep
  <2> QED BY <2>1, CalmKeeps
<1> QED BY <1>5, <1>8, <1>9, <1>10, <1>11, <1>12, <1>13, <1>15, <1>16, <1>17, <1>18 DEF Next

LEMMA ListInvHolds == Spec => []ListInv
<1>1. Init => ListInv
  <2> SUFFICES ASSUME Init PROVE ListInv
    OBVIOUS
  <2>1. query \in Query /\ query.q \in Terms
    BY ProductListAssumption, QueryFields DEF Init
  <2>2. shown.total \in Nat /\ shown.ok \in BOOLEAN
    BY DEF Init, Rejected
  <2>3. 0 \in 0 .. MaxMoves
    BY ProductListAssumption
  <2>4. CatalogTypeOK
    <3>1. requests \subseteq [query : Query, aborted : BOOLEAN]
      BY <2>1 DEF Init
    <3>2. catalog \in Catalogs /\ behind \in Query \cup {None} /\ box \in Terms
      BY <2>1 DEF Init
    <3>3. loading \in BOOLEAN /\ timer \in BOOLEAN
      BY DEF Init
    <3>4. moves \in 0 .. MaxMoves
      BY <2>3 DEF Init
    <3> QED BY <2>1, <2>2, <3>1, <3>2, <3>3, <3>4 DEF CatalogTypeOK
  <2> QED BY <2>1, <2>4 DEF Init, ListInv, RequestsOK, ShownOK, BoxOK, Live
<1>2. ListInv /\ [Next]_vars => ListInv'
  BY EveryStepKeeps
<1> QED BY <1>1, <1>2, PTL DEF Spec

-----------------------------------------------------------------------------
\* Every variable of the page keeps its type: in particular the address bar never asks
\* for a page beyond MaxPage, nor for ids along with anything else.
THEOREM CatalogTypesHold == Spec => []CatalogTypeOK
<1>1. ListInv => CatalogTypeOK
  BY DEF ListInv
<1> QED BY <1>1, ListInvHolds, PTL

\* What the page shows at rest is the API's answer to the query in the address bar, in
\* whatever order the answers come, and the box holds its search term unless the delay
\* runs: whatever is asked for anew aborts what was asked for before.
THEOREM ShownIsAskedHolds == Spec => []ShownIsAsked
<1>1. ListInv => ShownIsAsked
  BY DEF ListInv, ShownOK, BoxOK, ShownIsAsked
<1> QED BY <1>1, ListInvHolds, PTL

\* While the page loads a request for its query is on its way, and it rests on no page
\* number beyond the end of the list: what the watcher asks for is in range, and so is
\* what it then leaves alone.
THEOREM ComesToRestHolds == Spec => []ComesToRest
<1>1. ListInv => ComesToRest
  BY DEF ListInv, RequestsOK, ShownOK, Live, ComesToRest
<1> QED BY <1>1, ListInvHolds, PTL

-----------------------------------------------------------------------------
(* The cursors in the address bar, and the pages that tile the list. *)

\* The cursors in the address bar, and in the history entry behind, are of products that
\* are in the list.
CutInv ==
  /\ CutFrom(catalog, query)
  /\ behind # None => CutFrom(catalog, behind)

\* A query with no cursor.
LEMMA NothingToCut ==
  ASSUME NEW cat, NEW r, r.after = None, r.before = None
  PROVE  CutFrom(cat, r)
BY DEF CutFrom

\* The page number is corrected, or the query is left alone.
LEMMA InRangeIsCut ==
  ASSUME NEW cat, NEW r \in Query, CutFrom(cat, r), NEW total \in Nat
  PROVE  CutFrom(cat, InRange(r, total))
<1> DEFINE count == PageCount(r, total)
<1>1. CASE count > 0 /\ r.page > count
  <2>1. count \in 1 .. MaxPage
    BY <1>1, PageCountBound, ProductListAssumption
  <2>2. InRange(r, total) = WithPage(r, count)
    BY <1>1 DEF InRange
  <2> HIDE DEF count
  <2>3. WithPage(r, count).after = None /\ WithPage(r, count).before = None
    BY <2>1, WithPageIsAQuery
  <2> QED BY <2>2, <2>3, NothingToCut
<1>2. CASE ~ (count > 0 /\ r.page > count)
  <2>1. InRange(r, total) = r
    BY <1>2 DEF InRange
  <2> QED BY <2>1
<1> QED BY <1>1, <1>2

LEMMA CutStep ==
  ASSUME CutInv, catalog' = catalog, behind' \in {None, behind, query},
         NEW r \in Query, CutFrom(catalog, r), NEW total \in Nat,
         query' \in {query, InRange(r, total)}
  PROVE  CutInv'
<1>1. CutFrom(catalog, InRange(r, total))
  BY InRangeIsCut
<1>2. PICK r1 : r1 = query' /\ CutFrom(catalog, r1)
  BY <1>1 DEF CutInv
<1>3. behind' = None \/ CutFrom(catalog, behind')
  <2>1. PICK b : b = behind'
    OBVIOUS
  <2>2. b = None \/ CutFrom(catalog, b)
    BY <2>1 DEF CutInv
  <2> QED BY <2>1, <2>2
<1> QED BY <1>2, <1>3 DEF CutInv

LEMMA EveryStepKeepsTheCut ==
  ASSUME ListInv, CutInv, [Next]_vars
  PROVE  CutInv'
<1>1. /\ query \in Query /\ behind \in Query \cup {None} /\ box \in Terms
      /\ shown.total \in Nat /\ catalog \in Catalogs
  BY DEF ListInv, CatalogTypeOK
<1>2. CutFrom(catalog, query)
  BY DEF CutInv
<1>3. ASSUME UNCHANGED <<catalog, query, behind>> PROVE CutInv'
  BY <1>1, <1>2, <1>3, CutStep
<1>4. ASSUME NEW r \in Query, CutFrom(catalog, r), Becomes(r, shown.total, requests),
             catalog' = catalog, behind' \in {None, behind, query}
      PROVE  CutInv'
  <2>1. query' = InRange(r, shown.total)
    BY <1>4 DEF Becomes
  <2> QED BY <1>1, <1>4, <2>1, CutStep
<1>5. ASSUME NEW r \in Query, r.after = None, r.before = None, Replace(r) PROVE CutInv'
  <2>1. CutFrom(catalog, r)
    BY <1>5, NothingToCut
  <2> QED BY <1>4, <1>5, <2>1 DEF Replace
<1>6. \A text \in Terms : /\ Searched(text) \in Query
                          /\ Searched(text).after = None /\ Searched(text).before = None
  BY <1>1, SearchedIsAQuery
<1>7. ASSUME NEW text \in Terms, Type(text) PROVE CutInv'
  BY <1>3, <1>7 DEF Type
<1>8. CASE TimerFires
  BY <1>1, <1>3, <1>5, <1>6, <1>8 DEF TimerFires
<1>9. CASE SearchSubmitted
  BY <1>1, <1>5, <1>6, <1>9 DEF SearchSubmitted
<1>10. CASE ClearSearch
  BY <1>5, <1>6, <1>10 DEF ClearSearch, Terms
<1>11. CASE ClearAll
  <2>1. Home.after = None /\ Home.before = None
    BY DEF Home
  <2> QED BY <1>5, <1>11, <2>1, HomeIsAQuery DEF ClearAll
<1>12. ASSUME NEW sort \in Sorts, NEW order \in Directions, SetListing(sort, order)
       PROVE  CutInv'
  <2>1. /\ Listed(sort, order) \in Query
        /\ Listed(sort, order).after = None /\ Listed(sort, order).before = None
    BY <1>1, ListedIsAQuery
  <2>2. Replace(Listed(sort, order))
    BY <1>12 DEF SetListing, Listed
  <2> QED BY <1>5, <2>1, <2>2
<1>13. ASSUME NEW p \in 1 .. MaxPage, GoToPage(p) PROVE CutInv'
  <2>1. /\ WithPage(query, p) \in Query
        /\ WithPage(query, p).after = None /\ WithPage(query, p).before = None
    BY <1>1, WithPageIsAQuery
  <2> QED BY <1>5, <1>13, <2>1 DEF GoToPage
<1>14. ASSUME NEW r \in Links, OpenLink(r) PROVE CutInv'
  <2>1. r \in Query /\ CutFrom(catalog, r)
    BY <1>1, ProductListAssumption, LinksAssumption
  <2> QED BY <1>4, <1>14, <2>1 DEF OpenLink, Enters
<1>15. CASE Back
  <2>1. behind \in Query /\ CutFrom(catalog, behind)
    BY <1>1, <1>15 DEF Back, CutInv
  <2> QED BY <1>4, <1>15, <2>1 DEF Back, Enters
<1>16. ASSUME NEW r \in requests, Answered(r) PROVE CutInv'
  <2>1. UNCHANGED <<catalog, behind>>
    BY <1>16 DEF Answered
  <2>2. CASE r.aborted
    BY <1>3, <1>16, <2>1, <2>2 DEF Answered
  <2>3. CASE ~ r.aborted
    <3>1. query' = InRange(query, shown'.total)
      BY <1>16, <2>3 DEF Answered
    <3>2. PICK total : total = shown'.total
      OBVIOUS
    <3>3. total \in Nat
      <4>1. shown' \in {ListProducts(catalog, Sent(r.query)), Rejected}
        BY <1>16, <2>3 DEF Answered
      <4>2. ListProducts(catalog, Sent(r.query)).total \in Nat /\ Rejected.total \in Nat
        BY <1>1, AnswersCount DEF Rejected
      <4> QED BY <3>2, <4>1, <4>2
    <3> QED BY <1>1, <1>2, <2>1, <3>1, <3>2, <3>3, CutStep
  <2> QED BY <2>2, <2>3
<1>17. CASE UNCHANGED vars
  BY <1>3, <1>17 DEF vars
<1> QED BY <1>7, <1>8, <1>9, <1>10, <1>11, <1>12, <1>13, <1>14, <1>15, <1>16, <1>17 DEF Next

\* The answers of the API tile the list, for any catalog and page size: the items of the
\* page that is shown follow each other in the sort, the cursors lead to the pages right
\* behind and before it, with no product left out or shown twice, and there is no cursor
\* at an end.  The id in the sort keys is what no two rows share.
THEOREM PagesTileHolds == Spec => []PagesTile
<1>1. Init => CutInv
  BY LinksAssumption DEF Init, CutInv
<1>2. ListInv /\ CutInv /\ [Next]_vars => CutInv'
  BY EveryStepKeepsTheCut
<1>3. ListInv /\ CutInv => PagesTile
  <2> SUFFICES ASSUME ListInv, CutInv PROVE PagesTile
    OBVIOUS
  <2>1. query \in Query /\ catalog \in Seq(Row)
    BY ProductListAssumption DEF ListInv, CatalogTypeOK, Row
  <2>2. ASSUME ~ loading, shown.ok, Sent(query).ids = None, shown.items # <<>>
        PROVE  Tiles(catalog, Sent(query), shown)
    <3>1. query.ids = None
      BY <2>2 DEF Sent
    <3>2. shown = ListProducts(catalog, Sent(query))
      BY <2>2 DEF ListInv, ShownOK
    <3>3. CutFrom(catalog, query)
      BY DEF CutInv
    <3> QED BY <2>1, <2>2, <3>1, <3>2, <3>3, AnswersTile
  <2> QED BY <2>2 DEF PagesTile, Tiles, List, Follow, Linked
<1> QED BY <1>1, <1>2, <1>3, ListInvHolds, PTL DEF Spec

\* The pages that the links of answer a lead to have links, which lead back to the items
\* of a.
LeadsBack(cat, r, a) ==
  /\ a.next # None =>
       LET r1 == Linked(r, a.next, None)
           b == ListProducts(cat, r1) IN
         /\ b.items # <<>> /\ b.prev # None
         /\ Follow(cat, r1, None, b.prev).items = a.items
  /\ a.prev # None =>
       LET r1 == Linked(r, None, a.prev)
           b == ListProducts(cat, r1) IN
         /\ b.items # <<>> /\ b.next # None
         /\ Follow(cat, r1, b.next, None).items = a.items

LEMMA PartsLeadBack ==
  ASSUME NEW cat \in Seq(Row), NEW r, IsSent(r), NEW a, NEW f, NEW t, IsPart(cat, r, a, f, t)
  PROVE  LeadsBack(cat, r, a)
<1> DEFINE S == Matching(cat, r.q)
           all == List(cat, r)
<1>1. all \in Seq(S) /\ Len(all) \in Nat
  BY ListIsASequence
<1>2. /\ f \in 1 .. Len(all) /\ t \in f .. Len(all) /\ a.items = SubSeq(all, f, t)
      /\ t < f + PageSize /\ (t # Len(all) => f = Max({1, t + 1 - PageSize}))
  BY DEF IsPart
<1>3. PageSize \in Nat /\ PageSize > 0
  BY ProductListAssumption
<1>4. Leads(cat, r, a, f, t)
  BY LinksLead
<1>5. ASSUME a.next # None
      PROVE  LET r1 == Linked(r, a.next, None)
                 b == ListProducts(cat, r1) IN
             /\ b.items # <<>> /\ b.prev # None
             /\ Follow(cat, r1, None, b.prev).items = a.items
  <2> DEFINE r1 == Linked(r, a.next, None)
             b == ListProducts(cat, r1)
             f1 == t + 1
             t1 == Min({t + PageSize, Len(all)})
  <2>1. IsPart(cat, r1, b, f1, t1) /\ t # Len(all)
    BY <1>4, <1>5 DEF Leads, Follow
  <2>2. IsSent(r1) /\ r1.q = r.q /\ r1.sort = r.sort /\ r1.order = r.order
    BY LinkedFields
  <2> HIDE DEF r1, b, t1, f1
  <2>3. List(cat, r1) = all
    BY <2>2 DEF List
  <2>4. Leads(cat, r1, b, f1, t1)
    BY <2>1, <2>2, LinksLead
  <2>5. b.items # <<>>
    BY <2>1, PartsHaveItems
  <2>6. f1 # 1 /\ f1 - PageSize = t + 1 - PageSize /\ f1 - 1 = t
    BY <1>1, <1>2, <1>3 DEF f1
  <2>7. b.prev # None
    BY <2>4, <2>6 DEF Leads
  <2>8. Follow(cat, r1, None, b.prev).items
          = SubSeq(List(cat, r1), Max({1, f1 - PageSize}), f1 - 1)
    BY <2>4, <2>7 DEF Leads
  <2>9. Follow(cat, r1, None, b.prev).items = a.items
    BY <1>2, <2>1, <2>3, <2>6, <2>8
  <2> QED BY <2>5, <2>7, <2>9 DEF r1, b
<1>6. ASSUME a.prev # None
      PROVE  LET r1 == Linked(r, None, a.prev)
                 b == ListProducts(cat, r1) IN
             /\ b.items # <<>> /\ b.next # None
             /\ Follow(cat, r1, b.next, None).items = a.items
  <2> DEFINE r1 == Linked(r, None, a.prev)
             b == ListProducts(cat, r1)
             f1 == Max({1, f - PageSize})
             t1 == f - 1
  <2>1. IsPart(cat, r1, b, f1, t1) /\ f # 1
    BY <1>4, <1>6 DEF Leads, Follow
  <2>2. IsSent(r1) /\ r1.q = r.q /\ r1.sort = r.sort /\ r1.order = r.order
    BY LinkedFields
  <2> HIDE DEF r1, b, t1, f1
  <2>3. List(cat, r1) = all
    BY <2>2 DEF List
  <2>4. Leads(cat, r1, b, f1, t1)
    BY <2>1, <2>2, LinksLead
  <2>5. b.items # <<>>
    BY <2>1, PartsHaveItems
  <2>6. t1 # Len(all) /\ t1 \in Nat /\ t1 < Len(all) /\ t1 + 1 = f
    BY <1>1, <1>2, <2>1 DEF t1
  <2>7. b.next # None
    BY <2>3, <2>4, <2>6 DEF Leads
  <2>8. Follow(cat, r1, b.next, None).items = Window(all, t1, PageSize)
    BY <2>3, <2>4, <2>7 DEF Leads
  <2> DEFINE to == Min({t1 + PageSize, Len(all)})
  <2>9. Window(all, t1, PageSize) = SubSeq(all, f, to)
    BY <2>6 DEF Window
  <2>10. to = t
    <3>1. to \in {t1 + PageSize, Len(all)} /\ to <= t1 + PageSize /\ to <= Len(all)
      <4>1. t1 + PageSize \in Int /\ Len(all) \in Int
        BY <1>1, <1>3, <2>6
      <4> QED BY <4>1, MinOfTwo
    <3>2. f \in Int /\ t \in Int /\ t <= Len(all) /\ t < f + PageSize
      BY <1>1, <1>2
    <3>3. t # Len(all) => t1 + PageSize = t
      <4> SUFFICES ASSUME t # Len(all) PROVE t1 + PageSize = t
        OBVIOUS
      <4> DEFINE m == t + 1 - PageSize
                 x == Max({1, m})
      <4>1. f = x
        BY <1>2
      <4>2. m \in Int /\ 1 \in Int
        BY <1>3, <3>2
      <4> HIDE DEF m
      <4>3. x = IF 1 < m THEN m ELSE 1
        BY <4>2, MaxOfTwo
      <4> HIDE DEF x
      <4>4. f = m
        BY <2>1, <4>1, <4>2, <4>3
      <4> QED BY <1>3, <2>6, <3>2, <4>4 DEF m
    <3> HIDE DEF to
    <3> QED BY <1>1, <1>3, <2>6, <3>1, <3>2, <3>3
  <2>11. Follow(cat, r1, b.next, None).items = a.items
    BY <1>2, <2>8, <2>9, <2>10
  <2> QED BY <2>5, <2>7, <2>11 DEF r1, b
<1> QED BY <1>5, <1>6 DEF LeadsBack

\* A shopper who follows a cursor comes back by the cursor of the page it leads to, to the
\* items that were left, for any catalog, query and page size: a page before a cursor is cut
\* at the same places as the one that was read forwards, at the ends of the list too.
THEOREM CursorsLeadBack ==
  ASSUME NEW cat \in Catalogs, NEW r0 \in Query, r0.ids = None, CutFrom(cat, r0),
         NEW a, a = ListProducts(cat, Sent(r0)), a.ok, a.items # <<>>
  PROVE  LeadsBack(cat, Sent(r0), a)
<1>1. cat \in Seq(Row)
  BY ProductListAssumption DEF Row
<1>2. PICK f, t : IsPart(cat, Sent(r0), a, f, t)
  BY <1>1, AnswersAreParts
<1>3. IsSent(Sent(r0))
  BY SentFields
<1> QED BY <1>1, <1>2, <1>3, PartsLeadBack

=============================================================================
