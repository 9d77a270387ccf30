----------------------------- MODULE CartProofs -----------------------------
(***************************************************************************)
(* Proofs about the cart and the pages of the shop, for any products,      *)
(* tabs, stocks and carts that were stored before.  The loops over lines   *)
(* are folds, so the first part is about folds over sequences.             *)
(***************************************************************************)
EXTENDS Cart, FiniteSetTheorems, WellFoundedInduction, TLAPS

-----------------------------------------------------------------------------
(* Folds.  The induction theorems of the library take a predicate as a     *)
(* parameter, which the provers cannot instantiate; what they can use is   *)
(* that a nonempty set of finite sets has a minimal member.                *)

\* A set of subsets of a finite set that has a member has a minimal one.
LEMMA MinimalSubset ==
  ASSUME NEW S, IsFiniteSet(S), NEW Bad \in SUBSET SUBSET S, Bad # {}
  PROVE  \E t \in Bad : \A u \in SUBSET t : u # t => u \notin Bad
<1>1. IsWellFoundedOn(StrictSubsetOrdering(S), FiniteSubsetsOf(S))
  BY FS_StrictSubsetOrderingWellFounded
<1>2. FiniteSubsetsOf(S) = SUBSET S
  BY FS_FiniteSubsetsOfFinite
<1>3. PICK t \in Bad : \A u \in Bad : <<u, t>> \notin StrictSubsetOrdering(S)
  <2>1. Bad \subseteq FiniteSubsetsOf(S)
    BY <1>2
  <2> QED BY <1>1, <2>1, WFMin
<1>4. \A u \in SUBSET t : u # t => u \notin Bad
  BY <1>3 DEF StrictSubsetOrdering
<1> QED BY <1>4

\* A fold takes the greatest index last.
LEMMA GreatestIndex ==
  ASSUME NEW n \in Nat, NEW s \in SUBSET (1..n), s # {}
  PROVE  Max(s) \in s /\ \A j \in s : j <= Max(s)
<1> DEFINE Bad == {t \in SUBSET (1..n) : t # {} /\ \A m \in t : ~ \A j \in t : j <= m}
<1>1. SUFFICES ASSUME Bad # {} PROVE FALSE
  <2>1. s \notin Bad
    BY <1>1
  <2>2. PICK m \in s : \A j \in s : j <= m
    BY <2>1
  <2>3. \A j \in s : j \in Int
    OBVIOUS
  <2> QED BY <2>2, <2>3 DEF Max
<1>2. IsFiniteSet(1..n)
  BY FS_Interval
<1>3. PICK t \in Bad : \A u \in SUBSET t : u # t => u \notin Bad
  <2>1. Bad \in SUBSET SUBSET (1..n)
    OBVIOUS
  <2> HIDE DEF Bad
  <2> QED BY <1>1, <1>2, <2>1, MinimalSubset
<1>4. PICK o \in t : TRUE
  OBVIOUS
<1> DEFINE u == t \ {o}
<1>5. u \notin Bad
  BY <1>3, <1>4
<1>6. CASE u = {}
  BY <1>4, <1>6
<1>7. CASE u # {}
  <2>1. PICK m \in u : \A j \in u : j <= m
    BY <1>5, <1>7
  <2>2. o \in Int /\ m \in Int /\ \A j \in t : j \in Int
    BY <1>4, <2>1
  <2>3. CASE o <= m
    BY <2>1, <2>2, <2>3
  <2>4. CASE ~ o <= m
    <3>1. \A j \in t : j <= o
      BY <2>1, <2>2, <2>4
    <3> QED BY <1>4, <3>1
  <2> QED BY <2>3, <2>4
<1> QED BY <1>6, <1>7

\* g folds the indices in the subsets of t, with values in U and h for each round.
Folds(g, h, base, U, t) ==
  /\ g \in [SUBSET t -> U]
  /\ \A s \in SUBSET t : g[s] = IF s = {} THEN base ELSE h[<<Max(s), g[s \ {Max(s)}]>>]

\* The recursion of a fold has a solution.
LEMMA FoldExists ==
  ASSUME NEW n \in Nat, NEW U, NEW base \in U, NEW h \in [(1..n) \X U -> U]
  PROVE  \E g : Folds(g, h, base, U, 1..n)
<1> DEFINE Solves(g, t) == Folds(g, h, base, U, t)
<1> DEFINE Bad == {t \in SUBSET (1..n) : ~ \E g : Solves(g, t)}
<1> USE DEF Folds
<1>1. SUFFICES ASSUME Bad # {} PROVE FALSE
  <2>1. (1..n) \notin Bad
    BY <1>1
  <2> QED BY <2>1
<1>2. IsFiniteSet(1..n)
  BY FS_Interval
<1>3. PICK t \in Bad : \A u \in SUBSET t : u # t => u \notin Bad
  <2>1. Bad \in SUBSET SUBSET (1..n)
    OBVIOUS
  <2> HIDE DEF Bad
  <2> QED BY <1>1, <1>2, <2>1, MinimalSubset
<1>4. t # {}
  <2>1. Solves([s \in SUBSET {} |-> base], {})
    OBVIOUS
  <2> QED BY <2>1
<1> DEFINE m == Max(t)
<1> DEFINE u == t \ {m}
<1>5. m \in t /\ m \in 1..n /\ \A j \in t : j <= m
  BY <1>4, GreatestIndex
<1>6. PICK g : Solves(g, u)
  <2>1. u \in SUBSET t /\ u # t /\ u \in SUBSET (1..n)
    BY <1>5
  <2> HIDE DEF Solves, u
  <2> QED BY <1>3, <2>1
<1> DEFINE w == [s \in SUBSET t |-> IF m \in s THEN h[<<m, g[s \ {m}]>>] ELSE g[s]]
<1>7. \A s \in SUBSET t : s \ {m} \in SUBSET u /\ (m \notin s => s \in SUBSET u)
  OBVIOUS
<1>8. \A s \in SUBSET t : m \in s => Max(s) = m
  <2> SUFFICES ASSUME NEW s \in SUBSET t, m \in s PROVE Max(s) = m
    OBVIOUS
  <2> HIDE DEF m
  <2>1. Max(s) \in s /\ m <= Max(s)
    BY GreatestIndex
  <2>2. t \in SUBSET Int
    OBVIOUS
  <2>3. Max(s) <= m /\ Max(s) \in Int /\ m \in Int
    BY <1>5, <2>1, <2>2
  <2> QED BY <2>1, <2>3
<1> HIDE DEF m
<1>9. w \in [SUBSET t -> U]
  BY <1>5, <1>6, <1>7
<1>10. ASSUME NEW s \in SUBSET t
       PROVE  w[s] = IF s = {} THEN base ELSE h[<<Max(s), w[s \ {Max(s)}]>>]
  <2>1. CASE m \in s
    <3>1. w[s] = h[<<m, g[s \ {m}]>>] /\ w[s \ {m}] = g[s \ {m}]
      BY <2>1
    <3> QED BY <1>8, <2>1, <3>1
  <2>2. CASE m \notin s /\ s # {}
    <3>1. Max(s) \in s
      BY <2>2, GreatestIndex
    <3>2. w[s] = g[s] /\ w[s \ {Max(s)}] = g[s \ {Max(s)}]
      BY <2>2
    <3> QED BY <1>6, <1>7, <2>2, <3>1, <3>2
  <2>3. CASE s = {}
    BY <1>6, <2>3
  <2> QED BY <2>1, <2>2, <2>3
<1>11. Solves(w, t)
  BY <1>9, <1>10
<1> HIDE DEF Solves, w
<1> QED BY <1>3, <1>11

\* What holds at the start of a fold and after each round holds at its end.
LEMMA FoldKeeps ==
  ASSUME NEW n \in Nat, NEW g, NEW X,
         g[{}] \in X[{}],
         \A s \in SUBSET (1..n) :
           s # {} /\ g[s \ {Max(s)}] \in X[s \ {Max(s)}] => g[s] \in X[s]
  PROVE  g[1..n] \in X[1..n]
<1> DEFINE Bad == {s \in SUBSET (1..n) : g[s] \notin X[s]}
<1>1. SUFFICES ASSUME Bad # {} PROVE FALSE
  BY <1>1
<1>2. IsFiniteSet(1..n)
  BY FS_Interval
<1>3. PICK t \in Bad : \A u \in SUBSET t : u # t => u \notin Bad
  <2>1. Bad \in SUBSET SUBSET (1..n)
    OBVIOUS
  <2> HIDE DEF Bad
  <2> QED BY <1>1, <1>2, <2>1, MinimalSubset
<1>4. CASE t = {}
  BY <1>4
<1>5. CASE t # {}
  <2>1. Max(t) \in t
    BY <1>5, GreatestIndex
  <2>2. t \ {Max(t)} \notin Bad
    BY <1>3, <2>1
  <2> QED BY <1>5, <2>2
<1> QED BY <1>4, <1>5

-----------------------------------------------------------------------------
(* Lines. *)

OneEach(ls) == \A i, j \in DOMAIN ls : ls[i].id = ls[j].id => i = j

\* Lines that ask for no more than their stock.
FittingLine == {l \in Line : IsCartLine(l)}

\* What filter leaves: lines of the list that are in S, each product once if it was once.
LEMMA FilterLeaves ==
  ASSUME NEW ls \in Seq(Line), NEW S
  PROVE  /\ Filter(ls, S) \in Seq(Line)
         /\ \A k \in DOMAIN Filter(ls, S) : \E j \in DOMAIN ls :
              Filter(ls, S)[k] = ls[j] /\ ls[j] \in S
         /\ OneEach(ls) => OneEach(Filter(ls, S))
<1> DEFINE n == Len(ls)
<1> DEFINE h == [x \in (1..n) \X Seq(Line) |->
                   IF ls[x[1]] \in S THEN Append(x[2], ls[x[1]]) ELSE x[2]]
<1> DEFINE Next1(g) == [s \in SUBSET (1..n) |->
                   IF s = {} THEN Nothing
                   ELSE IF ls[Max(s)] \in S THEN Append(g[s \ {Max(s)}], ls[Max(s)])
                                            ELSE g[s \ {Max(s)}]]
<1> DEFINE g == CHOOSE g : g = Next1(g)
<1>1. n \in Nat /\ DOMAIN ls = 1..n /\ \A j \in 1..n : ls[j] \in Line
  OBVIOUS
<1>2. Filter(ls, S) = g[1..n]
  BY <1>1 DEF Filter, FoldLeft, MapThenFoldSet
<1>3. h \in [(1..n) \X Seq(Line) -> Seq(Line)] /\ Nothing \in Seq(Line)
  BY <1>1 DEF Nothing
<1>4. PICK f \in [SUBSET (1..n) -> Seq(Line)] : \A s \in SUBSET (1..n) :
        f[s] = IF s = {} THEN Nothing ELSE h[<<Max(s), f[s \ {Max(s)}]>>]
  <2> DEFINE U == Seq(Line)
  <2>1. n \in Nat /\ Nothing \in U /\ h \in [(1..n) \X U -> U]
    BY <1>1, <1>3
  <2> HIDE DEF h, n, U
  <2>2. PICK f : Folds(f, h, Nothing, U, 1..n)
    BY <2>1, FoldExists
  <2> QED BY <2>2 DEF Folds, U
<1>5. f = Next1(f)
  <2>1. ASSUME NEW s \in SUBSET (1..n), s # {}
        PROVE  h[<<Max(s), f[s \ {Max(s)}]>>] =
                 IF ls[Max(s)] \in S THEN Append(f[s \ {Max(s)}], ls[Max(s)])
                                     ELSE f[s \ {Max(s)}]
    <3>1. Max(s) \in 1..n
      BY <1>1, <2>1, GreatestIndex
    <3> QED BY <3>1
  <2> QED BY <1>4, <2>1
<1>6. g = Next1(g)
  BY <1>5
<1> DEFINE X == [s \in SUBSET (1..n) |-> {x \in Seq(Line) :
                   /\ \A k \in DOMAIN x : \E j \in s : x[k] = ls[j] /\ ls[j] \in S
                   /\ OneEach(ls) => OneEach(x)}]
<1> HIDE DEF g
<1>7. g[{}] \in X[{}]
  BY <1>6 DEF Nothing, OneEach
<1>8. ASSUME NEW s \in SUBSET (1..n), s # {}, g[s \ {Max(s)}] \in X[s \ {Max(s)}]
      PROVE  g[s] \in X[s]
  <2> DEFINE m == Max(s)
  <2> DEFINE x == g[s \ {m}]
  <2>1. m \in s /\ m \in 1..n
    BY <1>1, <1>8, GreatestIndex
  <2>2. /\ x \in Seq(Line)
        /\ \A k \in DOMAIN x : \E j \in s \ {m} : x[k] = ls[j] /\ ls[j] \in S
        /\ OneEach(ls) => OneEach(x)
    BY <1>8
  <2>3. CASE ls[m] \notin S
    <3>1. g[s] = x
      BY <1>6, <1>8, <2>3
    <3> HIDE DEF x, m
    <3>2. \A k \in DOMAIN x : \E j \in s : x[k] = ls[j] /\ ls[j] \in S
      BY <2>2
    <3> QED BY <2>2, <3>1, <3>2
  <2>4. CASE ls[m] \in S
    <3> DEFINE y == Append(x, ls[m])
    <3>1. g[s] = y
      BY <1>6, <1>8, <2>4
    <3> HIDE DEF x, m
    <3>2. /\ y \in Seq(Line) /\ DOMAIN y = DOMAIN x \cup {Len(x) + 1}
          /\ \A k \in DOMAIN x : k # Len(x) + 1 /\ y[k] = x[k]
          /\ y[Len(x) + 1] = ls[m]
      BY <1>1, <2>1, <2>2
    <3> HIDE DEF y
    <3>3. \A k \in DOMAIN y : \E j \in s : y[k] = ls[j] /\ ls[j] \in S
      BY <2>1, <2>2, <2>4, <3>2
    <3>4. ASSUME OneEach(ls) PROVE OneEach(y)
      <4>1. \A k \in DOMAIN x : x[k].id # ls[m].id
        BY <1>1, <2>1, <2>2, <3>4 DEF OneEach
      <4> QED BY <2>2, <3>2, <3>4, <4>1 DEF OneEach
    <3> QED BY <3>1, <3>2, <3>3, <3>4
  <2> QED BY <2>3, <2>4
<1>9. g[1..n] \in X[1..n]
  <2> HIDE DEF X, n
  <2> QED BY <1>1, <1>7, <1>8, FoldKeeps
<1> QED BY <1>1, <1>2, <1>9

\* The types of what a line becomes.
LEMMA LineTypes ==
  ASSUME NEW l \in Line
  PROVE  l.id \in Products /\ l.qty \in Nat \ {0} /\ l.stock \in Nat \ {0}
BY DEF Line

\* A list with one line of p changed.
LEMMA ChangedLine ==
  ASSUME NEW ls \in Seq(Line), NEW i \in DOMAIN ls, NEW l \in Line, l.id = ls[i].id
  PROVE  /\ [ls EXCEPT ![i] = l] \in Seq(Line)
         /\ DOMAIN [ls EXCEPT ![i] = l] = DOMAIN ls
         /\ OneEach(ls) => OneEach([ls EXCEPT ![i] = l])
BY DEF OneEach

\* One round of normalizeLines keeps the lines fitting and each product once.
LEMMA MergedFits ==
  ASSUME NEW ls \in Seq(FittingLine), OneEach(ls), NEW l \in FittingLine
  PROVE  Merged(ls, l) \in Seq(FittingLine) /\ OneEach(Merged(ls, l))
<1>1. CASE ~ InCart(ls, l.id)
  <2> DEFINE y == Append(ls, l)
  <2>1. /\ y \in Seq(FittingLine) /\ DOMAIN y = DOMAIN ls \cup {Len(ls) + 1}
        /\ \A k \in DOMAIN ls : k # Len(ls) + 1 /\ y[k] = ls[k]
        /\ y[Len(ls) + 1] = l
    OBVIOUS
  <2>2. Merged(ls, l) = y
    BY <1>1 DEF Merged
  <2> HIDE DEF y
  <2> QED BY <1>1, <2>1, <2>2 DEF InCart, OneEach
<1>2. CASE InCart(ls, l.id)
  <2> DEFINE New(old) == [old EXCEPT !.stock = AtLeast(old.stock, l.stock),
                            !.qty = AtMost(old.qty + l.qty, AtLeast(old.stock, l.stock))]
  <2>1. ASSUME NEW old \in FittingLine PROVE New(old) \in FittingLine /\ New(old).id = old.id
    <3>1. /\ old.id \in Products /\ old.qty \in Nat \ {0} /\ old.stock \in Nat \ {0}
          /\ l.qty \in Nat \ {0} /\ l.stock \in Nat \ {0}
      BY LineTypes DEF FittingLine
    <3> DEFINE most == AtLeast(old.stock, l.stock)
    <3> DEFINE qty == AtMost(old.qty + l.qty, most)
    <3>2. most \in Nat \ {0}
      BY <3>1 DEF AtLeast
    <3> HIDE DEF most
    <3>3. qty \in Nat \ {0} /\ qty <= most
      BY <3>1, <3>2 DEF AtMost
    <3> HIDE DEF qty
    <3>4. New(old) = [old EXCEPT !.stock = most, !.qty = qty]
      BY DEF most, qty
    <3>5. New(old) = [id |-> old.id, qty |-> qty, stock |-> most]
      <4>1. old = [id |-> old.id, qty |-> old.qty, stock |-> old.stock]
        BY DEF FittingLine, Line
      <4> HIDE DEF New
      <4> QED BY <3>4, <4>1
    <3> HIDE DEF New
    <3> QED BY <3>1, <3>2, <3>3, <3>5 DEF FittingLine, Line, IsCartLine
  <2> DEFINE y == [i \in DOMAIN ls |-> IF ls[i].id = l.id THEN New(ls[i]) ELSE ls[i]]
  <2>2. Merged(ls, l) = y
    BY <1>2 DEF Merged, WithLine
  <2> HIDE DEF New
  <2>3. /\ y \in Seq(FittingLine) /\ DOMAIN y = DOMAIN ls
        /\ \A i \in DOMAIN ls : y[i].id = ls[i].id
    <3>1. \A i \in DOMAIN ls : ls[i] \in FittingLine
      OBVIOUS
    <3>2. \A i \in DOMAIN ls : y[i] \in FittingLine /\ y[i].id = ls[i].id
      BY <2>1, <3>1
    <3>3. DOMAIN y = 1..Len(ls) /\ Len(ls) \in Nat
      OBVIOUS
    <3> QED BY <3>2, <3>3
  <2> HIDE DEF y
  <2> QED BY <2>2, <2>3 DEF OneEach
<1> QED BY <1>1, <1>2

\* A tab that loads takes fitting lines, each product once, whatever was stored.
LEMMA ParsedFits ==
  ASSUME NEW ls \in Seq(Line)
  PROVE  ParseStoredLines(ls) \in Seq(FittingLine) /\ OneEach(ParseStoredLines(ls))
<1> DEFINE fl == Filter(ls, FittingLine)
<1> DEFINE n == Len(fl)
<1> DEFINE U == {x \in Seq(FittingLine) : OneEach(x)}
<1> DEFINE h == [x \in (1..n) \X U |-> Merged(x[2], fl[x[1]])]
<1> DEFINE Next1(g) == [s \in SUBSET (1..n) |->
                   IF s = {} THEN Nothing ELSE Merged(g[s \ {Max(s)}], fl[Max(s)])]
<1> DEFINE g == CHOOSE g : g = Next1(g)
<1>1. n \in Nat /\ DOMAIN fl = 1..n /\ \A j \in 1..n : fl[j] \in FittingLine
  <2>1. fl \in Seq(Line) /\ \A k \in DOMAIN fl : fl[k] \in FittingLine
    BY FilterLeaves
  <2> HIDE DEF fl
  <2> QED BY <2>1
<1>2. ParseStoredLines(ls) = g[1..n]
  <2>1. ParseStoredLines(ls) = FoldLeft(Merged, Nothing, fl)
    BY DEF ParseStoredLines, FittingLine
  <2> HIDE DEF fl
  <2> QED BY <1>1, <2>1 DEF FoldLeft, MapThenFoldSet
<1> HIDE DEF fl
<1>3. Nothing \in U
  BY DEF Nothing, OneEach
<1>4. h \in [(1..n) \X U -> U]
  BY <1>1, MergedFits
<1>5. PICK f : Folds(f, h, Nothing, U, 1..n)
  <2> HIDE DEF h, n, U
  <2> QED BY <1>1, <1>3, <1>4, FoldExists
<1>6. f = Next1(f)
  <2>1. ASSUME NEW s \in SUBSET (1..n), s # {}
        PROVE  h[<<Max(s), f[s \ {Max(s)}]>>] = Merged(f[s \ {Max(s)}], fl[Max(s)])
    <3>1. Max(s) \in 1..n
      BY <1>1, <2>1, GreatestIndex
    <3>2. f[s \ {Max(s)}] \in U
      BY <1>5 DEF Folds
    <3> HIDE DEF U
    <3> QED BY <3>1, <3>2
  <2> HIDE DEF h, U
  <2> QED BY <1>5, <2>1 DEF Folds
<1>7. g = Next1(g)
  BY <1>6
<1> DEFINE X == [s \in SUBSET (1..n) |-> U]
<1> HIDE DEF g, U
<1>8. g[{}] \in X[{}]
  BY <1>3, <1>7
<1>9. ASSUME NEW s \in SUBSET (1..n), s # {}, g[s \ {Max(s)}] \in X[s \ {Max(s)}]
      PROVE  g[s] \in X[s]
  <2>1. Max(s) \in 1..n
    BY <1>1, <1>9, GreatestIndex
  <2>2. g[s \ {Max(s)}] \in U /\ fl[Max(s)] \in FittingLine
    BY <1>1, <1>9, <2>1
  <2>3. Merged(g[s \ {Max(s)}], fl[Max(s)]) \in U
    BY <2>2, MergedFits DEF U
  <2>4. g[s] = Merged(g[s \ {Max(s)}], fl[Max(s)])
    BY <1>7, <1>9
  <2> QED BY <2>3, <2>4
<1>10. g[1..n] \in X[1..n]
  <2> HIDE DEF X, n
  <2> QED BY <1>1, <1>8, <1>9, FoldKeeps
<1> QED BY <1>2, <1>10 DEF U

\* What a change of the cart may make of its lines.
GoodAfter(ls, ls2) ==
  /\ ls2 \in Seq(Line) /\ OneEach(ls2)
  /\ \A i \in DOMAIN ls2 :
       \/ ls2[i].qty <= ls2[i].stock
       \/ \E k \in DOMAIN ls : ls[k].id = ls2[i].id /\ ls[k].qty >= ls2[i].qty

LEMMA SameLinesAreGood ==
  ASSUME NEW ls \in Seq(Line), OneEach(ls)
  PROVE  GoodAfter(ls, ls)
<1>1. \A i \in DOMAIN ls : ls[i].qty \in Nat
  BY LineTypes
<1> QED BY <1>1 DEF GoodAfter

LEMMA ParsedIsGood ==
  ASSUME NEW ls, NEW kept \in Seq(Line)
  PROVE  GoodAfter(ls, ParseStoredLines(kept))
<1> DEFINE y == ParseStoredLines(kept)
<1>1. y \in Seq(FittingLine) /\ OneEach(y)
  BY ParsedFits
<1> HIDE DEF y
<1>2. \A i \in DOMAIN y : y[i] \in Line /\ y[i].qty <= y[i].stock
  BY <1>1 DEF FittingLine, IsCartLine
<1>3. y \in Seq(Line)
  BY <1>1, <1>2
<1> QED BY <1>1, <1>2, <1>3 DEF GoodAfter, y

LEMMA FilteredIsGood ==
  ASSUME NEW ls \in Seq(Line), OneEach(ls), NEW S
  PROVE  GoodAfter(ls, Filter(ls, S))
<1>1. \A i \in DOMAIN ls : ls[i].qty \in Nat
  BY LineTypes
<1> QED BY <1>1, FilterLeaves DEF GoodAfter

\* A line of p that is changed into one that fits, or keeps its quantity.
Changed(ls, p, y) ==
  /\ DOMAIN y = DOMAIN ls /\ y \in Seq(Line)
  /\ \A i \in DOMAIN ls :
       /\ y[i].id = ls[i].id
       /\ ls[i].id # p => y[i] = ls[i]
       /\ ls[i].id = p => y[i].qty <= y[i].stock \/ y[i].qty = ls[i].qty

LEMMA ChangedIsGood ==
  ASSUME NEW ls \in Seq(Line), OneEach(ls), NEW p, NEW y, Changed(ls, p, y)
  PROVE  GoodAfter(ls, y)
<1> USE DEF Changed
<1>1. \A i \in DOMAIN ls : ls[i].qty \in Nat
  BY LineTypes
<1>2. OneEach(y)
  BY DEF OneEach
<1> QED BY <1>1, <1>2 DEF GoodAfter

LEMMA AddedIsGood ==
  ASSUME NEW ls \in Seq(Line), OneEach(ls), NEW p \in Products, NEW available \in Nat \ {0}
  PROVE  GoodAfter(ls, Added(ls, p, available))
<1>1. CASE ~ InCart(ls, p)
  <2> DEFINE l == [id |-> p, qty |-> 1, stock |-> available]
  <2> DEFINE y == Append(ls, l)
  <2>1. l \in Line
    BY DEF Line
  <2>2. Added(ls, p, available) = y
    BY <1>1 DEF Added
  <2>3. l.id = p /\ l.qty <= l.stock
    OBVIOUS
  <2> HIDE DEF l
  <2>4. /\ y \in Seq(Line) /\ DOMAIN y = DOMAIN ls \cup {Len(ls) + 1}
        /\ \A k \in DOMAIN ls : k # Len(ls) + 1 /\ y[k] = ls[k]
        /\ y[Len(ls) + 1] = l
    BY <2>1
  <2> HIDE DEF y
  <2>5. OneEach(y)
    BY <1>1, <2>3, <2>4 DEF InCart, OneEach
  <2>6. \A i \in DOMAIN ls : ls[i].qty \in Nat
    BY LineTypes
  <2> QED BY <2>2, <2>3, <2>4, <2>5, <2>6 DEF GoodAfter
<1>2. CASE InCart(ls, p)
  <2> DEFINE New(l) == [l EXCEPT !.stock = available,
                                 !.qty = IF @ >= available THEN @ ELSE @ + 1]
  <2> DEFINE y == [i \in DOMAIN ls |-> IF ls[i].id = p THEN New(ls[i]) ELSE ls[i]]
  <2>1. Added(ls, p, available) = y
    BY <1>2 DEF Added, WithLine
  <2>2. ASSUME NEW l \in Line
        PROVE  /\ New(l) \in Line /\ New(l).id = l.id
               /\ New(l).qty <= New(l).stock \/ New(l).qty = l.qty
    <3>1. l = [id |-> l.id, qty |-> l.qty, stock |-> l.stock]
      BY DEF Line
    <3>2. l.id \in Products /\ l.qty \in Nat \ {0}
      BY LineTypes
    <3> DEFINE q == IF l.qty >= available THEN l.qty ELSE l.qty + 1
    <3>3. New(l) = [l EXCEPT !.stock = available, !.qty = q]
      OBVIOUS
    <3>4. q \in Nat \ {0} /\ (q <= available \/ q = l.qty)
      BY <3>2
    <3> HIDE DEF New, q
    <3>5. New(l) = [id |-> l.id, qty |-> q, stock |-> available]
      BY <3>1, <3>3
    <3> QED BY <3>2, <3>4, <3>5 DEF Line
  <2> HIDE DEF New
  <2>3. \A i \in DOMAIN ls : ls[i] \in Line
    OBVIOUS
  <2>4. \A i \in DOMAIN y : y[i] \in Line
    BY <2>2, <2>3
  <2>5. DOMAIN y = DOMAIN ls /\ y \in Seq(Line)
    BY <2>4
  <2>6. Changed(ls, p, y)
    BY <2>2, <2>3, <2>5 DEF Changed
  <2> HIDE DEF y
  <2> QED BY <2>1, <2>6, ChangedIsGood
<1> QED BY <1>1, <1>2

LEMMA ClampedIsGood ==
  ASSUME NEW ls \in Seq(Line), OneEach(ls), NEW p, NEW n \in Int
  PROVE  GoodAfter(ls, WithLine(ls, p, LAMBDA o : [o EXCEPT !.qty = Clamped(o, n)]))
<1> DEFINE New(l) == [l EXCEPT !.qty = Clamped(l, n)]
<1> DEFINE y == [i \in DOMAIN ls |-> IF ls[i].id = p THEN New(ls[i]) ELSE ls[i]]
<1>1. WithLine(ls, p, LAMBDA o : [o EXCEPT !.qty = Clamped(o, n)]) = y
  BY DEF WithLine
<1>2. ASSUME NEW l \in Line
      PROVE  New(l) \in Line /\ New(l).id = l.id /\ New(l).qty <= New(l).stock
  <2>1. l = [id |-> l.id, qty |-> l.qty, stock |-> l.stock]
    BY DEF Line
  <2>2. l.id \in Products /\ l.stock \in Nat \ {0}
    BY LineTypes
  <2>3. Clamped(l, n) \in Nat \ {0} /\ Clamped(l, n) <= l.stock
    BY <2>2 DEF Clamped, AtMost, AtLeast
  <2>4. New(l) = [id |-> l.id, qty |-> Clamped(l, n), stock |-> l.stock]
    BY <2>1
  <2> HIDE DEF New
  <2> QED BY <2>2, <2>3, <2>4 DEF Line
<1> HIDE DEF New
<1>3. \A i \in DOMAIN ls : ls[i] \in Line
  OBVIOUS
<1>4. \A i \in DOMAIN y : y[i] \in Line
  BY <1>2, <1>3
<1>5. DOMAIN y = DOMAIN ls /\ y \in Seq(Line)
  BY <1>4
<1>6. Changed(ls, p, y)
  BY <1>2, <1>3, <1>5 DEF Changed
<1> HIDE DEF y
<1> QED BY <1>1, <1>6, ChangedIsGood

-----------------------------------------------------------------------------
(* The steps of the shop, by what they do to the lines and to the pages.   *)

Offers ==
  {Nothing} \cup [Products -> 0..MaxStock] \cup UNION {[{p} -> 0..MaxStock] : p \in Products}

LinesOK ==
  /\ stored \in Seq(Line) /\ lines \in [Tabs -> Seq(Line)]
  /\ \A t \in Tabs : OneEach(lines[t])

\* A request that was not aborted is one of the page its tab is on.
PagesOK ==
  /\ stock \in [Products -> 0..MaxStock]
  /\ screen \in [Tabs -> [route : Routes, shown : Offers]]
  /\ asks \in [Tabs -> SUBSET [page : Pages, aborted : BOOLEAN]]
  /\ \A t \in Tabs : \A r \in asks[t] : ~ r.aborted => r.page = screen[t].route
  /\ OffersItsOwn

SheetsOK == isOpen \in [Tabs -> BOOLEAN] /\ opening \in [Tabs -> BOOLEAN]

CartInv == LinesOK /\ PagesOK /\ SheetsOK

\* The cart of t becomes ls, and what is stored stays or becomes it too.
LinesStep ==
  \/ UNCHANGED <<lines, stored>>
  \/ \E t \in Tabs, ls \in Seq(Line) :
       /\ GoodAfter(lines[t], ls) /\ lines' = [lines EXCEPT ![t] = ls]
       /\ stored' \in {stored, ls}

\* Only these actions change what a page shows or asks for, or the catalog.
PagesStep ==
  \/ UNCHANGED <<stock, screen, asks>>
  \/ \E t \in Tabs, route \in Routes : Goes(t, route) /\ UNCHANGED stock
  \/ \E t \in Tabs : \E r \in asks[t] : Answered(t, r)
  \/ \E t \in Tabs : Reload(t)
  \/ \E p \in Products : StockChanges(p)

\* The stock that a page shows of a product it offers.
LEMMA OnSaleHasStock ==
  ASSUME PagesOK, NEW t \in Tabs, NEW p \in Products, OnSale(t, p)
  PROVE  screen[t].shown[p] \in Nat \ {0}
<1>1. screen[t].shown \in Offers
  BY DEF PagesOK
<1>2. p \in DOMAIN screen[t].shown /\ screen[t].shown[p] >= 1
  BY DEF OnSale
<1>3. screen[t].shown # Nothing
  BY <1>2 DEF Nothing
<1> DEFINE shown == screen[t].shown
<1>4. shown[p] \in 0..MaxStock
  <2>1. shown \in [Products -> 0..MaxStock] \/ \E q \in Products : shown \in [{q} -> 0..MaxStock]
    BY <1>1, <1>3 DEF Offers
  <2>2. p \in DOMAIN shown
    BY <1>2
  <2> HIDE DEF shown
  <2>3. CASE shown \in [Products -> 0..MaxStock]
    BY <2>2, <2>3
  <2>4. ASSUME NEW q \in Products, shown \in [{q} -> 0..MaxStock] PROVE shown[p] \in 0..MaxStock
    BY <2>2, <2>4
  <2> QED BY <2>1, <2>3, <2>4
<1> QED BY <1>2, <1>4, CartAssumption

\* Whatever the shopper, another tab or a reload does, the lines make one good move.
LEMMA EveryStepIsALinesStep ==
  ASSUME CartInv, [Next]_vars
  PROVE  LinesStep
<1> USE DEF LinesOK, CartInv
<1>1. ASSUME NEW t \in Tabs, NEW ls, GoodAfter(lines[t], ls), LinesBecome(t, ls)
      PROVE  LinesStep
  <2>1. ls \in Seq(Line)
    BY <1>1 DEF GoodAfter
  <2> QED BY <1>1, <2>1 DEF LinesBecome, LinesStep
<1>2. \A t \in Tabs : lines[t] \in Seq(Line) /\ OneEach(lines[t])
  OBVIOUS
<1>3. ASSUME NEW t \in Tabs, NEW p \in Products, Add(t, p) PROVE LinesStep
  <2> DEFINE ls == Added(lines[t], p, screen[t].shown[p])
  <2>1. GoodAfter(lines[t], ls)
    BY <1>2, <1>3, OnSaleHasStock, AddedIsGood DEF Add
  <2>2. LinesMayBecome(t, ls)
    BY <1>3 DEF Add
  <2> HIDE DEF ls
  <2> QED BY <1>1, <2>1, <2>2 DEF LinesMayBecome, LinesStep
<1>4. ASSUME NEW t \in Tabs, NEW p \in Products, SetQuantity(t, p) PROVE LinesStep
  <2> DEFINE l == LineOf(lines[t], p)
  <2>1. l \in Line
    BY <1>2, <1>4 DEF SetQuantity, InCart, LineOf
  <2>2. l.qty \in Nat
    BY <2>1, LineTypes
  <2> DEFINE Ls(n) == WithLine(lines[t], p, LAMBDA o : [o EXCEPT !.qty = Clamped(o, n)])
  <2>3. PICK n \in {l.qty - 1, l.qty + 1} : LinesBecome(t, Ls(n))
    BY <1>4 DEF SetQuantity
  <2>4. n \in Int
    BY <2>2
  <2>5. GoodAfter(lines[t], Ls(n))
    BY <1>2, <2>4, ClampedIsGood
  <2> HIDE DEF Ls
  <2> QED BY <1>1, <2>3, <2>5
<1>5. ASSUME NEW t \in Tabs, NEW p \in Products, RemoveLine(t, p) PROVE LinesStep
  BY <1>1, <1>2, <1>5, FilteredIsGood DEF RemoveLine
<1>6. ASSUME NEW t \in Tabs, NEW open, Sheet(t, open) PROVE LinesStep
  BY <1>1, <1>2, <1>6, SameLinesAreGood DEF Sheet
<1>7. ASSUME NEW t \in Tabs,
             OpenSheet(t) \/ CloseSheet(t) \/ OpensAfterAdd(t) \/ ContinueToCheckout(t)
      PROVE  LinesStep
  BY <1>6, <1>7 DEF OpenSheet, CloseSheet, OpensAfterAdd, ContinueToCheckout, LinesStep
<1>8. ASSUME NEW t \in Tabs, FinalizeCheckout(t) PROVE LinesStep
  <2>1. GoodAfter(lines[t], Nothing)
    BY DEF GoodAfter, OneEach, Nothing
  <2> QED BY <1>1, <1>8, <2>1 DEF FinalizeCheckout
<1>9. ASSUME NEW t \in Tabs, Reload(t) PROVE LinesStep
  <2>1. GoodAfter(lines[t], ParseStoredLines(stored))
    BY ParsedIsGood
  <2>2. ParseStoredLines(stored) \in Seq(Line)
    BY <2>1 DEF GoodAfter
  <2> QED BY <1>9, <2>1, <2>2 DEF Reload, Loaded, LinesStep
<1>10. ASSUME NEW t \in Tabs,
              \/ \E page \in Pages : Visit(t, page)
              \/ \E r \in asks[t] : Answered(t, r)
       PROVE  LinesStep
  BY <1>10 DEF Visit, Answered, LinesStep
<1>11. ASSUME NEW p \in Products, StockChanges(p) PROVE LinesStep
  BY <1>11 DEF StockChanges, LinesStep
<1>12. CASE UNCHANGED vars
  BY <1>12 DEF vars, LinesStep
<1> QED BY <1>3, <1>4, <1>5, <1>7, <1>8, <1>9, <1>10, <1>11, <1>12 DEF Next

\* And the pages one of the moves of PagesStep.
LEMMA EveryStepIsAPagesStep ==
  ASSUME [Next]_vars
  PROVE  PagesStep
<1>1. ASSUME NEW t \in Tabs, NEW p \in Products, Add(t, p) \/ SetQuantity(t, p) \/ RemoveLine(t, p)
      PROVE  PagesStep
  BY <1>1 DEF Add, SetQuantity, RemoveLine, PagesStep
<1>2. ASSUME NEW t \in Tabs,
             \/ OpenSheet(t) \/ CloseSheet(t) \/ OpensAfterAdd(t) \/ FinalizeCheckout(t)
      PROVE  PagesStep
  BY <1>2 DEF OpenSheet, CloseSheet, OpensAfterAdd, FinalizeCheckout, PagesStep
<1>3. ASSUME NEW t \in Tabs, ContinueToCheckout(t) \/ \E page \in Pages : Visit(t, page)
      PROVE  PagesStep
  BY <1>3 DEF ContinueToCheckout, Visit, PagesStep, Routes
<1>4. CASE UNCHANGED vars
  BY <1>4 DEF vars, PagesStep
<1>5. CASE (\E t \in Tabs : Reload(t) \/ \E r \in asks[t] : Answered(t, r))
             \/ \E p \in Products : StockChanges(p)
  BY <1>5 DEF PagesStep
<1> QED BY <1>1, <1>2, <1>3, <1>4, <1>5 DEF Next

LEMMA LinesStay == ASSUME LinesOK, LinesStep PROVE LinesOK'
<1>1. CASE UNCHANGED <<lines, stored>>
  BY <1>1 DEF LinesOK
<1>2. ASSUME NEW t \in Tabs, NEW ls \in Seq(Line), GoodAfter(lines[t], ls),
             lines' = [lines EXCEPT ![t] = ls], stored' \in {stored, ls}
      PROVE  LinesOK'
  BY <1>2 DEF LinesOK, GoodAfter
<1> QED BY <1>1, <1>2 DEF LinesStep

\* What a page may show on each route.
Own(route) == IF route = "list" THEN Products ELSE IF route = "checkout" THEN {} ELSE {route}

LEMMA OwnOffers ==
  OffersItsOwn <=> \A t \in Tabs : DOMAIN screen[t].shown \subseteq Own(screen[t].route)
BY DEF OffersItsOwn, Own

\* The answer for a page offers what is its own.
LEMMA OfferIsOwn ==
  ASSUME stock \in [Products -> 0..MaxStock], NEW page \in Pages
  PROVE  Offer(page) \in Offers /\ DOMAIN Offer(page) \subseteq Own(page)
BY CartAssumption DEF Offer, Offers, Own, Pages

LEMMA PagesStay == ASSUME PagesOK, PagesStep PROVE PagesOK'
<1> DEFINE Fits(t) == /\ \A r \in asks[t] : ~ r.aborted => r.page = screen[t].route
                      /\ DOMAIN screen[t].shown \subseteq Own(screen[t].route)
<1> DEFINE Screen == [route : Routes, shown : Offers]
<1> DEFINE Ask == [page : Pages, aborted : BOOLEAN]
<1>1. /\ stock \in [Products -> 0..MaxStock]
      /\ screen \in [Tabs -> Screen] /\ asks \in [Tabs -> SUBSET Ask]
      /\ \A t \in Tabs : Fits(t)
  BY OwnOffers DEF PagesOK
<1>2. ASSUME stock' \in [Products -> 0..MaxStock], NEW t \in Tabs, NEW s \in Screen,
             NEW rs \in SUBSET Ask,
             screen' = [screen EXCEPT ![t] = s], asks' = [asks EXCEPT ![t] = rs],
             \A r \in rs : ~ r.aborted => r.page = s.route,
             DOMAIN s.shown \subseteq Own(s.route)
      PROVE  PagesOK'
  <2>1. screen' \in [Tabs -> Screen] /\ asks' \in [Tabs -> SUBSET Ask]
    BY <1>1, <1>2
  <2>2. \A v \in Tabs : \A r \in asks'[v] : ~ r.aborted => r.page = screen'[v].route
    BY <1>1, <1>2
  <2>3. \A v \in Tabs : DOMAIN screen'[v].shown \subseteq Own(screen'[v].route)
    BY <1>1, <1>2
  <2>4. OffersItsOwn'
    BY <2>3 DEF OffersItsOwn, Own
  <2> QED BY <1>2, <2>1, <2>2, <2>4 DEF PagesOK
<1>3. CASE UNCHANGED <<stock, screen, asks>>
  BY <1>3 DEF PagesOK, OffersItsOwn
<1>4. ASSUME NEW t \in Tabs, NEW route \in Routes, Goes(t, route), UNCHANGED stock
      PROVE  PagesOK'
  <2> DEFINE s == [route |-> route, shown |-> Nothing]
  <2> DEFINE rs == Superseded(asks[t]) \cup
                     (IF route \in Pages THEN {[page |-> route, aborted |-> FALSE]} ELSE {})
  <2>1. s \in Screen /\ s.route = route /\ DOMAIN s.shown = {}
    BY DEF Offers, Nothing
  <2>2. \A r \in Superseded(asks[t]) : r \in Ask /\ r.aborted
    <3> SUFFICES ASSUME NEW q \in asks[t] PROVE LET r == [q EXCEPT !.aborted = TRUE] IN
                                                   r \in Ask /\ r.aborted
      BY DEF Superseded
    <3>1. q \in Ask
      BY <1>1
    <3> QED BY <3>1
  <2>3. rs \in SUBSET Ask /\ \A r \in rs : ~ r.aborted => r.page = route
    <3> DEFINE new == [page |-> route, aborted |-> FALSE]
    <3>1. route \in Pages => new \in Ask
      OBVIOUS
    <3>2. new.page = route
      OBVIOUS
    <3> HIDE DEF new, Ask
    <3>3. \A r \in rs : r \in Superseded(asks[t]) \/ (route \in Pages /\ r = new)
      BY DEF new
    <3> HIDE DEF rs
    <3> QED BY <2>2, <3>1, <3>2, <3>3
  <2>4. screen' = [screen EXCEPT ![t] = s] /\ asks' = [asks EXCEPT ![t] = rs]
    BY <1>4 DEF Goes
  <2> HIDE DEF s, rs, Screen, Ask
  <2> QED BY <1>1, <1>2, <1>4, <2>1, <2>3, <2>4
<1>5. ASSUME NEW t \in Tabs, NEW r \in asks[t], Answered(t, r) PROVE PagesOK'
  <2> DEFINE rs == asks[t] \ {r}
  <2>1. rs \in SUBSET Ask /\ \A x \in rs : ~ x.aborted => x.page = screen[t].route
    BY <1>1
  <2>2. stock' \in [Products -> 0..MaxStock] /\ asks' = [asks EXCEPT ![t] = rs]
    BY <1>1, <1>5 DEF Answered
  <2>3. CASE UNCHANGED screen
    <3>1. screen' = [screen EXCEPT ![t] = screen[t]] /\ screen[t] \in Screen
      BY <1>1, <2>3
    <3> HIDE DEF rs, Screen, Ask
    <3> QED BY <1>1, <1>2, <2>1, <2>2, <3>1
  <2>4. CASE ~ r.aborted /\ screen' = [screen EXCEPT ![t].shown = Offer(r.page)]
    <3> DEFINE s == [screen[t] EXCEPT !.shown = Offer(r.page)]
    <3>1. r.page \in Pages /\ r.page = screen[t].route
      BY <1>1, <2>4
    <3>2. Offer(r.page) \in Offers /\ DOMAIN Offer(r.page) \subseteq Own(r.page)
      BY <1>1, <3>1, OfferIsOwn
    <3>3. s \in Screen /\ s.route = screen[t].route /\ s.shown = Offer(r.page)
      BY <1>1, <3>2
    <3>4. screen' = [screen EXCEPT ![t] = s]
      BY <2>4
    <3> HIDE DEF rs, s, Screen, Ask
    <3> QED BY <1>2, <2>1, <2>2, <3>1, <3>2, <3>3, <3>4
  <2> QED BY <1>5, <2>3, <2>4 DEF Answered
<1>6. ASSUME NEW t \in Tabs, Reload(t) PROVE PagesOK'
  <2> DEFINE s == [screen[t] EXCEPT !.shown = Nothing]
  <2> DEFINE rs == IF screen[t].route = "checkout" THEN {}
                   ELSE {[page |-> screen[t].route, aborted |-> FALSE]}
  <2>1. s \in Screen /\ s.route = screen[t].route /\ DOMAIN s.shown = {}
    BY <1>1 DEF Offers, Nothing
  <2>2. rs \in SUBSET Ask /\ \A r \in rs : ~ r.aborted => r.page = s.route
    BY <1>1, <2>1 DEF Routes
  <2>3. screen' = [screen EXCEPT ![t] = s] /\ asks' = [asks EXCEPT ![t] = rs]
    BY <1>6 DEF Reload
  <2>4. stock' \in [Products -> 0..MaxStock]
    BY <1>1, <1>6 DEF Reload
  <2> HIDE DEF s, rs, Screen, Ask
  <2> QED BY <1>2, <2>1, <2>2, <2>3, <2>4
<1>7. ASSUME NEW p \in Products, StockChanges(p) PROVE PagesOK'
  BY <1>7 DEF StockChanges, PagesOK, OffersItsOwn
<1> QED BY <1>3, <1>4, <1>5, <1>6, <1>7 DEF PagesStep

LEMMA SheetsStay == ASSUME SheetsOK, [Next]_vars PROVE SheetsOK'
<1> USE DEF SheetsOK
<1>1. ASSUME NEW t \in Tabs, NEW p \in Products, Add(t, p) \/ SetQuantity(t, p) \/ RemoveLine(t, p)
      PROVE  SheetsOK'
  BY <1>1 DEF Add, SetQuantity, RemoveLine
<1>2. ASSUME NEW t \in Tabs, OpenSheet(t) \/ CloseSheet(t) \/ OpensAfterAdd(t)
      PROVE  SheetsOK'
  BY <1>2 DEF OpenSheet, CloseSheet, OpensAfterAdd, Sheet
<1>3. ASSUME NEW t \in Tabs, ContinueToCheckout(t) \/ FinalizeCheckout(t) \/ Reload(t)
      PROVE  SheetsOK'
  BY <1>3 DEF ContinueToCheckout, FinalizeCheckout, Reload, Sheet
<1>4. ASSUME NEW t \in Tabs,
             (\E page \in Pages : Visit(t, page)) \/ (\E r \in asks[t] : Answered(t, r))
      PROVE  SheetsOK'
  BY <1>4 DEF Visit, Answered
<1>5. CASE UNCHANGED vars \/ \E p \in Products : StockChanges(p)
  BY <1>5 DEF vars, StockChanges
<1> QED BY <1>1, <1>2, <1>3, <1>4, <1>5 DEF Next

\* The inductive invariant of the cart.
LEMMA CartInvHolds == Spec => []CartInv
<1>1. Init => CartInv
  <2> SUFFICES ASSUME Init PROVE CartInv
    OBVIOUS
  <2>1. stored \in Seq(Line)
    BY CartAssumption DEF Init
  <2> DEFINE ls == ParseStoredLines(stored)
  <2>2. GoodAfter(Nothing, ls)
    BY <2>1, ParsedIsGood
  <2>3. ls \in Seq(Line) /\ OneEach(ls) /\ lines = [t \in Tabs |-> ls]
    BY <2>2 DEF GoodAfter, Init
  <2> HIDE DEF ls
  <2>4. LinesOK
    BY <2>1, <2>3 DEF LinesOK
  <2>5. MaxStock \in 0..MaxStock /\ Nothing \in Offers /\ DOMAIN Nothing = {}
    BY CartAssumption DEF Offers, Nothing
  <2>6. PagesOK
    BY <2>5 DEF Init, PagesOK, OffersItsOwn, Routes, Pages
  <2> QED BY <2>4, <2>6 DEF Init, CartInv, SheetsOK
<1>2. CartInv /\ [Next]_vars => CartInv'
  BY EveryStepIsALinesStep, EveryStepIsAPagesStep, LinesStay, PagesStay, SheetsStay DEF CartInv
<1> QED BY <1>1, <1>2, PTL DEF Spec

-----------------------------------------------------------------------------
\* Every variable of the shop keeps its type, for any products, tabs and stored carts.
THEOREM CartTypesHold == Spec => []CartTypeOK
<1>1. CartInv => CartTypeOK
  <2> SUFFICES ASSUME CartInv PROVE CartTypeOK
    OBVIOUS
  <2>1. \A t \in Tabs : screen[t].route \in Routes /\ DOMAIN screen[t].shown \subseteq Products
    <3> SUFFICES ASSUME NEW t \in Tabs
                 PROVE  screen[t].route \in Routes /\ DOMAIN screen[t].shown \subseteq Products
      OBVIOUS
    <3>1. screen[t].route \in Routes /\ screen[t].shown \in Offers
      BY DEF CartInv, PagesOK
    <3> DEFINE f == screen[t].shown
    <3>2. CASE f = Nothing
      BY <3>1, <3>2 DEF Nothing
    <3>3. CASE f \in [Products -> 0..MaxStock]
      <4> HIDE DEF f
      <4>1. DOMAIN f \subseteq Products
        BY <3>3
      <4> QED BY <3>1, <4>1 DEF f
    <3>4. ASSUME NEW p \in Products, f \in [{p} -> 0..MaxStock]
          PROVE  DOMAIN f \subseteq Products
      <4> HIDE DEF f
      <4> QED BY <3>4
    <3> QED BY <3>1, <3>2, <3>3, <3>4 DEF Offers
  <2>2. \A t \in Tabs : asks[t] \subseteq [page : Pages, aborted : BOOLEAN]
    BY DEF CartInv, PagesOK
  <2> QED BY <2>1, <2>2 DEF CartInv, LinesOK, PagesOK, SheetsOK, CartTypeOK
<1> QED BY <1>1, CartInvHolds, PTL

\* No cart of any tab ever names a product twice: the loop of normalizeLines merges what
\* was stored, whoever stored it, and no change of the store adds a second line.
THEOREM OneLinePerProductHolds == Spec => []OneLinePerProduct
<1>1. CartInv => OneLinePerProduct
  BY DEF CartInv, LinesOK, OneEach, OneLinePerProduct
<1> QED BY <1>1, CartInvHolds, PTL

\* A page never offers what is not its own, in whatever order the answers come: a
\* request that is not aborted is one of the page that is open.
THEOREM OffersItsOwnHolds == Spec => []OffersItsOwn
<1>1. CartInv => OffersItsOwn
  BY DEF CartInv, PagesOK
<1> QED BY <1>1, CartInvHolds, PTL

\* No step of any tab raises a quantity above the stock that its line then has.
THEOREM RaisesStayInStockHolds == Spec => RaisesStayInStock
<1>1. CartInv /\ [Next]_vars =>
        \A t \in Tabs : \A i \in DOMAIN lines'[t] :
          LET l == lines'[t][i] IN
            \/ l.qty <= l.stock
            \/ \E k \in DOMAIN lines[t] : lines[t][k].id = l.id /\ lines[t][k].qty >= l.qty
  <2> SUFFICES ASSUME CartInv, [Next]_vars, NEW t \in Tabs
               PROVE  GoodAfter(lines[t], lines'[t])
    BY DEF GoodAfter
  <2>1. lines \in [Tabs -> Seq(Line)] /\ GoodAfter(lines[t], lines[t])
    BY SameLinesAreGood DEF CartInv, LinesOK
  <2> QED BY <2>1, EveryStepIsALinesStep DEF LinesStep
<1> QED BY <1>1, CartInvHolds, PTL DEF Spec, RaisesStayInStock
=============================================================================
