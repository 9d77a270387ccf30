------------------------- MODULE SettlementTxProofs -------------------------
(***************************************************************************)
(* The settlement transaction, for any orders, products, stock and number  *)
(* of settlements: row by row it is as good as one step of the order book  *)
(* (Serializable), and no settlements wait for each other in a circle      *)
(* (NoCircularWait).                                                       *)
(***************************************************************************)
EXTENDS SettlementTx, FiniteSetTheorems, WellFoundedInduction, TLAPS

-----------------------------------------------------------------------------
(* The sort of decrementManyLocked *)

Places(o) == 1..Len(Lines[o])

LEMMA LineFields ==
  ASSUME NEW o \in Orders
  PROVE  /\ Len(Lines[o]) \in Nat \ {0}
         /\ \A k \in Places(o) :
              /\ Lines[o][k].product \in Products /\ Lines[o][k].product \in Nat
              /\ Lines[o][k].quantity \in Nat
<1> DEFINE LineType == [product : Products, quantity : Nat \ {0}]
<1>1. Lines[o] \in Seq(LineType) /\ Lines[o] # <<>>
  BY TxAssumption
<1>2. \A l \in LineType : l.product \in Products /\ l.product \in Nat /\ l.quantity \in Nat
  BY TxAssumption
<1> HIDE DEF LineType
<1>3. Len(Lines[o]) \in Nat \ {0} /\ \A k \in Places(o) : Lines[o][k] \in LineType
  BY <1>1 DEF Places
<1> QED BY <1>2, <1>3

\* The lines before line k, other than k.
LEMMA FewerBefore ==
  ASSUME NEW o \in Orders, NEW k \in Places(o)
  PROVE  Rank(o, k) \in 0..(Len(Lines[o]) - 1)
<1> DEFINE B == {j \in Places(o) : Before(o, j, k)}
<1>1. IsFiniteSet(Places(o)) /\ Cardinality(Places(o)) = Len(Lines[o])
  <2>1. 1 \in Int /\ Len(Lines[o]) \in Int /\ ~ 1 > Len(Lines[o])
    BY LineFields
  <2> QED BY <2>1, FS_Interval DEF Places
<1>2. k \notin B
  BY LineFields DEF Before, Places
<1>3. IsFiniteSet(B) /\ Cardinality(B) <= Len(Lines[o]) /\ Cardinality(B) # Len(Lines[o])
  <2>1. B \in SUBSET Places(o)
    OBVIOUS
  <2> QED BY <1>1, <1>2, <2>1, FS_Subset
<1>4. Cardinality(B) \in Nat
  BY <1>3, FS_CardinalityType
<1>5. Rank(o, k) = Cardinality(B)
  BY DEF Rank, Places
<1> HIDE DEF B
<1> QED BY <1>3, <1>4, <1>5, LineFields

\* A later line has more before it.
LEMMA RankGrows ==
  ASSUME NEW o \in Orders, NEW j \in Places(o), NEW k \in Places(o), Before(o, j, k)
  PROVE  Rank(o, j) < Rank(o, k)
<1> DEFINE B(l) == {i \in Places(o) : Before(o, i, l)}
<1>1. B(j) \subseteq B(k)
  <2> SUFFICES ASSUME NEW i \in Places(o), Before(o, i, j) PROVE Before(o, i, k)
    OBVIOUS
  <2> QED BY LineFields DEF Before, Places
<1>2. j \in B(k) /\ j \notin B(j)
  BY LineFields DEF Before, Places
<1>3. IsFiniteSet(B(k))
  <2>1. IsFiniteSet(Places(o))
    BY LineFields, FS_Interval DEF Places
  <2>2. B(k) \in SUBSET Places(o)
    OBVIOUS
  <2> QED BY <2>1, <2>2, FS_Subset
<1>4. Cardinality(B(j)) <= Cardinality(B(k)) /\ Cardinality(B(j)) # Cardinality(B(k))
  <2> HIDE DEF B
  <2> QED BY <1>1, <1>2, <1>3, FS_Subset
<1>5. Rank(o, j) = Cardinality(B(j)) /\ Rank(o, k) = Cardinality(B(k))
  BY DEF Rank, Places
<1> HIDE DEF B
<1> QED BY <1>4, <1>5, FewerBefore

LEMMA RanksDiffer ==
  ASSUME NEW o \in Orders, NEW j \in Places(o), NEW k \in Places(o), j # k
  PROVE  Rank(o, j) # Rank(o, k)
<1>1. Before(o, j, k) \/ Before(o, k, j)
  BY LineFields DEF Before, Places
<1> QED BY <1>1, RankGrows, FewerBefore

\* The line at place n of the sort.
At(o, n) == CHOOSE k \in Places(o) : Rank(o, k) = n - 1

\* Every place is taken by one line, and every line has its place.
LEMMA SortIsAPermutation ==
  ASSUME NEW o \in Orders
  PROVE  /\ \A n \in Places(o) : /\ At(o, n) \in Places(o) /\ Rank(o, At(o, n)) = n - 1
                                 /\ Ordered(o)[n] = Lines[o][At(o, n)]
         /\ \A k \in Places(o) : \E n \in Places(o) : At(o, n) = k
<1> DEFINE f == [k \in Places(o) |-> Rank(o, k) + 1]
<1>1. \A k \in Places(o) : Rank(o, k) + 1 \in Places(o)
  BY FewerBefore, LineFields DEF Places
<1>2. f \in Injection(Places(o), Places(o))
  <2>1. f \in [Places(o) -> Places(o)]
    BY <1>1
  <2>2. \A j, k \in Places(o) : f[j] = f[k] => j = k
    BY RanksDiffer, FewerBefore
  <2> HIDE DEF f
  <2> QED BY <2>1, <2>2 DEF Injection, IsInjective
<1>3. IsFiniteSet(Places(o))
  BY LineFields, FS_Interval DEF Places
<1>4. f \in Surjection(Places(o), Places(o))
  <2> HIDE DEF f
  <2> QED BY <1>2, <1>3, FS_Injection
<1>5. ASSUME NEW n \in Places(o)
      PROVE  At(o, n) \in Places(o) /\ Rank(o, At(o, n)) = n - 1
  <2>1. PICK k \in Places(o) : f[k] = n
    BY <1>4 DEF Surjection
  <2>2. Rank(o, k) = n - 1
    BY <2>1, FewerBefore DEF Places
  <2> QED BY <2>2 DEF At
<1>6. \A n \in Places(o) : Ordered(o)[n] = Lines[o][At(o, n)]
  BY DEF Ordered, At, Places
<1>7. ASSUME NEW k \in Places(o) PROVE \E n \in Places(o) : At(o, n) = k
  <2>1. Rank(o, At(o, Rank(o, k) + 1)) = Rank(o, k) /\ At(o, Rank(o, k) + 1) \in Places(o)
    BY <1>1, <1>5, FewerBefore
  <2> QED BY <1>1, <2>1, RanksDiffer
<1> QED BY <1>5, <1>6, <1>7

\* The sorted lines ascend.
LEMMA SortAscends ==
  ASSUME NEW o \in Orders, NEW m \in Places(o), NEW n \in Places(o), m < n
  PROVE  Ordered(o)[m].product <= Ordered(o)[n].product
<1>1. /\ At(o, m) \in Places(o) /\ At(o, n) \in Places(o)
      /\ Rank(o, At(o, m)) = m - 1 /\ Rank(o, At(o, n)) = n - 1
      /\ Ordered(o)[m] = Lines[o][At(o, m)] /\ Ordered(o)[n] = Lines[o][At(o, n)]
  BY SortIsAPermutation
<1>2. ~ Before(o, At(o, n), At(o, m))
  BY <1>1, RankGrows DEF Places
<1> QED BY <1>1, <1>2, LineFields DEF Before

LEMMA OrderedFields ==
  ASSUME NEW o \in Orders, NEW n \in Places(o)
  PROVE  /\ Ordered(o)[n].product \in Products /\ Ordered(o)[n].product \in Nat
         /\ Ordered(o)[n].quantity \in Nat
<1>1. At(o, n) \in Places(o) /\ Ordered(o)[n] = Lines[o][At(o, n)]
  BY SortIsAPermutation
<1>2. \A k \in Places(o) :
        /\ Lines[o][k].product \in Products /\ Lines[o][k].product \in Nat
        /\ Lines[o][k].quantity \in Nat
  BY LineFields
<1> QED BY <1>1, <1>2

LEMMA OrderedLength == ASSUME NEW o \in Orders PROVE Len(Ordered(o)) = Len(Lines[o])
BY LineFields DEF Ordered

-----------------------------------------------------------------------------
(* What a settlement knows *)

Inside == {"lock", "save", "confirm", "refuse"}
Size(h) == Len(Lines[OrderOf[h]])
LineAt(h, n) == Ordered(OrderOf[h])[n]

\* h has the lock of its order, and that of each row it has loaded, whose stock nobody
\* changes meanwhile; it writes to rows it has locked.
HandlerOK(h) ==
  /\ pc[h] \in Inside => orderLock[OrderOf[h]] = h /\ status[OrderOf[h]] = "PENDING"
  /\ pc[h] = "begin" => loaded[h] = <<>>
  /\ pc[h] \in {"begin", "lock"} => saved[h] = 0 /\ draft[h] = Nothing
  /\ pc[h] = "lock" => Len(loaded[h]) < Size(h)
  /\ pc[h] \in {"save", "confirm"} => Len(loaded[h]) = Size(h)
  /\ pc[h] = "save" => saved[h] < Size(h)
  /\ pc[h] = "confirm" => saved[h] = Size(h)
  /\ pc[h] \in {"lock", "save", "confirm"} =>
       \A n \in 1..Len(loaded[h]) :
         /\ stockLock[LineAt(h, n).product] = h
         /\ loaded[h][n] = available[LineAt(h, n).product]
         /\ LineAt(h, n).quantity <= loaded[h][n]
  /\ pc[h] \in {"save", "confirm"} =>
       \A i \in Products : draft[h][i] # None => stockLock[i] = h

\* Locks are held by settlements inside, that of a row only once it is loaded.
LocksOK ==
  /\ \A o \in Orders, h \in Handlers : orderLock[o] = h => pc[h] \in Inside /\ o = OrderOf[h]
  /\ \A i \in Products, h \in Handlers : stockLock[i] = h =>
       /\ pc[h] \in Inside
       /\ pc[h] = "lock" => \E n \in 1..Len(loaded[h]) : LineAt(h, n).product = i

TxInv == TypeOK /\ LocksOK /\ \A h \in Handlers : HandlerOK(h)

\* What a step leaves of what h relies on.
Undisturbed(h) ==
  /\ pc'[h] = pc[h] /\ loaded'[h] = loaded[h] /\ saved'[h] = saved[h] /\ draft'[h] = draft[h]
  /\ orderLock[OrderOf[h]] = h =>
       orderLock'[OrderOf[h]] = h /\ status'[OrderOf[h]] = status[OrderOf[h]]
  /\ \A i \in Products : stockLock[i] = h => stockLock'[i] = h /\ available'[i] = available[i]

LEMMA SameLines == \A h, n : LineAt(h, n)' = LineAt(h, n)
BY DEF LineAt, Ordered, Rank, Before

LEMMA UndisturbedStaysOK ==
  ASSUME TypeOK, NEW h \in Handlers, HandlerOK(h), Undisturbed(h) PROVE HandlerOK(h)'
<1>1. OrderOf[h] \in Orders /\ LineAt(h, 1)' = LineAt(h, 1)
  BY TxAssumption DEF LineAt, Ordered, Rank, Before
<1>2. \A n \in 1..Size(h) : LineAt(h, n).product \in Products
  BY <1>1, OrderedFields DEF LineAt, Size, Places
<1>3. pc[h] \in {"lock", "save", "confirm"} => Len(loaded[h]) \in 0..Size(h)
  BY <1>1, LineFields DEF HandlerOK, TypeOK, Size
<1>4. ASSUME pc[h] \in {"lock", "save", "confirm"}, NEW n \in 1..Len(loaded[h])
      PROVE  /\ stockLock'[LineAt(h, n).product] = h
             /\ loaded'[h][n] = available'[LineAt(h, n).product]
             /\ LineAt(h, n).quantity <= loaded'[h][n]
  <2>1. n \in 1..Size(h)
    BY <1>1, <1>3, <1>4, LineFields DEF Size
  <2> QED BY <1>2, <1>4, <2>1 DEF HandlerOK, Undisturbed
<1>5. pc[h] \in {"save", "confirm"} => \A i \in Products : draft'[h][i] # None => stockLock'[i] = h
  BY DEF HandlerOK, Undisturbed
<1> QED
  BY <1>4, <1>5 DEF HandlerOK, Undisturbed, Inside, LineAt, Size, Ordered, Rank, Before, Nothing

\* A settlement disturbs no other.
LEMMA OthersUndisturbed ==
  ASSUME TxInv, NEW g \in Handlers, Step(g) \/ Crash(g), NEW h \in Handlers \ {g}
  PROVE  Undisturbed(h)
<1>1. h # None /\ g # None /\ OrderOf[g] \in Orders /\ OrderOf[h] \in Orders
  BY TxAssumption
<1>2. CASE LockOrder(g)
  BY <1>1, <1>2 DEF LockOrder, Goto, Undisturbed, TxInv, TypeOK
<1>3. CASE LockLine(g)
  <2>1. Ordered(OrderOf[g])[Len(loaded[g]) + 1].product \in Products
    <3>1. Len(loaded[g]) + 1 \in Places(OrderOf[g])
      BY <1>1, <1>3, LineFields DEF LockLine, TxInv, HandlerOK, Size, Places, TypeOK
    <3> QED BY <1>1, <3>1, OrderedFields
  <2> DEFINE i == Ordered(OrderOf[g])[Len(loaded[g]) + 1].product
  <2>2. stockLock' = [stockLock EXCEPT ![i] = g] /\ stockLock[i] \in {None, g}
    BY <1>3 DEF LockLine
  <2>3. pc'[h] = pc[h] /\ loaded'[h] = loaded[h]
    BY <1>3 DEF LockLine, Goto, TxInv, TypeOK
  <2> HIDE DEF i
  <2>4. \A j \in Products : stockLock[j] = h => stockLock'[j] = h
    BY <1>1, <2>2 DEF TxInv, TypeOK
  <2> QED BY <1>3, <2>3, <2>4 DEF LockLine, Undisturbed
<1>4. CASE SaveLine(g)
  BY <1>1, <1>4 DEF SaveLine, Goto, Undisturbed, TxInv, TypeOK
<1>5. CASE CommitConfirmed(g)
  <2>1. \A i \in Products : stockLock[i] = h => stockLock'[i] = h /\ available'[i] = available[i]
    <3> SUFFICES ASSUME NEW i \in Products, stockLock[i] = h
                 PROVE  stockLock'[i] = h /\ available'[i] = available[i]
      OBVIOUS
    <3>1. draft[g][i] = None
      BY <1>5 DEF CommitConfirmed, TxInv, HandlerOK
    <3> QED BY <1>5, <3>1 DEF CommitConfirmed, Release, TxInv, TypeOK
  <2>2. orderLock[OrderOf[h]] = h =>
          orderLock'[OrderOf[h]] = h /\ status'[OrderOf[h]] = status[OrderOf[h]]
    BY <1>1, <1>5 DEF CommitConfirmed, Release, TxInv, TypeOK, HandlerOK, Inside
  <2> QED BY <1>5, <2>1, <2>2 DEF CommitConfirmed, Goto, Undisturbed, TxInv, TypeOK
<1>6. CASE CommitRefused(g)
  BY <1>1, <1>6 DEF CommitRefused, Release, Goto, Undisturbed, TxInv, TypeOK, HandlerOK, Inside
<1>7. CASE Crash(g)
  BY <1>1, <1>7 DEF Crash, Release, Goto, Undisturbed, TxInv, TypeOK
<1> QED BY <1>2, <1>3, <1>4, <1>5, <1>6, <1>7 DEF Step

\* Nor do new orders, and those that expire.
LEMMA OrdersUndisturbed ==
  ASSUME TxInv, NEW o \in Orders, Place(o) \/ ExpireUncharged(o), NEW h \in Handlers
  PROVE  Undisturbed(h)
<1>1. h # None /\ OrderOf[h] \in Orders
  BY TxAssumption
<1>2. orderLock[OrderOf[h]] = h => OrderOf[h] # o
  BY <1>1 DEF Place, ExpireUncharged, TxInv, LocksOK, HandlerOK
<1> QED BY <1>1, <1>2 DEF Place, ExpireUncharged, Undisturbed, locals, TxInv, TypeOK

-----------------------------------------------------------------------------
(* The steps of a settlement *)

LEMMA LockOrderKeepsInv ==
  ASSUME TxInv, NEW h \in Handlers, LockOrder(h)
  PROVE  TypeOK' /\ LocksOK' /\ HandlerOK(h)'
<1>1. OrderOf[h] \in Orders /\ h # None
  BY TxAssumption
<1>2. TypeOK'
  <2>1. pc' \in [Handlers -> {"begin", "lock", "save", "confirm", "refuse", "done", "dead"}]
    <3>1. pc \in [Handlers -> {"begin", "lock", "save", "confirm", "refuse", "done", "dead"}]
      BY DEF TxInv, TypeOK
    <3>2. Goto(h, "lock") \/ Goto(h, "done")
      BY DEF LockOrder
    <3> QED BY <3>1, <3>2 DEF Goto
  <2>2. orderLock' \in [Orders -> Handlers \cup {None}]
    <3>1. orderLock \in [Orders -> Handlers \cup {None}]
      BY DEF TxInv, TypeOK
    <3>2. orderLock' = [orderLock EXCEPT ![OrderOf[h]] = h] \/ orderLock' = orderLock
      BY DEF LockOrder
    <3> QED BY <1>1, <3>1, <3>2
  <2> QED BY <2>1, <2>2 DEF LockOrder, TxInv, TypeOK
<1>3. LocksOK'
  <2>1. \A g \in Handlers : pc[g] \in Inside => pc'[g] = pc[g]
    BY DEF LockOrder, Goto, TxInv, TypeOK, Inside
  <2>2. \A o \in Orders, g \in Handlers : orderLock'[o] = g =>
          orderLock[o] = g \/ (g = h /\ o = OrderOf[h] /\ pc'[h] = "lock")
    BY <1>1 DEF LockOrder, Goto, TxInv, TypeOK
  <2>3. \A g \in Handlers : pc[g] \in Inside => pc'[g] \in Inside
    BY <2>1
  <2>4. \A o \in Orders, g \in Handlers : orderLock'[o] = g =>
          pc'[g] \in Inside /\ o = OrderOf[g]
    BY <2>2, <2>3 DEF TxInv, LocksOK, Inside
  <2>5. \A i \in Products, g \in Handlers : stockLock'[i] = g =>
       /\ pc'[g] \in Inside
       /\ pc'[g] = "lock" => \E n \in 1..Len(loaded'[g]) : LineAt(g, n).product = i
    BY <2>1, <2>3 DEF LockOrder, TxInv, LocksOK
  <2> QED BY <2>4, <2>5, SameLines DEF LocksOK, Inside
<1>4. HandlerOK(h)'
  <2>1. Size(h) > 0 /\ Len(<<>>) = 0
    BY <1>1, LineFields DEF Size
  <2>2. loaded'[h] = <<>> /\ saved'[h] = 0 /\ draft'[h] = Nothing
    BY DEF LockOrder, TxInv, HandlerOK
  <2>3. CASE pc'[h] = "done"
    BY <2>3 DEF HandlerOK, Inside
  <2>4. CASE pc'[h] # "done"
    <3>1. /\ pc'[h] = "lock" /\ orderLock'[OrderOf[h]] = h
          /\ status'[OrderOf[h]] = "PENDING"
      BY <1>1, <2>4 DEF LockOrder, Goto, TxInv, TypeOK
    <3> QED BY <2>1, <2>2, <3>1 DEF HandlerOK, Size, Nothing
  <2> QED BY <2>3, <2>4
<1> QED BY <1>2, <1>3, <1>4

\* A transaction that ends lets all its locks go.
LEMMA EndKeepsLocks ==
  ASSUME TxInv, NEW h \in Handlers, NEW label \in {"done", "dead"}, Release(h), Goto(h, label),
         loaded' = loaded
  PROVE  /\ LocksOK' /\ pc'[h] = label
         /\ orderLock' \in [Orders -> Handlers \cup {None}]
         /\ stockLock' \in [Products -> Handlers \cup {None}]
         /\ pc' \in [Handlers -> {"begin", "lock", "save", "confirm", "refuse", "done", "dead"}]
<1>1. h # None
  BY TxAssumption
<1>2. /\ pc'[h] = label /\ \A g \in Handlers \ {h} : pc'[g] = pc[g]
      /\ pc' \in [Handlers -> {"begin", "lock", "save", "confirm", "refuse", "done", "dead"}]
  BY DEF Goto, TxInv, TypeOK
<1>3. /\ orderLock' \in [Orders -> Handlers \cup {None}]
      /\ stockLock' \in [Products -> Handlers \cup {None}]
      /\ \A o \in Orders, g \in Handlers : orderLock'[o] = g => g # h /\ orderLock[o] = g
      /\ \A i \in Products, g \in Handlers : stockLock'[i] = g => g # h /\ stockLock[i] = g
  BY <1>1, TxAssumption DEF Release, TxInv, TypeOK
<1>4. LocksOK'
  BY <1>2, <1>3, SameLines DEF LocksOK, TxInv, Inside
<1> QED BY <1>2, <1>3, <1>4

LEMMA EndedIsOK ==
  ASSUME NEW h \in Handlers, pc'[h] \in {"done", "dead"} PROVE HandlerOK(h)'
BY DEF HandlerOK, Inside
\* The next line of h, and the row of its product.
LEMMA NextLine ==
  ASSUME TxInv, NEW h \in Handlers, LockLine(h)
  PROVE  /\ Len(loaded[h]) + 1 \in 1..Size(h) /\ Len(loaded[h]) \in Nat
         /\ LineAt(h, Len(loaded[h]) + 1).product \in Products
         /\ LineAt(h, Len(loaded[h]) + 1).quantity \in Nat
         /\ Len(Ordered(OrderOf[h])) = Size(h) /\ Size(h) \in Nat
<1>1. OrderOf[h] \in Orders
  BY TxAssumption
<1>2. Len(loaded[h]) \in Nat /\ Len(loaded[h]) + 1 \in 1..Size(h)
  BY <1>1, LineFields DEF LockLine, TxInv, HandlerOK, TypeOK, Size
<1> QED BY <1>1, <1>2, OrderedFields, OrderedLength, LineFields DEF LineAt, Size, Places

LEMMA LockLineKeepsInv ==
  ASSUME TxInv, NEW h \in Handlers, LockLine(h)
  PROVE  TypeOK' /\ LocksOK' /\ HandlerOK(h)'
<1> DEFINE n == Len(loaded[h]) + 1
           l == LineAt(h, n)
           i == l.product
<1>1. /\ n \in 1..Size(h) /\ Len(loaded[h]) \in Nat /\ i \in Products /\ l.quantity \in Nat
      /\ Size(h) \in Nat
  BY NextLine
<1>2. OrderOf[h] \in Orders /\ h # None
  BY TxAssumption
<1>3. /\ pc[h] = "lock" /\ stockLock[i] \in {None, h}
      /\ stockLock' = [stockLock EXCEPT ![i] = h]
      /\ IF available[i] < l.quantity
           THEN Goto(h, "refuse") /\ UNCHANGED loaded
           ELSE /\ loaded' = [loaded EXCEPT ![h] = Append(loaded[h], available[i])]
                /\ Goto(h, IF n = Size(h) THEN "save" ELSE "lock")
      /\ UNCHANGED <<status, outbox, available, orderLock, saved, draft>>
  BY NextLine DEF LockLine, LineAt
<1>4. available[i] \in Nat /\ loaded[h] \in Seq(Nat)
  BY <1>1 DEF TxInv, TypeOK
<1>5. /\ saved[h] = 0 /\ draft[h] = Nothing
      /\ orderLock[OrderOf[h]] = h /\ status[OrderOf[h]] = "PENDING"
      /\ \A m \in 1..Len(loaded[h]) :
           /\ stockLock[LineAt(h, m).product] = h
           /\ loaded[h][m] = available[LineAt(h, m).product]
           /\ LineAt(h, m).quantity <= loaded[h][m]
  BY <1>3 DEF TxInv, HandlerOK, Inside
<1>6. \A m \in 1..Size(h) : LineAt(h, m).product \in Products
  BY <1>2, OrderedFields DEF LineAt, Size, Places
<1> HIDE DEF n, l, i
<1>7. /\ stockLock' \in [Products -> Handlers \cup {None}] /\ stockLock'[i] = h
      /\ \A j \in Products \ {i} : stockLock'[j] = stockLock[j]
  BY <1>1, <1>3 DEF TxInv, TypeOK
<1>8. /\ \A g \in Handlers \ {h} : pc'[g] = pc[g] /\ loaded'[g] = loaded[g]
      /\ pc' \in [Handlers -> {"begin", "lock", "save", "confirm", "refuse", "done", "dead"}]
      /\ pc'[h] \in {"refuse", "save", "lock"}
      /\ loaded' \in [Handlers -> Seq(Nat)]
  <2>1. \A label \in {"refuse", "save", "lock"} : Goto(h, label) =>
          /\ \A g \in Handlers \ {h} : pc'[g] = pc[g]
          /\ pc' \in [Handlers -> {"begin", "lock", "save", "confirm", "refuse", "done", "dead"}]
          /\ pc'[h] = label
    BY DEF Goto, TxInv, TypeOK
  <2>2. Append(loaded[h], available[i]) \in Seq(Nat)
    BY <1>4
  <2>3. loaded' \in [Handlers -> Seq(Nat)] /\ \A g \in Handlers \ {h} : loaded'[g] = loaded[g]
    BY <1>3, <2>2 DEF TxInv, TypeOK
  <2> QED BY <1>3, <2>1, <2>3
<1>9. TypeOK'
  BY <1>3, <1>7, <1>8 DEF TxInv, TypeOK
<1>10. ASSUME NEW g \in Handlers \ {h}, NEW j \in Products, stockLock'[j] = g
       PROVE  /\ pc'[g] \in Inside
              /\ pc'[g] = "lock" => \E m \in 1..Len(loaded'[g]) : LineAt(g, m).product = j
  <2>1. stockLock[j] = g /\ pc'[g] = pc[g] /\ loaded'[g] = loaded[g]
    BY <1>7, <1>8, <1>10
  <2>2. /\ pc[g] \in Inside
        /\ pc[g] = "lock" => \E m \in 1..Len(loaded[g]) : LineAt(g, m).product = j
    BY <2>1 DEF TxInv, LocksOK
  <2> QED BY <2>1, <2>2
<1>11. ASSUME NEW o \in Orders, NEW g \in Handlers, orderLock'[o] = g
       PROVE  pc'[g] \in Inside /\ o = OrderOf[g]
  <2>1. pc[g] \in Inside /\ o = OrderOf[g]
    BY <1>3, <1>11 DEF TxInv, LocksOK
  <2> QED BY <1>8, <2>1 DEF Inside
<1>12. CASE pc'[h] = "refuse"
  <2>1. LocksOK'
    <3>1. \A j \in Products, g \in Handlers : stockLock'[j] = g =>
            /\ pc'[g] \in Inside
            /\ pc'[g] = "lock" => \E m \in 1..Len(loaded'[g]) : LineAt(g, m).product = j
      BY <1>12, <1>10 DEF Inside
    <3> QED BY <1>11, <3>1, SameLines DEF LocksOK, Inside
  <2>2. HandlerOK(h)'
    BY <1>3, <1>5, <1>12 DEF HandlerOK, Inside
  <2> QED BY <1>9, <2>1, <2>2
<1>13. CASE pc'[h] # "refuse"
  <2>1. /\ loaded'[h] = Append(loaded[h], available[i]) /\ ~ available[i] < l.quantity
        /\ pc'[h] = IF n = Size(h) THEN "save" ELSE "lock"
    BY <1>3, <1>13 DEF Goto, TxInv, TypeOK
  <2>2. /\ Len(loaded'[h]) = n /\ loaded'[h][n] = available[i]
        /\ \A m \in 1..Len(loaded[h]) : loaded'[h][m] = loaded[h][m] /\ m \in 1..n
        /\ \A m \in 1..n : m = n \/ m \in 1..Len(loaded[h])
    BY <1>1, <1>4, <2>1 DEF n
  <2>3. LocksOK'
    <3>1. \A j \in Products, g \in Handlers : stockLock'[j] = g =>
            /\ pc'[g] \in Inside
            /\ pc'[g] = "lock" => \E m \in 1..Len(loaded'[g]) : LineAt(g, m).product = j
      <4> SUFFICES ASSUME NEW j \in Products, NEW g \in Handlers, stockLock'[j] = g
                   PROVE  /\ pc'[g] \in Inside
                          /\ pc'[g] = "lock" =>
                               \E m \in 1..Len(loaded'[g]) : LineAt(g, m).product = j
        OBVIOUS
      <4>1. CASE g # h
        BY <1>10, <4>1
      <4>2. CASE g = h /\ j = i
        BY <1>1, <1>8, <2>2, <4>2 DEF Inside, l, i
      <4>3. CASE g = h /\ j # i
        <5>1. PICK m \in 1..Len(loaded[h]) : LineAt(h, m).product = j
          BY <1>3, <1>7, <4>3 DEF TxInv, LocksOK
        <5> QED BY <1>8, <2>2, <4>3, <5>1 DEF Inside
      <4> QED BY <4>1, <4>2, <4>3
    <3> QED BY <1>11, <3>1, SameLines DEF LocksOK, Inside
  <2>4. HandlerOK(h)'
    <3>1. \A m \in 1..Len(loaded'[h]) :
            /\ stockLock'[LineAt(h, m).product] = h
            /\ loaded'[h][m] = available'[LineAt(h, m).product]
            /\ LineAt(h, m).quantity <= loaded'[h][m]
      <4> SUFFICES ASSUME NEW m \in 1..n
                   PROVE  /\ stockLock'[LineAt(h, m).product] = h
                          /\ loaded'[h][m] = available[LineAt(h, m).product]
                          /\ LineAt(h, m).quantity <= loaded'[h][m]
        BY <1>3, <2>2
      <4>1. CASE m = n
        BY <1>1, <1>4, <1>7, <2>1, <2>2, <4>1 DEF l, i
      <4>2. CASE m # n
        <5>1. m \in 1..Len(loaded[h]) /\ LineAt(h, m).product \in Products
          BY <1>1, <1>6, <2>2, <4>2 DEF n
        <5> QED BY <1>5, <1>7, <2>2, <5>1
      <4> QED BY <4>1, <4>2
    <3>2. \A j \in Products : draft'[h][j] = None
      BY <1>3, <1>5 DEF Nothing
    <3>3. n = Size(h) \/ n < Size(h)
      BY <1>1
    <3> QED
      BY <1>3, <1>5, <1>13, <2>1, <2>2, <3>1, <3>2, <3>3, SameLines
      DEF HandlerOK, Inside, Size, Nothing
  <2> QED BY <1>9, <2>3, <2>4
<1> QED BY <1>12, <1>13

LEMMA SaveLineKeepsInv ==
  ASSUME TxInv, NEW h \in Handlers, SaveLine(h)
  PROVE  TypeOK' /\ LocksOK' /\ HandlerOK(h)'
<1> DEFINE n == saved[h] + 1
           i == LineAt(h, n).product
           rest == loaded[h][n] - LineAt(h, n).quantity
<1>1. OrderOf[h] \in Orders /\ h # None /\ Size(h) \in Nat
      /\ \A m \in 1..Size(h) : /\ LineAt(h, m).product \in Products
                               /\ LineAt(h, m).quantity \in Nat
  BY TxAssumption, OrderedFields, LineFields DEF LineAt, Size, Places
<1>2. /\ pc[h] = "save" /\ n \in 1..Size(h) /\ saved[h] \in Nat /\ Len(loaded[h]) = Size(h)
  BY <1>1 DEF SaveLine, TxInv, HandlerOK, TypeOK
<1>3. /\ stockLock[i] = h /\ LineAt(h, n).quantity <= loaded[h][n]
      /\ \A j \in Products : draft[h][j] # None => stockLock[j] = h
  BY <1>2 DEF TxInv, HandlerOK
<1>4. loaded[h][n] \in Nat
  BY <1>2 DEF TxInv, TypeOK
<1>5. rest \in Nat /\ i \in Products
  BY <1>1, <1>2, <1>3, <1>4
<1>6. /\ draft' = [draft EXCEPT ![h] = [draft[h] EXCEPT ![i] = rest]]
      /\ saved' = [saved EXCEPT ![h] = n]
      /\ Goto(h, IF n = Size(h) THEN "confirm" ELSE "save")
      /\ UNCHANGED <<status, outbox, available, orderLock, stockLock, loaded>>
  BY <1>1, OrderedLength DEF SaveLine, LineAt, Size
<1> HIDE DEF n, i, rest
<1>7. /\ \A g \in Handlers \ {h} : pc'[g] = pc[g]
      /\ pc' \in [Handlers -> {"begin", "lock", "save", "confirm", "refuse", "done", "dead"}]
      /\ pc'[h] = IF n = Size(h) THEN "confirm" ELSE "save"
  BY <1>6 DEF Goto, TxInv, TypeOK
<1>8. saved' \in [Handlers -> Nat] /\ saved'[h] = n
  BY <1>2, <1>6 DEF TxInv, TypeOK
<1>9. /\ draft' \in [Handlers -> [Products -> Nat \cup {None}]]
      /\ \A j \in Products : draft'[h][j] # None => j = i \/ draft[h][j] # None
  <2> DEFINE d == [draft[h] EXCEPT ![i] = rest]
  <2>1. /\ d \in [Products -> Nat \cup {None}]
        /\ \A j \in Products : d[j] # None => j = i \/ draft[h][j] # None
    BY <1>5 DEF TxInv, TypeOK
  <2>2. draft' = [draft EXCEPT ![h] = d]
    BY <1>6
  <2> HIDE DEF d
  <2> QED BY <2>1, <2>2 DEF TxInv, TypeOK
<1>10. TypeOK'
  BY <1>6, <1>7, <1>8, <1>9 DEF TxInv, TypeOK
<1>11. LocksOK'
  <2>1. \A g \in Handlers : /\ pc[g] \in Inside => pc'[g] \in Inside
                            /\ pc'[g] = "lock" => pc[g] = "lock"
    BY <1>2, <1>7 DEF Inside
  <2>2. \A o \in Orders, g \in Handlers : orderLock[o] = g => pc[g] \in Inside /\ o = OrderOf[g]
    BY DEF TxInv, LocksOK
  <2>3. \A j \in Products, g \in Handlers : stockLock[j] = g =>
          /\ pc[g] \in Inside
          /\ pc[g] = "lock" => \E m \in 1..Len(loaded[g]) : LineAt(g, m).product = j
    BY DEF TxInv, LocksOK
  <2> QED BY <1>6, <2>1, <2>2, <2>3, SameLines DEF LocksOK, Inside
<1>12. HandlerOK(h)'
  <2>1. /\ orderLock[OrderOf[h]] = h /\ status[OrderOf[h]] = "PENDING"
        /\ \A m \in 1..Len(loaded[h]) :
             /\ stockLock[LineAt(h, m).product] = h
             /\ loaded[h][m] = available[LineAt(h, m).product]
             /\ LineAt(h, m).quantity <= loaded[h][m]
    BY <1>2 DEF TxInv, HandlerOK, Inside
  <2>2. \A j \in Products : draft'[h][j] # None => stockLock'[j] = h
    BY <1>3, <1>6, <1>9 DEF i
  <2>3. pc'[h] = "save" => saved'[h] < Size(h)
    BY <1>1, <1>2, <1>7, <1>8
  <2>4. pc'[h] \in {"save", "confirm"} /\ (pc'[h] = "confirm" => saved'[h] = Size(h))
    BY <1>7, <1>8
  <2> QED BY <1>2, <1>6, <2>1, <2>2, <2>3, <2>4, SameLines DEF HandlerOK, Inside, Size
<1> QED BY <1>10, <1>11, <1>12

LEMMA EndKeepsInv ==
  ASSUME TxInv, NEW h \in Handlers, CommitConfirmed(h) \/ CommitRefused(h) \/ Crash(h)
  PROVE  TypeOK' /\ LocksOK' /\ HandlerOK(h)'
<1>1. OrderOf[h] \in Orders
  BY TxAssumption
<1>2. CASE CommitConfirmed(h)
  <2>1. Release(h) /\ Goto(h, "done") /\ loaded' = loaded
    BY <1>2 DEF CommitConfirmed
  <2>2. status' \in [Orders -> {"ABSENT", "PENDING", "APPROVED", "ERROR", "EXPIRED"}]
    BY <1>1, <1>2 DEF CommitConfirmed, TxInv, TypeOK
  <2>3. outbox' \in [Orders -> Nat]
    BY <1>1, <1>2 DEF CommitConfirmed, TxInv, TypeOK
  <2>4. available' \in [Products -> Nat]
    BY <1>2 DEF CommitConfirmed, TxInv, TypeOK
  <2> QED
    BY <1>2, <2>1, <2>2, <2>3, <2>4, EndKeepsLocks, EndedIsOK
    DEF CommitConfirmed, TxInv, TypeOK
<1>3. CASE CommitRefused(h)
  <2>1. Release(h) /\ Goto(h, "done") /\ loaded' = loaded
    BY <1>3 DEF CommitRefused
  <2>2. status' \in [Orders -> {"ABSENT", "PENDING", "APPROVED", "ERROR", "EXPIRED"}]
    BY <1>1, <1>3 DEF CommitRefused, TxInv, TypeOK
  <2> QED BY <1>3, <2>1, <2>2, EndKeepsLocks, EndedIsOK DEF CommitRefused, TxInv, TypeOK
<1>4. CASE Crash(h)
  <2>1. Release(h) /\ Goto(h, "dead") /\ loaded' = loaded
    BY <1>4 DEF Crash
  <2> QED BY <1>4, <2>1, EndKeepsLocks, EndedIsOK DEF Crash, TxInv, TypeOK
<1> QED BY <1>2, <1>3, <1>4

LEMMA OrdersKeepInv ==
  ASSUME TxInv, NEW o \in Orders, Place(o) \/ ExpireUncharged(o)
  PROVE  TypeOK' /\ LocksOK'
<1>1. TypeOK'
  BY DEF Place, ExpireUncharged, TxInv, TypeOK, locals
<1>2. LocksOK'
  BY SameLines DEF Place, ExpireUncharged, TxInv, LocksOK, locals, Inside
<1> QED BY <1>1, <1>2

LEMMA TxInvInductive == TxInv /\ [Next]_vars => TxInv'
<1> SUFFICES ASSUME TxInv, [Next]_vars PROVE TxInv'
  OBVIOUS
<1>1. ASSUME NEW o \in Orders, Place(o) \/ ExpireUncharged(o) PROVE TxInv'
  <2>1. \A h \in Handlers : HandlerOK(h)'
    BY <1>1, OrdersUndisturbed, UndisturbedStaysOK DEF TxInv
  <2> QED BY <1>1, <2>1, OrdersKeepInv DEF TxInv
<1>2. ASSUME NEW g \in Handlers, Step(g) \/ Crash(g) PROVE TxInv'
  <2>1. \A h \in Handlers \ {g} : HandlerOK(h)'
    BY <1>2, OthersUndisturbed, UndisturbedStaysOK DEF TxInv
  <2>2. TypeOK' /\ LocksOK' /\ HandlerOK(g)'
    BY <1>2, LockOrderKeepsInv, LockLineKeepsInv, SaveLineKeepsInv, EndKeepsInv DEF Step
  <2> QED BY <2>1, <2>2 DEF TxInv
<1>3. CASE UNCHANGED vars
  <2>1. /\ status' = status /\ outbox' = outbox /\ available' = available
        /\ orderLock' = orderLock /\ stockLock' = stockLock /\ pc' = pc
        /\ loaded' = loaded /\ saved' = saved /\ draft' = draft
    BY <1>3 DEF vars, locals
  <2>2. TypeOK'
    BY <2>1 DEF TxInv, TypeOK
  <2>3. LocksOK'
    BY <2>1, SameLines DEF TxInv, LocksOK
  <2>4. \A h \in Handlers : HandlerOK(h)'
    BY <2>1, UndisturbedStaysOK DEF TxInv, Undisturbed
  <2> QED BY <2>2, <2>3, <2>4 DEF TxInv
<1> QED BY <1>1, <1>2, <1>3 DEF Next

LEMMA TxInvInitially == Init => TxInv
<1> SUFFICES ASSUME Init PROVE TxInv
  OBVIOUS
<1>1. TypeOK
  BY TxAssumption DEF Init, TypeOK, Nothing
<1>2. LocksOK
  BY TxAssumption DEF Init, LocksOK, Nothing
<1>3. \A h \in Handlers : HandlerOK(h)
  BY DEF Init, HandlerOK, Inside, Nothing
<1> QED BY <1>1, <1>2, <1>3 DEF TxInv

LEMMA TxInvHolds == Spec => []TxInv
<1>1. Init => TxInv BY TxInvInitially
<1>2. TxInv /\ [Next]_vars => TxInv' BY TxInvInductive
<1> QED BY <1>1, <1>2, PTL DEF Spec

\* The variables of the transaction keep their types: stock, and what a settlement
\* writes to a row, never fall below zero.
THEOREM TypeCorrect == Spec => []TypeOK
<1>1. TxInv => TypeOK BY DEF TxInv
<1> QED BY <1>1, TxInvHolds, PTL

-----------------------------------------------------------------------------
(* No circular wait *)

\* A set of subsets of a finite set that has a member has a minimal one.
LEMMA MinimalSubset ==
  ASSUME NEW S, IsFiniteSet(S), NEW Bad \in SUBSET SUBSET S, Bad # {}
  PROVE  \E t \in Bad : \A u \in SUBSET t : u # t => u \notin Bad
<1>1. IsWellFoundedOn(StrictSubsetOrdering(S), FiniteSubsetsOf(S))
  BY FS_StrictSubsetOrderingWellFounded
<1>2. FiniteSubsetsOf(S) = SUBSET S
  BY FS_FiniteSubsetsOfFinite
<1>3. PICK t \in Bad : \A u \in Bad : <<u, t>> \notin StrictSubsetOrdering(S)
  <2>1. Bad \subseteq FiniteSubsetsOf(S)
    BY <1>2
  <2> QED BY <1>1, <2>1, WFMin
<1>4. \A u \in SUBSET t : u # t => u \notin Bad
  BY <1>3 DEF StrictSubsetOrdering
<1> QED BY <1>4

\* Among finitely many, one has the greatest number.
LEMMA OneIsGreatest ==
  ASSUME NEW S, IsFiniteSet(S), S # {}, NEW f \in [S -> Nat]
  PROVE  \E m \in S : \A x \in S : f[x] <= f[m]
<1> DEFINE Bad == {t \in SUBSET S : t # {} /\ \A m \in t : ~ \A x \in t : f[x] <= f[m]}
<1>1. SUFFICES ASSUME Bad # {} PROVE FALSE
  BY <1>1
<1>2. PICK t \in Bad : \A u \in SUBSET t : u # t => u \notin Bad
  <2>1. Bad \in SUBSET SUBSET S
    OBVIOUS
  <2> HIDE DEF Bad
  <2> QED BY <1>1, <2>1, MinimalSubset
<1>3. PICK y \in t : TRUE
  OBVIOUS
<1>4. CASE t \ {y} = {}
  BY <1>3, <1>4
<1>5. CASE t \ {y} # {}
  <2>1. PICK m \in t \ {y} : \A x \in t \ {y} : f[x] <= f[m]
    <3>1. t \ {y} \in SUBSET t /\ t \ {y} # t
      BY <1>3
    <3>2. t \ {y} \notin Bad
      BY <1>2, <3>1
    <3> QED BY <1>5, <3>2
  <2>2. \A x \in t : f[x] \in Nat
    OBVIOUS
  <2>3. CASE f[y] <= f[m]
    BY <2>1, <2>3
  <2>4. CASE ~ f[y] <= f[m]
    BY <1>3, <2>1, <2>2, <2>4
  <2> QED BY <2>3, <2>4
<1> QED BY <1>4, <1>5

\* A settlement that waits waits for one that is further down the sorted products.
LEMMA WaitsDownTheOrder ==
  ASSUME TxInv, NEW h \in Handlers, NEW g \in Handlers, NEW e \in Handlers,
         WaitsFor(h, g), WaitsFor(g, e)
  PROVE  /\ pc[g] = "lock" /\ NextProduct(g) \in Nat
         /\ pc[h] = "lock" => NextProduct(h) \in Nat /\ NextProduct(h) < NextProduct(g)
<1>1. OrderOf[g] \in Orders /\ OrderOf[h] \in Orders
  BY TxAssumption
<1>2. \A c \in Handlers : pc[c] = "lock" =>
        /\ Len(loaded[c]) + 1 \in Places(OrderOf[c]) /\ Len(loaded[c]) \in Nat
        /\ NextProduct(c) \in Products /\ NextProduct(c) \in Nat
  <2> SUFFICES ASSUME NEW c \in Handlers, pc[c] = "lock"
               PROVE  /\ Len(loaded[c]) + 1 \in Places(OrderOf[c]) /\ Len(loaded[c]) \in Nat
                      /\ NextProduct(c) \in Products /\ NextProduct(c) \in Nat
    OBVIOUS
  <2>1. OrderOf[c] \in Orders
    BY TxAssumption
  <2>2. Len(loaded[c]) + 1 \in Places(OrderOf[c]) /\ Len(loaded[c]) \in Nat
    BY <2>1, LineFields DEF TxInv, HandlerOK, TypeOK, Size, Places
  <2> QED BY <2>1, <2>2, OrderedFields DEF NextProduct
<1>3. pc[g] = "lock"
  <2>1. pc[g] \in Inside
    BY <1>1, <1>2 DEF WaitsFor, TxInv, LocksOK
  <2> QED BY <2>1 DEF WaitsFor, Inside
<1>4. ASSUME pc[h] = "lock" PROVE NextProduct(h) < NextProduct(g)
  <2>1. stockLock[NextProduct(h)] = g /\ stockLock[NextProduct(g)] = e /\ e # g
    BY <1>3, <1>4 DEF WaitsFor
  <2>2. PICK n \in 1..Len(loaded[g]) : LineAt(g, n).product = NextProduct(h)
    BY <1>2, <1>3, <1>4, <2>1 DEF TxInv, LocksOK
  <2>3. n \in Places(OrderOf[g]) /\ n < Len(loaded[g]) + 1
    BY <1>1, <1>2, <1>3, LineFields DEF Places
  <2>4. NextProduct(h) <= NextProduct(g)
    BY <1>1, <1>2, <1>3, <2>2, <2>3, SortAscends DEF LineAt, NextProduct
  <2> QED BY <1>2, <1>3, <1>4, <2>1, <2>4
<1> QED BY <1>2, <1>3, <1>4

\* Settlements never wait for each other in a circle, however many there are and
\* whatever products their orders share, an order that names one twice included.
THEOREM NoCircularWaitHolds == Spec => []NoCircularWait
<1>1. TxInv => NoCircularWait
  <2> SUFFICES ASSUME TxInv, NEW S \in SUBSET Handlers, S # {}, IsFiniteSet(S),
                      \A h \in S : \E g \in S : WaitsFor(h, g)
               PROVE  FALSE
    BY DEF NoCircularWait
  <2> DEFINE f == [h \in S |-> IF pc[h] = "lock" THEN NextProduct(h) + 1 ELSE 0]
  <2>1. \A h \in S : pc[h] = "lock" => NextProduct(h) \in Nat
    <3> SUFFICES ASSUME NEW h \in S, pc[h] = "lock" PROVE NextProduct(h) \in Nat
      OBVIOUS
    <3>1. PICK g \in S : WaitsFor(h, g)
      OBVIOUS
    <3>2. PICK e \in S : WaitsFor(g, e)
      OBVIOUS
    <3> QED BY <3>1, <3>2, WaitsDownTheOrder
  <2>2. f \in [S -> Nat]
    BY <2>1
  <2>3. PICK m \in S : \A x \in S : f[x] <= f[m]
    <3> HIDE DEF f
    <3> QED BY <2>2, OneIsGreatest
  <2>4. PICK g \in S : WaitsFor(m, g)
    OBVIOUS
  <2>5. PICK e \in S : WaitsFor(g, e)
    OBVIOUS
  <2>6. /\ pc[g] = "lock" /\ NextProduct(g) \in Nat
        /\ pc[m] = "lock" => NextProduct(m) \in Nat /\ NextProduct(m) < NextProduct(g)
    BY <2>4, <2>5, WaitsDownTheOrder
  <2>7. f[g] <= f[m]
    BY <2>3
  <2> QED BY <2>6, <2>7
<1> QED BY <1>1, TxInvHolds, PTL

-----------------------------------------------------------------------------
(* The order book *)

\* A cart keeps one line per product, and an order its lines.
DistinctProducts ==
  \A o \in Orders : \A j, k \in Places(o) : Lines[o][j].product = Lines[o][k].product => j = k

\* The units of product i in line n, and the recursion of Demand.
UnitsIn(o, i, n) == IF Lines[o][n].product = i THEN Lines[o][n].quantity ELSE 0

UnitsUpTo(o, i) ==
  CHOOSE g : g = [n \in 0..Len(Lines[o]) |->
                   IF n = 0 THEN 0
                   ELSE g[n - 1] + IF Lines[o][n].product = i THEN Lines[o][n].quantity ELSE 0]

\* With one line per product the sum over the lines is that line.
LEMMA DemandIsTheLine ==
  ASSUME DistinctProducts, NEW o \in Orders, NEW i \in Products
  PROVE  /\ \A k \in Places(o) : Lines[o][k].product = i => Demand(o, i) = Lines[o][k].quantity
         /\ (\A k \in Places(o) : Lines[o][k].product # i) => Demand(o, i) = 0
<1> DEFINE L == Len(Lines[o])
           Eq(g) == g = [n \in 0..L |-> IF n = 0 THEN 0 ELSE g[n - 1] + UnitsIn(o, i, n)]
           u == UnitsUpTo(o, i)
           T == [n \in 0..L |-> IF \E k \in 1..n : Lines[o][k].product = i
                                THEN Lines[o][CHOOSE k \in 1..n : Lines[o][k].product = i].quantity
                                ELSE 0]
<1>1. L \in Nat /\ \A k \in 1..L : Lines[o][k].quantity \in Nat
  BY LineFields DEF Places
<1>2. \A j, k \in 1..L : Lines[o][j].product = i /\ Lines[o][k].product = i => j = k
  BY DEF DistinctProducts, Places
<1>3. ASSUME NEW n \in 0..L, NEW k \in 1..n, Lines[o][k].product = i
      PROVE  T[n] = Lines[o][k].quantity
  <2> DEFINE c == CHOOSE j \in 1..n : Lines[o][j].product = i
  <2>1. c \in 1..n /\ Lines[o][c].product = i
    BY <1>3
  <2>2. c = k
    <3> HIDE DEF c
    <3> QED BY <1>1, <1>2, <1>3, <2>1
  <2>3. T[n] = Lines[o][c].quantity
    BY <1>3
  <2> QED BY <2>2, <2>3
<1>4. ASSUME NEW n \in 0..L, \A k \in 1..n : Lines[o][k].product # i PROVE T[n] = 0
  BY <1>4
<1>5. ASSUME NEW n \in 1..L PROVE T[n] = T[n - 1] + UnitsIn(o, i, n)
  <2>1. n - 1 \in 0..L /\ n \in 0..L /\ 1..n = 1..(n - 1) \cup {n}
    BY <1>1
  <2>2. n \notin 1..(n - 1) /\ \A k \in 1..n : k \in 1..L
    BY <1>1
  <2> HIDE DEF T
  <2>3. CASE Lines[o][n].product = i
    <3>1. \A k \in 1..(n - 1) : Lines[o][k].product # i
      BY <1>2, <2>1, <2>2, <2>3
    <3>2. T[n - 1] = 0
      BY <1>4, <2>1, <3>1
    <3>3. T[n] = Lines[o][n].quantity
      BY <1>3, <2>1, <2>3
    <3> QED BY <1>1, <2>3, <3>2, <3>3 DEF UnitsIn
  <2>4. CASE Lines[o][n].product # i
    <3>1. CASE \E k \in 1..(n - 1) : Lines[o][k].product = i
      <4>1. PICK k \in 1..(n - 1) : Lines[o][k].product = i
        BY <3>1
      <4>2. T[n - 1] = Lines[o][k].quantity /\ T[n] = Lines[o][k].quantity
        BY <1>3, <2>1, <4>1
      <4> QED BY <1>1, <2>1, <2>2, <2>4, <4>2 DEF UnitsIn
    <3>2. CASE ~ \E k \in 1..(n - 1) : Lines[o][k].product = i
      <4>1. T[n - 1] = 0 /\ T[n] = 0
        BY <1>4, <2>1, <2>4, <3>2
      <4> QED BY <2>4, <4>1 DEF UnitsIn
    <3> QED BY <3>1, <3>2
  <2> QED BY <2>3, <2>4
<1>6. T[0] = 0
  BY <1>1
<1>7. Eq(T)
  <2> DEFINE R == [n \in 0..L |-> IF n = 0 THEN 0 ELSE T[n - 1] + UnitsIn(o, i, n)]
  <2>1. DOMAIN T = 0..L /\ DOMAIN R = 0..L /\ T = [n \in DOMAIN T |-> T[n]]
    OBVIOUS
  <2>2. \A n \in 0..L : T[n] = R[n]
    <3> SUFFICES ASSUME NEW n \in 0..L PROVE T[n] = R[n]
      OBVIOUS
    <3>1. n = 0 \/ n \in 1..L
      BY <1>1
    <3> HIDE DEF T
    <3> QED BY <1>5, <1>6, <3>1
  <2>3. R = [n \in DOMAIN R |-> R[n]]
    OBVIOUS
  <2>4. T = R
    <3> HIDE DEF T, R
    <3> QED BY <2>1, <2>2, <2>3
  <2> QED BY <2>4
<1>8. Eq(u)
  <2>1. u = CHOOSE g : Eq(g)
    BY DEF UnitsUpTo, UnitsIn
  <2>2. \E g : Eq(g)
    <3> HIDE DEF T
    <3> QED BY <1>7
  <2> HIDE DEF Eq, u
  <2> QED BY <2>1, <2>2
<1>9. u[0] = 0 /\ \A n \in 1..L : n - 1 \in 0..L /\ u[n] = u[n - 1] + UnitsIn(o, i, n)
  <2> HIDE DEF u
  <2>1. \A n \in 0..L : u[n] = IF n = 0 THEN 0 ELSE u[n - 1] + UnitsIn(o, i, n)
    BY <1>8
  <2>2. \A n \in 1..L : n \in 0..L /\ n # 0 /\ n - 1 \in 0..L
    BY <1>1
  <2>3. 0 \in 0..L
    BY <1>1
  <2> QED BY <2>1, <2>2, <2>3
<1> HIDE DEF T, u, Eq
<1>10. u[L] = T[L]
  <2> DEFINE Bad == {t \in SUBSET (0..L) : \E n \in 0..L : t = 0..n /\ u[n] # T[n]}
  <2>1. SUFFICES ASSUME Bad # {} PROVE FALSE
    <3>1. L \in 0..L
      BY <1>1
    <3>2. 0..L \notin Bad
      BY <2>1
    <3> QED BY <3>1, <3>2
  <2>2. IsFiniteSet(0..L)
    BY <1>1, FS_Interval
  <2>3. PICK t \in Bad : \A r \in SUBSET t : r # t => r \notin Bad
    <3>1. Bad \in SUBSET SUBSET (0..L)
      OBVIOUS
    <3> HIDE DEF Bad
    <3> QED BY <2>1, <2>2, <3>1, MinimalSubset
  <2>4. PICK n \in 0..L : t = 0..n /\ u[n] # T[n]
    BY <2>3
  <2>5. n # 0
    BY <1>6, <1>9, <2>4
  <2>6. /\ n \in 1..L /\ 0..(n - 1) \in SUBSET t /\ 0..(n - 1) # t
        /\ n - 1 \in 0..L /\ 0..(n - 1) \in SUBSET (0..L)
    <3>1. n \in 0..n /\ n \notin 0..(n - 1)
      BY <1>1
    <3> QED BY <1>1, <2>4, <2>5, <3>1
  <2>7. u[n - 1] = T[n - 1]
    BY <2>3, <2>6
  <2> QED BY <1>5, <1>9, <2>4, <2>6, <2>7
<1>11. Demand(o, i) = T[L]
  BY <1>10 DEF Demand, UnitsUpTo, u
<1>12. L \in 0..L
  BY <1>1
<1> QED BY <1>3, <1>4, <1>11, <1>12 DEF Places

\* Each line of the sort has a product of its own.
LEMMA SortedLinesDiffer ==
  ASSUME DistinctProducts, NEW o \in Orders, NEW m \in Places(o), NEW n \in Places(o),
         Ordered(o)[m].product = Ordered(o)[n].product
  PROVE  m = n
<1>1. /\ At(o, m) \in Places(o) /\ At(o, n) \in Places(o)
      /\ Rank(o, At(o, m)) = m - 1 /\ Rank(o, At(o, n)) = n - 1
      /\ Ordered(o)[m] = Lines[o][At(o, m)] /\ Ordered(o)[n] = Lines[o][At(o, n)]
  BY SortIsAPermutation
<1>2. At(o, m) = At(o, n)
  BY <1>1 DEF DistinctProducts
<1> QED BY <1>1, <1>2 DEF Places

LEMMA DemandIsTheSortedLine ==
  ASSUME DistinctProducts, NEW o \in Orders, NEW i \in Products
  PROVE  /\ \A n \in Places(o) :
              Ordered(o)[n].product = i => Demand(o, i) = Ordered(o)[n].quantity
         /\ (\A n \in Places(o) : Ordered(o)[n].product # i) => Demand(o, i) = 0
<1>1. ASSUME NEW n \in Places(o), Ordered(o)[n].product = i
      PROVE  Demand(o, i) = Ordered(o)[n].quantity
  BY <1>1, SortIsAPermutation, DemandIsTheLine
<1>2. ASSUME \A n \in Places(o) : Ordered(o)[n].product # i PROVE Demand(o, i) = 0
  <2>1. ASSUME NEW k \in Places(o) PROVE Lines[o][k].product # i
    <3>1. PICK n \in Places(o) : At(o, n) = k
      BY SortIsAPermutation
    <3> QED BY <1>2, <3>1, SortIsAPermutation
  <2> QED BY <2>1, DemandIsTheLine
<1> QED BY <1>1, <1>2

\* What h has written: for each line saved so far what is left of its product.
DraftOK(h) ==
  pc[h] \in {"save", "confirm"} =>
    /\ \A n \in 1..saved[h] :
         draft[h][LineAt(h, n).product] = loaded[h][n] - LineAt(h, n).quantity
    /\ \A i \in Products : draft[h][i] # None => \E n \in 1..saved[h] : LineAt(h, n).product = i

DraftsOK == \A h \in Handlers : DraftOK(h)

LEMMA SaveLineKeepsDraft ==
  ASSUME DistinctProducts, TxInv, NEW h \in Handlers, DraftOK(h), SaveLine(h)
  PROVE  DraftOK(h)'
<1> DEFINE n == saved[h] + 1
           i == LineAt(h, n).product
           rest == loaded[h][n] - LineAt(h, n).quantity
<1>1. OrderOf[h] \in Orders /\ Size(h) \in Nat
  BY TxAssumption, LineFields DEF Size
<1>2. /\ pc[h] = "save" /\ n \in 1..Size(h) /\ saved[h] \in Nat
  BY <1>1 DEF SaveLine, TxInv, HandlerOK, TypeOK
<1>3. /\ draft' = [draft EXCEPT ![h] = [draft[h] EXCEPT ![i] = rest]]
      /\ saved' = [saved EXCEPT ![h] = n] /\ loaded' = loaded
  BY DEF SaveLine, LineAt
<1>4. \A m \in 1..saved[h] : LineAt(h, m).product # i /\ LineAt(h, m).product \in Products
  <2> SUFFICES ASSUME NEW m \in 1..saved[h]
               PROVE  LineAt(h, m).product # i /\ LineAt(h, m).product \in Products
    OBVIOUS
  <2>1. m \in 1..Size(h) /\ m # n
    BY <1>1, <1>2
  <2>2. m \in Places(OrderOf[h]) /\ n \in Places(OrderOf[h])
    BY <1>2, <2>1 DEF Places, Size
  <2> HIDE DEF n
  <2> QED BY <1>1, <2>1, <2>2, SortedLinesDiffer, OrderedFields DEF LineAt
<1>5. i \in Products
  BY <1>1, <1>2, OrderedFields DEF LineAt, Size, Places
<1> HIDE DEF i, rest
<1>6. saved'[h] = n /\ \A m \in 1..n : m = n \/ m \in 1..saved[h]
  BY <1>2, <1>3 DEF TxInv, TypeOK
<1>7. /\ draft'[h][i] = rest
      /\ \A j \in Products \ {i} : draft'[h][j] = draft[h][j]
  BY <1>3, <1>5 DEF TxInv, TypeOK
<1>8. \A m \in 1..n : draft'[h][LineAt(h, m).product] = loaded[h][m] - LineAt(h, m).quantity
  <2> SUFFICES ASSUME NEW m \in 1..n
               PROVE  draft'[h][LineAt(h, m).product] = loaded[h][m] - LineAt(h, m).quantity
    OBVIOUS
  <2>1. CASE m = n
    BY <1>7, <2>1 DEF i, rest
  <2>2. CASE m \in 1..saved[h]
    BY <1>2, <1>4, <1>7, <2>2 DEF DraftOK
  <2> QED BY <1>6, <2>1, <2>2
<1>9. ASSUME NEW j \in Products, draft'[h][j] # None
      PROVE  \E m \in 1..n : LineAt(h, m).product = j
  <2>1. CASE j = i
    BY <1>2, <2>1 DEF i
  <2>2. CASE j # i
    <3>1. PICK m \in 1..saved[h] : LineAt(h, m).product = j
      BY <1>2, <1>7, <1>9, <2>2 DEF DraftOK
    <3> QED BY <1>2, <3>1
  <2> QED BY <2>1, <2>2
<1> HIDE DEF n
<1> QED BY <1>3, <1>6, <1>8, <1>9, SameLines DEF DraftOK

LEMMA DraftsInductive ==
  ASSUME DistinctProducts, TxInv, DraftsOK, [Next]_vars
  PROVE  DraftsOK'
<1> SUFFICES ASSUME NEW h \in Handlers PROVE DraftOK(h)'
  BY DEF DraftsOK
<1>1. ASSUME /\ pc'[h] = pc[h] /\ loaded'[h] = loaded[h]
             /\ saved'[h] = saved[h] /\ draft'[h] = draft[h]
      PROVE  DraftOK(h)'
  BY <1>1, SameLines DEF DraftsOK, DraftOK
<1>2. ASSUME NEW o \in Orders, Place(o) \/ ExpireUncharged(o) PROVE DraftOK(h)'
  BY <1>1, <1>2 DEF Place, ExpireUncharged, locals
<1>3. ASSUME NEW g \in Handlers, Step(g) \/ Crash(g), g # h PROVE DraftOK(h)'
  BY <1>1, <1>3, OthersUndisturbed DEF Undisturbed
<1>4. CASE LockOrder(h)
  BY <1>4 DEF LockOrder, Goto, DraftOK, TxInv, TypeOK
<1>5. CASE LockLine(h)
  <2>1. saved'[h] = 0 /\ draft'[h] = Nothing
    BY <1>5 DEF LockLine, TxInv, HandlerOK
  <2> QED BY <2>1 DEF DraftOK, Nothing
<1>6. CASE SaveLine(h)
  BY <1>6, SaveLineKeepsDraft DEF DraftsOK
<1>7. CASE CommitConfirmed(h) \/ CommitRefused(h) \/ Crash(h)
  BY <1>7 DEF CommitConfirmed, CommitRefused, Crash, Goto, DraftOK, TxInv, TypeOK
<1>8. CASE UNCHANGED vars
  BY <1>1, <1>8 DEF vars, locals
<1> QED BY <1>2, <1>3, <1>4, <1>5, <1>6, <1>7, <1>8 DEF Next, Step

\* What a commit leaves on the shelf.
LEMMA CommitTakesTheDemand ==
  ASSUME DistinctProducts, TxInv, NEW h \in Handlers, DraftOK(h), CommitConfirmed(h)
  PROVE  /\ \A i \in Products : available[i] >= Demand(OrderOf[h], i)
         /\ available' = [i \in Products |-> available[i] - Demand(OrderOf[h], i)]
<1> DEFINE o == OrderOf[h]
<1>1. o \in Orders /\ Places(o) = 1..Size(h)
  BY TxAssumption DEF Places, Size
<1>2. /\ pc[h] = "confirm" /\ saved[h] = Size(h) /\ Len(loaded[h]) = Size(h)
  BY DEF CommitConfirmed, TxInv, HandlerOK
<1>3. available \in [Products -> Nat] /\ None \notin Int
  BY TxAssumption DEF TxInv, TypeOK
<1>4. ASSUME NEW i \in Products
      PROVE  /\ available[i] >= Demand(o, i)
             /\ (IF draft[h][i] = None THEN available[i] ELSE draft[h][i])
                  = available[i] - Demand(o, i)
  <2>1. CASE \E n \in Places(o) : Ordered(o)[n].product = i
    <3>1. PICK n \in Places(o) : Ordered(o)[n].product = i
      BY <2>1
    <3>2. /\ LineAt(h, n).product = i /\ Demand(o, i) = LineAt(h, n).quantity
          /\ LineAt(h, n).quantity \in Nat
      BY <1>1, <3>1, DemandIsTheSortedLine, OrderedFields DEF LineAt
    <3>3. /\ loaded[h][n] = available[i] /\ LineAt(h, n).quantity <= loaded[h][n]
      BY <1>1, <1>2, <3>2 DEF TxInv, HandlerOK
    <3>4. draft[h][i] = loaded[h][n] - LineAt(h, n).quantity
      BY <1>1, <1>2, <3>2 DEF DraftOK
    <3>5. draft[h][i] # None
      BY <1>3, <3>2, <3>3, <3>4
    <3> QED BY <1>3, <3>2, <3>3, <3>4, <3>5
  <2>2. CASE \A n \in Places(o) : Ordered(o)[n].product # i
    <3>1. Demand(o, i) = 0
      BY <1>1, <2>2, DemandIsTheSortedLine
    <3>2. draft[h][i] = None
      BY <1>1, <1>2, <2>2 DEF DraftOK, LineAt
    <3> QED BY <1>3, <3>1, <3>2
  <2> QED BY <2>1, <2>2
<1>5. available' = [i \in Products |-> IF draft[h][i] = None THEN available[i] ELSE draft[h][i]]
  BY DEF CommitConfirmed
<1> QED BY <1>4, <1>5

\* The transaction implements the order book.  Handlers that run at once, some of which
\* die inside, for orders that share products, leave in the database what one step
\* per order would; an order has one line per product, as the cart sees to.
THEOREM SerializableHolds == ASSUME DistinctProducts PROVE Spec => Serializable
<1>1. Init => Book!Init
  BY DEF Init, Book!Init, PhaseOf
<1>2. Init => DraftsOK
  BY DEF Init, DraftsOK, DraftOK
<1>3. TxInv /\ DraftsOK /\ [Next]_vars => DraftsOK'
  BY DraftsInductive
<1>4. TxInv /\ DraftsOK /\ [Next]_vars => [Book!Next]_(Book!vars)
  <2> SUFFICES ASSUME TxInv, DraftsOK, [Next]_vars PROVE [Book!Next]_(Book!vars)
    OBVIOUS
  <2>1. ASSUME status' = status, outbox' = outbox, available' = available
        PROVE  UNCHANGED Book!vars
    BY <2>1 DEF Book!vars
  <2>2. ASSUME NEW o \in Orders, Place(o) PROVE Book!Place(o)
    BY <2>2 DEF Place, Book!Place, PhaseOf, TxInv, TypeOK
  <2>3. ASSUME NEW o \in Orders, ExpireUncharged(o) PROVE Book!Expire(o)
    BY <2>3 DEF ExpireUncharged, Book!Expire, PhaseOf, TxInv, TypeOK
  <2>4. ASSUME NEW h \in Handlers, LockOrder(h) \/ LockLine(h) \/ SaveLine(h) \/ Crash(h)
        PROVE  UNCHANGED Book!vars
    BY <2>1, <2>4 DEF LockOrder, LockLine, SaveLine, Crash
  <2>5. ASSUME NEW h \in Handlers, CommitConfirmed(h) PROVE Book!Confirm(OrderOf[h])
    <3> DEFINE o == OrderOf[h]
    <3>1. o \in Orders /\ status[o] = "PENDING"
      BY <2>5, TxAssumption DEF CommitConfirmed, TxInv, HandlerOK, Inside
    <3>2. /\ \A i \in Products : available[i] >= Demand(o, i)
          /\ available' = [i \in Products |-> available[i] - Demand(o, i)]
      BY <2>5, CommitTakesTheDemand DEF DraftsOK
    <3>3. status' = [status EXCEPT ![o] = "APPROVED"] /\ outbox' = [outbox EXCEPT ![o] = @ + 1]
      BY <2>5 DEF CommitConfirmed
    <3> HIDE DEF o
    <3>4. \A x \in Orders : status'[x] = IF x = o THEN "APPROVED" ELSE status[x]
      BY <3>1, <3>3 DEF TxInv, TypeOK
    <3>5. PhaseOf("PENDING") = "open" /\ PhaseOf("APPROVED") = "confirmed"
      BY DEF PhaseOf
    <3> HIDE DEF PhaseOf
    <3>6. [x \in Orders |-> PhaseOf(status'[x])]
            = [[x \in Orders |-> PhaseOf(status[x])] EXCEPT ![o] = "confirmed"]
      BY <3>1, <3>4, <3>5
    <3>7. \A i \in Products :
            available[i] >= [x \in Orders |-> [j \in Products |-> Demand(x, j)]][o][i]
      BY <3>1, <3>2
    <3>8. available' = [i \in Products |->
            available[i] - [x \in Orders |-> [j \in Products |-> Demand(x, j)]][o][i]]
      BY <3>1, <3>2
    <3> QED BY <3>1, <3>3, <3>5, <3>6, <3>7, <3>8 DEF Book!Confirm, o
  <2>6. ASSUME NEW h \in Handlers, CommitRefused(h) PROVE Book!Refuse(OrderOf[h])
    <3> DEFINE o == OrderOf[h]
    <3>1. o \in Orders /\ status[o] = "PENDING"
      BY <2>6, TxAssumption DEF CommitRefused, TxInv, HandlerOK, Inside
    <3>2. status' = [status EXCEPT ![o] = "ERROR"] /\ UNCHANGED <<outbox, available>>
      BY <2>6 DEF CommitRefused
    <3> HIDE DEF o
    <3>3. \A x \in Orders : status'[x] = IF x = o THEN "ERROR" ELSE status[x]
      BY <3>1, <3>2 DEF TxInv, TypeOK
    <3>4. PhaseOf("PENDING") = "open" /\ PhaseOf("ERROR") = "refused"
      BY DEF PhaseOf
    <3> HIDE DEF PhaseOf
    <3>5. [x \in Orders |-> PhaseOf(status'[x])]
            = [[x \in Orders |-> PhaseOf(status[x])] EXCEPT ![o] = "refused"]
      BY <3>1, <3>3, <3>4
    <3> QED BY <3>1, <3>2, <3>4, <3>5 DEF Book!Refuse, o
  <2>7. CASE UNCHANGED vars
    BY <2>1, <2>7 DEF vars
  <2> QED
    BY <2>2, <2>3, <2>4, <2>5, <2>6, <2>7, TxAssumption DEF Next, Step, Book!Next
<1> HIDE DEF DraftsOK
<1> QED BY <1>1, <1>2, <1>3, <1>4, TxInvHolds, PTL DEF Spec, Serializable, Book!Spec
=============================================================================
