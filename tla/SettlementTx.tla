---------------------------- MODULE SettlementTx ----------------------------
(***************************************************************************)
(* Inside updateAfterPayment for an approved payment: the Postgres         *)
(* transaction that Settlement.tla takes as one action.  It locks the      *)
(* order's row, then one inventory row per line, writes the decremented    *)
(* rows one by one and commits.  Several handlers run it at once, for the  *)
(* same order and for orders that share products, and any may die inside.  *)
(***************************************************************************)
EXTENDS Integers, Sequences, FiniteSets

CONSTANTS
  Orders,
  Products,      \* product ids, as numbers in the order of localeCompare
  Lines,         \* Lines[o]: the lines of order o, [product, quantity]
  InitialStock,
  Handlers,      \* calls of updateAfterPayment
  OrderOf,       \* OrderOf[h]: the order handler h settles
  Crashable,     \* handlers that may die, which rolls their transaction back
  None

ASSUME TxAssumption ==
  /\ Products \subseteq Nat /\ InitialStock \in [Products -> Nat]
  /\ Lines \in [Orders -> Seq([product : Products, quantity : Nat \ {0}]) \ {<<>>}]
  /\ OrderOf \in [Handlers -> Orders] /\ Crashable \subseteq Handlers
  /\ None \notin Handlers \cup Int

VARIABLES
  status,     \* status[o]: committed
  outbox,     \* outbox[o]: committed order.confirmed rows
  available,  \* available[i]: committed
  orderLock,  \* orderLock[o]: the handler that holds the row of order o
  stockLock,  \* stockLock[i]: the handler that holds the inventory row of i
  pc,         \* pc[h]
  loaded,     \* loaded[h]: "available" of the entities in "locked", in order
  saved,      \* saved[h]: entities saved so far
  draft       \* draft[h][i]: what h has written to row i and not committed

locals == <<pc, loaded, saved, draft>>
vars   == <<status, outbox, available, orderLock, stockLock, locals>>

Nothing == [i \in Products |-> None]

TypeOK ==
  /\ status \in [Orders -> {"ABSENT", "PENDING", "APPROVED", "ERROR", "EXPIRED"}]
  /\ outbox \in [Orders -> Nat] /\ available \in [Products -> Nat]
  /\ orderLock \in [Orders -> Handlers \cup {None}]
  /\ stockLock \in [Products -> Handlers \cup {None}]
  /\ pc \in [Handlers -> {"begin", "lock", "save", "confirm", "refuse", "done", "dead"}]
  /\ loaded \in [Handlers -> Seq(Nat)] /\ saved \in [Handlers -> Nat]
  /\ draft \in [Handlers -> [Products -> Nat \cup {None}]]

Init ==
  /\ status = [o \in Orders |-> "ABSENT"]
  /\ outbox = [o \in Orders |-> 0]
  /\ available = InitialStock
  /\ orderLock = [o \in Orders |-> None]
  /\ stockLock = Nothing
  /\ pc = [h \in Handlers |-> "begin"]
  /\ loaded = [h \in Handlers |-> <<>>]
  /\ saved = [h \in Handlers |-> 0]
  /\ draft = [h \in Handlers |-> Nothing]

Goto(h, label) == pc' = [pc EXCEPT ![h] = label]

\* Line j of order o comes before line k; the sort is stable.
Before(o, j, k) ==
  \/ Lines[o][j].product < Lines[o][k].product
  \/ Lines[o][j].product = Lines[o][k].product /\ j < k

\* How many lines come before line k.
Rank(o, k) == Cardinality({j \in 1..Len(Lines[o]) : Before(o, j, k)})

\* Mutant of Ordered: locks follow the order of the cart.
AsGiven(o) == Lines[o]

Ordered(o) ==
  [n \in 1..Len(Lines[o]) |->
    Lines[o][CHOOSE k \in 1..Len(Lines[o]) : Rank(o, k) = n - 1]]

\* The end of h's transaction: every lock it holds is free again.
Release(h) ==
  /\ orderLock' = [o \in Orders |-> IF orderLock[o] = h THEN None ELSE orderLock[o]]
  /\ stockLock' = [i \in Products |-> IF stockLock[i] = h THEN None ELSE stockLock[i]]

-----------------------------------------------------------------------------
Place(o) ==
  /\ status[o] = "ABSENT"
  /\ status' = [status EXCEPT ![o] = "PENDING"]
  /\ UNCHANGED <<outbox, available, orderLock, stockLock, locals>>

\* One statement under its own lock on the row.
ExpireUncharged(o) ==
  /\ status[o] = "PENDING" /\ orderLock[o] = None
  /\ status' = [status EXCEPT ![o] = "EXPIRED"]
  /\ UNCHANGED <<outbox, available, orderLock, stockLock, locals>>

\* A row that is not PENDING any more ends the transaction at once.
LockOrder(h) ==
  LET o == OrderOf[h] IN
    /\ pc[h] = "begin" /\ status[o] # "ABSENT"
    /\ orderLock[o] = None
    /\ IF status[o] = "PENDING"
         THEN Goto(h, "lock") /\ orderLock' = [orderLock EXCEPT ![o] = h]
         ELSE Goto(h, "done") /\ UNCHANGED orderLock
    /\ UNCHANGED <<status, outbox, available, stockLock, loaded, saved, draft>>

\* Mutant of LockLine: the row is read without FOR UPDATE.
ReadLine(h) ==
  LET lines == Ordered(OrderOf[h])
      n     == Len(loaded[h]) + 1
      i     == lines[n].product
  IN /\ pc[h] = "lock"
     /\ IF available[i] < lines[n].quantity
          THEN Goto(h, "refuse") /\ UNCHANGED loaded
          ELSE /\ loaded' = [loaded EXCEPT ![h] = Append(@, available[i])]
               /\ Goto(h, IF n = Len(lines) THEN "save" ELSE "lock")
     /\ UNCHANGED <<status, outbox, available, orderLock, stockLock, saved, draft>>

\* SELECT ... FOR UPDATE of the next line's inventory row.  A row locked before by
\* the same transaction is loaded again, as an entity of its own.
LockLine(h) ==
  LET lines == Ordered(OrderOf[h])
      n     == Len(loaded[h]) + 1
      i     == lines[n].product
  IN /\ pc[h] = "lock"
     /\ stockLock[i] \in {None, h}
     /\ stockLock' = [stockLock EXCEPT ![i] = h]
     /\ IF available[i] < lines[n].quantity
          THEN Goto(h, "refuse") /\ UNCHANGED loaded
          ELSE /\ loaded' = [loaded EXCEPT ![h] = Append(@, available[i])]
               /\ Goto(h, IF n = Len(lines) THEN "save" ELSE "lock")
     /\ UNCHANGED <<status, outbox, available, orderLock, saved, draft>>

\* The entity is decremented in memory and written as it is.
SaveLine(h) ==
  LET lines == Ordered(OrderOf[h])
      n     == saved[h] + 1
  IN /\ pc[h] = "save"
     /\ draft' = [draft EXCEPT ![h][lines[n].product] = loaded[h][n] - lines[n].quantity]
     /\ saved' = [saved EXCEPT ![h] = n]
     /\ Goto(h, IF n = Len(lines) THEN "confirm" ELSE "save")
     /\ UNCHANGED <<status, outbox, available, orderLock, stockLock, loaded>>

CommitConfirmed(h) ==
  LET o == OrderOf[h] IN
    /\ pc[h] = "confirm"
    /\ status' = [status EXCEPT ![o] = "APPROVED"]
    /\ outbox' = [outbox EXCEPT ![o] = @ + 1]
    /\ available' = [i \in Products |-> IF draft[h][i] = None THEN available[i] ELSE draft[h][i]]
    /\ Release(h) /\ Goto(h, "done")
    /\ UNCHANGED <<loaded, saved, draft>>

CommitRefused(h) ==
  /\ pc[h] = "refuse"
  /\ status' = [status EXCEPT ![OrderOf[h]] = "ERROR"]
  /\ Release(h) /\ Goto(h, "done")
  /\ UNCHANGED <<outbox, available, loaded, saved, draft>>

\* The connection is lost: Postgres rolls back and frees the locks.
Crash(h) ==
  /\ h \in Crashable /\ pc[h] \notin {"done", "dead"}
  /\ Release(h) /\ Goto(h, "dead")
  /\ UNCHANGED <<status, outbox, available, loaded, saved, draft>>

Step(h) ==
  LockOrder(h) \/ LockLine(h) \/ SaveLine(h) \/ CommitConfirmed(h) \/ CommitRefused(h)

Next ==
  \/ \E o \in Orders : Place(o) \/ ExpireUncharged(o)
  \/ \E h \in Handlers : Step(h) \/ Crash(h)

\* Postgres grants a lock that is free, and every statement returns.
Spec == Init /\ [][Next]_vars /\ \A h \in Handlers : WF_vars(Step(h))

-----------------------------------------------------------------------------
\* Units of product i in all lines of order o.
Demand(o, i) ==
  LET upTo[n \in 0..Len(Lines[o])] ==
        IF n = 0 THEN 0
        ELSE upTo[n - 1] + IF Lines[o][n].product = i THEN Lines[o][n].quantity ELSE 0
  IN  upTo[Len(Lines[o])]

PhaseOf(st) ==
  CASE st = "ABSENT"   -> "unplaced"
    [] st = "PENDING"  -> "open"
    [] st = "APPROVED" -> "confirmed"
    [] st = "EXPIRED"  -> "expired"
    [] OTHER           -> "refused"

Book == INSTANCE OrderBook WITH
  phase <- [o \in Orders |-> PhaseOf(status[o])], stock <- available, notices <- outbox,
  Quantity <- [o \in Orders |-> [i \in Products |-> Demand(o, i)]]

\* The steps between locks and commit are invisible: what the database shows is an
\* order book that confirms an order and takes its units in one step.
Serializable == Book!Spec

\* The product whose row h locks next.
NextProduct(h) == Ordered(OrderOf[h])[Len(loaded[h]) + 1].product

\* h needs a lock that g holds.
WaitsFor(h, g) ==
  /\ h # g
  /\ \/ pc[h] = "begin" /\ orderLock[OrderOf[h]] = g
     \/ pc[h] = "lock" /\ stockLock[NextProduct(h)] = g

\* decrementManyLocked: "stable productId order".  No settlements, however many and
\* whatever their orders share, wait for each other in a circle: one of them waits for
\* none of the others.
NoCircularWait ==
  \A S \in SUBSET Handlers :
    S # {} /\ IsFiniteSet(S) => \E h \in S : \A g \in S : ~ WaitsFor(h, g)

\* No two settlements wait for each other: updateAfterPayment locks the order first
\* and decrementManyLocked the products in one global order, so that each call
\* that holds a lock comes to its commit.
EveryTransactionEnds ==
  \A h \in Handlers : (pc[h] = "lock") ~> (pc[h] \in {"done", "dead"})
=============================================================================
