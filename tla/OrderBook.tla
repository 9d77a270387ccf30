------------------------------ MODULE OrderBook ------------------------------
(***************************************************************************)
(* What the checkout promises about an order, whoever settles it.  An      *)
(* order is placed once and decided once.  Confirming it takes its units   *)
(* from stock, and tells fulfilment and the customer, in the same step;    *)
(* every other decision takes nothing and tells nobody.                    *)
(*                                                                         *)
(* Handlers, idempotency keys, the payment provider, retries and crashes   *)
(* are absent: Settlement.tla has them all and is shown to implement this. *)
(***************************************************************************)
EXTENDS Integers

CONSTANTS Orders, Products, Quantity, InitialStock

VARIABLES phase,    \* phase[o]: where order o is in its life
          stock,    \* stock[i]: units of product i on the shelf
          notices   \* notices[o]: confirmations sent for order o

vars == <<phase, stock, notices>>

Phases == {"unplaced", "open", "confirmed", "refused", "expired"}

TypeOK ==
  /\ phase \in [Orders -> Phases]
  /\ stock \in [Products -> Nat]
  /\ notices \in [Orders -> Nat]

Init ==
  /\ phase = [o \in Orders |-> "unplaced"]
  /\ stock = InitialStock
  /\ notices = [o \in Orders |-> 0]

\* Placing an order reserves nothing.
Place(o) ==
  /\ phase[o] = "unplaced"
  /\ phase' = [phase EXCEPT ![o] = "open"]
  /\ UNCHANGED <<stock, notices>>

\* Confirmation is all or nothing over the products of the order.
Confirm(o) ==
  /\ phase[o] = "open"
  /\ \A i \in Products : stock[i] >= Quantity[o][i]
  /\ phase' = [phase EXCEPT ![o] = "confirmed"]
  /\ stock' = [i \in Products |-> stock[i] - Quantity[o][i]]
  /\ notices' = [notices EXCEPT ![o] = @ + 1]

\* The payment was declined, failed, or could not be served from stock.
Refuse(o) ==
  /\ phase[o] = "open"
  /\ phase' = [phase EXCEPT ![o] = "refused"]
  /\ UNCHANGED <<stock, notices>>

\* Nobody paid in time.
Expire(o) ==
  /\ phase[o] = "open"
  /\ phase' = [phase EXCEPT ![o] = "expired"]
  /\ UNCHANGED <<stock, notices>>

Next == \E o \in Orders : Place(o) \/ Confirm(o) \/ Refuse(o) \/ Expire(o)

Spec == Init /\ [][Next]_vars
=============================================================================
