------------------------------ MODULE Checkout ------------------------------
(***************************************************************************)
(* What the payment lanes of an order promise, whatever path confirms      *)
(* them: the price may come down or up only while the main lane is open,   *)
(* money is collected once per invoice, a lane is settled once and for     *)
(* good, its task is released by that settlement at most once, and the     *)
(* song is generated only for a settled main lane.                         *)
(***************************************************************************)
EXTENDS Naturals

CONSTANTS Orders, Lanes

VARIABLES
  price,      \* what the order costs
  collected,  \* money collected per invoice
  settled,    \* lanes that have been settled
  released,   \* tasks released by the settlement of a lane
  started     \* orders whose song is being generated

vars == <<price, collected, settled, released, started>>

Init ==
  /\ price \in [Orders -> Nat]
  /\ collected = [o \in Orders |-> [l \in Lanes |-> 0]]
  /\ settled = [o \in Orders |-> {}]
  /\ released = [o \in Orders |-> [l \in Lanes |-> 0]]
  /\ started = {}

\* A promo code, or the creation of the order, sets the price.
SetPrice(o) ==
  /\ "main" \notin settled[o]
  /\ price'[o] \in Nat
  /\ price' = [price EXCEPT ![o] = price'[o]]
  /\ UNCHANGED <<collected, settled, released, started>>

Collect(o, l) ==
  /\ collected[o][l] = 0
  /\ collected'[o][l] \in Nat
  /\ collected' = [collected EXCEPT ![o][l] = collected'[o][l]]
  /\ UNCHANGED <<price, settled, released, started>>

Settle(o, l) ==
  /\ l \notin settled[o]
  /\ settled' = [settled EXCEPT ![o] = @ \cup {l}]
  /\ UNCHANGED <<price, collected, released, started>>

Release(o, l) ==
  /\ l \in settled[o] /\ released[o][l] = 0
  /\ released' = [released EXCEPT ![o][l] = 1]
  /\ UNCHANGED <<price, collected, settled, started>>

Start(o) ==
  /\ "main" \in settled[o]
  /\ started' = started \cup {o}
  /\ UNCHANGED <<price, collected, settled, released>>

Next == \E o \in Orders :
  \/ SetPrice(o) \/ Start(o)
  \/ \E l \in Lanes : Collect(o, l) \/ Settle(o, l) \/ Release(o, l)

Spec == Init /\ [][Next]_vars
=============================================================================
