-------------------------------- MODULE Shop --------------------------------
(***************************************************************************)
(* What a shop promises of its stock, without carts, requests, Redis or    *)
(* payments: units leave the shelf for customers, may be put back, and are *)
(* sold; shelf and sold units together never exceed the supply.            *)
(***************************************************************************)
EXTENDS Integers

CONSTANTS Row, MaxQty, supply

VARIABLES shelf, sold

Init == shelf = supply /\ sold = [r \in Row |-> 0]

\* A customer takes q units of a row that is not empty.  The shelf may fall
\* below 0: those units are owed.
Take(r, q) ==
  /\ shelf[r] > 0
  /\ shelf' = [shelf EXCEPT ![r] = @ - q]
  /\ UNCHANGED sold

\* Units taken and not sold come back, for some rows at once.
PutBack ==
  /\ \A r \in Row : shelf'[r] >= shelf[r]
                    /\ shelf'[r] + sold[r] <= supply[r]
  /\ UNCHANGED sold

\* Units taken and not put back are sold, for some rows at once.
Sell ==
  /\ \A r \in Row : sold'[r] >= sold[r]
                    /\ shelf[r] + sold'[r] <= supply[r]
  /\ UNCHANGED shelf

Next ==
  \/ \E r \in Row, q \in 1..MaxQty : Take(r, q)
  \/ PutBack
  \/ Sell

Spec == Init /\ [][Next]_<<shelf, sold>>
=============================================================================
