------------------------------ MODULE MCStore ------------------------------
(***************************************************************************)
(* Values for the constants of Store that TLC checks it with.              *)
(***************************************************************************)
EXTENDS Store, TLC

RowOf(loc, n) == [kit |-> "k1", loc |-> loc, quantity |-> n]
OneUnit == <<RowOf("site", 1)>>
TwoUnits == <<RowOf("site", 2)>>
TwoSites == <<RowOf("site", 1), RowOf("warehouse", 1)>>

OrderOf(r, q, status) ==
  [user |-> CHOOSE u \in User : u \notin Admin, inventory_id |-> r,
   quantity |-> q, status |-> status, charge |-> 0, line |-> 0]
NoOrders == <<>>
OneOrder == <<OrderOf(1, 1, "Ready for pickup")>>
OneReturned == <<OrderOf(1, 1, "Returned")>>
ThreeOrders == <<OrderOf(1, 2, "Ready for pickup"), OrderOf(1, 1, "Returned"),
                 OrderOf(2, 2, "Checked-out")>>

Body(status, r) == [status |-> status, quantity |-> 0, inventory_id |-> r]
StatusBodies == {Body(s, 0) : s \in Status}
SaveBodies == StatusBodies \cup {NoColumns}
MoveBodies == {Body("", r) : r \in Row}
NoBodies == {}

Line(r, q) == [inventory_id |-> r, quantity |-> q]
OneLine == {<<Line(1, 1)>>}
TwoLines == {<<>>, <<Line(1, 1)>>, <<Line(1, 1), Line(2, 1)>>}
NoCarts == {}

\* Workers are interchangeable.
WorkerSymmetry == Permutations(Worker)
=============================================================================
