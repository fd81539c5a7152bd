----------------------------- MODULE MCCheckout -----------------------------
(***************************************************************************)
(* Values for the constants of Checkout that TLC checks it with.           *)
(***************************************************************************)
EXTENDS Checkout

\* One call of each function at a time, or two of one of them (two of
\* handleSubmit where nobody clicks Cancel).
Threads == {"checkout", "submit", "close"} \X User \X {1}
TwoCheckouts == Threads \cup {"checkout"} \X User \X {2}
TwoSubmits ==
  {"checkout"} \X User \X {1} \cup {"submit"} \X User \X {1, 2}
TwoCloses == Threads \cup {"close"} \X User \X {2}

RowOf(kit, loc, n) == [kit |-> kit, loc |-> loc, quantity |-> n]
Line(r, q) == [inventory_id |-> r, quantity |-> q]
NoOrders == <<>>

\* One warehouse row and one pickup row.
Mixed == <<RowOf("k1", "warehouse", 2), RowOf("k2", "site", 1)>>
\* Two kits, both kept in the warehouse.
TwoWarehouseKits == <<RowOf("k1", "warehouse", 1), RowOf("k2", "warehouse", 1)>>
TwoWarehouseUnits == <<RowOf("k1", "warehouse", 2)>>

\* Every customer orders one unit of the second row ...
SecondRow == [u \in User |-> <<Line(2, 1)>>]
\* ... or one line of each.
BothRows == [u \in User |-> <<Line(1, 1), Line(2, 1)>>]
\* Customers who want two units and one of the same row.
Contended ==
  LET first == CHOOSE u \in User : TRUE
  IN  [u \in User |-> <<Line(1, IF u = first THEN 2 ELSE 1)>>]
\* One customer has two units shipped, the other picks one up.
OneEach ==
  LET first == CHOOSE u \in User : TRUE
  IN  [u \in User |-> IF u = first THEN <<Line(1, 2)>> ELSE <<Line(2, 1)>>]
=============================================================================
