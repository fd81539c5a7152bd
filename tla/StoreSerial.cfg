CONSTANTS
  Worker = {w1}
  User = {u1, u2}
  Admin = {u2}
  Kit = {"k1"}
  Site = {"site"}
  MaxRow = 2
  MaxOrder = 2
  MaxQty = 2
  MaxStock = 6
  MaxCharge = 2
  Opening <- TwoUnits
  OpeningOrders <- OneReturned
  Ops = {"decrement", "purchase", "update", "create"}
  Carts <- OneLine
  Bodies <- StatusBodies
  Levels = {1}
SPECIFICATION Spec
INVARIANTS ReservationsFitStock SerialInv
PROPERTIES ReturnsBalance
