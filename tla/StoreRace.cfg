CONSTANTS
  Worker = {w1, w2}
  User = {u1}
  Admin = {}
  Kit = {"k1"}
  Site = {"site"}
  MaxRow = 1
  MaxOrder = 1
  MaxQty = 2
  MaxStock = 3
  MaxCharge = 1
  Opening <- TwoUnits
  OpeningOrders <- OneOrder
  Ops = {"decrement", "increment", "update", "cancel", "restore", "edit", "drop"}
  Carts <- OneLine
  Bodies <- StatusBodies
  Levels = {0}
SPECIFICATION Spec
INVARIANTS StockFloor StockInv
SYMMETRY WorkerSymmetry
