CONSTANTS
  Worker = {w1, w2}
  User = {u1, u2}
  Admin = {u2}
  Kit = {"k1"}
  Site = {"site"}
  MaxRow = 2
  MaxOrder = 3
  MaxQty = 1
  MaxStock = 1
  MaxCharge = 2
  Opening <- TwoSites
  OpeningOrders <- NoOrders
  Ops = {"purchase", "drop", "update"}
  Carts <- TwoLines
  Bodies <- MoveBodies
  Levels = {}
SPECIFICATION Spec
INVARIANTS TypeOK PurchasesHaveRows ChargedLineSoldOnce ChargeInv
SYMMETRY WorkerSymmetry
