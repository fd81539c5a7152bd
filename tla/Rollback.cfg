CONSTANTS
  Worker = {w1}
  User = {u1}
  Admin = {}
  Kit = {"k1"}
  Site = {"site"}
  MaxRow = 1
  MaxOrder = 1
  MaxQty = 1
  MaxStock = 1
  MaxCharge = 1
  Opening <- OneUnit
  OpeningOrders <- NoOrders
  Ops = {"decrement"}
  Carts <- NoCarts
  Bodies <- NoBodies
  Levels = {}
SPECIFICATION FairSpec
PROPERTIES ExpiredIsRolledBack
