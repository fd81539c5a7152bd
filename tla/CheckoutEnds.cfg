CONSTANTS
  User = {u1}
  Worker <- TwoCheckouts
  Admin = {}
  Kit = {"k1", "k2"}
  Site = {"site"}
  MaxRow = 2
  MaxOrder = 2
  MaxQty = 1
  MaxStock = 2
  MaxCharge = 1
  Opening <- Mixed
  OpeningOrders <- NoOrders
  CartOf <- BothRows
  Serial = FALSE
  Patient = TRUE
  Faulty = {"crash"}
SPECIFICATION CheckoutSpec
INVARIANTS PageTypeOK
PROPERTIES CheckoutEnds
