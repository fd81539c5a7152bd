CONSTANTS
  User = {u1, u2}
  Worker <- Threads
  Admin = {}
  Kit = {"k1", "k2"}
  Site = {"site"}
  MaxRow = 2
  MaxOrder = 4
  MaxQty = 1
  MaxStock = 5
  MaxCharge = 2
  Opening <- Mixed
  OpeningOrders <- NoOrders
  CartOf <- BothRows
  Serial = TRUE
  Patient = TRUE
  Faulty = {}
SPECIFICATION CheckoutSpec
INVARIANTS SoldLeftTheShelf
