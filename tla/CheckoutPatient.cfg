CONSTANTS
  User = {u1, u2}
  Worker <- Threads
  Admin = {}
  Kit = {"k1", "k2"}
  Site = {"site"}
  MaxRow = 1
  MaxOrder = 3
  MaxQty = 2
  MaxStock = 6
  MaxCharge = 3
  Opening <- TwoWarehouseUnits
  OpeningOrders <- NoOrders
  CartOf <- Contended
  Serial = TRUE
  Patient = TRUE
  Faulty = {"crash", "redis"}
SPECIFICATION CheckoutSpec
INVARIANTS PromiseInv SoldLeftTheShelf
PROPERTIES KeepsPromise
