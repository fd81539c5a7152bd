CONSTANTS
  User = {u1, u2}
  Worker <- Threads
  Admin = {}
  Kit = {"k1", "k2"}
  Site = {"site"}
  MaxRow = 2
  MaxOrder = 2
  MaxQty = 2
  MaxStock = 6
  MaxCharge = 2
  Opening <- Mixed
  OpeningOrders <- NoOrders
  CartOf <- OneEach
  Serial = TRUE
  Patient = FALSE
  Faulty = {"crash", "redis", "answer"}
SPECIFICATION CheckoutSpec
INVARIANTS ShelfNeverOverfull
