--------------------------- MODULE CheckoutProofs ---------------------------
(***************************************************************************)
(* Proofs about Checkout where customers are patient and have one line     *)
(* each, for every number of customers, calls, rows and units: a unit is   *)
(* on the shelf, sold, or in the hands of the call or the modal that       *)
(* reserved it, so the shop keeps the promise of the abstract Shop.        *)
(***************************************************************************)
EXTENDS PageProofs

-----------------------------------------------------------------------------
(* The commits.                                                            *)

LEMMA UpdatedOne ==
  ASSUME NEW f \in [Row -> Int], NEW r \in Row, NEW v \in Int
  PROVE  Updated(f, {<<r, v>>}) = [f EXCEPT ![r] = v]
<1>1. ASSUME NEW s \in Row
      PROVE  (IF \E x \in {<<r, v>>} : x[1] = s
                THEN (CHOOSE x \in {<<r, v>>} : x[1] = s)[2] ELSE f[s])
             = IF s = r THEN v ELSE f[s]
  <2>1. CASE s = r
    <3>1. (CHOOSE x \in {<<r, v>>} : x[1] = s) = <<r, v>>
      BY <2>1
    <3> QED
      BY <2>1, <3>1
  <2>2. CASE s # r
    BY <2>2
  <2> QED
    BY <2>1, <2>2
<1> QED
  BY <1>1, Zenon DEF Updated

\* The others stay fresh over a commit: none of them is in a handler.
LEMMA CommitFresh ==
  ASSUME OneLineShop, StockInv, PromiseInv, NEW w \in Worker, OnlyMoves(w), OthersTasks(w),
         UNCHANGED page, pc[w] \in Label, NEW t \in Worker \ {w}
  PROVE  CallIsFresh(t)'
<1>1. pc[t] \notin Label /\ pc[w] # "idle"
  <2>1. OneHandlerRuns
    BY DEF PromiseInv
  <2> QED
    BY <2>1 DEF OneHandlerRuns, Label
<1>2. t[1] = "checkout" => SameCall(t)
  BY SamePage, CallTypes
<1>3. t[1] # "checkout" /\ pc[t] # "idle" => showBillingModal'[t[2]]
  BY SamePage DEF PromiseInv, CallIsFresh, ModalIsFresh
<1> QED
  BY <1>1, <1>2, <1>3, OthersFresh, Zenon DEF OthersTasks

\* decrement_quantity: units leave the shelf into the hands of the call.
LEMMA TakePromise ==
  ASSUME OneLineShop, StockInv, PromiseInv, NoRollbackData', NEW w \in Worker,
         UNCHANGED page, DecrementCommits(w)
  PROVE  /\ PromiseInv' /\ UNCHANGED <<orders, purchase>>
         /\ \E r \in Row, q \in Quantity :
              stock[r] > 0 /\ stock' = [stock EXCEPT ![r] = @ - q]
<1> DEFINE line == Wanted(w[2])
           r == line.inventory_id
           q == line.quantity
<1>1. pc[w] = "decrement" /\ pc[w] \in Label /\ pc[w] \notin Answer
  BY DEF DecrementCommits, Label, Answer
<1>2. w[1] = "checkout" /\ w \in Calls("checkout") /\ w[2] \in User /\ CheckoutIsFresh(w)
  BY <1>1, CallTypes DEF PromiseInv, CallIsFresh, ModalIsFresh, Answer
<1>3. pc'[w] = "pend" /\ OnlyMoves(w)
  BY MovesTo, Zenon DEF DecrementCommits
<1>4. OthersTasks(w) /\ UNCHANGED <<rows, place, orders, purchase>>
  BY DEF DecrementCommits, OthersTasks, StockInv, TypeOK, purchasesTable
<1>5. r \in Row /\ q \in Quantity /\ r \in 1..Len(Opening)
  BY <1>2, OneLine
<1>6. stock[r] > 0 /\ task[w].upd = {<<r, stock[r] - q>>}
  BY <1>1, <1>2 DEF CheckoutIsFresh
<1>7. stock' = [stock EXCEPT ![r] = @ - q]
  <2>1. stock \in [Row -> Int] /\ stock' = Updated(stock, {<<r, stock[r] - q>>})
    BY <1>6 DEF DecrementCommits, StockInv, TypeOK
  <2>2. stock[r] - q \in Int
    BY <1>5, <2>1, BoundsAssumption DEF Quantity
  <2> QED
    BY <1>5, <2>1, <2>2, UpdatedOne, Zenon
<1>8. CallIsFresh(w)'
  <2>1. UNCHANGED <<todo, warehouse, pickups>>
    BY SamePage
  <2>2. pc'[w] # "decrement" /\ pc'[w] \in {"idle", "decrement", "pend"} \cup Answer
    BY <1>3
  <2> QED
    BY <1>2, <2>1, <2>2, Zenon DEF CallIsFresh, CheckoutIsFresh, Wanted, Answer
<1>9. UnitsFit'
  <2> SUFFICES ASSUME NEW s \in Row
               PROVE  stock'[s] + Sold(s)' + Billing(s)' + Reserving(s)' <= Supply(s)
    BY Zenon DEF UnitsFit, Supply, Row
  <2>1. Sold(s)' = Sold(s)
    BY <1>4, Zenon DEF Sold, Order
  <2>2. {Billing(s), Billing(s)'} \subseteq Nat /\ Billing(s)' <= Billing(s)
    <3>1. \A v \in User : ModalHasUnits(v)' => ModalHasUnits(v)
      BY <1>1, <1>3, SamePage, OthersModals DEF Answer
    <3> QED
      BY <1>2, <3>1, BillingMoves
  <2>3. /\ {Reserving(s), Reserving(s)'} \subseteq Nat
        /\ Reserving(s)' <= Reserving(s) + Share(w[2], s)
    <3>1. \A x \in Calls("checkout") \ {w} : HasUnits(x)' => HasUnits(x)
      BY <1>3, SamePage, OthersHands
    <3> QED
      BY <1>2, <3>1, ReservingMoves
  <2>4. stock[s] + Sold(s) + Billing(s) + Reserving(s) <= Supply(s)
    BY DEF PromiseInv, UnitsFit
  <2>5. stock[s] \in Int /\ Sold(s) \in Nat /\ Supply(s) \in Nat /\ Share(w[2], s) \in Nat
    BY <1>2, FitTypesOf, ShareType
  <2>6. stock'[s] = stock[s] - Share(w[2], s)
    <3>1. stock \in [Row -> Int]
      BY DEF StockInv, TypeOK
    <3> QED
      BY <1>5, <1>7, <3>1 DEF Share
  <2> QED
    BY <2>1, <2>2, <2>3, <2>4, <2>5, <2>6
<1>10. PromiseInv'
  <2>1. \A t \in Worker : CallIsFresh(t)'
    BY <1>1, <1>3, <1>4, <1>8, CommitFresh
  <2> QED
    BY <1>1, <1>3, <1>4, <1>9, <2>1, PromiseAgain, Zenon
<1> QED
  BY <1>4, <1>5, <1>6, <1>7, <1>10, Zenon

\* A modal's call that commits: its units leave its hands.
LEMMA BillingLeaves ==
  ASSUME OneLineShop, StockInv, PromiseInv, NEW w \in Worker, w[1] # "checkout",
         pc[w] \in Label, pc'[w] = "ok", OnlyMoves(w), UNCHANGED page, NEW s \in Row
  PROVE  /\ {Billing(s), Billing(s)', Reserving(s), Reserving(s)', Share(w[2], s)} \subseteq Nat
         /\ Billing(s)' + Share(w[2], s) <= Billing(s)
         /\ Reserving(s)' <= Reserving(s)
<1>1. /\ w[2] \in User /\ w \in ModalCalls(w[2]) /\ ModalIsFresh(w)
      /\ pc[w] # "idle" /\ pc[w] # "ok"
  BY CallTypes DEF ModalCalls, Calls, PromiseInv, CallIsFresh, Label
<1>2. showBillingModal' = showBillingModal /\ \A x \in Calls("checkout") : SameCall(x)
  BY SamePage
<1>3. \A v \in User : ModalHasUnits(v)' => ModalHasUnits(v)
  BY <1>1, <1>2, OthersModals
<1>4. \A x \in Calls("checkout") : HasUnits(x)' => HasUnits(x)
  BY <1>2, OthersHands DEF Calls
<1>5. ModalHasUnits(w[2])
  BY <1>1, Zenon DEF ModalIsFresh, ModalHasUnits
<1>6. ~ModalHasUnits(w[2])'
  <2>1. w \in ModalCalls(w[2])'
    BY <1>1, Zenon DEF ModalCalls, CallsOf, Calls
  <2> QED
    BY <2>1, Zenon DEF ModalHasUnits
<1>7. Billing(s)' + Share(w[2], s) <= Billing(s)
  BY <1>1, <1>3, <1>5, <1>6, BillingMoves, Zenon
<1> QED
  BY <1>1, <1>3, <1>4, <1>7, HandsShrink, ShareType, Zenon

\* restore_reserved_inventory: units go back from the modal to the shelf.
LEMMA PutBackPromise ==
  ASSUME OneLineShop, StockInv, PromiseInv, NoRollbackData', NEW w \in Worker,
         UNCHANGED page, InventoryCommits(w)
  PROVE  /\ PromiseInv' /\ UNCHANGED <<orders, purchase>>
         /\ \A r \in Row : stock'[r] >= stock[r]
<1> DEFINE line == Wanted(w[2])
           r == line.inventory_id
           q == line.quantity
<1>1. pc[w] = "restore" /\ w[1] # "checkout" /\ w[2] \in User /\ ModalIsFresh(w)
  <2>1. pc[w] \in {"increment", "restore", "edit"} /\ CallIsFresh(w)
    BY DEF InventoryCommits, PromiseInv
  <2> QED
    BY <2>1, CallTypes DEF CallIsFresh, CheckoutIsFresh, ModalIsFresh, Answer
<1>2. pc[w] \in Label /\ pc[w] \notin Answer
  BY <1>1 DEF Label, Answer
<1>3. pc'[w] = "ok" /\ OnlyMoves(w) /\ "ok" \in Answer /\ "ok" \notin Label
  BY MovesTo, Zenon DEF InventoryCommits, Finish, Answer, Label
<1>4. r \in Row /\ q \in Quantity
  BY <1>1, OneLine
<1>5. /\ stock \in [Row -> Int] /\ place \in [Row -> Place] /\ task \in [Worker -> Task]
      /\ q \in Nat /\ stock[r] + q \in Int
  BY <1>4, BoundsAssumption DEF StockInv, TypeOK, Quantity
<1>6. place' = place
  <2>1. place' = Updated(place, {})
    BY <1>1 DEF ModalIsFresh, InventoryCommits
  <2> QED
    BY <1>5, <2>1 DEF Updated
<1>7. OthersTasks(w) /\ UNCHANGED <<rows, orders, purchase>>
  BY <1>5 DEF InventoryCommits, Finish, OthersTasks, purchasesTable
<1>8. stock' = stock \/ stock' = [stock EXCEPT ![r] = stock[r] + q]
  <2>1. task[w].upd \subseteq {<<r, stock[r] + q>>}
    BY <1>1 DEF ModalIsFresh
  <2>2. task[w].upd = {} \/ task[w].upd = {<<r, stock[r] + q>>}
    BY <2>1, Zenon
  <2>3. stock' = Updated(stock, task[w].upd)
    BY DEF InventoryCommits
  <2>4. Updated(stock, {}) = stock
    BY <1>5 DEF Updated
  <2>5. Updated(stock, {<<r, stock[r] + q>>}) = [stock EXCEPT ![r] = stock[r] + q]
    BY <1>4, <1>5, UpdatedOne, Zenon
  <2> QED
    BY <2>2, <2>3, <2>4, <2>5, Zenon
<1>9. ASSUME NEW s \in Row
      PROVE  stock'[s] >= stock[s] /\ stock'[s] <= stock[s] + Share(w[2], s) /\ stock'[s] \in Int
  BY <1>4, <1>5, <1>8, <1>9 DEF Share
<1>10. UnitsFit'
  <2> SUFFICES ASSUME NEW s \in Row
               PROVE  stock'[s] + Sold(s)' + Billing(s)' + Reserving(s)' <= Supply(s)
    BY Zenon DEF UnitsFit, Supply, Row
  <2>1. Sold(s)' = Sold(s)
    BY <1>7, Zenon DEF Sold, Order
  <2>2. /\ {Billing(s), Billing(s)', Reserving(s), Reserving(s)', Share(w[2], s)} \subseteq Nat
        /\ Billing(s)' + Share(w[2], s) <= Billing(s) /\ Reserving(s)' <= Reserving(s)
    BY <1>1, <1>2, <1>3, BillingLeaves, Zenon
  <2>3. stock[s] + Sold(s) + Billing(s) + Reserving(s) <= Supply(s)
    BY DEF PromiseInv, UnitsFit
  <2>4. stock[s] \in Int /\ Sold(s) \in Nat /\ Supply(s) \in Nat
    BY FitTypesOf
  <2> QED
    BY <1>9, <2>1, <2>2, <2>3, <2>4
<1>11. \A t \in Worker : CallIsFresh(t)'
  BY <1>2, <1>3, <1>7, CommitFresh, AnswerFresh, Zenon
<1>12. PromiseInv'
  BY <1>3, <1>6, <1>7, <1>10, <1>11, PromiseAgain, Zenon
<1> QED
  BY <1>7, <1>9, <1>12

\* create_purchase inserts one purchase, of the customer's line.
LEMMA InsertsOne ==
  ASSUME OneLineShop, StockInv, NEW w \in Worker, InsertCommits(w), w[2] \in User,
         task[w].items = CartOf[w[2]]
  PROVE  /\ nextOrder \in Order /\ nextOrder \notin orders
         /\ orders' = orders \cup {nextOrder}
         /\ \A o \in orders : o \in Order /\ purchase'[o] = purchase[o]
         /\ purchase'[nextOrder].inventory_id = Wanted(w[2]).inventory_id
         /\ purchase'[nextOrder].quantity = Wanted(w[2]).quantity
<1>1. Len(task[w].items) = 1 /\ task[w].items[1] = Wanted(w[2])
  BY DEF OneLineShop, Wanted
<1>2. /\ nextOrder \in 1..(MaxOrder + 1) /\ orders \subseteq 1..(nextOrder - 1)
      /\ MaxOrder \in Nat
  BY BoundsAssumption DEF StockInv, TypeOK
<1>3. NewIds(w) = {nextOrder} /\ nextOrder <= MaxOrder
  BY <1>1, <1>2 DEF InsertCommits, NewIds
<1>4. nextOrder \in Order /\ nextOrder \notin orders /\ \A o \in orders : o \in Order
  BY <1>2, <1>3 DEF Order
<1>5. purchase' = [o \in Order |-> IF o \in {nextOrder}
                                     THEN NewPurchase(task[w], o - nextOrder + 1)
                                     ELSE purchase[o]]
  BY <1>3 DEF InsertCommits
<1>6. purchase'[nextOrder] = NewPurchase(task[w], 1)
  <2>1. nextOrder - nextOrder + 1 = 1
    BY <1>2
  <2> QED
    BY <1>4, <1>5, <2>1
<1>7. /\ purchase'[nextOrder].inventory_id = Wanted(w[2]).inventory_id
      /\ purchase'[nextOrder].quantity = Wanted(w[2]).quantity
  <2>1. /\ NewPurchase(task[w], 1).inventory_id = task[w].items[1].inventory_id
        /\ NewPurchase(task[w], 1).quantity = task[w].items[1].quantity
    BY DEF NewPurchase
  <2> QED
    BY <1>1, <1>6, <2>1, Zenon
<1> QED
  BY <1>3, <1>4, <1>5, <1>7 DEF InsertCommits

LEMMA SoldOneMore ==
  ASSUME OneLineShop, StockInv, NEW w \in Worker, InsertCommits(w), w[2] \in User,
         task[w].items = CartOf[w[2]], NEW s \in Row
  PROVE  Sold(s)' = Sold(s) + Share(w[2], s)
<1> DEFINE f == [o \in Order |-> purchase[o].quantity]
           g == [o \in Order |-> purchase'[o].quantity]
           S == {o \in orders : purchase[o].inventory_id = s}
           R == {o \in orders' : purchase'[o].inventory_id = s}
           n == nextOrder
<1>1. /\ n \in Order /\ n \notin orders /\ orders' = orders \cup {n}
      /\ \A o \in orders : o \in Order /\ purchase'[o] = purchase[o]
      /\ purchase'[n].inventory_id = Wanted(w[2]).inventory_id
      /\ purchase'[n].quantity = Wanted(w[2]).quantity
  BY InsertsOne
<1>2. Sold(s) = Units(S, f) /\ Sold(s)' = Units(R, g)
  BY DEF Sold, Order
<1>3. g[n] = Wanted(w[2]).quantity /\ \A o \in S : f[o] = g[o]
  BY <1>1
<1>4. IsFiniteSet(S) /\ n \notin S
  <2>1. S \in SUBSET orders
    OBVIOUS
  <2> QED
    BY <1>1, <2>1, PurchasesFinite, FS_Subset, Zenon
<1>5. /\ Wanted(w[2]).inventory_id = s => R = S \cup {n}
      /\ Wanted(w[2]).inventory_id # s => R = S
  BY <1>1
<1>6. Wanted(w[2]).quantity \in Quantity
  BY OneLine
<1> HIDE DEF f, g, S, R, n
<1>7. CASE Wanted(w[2]).inventory_id = s
  <2>1. Units(S \cup {n}, g) = Units(S, f) + g[n]
    BY <1>3, <1>4, <1>6, UnitsMore
  <2> QED
    BY <1>2, <1>3, <1>5, <1>7, <2>1 DEF Share
<1>8. CASE Wanted(w[2]).inventory_id # s
  <2>1. Units(S, g) <= Units(S, f) /\ Units(S, f) <= Units(S, g)
    BY <1>3, <1>4, UnitsFewer
  <2>2. Units(S, g) \in Nat /\ Units(S, f) \in Nat
    BY <1>4, UnitsFinite, Zenon
  <2>3. Units(S, g) = Units(S, f)
    BY <2>1, <2>2
  <2> QED
    BY <1>2, <1>5, <1>8, <2>2, <2>3 DEF Share
<1> QED
  BY <1>7, <1>8

LEMMA SellPromise ==
  ASSUME OneLineShop, StockInv, PromiseInv, NoRollbackData', NEW w \in Worker,
         UNCHANGED page, InsertCommits(w)
  PROVE  /\ PromiseInv' /\ stock' = stock
         /\ \A r \in Row : Sold(r)' >= Sold(r) /\ Sold(r)' \in Nat
<1>1. /\ pc[w] = "insert" /\ w[1] # "checkout" /\ w[2] \in User
      /\ task[w].items = CartOf[w[2]]
  <2>1. pc[w] = "insert" /\ CallIsFresh(w)
    BY DEF InsertCommits, PromiseInv
  <2> QED
    BY <2>1, CallTypes DEF CallIsFresh, CheckoutIsFresh, ModalIsFresh, Answer
<1>2. pc[w] \in Label /\ pc[w] \notin Answer
  BY <1>1 DEF Label, Answer
<1>3. pc'[w] = "ok" /\ OnlyMoves(w) /\ "ok" \in Answer /\ "ok" \notin Label
  BY MovesTo, Zenon DEF InsertCommits, Finish, Answer, Label
<1>4. OthersTasks(w) /\ UNCHANGED <<rows, place, stock>>
  BY DEF InsertCommits, Finish, OthersTasks, inventoryTable, StockInv, TypeOK
<1>5. ASSUME NEW s \in Row
      PROVE  /\ Sold(s)' = Sold(s) + Share(w[2], s) /\ Sold(s) \in Nat
             /\ Share(w[2], s) \in Nat /\ stock[s] \in Int /\ Supply(s) \in Nat
  BY <1>1, <1>5, SoldOneMore, FitTypesOf, ShareType
<1>6. UnitsFit'
  <2> SUFFICES ASSUME NEW s \in Row
               PROVE  stock'[s] + Sold(s)' + Billing(s)' + Reserving(s)' <= Supply(s)
    BY Zenon DEF UnitsFit, Supply, Row
  <2>1. /\ {Billing(s), Billing(s)', Reserving(s), Reserving(s)', Share(w[2], s)} \subseteq Nat
        /\ Billing(s)' + Share(w[2], s) <= Billing(s) /\ Reserving(s)' <= Reserving(s)
    BY <1>1, <1>2, <1>3, BillingLeaves, Zenon
  <2>2. stock[s] + Sold(s) + Billing(s) + Reserving(s) <= Supply(s)
    BY DEF PromiseInv, UnitsFit
  <2> QED
    BY <1>4, <1>5, <2>1, <2>2
<1>7. \A t \in Worker : CallIsFresh(t)'
  BY <1>2, <1>3, <1>4, CommitFresh, AnswerFresh, Zenon
<1>8. PromiseInv'
  BY <1>3, <1>4, <1>6, <1>7, PromiseAgain, Zenon
<1> QED
  BY <1>4, <1>5, <1>8

-----------------------------------------------------------------------------
(* The pages.                                                              *)

\* What is left to show of a step of the page that runs the call w.
LEMMA PagePromise ==
  ASSUME OneLineShop, StockInv, PromiseInv, NoRollbackData', NEW w \in Worker,
         OnlyMoves(w), OthersTasks(w), SameTables, CallIsFresh(w)', UnitsFit',
         \A t \in Calls("checkout") \ {w} : SameCall(t),
         pc[w] # "idle" \/ w[1] = "checkout",
         pc'[w] \in Label => pc[w] \in Label,
         \A t \in Worker \ {w} :
           t[1] # "checkout" /\ pc[t] # "idle" => showBillingModal'[t[2]]
  PROVE  PromiseInv'
<1>1. stock' = stock /\ UNCHANGED <<rows, place>>
  BY DEF SameTables
<1>2. ASSUME NEW t \in Worker \ {w} PROVE CallIsFresh(t)'
  <2>1. t[1] = "checkout" => SameCall(t)
    BY <1>2, CallTypes
  <2> QED
    BY <1>1, <1>2, <2>1, OthersFresh, Zenon DEF OthersTasks
<1>3. \A t \in Worker : CallIsFresh(t)'
  BY <1>2
<1> QED
  BY <1>1, <1>3, PromiseAgain, Zenon

LEMMA ModalsFresh ==
  ASSUME PromiseInv, NEW t \in Worker, t[1] # "checkout", pc[t] # "idle"
  PROVE  showBillingModal[t[2]] /\ \A s \in ModalCalls(t[2]) \ {t} : pc[s] = "idle"
  BY DEF PromiseInv, CallIsFresh, ModalIsFresh

\* The answer to a decrement: the line goes to one of the arrays.
LEMMA GotDecrementPromise ==
  ASSUME OneLineShop, StockInv, PageTypeOK, PromiseInv, NoRollbackData',
         NEW w \in Calls("checkout"), GotDecrement(w)
  PROVE  PromiseInv' /\ SameTables
<1>1. w \in Worker /\ w[1] = "checkout" /\ w[2] \in User /\ CheckoutIsFresh(w)
  BY CallTypes DEF Calls, PromiseInv, CallIsFresh
<1>2. pc[w] \in Answer /\ pc'[w] = "idle" /\ OnlyMoves(w) /\ pc[w] # "idle"
  BY <1>1, MovesTo, Zenon DEF GotDecrement, Deliver, Answer
<1>3. SameTables /\ OthersTasks(w)
  BY DEF GotDecrement, Deliver, SameTables, OthersTasks, inventoryTable, purchasesTable
<1>4. todo[w] = CartOf[w[2]] /\ warehouse[w] = <<>> /\ pickups[w] = <<>>
  BY <1>1, <1>2, PageParts, Zenon DEF CallOK, CheckoutIsFresh
<1>p. PageTypes
  BY PageParts
<1>5. /\ todo'[w] = <<>>
      /\ warehouse'[w] # <<>> \/ pickups'[w] # <<>> => pc[w] = "ok"
  <2>1. LeftAfter(w) = <<>>
    BY <1>1, <1>4, OneLine DEF LeftAfter
  <2>2. todo'[w] = <<>>
    BY <1>p, <2>1, Zenon DEF GotDecrement, PageTypes
  <2>3. pc[w] # "ok" => warehouse'[w] = <<>> /\ pickups'[w] = <<>>
    BY <1>p, <1>4, Zenon DEF GotDecrement, PageTypes, Reserves
  <2> QED
    BY <2>2, <2>3
<1>6. \A t \in Calls("checkout") \ {w} : SameCall(t)
  BY <1>p DEF GotDecrement, PageTypes, SameCall
<1>7. CallIsFresh(w)'
  <2>1. pc'[w] # "decrement"
    BY <1>2
  <2> QED
    BY <1>1, <1>2, <1>5, <2>1, Zenon DEF CallIsFresh, CheckoutIsFresh
<1>8. showBillingModal' = showBillingModal
  BY DEF GotDecrement
<1>9. UnitsFit'
  <2>1. HasUnits(w)' => HasUnits(w)
    <3>1. pc'[w] \notin {"pend", "ok"}
      BY <1>2
    <3> QED
      BY <1>5, <3>1 DEF HasUnits
  <2>2. \A x \in Calls("checkout") : HasUnits(x)' => HasUnits(x)
    BY <1>1, <1>2, <1>6, <2>1, OthersHands
  <2>3. \A v \in User : w \notin ModalCalls(v)
    BY DEF ModalCalls
  <2>4. \A v \in User : ModalHasUnits(v)' => ModalHasUnits(v)
    BY <1>1, <1>2, <1>8, <2>3, OthersModals
  <2>5. UnitsFit
    BY DEF PromiseInv
  <2> QED
    BY <1>3, <2>2, <2>4, <2>5, UnitsStay
<1>10. pc'[w] \in Label => pc[w] \in Label
  BY <1>2 DEF Label
<1>11. \A t \in Worker \ {w} :
         t[1] # "checkout" /\ pc[t] # "idle" => showBillingModal'[t[2]]
  BY <1>8, ModalsFresh
<1> QED
  BY <1>1, <1>2, <1>3, <1>6, <1>7, <1>9, <1>10, <1>11, PagePromise, Zenon

\* The button: a call starts with nothing in hand.
LEMMA ClickCheckoutPromise ==
  ASSUME OneLineShop, StockInv, PageTypeOK, PromiseInv, NoRollbackData',
         NEW w \in Calls("checkout"), ClickCheckout(w)
  PROVE  PromiseInv' /\ SameTables
<1>1. w \in Worker /\ w[1] = "checkout" /\ w[2] \in User /\ CheckoutIsFresh(w)
  BY CallTypes DEF Calls, PromiseInv, CallIsFresh
<1>p. PageTypes
  BY PageParts
<1>2. /\ pc' = pc /\ task' = task /\ SameTables /\ showBillingModal' = showBillingModal
      /\ OnlyMoves(w) /\ OthersTasks(w)
  BY DEF ClickCheckout, server, vars, SameTables, OnlyMoves, OthersTasks
<1>3. pc[w] = "idle"
  BY PageParts, Zenon DEF ClickCheckout, CallOK
<1>4. todo'[w] = CartOf[w[2]] /\ warehouse'[w] = <<>> /\ pickups'[w] = <<>>
  <2>1. cart[w[2]] = CartOf[w[2]]
    BY <1>1, PageParts DEF ClickCheckout
  <2> QED
    BY <1>p, <2>1 DEF ClickCheckout, PageTypes
<1>5. \A t \in Calls("checkout") \ {w} : SameCall(t)
  BY <1>p DEF ClickCheckout, PageTypes, SameCall
<1>6. pc'[w] \notin {"decrement", "pend", "ok"} /\ pc'[w] = "idle"
  BY <1>2, <1>3
<1>7. CallIsFresh(w)'
  BY <1>1, <1>4, <1>6, Zenon DEF CallIsFresh, CheckoutIsFresh
<1>8. UnitsFit'
  <2>1. ~HasUnits(w)'
    BY <1>4, <1>6 DEF HasUnits
  <2>2. \A x \in Calls("checkout") : HasUnits(x)' => HasUnits(x)
    BY <1>1, <1>2, <1>5, <2>1, OthersHands
  <2>3. \A v \in User : w \notin ModalCalls(v)
    BY DEF ModalCalls
  <2>4. \A v \in User : ModalHasUnits(v)' => ModalHasUnits(v)
    BY <1>1, <1>2, <2>3, OthersModals
  <2>5. UnitsFit
    BY DEF PromiseInv
  <2> QED
    BY <1>2, <2>2, <2>4, <2>5, UnitsStay
<1>9. \A t \in Worker \ {w} :
        t[1] # "checkout" /\ pc[t] # "idle" => showBillingModal'[t[2]]
  BY <1>2, ModalsFresh
<1> QED
  BY <1>1, <1>2, <1>5, <1>7, <1>8, <1>9, PagePromise, Zenon

\* The end of the loop: the units a call has go to the modal.
LEMMA EndPromise ==
  ASSUME OneLineShop, StockInv, PageTypeOK, PromiseInv, NoRollbackData',
         NEW w \in Calls("checkout"), EndCheckout(w)
  PROVE  PromiseInv' /\ SameTables
<1> DEFINE u == w[2]
           reserved == warehouse[w] # <<>> \/ pickups[w] # <<>>
<1>1. w \in Worker /\ w[1] = "checkout" /\ u \in User /\ CheckoutIsFresh(w)
  BY CallTypes DEF Calls, PromiseInv, CallIsFresh
<1>p. PageTypes
  BY PageParts
<1>2. /\ pc' = pc /\ task' = task /\ SameTables /\ OnlyMoves(w) /\ OthersTasks(w)
      /\ UNCHANGED <<todo, warehouse, pickups>>
  BY DEF EndCheckout, server, vars, SameTables, OnlyMoves, OthersTasks
<1>3. pc[w] = "idle" /\ pc[w] \notin {"decrement", "pend", "ok"} /\ running[w] /\ todo[w] = <<>>
  BY DEF EndCheckout
<1>4. /\ running'[w] = FALSE
      /\ showBillingModal'[u] = (showBillingModal[u] \/ reserved)
      /\ \A v \in User \ {u} : showBillingModal'[v] = showBillingModal[v]
  BY <1>p, <1>1, Zenon DEF EndCheckout, PageTypes
<1>5. \A t \in Calls("checkout") \ {w} : SameCall(t)
  BY <1>p, <1>2, Zenon DEF EndCheckout, PageTypes, SameCall
<1>6. CallIsFresh(w)'
  BY <1>1, <1>2, <1>3, Zenon DEF CallIsFresh, CheckoutIsFresh
<1>7. HasUnits(w) <=> reserved
  BY <1>3, Zenon DEF HasUnits
<1>8. ~HasUnits(w)'
  BY <1>2, <1>3, <1>4, Zenon DEF HasUnits
<1>9. \A x \in Calls("checkout") \ {w} : HasUnits(x)' => HasUnits(x)
  BY <1>1, <1>2, <1>5, OthersHands
<1>10. \A v \in User : w \notin ModalCalls(v)
  BY DEF ModalCalls
<1>11. \A v \in User \ {u} : ModalHasUnits(v)' => ModalHasUnits(v)
  BY <1>1, <1>2, <1>4, <1>10, OthersModals
<1>12. ~reserved => (ModalHasUnits(u)' => ModalHasUnits(u))
  BY <1>1, <1>2, <1>4, <1>10, OthersModals, Zenon
<1>13. UnitsFit'
  <2> SUFFICES ASSUME NEW s \in Row
               PROVE  stock'[s] + Sold(s)' + Billing(s)' + Reserving(s)' <= Supply(s)
    BY Zenon DEF UnitsFit, Supply, Row
  <2>1. Sold(s)' = Sold(s) /\ stock' = stock
    BY <1>2, Zenon DEF SameTables, Sold, Order
  <2>2. /\ {Reserving(s), Reserving(s)'} \subseteq Nat
        /\ reserved => Reserving(s)' + Share(u, s) <= Reserving(s)
        /\ ~reserved => Reserving(s)' <= Reserving(s)
    BY <1>7, <1>8, <1>9, ReservingMoves, Zenon
  <2>3. /\ {Billing(s), Billing(s)'} \subseteq Nat
        /\ Billing(s)' <= Billing(s) + Share(u, s)
        /\ ~reserved => Billing(s)' <= Billing(s)
    BY <1>1, <1>11, <1>12, BillingMoves, Zenon
  <2>4. stock[s] + Sold(s) + Billing(s) + Reserving(s) <= Supply(s)
    BY DEF PromiseInv, UnitsFit
  <2>5. stock[s] \in Int /\ Sold(s) \in Nat /\ Supply(s) \in Nat /\ Share(u, s) \in Nat
    BY <1>1, FitTypesOf, ShareType
  <2> HIDE DEF u, reserved
  <2> QED
    BY <2>1, <2>2, <2>3, <2>4, <2>5
<1>14. \A t \in Worker \ {w} :
         t[1] # "checkout" /\ pc[t] # "idle" => showBillingModal'[t[2]]
  BY <1>4, CallTypes, ModalsFresh, Zenon
<1> QED
  BY <1>1, <1>2, <1>5, <1>6, <1>13, <1>14, PagePromise, Zenon

\* The answers in the modal: it closes when its units are sold or put back.
LEMMA AnswerPromise ==
  ASSUME OneLineShop, StockInv, PageTypeOK, PromiseInv, NoRollbackData',
         NEW w \in Worker, w[1] # "checkout", GotSubmit(w) \/ GotClose(w)
  PROVE  PromiseInv' /\ SameTables
<1> DEFINE u == w[2]
<1>p. PageTypes /\ u \in User
  BY PageParts, CallTypes
<1>1. pc[w] \in Answer /\ pc'[w] = "idle" /\ OnlyMoves(w) /\ pc[w] # "idle"
  BY MovesTo, Zenon DEF GotSubmit, GotClose, Deliver, Answer
<1>2. SameTables /\ OthersTasks(w)
  BY DEF GotSubmit, GotClose, Deliver, SameTables, OthersTasks, inventoryTable, purchasesTable
<1>3. \A t \in Calls("checkout") : SameCall(t)
  BY DEF GotSubmit, GotClose, SameCall
<1>4. /\ showBillingModal'[u] => showBillingModal[u] /\ pc[w] # "ok"
      /\ \A v \in User \ {u} : showBillingModal'[v] = showBillingModal[v]
  BY <1>p, Zenon DEF GotSubmit, GotClose, PageTypes
<1>5. \A s \in ModalCalls(u) \ {w} : pc[s] = "idle"
  BY <1>1, ModalsFresh
<1>6. CallIsFresh(w)'
  <2>1. pc'[w] \notin {"pay", "claim", "insert", "restore"}
    BY <1>1
  <2> QED
    BY <1>1, <2>1, Zenon DEF CallIsFresh, ModalIsFresh
<1>7. UnitsFit'
  <2>1. \A x \in Calls("checkout") : HasUnits(x)' => HasUnits(x)
    BY <1>1, <1>3, OthersHands DEF Calls
  <2>2. ASSUME NEW v \in User PROVE ModalHasUnits(v)' => ModalHasUnits(v)
    <3>1. CASE v # u
      <4>1. w \notin ModalCalls(v)
        BY <3>1 DEF ModalCalls, CallsOf
      <4> QED
        BY <1>1, <1>4, <2>2, <3>1, <4>1, OthersModals
    <3>2. CASE v = u /\ showBillingModal'[u]
      BY <1>1, <1>4, <2>2, <3>2, OthersModals
    <3>3. CASE v = u /\ ~showBillingModal'[u]
      BY <3>3, Zenon DEF ModalHasUnits
    <3> QED
      BY <3>1, <3>2, <3>3, Zenon
  <2>3. UnitsFit
    BY DEF PromiseInv
  <2> QED
    BY <1>2, <2>1, <2>2, <2>3, UnitsStay
<1>8. ASSUME NEW t \in Worker \ {w}, t[1] # "checkout", pc[t] # "idle"
      PROVE  showBillingModal'[t[2]]
  <2>1. t[2] \in User /\ showBillingModal[t[2]]
    BY <1>8, CallTypes, ModalsFresh
  <2>2. t[2] # u
    BY <1>5, <1>8 DEF ModalCalls, CallsOf, Calls
  <2> QED
    BY <1>4, <2>1, <2>2
<1>9. pc'[w] \in Label => pc[w] \in Label
  BY <1>1 DEF Label
<1> QED
  BY <1>1, <1>2, <1>3, <1>6, <1>7, <1>8, <1>9, PagePromise, Zenon

\* A step that moves no worker and starts no call: a customer leaves or fills
\* the cart again, a key expires, nothing happens.
LEMMA IdlePromise ==
  ASSUME OneLineShop, StockInv, PromiseInv, NoRollbackData', pc' = pc, task' = task,
         SameTables,
         \A t \in Calls("checkout") :
           SameCall(t) \/ (pc[t] = "idle" /\ todo'[t] = <<>> /\ ~running'[t]),
         \A v \in User : showBillingModal'[v] => showBillingModal[v],
         \A t \in Worker : t[1] # "checkout" /\ pc[t] # "idle" => showBillingModal'[t[2]]
  PROVE  PromiseInv'
<1>1. stock' = stock /\ UNCHANGED <<rows, place>>
  BY DEF SameTables
<1>2. ASSUME NEW t \in Worker PROVE CallIsFresh(t)'
  <2>1. CASE t[1] = "checkout"
    <3>1. CheckoutIsFresh(t) /\ t \in Calls("checkout")
      BY <1>2, <2>1, CallTypes DEF PromiseInv, CallIsFresh
    <3>2. CASE SameCall(t)
      BY <1>1, <2>1, <3>1, <3>2, Zenon DEF CallIsFresh, CheckoutIsFresh, SameCall, Wanted, Answer
    <3>3. CASE pc[t] = "idle" /\ todo'[t] = <<>>
      <4>1. pc'[t] = "idle" /\ pc'[t] # "decrement"
        BY <3>3
      <4> QED
        BY <2>1, <3>3, <4>1, Zenon DEF CallIsFresh, CheckoutIsFresh
    <3> QED
      BY <3>1, <3>2, <3>3
  <2>2. CASE t[1] # "checkout"
    <3>1. ModalIsFresh(t)
      BY <1>2, <2>2 DEF PromiseInv, CallIsFresh
    <3>2. ModalCalls(t[2])' = ModalCalls(t[2])
      BY Zenon DEF ModalCalls, CallsOf, Calls
    <3> QED
      BY <1>1, <1>2, <2>2, <3>1, <3>2, Zenon DEF CallIsFresh, ModalIsFresh, Wanted, Answer
  <2> QED
    BY <2>1, <2>2
<1>3. UnitsFit'
  <2>1. ASSUME NEW s \in Calls("checkout"), HasUnits(s)' PROVE HasUnits(s)
    <3>1. SameCall(s)
      <4>1. "idle" \notin {"pend", "ok"}
        OBVIOUS
      <4> QED
        BY <2>1, <4>1, Zenon DEF HasUnits
    <3> QED
      BY <2>1, <3>1, Zenon DEF HasUnits, SameCall
  <2>2. ASSUME NEW v \in User PROVE ModalHasUnits(v)' => ModalHasUnits(v)
    BY <2>2, Zenon DEF ModalHasUnits, ModalCalls, CallsOf, Calls
  <2>3. UnitsFit
    BY DEF PromiseInv
  <2> QED
    BY <2>1, <2>2, <2>3, UnitsStay
<1>4. RowsAsOpened'
  BY <1>1, Zenon DEF PromiseInv, RowsAsOpened
<1>5. OneHandlerRuns'
  BY Zenon DEF PromiseInv, OneHandlerRuns, Label
<1> QED
  BY <1>2, <1>3, <1>4, <1>5, Zenon DEF PromiseInv

LEMMA LeavePromise ==
  ASSUME OneLineShop, StockInv, PageTypeOK, PromiseInv, NoRollbackData', NEW u \in User,
         Leave(u) \/ Refill(u)
  PROVE  PromiseInv' /\ SameTables
<1>p. PageTypes
  BY PageParts
<1>1. pc' = pc /\ task' = task /\ SameTables
  BY DEF Leave, Refill, server, vars, SameTables
<1>2. CASE Leave(u)
  <2>1. \A t \in CallsOf(u) : pc[t] = "idle"
    BY <1>2 DEF Leave
  <2>2. ASSUME NEW t \in Calls("checkout")
        PROVE  SameCall(t) \/ (pc[t] = "idle" /\ todo'[t] = <<>> /\ ~running'[t])
    <3>1. CASE t \in CallsOf(u)
      BY <1>2, <2>1, <2>2, <3>1, Zenon DEF Leave
    <3>2. CASE t \notin CallsOf(u)
      BY <1>p, <1>2, <2>2, <3>2, Zenon DEF Leave, SameCall, PageTypes
    <3> QED
      BY <3>1, <3>2
  <2>3. \A v \in User : showBillingModal'[v] = (showBillingModal[v] /\ v # u)
    BY <1>p, <1>2, Zenon DEF Leave, PageTypes
  <2>4. ASSUME NEW t \in Worker, t[1] # "checkout", pc[t] # "idle"
        PROVE  showBillingModal'[t[2]]
    <3>1. t[2] # u
      BY <2>1, <2>4 DEF CallsOf
    <3> QED
      BY <2>3, <2>4, <3>1, CallTypes, ModalsFresh, Zenon
  <2> QED
    BY <1>1, <2>2, <2>3, <2>4, IdlePromise, Zenon
<1>3. CASE Refill(u)
  <2>1. showBillingModal' = showBillingModal /\ \A t \in Calls("checkout") : SameCall(t)
    BY <1>3 DEF Refill, SameCall
  <2>2. \A t \in Worker : t[1] # "checkout" /\ pc[t] # "idle" => showBillingModal'[t[2]]
    BY <2>1, ModalsFresh
  <2> QED
    BY <1>1, <2>1, <2>2, IdlePromise, Zenon
<1> QED
  BY <1>2, <1>3

\* The listener finds no rollback data and touches no stock.
LEMMA ExpiryPromise ==
  ASSUME OneLineShop, StockInv, PageTypeOK, PromiseInv, NoRollbackData',
         Expiry \/ UNCHANGED allVars
  PROVE  PromiseInv' /\ SameTables
<1>1. UNCHANGED page /\ pc' = pc /\ task' = task
  BY Zenon DEF Expiry, PendingExpires, ListenerHandles, allVars, vars
<1>2. SameTables
  <2>1. NoRollbackData
    BY DEF PromiseInv
  <2>2. CASE UNCHANGED allVars
    BY <2>2 DEF allVars, vars, SameTables
  <2>3. ASSUME NEW r \in Row, NEW u \in User, PendingExpires(r, u) PROVE SameTables
    BY <2>3 DEF PendingExpires, inventoryTable, purchasesTable, SameTables
  <2>4. ASSUME NEW r \in Row, NEW u \in User, ListenerHandles(r, u) PROVE SameTables
    <3>1. redis[DataKey(r, u)] = 0
      BY <2>1, <2>4 DEF NoRollbackData
    <3>2. stock' = stock
      BY <2>4, <3>1 DEF ListenerHandles
    <3> QED
      BY <2>4, <3>2 DEF ListenerHandles, purchasesTable, SameTables
  <2> QED
    BY <2>2, <2>3, <2>4, Zenon DEF Expiry
<1>3. showBillingModal' = showBillingModal /\ \A t \in Calls("checkout") : SameCall(t)
  BY <1>1, SamePage
<1>4. \A t \in Worker : t[1] # "checkout" /\ pc[t] # "idle" => showBillingModal'[t[2]]
  BY <1>3, ModalsFresh
<1> QED
  BY <1>1, <1>2, <1>3, <1>4, IdlePromise, Zenon

LEMMA NoDataKept ==
  ASSUME StockInv, NoRollbackData, ServerStep
  PROVE  NoRollbackData'
<1>1. NoData
  BY Zenon DEF NoData, NoRollbackData
<1>2. ASSUME NEW w \in Worker, Work(w) \/ Crash(w) \/ AnswerLost(w) \/ Deliver(w)
      PROVE  NoData'
  BY <1>1, <1>2, NoDataWritten, Zenon DEF Next
<1>3. ASSUME Background \/ UNCHANGED vars PROVE NoData'
  BY <1>1, <1>3, NoDataWritten, Zenon DEF Next
<1>4. ASSUME NEW w \in Worker, PageRequest(w) PROVE NoData'
  <2>1. CASE redis' = redis
    BY <1>1, <2>1, Zenon DEF NoData, DataKey
  <2>2. ASSUME NEW u, NEW items, restore_reserved_inventory(w, u, items) PROVE NoData'
    <3>1. \A k \in Key : redis'[k] = 0 \/ redis'[k] = redis[k]
      BY <2>2 DEF restore_reserved_inventory
    <3> QED
      BY <1>1, <3>1, PendingIsNotData DEF NoData
  <2>3. redis' = redis \/ \E u, items : restore_reserved_inventory(w, u, items)
    BY <1>4, Zenon DEF PageRequest, decrement_quantity, DecrementReads, DecrementRefused,
       create_purchase, PurchaseRefused, Refuse, redisVars
  <2> QED
    BY <2>1, <2>2, <2>3, Zenon
<1>5. NoData'
  BY <1>2, <1>3, <1>4, Zenon DEF ServerStep
<1> QED
  BY <1>5, Zenon DEF NoData, NoRollbackData, DataKey

-----------------------------------------------------------------------------
(* Every step.                                                             *)

LEMMA NextPromise ==
  ASSUME OneLineShop, StockInv, PageTypeOK, PromiseInv, [CheckoutNext]_allVars
  PROVE  /\ PromiseInv'
         /\ \/ SameTables
            \/ \E t \in Worker : UNCHANGED page /\ (DecrementCommits(t) \/ InventoryCommits(t)
                                                    \/ InsertCommits(t))
<1> DEFINE Kept == PromiseInv' /\ SameTables
           Commits(t) == UNCHANGED page /\ (DecrementCommits(t) \/ InventoryCommits(t)
                                            \/ InsertCommits(t))
<1>1. NoRollbackData'
  BY StoreStep, NoDataKept, Zenon DEF PromiseInv
<1>2. ASSUME NEW t \in Worker, PageStep(t) PROVE Kept
  <2>1. CASE t[1] = "checkout" /\ (SendDecrement(t) \/ GotDecrement(t) \/ EndCheckout(t))
    BY <1>1, <1>2, <2>1, CallTypes, SendPromise, GotDecrementPromise, EndPromise, Zenon
  <2>2. CASE t[1] # "checkout" /\ (GotSubmit(t) \/ GotClose(t))
    BY <1>1, <1>2, <2>2, AnswerPromise, Zenon
  <2> QED
    BY <1>2, <2>1, <2>2 DEF PageStep
<1>3. ASSUME NEW t \in Worker, Click(t) PROVE Kept
  <2>1. CASE t[1] = "checkout" /\ ClickCheckout(t)
    BY <1>1, <1>3, <2>1, CallTypes, ClickCheckoutPromise, Zenon
  <2>2. CASE \/ t[1] = "submit" /\ Submit(t)
             \/ t[1] = "close" /\ Close(t)
    BY <1>1, <1>3, <2>2, ClickPromise, Zenon
  <2> QED
    BY <1>3, <2>1, <2>2, Zenon DEF Click
<1>4. ASSUME NEW t \in Worker, Serve(t) PROVE Kept \/ (PromiseInv' /\ Commits(t))
  <2>1. UNCHANGED page
    BY <1>4 DEF Serve
  <2>2. CASE SetPending(t) \/ PaymentFails(t)
    BY <1>1, <1>4, <2>1, <2>2, HandlerAnswers, Zenon
  <2>3. CASE PaymentSucceeds(t) \/ ClaimItem(t)
    BY <1>1, <1>4, <2>1, <2>3, PurchaseGoesOn, Zenon
  <2>4. CASE DecrementCommits(t) \/ InventoryCommits(t) \/ InsertCommits(t)
    BY <1>1, <1>4, <2>1, <2>4, TakePromise, PutBackPromise, SellPromise, Zenon
  <2> QED
    BY <1>4, <2>2, <2>3, <2>4, Zenon DEF Serve
<1>5. ASSUME Faults PROVE Kept
  <2>1. UNCHANGED page
    BY <1>5 DEF Faults
  <2>2. PICK t \in Worker : SetPendingFails(t) \/ RestoreFails(t) \/ ClaimFails(t) \/ Crash(t)
    BY <1>5, Zenon DEF Faults, OneLineShop
  <2> QED
    BY <1>1, <2>1, <2>2, HandlerAnswers, Zenon
<1>6. ASSUME Expiry \/ UNCHANGED allVars PROVE Kept
  BY <1>1, <1>6, ExpiryPromise, Zenon
<1>7. ASSUME NEW u \in User, Leave(u) \/ Refill(u) PROVE Kept
  BY <1>1, <1>7, LeavePromise, Zenon
<1> QED
  BY <1>2, <1>3, <1>4, <1>5, <1>6, <1>7, Zenon DEF CheckoutNext

\* At the start everything is on the shelf.
LEMMA InitPromise ==
  ASSUME OneLineShop, CheckoutInit
  PROVE  /\ PromiseInv
         /\ stock = [r \in Row |-> Supply(r)] /\ \A r \in Row : Sold(r) = 0
<1>1. ASSUME NEW f PROVE Units({}, f) = 0
  <2>1. {x \in {} \X Quantity : x[2] <= f[x[1]]} = {}
    OBVIOUS
  <2> QED
    BY <2>1, FS_EmptySet, Zenon DEF Units
<1>2. /\ orders = {} /\ \A t \in Worker : pc[t] = "idle"
      /\ \A u \in User : ~showBillingModal[u]
      /\ \A t \in Calls("checkout") : ~running[t] /\ todo[t] = <<>>
  BY DEF CheckoutInit, Init, OneLineShop
<1>3. \A t \in Calls("checkout") : ~HasUnits(t)
  BY <1>2 DEF HasUnits, Calls
<1>4. \A u \in User : ~ModalHasUnits(u)
  BY <1>2 DEF ModalHasUnits
<1>5. ASSUME NEW r \in Row PROVE Sold(r) = 0 /\ Billing(r) = 0 /\ Reserving(r) = 0
  <2>1. {o \in orders : purchase[o].inventory_id = r} = {}
    BY <1>2
  <2>2. {t \in Calls("checkout") : HasUnits(t) /\ Wanted(t[2]).inventory_id = r} = {}
    BY <1>3
  <2>3. {u \in User : ModalHasUnits(u) /\ Wanted(u).inventory_id = r} = {}
    BY <1>4
  <2> QED
    BY <1>1, <2>1, <2>2, <2>3, Zenon DEF Sold, Billing, Reserving
<1>6. stock = [r \in Row |-> Supply(r)]
  BY Zenon DEF CheckoutInit, Init, Supply
<1>7. UnitsFit
  <2>1. \A r \in Row : stock[r] = Supply(r) /\ Supply(r) \in Nat
    BY <1>6, FitTypesOf, InitPage
  <2> QED
    BY <1>5, <2>1 DEF UnitsFit
<1>8. RowsAsOpened
  <2>1. rows = 1..Len(Opening) /\ \A r \in 1..Len(Opening) : r \in Row /\ r <= Len(Opening)
    BY OpeningAssumption, BoundsAssumption DEF CheckoutInit, Init, Row
  <2> QED
    BY <2>1, Zenon DEF CheckoutInit, Init, RowsAsOpened
<1>9. NoRollbackData
  BY PendingIsNotData DEF CheckoutInit, Init, NoRollbackData
<1>10. OneHandlerRuns
  BY <1>2 DEF OneHandlerRuns, Label
<1>11. ASSUME NEW t \in Worker PROVE CallIsFresh(t)
  <2>1. pc[t] = "idle" /\ pc[t] \notin {"decrement", "pay", "claim", "insert", "restore"}
    BY <1>2, <1>11
  <2>2. t[1] = "checkout" => todo[t] = <<>>
    BY <1>2, <1>11, CallTypes
  <2> QED
    BY <2>1, <2>2, Zenon DEF CallIsFresh, CheckoutIsFresh, ModalIsFresh
<1> QED
  BY <1>5, <1>6, <1>7, <1>8, <1>9, <1>10, <1>11 DEF PromiseInv

\* Units are in one place: on the shelf, sold, or in the hands of the call of
\* handleCheckout or of the modal that has reserved them.
THEOREM PromiseInvHolds ==
  ASSUME OneLineShop
  PROVE  CheckoutSpec => []PromiseInv
<1>1. CheckoutInit => PromiseInv
  BY InitPromise
<1>2. PromiseInv /\ (StockInv /\ PageTypeOK) /\ [CheckoutNext]_allVars => PromiseInv'
  BY NextPromise
<1> QED
  BY <1>1, <1>2, CheckoutKeepsTypes, PTL DEF CheckoutSpec

\* A unit is sold only after it left the shelf, and is not put back once sold.
THEOREM SoldLeftTheShelfHolds ==
  ASSUME OneLineShop
  PROVE  CheckoutSpec => []SoldLeftTheShelf
<1>1. PromiseInv /\ (StockInv /\ PageTypeOK) => SoldLeftTheShelf
  <2> SUFFICES ASSUME PromiseInv, StockInv, NEW r \in rows
               PROVE  stock[r] + Sold(r) <= Supply(r)
    BY DEF SoldLeftTheShelf
  <2>1. r \in Row
    BY IdsInRange DEF StockInv
  <2>2. Billing(r) \in Nat /\ Reserving(r) \in Nat
    BY <2>1, HandsNat
  <2>3. stock[r] + Sold(r) + Billing(r) + Reserving(r) <= Supply(r)
    BY <2>1 DEF PromiseInv, UnitsFit
  <2> QED
    BY <2>1, <2>2, <2>3, FitTypesOf
<1> QED
  BY <1>1, PromiseInvHolds, CheckoutKeepsTypes, PTL

\* One step of the shop with its pages and handlers is a step of the abstract
\* shop, or none.
LEMMA PromiseStep ==
  ASSUME OneLineShop, StockInv, PageTypeOK, PromiseInv, [CheckoutNext]_allVars
  PROVE  [Promise!Next]_<<stock, [r \in Row |-> Sold(r)]>>
<1> DEFINE sold == [r \in Row |-> Sold(r)]
<1>1. PromiseInv' /\ NoRollbackData'
  BY NextPromise DEF PromiseInv
<1>2. CASE SameTables
  <2>1. UNCHANGED <<stock, sold>>
    BY <1>2, Zenon DEF SameTables, Sold, Row, Order
  <2> QED
    BY <2>1
<1>3. ASSUME NEW t \in Worker, UNCHANGED page, DecrementCommits(t) PROVE Promise!Next
  <2>1. PICK r \in Row, q \in Quantity : stock[r] > 0 /\ stock' = [stock EXCEPT ![r] = @ - q]
    BY <1>1, <1>3, TakePromise
  <2>2. sold' = sold
    <3>1. UNCHANGED <<orders, purchase>>
      BY <1>1, <1>3, TakePromise
    <3> QED
      BY <3>1, Zenon DEF Sold, Row, Order
  <2>3. Promise!Take(r, q)
    BY <2>1, <2>2, Zenon DEF Promise!Take
  <2> QED
    BY <2>1, <2>3 DEF Promise!Next, Quantity
<1>fits. ASSUME NEW r \in Row, stock'[r] \in Int, Sold(r)' \in Nat
         PROVE  stock'[r] + Sold(r)' <= Supply(r)
  <2>1. stock'[r] + Sold(r)' + Billing(r)' + Reserving(r)' <= Supply(r)
    <3>1. UnitsFit'
      BY <1>1 DEF PromiseInv
    <3> QED
      BY <3>1, <1>fits, Zenon DEF UnitsFit, Supply, Row
  <2>2. Billing(r)' \in Nat /\ Reserving(r)' \in Nat
    BY <1>fits, HandsNatNext
  <2>3. Supply(r) \in Nat
    BY <1>fits, FitTypesOf
  <2> QED
    BY <1>fits, <2>1, <2>2, <2>3
<1>t. stock' \in [Row -> Int]
  BY NextPage DEF StockInv, TypeOK
<1>4. ASSUME NEW t \in Worker, UNCHANGED page, InventoryCommits(t) PROVE Promise!Next
  <2>1. UNCHANGED <<orders, purchase>> /\ \A r \in Row : stock'[r] >= stock[r]
    BY <1>1, <1>4, PutBackPromise
  <2>2. \A r \in Row : Sold(r)' = Sold(r)
    BY <2>1, Zenon DEF Sold, Order
  <2>3. \A r \in Row : stock'[r] + Sold(r) <= Supply(r)
    BY <1>t, <1>fits, <2>2, FitTypesOf
  <2>4. sold' = sold
    BY <2>2, Zenon DEF Row
  <2>5. Promise!PutBack
    BY <2>1, <2>3, <2>4 DEF Promise!PutBack
  <2> QED
    BY <2>5 DEF Promise!Next
<1>5. ASSUME NEW t \in Worker, UNCHANGED page, InsertCommits(t) PROVE Promise!Next
  <2>1. stock' = stock /\ \A r \in Row : Sold(r)' >= Sold(r) /\ Sold(r)' \in Nat
    BY <1>1, <1>5, SellPromise
  <2>2. \A r \in Row : stock[r] + Sold(r)' <= Supply(r)
    BY <1>t, <1>fits, <2>1
  <2>3. \A r \in Row : sold'[r] = Sold(r)' /\ sold[r] = Sold(r)
    BY Zenon DEF Row
  <2>4. Promise!Sell
    BY <2>1, <2>2, <2>3 DEF Promise!Sell
  <2> QED
    BY <2>4 DEF Promise!Next
<1> QED
  BY <1>2, <1>3, <1>4, <1>5, NextPromise, Zenon

\* The shop with its pages, handlers, Redis and payments keeps the promise of
\* the abstract shop: units leave the shelf, come back and are sold, and no
\* unit is both on the shelf and sold.
THEOREM PromiseKept ==
  ASSUME OneLineShop
  PROVE  CheckoutSpec => KeepsPromise
<1>1. CheckoutInit => Promise!Init
  <2> SUFFICES ASSUME CheckoutInit PROVE Promise!Init
    OBVIOUS
  <2>1. stock = [r \in Row |-> Supply(r)] /\ \A r \in Row : Sold(r) = 0
    BY InitPromise
  <2> QED
    BY <2>1, Zenon DEF Promise!Init
<1>2. PromiseInv /\ (StockInv /\ PageTypeOK) /\ [CheckoutNext]_allVars
        => [Promise!Next]_<<stock, [r \in Row |-> Sold(r)]>>
  BY PromiseStep
<1> QED
  BY <1>1, <1>2, PromiseInvHolds, CheckoutKeepsTypes, PTL
  DEF CheckoutSpec, KeepsPromise, Promise!Spec
=============================================================================
