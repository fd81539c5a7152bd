---------------------------- MODULE StoreProofs ----------------------------
(***************************************************************************)
(* Proofs about Store, for every number of workers, users, rows, purchases *)
(* and units, and for every set of requests: stock has a floor, a purchase *)
(* refers to a row that exists, update_purchase commits what it read when  *)
(* there is one worker, and a payment is used once.                        *)
(***************************************************************************)
EXTENDS Store, TLAPS

tables == <<inventoryTable, purchasesTable>>

-----------------------------------------------------------------------------
\* The unit of work that has written nothing is a unit of work.
LEMMA NoTaskType == NoTask \in Task
<1>1. <<>> \in Seq(Item)
  OBVIOUS
<1>2. NoColumns \in Columns
  BY DEF NoColumns, Columns
<1> QED
  BY <1>1, <1>2 DEF NoTask, Task, Writes

\* Rows and purchases that exist have ids within the bounds.
LEMMA IdsInRange ==
  ASSUME TypeOK
  PROVE  rows \subseteq Row /\ orders \subseteq Order
  BY BoundsAssumption DEF TypeOK, Row, Order

\* UPDATEs keep a table's type, and a row's new value is its old one or one
\* of those written.
LEMMA UpdatedType ==
  ASSUME NEW T, NEW table \in [Row -> T], NEW upd \in Writes(T)
  PROVE  /\ Updated(table, upd) \in [Row -> T]
         /\ \A r \in Row : \/ Updated(table, upd)[r] = table[r]
                           \/ \E x \in upd : Updated(table, upd)[r] = x[2]
<1> SUFFICES ASSUME NEW r \in Row
             PROVE  /\ Updated(table, upd)[r] \in T
                    /\ \/ Updated(table, upd)[r] = table[r]
                       \/ \E x \in upd : Updated(table, upd)[r] = x[2]
  BY DEF Updated
<1>1. CASE \E x \in upd : x[1] = r
  <2> DEFINE c == CHOOSE x \in upd : x[1] = r
  <2>1. c \in upd
    BY <1>1
  <2>2. c[2] \in T
    BY <2>1 DEF Writes
  <2>3. Updated(table, upd)[r] = c[2]
    BY <1>1 DEF Updated
  <2> QED
    BY <2>1, <2>2, <2>3, Zenon
<1>2. CASE ~ \E x \in upd : x[1] = r
  BY <1>2 DEF Updated
<1> QED
  BY <1>1, <1>2

\* A worker that takes up a request and has written nothing yet.
LEMMA StartKeeps ==
  ASSUME StockInv,
         NEW w \in Worker, NEW l \in Label, NEW t \in Task,
         Start(w, l, t), HoldsInputs(l, t), t.charge = 0,
         \A x \in t.upd : x[2] >= 1 - MaxQty,
         UNCHANGED <<tables, expired, charges>>,
         redis' \in [Key -> 0..MaxQty]
  PROVE  StockInv'
<1> USE DEF tables, inventoryTable, purchasesTable
<1>1. TypeOK'
  BY DEF StockInv, TypeOK, Start
<1>2. HandlersHoldTheirInputs'
  BY DEF StockInv, TypeOK, HandlersHoldTheirInputs, Start
<1>3. StockFloor' /\ WritesAboveFloor'
  BY DEF StockInv, TypeOK, StockFloor, WritesAboveFloor, Start
<1> QED
  BY <1>1, <1>2, <1>3 DEF StockInv

\* A worker that answers, having written nothing or deleted something.
LEMMA FinishKeeps ==
  ASSUME StockInv, NEW w \in Worker, NEW a \in Answer, Finish(w, a),
         rows' \subseteq rows, orders' \subseteq orders,
         UNCHANGED <<nextRow, place, stock, nextOrder, purchase>>,
         UNCHANGED <<expired, charges>>,
         redis' \in [Key -> 0..MaxQty]
  PROVE  StockInv'
<1>1. a \notin Label /\ HoldsInputs(a, NoTask)
  BY DEF Answer, Label, HoldsInputs
<1>2. TypeOK'
  BY NoTaskType DEF StockInv, TypeOK, Finish
<1>3. HandlersHoldTheirInputs'
  BY <1>1, NoTaskType DEF StockInv, TypeOK, HandlersHoldTheirInputs, Finish, NoTask
<1>4. StockFloor' /\ WritesAboveFloor'
  BY DEF StockInv, TypeOK, StockFloor, WritesAboveFloor, Finish, NoTask
<1> QED
  BY <1>2, <1>3, <1>4 DEF StockInv

\* A worker that is idle, or answers, with its unit of work left alone.
LEMMA QuietKeeps ==
  ASSUME StockInv, NEW w \in Worker, NEW a \in Answer \cup {"idle"},
         pc' = [pc EXCEPT ![w] = a],
         UNCHANGED <<tables, redisVars, charges, task>>
  PROVE  StockInv'
<1> USE DEF tables, inventoryTable, purchasesTable, redisVars
<1>1. \A t : HoldsInputs(a, t)
  BY DEF Answer, HoldsInputs
<1>2. TypeOK'
  BY DEF StockInv, TypeOK
<1>3. HandlersHoldTheirInputs'
  BY <1>1 DEF StockInv, TypeOK, HandlersHoldTheirInputs
<1>4. StockFloor' /\ WritesAboveFloor'
  BY DEF StockInv, StockFloor, WritesAboveFloor
<1> QED
  BY <1>2, <1>3, <1>4 DEF StockInv

\* A worker that commits its UPDATEs, of types and above the floor, and then
\* either answers or goes on to write the pending key.
LEMMA CommitKeeps ==
  ASSUME StockInv, NEW w \in Worker,
         stock' = Updated(stock, task[w].upd),
         place' \in [Row -> Place], purchase' \in [Order -> Purchase],
         UNCHANGED <<rows, nextRow, orders, nextOrder, redisVars, charges>>,
         \/ \E a \in Answer : Finish(w, a)
         \/ /\ pc[w] = "decrement"
            /\ pc' = [pc EXCEPT ![w] = "pend"]
            /\ task' = [task EXCEPT ![w].upd = {}]
  PROVE  StockInv'
<1> USE DEF redisVars
<1>1. /\ stock' \in [Row -> Int]
      /\ \A r \in Row : stock'[r] >= 1 - MaxQty
  <2>1. task[w].upd \in Writes(Int) /\ stock \in [Row -> Int]
    BY DEF StockInv, TypeOK, Task
  <2>2. /\ stock' \in [Row -> Int]
        /\ \A r \in Row : \/ stock'[r] = stock[r]
                          \/ \E x \in task[w].upd : stock'[r] = x[2]
    <3> DEFINE new == Updated(stock, task[w].upd)
    <3>1. /\ new \in [Row -> Int]
          /\ \A r \in Row : \/ new[r] = stock[r]
                            \/ \E x \in task[w].upd : new[r] = x[2]
      BY <2>1, UpdatedType
    <3> QED
      BY <3>1
  <2>3. \A x \in task[w].upd : x[2] >= 1 - MaxQty
    BY DEF StockInv, WritesAboveFloor
  <2>4. \A r \in Row : stock[r] >= 1 - MaxQty
    BY DEF StockInv, StockFloor
  <2> QED
    BY <2>2, <2>3, <2>4
<1>2. /\ pc' \in [Worker -> {"idle"} \cup Label \cup Answer]
      /\ task' \in [Worker -> Task]
      /\ \A v \in Worker : task'[v].upd \subseteq task[v].upd
      /\ \A v \in Worker : task'[v].charge <= Len(charges)
      /\ \A v \in Worker : HoldsInputs(pc'[v], task'[v])
  <2>1. CASE \E a \in Answer : Finish(w, a)
    <3>1. PICK a \in Answer : Finish(w, a)
      BY <2>1
    <3>2. HoldsInputs(a, NoTask)
      BY DEF Answer, HoldsInputs
    <3>3. NoTask.upd = {} /\ NoTask.charge = 0
      BY DEF NoTask
    <3> QED
      BY <3>1, <3>2, <3>3, NoTaskType
      DEF StockInv, TypeOK, HandlersHoldTheirInputs, Finish
  <2>2. CASE /\ pc[w] = "decrement"
             /\ pc' = [pc EXCEPT ![w] = "pend"]
             /\ task' = [task EXCEPT ![w].upd = {}]
    <3>1. task[w] \in Task /\ HoldsInputs("decrement", task[w])
      BY <2>2 DEF StockInv, TypeOK, HandlersHoldTheirInputs
    <3>2. [task[w] EXCEPT !.upd = {}] \in Task
      BY <3>1, Zenon DEF Task, Writes
    <3>3. HoldsInputs("pend", [task[w] EXCEPT !.upd = {}])
      BY <3>1 DEF Task, HoldsInputs
    <3>4. task' = [task EXCEPT ![w] = [task[w] EXCEPT !.upd = {}]]
      BY <2>2
    <3>5. /\ [task[w] EXCEPT !.upd = {}].upd = {}
          /\ [task[w] EXCEPT !.upd = {}].charge = task[w].charge
      BY <3>1 DEF Task
    <3> QED
      BY <2>2, <3>1, <3>2, <3>3, <3>4, <3>5, Zenon
      DEF StockInv, TypeOK, HandlersHoldTheirInputs, Label
  <2> QED
    BY <2>1, <2>2
<1>3. TypeOK'
  BY <1>1, <1>2 DEF StockInv, TypeOK
<1>4. HandlersHoldTheirInputs'
  BY <1>2 DEF StockInv, HandlersHoldTheirInputs
<1>5. StockFloor' /\ WritesAboveFloor'
  BY <1>1, <1>2 DEF StockInv, StockFloor, WritesAboveFloor
<1> QED
  BY <1>3, <1>4, <1>5 DEF StockInv


-----------------------------------------------------------------------------
\* The handlers of inventory_routes.py, where they read.

\* decrement_quantity holds one row, one item, and a quantity that it computed
\* from a positive one.
LEMMA DecrementReadsKeeps ==
  ASSUME StockInv, NEW w \in Worker, NEW u \in User, NEW r \in Row,
         NEW q \in Quantity, DecrementReads(w, u, r, q)
  PROVE  StockInv'
<1> DEFINE item == [inventory_id |-> r, quantity |-> q]
           t == [NoTask EXCEPT !.user = u, !.row = r, !.items = <<item>>,
                               !.upd = {<<r, stock[r] - q>>}]
<1>1. stock[r] \in Int /\ stock[r] > 0 /\ q \in Int /\ q <= MaxQty
  BY BoundsAssumption DEF StockInv, TypeOK, DecrementReads, Available, Quantity
<1>2. <<item>> \in Seq(Item) /\ Len(<<item>>) = 1
  BY DEF Item
<1>3. t \in Task
  <2>1. {<<r, stock[r] - q>>} \in Writes(Int)
    BY <1>1 DEF Writes
  <2> QED
    BY <2>1, <1>2, NoTaskType, Zenon DEF Task
<1>4. HoldsInputs("decrement", t) /\ t.charge = 0
  BY <1>2 DEF HoldsInputs, NoTask
<1>5. t.upd = {<<r, stock[r] - q>>}
  BY DEF NoTask
<1>6. \A x \in t.upd : x[2] >= 1 - MaxQty
  BY <1>1, <1>5, BoundsAssumption
<1>7. /\ Start(w, "decrement", t) /\ "decrement" \in Label
      /\ UNCHANGED <<tables, expired, charges>> /\ redis' = redis
  BY DEF DecrementReads, Deducted, Label, tables, redisVars
<1> QED
  BY <1>3, <1>4, <1>6, <1>7, StartKeeps, Zenon DEF StockInv, TypeOK

\* increment_quantity is going to write more than the row has.
LEMMA IncrementKeeps ==
  ASSUME StockInv, NEW w \in Worker, NEW kit, NEW loc, NEW q \in Quantity,
         increment_quantity(w, kit, loc, q)
  PROVE  StockInv'
<1>1. PICK r \in RowsAt(kit, loc) :
        /\ Start(w, "increment", [NoTask EXCEPT !.upd = {<<r, stock[r] + q>>}])
        /\ UNCHANGED <<inventoryTable, purchasesTable, redisVars, charges>>
  BY Zenon DEF increment_quantity
<1> DEFINE t == [NoTask EXCEPT !.upd = {<<r, stock[r] + q>>}]
<1>2. r \in Row
  BY IdsInRange DEF RowsAt, StockInv
<1>3. stock[r] \in Int /\ stock[r] >= 1 - MaxQty /\ q \in Nat
  BY <1>2, BoundsAssumption DEF StockInv, TypeOK, StockFloor, Quantity
<1>4. t \in Task
  <2>1. {<<r, stock[r] + q>>} \in Writes(Int)
    BY <1>2, <1>3 DEF Writes
  <2> QED
    BY <2>1, NoTaskType, Zenon DEF Task
<1>5. HoldsInputs("increment", t) /\ t.charge = 0
  BY DEF HoldsInputs, NoTask
<1>6. t.upd = {<<r, stock[r] + q>>}
  BY DEF NoTask
<1>7. \A x \in t.upd : x[2] >= 1 - MaxQty
  BY <1>3, <1>6, BoundsAssumption
<1>8. "increment" \in Label /\ UNCHANGED <<tables, expired, charges>>
      /\ redis' = redis
  BY <1>1 DEF Label, tables, redisVars
<1> QED
  BY <1>1, <1>4, <1>5, <1>7, <1>8, StartKeeps, Zenon DEF StockInv, TypeOK

\* restore_reserved_inventory is going to write, for each row, more than it has.
LEMMA RestoreKeeps ==
  ASSUME StockInv, NEW w \in Worker, NEW u \in User, NEW items \in Seq(Item),
         restore_reserved_inventory(w, u, items)
  PROVE  StockInv'
<1> DEFINE back == {<<r, stock[r] + RestoredQuantity(items, r)>> :
                      r \in RestoredRows(items)}
           t == [NoTask EXCEPT !.user = u, !.upd = back]
<1>1. \A r \in RestoredRows(items) :
        r \in Row /\ RestoredQuantity(items, r) \in Nat
  <2> SUFFICES ASSUME NEW r \in RestoredRows(items)
               PROVE  r \in Row /\ RestoredQuantity(items, r) \in Nat
    OBVIOUS
  <2>1. \E k \in 1..Len(items) : items[k].inventory_id = r
    BY DEF RestoredRows
  <2> DEFINE c == CHOOSE k \in 1..Len(items) : items[k].inventory_id = r
  <2>2. c \in 1..Len(items)
    BY <2>1
  <2>3. items[c] \in Item
    BY <2>2
  <2>4. items[c].quantity \in Nat
    BY <2>3, BoundsAssumption DEF Item, Quantity
  <2>5. RestoredQuantity(items, r) = items[c].quantity
    BY DEF RestoredQuantity
  <2>6. r \in Row
    BY IdsInRange DEF RestoredRows, StockInv
  <2> QED
    BY <2>4, <2>5, <2>6
<1>2. \A x \in back : x \in Row \X Int /\ x[2] >= 1 - MaxQty
  <2> SUFFICES ASSUME NEW r \in RestoredRows(items)
               PROVE  /\ <<r, stock[r] + RestoredQuantity(items, r)>> \in Row \X Int
                      /\ stock[r] + RestoredQuantity(items, r) >= 1 - MaxQty
    OBVIOUS
  <2>1. r \in Row /\ RestoredQuantity(items, r) \in Nat
    BY <1>1
  <2>2. stock[r] \in Int /\ stock[r] >= 1 - MaxQty
    BY <2>1 DEF StockInv, TypeOK, StockFloor
  <2> QED
    BY <2>1, <2>2, BoundsAssumption
<1>3. t \in Task
  BY <1>2, NoTaskType, Zenon DEF Task, Writes
<1>4. HoldsInputs("restore", t) /\ t.charge = 0 /\ t.upd = back
  BY DEF HoldsInputs, NoTask
<1>5. \A x \in t.upd : x[2] >= 1 - MaxQty
  BY <1>2, <1>4
<1>6. Start(w, "restore", t) /\ "restore" \in Label
      /\ UNCHANGED <<tables, expired, charges>>
  BY DEF restore_reserved_inventory, Label, tables
<1>7. redis' \in [Key -> 0..MaxQty]
  BY BoundsAssumption DEF restore_reserved_inventory, StockInv, TypeOK
<1> QED
  BY <1>3, <1>4, <1>5, <1>6, <1>7, StartKeeps, Zenon

\* edit_inventory is going to write a quantity that is not negative.
LEMMA EditKeeps ==
  ASSUME StockInv, NEW w \in Worker, NEW kit, NEW loc, NEW p \in Place,
         NEW q \in 0..MaxStock, edit_inventory(w, kit, loc, p, q)
  PROVE  StockInv'
<1> DEFINE upd(r) == IF q = stock[r] THEN {} ELSE {<<r, q>>}
           move(r) == IF p = place[r] THEN {} ELSE {<<r, p>>}
           t(r) == [NoTask EXCEPT !.row = r, !.upd = upd(r), !.move = move(r)]
<1>1. PICK r \in RowsAt(kit, loc) :
        /\ Start(w, "edit", t(r))
        /\ UNCHANGED <<inventoryTable, purchasesTable, redisVars, charges>>
  BY Zenon DEF edit_inventory
<1>2. r \in Row
  BY IdsInRange DEF RowsAt, StockInv
<1>3. upd(r) \in Writes(Int) /\ move(r) \in Writes(Place)
  BY <1>2, BoundsAssumption DEF Writes
<1>4. t(r) \in Task
  <2> HIDE DEF upd, move
  <2> QED
    BY <1>2, <1>3, NoTaskType, Zenon DEF Task
<1>5. HoldsInputs("edit", t(r)) /\ t(r).charge = 0 /\ t(r).upd = upd(r)
  BY DEF HoldsInputs, NoTask
<1>6. \A x \in upd(r) : x[2] >= 1 - MaxQty
  BY BoundsAssumption
<1>7. "edit" \in Label /\ UNCHANGED <<tables, expired, charges>>
      /\ redis' = redis
  BY <1>1 DEF Label, tables, redisVars
<1> QED
  <2> HIDE DEF t, upd
  <2> QED
    BY <1>1, <1>4, <1>5, <1>6, <1>7, StartKeeps, Zenon DEF StockInv, TypeOK

\* delete_inventory reads the purchases to cascade to, and writes no quantity.
LEMMA DropKeeps ==
  ASSUME StockInv, NEW w \in Worker, NEW kit, NEW loc,
         delete_inventory(w, kit, loc)
  PROVE  StockInv'
<1> DEFINE seen(r) == {o \in orders : purchase[o].inventory_id = r}
           t(r) == [NoTask EXCEPT !.row = r, !.seen = seen(r)]
<1>1. PICK r \in RowsAt(kit, loc) :
        /\ Start(w, "drop", t(r))
        /\ UNCHANGED <<inventoryTable, purchasesTable, redisVars, charges>>
  BY Zenon DEF delete_inventory
<1>2. r \in Row /\ seen(r) \subseteq Order
  BY IdsInRange DEF RowsAt, StockInv
<1>3. t(r) \in Task
  <2> HIDE DEF seen
  <2> QED
    BY <1>2, NoTaskType, Zenon DEF Task
<1>4. HoldsInputs("drop", t(r)) /\ t(r).charge = 0 /\ t(r).upd = {}
  BY DEF HoldsInputs, NoTask
<1>5. "drop" \in Label /\ UNCHANGED <<tables, expired, charges>>
      /\ redis' = redis
  BY <1>1 DEF Label, tables, redisVars
<1> QED
  <2> HIDE DEF t
  <2> QED
    BY <1>1, <1>3, <1>4, <1>5, StartKeeps, Zenon DEF StockInv, TypeOK

\* create_inventory adds the next row, with a quantity that is not negative.
LEMMA CreateKeeps ==
  ASSUME StockInv, NEW w \in Worker, NEW kit \in Kit, NEW loc \in Location,
         NEW q \in 0..MaxStock, create_inventory(w, kit, loc, q)
  PROVE  StockInv'
<1> USE DEF create_inventory
<1>1. nextRow \in Row /\ q \in Int /\ q >= 1 - MaxQty
  BY BoundsAssumption DEF StockInv, TypeOK, Row
<1>2. [kit |-> kit, loc |-> loc] \in Place
  BY DEF Place
<1>3. stock' \in [Row -> Int] /\ place' \in [Row -> Place]
  BY <1>1, <1>2 DEF StockInv, TypeOK
<1>4. /\ nextRow' \in 1..(MaxRow + 1)
      /\ rows' \subseteq 1..(nextRow' - 1)
  BY BoundsAssumption DEF StockInv, TypeOK
<1>5. pc' \in [Worker -> {"idle"} \cup Label \cup Answer]
  BY DEF StockInv, TypeOK, Answer
<1>6. TypeOK'
  BY <1>3, <1>4, <1>5 DEF StockInv, TypeOK, purchasesTable, redisVars
<1>7. HandlersHoldTheirInputs'
  BY DEF StockInv, TypeOK, HandlersHoldTheirInputs, HoldsInputs
<1>8. StockFloor' /\ WritesAboveFloor'
  BY <1>1, SMTT(30) DEF StockInv, TypeOK, StockFloor, WritesAboveFloor
<1> QED
  BY <1>6, <1>7, <1>8 DEF StockInv

-----------------------------------------------------------------------------
\* The handlers of purchase_routes.py, where they read.

\* create_purchase holds its user and a cart that is not empty.
LEMMA CreatePurchaseKeeps ==
  ASSUME StockInv, NEW w \in Worker, NEW u \in User, NEW items \in Seq(Item),
         create_purchase(w, u, items)
  PROVE  StockInv'
<1> DEFINE t == [NoTask EXCEPT !.user = u, !.items = items, !.left = items]
           l == IF u \in Admin THEN "claim" ELSE "pay"
<1>1. t \in Task
  BY NoTaskType, Zenon DEF Task
<1>2. l \in Label
  BY DEF Label
<1>3. t.user = u /\ t.items = items /\ t.left = items /\ t.charge = 0 /\ t.upd = {}
  BY DEF NoTask
<1>4. items # <<>> /\ Start(w, l, t) /\ UNCHANGED <<tables, expired, charges>>
      /\ redis' = redis
  BY DEF create_purchase, tables, redisVars
<1>5. HoldsInputs(l, t)
  BY <1>3, <1>4 DEF HoldsInputs
<1> QED
  <2> HIDE DEF t, l
  <2> QED
    BY <1>1, <1>2, <1>3, <1>4, <1>5, StartKeeps, Zenon DEF StockInv, TypeOK

\* setattr with a body of the right types leaves a purchase.
LEMMA PatchedType ==
  ASSUME NEW p \in Purchase, NEW body \in Columns
  PROVE  Patched(p, body) \in Purchase
<1>1. /\ body.status = "" \/ body.status \in Status
      /\ body.quantity = 0 \/ body.quantity \in Quantity
      /\ body.inventory_id = 0 \/ body.inventory_id \in Row
  BY Zenon DEF Columns
<1> QED
  BY <1>1, Zenon DEF Patched, Purchase

\* The columns that setattr changed are among those of a purchase.
LEMMA ChangedType ==
  ASSUME NEW p \in Purchase, NEW body \in Columns
  PROVE  Changed(p, body) \in Columns
  BY Zenon DEF Changed, Columns, Purchase

\* The stock update_purchase is going to write is covered by what it checked.
LEMMA UpdateKeeps ==
  ASSUME StockInv, NEW w \in Worker, NEW o \in Order, NEW body \in Columns,
         update_purchase(w, o, body)
  PROVE  StockInv'
<1> DEFINE old == purchase[o]
           new == Patched(old, body)
           inv == new.inventory_id
           put == Changed(old, body)
           upd == CASE Returning(old, body) ->
                         {<<inv, stock[inv] + new.quantity>>}
                    [] Reverting(old, body) ->
                         {<<inv, stock[inv] - new.quantity>>}
                    [] OTHER -> {}
           t == [NoTask EXCEPT !.order = o, !.put = put, !.upd = upd]
<1>1. old \in Purchase
  BY DEF StockInv, TypeOK
<1>2. new \in Purchase /\ put \in Columns
  BY <1>1, PatchedType, ChangedType
<1>3. inv \in Row /\ new.quantity \in Nat
  BY <1>2, BoundsAssumption DEF Purchase, Quantity
<1>4. stock[inv] \in Int /\ stock[inv] >= 1 - MaxQty
  BY <1>3 DEF StockInv, TypeOK, StockFloor
<1>5. Reverting(old, body) => stock[inv] >= new.quantity
  BY DEF update_purchase
<1>6. upd \in Writes(Int) /\ \A x \in upd : x[2] >= 1 - MaxQty
  <2> HIDE DEF new, inv
  <2>1. CASE Returning(old, body)
    <3>1. upd = {<<inv, stock[inv] + new.quantity>>}
      BY <2>1 DEF Returning, Reverting
    <3> HIDE DEF upd
    <3> QED
      BY <3>1, <1>3, <1>4, BoundsAssumption DEF Writes
  <2>2. CASE Reverting(old, body)
    <3>1. upd = {<<inv, stock[inv] - new.quantity>>}
      BY <2>2 DEF Returning, Reverting
    <3> HIDE DEF upd
    <3> QED
      BY <2>2, <3>1, <1>3, <1>4, <1>5, BoundsAssumption DEF Writes
  <2>3. CASE ~Returning(old, body) /\ ~Reverting(old, body)
    <3>1. upd = {}
      BY <2>3
    <3> HIDE DEF upd
    <3> QED
      BY <3>1 DEF Writes
  <2> QED
    BY <2>1, <2>2, <2>3
<1>7. /\ Start(w, "update", t) /\ "update" \in Label
      /\ UNCHANGED <<tables, expired, charges>> /\ redis' = redis
  BY DEF update_purchase, Label, tables, redisVars
<1> HIDE DEF upd, put
<1>8. t \in Task
  BY <1>2, <1>6, NoTaskType, Zenon DEF Task
<1>9. HoldsInputs("update", t) /\ t.charge = 0 /\ t.upd = upd
  BY DEF HoldsInputs, NoTask
<1> QED
  <2> HIDE DEF t
  <2> QED
    BY <1>6, <1>7, <1>8, <1>9, StartKeeps DEF StockInv, TypeOK

\* delete_purchase is going to write nothing but its DELETE.
LEMMA DeletePurchaseKeeps ==
  ASSUME StockInv, NEW w \in Worker, NEW u, NEW o \in Order,
         delete_purchase(w, u, o)
  PROVE  StockInv'
<1> DEFINE t == [NoTask EXCEPT !.order = o]
<1>1. t \in Task
  BY NoTaskType DEF Task
<1>2. HoldsInputs("cancel", t) /\ t.charge = 0 /\ t.upd = {}
  BY DEF HoldsInputs, NoTask
<1>3. /\ Start(w, "cancel", t) /\ "cancel" \in Label
      /\ UNCHANGED <<tables, expired, charges>> /\ redis' = redis
  BY DEF delete_purchase, Label, tables, redisVars
<1> QED
  <2> HIDE DEF t
  <2> QED
    BY <1>1, <1>2, <1>3, StartKeeps, Zenon DEF StockInv, TypeOK

\* Whatever the request, taking it up preserves the invariant.
LEMMA RequestKeeps ==
  ASSUME StockInv, NEW w \in Worker, Request(w)
  PROVE  StockInv'
<1>1. ASSUME Refuse(w) PROVE StockInv'
  BY <1>1, QuietKeeps, Zenon DEF Refuse, tables, Answer
<1>2. ASSUME NEW u \in User, NEW kit \in Kit, NEW loc \in Location,
             NEW q \in Quantity, decrement_quantity(w, u, kit, loc, q)
      PROVE  StockInv'
  <2>1. DecrementRows(kit, loc) \subseteq Row
    BY IdsInRange DEF DecrementRows, RowsAt, StockInv
  <2> QED
    BY <1>2, <2>1, DecrementReadsKeeps DEF decrement_quantity
<1>3. Carts \subseteq Seq(Item) /\ Bodies \subseteq Columns
      /\ Levels \subseteq 0..MaxStock
  BY InputsAssumption
<1> QED
  BY <1>1, <1>2, <1>3, IncrementKeeps, RestoreKeeps, EditKeeps, DropKeeps,
     CreateKeeps, CreatePurchaseKeeps, UpdateKeeps, DeletePurchaseKeeps, Zenon
  DEF Request, DecrementRefused, LookupFails, RowNotFound, PurchaseRefused,
      UpdateRefused, DeleteRefused

-----------------------------------------------------------------------------
\* The steps a handler ends or goes on with.

\* setex stores a quantity that a request may have.
LEMMA SetPendingKeeps ==
  ASSUME StockInv, NEW w \in Worker, SetPending(w)
  PROVE  StockInv'
<1>1. task[w] \in Task /\ HoldsInputs("pend", task[w])
  BY DEF StockInv, TypeOK, HandlersHoldTheirInputs, SetPending
<1>2. task[w].items \in Seq(Item) /\ Len(task[w].items) = 1
  BY <1>1 DEF Task, HoldsInputs
<1>3. task[w].items[1] \in Item
  BY <1>2
<1>4. task[w].items[1].quantity \in 0..MaxQty
  BY <1>3, BoundsAssumption DEF Item, Quantity
<1>5. redis' \in [Key -> 0..MaxQty]
  BY <1>4, Zenon DEF SetPending, StockInv, TypeOK
<1> QED
  BY <1>5, FinishKeeps
  DEF SetPending, inventoryTable, purchasesTable, Answer

\* The purchases a session loaded go with their row.
LEMMA DeletingKeeps ==
  ASSUME StockInv, NEW w \in Worker, DropCommits(w) \/ CancelCommits(w)
  PROVE  StockInv'
<1>1. /\ Finish(w, "ok") /\ rows' \subseteq rows /\ orders' \subseteq orders
      /\ UNCHANGED <<nextRow, place, stock, nextOrder, purchase>>
      /\ UNCHANGED <<expired, charges>> /\ redis' = redis
  BY DEF DropCommits, CancelCommits, inventoryTable, redisVars
<1> QED
  BY <1>1, FinishKeeps, Zenon DEF StockInv, TypeOK, Answer

\* A payment is a user's and for the items the handler holds; the handler then
\* holds it, and it is among those taken.
LEMMA PaymentKeeps ==
  ASSUME StockInv, NEW w \in Worker, PaymentSucceeds(w)
  PROVE  StockInv'
<1> DEFINE n == Len(charges')
           t == [task[w] EXCEPT !.charge = n]
<1>1. task[w] \in Task /\ HoldsInputs("pay", task[w])
  BY DEF StockInv, TypeOK, HandlersHoldTheirInputs, PaymentSucceeds
<1>2. task[w].user \in User /\ task[w].items \in Seq(Item)
  BY <1>1 DEF Task, HoldsInputs
<1>3. /\ charges' \in Seq([user: User, items: Seq(Item)])
      /\ Len(charges) \in Nat /\ n = Len(charges) + 1
      /\ n \in Nat /\ n <= MaxCharge
  BY <1>2, BoundsAssumption DEF PaymentSucceeds, StockInv, TypeOK
<1>4. task' = [task EXCEPT ![w] = t] /\ pc' = [pc EXCEPT ![w] = "claim"]
  BY DEF PaymentSucceeds
<1> HIDE DEF n
<1>5. t \in Task /\ t.upd = task[w].upd /\ t.charge = n
  BY <1>1, <1>3, Zenon DEF Task
<1>6. HoldsInputs("claim", t)
  BY <1>1 DEF HoldsInputs, Task
<1> HIDE DEF t
<1>7. TypeOK'
  BY <1>3, <1>4, <1>5, Zenon
  DEF StockInv, TypeOK, PaymentSucceeds, inventoryTable, purchasesTable,
      redisVars, Label
<1>8. HandlersHoldTheirInputs'
  <2> SUFFICES ASSUME NEW v \in Worker
               PROVE  /\ HoldsInputs(pc'[v], task'[v])
                      /\ task'[v].charge <= n
    BY <1>3 DEF HandlersHoldTheirInputs, n
  <2>1. task[v] \in Task /\ task[v].charge <= Len(charges)
    BY DEF StockInv, TypeOK, HandlersHoldTheirInputs
  <2>2. task[v].charge \in Nat
    BY <2>1 DEF Task
  <2>3. CASE v = w
    BY <2>3, <1>3, <1>4, <1>5, <1>6 DEF StockInv, TypeOK
  <2>4. CASE v # w
    BY <2>4, <2>1, <2>2, <1>3, <1>4
    DEF StockInv, TypeOK, HandlersHoldTheirInputs
  <2> QED
    BY <2>3, <2>4
<1>9. StockFloor' /\ WritesAboveFloor'
  BY <1>4, <1>5
  DEF StockInv, TypeOK, StockFloor, WritesAboveFloor, PaymentSucceeds,
      inventoryTable
<1> QED
  BY <1>7, <1>8, <1>9 DEF StockInv

\* One turn of create_purchase's loop leaves items, or the insert to come.
LEMMA ClaimKeeps ==
  ASSUME StockInv, NEW w \in Worker, ClaimItem(w)
  PROVE  StockInv'
<1> DEFINE l == IF Len(task[w].left) = 1 THEN "insert" ELSE "claim"
           t == [task[w] EXCEPT !.left = Tail(task[w].left), !.seen = SeenRows(w)]
<1>1. task[w] \in Task /\ HoldsInputs("claim", task[w])
  BY DEF StockInv, TypeOK, HandlersHoldTheirInputs, ClaimItem
<1>2. task[w].left \in Seq(Item) /\ task[w].left # <<>>
  BY <1>1 DEF Task, HoldsInputs
<1>3. /\ Tail(task[w].left) \in Seq(Item)
      /\ Len(task[w].left) # 1 => Tail(task[w].left) # <<>>
  <2> DEFINE s == task[w].left
  <2>1. s \in Seq(Item) /\ s # <<>>
    BY <1>2
  <2> HIDE DEF s
  <2>2. Tail(s) \in Seq(Item) /\ Len(Tail(s)) = Len(s) - 1 /\ Len(s) \in Nat
    BY <2>1
  <2>3. Len(s) # 1 => Tail(s) # <<>>
    <3>1. Len(<<>>) = 0
      OBVIOUS
    <3>2. Len(s) # 1 => Len(Tail(s)) # 0
      BY <2>2
    <3> QED
      BY <3>1, <3>2, Zenon, Zenon
  <2> QED
    BY <2>2, <2>3 DEF s
<1>4. SeenRows(w) \subseteq Row \cup Order
  BY <1>1, IdsInRange DEF SeenRows, Task, StockInv
<1>5. task' = [task EXCEPT ![w] = t] /\ pc' = [pc EXCEPT ![w] = l]
  BY <1>1, Zenon DEF ClaimItem, Task
<1>6. t \in Task /\ t.upd = task[w].upd /\ t.charge = task[w].charge
  BY <1>1, <1>3, <1>4, Zenon DEF Task
<1>7. HoldsInputs(l, t)
  BY <1>1, <1>3 DEF HoldsInputs, Task
<1>8. redis' \in [Key -> 0..MaxQty]
  <2>1. 0 \in 0..MaxQty
    BY BoundsAssumption
  <2> QED
    BY <2>1, Zenon DEF ClaimItem, StockInv, TypeOK
<1>9. l \in Label
  BY DEF Label
<1> HIDE DEF t, l
<1>10. TypeOK'
  <2>1. UNCHANGED <<rows, nextRow, place, stock, orders, nextOrder, purchase,
                    expired, charges>>
    BY DEF ClaimItem, inventoryTable, purchasesTable
  <2>2. /\ pc' \in [Worker -> {"idle"} \cup Label \cup Answer]
        /\ task' \in [Worker -> Task]
    BY <1>5, <1>6, <1>9 DEF StockInv, TypeOK
  <2> QED
    BY <2>1, <2>2, <1>8 DEF StockInv, TypeOK
<1>11. HandlersHoldTheirInputs'
  BY <1>5, <1>6, <1>7, Zenon
  DEF StockInv, TypeOK, HandlersHoldTheirInputs, ClaimItem
<1>12. StockFloor' /\ WritesAboveFloor'
  BY <1>5, <1>6
  DEF StockInv, TypeOK, StockFloor, WritesAboveFloor, ClaimItem, inventoryTable
<1> QED
  BY <1>10, <1>11, <1>12 DEF StockInv

\* The new purchases get the next ids and are of the table's type.
LEMMA InsertKeeps ==
  ASSUME StockInv, NEW w \in Worker, InsertCommits(w)
  PROVE  StockInv'
<1> DEFINE n == Len(task[w].items)
           ids == nextOrder..(nextOrder + n - 1)
<1>1. /\ task[w] \in Task /\ HoldsInputs("insert", task[w])
      /\ task[w].charge <= Len(charges) /\ Len(charges) <= MaxCharge
  BY DEF StockInv, TypeOK, HandlersHoldTheirInputs, InsertCommits
<1>2. /\ task[w].items \in Seq(Item) /\ task[w].items # <<>>
      /\ task[w].user \in User /\ task[w].charge \in Nat
  BY <1>1 DEF Task, HoldsInputs
<1>3. n \in Nat \ {0}
  BY <1>2
<1>4. /\ nextOrder \in 1..(MaxOrder + 1) /\ orders \subseteq 1..(nextOrder - 1)
      /\ nextOrder + n - 1 <= MaxOrder
      /\ orders' = orders \cup ids /\ nextOrder' = nextOrder + n
  BY DEF StockInv, TypeOK, InsertCommits, NewIds
<1>5. task[w].charge \in 0..MaxCharge
  <2>1. Len(charges) \in Nat
    BY SMTT(30) DEF StockInv, TypeOK
  <2> QED
    BY <2>1, <1>1, <1>2, BoundsAssumption
<1>6. \A o \in ids : NewPurchase(task[w], o - nextOrder + 1) \in Purchase
  <2> SUFFICES ASSUME NEW k \in 1..n
               PROVE  NewPurchase(task[w], k) \in Purchase
    BY <1>3, <1>4, BoundsAssumption
  <2>1. task[w].items[k] \in Item /\ k \in 0..MaxOrder
    <3>1. task[w].items[k] \in Item
      BY <1>2
    <3>2. k \in 0..MaxOrder
      <4> HIDE DEF n
      <4> QED
        BY <1>3, <1>4, BoundsAssumption
    <3> QED
      BY <3>1, <3>2
  <2> QED
    BY <2>1, <1>2, <1>5, BoundsAssumption DEF NewPurchase, Purchase, Item, Status
<1>7. purchase' \in [Order -> Purchase]
  BY <1>6, Zenon DEF InsertCommits, NewIds, StockInv, TypeOK
<1>8. /\ nextOrder' \in 1..(MaxOrder + 1)
      /\ orders' \subseteq 1..(nextOrder' - 1)
  <2> HIDE DEF n
  <2> QED
    BY <1>3, <1>4, BoundsAssumption
<1>9. /\ task' = [task EXCEPT ![w] = NoTask] /\ pc' = [pc EXCEPT ![w] = "ok"]
      /\ UNCHANGED <<rows, nextRow, place, stock, redis, expired, charges>>
  BY DEF InsertCommits, Finish, inventoryTable, redisVars
<1>10. NoTask.upd = {} /\ NoTask.charge = 0 /\ HoldsInputs("ok", NoTask)
  BY DEF NoTask, HoldsInputs
<1>11. TypeOK'
  BY <1>7, <1>8, <1>9, NoTaskType, Zenon DEF StockInv, TypeOK, Answer
<1>12. HandlersHoldTheirInputs'
  BY <1>9, <1>10 DEF StockInv, TypeOK, HandlersHoldTheirInputs
<1>13. StockFloor' /\ WritesAboveFloor'
  BY <1>9, <1>10 DEF StockInv, TypeOK, StockFloor, WritesAboveFloor
<1> QED
  BY <1>11, <1>12, <1>13 DEF StockInv

\* Whatever handler a worker is in, its next step preserves the invariant.
LEMMA WorkKeeps ==
  ASSUME StockInv, NEW w \in Worker, Work(w)
  PROVE  StockInv'
<1>1. ASSUME NEW a \in Answer, Finish(w, a),
             UNCHANGED <<inventoryTable, purchasesTable, redisVars, charges>>
      PROVE  StockInv'
  <2>1. /\ UNCHANGED <<nextRow, place, stock, nextOrder, purchase>>
        /\ UNCHANGED <<expired, charges>>
        /\ redis' = redis /\ rows' = rows /\ orders' = orders
    BY <1>1 DEF inventoryTable, purchasesTable, redisVars
  <2> QED
    BY <1>1, <2>1, FinishKeeps DEF StockInv, TypeOK
<1>2. CASE DecrementCommits(w)
  BY <1>2, CommitKeeps, Zenon
  DEF DecrementCommits, StockInv, TypeOK, purchasesTable
<1>3. CASE InventoryCommits(w)
  <2>1. task[w].move \in Writes(Place) /\ place \in [Row -> Place]
    BY DEF StockInv, TypeOK, Task
  <2>2. Updated(place, task[w].move) \in [Row -> Place]
    BY <2>1, UpdatedType
  <2>3. /\ place' \in [Row -> Place] /\ purchase' \in [Order -> Purchase]
        /\ stock' = Updated(stock, task[w].upd) /\ Finish(w, "ok")
        /\ UNCHANGED <<rows, nextRow, orders, nextOrder, redisVars, charges>>
    BY <1>3, <2>2 DEF InventoryCommits, StockInv, TypeOK, purchasesTable
  <2> QED
    BY <2>3, CommitKeeps DEF Answer
<1>4. CASE UpdateCommits(w)
  <2>1. task[w].put \in Columns
    BY DEF StockInv, TypeOK, Task
  <2>2. \A o \in Order : Patched(purchase[o], task[w].put) \in Purchase
    BY <2>1, PatchedType DEF StockInv, TypeOK
  <2>3. purchase' \in [Order -> Purchase]
    BY <1>4, <2>2, Zenon DEF UpdateCommits, StockInv, TypeOK
  <2>4. /\ place' \in [Row -> Place]
        /\ stock' = Updated(stock, task[w].upd) /\ Finish(w, "ok")
        /\ UNCHANGED <<rows, nextRow, orders, nextOrder, redisVars, charges>>
    BY <1>4 DEF UpdateCommits, StockInv, TypeOK
  <2> QED
    BY <2>3, <2>4, CommitKeeps DEF Answer
<1> QED
  BY <1>1, <1>2, <1>3, <1>4, SetPendingKeeps, DeletingKeeps, PaymentKeeps,
     ClaimKeeps, InsertKeeps
  DEF Work, SetPendingFails, RestoreFails, PaymentFails, ClaimFails, CommitFails, Answer

\* Expiries and the listener touch neither quantities nor units of work.
LEMMA BackgroundKeeps ==
  ASSUME StockInv, Background
  PROVE  StockInv'
<1>1. PICK r \in Row, u \in User : PendingExpires(r, u) \/ ListenerHandles(r, u)
  BY DEF Background
<1>2. 0 \in 0..MaxQty
  BY BoundsAssumption
<1>3. /\ redis' \in [Key -> 0..MaxQty] /\ expired' \subseteq Row \X User
      /\ UNCHANGED <<rows, nextRow, place, orders, nextOrder, purchase,
                     charges, pc, task>>
  <2>1. redis \in [Key -> 0..MaxQty] /\ expired \subseteq Row \X User
    BY DEF StockInv, TypeOK
  <2>2. CASE PendingExpires(r, u)
    <3>1. expired' \subseteq expired \cup {<<r, u>>}
      BY <2>2 DEF PendingExpires
    <3>2. redis' \in [Key -> 0..MaxQty]
      BY <1>2, <2>1, <2>2, Zenon DEF PendingExpires
    <3>3. UNCHANGED <<rows, nextRow, place, orders, nextOrder, purchase,
                      charges, pc, task>>
      BY <2>2 DEF PendingExpires, inventoryTable, purchasesTable
    <3> QED
      BY <2>1, <3>1, <3>2, <3>3
  <2>3. CASE ListenerHandles(r, u)
    BY <1>2, <2>1, <2>3, Zenon DEF ListenerHandles, purchasesTable
  <2> QED
    BY <1>1, <2>2, <2>3
<1>4. stock' \in [Row -> Int] /\ \A x \in Row : stock'[x] >= 1 - MaxQty
  <2>1. DataKey(r, u) \in Key
    BY DEF DataKey, Key
  <2>2. redis[DataKey(r, u)] \in Nat
    BY <2>1, BoundsAssumption DEF StockInv, TypeOK
  <2>3. stock \in [Row -> Int] /\ \A x \in Row : stock[x] >= 1 - MaxQty
    BY DEF StockInv, TypeOK, StockFloor
  <2>4. \/ stock' = stock
        \/ stock' = [stock EXCEPT ![r] = stock[r] + redis[DataKey(r, u)]]
    BY <1>1 DEF PendingExpires, ListenerHandles, inventoryTable
  <2> QED
    BY <2>2, <2>3, <2>4, BoundsAssumption
<1>5. TypeOK'
  BY <1>3, <1>4, SMTT(30) DEF StockInv, TypeOK
<1> QED
  BY <1>3, <1>4, <1>5
  DEF StockInv, HandlersHoldTheirInputs, StockFloor, WritesAboveFloor

-----------------------------------------------------------------------------
\* The opening tables, with every worker idle, satisfy the invariant.
LEMMA InitStockInv == Init => StockInv
<1> SUFFICES ASSUME Init PROVE StockInv
  OBVIOUS
<1> USE DEF Init
<1>1. Place # {} /\ Purchase # {}
  <2>1. PICK k \in Kit, u \in User : TRUE
    BY BoundsAssumption
  <2>2. [kit |-> k, loc |-> "warehouse"] \in Place
    BY <2>1 DEF Place, Location
  <2>3. [user |-> u, inventory_id |-> 1, quantity |-> 1, status |-> "Returned",
         charge |-> 0, line |-> 0] \in Purchase
    <3>1. 1 \in Row /\ 1 \in Quantity /\ 0 \in 0..MaxCharge /\ 0 \in 0..MaxOrder
      BY BoundsAssumption DEF Row, Quantity
    <3> QED
      BY <2>1, <3>1, Zenon DEF Purchase, Status
  <2> QED
    BY <2>2, <2>3, SMTT(30)
<1>2. \A k \in 1..Len(Opening) :
        /\ [kit |-> Opening[k].kit, loc |-> Opening[k].loc] \in Place
        /\ Opening[k].quantity \in Nat
  <2> SUFFICES ASSUME NEW k \in 1..Len(Opening)
               PROVE  /\ [kit |-> Opening[k].kit, loc |-> Opening[k].loc] \in Place
                      /\ Opening[k].quantity \in Nat
    OBVIOUS
  <2>1. Opening[k] \in [kit: Kit, loc: Location, quantity: 0..MaxStock]
    <3> DEFINE T == [kit: Kit, loc: Location, quantity: 0..MaxStock]
    <3>1. Opening \in Seq(T)
      BY OpeningAssumption
    <3> HIDE DEF T
    <3>2. Opening[k] \in T
      BY <3>1
    <3> QED
      BY <3>2 DEF T
  <2> QED
    BY <2>1, BoundsAssumption DEF Place
<1>3. Len(Opening) \in Nat /\ Len(Opening) <= MaxRow
  BY OpeningAssumption
<1>4. Len(OpeningOrders) \in Nat /\ Len(OpeningOrders) <= MaxOrder
  BY OpeningAssumption
<1>5. /\ nextRow \in 1..(MaxRow + 1) /\ rows \subseteq 1..(nextRow - 1)
      /\ nextOrder \in 1..(MaxOrder + 1) /\ orders \subseteq 1..(nextOrder - 1)
  BY <1>3, <1>4, BoundsAssumption
<1>6. place \in [Row -> Place]
  BY <1>1, <1>2, <1>3, BoundsAssumption DEF Row
<1>7. stock \in [Row -> Int] /\ StockFloor
  BY <1>2, <1>3, BoundsAssumption DEF Row, StockFloor
<1>8. purchase \in [Order -> Purchase]
  BY <1>1, <1>4, OpeningAssumption, BoundsAssumption DEF Order
<1>9. /\ redis \in [Key -> 0..MaxQty] /\ expired \subseteq Row \X User
      /\ charges \in Seq([user: User, items: Seq(Item)]) /\ Len(charges) = 0
  BY BoundsAssumption
<1>10. pc \in [Worker -> {"idle"} \cup Label \cup Answer] /\ task \in [Worker -> Task]
  BY NoTaskType
<1>11. HandlersHoldTheirInputs /\ WritesAboveFloor
  <2>1. NoTask.upd = {} /\ NoTask.charge = 0 /\ HoldsInputs("idle", NoTask)
    BY Zenon DEF NoTask, HoldsInputs
  <2> QED
    BY <2>1, <1>9, BoundsAssumption, SMTT(30)
       DEF HandlersHoldTheirInputs, WritesAboveFloor
<1> QED
  BY <1>5, <1>6, <1>7, <1>8, <1>9, <1>10, <1>11, Zenon DEF StockInv, TypeOK

\* The invariant is inductive.
LEMMA NextStockInv == StockInv /\ [Next]_vars => StockInv'
<1> SUFFICES ASSUME StockInv, [Next]_vars PROVE StockInv'
  OBVIOUS
<1>1. ASSUME NEW w \in Worker, Request(w) PROVE StockInv'
  BY <1>1, RequestKeeps
<1>2. ASSUME NEW w \in Worker, Work(w) PROVE StockInv'
  BY <1>2, WorkKeeps, SMTT(30)
<1>3. ASSUME NEW w \in Worker, Crash(w) PROVE StockInv'
  BY <1>3, FinishKeeps
  DEF Crash, Answer, inventoryTable, purchasesTable, redisVars, StockInv, TypeOK
<1>4. ASSUME NEW w \in Worker, AnswerLost(w) PROVE StockInv'
  BY <1>4, QuietKeeps, Zenon DEF AnswerLost, Answer, tables
<1>5. ASSUME NEW w \in Worker, Deliver(w) PROVE StockInv'
  BY <1>5, QuietKeeps, Zenon DEF Deliver, tables
<1>6. CASE Background
  BY <1>6, BackgroundKeeps
<1>7. CASE UNCHANGED vars
  <2>1. TypeOK' /\ HandlersHoldTheirInputs'
    BY <1>7 DEF StockInv, TypeOK, HandlersHoldTheirInputs, vars
  <2> QED
    BY <1>7, <2>1, Zenon DEF StockInv, StockFloor, WritesAboveFloor, vars
<1> QED
  BY <1>1, <1>2, <1>3, <1>4, <1>5, <1>6, <1>7 DEF Next

\* In every reachable state, for any number of workers, rows, purchases and
\* requests: types are kept, handlers hold their inputs, and neither a row of
\* inventory nor a quantity some handler is about to commit is below
\* 1 - MaxQty.
THEOREM StockInvHolds == Spec => []StockInv
  BY InitStockInv, NextStockInv, PTL DEF Spec

\* Type correctness: the tables, Redis and every unit of work keep their types
\* through any interleaving of the handlers, crashes and expiries.
THEOREM TypeCorrect == Spec => []TypeOK
<1>1. StockInv => TypeOK
  BY DEF StockInv
<1> QED
  BY <1>1, StockInvHolds, PTL

\* No row is ever oversold by a whole request: decrement_quantity and
\* update_purchase check the quantity they subtract from and write absolute
\* values, so any number of racing workers keeps stock at 1 - MaxQty or more.
THEOREM StockFloorHolds == Spec => []StockFloor
<1>1. StockInv => StockFloor
  BY SMTT(30) DEF StockInv
<1> QED
  BY <1>1, StockInvHolds, PTL

-----------------------------------------------------------------------------
(* Purchases.                                                              *)

OneWorker == \A v, w \in Worker : v = w

\* Every PUT carries a status and nothing else that the stock depends on.
StatusOnly ==
  \A b \in Bodies : b.status \in Status /\ b.quantity = 0 /\ b.inventory_id = 0

-----------------------------------------------------------------------------
\* Referential integrity.  CanCommit is what MySQL checks when a unit of work
\* commits, on the tables of that moment and not of the snapshot.

\* create_purchase commits only purchases of rows that still exist.
LEMMA InsertKeepsRows ==
  ASSUME StockInv, PurchasesHaveRows, NEW w \in Worker, InsertCommits(w)
  PROVE  PurchasesHaveRows'
<1> DEFINE t == task[w]
           n == Len(t.items)
           ids == nextOrder..(nextOrder + n - 1)
<1>1. t \in Task /\ HoldsInputs("insert", t)
  BY DEF StockInv, TypeOK, HandlersHoldTheirInputs, InsertCommits
<1>2. n \in Nat
  BY <1>1 DEF Task
<1>3. nextOrder \in Nat \ {0} /\ nextOrder + n - 1 <= MaxOrder
  BY SMTT(30) DEF StockInv, TypeOK, InsertCommits
<1>4. \A k \in 1..n : t.items[k].inventory_id \in rows
  <2>1. pc[w] = "insert" /\ CanCommit(w)
    BY Zenon DEF InsertCommits
  <2> QED
    BY <2>1, Zenon DEF CanCommit
<1>5. \A o \in Order : purchase'[o] =
        IF o \in ids THEN NewPurchase(t, o - nextOrder + 1) ELSE purchase[o]
  BY DEF InsertCommits, NewIds
<1>6. orders' = orders \cup ids /\ rows' = rows
  BY Zenon DEF InsertCommits, NewIds, inventoryTable
<1> HIDE DEF t, n
<1>7. ASSUME NEW o \in ids
      PROVE  purchase'[o].inventory_id \in rows
  <2>1. o \in Order /\ o - nextOrder + 1 \in 1..n
    BY <1>2, <1>3, BoundsAssumption DEF Order
  <2> QED
    <3>1. purchase'[o] = NewPurchase(t, o - nextOrder + 1)
      BY <2>1, <1>5
    <3>2. \A k : NewPurchase(t, k).inventory_id = t.items[k].inventory_id
      BY DEF NewPurchase
    <3> QED
      BY <2>1, <1>4, <3>1, <3>2
<1>8. ASSUME NEW o \in orders, o \notin ids
      PROVE  purchase'[o].inventory_id \in rows
  BY <1>5, <1>8, IdsInRange, SMTT(30) DEF StockInv, PurchasesHaveRows
<1> QED
  BY <1>6, <1>7, <1>8 DEF PurchasesHaveRows

\* update_purchase moves a purchase only to a row that still exists.
LEMMA UpdateKeepsRows ==
  ASSUME StockInv, PurchasesHaveRows, NEW w \in Worker, UpdateCommits(w)
  PROVE  PurchasesHaveRows'
<1> DEFINE t == task[w]
<1>1. t.put.inventory_id # 0 => t.put.inventory_id \in rows
  BY DEF UpdateCommits, CanCommit
<1>2. /\ purchase' = [purchase EXCEPT ![t.order] = Patched(purchase[t.order], t.put)]
      /\ orders' = orders /\ rows' = rows
  BY DEF UpdateCommits
<1> HIDE DEF t
<1> SUFFICES ASSUME NEW o \in orders
             PROVE  purchase'[o].inventory_id \in rows
  BY <1>2 DEF PurchasesHaveRows
<1>3. o \in Order /\ purchase[o].inventory_id \in rows
      /\ purchase[o] \in Purchase
  BY IdsInRange DEF StockInv, TypeOK, PurchasesHaveRows
<1>4. Patched(purchase[o], t.put).inventory_id =
        IF t.put.inventory_id = 0 THEN purchase[o].inventory_id
                                  ELSE t.put.inventory_id
  BY <1>3 DEF Patched, Purchase
<1> QED
  BY <1>1, <1>2, <1>3, <1>4, SMTT(30) DEF StockInv, TypeOK

\* No step leaves a purchase without its row.
LEMMA NextKeepsRows ==
  StockInv /\ PurchasesHaveRows /\ [Next]_vars => PurchasesHaveRows'
<1> SUFFICES ASSUME StockInv, PurchasesHaveRows, [Next]_vars
             PROVE  PurchasesHaveRows'
  OBVIOUS
<1>1. ASSUME rows \subseteq rows', UNCHANGED <<orders, purchase>>
      PROVE  PurchasesHaveRows'
  BY <1>1, SMTT(30) DEF PurchasesHaveRows
<1>2. ASSUME NEW w \in Worker, DropCommits(w) PROVE PurchasesHaveRows'
  BY <1>2 DEF DropCommits, CanCommit, NoOrphans, PurchasesHaveRows
<1>3. ASSUME NEW w \in Worker, CancelCommits(w) PROVE PurchasesHaveRows'
  BY <1>3 DEF CancelCommits, inventoryTable, PurchasesHaveRows
<1>4. ASSUME NEW w \in Worker, Work(w) PROVE PurchasesHaveRows'
  <2>1. \/ rows \subseteq rows' /\ UNCHANGED <<orders, purchase>>
        \/ DropCommits(w) \/ CancelCommits(w)
        \/ InsertCommits(w) \/ UpdateCommits(w)
    BY <1>4
    DEF Work, DecrementCommits, SetPending, SetPendingFails, InventoryCommits,
        RestoreFails, PaymentSucceeds, PaymentFails, ClaimItem, ClaimFails, CommitFails,
        inventoryTable, purchasesTable
  <2> QED
    BY <2>1, <1>1, <1>2, <1>3, InsertKeepsRows, UpdateKeepsRows
<1>5. ASSUME NEW w \in Worker, Request(w) PROVE PurchasesHaveRows'
  <2>1. rows \subseteq rows' /\ UNCHANGED <<orders, purchase>>
    BY <1>5, Zenon
    DEF Request, decrement_quantity, DecrementReads, DecrementRefused,
        increment_quantity, restore_reserved_inventory, create_inventory,
        edit_inventory, LookupFails, delete_inventory, RowNotFound,
        create_purchase, PurchaseRefused, update_purchase, UpdateRefused,
        delete_purchase, DeleteRefused, Refuse, inventoryTable, purchasesTable
  <2> QED
    BY <2>1, <1>1
<1>6. ASSUME NEW w \in Worker, Crash(w) \/ AnswerLost(w) \/ Deliver(w)
      PROVE  PurchasesHaveRows'
  BY <1>1, <1>6 DEF Crash, AnswerLost, Deliver, inventoryTable, purchasesTable
<1>7. CASE Background
  BY <1>1, <1>7
  DEF Background, PendingExpires, ListenerHandles, inventoryTable, purchasesTable
<1>8. CASE UNCHANGED vars
  BY <1>1, <1>8 DEF vars
<1> QED
  BY <1>4, <1>5, <1>6, <1>7, <1>8 DEF Next

\* Every purchase refers to an inventory row that exists, however
\* create_purchase, update_purchase and the cascade of delete_inventory
\* interleave: the foreign key is checked against the tables at commit, and
\* the cascade deletes every purchase of the row or the commit is refused.
THEOREM RowsOfPurchasesExist == Spec => []PurchasesHaveRows
<1>1. Init => PurchasesHaveRows
  BY OpeningAssumption, BoundsAssumption, SMTT(30) DEF Init, PurchasesHaveRows, Order
<1> QED
  BY <1>1, StockInvHolds, NextKeepsRows, PTL DEF Spec

-----------------------------------------------------------------------------
(* The commit of update_purchase.                                          *)

\* The rollback data that the listener looks for is never there.
NoData == \A r \in Row, u \in User : redis[DataKey(r, u)] = 0

LEMMA PendingIsNotData ==
  ASSUME NEW r \in Row, NEW u \in User, NEW s \in Row, NEW v \in User
  PROVE  /\ DataKey(r, u) \in Key /\ PendingKey(r, u) \in Key
         /\ DataKey(r, u) # PendingKey(s, v)
         /\ PendingKey(r, u) = PendingKey(s, v) => r = s /\ u = v
  BY DEF DataKey, PendingKey, Key

LEMMA NoDataWritten ==
  ASSUME StockInv, NoData, [Next]_vars
  PROVE  NoData'
<1>t. redis \in [Key -> 0..MaxQty]
  BY DEF StockInv, TypeOK
<1>1. ASSUME NEW s \in Row, NEW v \in User, NEW q,
             redis' = [redis EXCEPT ![PendingKey(s, v)] = q]
      PROVE  NoData'
  BY <1>1, <1>t, PendingIsNotData DEF NoData
<1>2. ASSUME UNCHANGED redis
      PROVE  NoData'
  BY <1>2 DEF NoData
<1>3. ASSUME NEW w \in Worker, SetPending(w)
      PROVE  NoData'
  <2>1. task[w].row \in Row /\ task[w].user \in User
    BY <1>3 DEF SetPending, StockInv, HandlersHoldTheirInputs, HoldsInputs
  <2> QED
    BY <1>1, <1>3, <2>1, Zenon DEF SetPending
<1>4. ASSUME NEW w \in Worker, ClaimItem(w)
      PROVE  NoData'
  <2>1. task[w].left \in Seq(Item) /\ task[w].left # <<>> /\ task[w].user \in User
    <3>1. task[w] \in Task /\ HoldsInputs("claim", task[w])
      BY <1>4 DEF ClaimItem, StockInv, TypeOK, HandlersHoldTheirInputs
    <3> QED
      BY <3>1 DEF HoldsInputs, Task
  <2>2. Head(task[w].left).inventory_id \in Row
    <3>1. Head(task[w].left) \in Item
      BY <2>1
    <3> QED
      BY <3>1 DEF Item
  <2> QED
    BY <1>1, <1>4, <2>1, <2>2, Zenon DEF ClaimItem
<1>5. ASSUME NEW w \in Worker, Work(w)
      PROVE  NoData'
  BY <1>2, <1>3, <1>4, <1>5, Zenon
  DEF Work, DecrementCommits, SetPendingFails, InventoryCommits, RestoreFails, DropCommits,
      PaymentSucceeds, PaymentFails, ClaimFails, InsertCommits, UpdateCommits,
      CancelCommits, CommitFails, redisVars
<1>6. ASSUME NEW w \in Worker, NEW u, NEW items, restore_reserved_inventory(w, u, items)
      PROVE  NoData'
  <2>1. \A k \in Key : redis'[k] = 0 \/ redis'[k] = redis[k]
    BY <1>6 DEF restore_reserved_inventory
  <2> QED
    BY <2>1, PendingIsNotData DEF NoData
<1>7. ASSUME NEW w \in Worker, Request(w)
      PROVE  NoData'
  BY <1>2, <1>6, <1>7, Zenon
  DEF Request, decrement_quantity, DecrementReads, DecrementRefused,
      increment_quantity, create_inventory,
      edit_inventory, LookupFails, delete_inventory, RowNotFound,
      create_purchase, PurchaseRefused, update_purchase, UpdateRefused,
      delete_purchase, DeleteRefused, Refuse, redisVars
<1>8. ASSUME NEW w \in Worker, Crash(w) \/ AnswerLost(w) \/ Deliver(w)
      PROVE  NoData'
  BY <1>2, <1>8 DEF Crash, AnswerLost, Deliver, redisVars
<1>9. ASSUME NEW r \in Row, NEW u \in User, PendingExpires(r, u)
      PROVE  NoData'
  BY <1>1, <1>9, Zenon DEF PendingExpires
<1>10. ASSUME NEW r \in Row, NEW u \in User, ListenerHandles(r, u)
       PROVE  NoData'
  BY <1>10, <1>t, PendingIsNotData DEF ListenerHandles, NoData
<1> QED
  BY <1>2, <1>5, <1>7, <1>8, <1>9, <1>10 DEF Next, Background, vars

\* Nothing but a handler touches the tables.
LEMMA BackgroundLeavesTables ==
  ASSUME NoData, Background
  PROVE  UNCHANGED <<rows, nextRow, place, stock, orders, nextOrder, purchase, charges,
                     pc, task>>
  BY DEF NoData, Background, PendingExpires, ListenerHandles, inventoryTable, purchasesTable

\* What a PUT of a status leaves alone.
LEMMA StatusPatch ==
  ASSUME StatusOnly, NEW p \in Purchase, NEW b \in Bodies
  PROVE  /\ Patched(p, b).quantity = p.quantity
         /\ Patched(p, b).inventory_id = p.inventory_id
         /\ Changed(p, b).quantity = 0 /\ Changed(p, b).inventory_id = 0
         /\ Changed(p, b).status = "" => b.status = p.status
         /\ Changed(p, b).status # "" => Changed(p, b).status = b.status
         /\ b.status = p.status => Changed(p, b).status = ""
<1>1. b \in Columns /\ b.status \in Status /\ b.quantity = 0 /\ b.inventory_id = 0
  BY InputsAssumption DEF StatusOnly
<1>2. p.quantity # 0 /\ p.inventory_id # 0
  BY BoundsAssumption DEF Purchase, Quantity, Row
<1> QED
  BY <1>1, <1>2, Zenon DEF Patched, Changed, Purchase, Status

\* update_purchase starts with what it read.
LEMMA UpdateStartsFresh ==
  ASSUME StockInv, StatusOnly, NEW w \in Worker, NEW o \in Order, NEW b \in Bodies,
         update_purchase(w, o, b)
  PROVE  UpdateIsFresh(w)'
<1> DEFINE old == purchase[o]
           new == Patched(old, b)
           inv == new.inventory_id
           put == Changed(old, b)
           upd == CASE Returning(old, b) -> {<<inv, stock[inv] + new.quantity>>}
                    [] Reverting(old, b) -> {<<inv, stock[inv] - new.quantity>>}
                    [] OTHER -> {}
           t == [NoTask EXCEPT !.order = o, !.put = put, !.upd = upd]
<1>1. old \in Purchase
  BY DEF StockInv, TypeOK
<1>2. /\ o \in orders /\ inv \in rows /\ Start(w, "update", t)
      /\ UNCHANGED <<inventoryTable, purchasesTable>>
  BY DEF update_purchase
<1>3. t.order = o /\ t.put = put /\ t.upd = upd
  BY DEF NoTask
<1>4. /\ new.quantity = old.quantity /\ inv = old.inventory_id
      /\ put.quantity = 0 /\ put.inventory_id = 0
      /\ put.status = "" => b.status = old.status
      /\ put.status # "" => put.status = b.status
      /\ b.status = old.status => put.status = ""
  BY <1>1, StatusPatch, Zenon
<1>5. b.status # "" /\ old.status # ""
  BY <1>1, Zenon DEF StatusOnly, Status, Purchase
<1>6. /\ Returning(old, b) => upd = {<<inv, stock[inv] + new.quantity>>}
      /\ ~Returning(old, b) /\ Reverting(old, b) => upd = {<<inv, stock[inv] - new.quantity>>}
      /\ ~Returning(old, b) /\ ~Reverting(old, b) => upd = {}
  <2>1. ~(Returning(old, b) /\ Reverting(old, b))
    BY DEF Returning, Reverting
  <2> HIDE DEF inv, new
  <2> QED
    BY <2>1
<1> HIDE DEF new, put, upd
<1>7. /\ put.quantity = 0 /\ put.inventory_id = 0
      /\ \/ /\ old.status # "Returned" /\ put.status = "Returned"
            /\ upd = {<<old.inventory_id, stock[old.inventory_id] + old.quantity>>}
         \/ /\ old.status = "Returned" /\ put.status \notin {"", "Returned"}
            /\ upd = {<<old.inventory_id, stock[old.inventory_id] - old.quantity>>}
         \/ /\ IF old.status = "Returned" THEN put.status = "" ELSE put.status # "Returned"
            /\ upd = {}
  BY <1>4, <1>5, <1>6, Zenon DEF Returning, Reverting
<1>8. /\ task'[w] = t /\ purchase' = purchase /\ stock' = stock
      /\ orders' = orders /\ rows' = rows
  BY <1>2, Zenon DEF Start, StockInv, TypeOK, inventoryTable, purchasesTable
<1> HIDE DEF t
<1> QED
  BY <1>2, <1>3, <1>4, <1>7, <1>8, Zenon DEF UpdateIsFresh

\* Where the worker that takes a step goes.
LEMMA StepLeaves ==
  ASSUME StockInv, NEW w \in Worker,
         \/ Request(w) \/ Work(w) \/ Crash(w) \/ AnswerLost(w) \/ Deliver(w)
  PROVE  \/ pc'[w] # "update"
         \/ \E o \in Order, b \in Bodies : update_purchase(w, o, b)
<1>p. pc \in [Worker -> {"idle"} \cup Label \cup Answer]
  BY DEF StockInv, TypeOK
<1>1. ASSUME NEW l, pc' = [pc EXCEPT ![w] = l], l # "update"
      PROVE  pc'[w] # "update"
  BY <1>1, <1>p
<1>2. ASSUME NEW l, NEW t, Start(w, l, t), l # "update"
      PROVE  pc'[w] # "update"
  BY <1>1, <1>2, Zenon DEF Start
<1>3. ASSUME NEW a, Finish(w, a), a # "update"
      PROVE  pc'[w] # "update"
  BY <1>1, <1>3, Zenon DEF Finish
<1>4. Refuse(w) => pc'[w] # "update"
  BY <1>1, Zenon DEF Refuse
<1>5. CASE Request(w)
  <2>1. ASSUME NEW u, NEW items, create_purchase(w, u, items)
        PROVE  pc'[w] # "update"
    <3>1. PICK t : Start(w, IF u \in Admin THEN "claim" ELSE "pay", t)
      BY <2>1, Zenon DEF create_purchase
    <3> QED
      BY <1>2, <3>1
  <2>2. ASSUME NEW kit, NEW loc, NEW p, NEW q, edit_inventory(w, kit, loc, p, q)
        PROVE  pc'[w] # "update"
    <3>1. PICK t : Start(w, "edit", t)
      BY <2>2, Zenon DEF edit_inventory
    <3> QED
      BY <1>2, <3>1
  <2>3. ASSUME NEW kit, NEW loc, NEW q, create_inventory(w, kit, loc, q)
        PROVE  pc'[w] # "update"
    BY <1>1, <2>3, Zenon DEF create_inventory
  <2> QED
    BY <1>2, <1>4, <1>5, <2>1, <2>2, <2>3, Zenon
    DEF Request, decrement_quantity, DecrementReads, DecrementRefused,
        increment_quantity, RowNotFound, restore_reserved_inventory, LookupFails,
        delete_inventory, PurchaseRefused, UpdateRefused, delete_purchase, DeleteRefused
<1>6. CASE Work(w)
  <2>1. ClaimItem(w) => pc'[w] # "update"
    BY <1>p DEF ClaimItem
  <2> QED
    BY <1>1, <1>3, <1>6, <2>1, Zenon
    DEF Work, DecrementCommits, SetPending, SetPendingFails, InventoryCommits, RestoreFails,
        DropCommits, PaymentSucceeds, PaymentFails, ClaimFails, InsertCommits, UpdateCommits,
        CancelCommits, CommitFails
<1>7. CASE Crash(w) \/ AnswerLost(w) \/ Deliver(w)
  BY <1>1, <1>3, <1>7, Zenon DEF Crash, AnswerLost, Deliver
<1> QED
  BY <1>5, <1>6, <1>7

LEMMA InitFresh == Init => FreshInv
<1> SUFFICES ASSUME Init PROVE FreshInv
  OBVIOUS
<1>1. \A w \in Worker : pc[w] = "idle"
  BY DEF Init
<1>2. \A r \in Row, u \in User : redis[DataKey(r, u)] = 0
  BY PendingIsNotData DEF Init
<1> QED
  BY <1>1, <1>2, Zenon DEF FreshInv, UpdateIsFresh

LEMMA NextFresh ==
  ASSUME OneWorker, StatusOnly
  PROVE  StockInv /\ FreshInv /\ [Next]_vars => FreshInv'
<1> SUFFICES ASSUME StockInv, FreshInv, [Next]_vars PROVE FreshInv'
  OBVIOUS
<1>d. NoData
  BY DEF FreshInv, NoData
<1>1. NoData'
  BY <1>d, NoDataWritten
<1>2. ASSUME NEW w \in Worker PROVE UpdateIsFresh(w)'
  <2>1. CASE UNCHANGED vars
    BY <2>1, Zenon DEF FreshInv, UpdateIsFresh, vars
  <2>2. CASE Background
    BY <1>d, <2>2, BackgroundLeavesTables, Zenon DEF FreshInv, UpdateIsFresh
  <2>3. CASE \E v \in Worker : Request(v) \/ Work(v) \/ Crash(v) \/ AnswerLost(v) \/ Deliver(v)
    <3>1. Request(w) \/ Work(w) \/ Crash(w) \/ AnswerLost(w) \/ Deliver(w)
      BY <2>3, Zenon DEF OneWorker
    <3>2. CASE pc'[w] # "update"
      BY <3>2, Zenon DEF UpdateIsFresh
    <3>3. CASE \E o \in Order, b \in Bodies : update_purchase(w, o, b)
      BY <3>3, UpdateStartsFresh
    <3> QED
      BY <3>1, <3>2, <3>3, StepLeaves
  <2> QED
    BY <2>1, <2>2, <2>3 DEF Next
<1> QED
  BY <1>1, <1>2 DEF FreshInv, NoData

\* One worker's handlers keep FreshInv: the rollback data that the listener
\* looks for is never written, and between update_purchase's read and its
\* commit nobody writes what it read.
THEOREM FreshInvHolds ==
  ASSUME OneWorker, StatusOnly
  PROVE  Spec => []FreshInv
<1>1. StockInv /\ FreshInv /\ [Next]_vars => FreshInv'
  BY NextFresh
<1> QED
  BY <1>1, InitFresh, StockInvHolds, PTL DEF Spec

-----------------------------------------------------------------------------
(* A payment is used once.                                                 *)

\* What a step does to one worker, as far as payments go: it drops the one
\* it holds, or keeps it with its user and items on the way to the insert.
KeepsPayment(w) ==
  \/ task'[w].charge = 0
  \/ /\ task'[w].charge = task[w].charge
     /\ task'[w].user = task[w].user /\ task'[w].items = task[w].items
     /\ pc'[w] \in {"claim", "insert"}

\* A step that takes no payment and adds no purchase.
LEMMA QuietCharges ==
  ASSUME ChargeInv, UNCHANGED charges, orders' \subseteq orders,
         \A o \in orders' : /\ purchase'[o].charge = purchase[o].charge
                            /\ purchase'[o].line = purchase[o].line
                            /\ purchase'[o].user = purchase[o].user,
         \A v \in Worker : KeepsPayment(v)
  PROVE  ChargeInv'
<1>1. ChargedLineSoldOnce'
  BY SMTT(30) DEF ChargeInv, ChargedLineSoldOnce
<1>2. ASSUME NEW w \in Worker
      PROVE  PaymentHeldOnce(w)'
  <2>1. PaymentHeldOnce(w) /\ KeepsPayment(w)
    BY DEF ChargeInv
  <2>2. \A v \in Worker : task'[v].charge = 0 \/ task'[v].charge = task[v].charge
    BY DEF KeepsPayment
  <2> QED
    BY <2>1, <2>2, SMTT(30) DEF PaymentHeldOnce, KeepsPayment
<1> QED
  BY <1>1, <1>2 DEF ChargeInv

\* Workers that do not move keep what they hold.
LEMMA OthersKeep ==
  ASSUME ChargeInv, NEW v \in Worker, task'[v] = task[v], pc'[v] = pc[v]
  PROVE  KeepsPayment(v)
  BY DEF ChargeInv, PaymentHeldOnce, KeepsPayment

\* A step of one worker, with the tables left alone or purchases deleted.
LEMMA OneMovesCharges ==
  ASSUME StockInv, ChargeInv, NEW w \in Worker, NEW l, NEW t,
         pc' = [pc EXCEPT ![w] = l], task' = [task EXCEPT ![w] = t],
         \/ t.charge = 0
         \/ /\ t.charge = task[w].charge /\ t.user = task[w].user
            /\ t.items = task[w].items /\ l \in {"claim", "insert"},
         UNCHANGED charges, orders' \subseteq orders,
         \A o \in orders' : /\ purchase'[o].charge = purchase[o].charge
                            /\ purchase'[o].line = purchase[o].line
                            /\ purchase'[o].user = purchase[o].user
  PROVE  ChargeInv'
<1>1. pc'[w] = l /\ task'[w] = t
  BY DEF StockInv, TypeOK
<1>2. \A v \in Worker \ {w} : pc'[v] = pc[v] /\ task'[v] = task[v]
  BY DEF StockInv, TypeOK
<1>3. \A v \in Worker : KeepsPayment(v)
  BY <1>1, <1>2, OthersKeep DEF KeepsPayment
<1> QED
  BY <1>3, QuietCharges

\* A worker outside create_purchase holds no payment.
LEMMA NoneHeld ==
  ASSUME StockInv, ChargeInv, NEW w \in Worker, pc[w] \notin {"claim", "insert"}
  PROVE  task[w].charge = 0
  BY DEF ChargeInv, PaymentHeldOnce

\* Stripe takes a payment: it is new, so no purchase is for it, and the
\* worker that asked is the only one to hold it.
LEMMA PaymentCharges ==
  ASSUME StockInv, ChargeInv, NEW w \in Worker, PaymentSucceeds(w)
  PROVE  ChargeInv'
<1> DEFINE n == Len(charges) + 1
           t == [task[w] EXCEPT !.charge = n]
<1>1. /\ charges \in Seq([user: User, items: Seq(Item)]) /\ Len(charges) \in Nat
      /\ task \in [Worker -> Task] /\ pc \in [Worker -> {"idle"} \cup Label \cup Answer]
      /\ purchase \in [Order -> Purchase] /\ orders \subseteq Order
  BY IdsInRange DEF StockInv, TypeOK
<1>2. /\ charges' = Append(charges, [user |-> task[w].user, items |-> task[w].items])
      /\ pc' = [pc EXCEPT ![w] = "claim"] /\ pc[w] = "pay"
      /\ UNCHANGED <<orders, purchase>>
  BY DEF PaymentSucceeds, purchasesTable
<1>3. /\ Len(charges') = n /\ charges'[n].user = task[w].user
      /\ charges'[n].items = task[w].items
      /\ \A k \in 1..Len(charges) : charges'[k] = charges[k]
  BY <1>1, <1>2
<1>4. task' = [task EXCEPT ![w] = t]
  BY <1>3 DEF PaymentSucceeds
<1>5. t.charge = n /\ t.user = task[w].user /\ t.items = task[w].items
  BY <1>1 DEF Task
<1> HIDE DEF t
<1>6. /\ task'[w] = t /\ pc'[w] = "claim"
      /\ \A v \in Worker \ {w} : task'[v] = task[v] /\ pc'[v] = pc[v]
  BY <1>1, <1>2, <1>4
<1>7. \A v \in Worker : task[v].charge \in Nat /\ task[v].charge <= Len(charges)
  BY <1>1 DEF StockInv, HandlersHoldTheirInputs, Task
<1>8. \A o \in orders : purchase[o].charge \in Nat /\ purchase[o].charge <= Len(charges)
  <2>1. \A o \in orders : purchase[o].charge \in Nat
    BY <1>1, BoundsAssumption DEF Purchase
  <2>2. \A o \in orders : purchase[o].charge # 0 => purchase[o].charge <= Len(charges)
    BY Zenon DEF ChargeInv, ChargedLineSoldOnce
  <2>3. \A c \in Nat : (c # 0 => c <= Len(charges)) => c <= Len(charges)
    BY <1>1
  <2> QED
    BY <2>1, <2>2, <2>3, Zenon
<1> HIDE DEF n
<1>9. n \in Nat /\ n > Len(charges)
  BY <1>1 DEF n
<1>10. ChargedLineSoldOnce'
  <2> SUFFICES ASSUME NEW o \in orders, purchase[o].charge # 0
               PROVE  /\ purchase[o].charge <= n
                      /\ charges'[purchase[o].charge].user = purchase[o].user
                      /\ purchase[o].line \in 1..Len(charges'[purchase[o].charge].items)
                      /\ \A p \in orders \ {o} :
                           <<purchase[p].charge, purchase[p].line>> #
                             <<purchase[o].charge, purchase[o].line>>
    BY <1>2, <1>3, Zenon DEF ChargedLineSoldOnce
  <2>1. purchase[o].charge \in 1..Len(charges)
    BY <1>1, <1>8
  <2>2. charges'[purchase[o].charge] = charges[purchase[o].charge]
    BY <1>3, <2>1
  <2> QED
    BY <1>1, <1>9, <2>1, <2>2 DEF ChargeInv, ChargedLineSoldOnce
<1>11. PaymentHeldOnce(w)'
  <2>1. \A v \in Worker \ {w} : task'[v].charge # n
    BY <1>1, <1>6, <1>7, <1>9
  <2>2. \A o \in orders' : purchase'[o].charge # n
    BY <1>1, <1>2, <1>8, <1>9
  <2> QED
    BY <1>3, <1>5, <1>6, <2>1, <2>2 DEF PaymentHeldOnce
<1>12. ASSUME NEW v \in Worker \ {w}
       PROVE  PaymentHeldOnce(v)'
  <2> SUFFICES ASSUME task[v].charge # 0
               PROVE  PaymentHeldOnce(v)'
    BY <1>6 DEF PaymentHeldOnce
  <2>1. task[v].charge \in 1..Len(charges) /\ PaymentHeldOnce(v)
    BY <1>1, <1>7 DEF ChargeInv
  <2>2. charges'[task[v].charge] = charges[task[v].charge] /\ task[v].charge # n
    BY <1>1, <1>3, <1>9, <2>1
  <2> QED
    BY <1>2, <1>5, <1>6, <2>1, <2>2 DEF PaymentHeldOnce
<1> QED
  BY <1>10, <1>11, <1>12 DEF ChargeInv

\* create_purchase commits: the payment becomes one purchase for each line.
LEMMA InsertCharges ==
  ASSUME StockInv, ChargeInv, NEW w \in Worker, InsertCommits(w)
  PROVE  ChargeInv'
<1> DEFINE t == task[w]
           n == Len(t.items)
           ids == nextOrder..(nextOrder + n - 1)
<1>1. t \in Task /\ HoldsInputs("insert", t) /\ PaymentHeldOnce(w) /\ t.charge <= Len(charges)
  BY DEF StockInv, TypeOK, HandlersHoldTheirInputs, InsertCommits, ChargeInv
<1>2. n \in Nat /\ t.items \in Seq(Item)
  <2>1. \A x \in Task : x.items \in Seq(Item)
    BY DEF Task
  <2>2. \A s \in Seq(Item) : Len(s) \in Nat
    OBVIOUS
  <2> QED
    BY <1>1, <2>1, <2>2, Zenon
<1>3. /\ nextOrder \in Nat \ {0} /\ nextOrder + n - 1 <= MaxOrder
      /\ orders \subseteq 1..(nextOrder - 1)
  BY SMTT(30) DEF StockInv, TypeOK, InsertCommits
<1>4. \A o \in Order : purchase'[o] =
        IF o \in ids THEN NewPurchase(t, o - nextOrder + 1) ELSE purchase[o]
  BY DEF InsertCommits, NewIds
<1>5. /\ orders' = orders \cup ids /\ charges' = charges
      /\ pc' = [pc EXCEPT ![w] = "ok"] /\ task' = [task EXCEPT ![w] = NoTask]
  BY Zenon DEF InsertCommits, NewIds, Finish
<1>6. /\ task'[w].charge = 0
      /\ \A v \in Worker \ {w} : task'[v] = task[v] /\ pc'[v] = pc[v]
  BY <1>5 DEF StockInv, TypeOK, NoTask
<1> HIDE DEF t, n
<1>7. ASSUME NEW o \in ids
      PROVE  /\ purchase'[o].charge = t.charge /\ purchase'[o].user = t.user
             /\ t.charge # 0 => purchase'[o].line = o - nextOrder + 1
             /\ o - nextOrder + 1 \in 1..n
  <2>1. o \in Order /\ o - nextOrder + 1 \in 1..n
    BY <1>2, <1>3, BoundsAssumption DEF Order
  <2>2. purchase'[o] = NewPurchase(t, o - nextOrder + 1)
    BY <2>1, <1>4
  <2>3. \A k : /\ NewPurchase(t, k).charge = t.charge /\ NewPurchase(t, k).user = t.user
               /\ t.charge # 0 => NewPurchase(t, k).line = k
    BY DEF NewPurchase
  <2> QED
    BY <2>1, <2>2, <2>3
<1>8. \A o \in orders : o \notin ids /\ purchase'[o] = purchase[o]
  <2>1. \A o \in orders : o \in Order /\ o \notin ids
    BY <1>2, <1>3, IdsInRange DEF StockInv
  <2> QED
    BY <1>4, <2>1
<1>9. t.charge # 0 =>
        /\ charges[t.charge].user = t.user /\ charges[t.charge].items = t.items
        /\ \A o \in orders : purchase[o].charge # t.charge
        /\ \A v \in Worker \ {w} : task[v].charge # t.charge
  BY <1>1 DEF PaymentHeldOnce, t
<1>10. ASSUME NEW o \in orders', purchase'[o].charge # 0
       PROVE  /\ purchase'[o].charge <= Len(charges)
              /\ charges[purchase'[o].charge].user = purchase'[o].user
              /\ purchase'[o].line \in 1..Len(charges[purchase'[o].charge].items)
              /\ \A p \in orders' \ {o} :
                   <<purchase'[p].charge, purchase'[p].line>> #
                     <<purchase'[o].charge, purchase'[o].line>>
  <2>1. CASE o \in ids
    <3>1. /\ purchase'[o].charge = t.charge /\ t.charge # 0 /\ purchase'[o].user = t.user
          /\ purchase'[o].line = o - nextOrder + 1 /\ o - nextOrder + 1 \in 1..n
      BY <1>7, <1>10, <2>1
    <3>2. ASSUME NEW p \in orders' \ {o}
          PROVE  purchase'[p].charge # t.charge \/ purchase'[p].line # o - nextOrder + 1
      <4>1. CASE p \in ids
        <5>1. purchase'[p].line = p - nextOrder + 1
          BY <1>7, <3>1, <4>1
        <5> QED
          BY <1>2, <1>3, <2>1, <4>1, <5>1
      <4>2. CASE p \in orders
        BY <1>8, <1>9, <3>1, <4>2
      <4> QED
        BY <1>5, <4>1, <4>2
    <3>3. /\ t.charge <= Len(charges) /\ charges[t.charge].user = t.user
          /\ Len(charges[t.charge].items) = n
      BY <1>1, <1>9, <3>1 DEF n
    <3> QED
      BY <3>1, <3>2, <3>3
  <2>2. CASE o \in orders
    <3>1. purchase'[o] = purchase[o]
      BY <1>8, <2>2
    <3>2. /\ purchase[o].charge <= Len(charges)
          /\ charges[purchase[o].charge].user = purchase[o].user
          /\ purchase[o].line \in 1..Len(charges[purchase[o].charge].items)
          /\ \A p \in orders \ {o} :
               <<purchase[p].charge, purchase[p].line>> #
                 <<purchase[o].charge, purchase[o].line>>
      BY <1>10, <2>2, <3>1 DEF ChargeInv, ChargedLineSoldOnce
    <3>3. ASSUME NEW p \in orders' \ {o}
          PROVE  <<purchase'[p].charge, purchase'[p].line>> #
                   <<purchase'[o].charge, purchase'[o].line>>
      <4>1. CASE p \in ids
        BY <1>7, <1>9, <1>10, <2>2, <3>1, <4>1
      <4>2. CASE p \in orders
        BY <1>8, <3>1, <3>2, <4>2
      <4> QED
        BY <1>5, <4>1, <4>2
    <3> QED
      BY <3>1, <3>2, <3>3
  <2> QED
    BY <1>5, <2>1, <2>2
<1>11. ChargedLineSoldOnce'
  BY <1>5, <1>10, Zenon DEF ChargedLineSoldOnce
<1>12. ASSUME NEW v \in Worker \ {w}, task[v].charge # 0
       PROVE  PaymentHeldOnce(v)'
  <2>1. PaymentHeldOnce(v) /\ task[v].charge # t.charge
    BY <1>12 DEF ChargeInv, PaymentHeldOnce, t
  <2>2. \A o \in orders' : purchase'[o].charge # task[v].charge
    BY <1>5, <1>7, <1>8, <1>12, <2>1 DEF PaymentHeldOnce
  <2>3. \A u \in Worker \ {v} : task'[u].charge # task[v].charge
    BY <1>6, <1>12, <2>1 DEF PaymentHeldOnce
  <2> QED
    BY <1>5, <1>6, <1>12, <2>1, <2>2, <2>3 DEF PaymentHeldOnce
<1>13. \A v \in Worker : PaymentHeldOnce(v)'
  BY <1>6, <1>12 DEF PaymentHeldOnce
<1> QED
  BY <1>11, <1>13 DEF ChargeInv

\* The other steps of a handler.
LEMMA WorkCharges ==
  ASSUME StockInv, ChargeInv, NEW w \in Worker, Work(w)
  PROVE  ChargeInv'
<1> USE DEF purchasesTable, inventoryTable, redisVars
<1>n. NoTask.charge = 0
  BY DEF NoTask
<1>1. ASSUME NEW a \in Answer, Finish(w, a), UNCHANGED <<charges, purchase>>,
             orders' \subseteq orders
      PROVE  ChargeInv'
  BY <1>n, <1>1, OneMovesCharges, Zenon DEF Finish
<1>2. CASE DecrementCommits(w)
  <2>1. /\ task' = [task EXCEPT ![w] = [task[w] EXCEPT !.upd = {}]]
        /\ pc' = [pc EXCEPT ![w] = "pend"] /\ pc[w] = "decrement"
        /\ UNCHANGED <<charges, orders, purchase>>
    BY <1>2 DEF DecrementCommits
  <2>2. task[w].charge = 0
    BY <2>1, NoneHeld
  <2>3. [task[w] EXCEPT !.upd = {}].charge = task[w].charge
    BY DEF StockInv, TypeOK, Task
  <2> QED
    BY <2>1, <2>2, <2>3, OneMovesCharges, Zenon
<1>3. CASE ClaimItem(w)
  <2> DEFINE t == [task[w] EXCEPT !.left = Tail(task[w].left), !.seen = SeenRows(w)]
             l == IF Len(task[w].left) = 1 THEN "insert" ELSE "claim"
  <2>1. task[w] \in Task
    BY DEF StockInv, TypeOK
  <2>2. /\ task' = [task EXCEPT ![w] = t] /\ pc' = [pc EXCEPT ![w] = l]
        /\ UNCHANGED <<charges, orders, purchase>>
    BY <1>3, <2>1, Zenon DEF ClaimItem, Task
  <2>3. /\ t.charge = task[w].charge /\ t.user = task[w].user /\ t.items = task[w].items
        /\ l \in {"claim", "insert"}
    BY <2>1 DEF Task
  <2> HIDE DEF t, l
  <2> QED
    BY <2>2, <2>3, OneMovesCharges, Zenon
<1>4. CASE UpdateCommits(w)
  <2> DEFINE o == task[w].order
  <2>1. /\ purchase' = [purchase EXCEPT ![o] = Patched(purchase[o], task[w].put)]
        /\ UNCHANGED <<charges, orders>>
        /\ task' = [task EXCEPT ![w] = NoTask] /\ pc' = [pc EXCEPT ![w] = "ok"]
    BY <1>4 DEF UpdateCommits, Finish
  <2>2. \A q \in orders : q \in Order /\ purchase[q] \in Purchase
    BY IdsInRange DEF StockInv, TypeOK
  <2>3. \A q \in orders : LET p == Patched(purchase[q], task[w].put) IN
          /\ p.charge = purchase[q].charge /\ p.line = purchase[q].line
          /\ p.user = purchase[q].user
    BY <2>2 DEF Patched, Purchase
  <2>4. \A q \in orders : purchase'[q] = purchase[q]
                          \/ purchase'[q] = Patched(purchase[q], task[w].put)
    BY <2>1, <2>2 DEF StockInv, TypeOK
  <2>5. \A q \in orders : /\ purchase'[q].charge = purchase[q].charge
                          /\ purchase'[q].line = purchase[q].line
                          /\ purchase'[q].user = purchase[q].user
    BY <2>3, <2>4
  <2> QED
    BY <1>n, <2>1, <2>5, OneMovesCharges, Zenon
<1>5. CASE \/ SetPending(w) \/ SetPendingFails(w) \/ InventoryCommits(w) \/ RestoreFails(w)
           \/ PaymentFails(w) \/ ClaimFails(w) \/ CommitFails(w)
  <2>1. /\ Finish(w, "ok") \/ Finish(w, "failed")
        /\ UNCHANGED <<charges, orders, purchase>>
    BY <1>5 DEF SetPending, SetPendingFails, InventoryCommits, RestoreFails, PaymentFails,
                ClaimFails, CommitFails
  <2> QED
    BY <1>1, <2>1 DEF Answer
<1>6. CASE DropCommits(w) \/ CancelCommits(w)
  <2>1. Finish(w, "ok") /\ UNCHANGED <<charges, purchase>> /\ orders' \subseteq orders
    BY <1>6 DEF DropCommits, CancelCommits
  <2> QED
    BY <1>1, <2>1 DEF Answer
<1> QED
  BY <1>2, <1>3, <1>4, <1>5, <1>6, PaymentCharges, InsertCharges DEF Work

\* A request: its handler holds no payment yet.
LEMMA RequestCharges ==
  ASSUME StockInv, ChargeInv, NEW w \in Worker, Request(w)
  PROVE  ChargeInv'
<1> USE DEF purchasesTable, inventoryTable, redisVars
<1>1. UNCHANGED <<charges, orders, purchase>>
  BY Zenon
  DEF Request, decrement_quantity, DecrementReads, DecrementRefused,
      increment_quantity, restore_reserved_inventory, create_inventory,
      edit_inventory, LookupFails, delete_inventory, RowNotFound,
      create_purchase, PurchaseRefused, update_purchase, UpdateRefused,
      delete_purchase, DeleteRefused, Refuse
<1>2. ASSUME NEW l, NEW t, Start(w, l, t), t.charge = 0
      PROVE  ChargeInv'
  BY <1>1, <1>2, OneMovesCharges, Zenon DEF Start
<1>3. ASSUME NEW l, pc[w] = "idle", pc' = [pc EXCEPT ![w] = l], UNCHANGED task
      PROVE  ChargeInv'
  <2>1. task' = [task EXCEPT ![w] = task[w]]
    BY <1>3 DEF StockInv, TypeOK
  <2>2. task[w].charge = 0
    BY <1>3, NoneHeld
  <2> QED
    BY <1>1, <1>3, <2>1, <2>2, OneMovesCharges, Zenon
<1>4. ASSUME Refuse(w)
      PROVE  ChargeInv'
  BY <1>3, <1>4, Zenon DEF Refuse
<1>5. ASSUME NEW u, NEW r, NEW q, DecrementReads(w, u, r, q)
      PROVE  ChargeInv'
  <2> DEFINE t == [NoTask EXCEPT !.user = u, !.row = r,
                     !.items = <<[inventory_id |-> r, quantity |-> q]>>,
                     !.upd = {<<r, Deducted(r, q)>>}]
  <2>1. Start(w, "decrement", t)
    BY <1>5 DEF DecrementReads
  <2>2. t.charge = 0
    BY DEF NoTask
  <2> HIDE DEF t
  <2> QED
    BY <1>2, <2>1, <2>2
<1>6. ASSUME NEW kit, NEW loc, NEW q, increment_quantity(w, kit, loc, q)
      PROVE  ChargeInv'
  <2>1. PICK r \in RowsAt(kit, loc) :
          Start(w, "increment", [NoTask EXCEPT !.upd = {<<r, stock[r] + q>>}])
    BY <1>6 DEF increment_quantity
  <2>2. [NoTask EXCEPT !.upd = {<<r, stock[r] + q>>}].charge = 0
    BY DEF NoTask
  <2> QED
    BY <1>2, <2>1, <2>2, Zenon
<1>7. ASSUME NEW u, NEW items, restore_reserved_inventory(w, u, items)
      PROVE  ChargeInv'
  <2> DEFINE back == {<<r, stock[r] + RestoredQuantity(items, r)>> :
                        r \in RestoredRows(items)}
             t == [NoTask EXCEPT !.user = u, !.upd = back]
  <2>1. Start(w, "restore", t)
    BY <1>7 DEF restore_reserved_inventory
  <2> HIDE DEF back
  <2>2. t.charge = 0
    BY DEF NoTask
  <2> HIDE DEF t
  <2> QED
    BY <1>2, <2>1, <2>2
<1>8. ASSUME NEW kit, NEW loc, NEW p, NEW q, edit_inventory(w, kit, loc, p, q)
      PROVE  ChargeInv'
  <2>1. PICK r \in RowsAt(kit, loc) :
          Start(w, "edit", [NoTask EXCEPT
                              !.row = r,
                              !.upd = IF q = stock[r] THEN {} ELSE {<<r, q>>},
                              !.move = IF p = place[r] THEN {} ELSE {<<r, p>>}])
    BY <1>8, Zenon DEF edit_inventory
  <2> DEFINE t == [NoTask EXCEPT !.row = r,
                     !.upd = IF q = stock[r] THEN {} ELSE {<<r, q>>},
                     !.move = IF p = place[r] THEN {} ELSE {<<r, p>>}]
  <2>2. t.charge = 0
    BY DEF NoTask
  <2>3. Start(w, "edit", t)
    BY <2>1
  <2> HIDE DEF t
  <2> QED
    BY <1>2, <2>2, <2>3
<1>9. ASSUME NEW kit, NEW loc, delete_inventory(w, kit, loc)
      PROVE  ChargeInv'
  <2>1. PICK r \in RowsAt(kit, loc) :
          Start(w, "drop", [NoTask EXCEPT !.row = r,
                              !.seen = {o \in orders : purchase[o].inventory_id = r}])
    BY <1>9, Zenon DEF delete_inventory
  <2>2. [NoTask EXCEPT !.row = r,
           !.seen = {o \in orders : purchase[o].inventory_id = r}].charge = 0
    BY DEF NoTask
  <2> QED
    BY <1>2, <2>1, <2>2, Zenon
<1>10. ASSUME NEW u, NEW items, create_purchase(w, u, items)
       PROVE  ChargeInv'
  <2> DEFINE t == [NoTask EXCEPT !.user = u, !.items = items, !.left = items]
             l == IF u \in Admin THEN "claim" ELSE "pay"
  <2>1. Start(w, l, t)
    BY <1>10 DEF create_purchase
  <2>2. t.charge = 0
    BY DEF NoTask
  <2> HIDE DEF t, l
  <2> QED
    BY <1>2, <2>1, <2>2
<1>11. ASSUME NEW o, NEW body, update_purchase(w, o, body)
       PROVE  ChargeInv'
  <2> DEFINE new == Patched(purchase[o], body)
             inv == new.inventory_id
             put == Changed(purchase[o], body)
             upd == CASE Returning(purchase[o], body) -> {<<inv, stock[inv] + new.quantity>>}
                      [] Reverting(purchase[o], body) -> {<<inv, stock[inv] - new.quantity>>}
                      [] OTHER -> {}
             t == [NoTask EXCEPT !.order = o, !.put = put, !.upd = upd]
  <2>1. Start(w, "update", t)
    BY <1>11 DEF update_purchase
  <2> HIDE DEF put, upd
  <2>2. t.charge = 0
    BY DEF NoTask
  <2> HIDE DEF t
  <2> QED
    BY <1>2, <2>1, <2>2
<1>12. ASSUME NEW u, NEW o, delete_purchase(w, u, o)
       PROVE  ChargeInv'
  <2>1. Start(w, "cancel", [NoTask EXCEPT !.order = o])
    BY <1>12 DEF delete_purchase
  <2>2. [NoTask EXCEPT !.order = o].charge = 0
    BY DEF NoTask
  <2> QED
    BY <1>2, <2>1, <2>2, Zenon
<1>13. ASSUME NEW kit, NEW loc, NEW q, create_inventory(w, kit, loc, q)
       PROVE  ChargeInv'
  BY <1>3, <1>13, Zenon DEF create_inventory
<1> QED
  BY <1>4, <1>5, <1>6, <1>7, <1>8, <1>9, <1>10, <1>11, <1>12, <1>13, Zenon
  DEF Request, decrement_quantity, DecrementRefused, RowNotFound, LookupFails,
      PurchaseRefused, UpdateRefused, DeleteRefused

LEMMA NextCharges ==
  StockInv /\ ChargeInv /\ [Next]_vars => ChargeInv'
<1> SUFFICES ASSUME StockInv, ChargeInv, [Next]_vars
             PROVE  ChargeInv'
  OBVIOUS
<1> USE DEF purchasesTable, inventoryTable, redisVars
<1>1. ASSUME NEW w \in Worker, Crash(w)
      PROVE  ChargeInv'
  <2>1. NoTask.charge = 0
    BY DEF NoTask
  <2> QED
    BY <1>1, <2>1, OneMovesCharges, Zenon DEF Crash, Finish
<1>2. ASSUME NEW w \in Worker, AnswerLost(w) \/ Deliver(w)
      PROVE  ChargeInv'
  <2>1. task' = [task EXCEPT ![w] = task[w]] /\ UNCHANGED <<charges, orders, purchase>>
    BY <1>2 DEF AnswerLost, Deliver, StockInv, TypeOK
  <2>2. task[w].charge = 0
    <3>1. pc[w] \notin {"claim", "insert"}
      BY <1>2 DEF AnswerLost, Deliver, Answer
    <3> QED
      BY <3>1, NoneHeld
  <2>3. PICK l : pc' = [pc EXCEPT ![w] = l]
    BY <1>2 DEF AnswerLost, Deliver
  <2> QED
    BY <2>1, <2>2, <2>3, OneMovesCharges, Zenon
<1>3. ASSUME UNCHANGED <<charges, orders, purchase, pc, task>>
      PROVE  ChargeInv'
  BY <1>3, OthersKeep, QuietCharges
<1>4. CASE Background
  BY <1>3, <1>4 DEF Background, PendingExpires, ListenerHandles
<1>5. CASE UNCHANGED vars
  BY <1>3, <1>5 DEF vars
<1> QED
  BY <1>1, <1>2, <1>4, <1>5, WorkCharges, RequestCharges DEF Next

\* Whatever workers race, die or are asked again, the payment a worker holds
\* is its own, and is for no purchase yet (purchase_routes.py, create_purchase).
THEOREM ChargeInvHolds == Spec => []ChargeInv
<1>1. Init => ChargeInv
  <2> SUFFICES ASSUME Init
               PROVE  ChargeInv
    OBVIOUS
  <2>1. \A o \in orders : purchase[o].charge = 0
    BY OpeningAssumption, BoundsAssumption, SMTT(30) DEF Init, Order
  <2>2. \A w \in Worker : task[w].charge = 0
    BY DEF Init, NoTask
  <2> QED
    BY <2>1, <2>2 DEF ChargeInv, ChargedLineSoldOnce, PaymentHeldOnce
<1> QED
  BY <1>1, StockInvHolds, NextCharges, PTL DEF Spec

\* A purchase is for a line of a payment of its customer, and no two are for
\* the same line.
THEOREM ChargedLineSoldOnceHolds == Spec => []ChargedLineSoldOnce
<1>1. ChargeInv => ChargedLineSoldOnce
  BY DEF ChargeInv
<1> QED
  BY <1>1, ChargeInvHolds, PTL
=============================================================================
