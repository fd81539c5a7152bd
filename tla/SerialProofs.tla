---------------------------- MODULE SerialProofs ----------------------------
(***************************************************************************)
(* Proofs about Store with one worker, for any number of users, rows,      *)
(* purchases and requests: returns balance, and reservations fit the       *)
(* stock.                                                                  *)
(***************************************************************************)
EXTENDS StoreProofs, FiniteSetTheorems

-----------------------------------------------------------------------------
(* Counting units.                                                         *)

LEMMA UnitsCount ==
  ASSUME NEW o, NEW q \in Nat
  PROVE  IsFiniteSet({o} \X (1..q)) /\ Cardinality({o} \X (1..q)) = q
<1>1. IsFiniteSet({o}) /\ Cardinality({o}) = 1
  BY FS_Singleton, Zenon
<1>2. IsFiniteSet(1..q) /\ Cardinality(1..q) = q
  BY FS_Interval
<1>3. IsFiniteSet({o} \X (1..q)) /\ Cardinality({o} \X (1..q)) = Cardinality({o}) * Cardinality(1..q)
  <2> DEFINE A == {o}
             B == 1..q
  <2>1. IsFiniteSet(A) /\ IsFiniteSet(B)
    BY <1>1, <1>2
  <2> HIDE DEF A, B
  <2>2. IsFiniteSet(A \X B) /\ Cardinality(A \X B) = Cardinality(A) * Cardinality(B)
    BY <2>1, FS_Product
  <2> QED
    BY <2>2 DEF A, B
<1>4. Cardinality({o}) * Cardinality(1..q) = q
  BY <1>1, <1>2
<1> QED
  BY <1>3, <1>4

LEMMA ReturnedFinite ==
  ASSUME NEW S, IsFiniteSet(S), NEW f, NEW r
  PROVE  /\ IsFiniteSet(ReturnedUnits(r, S, f))
         /\ Cardinality(ReturnedUnits(r, S, f)) \in Nat
<1>1. IsFiniteSet(S \X Quantity)
  <2>1. IsFiniteSet(Quantity)
    BY FS_Interval, BoundsAssumption DEF Quantity
  <2> QED
    BY <2>1, FS_Product
<1>2. ReturnedUnits(r, S, f) \in SUBSET (S \X Quantity)
  BY DEF ReturnedUnits
<1>3. IsFiniteSet(ReturnedUnits(r, S, f))
  BY <1>1, <1>2, FS_Subset
<1> QED
  BY <1>3, FS_CardinalityType

LEMMA OrdersFinite ==
  ASSUME StockInv
  PROVE  IsFiniteSet(orders)
<1>1. orders \in SUBSET (1..MaxOrder)
  BY IdsInRange DEF StockInv, Order
<1>2. IsFiniteSet(1..MaxOrder)
  BY FS_Interval, BoundsAssumption
<1> QED
  BY <1>1, <1>2, FS_Subset, Zenon

SameElsewhere(S, o, f, g) == \A x \in S : x # o => g[x] = f[x]

\* One purchase comes back, the others stay as they are.
LEMMA OneReturns ==
  ASSUME NEW S, IsFiniteSet(S), NEW f, NEW g, NEW o \in S, NEW r,
         SameElsewhere(S, o, f, g),
         f[o].quantity \in Quantity, g[o].quantity = f[o].quantity,
         g[o].inventory_id = f[o].inventory_id,
         f[o].status # "Returned", g[o].status = "Returned"
  PROVE  Cardinality(ReturnedUnits(r, S, g)) =
           Cardinality(ReturnedUnits(r, S, f)) +
             (IF r = f[o].inventory_id THEN f[o].quantity ELSE 0)
<1> DEFINE F == ReturnedUnits(r, S, f)
           G == ReturnedUnits(r, S, g)
           q == f[o].quantity
           N == {o} \X (1..q)
<1>1. q \in Nat /\ 1..q \subseteq Quantity
  BY BoundsAssumption DEF Quantity
<1>2. IsFiniteSet(F) /\ Cardinality(F) \in Nat
  BY ReturnedFinite
<1> USE DEF SameElsewhere
<1>3. CASE r = f[o].inventory_id
  <2>1. G = F \cup N
    <3>1. \A x \in S \X Quantity : x \in G <=> x \in F \/ x \in N
      <4> SUFFICES ASSUME NEW a \in S, NEW n \in Quantity
                   PROVE  <<a, n>> \in G <=> <<a, n>> \in F \/ <<a, n>> \in N
        OBVIOUS
      <4>1. <<a, n>> \in N <=> a = o /\ n <= q
        BY <1>1, BoundsAssumption DEF Quantity
      <4>2. <<a, n>> \in F <=> f[a].inventory_id = r /\ f[a].status = "Returned" /\ n <= f[a].quantity
        BY DEF ReturnedUnits
      <4>3. <<a, n>> \in G <=> g[a].inventory_id = r /\ g[a].status = "Returned" /\ n <= g[a].quantity
        BY DEF ReturnedUnits
      <4> QED
        BY <1>3, <4>1, <4>2, <4>3
    <3>2. F \subseteq S \X Quantity /\ G \subseteq S \X Quantity
      BY DEF ReturnedUnits
    <3>3. N \subseteq S \X Quantity
      BY <1>1
    <3> QED
      BY <3>1, <3>2, <3>3
  <2>2. F \cap N = {}
    BY DEF ReturnedUnits
  <2>3. IsFiniteSet(N) /\ Cardinality(N) = q
    BY <1>1, UnitsCount, Zenon
  <2>4. Cardinality({}) = 0
    BY FS_EmptySet
  <2>5. Cardinality(F \cup N) = Cardinality(F) + Cardinality(N) - Cardinality(F \cap N)
    BY <1>2, <2>3, FS_Union
  <2> HIDE DEF F, N, G, q
  <2>6. Cardinality(F \cup N) = Cardinality(F) + q
    BY <1>1, <1>2, <2>2, <2>3, <2>4, <2>5
  <2> QED
    BY <1>3, <2>1, <2>6 DEF F, G, q
<1>4. CASE r # f[o].inventory_id
  <2>1. G = F
    BY <1>4 DEF ReturnedUnits
  <2> QED
    BY <1>2, <1>4, <2>1
<1> QED
  BY <1>3, <1>4

\* Purchases change, or are added, with none that comes back.
LEMMA NoneReturns ==
  ASSUME NEW S, NEW T, S \subseteq T, NEW f, NEW g, NEW r,
         \A x \in S : /\ g[x].quantity = f[x].quantity
                      /\ g[x].inventory_id = f[x].inventory_id
                      /\ g[x].status = "Returned" <=> f[x].status = "Returned",
         \A x \in T \ S : g[x].status # "Returned"
  PROVE  ReturnedUnits(r, T, g) = ReturnedUnits(r, S, f)
  BY DEF ReturnedUnits

-----------------------------------------------------------------------------
(* Returns balance.                                                        *)

\* What update_purchase commits moves the stock as it moves the returns.
LEMMA UpdateShifts ==
  ASSUME StockInv, NEW w \in Worker, UpdateIsFresh(w), UpdateCommits(w), NEW r \in Row
  PROVE  /\ Returned(r) \in Nat /\ Returned(r)' \in Nat
         /\ stock[r] \in Int /\ stock'[r] \in Int
         /\ stock'[r] + Returned(r) = stock[r] + Returned(r)'
<1> DEFINE t == task[w]
           o == t.order
           p == purchase[o]
           s == p.inventory_id
           n == purchase'[o]
<1>1. /\ pc[w] = "update" /\ stock' = Updated(stock, t.upd) /\ orders' = orders
      /\ purchase' = [purchase EXCEPT ![o] = Patched(p, t.put)]
  BY DEF UpdateCommits
<1>2. /\ o \in orders /\ s \in rows
      /\ t.put.quantity = 0 /\ t.put.inventory_id = 0
      /\ \/ /\ p.status # "Returned" /\ t.put.status = "Returned"
            /\ t.upd = {<<s, stock[s] + p.quantity>>}
         \/ /\ p.status = "Returned" /\ t.put.status \notin {"", "Returned"}
            /\ t.upd = {<<s, stock[s] - p.quantity>>}
         \/ /\ IF p.status = "Returned" THEN t.put.status = "" ELSE t.put.status # "Returned"
            /\ t.upd = {}
  BY <1>1, Zenon DEF UpdateIsFresh
<1>3. /\ purchase \in [Order -> Purchase] /\ stock \in [Row -> Int]
      /\ orders \subseteq Order /\ rows \subseteq Row
  BY IdsInRange DEF StockInv, TypeOK
<1>4. p \in Purchase /\ o \in Order /\ s \in Row
  BY <1>2, <1>3, Zenon
<1>5. p.quantity \in Quantity /\ p.quantity \in Nat
  BY <1>4, BoundsAssumption DEF Purchase, Quantity
<1>6. /\ n.quantity = p.quantity /\ n.inventory_id = s
      /\ n.status = IF t.put.status = "" THEN p.status ELSE t.put.status
  <2>1. n = Patched(p, t.put)
    BY <1>1, <1>3, <1>4
  <2> HIDE DEF n, p, t
  <2>2. /\ Patched(p, t.put).quantity = p.quantity /\ Patched(p, t.put).inventory_id = p.inventory_id
        /\ Patched(p, t.put).status = IF t.put.status = "" THEN p.status ELSE t.put.status
    BY <1>2, <1>4, Zenon DEF Patched, Purchase
  <2> QED
    BY <2>1, <2>2, Zenon
<1>7. SameElsewhere(orders, o, purchase, purchase') /\ SameElsewhere(orders, o, purchase', purchase)
  BY <1>1, <1>3 DEF SameElsewhere
<1>8. IsFiniteSet(orders)
  BY OrdersFinite
<1>9. /\ Returned(r) = Cardinality(ReturnedUnits(r, orders, purchase))
      /\ Returned(r)' = Cardinality(ReturnedUnits(r, orders, purchase'))
  BY <1>1 DEF Returned
<1>10. Returned(r) \in Nat /\ Returned(r)' \in Nat
  BY <1>8, <1>9, ReturnedFinite
<1>11. stock[r] \in Int /\ stock[s] \in Int
  BY <1>3, <1>4
<1> HIDE DEF t, o, p, s, n
<1>12. CASE /\ p.status # "Returned" /\ t.put.status = "Returned"
            /\ t.upd = {<<s, stock[s] + p.quantity>>}
  <2>1. n.status = "Returned"
    BY <1>6, <1>12
  <2>2. Returned(r)' = Returned(r) + (IF r = s THEN p.quantity ELSE 0)
    <3>1. /\ o \in orders /\ purchase[o].quantity \in Quantity
          /\ purchase'[o].quantity = purchase[o].quantity
          /\ purchase'[o].inventory_id = purchase[o].inventory_id
          /\ purchase[o].status # "Returned" /\ purchase'[o].status = "Returned"
      BY <1>2, <1>5, <1>6, <1>12, <2>1 DEF n, p, s
    <3>2. Cardinality(ReturnedUnits(r, orders, purchase')) =
            Cardinality(ReturnedUnits(r, orders, purchase)) +
              (IF r = purchase[o].inventory_id THEN purchase[o].quantity ELSE 0)
      BY <1>7, <1>8, <3>1, OneReturns
    <3> QED
      BY <1>9, <3>2 DEF p, s
  <2>3. stock'[r] = IF r = s THEN stock[s] + p.quantity ELSE stock[r]
    <3> DEFINE v == stock[s] + p.quantity
    <3>1. stock' = Updated(stock, {<<s, v>>})
      BY <1>1, <1>12
    <3> HIDE DEF v
    <3>2. r # s => stock'[r] = stock[r]
      BY <3>1 DEF Updated
    <3>3. stock'[s] = v
      <4>1. (CHOOSE x \in {<<s, v>>} : x[1] = s) = <<s, v>>
        OBVIOUS
      <4>2. \E x \in {<<s, v>>} : x[1] = s
        OBVIOUS
      <4>3. stock'[s] = (CHOOSE x \in {<<s, v>>} : x[1] = s)[2]
        BY <1>4, <3>1, <4>2 DEF Updated
      <4> QED
        BY <4>1, <4>3
    <3> QED
      BY <3>2, <3>3 DEF v
  <2> QED
    BY <1>5, <1>10, <1>11, <2>2, <2>3
<1>13. CASE /\ p.status = "Returned" /\ t.put.status \notin {"", "Returned"}
            /\ t.upd = {<<s, stock[s] - p.quantity>>}
  <2>1. n.status # "Returned"
    BY <1>6, <1>13, Zenon
  <2>2. Returned(r) = Returned(r)' + (IF r = s THEN p.quantity ELSE 0)
    <3>1. /\ o \in orders /\ purchase'[o].quantity \in Quantity
          /\ purchase[o].quantity = purchase'[o].quantity
          /\ purchase[o].inventory_id = purchase'[o].inventory_id
          /\ purchase'[o].status # "Returned" /\ purchase[o].status = "Returned"
      BY <1>2, <1>5, <1>6, <1>13, <2>1, Zenon DEF n, p, s
    <3>2. Cardinality(ReturnedUnits(r, orders, purchase)) =
            Cardinality(ReturnedUnits(r, orders, purchase')) +
              (IF r = purchase'[o].inventory_id THEN purchase'[o].quantity ELSE 0)
      BY <1>7, <1>8, <3>1, OneReturns
    <3> QED
      BY <1>6, <1>9, <3>2, Zenon DEF n, p, s
  <2>3. stock'[r] = IF r = s THEN stock[s] - p.quantity ELSE stock[r]
    <3> DEFINE v == stock[s] - p.quantity
    <3>1. stock' = Updated(stock, {<<s, v>>})
      BY <1>1, <1>13, Zenon
    <3> HIDE DEF v
    <3>2. r # s => stock'[r] = stock[r]
      BY <3>1 DEF Updated
    <3>3. stock'[s] = v
      <4>1. (CHOOSE x \in {<<s, v>>} : x[1] = s) = <<s, v>>
        OBVIOUS
      <4>2. \E x \in {<<s, v>>} : x[1] = s
        OBVIOUS
      <4>3. stock'[s] = (CHOOSE x \in {<<s, v>>} : x[1] = s)[2]
        BY <1>4, <3>1, <4>2 DEF Updated
      <4> QED
        BY <4>1, <4>3
    <3> QED
      BY <3>2, <3>3 DEF v
  <2> QED
    BY <1>5, <1>10, <1>11, <2>2, <2>3
<1>14. CASE /\ IF p.status = "Returned" THEN t.put.status = "" ELSE t.put.status # "Returned"
            /\ t.upd = {}
  <2>1. n.status = "Returned" <=> p.status = "Returned"
    BY <1>6, <1>14, Zenon
  <2>2. \A x \in orders : /\ purchase'[x].quantity = purchase[x].quantity
                          /\ purchase'[x].inventory_id = purchase[x].inventory_id
                          /\ purchase'[x].status = "Returned" <=> purchase[x].status = "Returned"
    BY <1>6, <1>7, <2>1, Zenon DEF n, p, s, SameElsewhere
  <2>3. Returned(r)' = Returned(r)
    BY <1>9, <2>2, NoneReturns
  <2>4. stock'[r] = stock[r]
    BY <1>1, <1>14, Zenon DEF Updated
  <2> QED
    BY <1>10, <1>11, <2>3, <2>4
<1> QED
  BY <1>2, <1>12, <1>13, <1>14, Zenon

LEMMA UpdateBalances ==
  ASSUME OneWorker, StockInv, FreshInv, [Next]_vars, NEW w \in Worker,
         pc[w] = "update", pc'[w] # "update", NEW r \in rows
  PROVE  stock'[r] - stock[r] = Returned(r)' - Returned(r)
<1>1. r \in Row /\ IsFiniteSet(orders) /\ stock[r] \in Int
  BY IdsInRange, OrdersFinite DEF StockInv, TypeOK
<1>2. Returned(r) \in Nat
  BY <1>1, ReturnedFinite DEF Returned
<1>3. ASSUME stock' = stock, orders' = orders, purchase' = purchase
      PROVE  stock'[r] - stock[r] = Returned(r)' - Returned(r)
  <2>1. Returned(r)' = Returned(r)
    BY <1>3 DEF Returned
  <2> QED
    BY <1>1, <1>2, <1>3, <2>1
<1>4. CASE UNCHANGED vars
  BY <1>4 DEF vars
<1>5. CASE Background
  BY <1>5, BackgroundLeavesTables DEF FreshInv, NoData
<1>6. CASE \E v \in Worker : Request(v) \/ Work(v) \/ Crash(v) \/ AnswerLost(v) \/ Deliver(v)
  <2>1. Request(w) \/ Work(w) \/ Crash(w) \/ AnswerLost(w) \/ Deliver(w)
    BY <1>6, Zenon DEF OneWorker
  <2>2. ~Request(w)
    BY Zenon
    DEF Request, decrement_quantity, DecrementReads, DecrementRefused, increment_quantity,
        RowNotFound, restore_reserved_inventory, LookupFails, create_inventory, edit_inventory,
        delete_inventory, create_purchase, PurchaseRefused, update_purchase, UpdateRefused,
        delete_purchase, DeleteRefused, Start, Refuse
  <2>3. ~AnswerLost(w) /\ ~Deliver(w)
    BY DEF AnswerLost, Deliver, Answer
  <2>4. Work(w) => UpdateCommits(w) \/ CommitFails(w)
    BY DEF Work, DecrementCommits, SetPending, SetPendingFails, InventoryCommits, RestoreFails,
        DropCommits, PaymentSucceeds, PaymentFails, ClaimItem, ClaimFails, InsertCommits,
        CancelCommits
  <2>5. CASE UpdateCommits(w)
    <3>1. UpdateIsFresh(w)
      BY DEF FreshInv
    <3> QED
      BY <1>1, <2>5, <3>1, UpdateShifts
  <2>6. CASE CommitFails(w) \/ Crash(w)
    BY <1>3, <2>6 DEF CommitFails, Crash, inventoryTable, purchasesTable
  <2> QED
    BY <2>1, <2>2, <2>3, <2>4, <2>5, <2>6
<1> QED
  BY <1>4, <1>5, <1>6 DEF Next

\* Returns balance, for one worker and PUTs that name a status, through any
\* sequence of requests, failures and crashes: when update_purchase ends, each
\* row's stock has moved by exactly the units whose return it recorded or took
\* back.
THEOREM ReturnsBalanceHolds ==
  ASSUME OneWorker, StatusOnly
  PROVE  Spec => ReturnsBalance
<1>1. StockInv /\ FreshInv /\ [Next]_vars =>
        [\A w \in Worker :
           pc[w] = "update" /\ pc'[w] # "update" =>
             \A r \in rows : stock'[r] - stock[r] = Returned(r)' - Returned(r)]_vars
  BY UpdateBalances
<1> QED
  BY <1>1, StockInvHolds, FreshInvHolds, PTL DEF Spec, ReturnsBalance

-----------------------------------------------------------------------------
(* Reservations fit the stock.                                             *)

\* The handlers that move stock by reservations, returns and new rows only.
ReserveAndReturn == Ops \subseteq {"decrement", "purchase", "update", "create"}

\* The units of a row that the pending keys of a Redis f account for.
PendingUnits(r, f) == {x \in User \X Quantity : x[2] <= f[PendingKey(r, x[1])]}

LEMMA PendingFinite ==
  ASSUME IsFiniteSet(User), NEW r, NEW f
  PROVE  /\ IsFiniteSet(PendingUnits(r, f))
         /\ Cardinality(PendingUnits(r, f)) \in Nat
<1>1. IsFiniteSet(Quantity)
  BY FS_Interval, BoundsAssumption DEF Quantity
<1>2. IsFiniteSet(User \X Quantity)
  BY <1>1, FS_Product
<1>3. PendingUnits(r, f) \in SUBSET (User \X Quantity)
  BY DEF PendingUnits
<1>4. IsFiniteSet(PendingUnits(r, f))
  BY <1>2, <1>3, FS_Subset
<1> QED
  BY <1>4, FS_CardinalityType

PendingShrinks(r, f, g) == \A u \in User : g[PendingKey(r, u)] = f[PendingKey(r, u)] \/ g[PendingKey(r, u)] = 0

LEMMA FewerPending ==
  ASSUME IsFiniteSet(User), NEW r, NEW f, NEW g, PendingShrinks(r, f, g)
  PROVE  Cardinality(PendingUnits(r, g)) <= Cardinality(PendingUnits(r, f))
<1>1. PendingUnits(r, g) \in SUBSET PendingUnits(r, f)
  BY BoundsAssumption DEF PendingUnits, PendingShrinks, Quantity
<1> QED
  BY <1>1, PendingFinite, FS_Subset

PendingElsewhere(r, v, f, g) == \A u \in User : u # v => g[PendingKey(r, u)] = f[PendingKey(r, u)]

LEMMA MorePending ==
  ASSUME IsFiniteSet(User), NEW r, NEW v \in User, NEW q \in Quantity, NEW f, NEW g,
         PendingElsewhere(r, v, f, g), g[PendingKey(r, v)] = q
  PROVE  Cardinality(PendingUnits(r, g)) <= Cardinality(PendingUnits(r, f)) + q
<1> DEFINE F == PendingUnits(r, f)
           G == PendingUnits(r, g)
           N == {v} \X (1..q)
<1>1. q \in Nat /\ 1..q \subseteq Quantity
  BY BoundsAssumption DEF Quantity
<1>2. G \in SUBSET (F \cup N)
  <2> SUFFICES ASSUME NEW u \in User, NEW n \in Quantity, <<u, n>> \in G
               PROVE  <<u, n>> \in F \/ <<u, n>> \in N
    BY DEF PendingUnits
  <2>1. n <= g[PendingKey(r, u)]
    BY DEF PendingUnits
  <2>2. CASE u = v
    BY <1>1, <2>1, <2>2, BoundsAssumption DEF Quantity
  <2>3. CASE u # v
    BY <2>1, <2>3 DEF PendingUnits, PendingElsewhere
  <2> QED
    BY <2>2, <2>3
<1>3. IsFiniteSet(F) /\ Cardinality(F) \in Nat /\ IsFiniteSet(G) /\ Cardinality(G) \in Nat
  BY PendingFinite
<1>4. IsFiniteSet(N) /\ Cardinality(N) = q
  BY <1>1, UnitsCount, Zenon
<1> HIDE DEF F, G, N
<1>5. /\ IsFiniteSet(F \cup N)
      /\ Cardinality(F \cup N) = Cardinality(F) + Cardinality(N) - Cardinality(F \cap N)
  BY <1>3, <1>4, FS_Union
<1>6. Cardinality(F \cap N) \in Nat
  <2>1. F \cap N \in SUBSET F
    OBVIOUS
  <2>2. IsFiniteSet(F \cap N)
    BY <1>3, <2>1, FS_Subset
  <2> QED
    BY <2>2, FS_CardinalityType
<1>7. Cardinality(G) <= Cardinality(F \cup N)
  BY <1>2, <1>5, FS_Subset
<1>8. Cardinality(G) <= Cardinality(F) + q
  BY <1>1, <1>3, <1>4, <1>5, <1>6, <1>7
<1> QED
  BY <1>8 DEF F, G

\* The numbers that Fits adds up are numbers, before a step and after it.
LEMMA FitTypes ==
  ASSUME StockInv, StockInv', IsFiniteSet(User), NEW r \in 1..Len(Opening)
  PROVE  /\ r \in Row
         /\ Opening[r].quantity \in Nat /\ OpeningReturned(r) \in Nat
         /\ stock[r] \in Int /\ stock'[r] \in Int
         /\ Reserved(r) \in Nat /\ Reserved(r)' \in Nat
         /\ Returned(r) \in Nat /\ Returned(r)' \in Nat
<1>1. r \in Row /\ Opening[r].quantity \in Nat
  <2>1. Len(Opening) \in Nat /\ Len(Opening) <= MaxRow
    BY OpeningAssumption
  <2> DEFINE T == [kit: Kit, loc: Location, quantity: 0..MaxStock]
  <2>2. Opening[r] \in T
    <3>1. Opening \in Seq(T)
      BY OpeningAssumption
    <3> HIDE DEF T
    <3> QED
      BY <3>1
  <2>3. Opening[r].quantity \in 0..MaxStock
    BY <2>2
  <2> QED
    BY <2>1, <2>3, BoundsAssumption DEF Row
<1>2. stock[r] \in Int /\ stock'[r] \in Int
  BY <1>1 DEF StockInv, TypeOK
<1>3. Reserved(r) \in Nat /\ Reserved(r)' \in Nat
  BY PendingFinite, Zenon DEF Reserved, ReservedUnits, PendingUnits
<1>4. IsFiniteSet(orders) /\ IsFiniteSet(orders')
  <2>1. orders \in SUBSET (1..MaxOrder) /\ orders' \in SUBSET (1..MaxOrder)
    <3>1. nextOrder \in 1..(MaxOrder + 1) /\ orders \subseteq 1..(nextOrder - 1)
      BY DEF StockInv, TypeOK
    <3>2. nextOrder' \in 1..(MaxOrder + 1) /\ orders' \subseteq 1..(nextOrder' - 1)
      BY Zenon DEF StockInv, TypeOK
    <3>3. ASSUME NEW n \in 1..(MaxOrder + 1), NEW S, S \subseteq 1..(n - 1)
          PROVE  S \in SUBSET (1..MaxOrder)
      BY <3>3, BoundsAssumption
    <3> QED
      BY <3>1, <3>2, <3>3, Zenon
  <2>2. IsFiniteSet(1..MaxOrder)
    BY FS_Interval, BoundsAssumption
  <2> QED
    BY <2>1, <2>2, FS_Subset, Zenon
<1>5. Returned(r) \in Nat /\ Returned(r)' \in Nat
  BY <1>4, ReturnedFinite DEF Returned
<1>6. OpeningReturned(r) \in Nat
  <2>1. Len(OpeningOrders) \in Nat
    BY OpeningAssumption
  <2>2. IsFiniteSet(1..Len(OpeningOrders))
    BY <2>1, FS_Interval
  <2> QED
    BY <2>2, ReturnedFinite DEF OpeningReturned
<1> QED
  BY <1>1, <1>2, <1>3, <1>5, <1>6

\* The sum that Fits bounds does not grow, except by what n gives.
LEMMA FitMoves ==
  ASSUME StockInv, StockInv', IsFiniteSet(User), NEW r \in 1..Len(Opening),
         NEW n \in Nat, NEW m \in Nat, Fits(r, n),
         stock'[r] + Reserved(r)' + m + Returned(r) <= stock[r] + Reserved(r) + n + Returned(r)'
  PROVE  Fits(r, m)'
<1>1. /\ Opening[r].quantity \in Nat /\ OpeningReturned(r) \in Nat
      /\ stock[r] \in Int /\ stock'[r] \in Int
      /\ Reserved(r) \in Nat /\ Reserved(r)' \in Nat
      /\ Returned(r) \in Nat /\ Returned(r)' \in Nat
  BY FitTypes
<1>2. stock[r] + Reserved(r) + n <= Opening[r].quantity - OpeningReturned(r) + Returned(r)
  BY DEF Fits
<1>3. stock'[r] + Reserved(r)' + m <= Opening[r].quantity - OpeningReturned(r) + Returned(r)'
  <2>1. PICK a \in Int, b \in Nat, c \in Nat, d \in Int, e \in Nat, f \in Nat, x \in Nat, y \in Nat :
          /\ a = stock[r] /\ b = Reserved(r) /\ c = Returned(r)
          /\ d = stock'[r] /\ e = Reserved(r)' /\ f = Returned(r)'
          /\ x = Opening[r].quantity /\ y = OpeningReturned(r)
    BY <1>1, Zenon
  <2>2. a + b + n <= x - y + c
    BY <1>2, <2>1, Zenon
  <2>3. d + e + m + c <= a + b + n + f
    BY <2>1, Zenon
  <2>4. d + e + m <= x - y + f
    BY <2>2, <2>3
  <2> QED
    BY <2>1, <2>4, Zenon
<1>4. OpeningReturned(r)' = OpeningReturned(r)
  BY DEF OpeningReturned, ReturnedUnits
<1> QED
  BY <1>3, <1>4, Zenon DEF Fits

\* Neither the stock nor the returns of the row move, and no reservation is made.
LEMMA FitStays ==
  ASSUME StockInv, StockInv', IsFiniteSet(User), NEW r \in 1..Len(Opening),
         NEW n \in Nat, Fits(r, n), stock'[r] = stock[r], Returned(r)' = Returned(r),
         PendingShrinks(r, redis, redis')
  PROVE  Fits(r, n)'
<1>1. Reserved(r)' <= Reserved(r)
  BY FewerPending DEF Reserved, ReservedUnits, PendingUnits
<1>2. stock'[r] + Reserved(r)' + n + Returned(r) <= stock[r] + Reserved(r) + n + Returned(r)'
  BY <1>1, FitTypes
<1> QED
  BY <1>2, FitMoves

\* Stock and returns move alike, and what is reserved does not grow.
LEMMA SumMoves ==
  ASSUME NEW a \in Int, NEW d \in Int, NEW b \in Nat, NEW e \in Nat,
         NEW c \in Nat, NEW f \in Nat, d + c = a + f, e <= b
  PROVE  d + e + 0 + c <= a + b + 0 + f
  OBVIOUS

\* A worker that does not hold units in hand, and holds none after its step.
\* (All are the same worker.)
LEMMA FitAnswers ==
  ASSUME OneWorker, StockInv, StockInv', IsFiniteSet(User), FitInv, NEW w \in Worker,
         nextRow' >= nextRow, DecrementIsFresh(w)',
         pc'[w] \notin {"pend", "increment", "restore", "edit", "drop", "cancel"},
         \A r \in 1..Len(Opening) :
           /\ PendingShrinks(r, redis, redis')
           /\ stock'[r] + Returned(r) = stock[r] + Returned(r)'
  PROVE  FitInv'
<1>1. \A v \in Worker : v = w
  BY DEF OneWorker
<1>2. (nextRow > Len(Opening))'
  BY OpeningAssumption DEF FitInv, StockInv, TypeOK
<1>3. ASSUME NEW r \in 1..Len(Opening) PROVE Fits(r, 0)'
  <2>1. Fits(r, 0)
    BY DEF FitInv
  <2>2. Reserved(r)' <= Reserved(r)
    BY FewerPending DEF Reserved, ReservedUnits, PendingUnits
  <2>t. /\ stock[r] \in Int /\ stock'[r] \in Int
        /\ Reserved(r) \in Nat /\ Reserved(r)' \in Nat
        /\ Returned(r) \in Nat /\ Returned(r)' \in Nat
    BY FitTypes, Zenon
  <2>e. stock'[r] + Returned(r) = stock[r] + Returned(r)'
    OBVIOUS
  <2>3. stock'[r] + Reserved(r)' + 0 + Returned(r) <= stock[r] + Reserved(r) + 0 + Returned(r)'
    BY <2>2, <2>t, <2>e, SumMoves, Zenon
  <2> QED
    BY <2>1, <2>3, FitMoves
<1> QED
  BY <1>1, <1>2, <1>3 DEF FitInv

\* What the session's one item is, in a decrement.
LEMMA InHand ==
  ASSUME StockInv, NEW w \in Worker, pc[w] \in {"decrement", "pend"}
  PROVE  /\ task[w].row \in Row /\ task[w].user \in User
         /\ task[w].items[1].quantity \in Quantity /\ task[w].items[1].quantity \in Nat
<1>1. task[w] \in Task /\ HoldsInputs(pc[w], task[w])
  BY DEF StockInv, TypeOK, HandlersHoldTheirInputs
<1>2. /\ task[w].row \in Row /\ task[w].user \in User
      /\ task[w].items \in Seq(Item) /\ Len(task[w].items) = 1
  BY <1>1 DEF Task, HoldsInputs
<1>3. task[w].items[1] \in Item
  BY <1>2
<1> QED
  BY <1>2, <1>3, BoundsAssumption DEF Item, Quantity

\* decrement_quantity's commit takes the units it will reserve off the shelf.
LEMMA DecrementCommitFits ==
  ASSUME OneWorker, StockInv, StockInv', IsFiniteSet(User), FitInv, NEW w \in Worker,
         DecrementCommits(w)
  PROVE  FitInv'
<1>1. PICK s \in Row, q \in Quantity : s = task[w].row /\ q = task[w].items[1].quantity
  BY InHand DEF DecrementCommits
<1>2. q \in Nat
  BY BoundsAssumption DEF Quantity
<1>3. /\ pc[w] = "decrement" /\ stock' = Updated(stock, task[w].upd)
      /\ pc' = [pc EXCEPT ![w] = "pend"] /\ task' = [task EXCEPT ![w].upd = {}]
      /\ UNCHANGED <<nextRow, orders, purchase, redis>>
  BY DEF DecrementCommits, purchasesTable, redisVars
<1>4. task[w].upd = {<<s, stock[s] - q>>}
  BY <1>1, <1>3 DEF FitInv, DecrementIsFresh
<1>5. pc'[w] = "pend" /\ task'[w].row = s /\ task'[w].items[1].quantity = q
  <2>1. pc \in [Worker -> {"idle"} \cup Label \cup Answer] /\ task \in [Worker -> Task]
    BY DEF StockInv, TypeOK
  <2>2. task[w] \in Task
    BY <2>1
  <2>3. task'[w].row = task[w].row /\ task'[w].items = task[w].items
    BY <1>3, <2>1, <2>2, Zenon DEF Task
  <2> QED
    BY <1>1, <1>3, <2>1, <2>3
<1>6. stock'[s] = stock[s] - q
  <2> DEFINE v == stock[s] - q
  <2>1. (CHOOSE x \in {<<s, v>>} : x[1] = s) = <<s, v>>
    OBVIOUS
  <2>2. \E x \in {<<s, v>>} : x[1] = s
    OBVIOUS
  <2>3. stock'[s] = (CHOOSE x \in {<<s, v>>} : x[1] = s)[2]
    BY <1>3, <1>4, <2>2 DEF Updated
  <2> HIDE DEF v
  <2>4. stock'[s] = v
    BY <2>1, <2>3
  <2> QED
    BY <2>4 DEF v
<1>7. \A r \in Row : r # s => stock'[r] = stock[r]
  BY <1>3, <1>4 DEF Updated
<1>8. ASSUME NEW r \in 1..Len(Opening)
      PROVE  Fits(r, 0)' /\ (r = s => Fits(r, q)')
  <2>1. Fits(r, 0)
    BY DEF FitInv
  <2>2. Reserved(r)' = Reserved(r) /\ Returned(r)' = Returned(r)
    BY <1>3 DEF Reserved, ReservedUnits, Returned
  <2>3. CASE r # s
    <3>1. stock'[r] = stock[r]
      BY <1>7, <2>3, FitTypes
    <3>2. stock'[r] + Reserved(r)' + 0 + Returned(r) <= stock[r] + Reserved(r) + 0 + Returned(r)'
      BY <2>2, <3>1, FitTypes
    <3> QED
      BY <2>1, <2>3, <3>2, FitMoves
  <2>4. CASE r = s
    <3>1. stock'[r] = stock[r] - q
      BY <1>6, <2>4
    <3>2. /\ stock'[r] + Reserved(r)' + q + Returned(r) <= stock[r] + Reserved(r) + 0 + Returned(r)'
          /\ stock'[r] + Reserved(r)' + 0 + Returned(r) <= stock[r] + Reserved(r) + 0 + Returned(r)'
      BY <1>2, <2>2, <3>1, FitTypes
    <3> QED
      BY <1>2, <2>1, <3>2, FitMoves
  <2> QED
    BY <2>3, <2>4
<1>9. \A v \in Worker : v = w
  BY DEF OneWorker
<1>10. (nextRow > Len(Opening))'
  BY <1>3 DEF FitInv
<1>11. DecrementIsFresh(w)'
  BY <1>5 DEF DecrementIsFresh
<1> QED
  BY <1>5, <1>8, <1>9, <1>10, <1>11 DEF FitInv

\* The pending key accounts for the units in hand, replacing the user's old one.
LEMMA SetPendingFits ==
  ASSUME OneWorker, StockInv, StockInv', IsFiniteSet(User), FitInv, NEW w \in Worker,
         SetPending(w)
  PROVE  FitInv'
<1>1. PICK s \in Row, v \in User, q \in Quantity :
        s = task[w].row /\ v = task[w].user /\ q = task[w].items[1].quantity
  BY InHand DEF SetPending
<1>2. q \in Nat
  BY BoundsAssumption DEF Quantity
<1>3. /\ pc[w] = "pend" /\ redis' = [redis EXCEPT ![PendingKey(s, v)] = q]
      /\ Finish(w, "ok")
      /\ UNCHANGED <<nextRow, stock, orders, purchase>>
  BY <1>1 DEF SetPending, purchasesTable, inventoryTable
<1>4. redis \in [Key -> 0..MaxQty]
  BY DEF StockInv, TypeOK
<1>5. ASSUME NEW r \in 1..Len(Opening)
      PROVE  Fits(r, 0)'
  <2>1. r \in Row /\ Returned(r)' = Returned(r) /\ stock'[r] = stock[r]
    BY <1>3, FitTypes DEF Returned
  <2>2. CASE r # s
    <3>1. PendingShrinks(r, redis, redis')
      BY <1>3, <1>4, <2>1, <2>2, PendingIsNotData DEF PendingShrinks
    <3> QED
      BY <2>1, <3>1, FitStays DEF FitInv
  <2>3. CASE r = s
    <3>1. PendingElsewhere(r, v, redis, redis') /\ redis'[PendingKey(r, v)] = q
      BY <1>3, <1>4, <2>1, <2>3, PendingIsNotData DEF PendingElsewhere
    <3>2. Reserved(r)' <= Reserved(r) + q
      BY <3>1, MorePending DEF Reserved, ReservedUnits, PendingUnits
    <3>3. Fits(r, q)
      BY <1>1, <1>3, <2>3 DEF FitInv
    <3>4. stock'[r] + Reserved(r)' + 0 + Returned(r) <= stock[r] + Reserved(r) + q + Returned(r)'
      BY <1>2, <2>1, <3>2, FitTypes
    <3> QED
      BY <1>2, <3>3, <3>4, FitMoves
  <2> QED
    BY <2>2, <2>3
<1>6. pc'[w] = "ok"
  BY <1>3 DEF Finish, StockInv, TypeOK
<1>7. \A x \in Worker : x = w
  BY DEF OneWorker
<1>8. (nextRow > Len(Opening))'
  BY <1>3 DEF FitInv
<1> QED
  BY <1>5, <1>6, <1>7, <1>8 DEF FitInv, DecrementIsFresh

\* create_purchase inserts purchases that are not returned.
LEMMA InsertReturnsNone ==
  ASSUME StockInv, NEW w \in Worker, InsertCommits(w), NEW r
  PROVE  Returned(r)' = Returned(r)
<1>1. task[w].items \in Seq(Item)
  BY DEF StockInv, TypeOK, Task
<1>2. /\ nextOrder \in Nat \ {0} /\ orders \subseteq 1..(nextOrder - 1) /\ orders \subseteq Order
      /\ Len(task[w].items) \in Nat /\ MaxOrder \in Nat
  BY <1>1, IdsInRange, BoundsAssumption DEF StockInv, TypeOK
<1>3. /\ nextOrder + Len(task[w].items) - 1 <= MaxOrder
      /\ orders' = orders \cup NewIds(w)
      /\ purchase' = [o \in Order |-> IF o \in NewIds(w)
                                        THEN NewPurchase(task[w], o - nextOrder + 1)
                                        ELSE purchase[o]]
  BY DEF InsertCommits
<1>4. NewIds(w) \subseteq Order /\ \A o \in orders : o \notin NewIds(w)
  BY <1>2, <1>3 DEF NewIds, Order
<1>5. \A k : NewPurchase(task[w], k).status = "Ready for pickup"
  BY DEF NewPurchase
<1>6. \A x \in orders : purchase'[x] = purchase[x]
  BY <1>2, <1>3, <1>4
<1>7. \A x \in orders' \ orders : purchase'[x].status # "Returned"
  <2> SUFFICES ASSUME NEW x \in NewIds(w) PROVE purchase'[x].status # "Returned"
    BY <1>3
  <2>1. purchase'[x] = NewPurchase(task[w], x - nextOrder + 1)
    BY <1>3, <1>4
  <2> QED
    BY <1>5, <2>1, Zenon
<1>8. orders \subseteq orders'
  BY <1>3
<1>9. \A x \in orders : /\ purchase'[x].quantity = purchase[x].quantity
                        /\ purchase'[x].inventory_id = purchase[x].inventory_id
                        /\ purchase'[x].status = "Returned" <=> purchase[x].status = "Returned"
  BY <1>6
<1>10. ReturnedUnits(r, orders', purchase') = ReturnedUnits(r, orders, purchase)
  BY <1>7, <1>8, <1>9, NoneReturns
<1> QED
  BY <1>10 DEF Returned

\* The steps after which the worker holds no units and no label that is ruled out.
LEMMA WorkFits ==
  ASSUME OneWorker, StockInv, StockInv', IsFiniteSet(User), FreshInv, FitInv,
         NEW w \in Worker, Work(w)
  PROVE  FitInv'
<1>n. nextRow \in Nat
  BY DEF StockInv, TypeOK
<1>p. pc \in [Worker -> {"idle"} \cup Label \cup Answer] /\ redis \in [Key -> 0..MaxQty]
  BY DEF StockInv, TypeOK
<1>s. UNCHANGED redis => \A r : PendingShrinks(r, redis, redis')
  BY DEF PendingShrinks
<1>r. \A r \in 1..Len(Opening) : stock[r] \in Int /\ Returned(r) \in Nat
  BY FitTypes
<1>1. ASSUME NEW l, pc'[w] = l, l \in {"ok", "failed", "claim", "insert"},
             UNCHANGED <<nextRow, redis>>,
             \A r \in 1..Len(Opening) : stock'[r] + Returned(r) = stock[r] + Returned(r)'
      PROVE  FitInv'
  <2>1. DecrementIsFresh(w)'
    BY <1>1 DEF DecrementIsFresh
  <2> QED
    BY <1>1, <1>n, <1>s, <2>1, FitAnswers
<1>2. ASSUME UNCHANGED <<inventoryTable, purchasesTable>>
      PROVE  \A r \in 1..Len(Opening) : stock'[r] + Returned(r) = stock[r] + Returned(r)'
  BY <1>2 DEF Returned, inventoryTable, purchasesTable
<1>3. ASSUME NEW l \in {"ok", "failed"}, Finish(w, l),
             UNCHANGED <<inventoryTable, purchasesTable, redis>>
      PROVE  FitInv'
  BY <1>1, <1>2, <1>3, <1>p DEF Finish, inventoryTable
<1>4. CASE PaymentSucceeds(w)
  BY <1>1, <1>2, <1>4, <1>p DEF PaymentSucceeds, inventoryTable, redisVars
<1>5. CASE ClaimItem(w)
  <2>1. PICK s \in Row, v \in User : redis' = [redis EXCEPT ![PendingKey(s, v)] = 0]
    <3>1. task[w] \in Task /\ HoldsInputs("claim", task[w])
      BY <1>5 DEF ClaimItem, StockInv, TypeOK, HandlersHoldTheirInputs
    <3>2. task[w].left \in Seq(Item) /\ task[w].left # <<>> /\ task[w].user \in User
      BY <3>1 DEF HoldsInputs, Task
    <3>3. Head(task[w].left) \in Item
      BY <3>2
    <3>4. Head(task[w].left).inventory_id \in Row
      BY <3>3 DEF Item
    <3> QED
      BY <1>5, <3>2, <3>4, Zenon DEF ClaimItem
  <2>2. ASSUME NEW r \in 1..Len(Opening) PROVE PendingShrinks(r, redis, redis')
    <3>1. r \in Row
      BY FitTypes
    <3> QED
      BY <1>p, <2>1, <3>1, PendingIsNotData DEF PendingShrinks
  <2>3. pc'[w] \in {"claim", "insert"}
    BY <1>5, <1>p DEF ClaimItem
  <2>4. DecrementIsFresh(w)'
    BY <2>3 DEF DecrementIsFresh
  <2>5. UNCHANGED <<inventoryTable, purchasesTable>> /\ nextRow' = nextRow
    BY <1>5 DEF ClaimItem, inventoryTable
  <2> QED
    BY <1>2, <1>n, <2>2, <2>3, <2>4, <2>5, FitAnswers
<1>6. CASE InsertCommits(w)
  <2>1. /\ Finish(w, "ok") /\ UNCHANGED <<nextRow, stock, redis>>
    BY <1>6, Zenon DEF InsertCommits, inventoryTable, redisVars
  <2>2. \A r \in 1..Len(Opening) : stock'[r] + Returned(r) = stock[r] + Returned(r)'
    BY <1>6, <2>1, InsertReturnsNone
  <2> QED
    BY <1>1, <1>p, <2>1, <2>2 DEF Finish
<1>7. CASE UpdateCommits(w)
  <2>1. /\ Finish(w, "ok") /\ UNCHANGED <<nextRow, redis>>
    BY <1>7 DEF UpdateCommits, redisVars
  <2>2. \A r \in 1..Len(Opening) : stock'[r] + Returned(r) = stock[r] + Returned(r)'
    BY <1>7, FitTypes, UpdateShifts DEF FreshInv
  <2> QED
    BY <1>1, <1>p, <2>1, <2>2 DEF Finish
<1>8. CASE SetPendingFails(w) \/ PaymentFails(w) \/ ClaimFails(w) \/ CommitFails(w)
  BY <1>3, <1>8 DEF SetPendingFails, PaymentFails, ClaimFails, CommitFails, redisVars
<1>9. ~(InventoryCommits(w) \/ RestoreFails(w) \/ DropCommits(w) \/ CancelCommits(w))
  BY Zenon DEF InventoryCommits, RestoreFails, DropCommits, CancelCommits, FitInv
<1> QED
  BY <1>4, <1>5, <1>6, <1>7, <1>8, <1>9, DecrementCommitFits, SetPendingFits DEF Work

\* Requests move no stock of the opening rows; a decrement that starts is fresh.
LEMMA RequestFits ==
  ASSUME OneWorker, ReserveAndReturn, StockInv, StockInv', IsFiniteSet(User), FitInv,
         NEW w \in Worker, Request(w)
  PROVE  FitInv'
<1>n. nextRow \in Nat /\ pc \in [Worker -> {"idle"} \cup Label \cup Answer]
  BY DEF StockInv, TypeOK
<1>1. ASSUME nextRow' >= nextRow, DecrementIsFresh(w)',
             pc'[w] \notin {"pend", "increment", "restore", "edit", "drop", "cancel"},
             UNCHANGED <<orders, purchase, redis>>,
             \A r \in 1..Len(Opening) : stock'[r] = stock[r]
      PROVE  FitInv'
  <2>1. \A r \in 1..Len(Opening) : /\ PendingShrinks(r, redis, redis')
                                   /\ stock'[r] + Returned(r) = stock[r] + Returned(r)'
    BY <1>1 DEF PendingShrinks, Returned
  <2> QED
    BY <1>1, <2>1, FitAnswers
<1>2. ASSUME NEW l \in {"failed", "pay", "claim", "update"}, pc' = [pc EXCEPT ![w] = l],
             UNCHANGED <<inventoryTable, purchasesTable, redisVars>>
      PROVE  FitInv'
  <2>1. pc'[w] = l
    BY <1>2, <1>n
  <2>2. DecrementIsFresh(w)'
    BY <2>1 DEF DecrementIsFresh
  <2> QED
    BY <1>1, <1>2, <1>n, <2>1, <2>2 DEF inventoryTable, purchasesTable, redisVars
<1>3. Refuse(w) => FitInv'
  BY <1>2 DEF Refuse
<1>4. ASSUME NEW u \in User, NEW kit, NEW loc, NEW q \in Quantity,
             decrement_quantity(w, u, kit, loc, q)
      PROVE  FitInv'
  <2>1. PICK r \in DecrementRows(kit, loc) : DecrementReads(w, u, r, q)
    BY <1>4 DEF decrement_quantity
  <2> DEFINE items == <<[inventory_id |-> r, quantity |-> q]>>
             t == [NoTask EXCEPT !.user = u, !.row = r, !.items = items,
                                 !.upd = {<<r, stock[r] - q>>}]
  <2>2. /\ Start(w, "decrement", t)
        /\ UNCHANGED <<nextRow, stock, orders, purchase, redis>>
    BY <2>1 DEF DecrementReads, Deducted, inventoryTable, purchasesTable, redisVars
  <2>3. t.row = r /\ t.items[1].quantity = q /\ t.upd = {<<r, stock[r] - q>>}
    BY DEF NoTask
  <2> HIDE DEF t
  <2>4. task'[w] = t /\ pc'[w] = "decrement"
    BY <2>2 DEF Start, StockInv, TypeOK
  <2>5. DecrementIsFresh(w)'
    BY <2>2, <2>3, <2>4 DEF DecrementIsFresh
  <2> QED
    BY <1>1, <1>n, <2>2, <2>4, <2>5
<1>5. ASSUME NEW u, NEW items, create_purchase(w, u, items)
      PROVE  FitInv'
  <2>1. PICK l \in {"pay", "claim"} : pc' = [pc EXCEPT ![w] = l]
    BY <1>5, Zenon DEF create_purchase, Start
  <2> QED
    BY <1>2, <1>5, <2>1, Zenon DEF create_purchase
<1>6. ASSUME NEW o, NEW b, update_purchase(w, o, b)
      PROVE  FitInv'
  <2>1. /\ pc' = [pc EXCEPT ![w] = "update"]
        /\ UNCHANGED <<inventoryTable, purchasesTable, redisVars>>
    BY <1>6, Zenon DEF update_purchase, Start
  <2> QED
    BY <1>2, <2>1
<1>7. ASSUME NEW kit, NEW loc, NEW q, create_inventory(w, kit, loc, q)
      PROVE  FitInv'
  <2>1. /\ nextRow' = nextRow + 1 /\ stock' = [stock EXCEPT ![nextRow] = q]
        /\ pc' = [pc EXCEPT ![w] = "ok"] /\ UNCHANGED <<orders, purchase, redis>>
    BY <1>7 DEF create_inventory, purchasesTable, redisVars
  <2>2. nextRow > Len(Opening) /\ stock \in [Row -> Int]
    BY DEF FitInv, StockInv, TypeOK
  <2>3. \A r \in 1..Len(Opening) : r \in Row /\ r # nextRow
    <3>1. \A r \in 1..Len(Opening) : r \in Row
      BY FitTypes
    <3>2. Len(Opening) \in Nat
      BY OpeningAssumption
    <3> QED
      BY <1>n, <2>2, <3>1, <3>2
  <2>4. \A r \in 1..Len(Opening) : stock'[r] = stock[r]
    BY <2>1, <2>2, <2>3
  <2>5. pc'[w] = "ok"
    BY <1>n, <2>1
  <2>6. DecrementIsFresh(w)'
    BY <2>5 DEF DecrementIsFresh
  <2> QED
    BY <1>1, <1>n, <2>1, <2>4, <2>5, <2>6
<1>8. /\ "increment" \notin Ops /\ "restore" \notin Ops /\ "edit" \notin Ops
      /\ "drop" \notin Ops /\ "cancel" \notin Ops
  BY DEF ReserveAndReturn
<1> QED
  BY <1>3, <1>4, <1>5, <1>6, <1>7, <1>8, Zenon
  DEF Request, DecrementRefused, LookupFails, PurchaseRefused, UpdateRefused

\* Expiries free reservations; the listener changes nothing.
LEMMA BackgroundFits ==
  ASSUME StockInv, StockInv', IsFiniteSet(User), FreshInv, FitInv, Background
  PROVE  FitInv'
<1>1. UNCHANGED <<nextRow, stock, orders, purchase, pc, task>>
  BY BackgroundLeavesTables DEF FreshInv, NoData
<1>2. redis \in [Key -> 0..MaxQty]
  BY DEF StockInv, TypeOK
<1>3. PICK s \in Row, v \in User : PendingExpires(s, v) \/ ListenerHandles(s, v)
  BY DEF Background
<1>4. ASSUME NEW r \in Row PROVE PendingShrinks(r, redis, redis')
  <2>1. CASE redis' = [redis EXCEPT ![PendingKey(s, v)] = 0]
    BY <1>2, <2>1, PendingIsNotData DEF PendingShrinks
  <2>2. CASE redis' = [redis EXCEPT ![DataKey(s, v)] = 0]
    BY <1>2, <2>2, PendingIsNotData DEF PendingShrinks
  <2> QED
    BY <1>3, <2>1, <2>2 DEF PendingExpires, ListenerHandles
<1>5. ASSUME NEW r \in 1..Len(Opening), NEW n \in Nat, Fits(r, n)
      PROVE  Fits(r, n)'
  <2>1. r \in Row
    BY FitTypes
  <2>2. Returned(r)' = Returned(r) /\ stock'[r] = stock[r]
    BY <1>1 DEF Returned
  <2> QED
    BY <1>4, <1>5, <2>1, <2>2, FitStays
<1>6. ASSUME NEW r \in 1..Len(Opening) PROVE Fits(r, 0)'
  BY <1>5 DEF FitInv
<1>7. ASSUME NEW r \in 1..Len(Opening), NEW w \in Worker, pc'[w] = "pend", task'[w].row = r
      PROVE  Fits(r, task[w].items[1].quantity)'
  <2>1. pc[w] = "pend" /\ task[w].row = r
    BY <1>1, <1>7
  <2>2. PICK q \in Nat : q = task[w].items[1].quantity
    BY <2>1, InHand
  <2>3. Fits(r, q)
    BY <2>1, <2>2 DEF FitInv
  <2>4. Fits(r, q)'
    BY <1>5, <2>3
  <2>5. task'[w].items[1].quantity = q
    BY <1>1, <2>2
  <2> QED
    BY <2>4, <2>5
<1>8. \A w \in Worker : DecrementIsFresh(w)'
  BY <1>1 DEF FitInv, DecrementIsFresh
<1>9. (nextRow > Len(Opening))'
  BY <1>1 DEF FitInv
<1>10. \A w \in Worker : pc'[w] \notin {"increment", "restore", "edit", "drop", "cancel"}
  BY <1>1 DEF FitInv
<1> QED
  BY <1>6, <1>7, <1>8, <1>9, <1>10 DEF FitInv

LEMMA InitFits ==
  ASSUME Init, IsFiniteSet(User)
  PROVE  FitInv
<1>1. Len(Opening) \in Nat /\ Len(OpeningOrders) \in Nat /\ Len(OpeningOrders) <= MaxOrder
  BY OpeningAssumption
<1>2. ASSUME NEW r \in 1..Len(Opening) PROVE Fits(r, 0)
  <2>1. Reserved(r) = 0
    <3>1. r \in Row
      BY OpeningAssumption, BoundsAssumption DEF Row
    <3>2. \A u \in User : redis[PendingKey(r, u)] = 0
      BY <3>1, PendingIsNotData DEF Init
    <3>3. ReservedUnits(r) = {}
      BY <3>2, BoundsAssumption DEF ReservedUnits, Quantity
    <3> QED
      BY <3>3, FS_EmptySet DEF Reserved
  <2>2. Returned(r) = OpeningReturned(r)
    <3>1. \A o \in 1..Len(OpeningOrders) : o \in Order /\ o <= Len(OpeningOrders)
      BY <1>1, BoundsAssumption DEF Order
    <3>2. \A o \in 1..Len(OpeningOrders) : purchase[o] = OpeningOrders[o]
      BY <3>1 DEF Init
    <3>3. orders = 1..Len(OpeningOrders)
      BY DEF Init
    <3>4. ReturnedUnits(r, orders, purchase) = ReturnedUnits(r, 1..Len(OpeningOrders), OpeningOrders)
      BY <3>2, <3>3 DEF ReturnedUnits
    <3> QED
      BY <3>4 DEF Returned, OpeningReturned
  <2>3. stock[r] = Opening[r].quantity
    <3>1. r \in Row /\ r <= Len(Opening)
      BY OpeningAssumption, BoundsAssumption DEF Row
    <3> QED
      BY <3>1 DEF Init
  <2>4. Opening[r].quantity \in Nat /\ OpeningReturned(r) \in Nat
    <3> DEFINE T == [kit: Kit, loc: Location, quantity: 0..MaxStock]
    <3>1. Opening[r] \in T
      <4>1. Opening \in Seq(T)
        BY OpeningAssumption
      <4> HIDE DEF T
      <4> QED
        BY <4>1
    <3>2. Opening[r].quantity \in 0..MaxStock
      BY <3>1
    <3>3. IsFiniteSet(1..Len(OpeningOrders))
      BY <1>1, FS_Interval
    <3>4. OpeningReturned(r) \in Nat
      BY <3>3, ReturnedFinite DEF OpeningReturned
    <3> QED
      BY <3>2, <3>4, BoundsAssumption
  <2> QED
    BY <2>1, <2>2, <2>3, <2>4 DEF Fits
<1>3. nextRow > Len(Opening)
  BY <1>1 DEF Init
<1>4. \A w \in Worker : pc[w] = "idle"
  BY DEF Init
<1> QED
  BY <1>2, <1>3, <1>4 DEF FitInv, DecrementIsFresh

LEMMA NextFits ==
  ASSUME OneWorker, ReserveAndReturn, IsFiniteSet(User)
  PROVE  StockInv /\ StockInv' /\ FreshInv /\ FitInv /\ [Next]_vars => FitInv'
<1> SUFFICES ASSUME StockInv, StockInv', FreshInv, FitInv, [Next]_vars PROVE FitInv'
  OBVIOUS
<1>1. CASE UNCHANGED vars
  BY <1>1
 , Zenon DEF FitInv, DecrementIsFresh, Fits, Reserved, ReservedUnits, Returned, ReturnedUnits,
      OpeningReturned, vars
<1>2. CASE Background
  BY <1>2, BackgroundFits
<1>3. ASSUME NEW w \in Worker, Crash(w) \/ AnswerLost(w) \/ Deliver(w)
      PROVE  FitInv'
  <2>1. pc'[w] \in {"lost", "idle"}
    BY <1>3 DEF Crash, AnswerLost, Deliver, Finish, StockInv, TypeOK
  <2>2. UNCHANGED <<nextRow, stock, orders, purchase, redis>>
    BY <1>3 DEF Crash, AnswerLost, Deliver, inventoryTable, purchasesTable, redisVars
  <2>3. DecrementIsFresh(w)'
    BY <2>1 DEF DecrementIsFresh
  <2>4. \A r \in 1..Len(Opening) : /\ PendingShrinks(r, redis, redis')
                                   /\ stock'[r] + Returned(r) = stock[r] + Returned(r)'
    BY <2>2 DEF PendingShrinks, Returned
  <2>5. nextRow' >= nextRow
    BY <2>2 DEF StockInv, TypeOK
  <2> QED
    BY <2>1, <2>3, <2>4, <2>5, FitAnswers
<1>4. ASSUME NEW w \in Worker, Request(w) PROVE FitInv'
  BY <1>4, RequestFits
<1>5. ASSUME NEW w \in Worker, Work(w) PROVE FitInv'
  BY <1>5, WorkFits
<1> QED
  BY <1>1, <1>2, <1>3, <1>4, <1>5 DEF Next

\* What one worker's steps preserve, for requests that reserve, buy, return
\* and add rows: nobody writes between a handler's read and its commit, and
\* the units on the shelf, reserved and in hand fit what there was and what
\* came back.
THEOREM SerialInvHolds ==
  ASSUME OneWorker, StatusOnly, ReserveAndReturn, IsFiniteSet(User)
  PROVE  Spec => []SerialInv
<1>1. Init => FitInv
  BY InitFits
<1>2. StockInv /\ StockInv' /\ FreshInv /\ FitInv /\ [Next]_vars => FitInv'
  BY NextFits
<1>3. Spec => []FreshInv
  BY FreshInvHolds
<1>4. FreshInv /\ FitInv => SerialInv
  BY DEF SerialInv
<1> QED
  BY <1>1, <1>2, <1>3, <1>4, StockInvHolds, PTL DEF Spec

\* Reservations fit the stock, with any number of customers, rows, purchases
\* and requests and through failures and crashes at every step of a handler:
\* decrement_quantity takes off the shelf what its pending key accounts for,
\* and update_purchase adds the units of returns only.
THEOREM ReservationsFitStockHolds ==
  ASSUME OneWorker, StatusOnly, ReserveAndReturn, IsFiniteSet(User)
  PROVE  Spec => []ReservationsFitStock
<1>1. Spec => []SerialInv
  BY SerialInvHolds
<1>2. StockInv /\ SerialInv => ReservationsFitStock
  <2> SUFFICES ASSUME StockInv, SerialInv, NEW r \in 1..Len(Opening)
               PROVE  stock[r] + Reserved(r) <= Opening[r].quantity - OpeningReturned(r) + Returned(r)
    BY DEF ReservationsFitStock
  <2>1. stock[r] + Reserved(r) + 0 <= Opening[r].quantity - OpeningReturned(r) + Returned(r)
    BY DEF SerialInv, FitInv, Fits
  <2>2. r \in Row
    BY OpeningAssumption, BoundsAssumption DEF Row
  <2>3. stock[r] \in Int
    BY <2>2 DEF StockInv, TypeOK
  <2>4. Reserved(r) \in Nat
    BY PendingFinite, Zenon DEF Reserved, ReservedUnits, PendingUnits
  <2>5. stock[r] + Reserved(r) + 0 = stock[r] + Reserved(r)
    BY <2>3, <2>4
  <2> QED
    BY <2>1, <2>5
<1> QED
  BY <1>1, <1>2, StockInvHolds, PTL
=============================================================================
