------------------------------- MODULE Store -------------------------------
(***************************************************************************)
(* The stock side of the backend as a whole: any number of gunicorn        *)
(* workers running the inventory and purchase handlers, Redis expiring     *)
(* reservations, and the listener process.                                 *)
(***************************************************************************)
EXTENDS InventoryRoutes, PurchaseRoutes

CONSTANTS
  Ops,       \* the handlers this instance sends requests to
  Carts,     \* item lists a browser may send
  Bodies,    \* bodies of PUT /api/purchases/<id>
  Levels     \* quantities an admin may set a row to

ASSUME InputsAssumption ==
  /\ Carts \subseteq Seq(Item)
  /\ \A c \in Carts : \A j, k \in 1..Len(c) :
        c[j].inventory_id = c[k].inventory_id => j = k
  /\ Bodies \subseteq Columns
  /\ Levels \subseteq 0..MaxStock

\* A request arrives at an idle worker.
Request(w) ==
  \/ /\ "decrement" \in Ops
     /\ \E u \in User, kit \in Kit, loc \in Location, q \in Quantity :
          \/ decrement_quantity(w, u, kit, loc, q)
          \/ DecrementRefused(w, kit, loc)
  \/ /\ "increment" \in Ops
     /\ \E kit \in Kit, loc \in Location, q \in Quantity :
          \/ increment_quantity(w, kit, loc, q)
          \/ RowNotFound(w, kit, loc)
  \/ /\ "restore" \in Ops
     /\ \E u \in User, items \in Carts : restore_reserved_inventory(w, u, items)
  \/ /\ "create" \in Ops
     /\ \E kit \in Kit, loc \in Location, q \in Levels :
          \/ create_inventory(w, kit, loc, q)
          \/ LookupFails(w, loc)
  \/ /\ "edit" \in Ops
     /\ \E kit \in Kit, loc \in Location, p \in Place, q \in Levels :
          \/ edit_inventory(w, kit, loc, p, q)
          \/ RowNotFound(w, kit, loc)
          \/ RowsAt(kit, loc) # {} /\ LookupFails(w, p.loc)
  \/ /\ "drop" \in Ops
     /\ \E kit \in Kit, loc \in Location :
          \/ delete_inventory(w, kit, loc)
          \/ RowNotFound(w, kit, loc)
  \/ /\ "purchase" \in Ops
     /\ \E u \in User, items \in Carts :
          create_purchase(w, u, items) \/ PurchaseRefused(w, items)
  \/ /\ "update" \in Ops
     /\ \E o \in Order, body \in Bodies :
          \/ update_purchase(w, o, body)
          \/ UpdateRefused(w, o, body)
  \/ /\ "cancel" \in Ops
     /\ \E u \in User, o \in Order :
          delete_purchase(w, u, o) \/ DeleteRefused(w, u, o)

\* A worker goes on with the handler it is in.
Work(w) ==
  \/ DecrementCommits(w) \/ SetPending(w) \/ SetPendingFails(w)
  \/ InventoryCommits(w) \/ RestoreFails(w) \/ DropCommits(w)
  \/ PaymentSucceeds(w) \/ PaymentFails(w)
  \/ ClaimItem(w) \/ ClaimFails(w) \/ InsertCommits(w)
  \/ UpdateCommits(w) \/ CancelCommits(w)
  \/ CommitFails(w)

Background ==
  \E r \in Row, u \in User : PendingExpires(r, u) \/ ListenerHandles(r, u)

Next ==
  \/ \E w \in Worker : Request(w) \/ Work(w) \/ Crash(w) \/ AnswerLost(w)
                       \/ Deliver(w)
  \/ Background

Spec == Init /\ [][Next]_vars

-----------------------------------------------------------------------------
\* Type invariant: the tables, Redis and every unit of work hold values of
\* their column types, ids that exist were handed out by AUTO_INCREMENT, and
\* what a unit of work is going to write is of the column's type.
TypeOK ==
  /\ nextRow \in 1..(MaxRow + 1) /\ rows \subseteq 1..(nextRow - 1)
  /\ place \in [Row -> Place]
  /\ stock \in [Row -> Int]
  /\ nextOrder \in 1..(MaxOrder + 1) /\ orders \subseteq 1..(nextOrder - 1)
  /\ purchase \in [Order -> Purchase]
  /\ redis \in [Key -> 0..MaxQty]
  /\ expired \subseteq Row \X User
  /\ charges \in Seq([user: User, items: Seq(Item)])
  /\ pc \in [Worker -> {"idle"} \cup Label \cup Answer]
  /\ task \in [Worker -> Task]

\* What a unit of work holds at label l: a decrement its user, row and one
\* item, create_purchase a user and items, with some left until it inserts.
HoldsInputs(l, t) ==
  /\ l \in {"decrement", "pend"} =>
       t.user \in User /\ t.row \in Row /\ Len(t.items) = 1
  /\ l \in {"pay", "claim", "insert"} => t.user \in User /\ t.items # <<>>
  /\ l \in {"pay", "claim"} => t.left # <<>>

\* Every worker holds the inputs of the handler it is in, whatever it took up
\* before, and no payment that Stripe has not taken.
HandlersHoldTheirInputs ==
  /\ Len(charges) <= MaxCharge
  /\ \A w \in Worker :
       HoldsInputs(pc[w], task[w]) /\ task[w].charge <= Len(charges)

\* Every quantity a worker is about to write is above the floor too.
WritesAboveFloor ==
  \A w \in Worker : \A x \in task[w].upd : x[2] >= 1 - MaxQty

\* No stock is ever oversold by a whole request or more: decrement_quantity
\* refuses at quantity <= 0 and update_purchase at quantity < purchase.quantity,
\* and both write an absolute value computed from the quantity they checked,
\* so however many workers race, a row never falls below 1 - MaxQty (and never
\* below 0 where every request is for one unit).
StockFloor == \A r \in Row : stock[r] >= 1 - MaxQty

\* All of it at once, which every step preserves: the floor holds because what
\* is about to be written is above it, and that because handlers hold the
\* quantities they checked.
StockInv ==
  TypeOK /\ HandlersHoldTheirInputs /\ StockFloor /\ WritesAboveFloor

\* Every purchase refers to an inventory row that exists, whichever of
\* create_purchase, update_purchase (inventory_id) and delete_inventory (with
\* its cascade) interleave.
PurchasesHaveRows == \A o \in orders : purchase[o].inventory_id \in rows

\* A payment is used once: create_purchase charges before it inserts, so a
\* customer's purchase is for a line of a payment of that customer, for that
\* inventory row's item list, and no two purchases are for the same line.
ChargedLineSoldOnce ==
  \A o \in orders : purchase[o].charge # 0 =>
    /\ purchase[o].charge <= Len(charges)
    /\ charges[purchase[o].charge].user = purchase[o].user
    /\ purchase[o].line \in 1..Len(charges[purchase[o].charge].items)
    /\ \A p \in orders \ {o} :
         <<purchase[p].charge, purchase[p].line>> #
           <<purchase[o].charge, purchase[o].line>>

\* The payment a worker holds is that of its own customer and items, no
\* purchase is for it yet and no other worker holds it: it is lost with the
\* unit of work, or becomes purchases when that commits.
PaymentHeldOnce(w) ==
  LET t == task[w] IN
  t.charge # 0 =>
    /\ pc[w] \in {"claim", "insert"}
    /\ charges[t.charge].user = t.user /\ charges[t.charge].items = t.items
    /\ \A o \in orders : purchase[o].charge # t.charge
    /\ \A v \in Worker \ {w} : task[v].charge # t.charge

\* Every step of every handler preserves both: payments are used once
\* because a worker that is to insert purchases holds one of its own.
ChargeInv == ChargedLineSoldOnce /\ \A w \in Worker : PaymentHeldOnce(w)

-----------------------------------------------------------------------------
\* The units of a row that live reservations of Redis account for, those of
\* its returned purchases, and those of them there were at the start.
ReservedUnits(r) == {x \in User \X Quantity : x[2] <= redis[PendingKey(r, x[1])]}
ReturnedUnits(r, S, p) ==
  {x \in S \X Quantity :
     /\ p[x[1]].inventory_id = r /\ p[x[1]].status = "Returned"
     /\ x[2] <= p[x[1]].quantity}

Reserved(r) == Cardinality(ReservedUnits(r))
Returned(r) == Cardinality(ReturnedUnits(r, orders, purchase))
OpeningReturned(r) ==
  Cardinality(ReturnedUnits(r, 1..Len(OpeningOrders), OpeningOrders))

\* What is on the shelf and what is reserved never exceed what there was and
\* what came back: decrement_quantity deducts before it writes the pending
\* key, the key goes when the purchase is made or the reservation expires,
\* and update_purchase adds only the units of returns.
ReservationsFitStock ==
  \A r \in 1..Len(Opening) :
    stock[r] + Reserved(r) <= Opening[r].quantity - OpeningReturned(r) + Returned(r)

\* However update_purchase ends, the stock has moved by the units whose
\* return it recorded or took back, and no others: a return is credited once
\* and debited once through any sequence of status changes.
ReturnsBalance ==
  [][\A w \in Worker :
       pc[w] = "update" /\ pc'[w] # "update" =>
         \A r \in rows : stock'[r] - stock[r] = Returned(r)' - Returned(r)]_vars

\* With one worker, what decrement_quantity and update_purchase are going to
\* write is still right when they commit.
UpdateIsFresh(w) ==
  LET t == task[w]
      p == purchase[t.order]
      r == p.inventory_id
  IN
  pc[w] = "update" =>
    /\ t.order \in orders /\ r \in rows
    /\ t.put.quantity = 0 /\ t.put.inventory_id = 0
    /\ \/ /\ p.status # "Returned" /\ t.put.status = "Returned"
          /\ t.upd = {<<r, stock[r] + p.quantity>>}
       \/ /\ p.status = "Returned" /\ t.put.status \notin {"", "Returned"}
          /\ t.upd = {<<r, stock[r] - p.quantity>>}
       \/ /\ IF p.status = "Returned" THEN t.put.status = "" ELSE t.put.status # "Returned"
          /\ t.upd = {}

DecrementIsFresh(w) ==
  LET t == task[w] IN
  pc[w] = "decrement" => t.upd = {<<t.row, stock[t.row] - t.items[1].quantity>>}

\* n more units of a row would still fit.
Fits(r, n) ==
  stock[r] + Reserved(r) + n <= Opening[r].quantity - OpeningReturned(r) + Returned(r)

\* What one worker's steps preserve, when stock only moves by reservations,
\* returns and new rows: nobody else writes, the listener finds no rollback
\* data, and the units deducted by a worker that has still to write its
\* pending key fit too.
FreshInv ==
  /\ \A r \in Row, u \in User : redis[DataKey(r, u)] = 0
  /\ \A w \in Worker : UpdateIsFresh(w)
FitInv ==
  /\ nextRow > Len(Opening)
  /\ \A w \in Worker :
       /\ pc[w] \notin {"increment", "restore", "edit", "drop", "cancel"}
       /\ DecrementIsFresh(w)
  /\ \A r \in 1..Len(Opening) :
       /\ Fits(r, 0)
       /\ \A w \in Worker : pc[w] = "pend" /\ task[w].row = r =>
                               Fits(r, task[w].items[1].quantity)
SerialInv == FreshInv /\ FitInv

\* Workers finish the handlers they are in, Redis expires keys and the
\* listener reads its channel; nobody has to send requests.
FairSpec ==
  /\ Spec
  /\ \A w \in Worker : WF_vars(Work(w)) /\ WF_vars(Deliver(w))
  /\ \A r \in Row, u \in User : WF_vars(PendingExpires(r, u))
                               /\ WF_vars(ListenerHandles(r, u))

\* A reservation whose expiry reached the listener is rolled back: the row is
\* at its opening quantity again.
ExpiredIsRolledBack ==
  \A r \in 1..Len(Opening), u \in User :
    (<<r, u>> \in expired) ~> (stock[r] = Opening[r].quantity)

=============================================================================
