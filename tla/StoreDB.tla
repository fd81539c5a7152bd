------------------------------ MODULE StoreDB ------------------------------
(***************************************************************************)
(* What the inventory and purchase handlers share: the MySQL tables        *)
(* `inventory` and `purchases`, the Redis keys of db 0 that concern stock, *)
(* the charges Stripe has accepted, and the gunicorn workers that run the  *)
(* handlers.                                                               *)
(*                                                                         *)
(* A handler is one SQLAlchemy unit of work on one REPEATABLE READ         *)
(* transaction: its first SELECT fixes the snapshot, every value it later  *)
(* writes is computed from that snapshot, and commit() emits UPDATEs that  *)
(* set ABSOLUTE values for the columns that changed.  So a handler is two  *)
(* steps here, one that reads and one that commits, and what it is going   *)
(* to write waits in its task in between.                                  *)
(***************************************************************************)
EXTENDS Integers, Sequences, FiniteSets

CONSTANTS
  Worker,         \* gunicorn workers (README.md: --workers 4)
  User,           \* users.id
  Admin,          \* the users whose session and row both carry role admin
  Kit, Site,      \* kits.id; pickup locations
  MaxRow,         \* bound: inventory rows ever created
  MaxOrder,       \* bound: purchases ever created
  MaxQty,         \* bound: units asked for in one request
  MaxStock,       \* bound: units a row may be raised to
  MaxCharge,      \* bound: payments Stripe accepts
  Opening,        \* the inventory rows there are at the start, in id order
  OpeningOrders   \* the purchases there are at the start, in id order

Row == 1..MaxRow
Order == 1..MaxOrder
Quantity == 1..MaxQty
Location == Site \cup {"warehouse"}
Place == [kit: Kit, loc: Location]
Item == [inventory_id: Row, quantity: Quantity]

\* Orders.jsx:248 lists six statuses; the handlers only tell Returned from
\* the rest, so two of the rest stand for all five.
Status == {"Ready for pickup", "Checked-out", "Returned"}

\* charge and line are history: the payment, and the line of its item list,
\* that a purchase was made for; 0 for an admin's, who is not charged.
Purchase == [user: User, inventory_id: Row, quantity: Quantity,
             status: Status, charge: 0..MaxCharge, line: 0..MaxOrder]

\* The body of PUT /api/purchases/<id>, and the columns an UPDATE writes:
\* "" or 0 is a field that is absent.  Dates are not kept: a body that only
\* sets a date is [status |-> "", quantity |-> 0, inventory_id |-> 0].
Columns == [status: Status \cup {""}, quantity: Quantity \cup {0},
            inventory_id: Row \cup {0}]
NoColumns == [status |-> "", quantity |-> 0, inventory_id |-> 0]

PendingKey(r, u) == <<"pending_inventory", r, u>>
DataKey(r, u) == <<"pending_inventory:data", r, u>>
ReservedKeys(r) == {"reserved_inventory"} \X {r} \X User
Key == {"pending_inventory", "pending_inventory:data", "reserved_inventory"}
         \X Row \X User

\* An id not handed out yet needs some value, so there is one of each type.
ASSUME BoundsAssumption ==
  /\ MaxRow \in Nat \ {0} /\ MaxOrder \in Nat /\ MaxQty \in Nat \ {0}
  /\ MaxStock \in Nat /\ MaxCharge \in Nat
  /\ Kit # {} /\ User # {} /\ Admin \subseteq User
ASSUME OpeningAssumption ==
  /\ Opening \in Seq([kit: Kit, loc: Location, quantity: 0..MaxStock])
  /\ Len(Opening) <= MaxRow
  /\ OpeningOrders \in Seq(Purchase)
  /\ Len(OpeningOrders) <= MaxOrder
  /\ \A o \in 1..Len(OpeningOrders) :
        OpeningOrders[o].inventory_id \in 1..Len(Opening) /\ OpeningOrders[o].charge = 0

VARIABLES
  rows,       \* ids of the inventory rows that exist
  nextRow,    \* AUTO_INCREMENT of inventory
  place,      \* kit_id and location(_name) of a row
  stock,      \* inventory.quantity
  orders,     \* ids of the purchases that exist
  nextOrder,  \* AUTO_INCREMENT of purchases
  purchase,   \* the columns of a purchase
  redis,      \* key -> quantity in its JSON value, 0 when there is no key
  expired,    \* expiry notifications on their way to the listener
  charges,    \* the payments Stripe has taken, for which user and items
  pc,         \* where a worker is: idle, a label inside a handler, or the
              \* answer it gave: ok, failed (4xx/5xx), lost (it was killed)
  task        \* the unit of work of a worker

inventoryTable == <<rows, nextRow, place, stock>>
purchasesTable == <<orders, nextOrder, purchase>>
redisVars == <<redis, expired>>
vars == <<rows, nextRow, place, stock, orders, nextOrder, purchase,
          redis, expired, charges, pc, task>>

Answer == {"ok", "failed", "lost"}
Label == {"decrement", "pend", "increment", "restore", "edit", "drop",
          "pay", "claim", "insert", "update", "cancel"}

\* A worker's unit of work: the session's user, the inventory row it found,
\* the request's items and those still to be handled, the ids its snapshot
\* holds, and what commit() will UPDATE: the quantity (upd) and the kit or
\* location (move) of some rows, some columns (put) of one purchase (order).
\* charge is the payment intent the handler holds.
Writes(T) == SUBSET (Row \X T)
Task == [user: User \cup {0}, row: Row \cup {0}, items: Seq(Item),
         left: Seq(Item), seen: SUBSET (Row \cup Order), upd: Writes(Int),
         move: Writes(Place), order: Order \cup {0}, put: Columns,
         charge: Nat]

NoTask == [user |-> 0, row |-> 0, items |-> <<>>, left |-> <<>>, seen |-> {},
           upd |-> {}, move |-> {},
           order |-> 0, put |-> NoColumns, charge |-> 0]

Init ==
  /\ rows = 1..Len(Opening)
  /\ nextRow = Len(Opening) + 1
  /\ place = [r \in Row |->
                IF r <= Len(Opening)
                  THEN [kit |-> Opening[r].kit, loc |-> Opening[r].loc]
                  ELSE CHOOSE p \in Place : TRUE]
  /\ stock = [r \in Row |-> IF r <= Len(Opening) THEN Opening[r].quantity
                                                 ELSE 0]
  /\ orders = 1..Len(OpeningOrders)
  /\ nextOrder = Len(OpeningOrders) + 1
  /\ purchase = [o \in Order |->
                   IF o <= Len(OpeningOrders) THEN OpeningOrders[o]
                                              ELSE CHOOSE p \in Purchase : TRUE]
  /\ redis = [k \in Key |-> 0]
  /\ expired = {}
  /\ charges = <<>>
  /\ pc = [w \in Worker |-> "idle"]
  /\ task = [w \in Worker |-> NoTask]

-----------------------------------------------------------------------------
\* A worker takes a request: it has read what it needs and goes on at label l.
Start(w, l, t) ==
  /\ pc[w] = "idle"
  /\ pc' = [pc EXCEPT ![w] = l]
  /\ task' = [task EXCEPT ![w] = t]

\* A request answered with an error after its reads, nothing written.
Refuse(w) ==
  /\ pc[w] = "idle"
  /\ pc' = [pc EXCEPT ![w] = "failed"]
  /\ UNCHANGED <<inventoryTable, purchasesTable, redisVars, charges, task>>

\* The unit of work ends and the worker answers a.
Finish(w, a) ==
  /\ pc' = [pc EXCEPT ![w] = a]
  /\ task' = [task EXCEPT ![w] = NoTask]

\* A table after the UPDATEs of a unit of work, pairs of a row and its value.
Updated(table, upd) ==
  [r \in Row |-> IF \E x \in upd : x[1] = r
                  THEN (CHOOSE x \in upd : x[1] = r)[2] ELSE table[r]]

\* The foreign key of models/purchase.py:10 when a row is deleted: no purchase
\* the cascade did not load may refer to it.
NoOrphansUnchecked(w) == TRUE
NoOrphans(w) ==
  pc[w] = "drop" =>
    \A o \in orders \ task[w].seen : purchase[o].inventory_id # task[w].row

\* What commit() can refuse: an UPDATE that matches no row (StaleDataError),
\* or a purchase without its inventory row.
CanCommit(w) ==
  LET t == task[w] IN
  /\ \A x \in t.upd : x[1] \in rows
  /\ \A x \in t.move : x[1] \in rows
  /\ t.put # NoColumns => t.order \in orders
  /\ t.put.inventory_id # 0 => t.put.inventory_id \in rows
  /\ pc[w] = "insert" =>
       \A k \in 1..Len(t.items) : t.items[k].inventory_id \in rows
  /\ NoOrphans(w)

\* The error path of commit(): the session is rolled back and the client is
\* answered 500.
CommitFails(w) ==
  /\ pc[w] \in {"decrement", "increment", "restore", "edit", "drop",
                "insert", "update"}
  /\ ~CanCommit(w)
  /\ Finish(w, "failed")
  /\ UNCHANGED <<inventoryTable, purchasesTable, redisVars, charges>>

\* pm2 restarts the backend, or the worker dies: the open transaction is
\* rolled back by MySQL and the browser's fetch rejects.
Crash(w) ==
  /\ pc[w] \in Label
  /\ Finish(w, "lost")
  /\ UNCHANGED <<inventoryTable, purchasesTable, redisVars, charges>>

\* The worker dies, or the connection breaks, after the handler's last commit
\* and before its answer arrives.
AnswerLost(w) ==
  /\ pc[w] \in {"ok", "failed"}
  /\ pc' = [pc EXCEPT ![w] = "lost"]
  /\ UNCHANGED <<inventoryTable, purchasesTable, redisVars, charges, task>>

\* The client has its answer; the worker takes the next request.
Deliver(w) ==
  /\ pc[w] \in Answer
  /\ pc' = [pc EXCEPT ![w] = "idle"]
  /\ UNCHANGED <<inventoryTable, purchasesTable, redisVars, charges, task>>
=============================================================================
