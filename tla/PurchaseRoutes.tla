--------------------------- MODULE PurchaseRoutes ---------------------------
(***************************************************************************)
(* The handlers of backend/app/routes/purchase_routes.py that change state *)
(***************************************************************************)
EXTENDS StoreDB

-----------------------------------------------------------------------------
\* POST /api/purchases.  An admin's order is not charged.
create_purchase(w, u, items) ==
  /\ items # <<>>
  /\ nextOrder + Len(items) - 1 <= MaxOrder
  /\ Start(w, IF u \in Admin THEN "claim" ELSE "pay",
           [NoTask EXCEPT !.user = u, !.items = items, !.left = items])
  /\ UNCHANGED <<inventoryTable, purchasesTable, redisVars, charges>>

\* 400 without items.
PurchaseRefused(w, items) ==
  /\ items = <<>>
  /\ Refuse(w)

\* PaymentIntent.create(confirm=True) answers status succeeded ...
PaymentSucceeds(w) ==
  /\ pc[w] = "pay"
  /\ Len(charges) < MaxCharge
  /\ charges' = Append(charges, [user |-> task[w].user,
                                 items |-> task[w].items])
  /\ task' = [task EXCEPT ![w].charge = Len(charges')]
  /\ pc' = [pc EXCEPT ![w] = "claim"]
  /\ UNCHANGED <<inventoryTable, purchasesTable, redisVars>>

\* ... or raises StripeError (400), or another status (402).
PaymentFails(w) ==
  /\ pc[w] = "pay"
  /\ Finish(w, "failed")
  /\ UNCHANGED <<inventoryTable, purchasesTable, redisVars, charges>>

\* The rows the transaction sees: its snapshot starts at the first lookup.
SeenRows(w) ==
  IF Len(task[w].left) = Len(task[w].items) THEN rows ELSE task[w].seen

\* One turn of the loop over the items: look the row up, add the purchase to
\* the session, delete the user's pending key.
ClaimItem(w) ==
  LET item == Head(task[w].left) IN
  /\ pc[w] = "claim"
  /\ item.inventory_id \in SeenRows(w)
  /\ redis' = [redis EXCEPT ![PendingKey(item.inventory_id, task[w].user)] = 0]
  /\ task' = [task EXCEPT ![w].left = Tail(@), ![w].seen = SeenRows(w)]
  /\ pc' = [pc EXCEPT ![w] = IF Len(task[w].left) = 1 THEN "insert" ELSE @]
  /\ UNCHANGED <<inventoryTable, purchasesTable, expired, charges>>

\* The row is missing (404), or Redis does not answer (500): whatever was
\* paid stays paid, and keys already deleted stay deleted.
ClaimFails(w) ==
  /\ pc[w] = "claim"
  /\ Finish(w, "failed")
  /\ UNCHANGED <<inventoryTable, purchasesTable, redisVars, charges>>

FirstItemAgain(t, k) ==
  [user |-> t.user, inventory_id |-> t.items[1].inventory_id,
   quantity |-> t.items[1].quantity, status |-> "Ready for pickup",
   charge |-> t.charge, line |-> IF t.charge = 0 THEN 0 ELSE 1]
NewPurchase(t, k) ==
  [user |-> t.user, inventory_id |-> t.items[k].inventory_id,
   quantity |-> t.items[k].quantity, status |-> "Ready for pickup",
   charge |-> t.charge, line |-> IF t.charge = 0 THEN 0 ELSE k]

\* The ids AUTO_INCREMENT gives the inserted purchases.
NewIds(w) == nextOrder..(nextOrder + Len(task[w].items) - 1)

InsertCommits(w) ==
  LET n == Len(task[w].items) IN
  /\ pc[w] = "insert"
  /\ nextOrder + n - 1 <= MaxOrder
  /\ CanCommit(w)
  /\ orders' = orders \cup NewIds(w)
  /\ purchase' = [o \in Order |->
                    IF o \in NewIds(w)
                      THEN NewPurchase(task[w], o - nextOrder + 1)
                      ELSE purchase[o]]
  /\ nextOrder' = nextOrder + n
  /\ Finish(w, "ok")
  /\ UNCHANGED <<inventoryTable, redisVars, charges>>

-----------------------------------------------------------------------------
\* The purchase after setattr for every field of the body.
PatchedWithAbsent(p, body) ==
  [p EXCEPT !.status = body.status, !.quantity = body.quantity,
            !.inventory_id = body.inventory_id]
Patched(p, body) ==
  [p EXCEPT !.status = IF body.status = "" THEN @ ELSE body.status,
            !.quantity = IF body.quantity = 0 THEN @ ELSE body.quantity,
            !.inventory_id = IF body.inventory_id = 0 THEN @
                                                      ELSE body.inventory_id]

\* The columns of the body that differ from the snapshot.
Changed(p, body) ==
  [status |-> IF body.status = p.status THEN "" ELSE body.status,
   quantity |-> IF body.quantity = p.quantity THEN 0 ELSE body.quantity,
   inventory_id |-> IF body.inventory_id = p.inventory_id THEN 0
                                                     ELSE body.inventory_id]

ReturningAgain(p, body) == body.status = "Returned"
Returning(p, body) == p.status # "Returned" /\ body.status = "Returned"
Reverting(p, body) == p.status = "Returned" /\ body.status # "Returned"

\* PUT /api/purchases/<id> by an admin.  The stock is that of the row the
\* patched purchase names, and the quantity the patched one.
update_purchase(w, o, body) ==
  LET old == purchase[o]
      new == Patched(old, body)
      inv == new.inventory_id
  IN
  /\ o \in orders
  /\ inv \in rows
  /\ Reverting(old, body) => stock[inv] >= new.quantity
  /\ Returning(old, body) => stock[inv] + new.quantity <= MaxStock
  /\ Start(w, "update",
           [NoTask EXCEPT
              !.order = o, !.put = Changed(old, body),
              !.upd = CASE Returning(old, body) ->
                             {<<inv, stock[inv] + new.quantity>>}
                        [] Reverting(old, body) ->
                             {<<inv, stock[inv] - new.quantity>>}
                        [] OTHER -> {}])
  /\ UNCHANGED <<inventoryTable, purchasesTable, redisVars, charges>>

\* 404 without the purchase, 500 by the foreign key without the new row, 400
\* when the stock no longer covers the return that is taken back.
UpdateRefused(w, o, body) ==
  LET new == Patched(purchase[o], body) IN
  /\ \/ o \notin orders
     \/ new.inventory_id \notin rows
     \/ /\ Reverting(purchase[o], body)
        /\ stock[new.inventory_id] < new.quantity
  /\ Refuse(w)

UpdateCommits(w) ==
  LET t == task[w] IN
  /\ pc[w] = "update"
  /\ CanCommit(w)
  /\ stock' = Updated(stock, t.upd)
  /\ purchase' = [purchase EXCEPT ![t.order] = Patched(@, t.put)]
  /\ Finish(w, "ok")
  /\ UNCHANGED <<rows, nextRow, place, orders, nextOrder, redisVars, charges>>

\* DELETE /api/purchases/<id> by its owner or an admin; stock is left alone.
delete_purchase(w, u, o) ==
  /\ o \in orders
  /\ u = purchase[o].user \/ u \in Admin
  /\ Start(w, "cancel", [NoTask EXCEPT !.order = o])
  /\ UNCHANGED <<inventoryTable, purchasesTable, redisVars, charges>>

\* 404, or 403 for somebody else's purchase.
DeleteRefused(w, u, o) ==
  /\ o \in orders => u # purchase[o].user /\ u \notin Admin
  /\ Refuse(w)

\* A purchase already deleted meanwhile is only a warning to SQLAlchemy.
CancelCommits(w) ==
  /\ pc[w] = "cancel"
  /\ orders' = orders \ {task[w].order}
  /\ Finish(w, "ok")
  /\ UNCHANGED <<inventoryTable, nextOrder, purchase, redisVars, charges>>
=============================================================================
