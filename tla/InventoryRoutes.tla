-------------------------- MODULE InventoryRoutes --------------------------
(***************************************************************************)
(* The handlers of backend/app/routes/inventory_routes.py that change      *)
(* state, and backend/scripts/redis_listener.py.                           *)
(***************************************************************************)
EXTENDS StoreDB

\* `location` and `location_name` are one value here, so a row is found by
\* kit and location in increment, edit and delete.
RowsAt(kit, loc) == {r \in rows : place[r].kit = kit /\ place[r].loc = loc}

\* The rows .first() may return for a decrement: a warehouse request takes
\* any warehouse row, whatever its kit.
DecrementRows(kit, loc) ==
  IF loc = "warehouse" THEN {r \in rows : place[r].loc = "warehouse"}
                       ELSE RowsAt(kit, loc)

-----------------------------------------------------------------------------
\* POST /decrement.  Only stock <= 0 is refused: q may exceed what is left.
AvailableUnchecked(r) == TRUE
AvailableOffByOne(r) == stock[r] >= 0
Available(r) == stock[r] > 0

DeductedOne(r, q) == stock[r] - 1
Deducted(r, q) == stock[r] - q

DecrementReads(w, u, r, q) ==
  /\ Available(r)
  /\ Start(w, "decrement",
           [NoTask EXCEPT !.user = u, !.row = r,
                          !.items = <<[inventory_id |-> r, quantity |-> q]>>,
                          !.upd = {<<r, Deducted(r, q)>>}])
  /\ UNCHANGED <<inventoryTable, purchasesTable, redisVars, charges>>

decrement_quantity(w, u, kit, loc, q) ==
  \E r \in DecrementRows(kit, loc) : DecrementReads(w, u, r, q)

DecrementRefused(w, kit, loc) ==
  /\ \/ DecrementRows(kit, loc) = {}
     \/ \E r \in DecrementRows(kit, loc) : ~Available(r)
  /\ Refuse(w)

\* (A variant that checks the snapshot but subtracts from the table.)
DecrementCommitsRelative(w) ==
  /\ pc[w] = "decrement"
  /\ CanCommit(w)
  /\ stock' = [stock EXCEPT ![task[w].row] = @ - task[w].items[1].quantity]
  /\ pc' = [pc EXCEPT ![w] = "pend"]
  /\ task' = [task EXCEPT ![w].upd = {}]
  /\ UNCHANGED <<rows, nextRow, place, purchasesTable, redisVars, charges>>

DecrementCommits(w) ==
  /\ pc[w] = "decrement"
  /\ CanCommit(w)
  /\ stock' = Updated(stock, task[w].upd)
  /\ pc' = [pc EXCEPT ![w] = "pend"]
  /\ task' = [task EXCEPT ![w].upd = {}]
  /\ UNCHANGED <<rows, nextRow, place, purchasesTable, redisVars, charges>>

\* After commit() the row is expired: reading inv.id loads it again, and
\* raises when it is gone.  setex replaces the value of an existing key.
SetPending(w) ==
  LET item == task[w].items[1] IN
  /\ pc[w] = "pend"
  /\ task[w].row \in rows
  /\ redis' = [redis EXCEPT ![PendingKey(task[w].row, task[w].user)] =
                              item.quantity]
  /\ Finish(w, "ok")
  /\ UNCHANGED <<inventoryTable, purchasesTable, expired, charges>>

\* The row is gone, or Redis does not answer: 500 after the deduction.
SetPendingFails(w) ==
  /\ pc[w] = "pend"
  /\ Finish(w, "failed")
  /\ UNCHANGED <<inventoryTable, purchasesTable, redisVars, charges>>

-----------------------------------------------------------------------------
\* POST /increment
increment_quantity(w, kit, loc, q) ==
  \E r \in RowsAt(kit, loc) :
    /\ stock[r] + q <= MaxStock
    /\ Start(w, "increment",
             [NoTask EXCEPT !.upd = {<<r, stock[r] + q>>}])
    /\ UNCHANGED <<inventoryTable, purchasesTable, redisVars, charges>>

\* POST /restore-reserved.  Items whose row does not exist are skipped; the
\* key deleted is reserved_inventory:<id>.  One line per inventory row.
RestoredRows(items) ==
  {items[k].inventory_id : k \in 1..Len(items)} \cap rows

RestoredQuantity(items, r) ==
  items[CHOOSE k \in 1..Len(items) : items[k].inventory_id = r].quantity

restore_reserved_inventory(w, u, items) ==
  LET back == {<<r, stock[r] + RestoredQuantity(items, r)>> :
                 r \in RestoredRows(items)} IN
  /\ \A x \in back : x[2] <= MaxStock
  /\ Start(w, "restore", [NoTask EXCEPT !.user = u, !.upd = back])
  /\ redis' = [k \in Key |->
                 IF \E i \in 1..Len(items) :
                      k \in ReservedKeys(items[i].inventory_id)
                   THEN 0 ELSE redis[k]]
  /\ UNCHANGED <<inventoryTable, purchasesTable, expired, charges>>

\* Redis does not answer: 500 before commit().
RestoreFails(w) ==
  /\ pc[w] = "restore"
  /\ Finish(w, "failed")
  /\ UNCHANGED <<inventoryTable, purchasesTable, redisVars, charges>>

-----------------------------------------------------------------------------
\* POST /: one INSERT, nothing read that could be stale.
create_inventory(w, kit, loc, q) ==
  /\ pc[w] = "idle"
  /\ nextRow <= MaxRow
  /\ rows' = rows \cup {nextRow}
  /\ nextRow' = nextRow + 1
  /\ place' = [place EXCEPT ![nextRow] = [kit |-> kit, loc |-> loc]]
  /\ stock' = [stock EXCEPT ![nextRow] = q]
  /\ pc' = [pc EXCEPT ![w] = "ok"]
  /\ UNCHANGED <<purchasesTable, redisVars, charges, task>>

\* PUT /: sets kit, location and quantity to what the admin's form holds;
\* columns equal to the snapshot are not written.
edit_inventory(w, kit, loc, newPlace, q) ==
  \E r \in RowsAt(kit, loc) :
    /\ Start(w, "edit",
             [NoTask EXCEPT
                !.row = r,
                !.upd = IF q = stock[r] THEN {} ELSE {<<r, q>>},
                !.move = IF newPlace = place[r] THEN {}
                                                ELSE {<<r, newPlace>>}])
    /\ UNCHANGED <<inventoryTable, purchasesTable, redisVars, charges>>

\* create and edit: find_address finds nothing or raises, and the handler
\* returns before commit(); for the warehouse no address is looked up.
LookupFails(w, loc) ==
  /\ loc # "warehouse"
  /\ Refuse(w)

\* increment, edit and delete answer 404 when there is no such row.
RowNotFound(w, kit, loc) ==
  /\ RowsAt(kit, loc) = {}
  /\ Refuse(w)

\* increment, restore and edit end with commit().
InventoryCommits(w) ==
  /\ pc[w] \in {"increment", "restore", "edit"}
  /\ CanCommit(w)
  /\ stock' = Updated(stock, task[w].upd)
  /\ place' = Updated(place, task[w].move)
  /\ Finish(w, "ok")
  /\ UNCHANGED <<rows, nextRow, purchasesTable, redisVars, charges>>

\* DELETE /: cascade='all, delete' deletes the purchases the session loaded.
delete_inventory(w, kit, loc) ==
  \E r \in RowsAt(kit, loc) :
    /\ Start(w, "drop",
             [NoTask EXCEPT
                !.row = r,
                !.seen = {o \in orders : purchase[o].inventory_id = r}])
    /\ UNCHANGED <<inventoryTable, purchasesTable, redisVars, charges>>

DropCommits(w) ==
  /\ pc[w] = "drop"
  /\ CanCommit(w)
  /\ rows' = rows \ {task[w].row}
  /\ orders' = orders \ task[w].seen
  /\ Finish(w, "ok")
  /\ UNCHANGED <<nextRow, place, stock, nextOrder, purchase, redisVars, charges>>

-----------------------------------------------------------------------------
\* Redis drops a reservation after 30 minutes and publishes the expiry; the
\* listener gets it unless it is down at that moment.
PendingExpires(r, u) ==
  /\ redis[PendingKey(r, u)] # 0
  /\ redis' = [redis EXCEPT ![PendingKey(r, u)] = 0]
  /\ expired' \in {expired, expired \cup {<<r, u>>}}
  /\ UNCHANGED <<inventoryTable, purchasesTable, charges, pc, task>>

\* One turn of the listener's loop: it looks for the key <expired key>:data,
\* which no handler writes, so its read and its commit are one step.
ListenerHandles(r, u) ==
  LET rollback == redis[DataKey(r, u)] IN
  /\ <<r, u>> \in expired
  /\ expired' = expired \ {<<r, u>>}
  /\ stock' = IF rollback # 0 /\ r \in rows
                THEN [stock EXCEPT ![r] = @ + rollback] ELSE stock
  /\ redis' = [redis EXCEPT ![DataKey(r, u)] = 0]
  /\ UNCHANGED <<rows, nextRow, place, purchasesTable, charges, pc, task>>
=============================================================================
