------------------------------ MODULE Checkout ------------------------------
(***************************************************************************)
(* Customers checking out: pages/CartPage.jsx and components/              *)
(* BillingModal.jsx in each customer's browser, calling the handlers of    *)
(* InventoryRoutes and PurchaseRoutes.                                     *)
(*                                                                         *)
(* A call of one of the page's three async functions is a thread           *)
(* <<function, user, n>>, and the worker that serves its fetch has its     *)
(* name.  No button is ever disabled: a page runs as many calls of a       *)
(* function at a time as Worker has threads for it.                        *)
(***************************************************************************)
EXTENDS InventoryRoutes, PurchaseRoutes, FiniteSetsExt, Functions

CONSTANTS
  CartOf,     \* the cart a user fills, one line per inventory row
  Serial,     \* TRUE: handlers do not overlap (one worker)
  Patient,    \* TRUE: in the modal a customer waits for the answer to a
              \* click before the next click
  Faulty      \* what may go wrong: "crash" of a worker in a handler, "redis"
              \* not answering, an "answer" lost after the last commit

OneLineEach(s) ==
  \A j, k \in 1..Len(s) : s[j].inventory_id = s[k].inventory_id => j = k

ASSUME CheckoutAssumption ==
  /\ CartOf \in [User -> Seq(Item)]
  /\ \A u \in User : OneLineEach(CartOf[u])
  /\ Worker \subseteq {"checkout", "submit", "close"} \X User \X Nat
  /\ {Serial, Patient} \subseteq BOOLEAN

VARIABLES
  cart,              \* CartContext's cart, of a user
  running,           \* a call of handleCheckout is in its loop
  todo,              \* the lines the loop of a call has not come to
  warehouse,         \* the local arrays of a call
  pickups,
  warehouseItems,    \* CartPage's state, of a user
  showBillingModal

page == <<cart, running, todo, warehouse, pickups, warehouseItems,
          showBillingModal>>
server == vars
allVars == <<vars, page>>

Calls(f) == {t \in Worker : t[1] = f}
CallsOf(u) == {t \in Worker : t[2] = u}

CheckoutInit ==
  /\ Init
  /\ cart = CartOf
  /\ running = [t \in Calls("checkout") |-> FALSE]
  /\ todo = [t \in Calls("checkout") |-> <<>>]
  /\ warehouse = [t \in Calls("checkout") |-> <<>>]
  /\ pickups = [t \in Calls("checkout") |-> <<>>]
  /\ warehouseItems = [u \in User |-> <<>>]
  /\ showBillingModal = [u \in User |-> FALSE]

\* A fetch of thread t reaches a worker.
CanSend(t) ==
  /\ pc[t] = "idle"
  /\ Serial => \A s \in Worker : pc[s] \notin Label

\* The customer is ready for another click in the modal.
CanClick(u) ==
  /\ showBillingModal[u]
  /\ Patient => \A t \in CallsOf(u) : t[1] = "checkout" \/ pc[t] = "idle"

-----------------------------------------------------------------------------
\* The Checkout button, which an open modal covers.
ClickCheckout(t) ==
  LET u == t[2] IN
  /\ ~running[t] /\ ~showBillingModal[u]
  /\ cart[u] # <<>>
  /\ running' = [running EXCEPT ![t] = TRUE]
  /\ todo' = [todo EXCEPT ![t] = cart[u]]
  /\ warehouse' = [warehouse EXCEPT ![t] = <<>>]
  /\ pickups' = [pickups EXCEPT ![t] = <<>>]
  /\ UNCHANGED <<server, cart, warehouseItems, showBillingModal>>

\* One turn of handleCheckout's loop: POST /decrement with the kit and the
\* location of the line's inventory row.
SendDecrement(t) ==
  LET line == Head(todo[t])
      at == place[line.inventory_id]
  IN
  /\ running[t] /\ todo[t] # <<>>
  /\ CanSend(t)
  /\ \/ decrement_quantity(t, t[2], at.kit, at.loc, line.quantity)
     \/ DecrementRefused(t, at.kit, at.loc)
  /\ UNCHANGED page

\* The answer: an entry for one of the arrays; an alert and the next line; or,
\* when fetch rejects, the catch block that ends the function.
ReservedAnyway(t) == pc[t] # "lost"
Reserves(t) == pc[t] = "ok"

LeftUnlessOk(t) == IF pc[t] = "ok" THEN Tail(todo[t]) ELSE todo[t]
LeftAfter(t) == IF pc[t] = "lost" THEN <<>> ELSE Tail(todo[t])

GotDecrement(t) ==
  LET line == Head(todo[t])
      shipped == place[line.inventory_id].loc = "warehouse"
  IN
  /\ Deliver(t)
  /\ todo' = [todo EXCEPT ![t] = LeftAfter(t)]
  /\ running' = [running EXCEPT ![t] = pc[t] # "lost"]
  /\ warehouse' = [warehouse EXCEPT ![t] =
                     IF Reserves(t) /\ shipped THEN Append(@, line) ELSE @]
  /\ pickups' = [pickups EXCEPT ![t] =
                     IF Reserves(t) /\ ~shipped THEN Append(@, line) ELSE @]
  /\ UNCHANGED <<cart, warehouseItems, showBillingModal>>

\* After the loop the modal opens if any line was reserved; only warehouse
\* lines are remembered, and none for a pickup-only checkout.
EndCheckout(t) ==
  LET u == t[2]
      reserved == warehouse[t] # <<>> \/ pickups[t] # <<>>
  IN
  /\ running[t] /\ todo[t] = <<>>
  /\ pc[t] = "idle"
  /\ running' = [running EXCEPT ![t] = FALSE]
  /\ warehouseItems' = [warehouseItems EXCEPT ![u] =
                          IF reserved THEN warehouse[t] ELSE @]
  /\ showBillingModal' = [showBillingModal EXCEPT ![u] = @ \/ reserved]
  /\ UNCHANGED <<server, cart, todo, warehouse, pickups>>

-----------------------------------------------------------------------------
\* handleSubmit of the modal: POST /api/purchases with the WHOLE cart.
Submit(t) ==
  LET u == t[2] IN
  /\ CanClick(u)
  /\ CanSend(t)
  /\ create_purchase(t, u, cart[u]) \/ PurchaseRefused(t, cart[u])
  /\ UNCHANGED page

\* onSuccess empties the cart and closes the modal; any error leaves it open.
GotSubmit(t) ==
  LET paid == pc[t] = "ok" IN
  /\ Deliver(t)
  /\ cart' = [cart EXCEPT ![t[2]] = IF paid THEN <<>> ELSE @]
  /\ showBillingModal' = [showBillingModal EXCEPT ![t[2]] = @ /\ ~paid]
  /\ UNCHANGED <<running, todo, warehouse, pickups, warehouseItems>>

\* handleModalClose: POST /restore-reserved with the warehouse lines.
Close(t) ==
  LET u == t[2] IN
  /\ CanClick(u)
  /\ CanSend(t)
  /\ restore_reserved_inventory(t, u, warehouseItems[u])
  /\ UNCHANGED page

\* The modal closes whatever the answer is.
GotCloseStaysOpen(t) ==
  /\ Deliver(t)
  /\ UNCHANGED page

GotClose(t) ==
  /\ Deliver(t)
  /\ showBillingModal' = [showBillingModal EXCEPT ![t[2]] = FALSE]
  /\ UNCHANGED <<cart, running, todo, warehouse, pickups, warehouseItems>>

\* The customer leaves the page (or reloads it) with nothing in flight.
Leave(u) ==
  LET mine == CallsOf(u) \cap Calls("checkout") IN
  /\ \A t \in CallsOf(u) : pc[t] = "idle"
  /\ showBillingModal[u] \/ \E t \in mine : running[t]
  /\ running' = [t \in Calls("checkout") |-> running[t] /\ t \notin mine]
  /\ todo' = [t \in Calls("checkout") |-> IF t \in mine THEN <<>> ELSE todo[t]]
  /\ warehouseItems' = [warehouseItems EXCEPT ![u] = <<>>]
  /\ showBillingModal' = [showBillingModal EXCEPT ![u] = FALSE]
  /\ UNCHANGED <<server, cart, warehouse, pickups>>

\* After a purchase the customer fills the same cart again.
Refill(u) ==
  /\ cart[u] = <<>>
  /\ \A t \in CallsOf(u) \cap Calls("checkout") : ~running[t]
  /\ cart' = [cart EXCEPT ![u] = CartOf[u]]
  /\ UNCHANGED <<server, running, todo, warehouse, pickups, warehouseItems,
                 showBillingModal>>

-----------------------------------------------------------------------------
\* A worker goes on with the fetch of thread t.
Serve(t) ==
  /\ \/ DecrementCommits(t) \/ SetPending(t)
     \/ InventoryCommits(t)
     \/ PaymentSucceeds(t) \/ PaymentFails(t)
     \/ ClaimItem(t) \/ InsertCommits(t)
  /\ UNCHANGED page

Faults ==
  /\ \E t \in Worker :
       \/ "crash" \in Faulty /\ Crash(t)
       \/ "redis" \in Faulty /\ (SetPendingFails(t) \/ RestoreFails(t) \/ ClaimFails(t))
       \/ "answer" \in Faulty /\ AnswerLost(t)
  /\ UNCHANGED page

Expiry ==
  /\ \E r \in Row, u \in User : PendingExpires(r, u) \/ ListenerHandles(r, u)
  /\ UNCHANGED page

\* What a page does by itself, and what its customer does.
PageStep(t) ==
  \/ /\ t[1] = "checkout"
     /\ SendDecrement(t) \/ GotDecrement(t) \/ EndCheckout(t)
  \/ t[1] = "submit" /\ GotSubmit(t)
  \/ t[1] = "close" /\ GotClose(t)

Click(t) ==
  \/ t[1] = "checkout" /\ ClickCheckout(t)
  \/ t[1] = "submit" /\ Submit(t)
  \/ t[1] = "close" /\ Close(t)

CheckoutNext ==
  \/ \E t \in Worker : PageStep(t) \/ Click(t) \/ Serve(t)
  \/ \E u \in User : Leave(u) \/ Refill(u)
  \/ Faults
  \/ Expiry

\* The page runs the continuation of a fetch that was answered, and a worker
\* finishes a handler; customers need not click, and nothing need go wrong.
CheckoutSpec ==
  /\ CheckoutInit /\ [][CheckoutNext]_allVars
  /\ \A t \in Worker : WF_allVars(PageStep(t)) /\ WF_allVars(Serve(t))

-----------------------------------------------------------------------------
\* How many units a set of buyers has, when each has some: pairs are counted.
Units(S, quantity) == Cardinality({x \in S \X Quantity : x[2] <= quantity[x[1]]})

Sold(r) == Units({o \in orders : purchase[o].inventory_id = r},
                 [o \in Order |-> purchase[o].quantity])
Supply(r) == IF r <= Len(Opening) THEN Opening[r].quantity ELSE 0

Lines(u) == {s \in Seq(Item) : Range(s) \subseteq Range(CartOf[u]) /\ OneLineEach(s)}

\* Type invariant of the page: its arrays hold lines of the cart, no row
\* twice, and none that is still to come is among the reserved; the loop has
\* lines left only while it runs, and while it waits for an answer.
PageTypeOK ==
  /\ cart \in [User -> Seq(Item)] /\ \A u \in User : cart[u] \in {<<>>, CartOf[u]}
  /\ warehouseItems \in [User -> Seq(Item)] /\ \A u \in User : warehouseItems[u] \in Lines(u)
  /\ showBillingModal \in [User -> BOOLEAN]
  /\ running \in [Calls("checkout") -> BOOLEAN]
  /\ {todo, warehouse, pickups} \subseteq [Calls("checkout") -> Seq(Item)]
  /\ \A t \in Calls("checkout") :
       /\ {todo[t], warehouse[t], pickups[t]} \subseteq Lines(t[2])
       /\ \A x \in Range(todo[t]), y \in Range(warehouse[t]) \cup Range(pickups[t]) :
            x.inventory_id # y.inventory_id
       /\ running[t] \/ todo[t] = <<>>
       /\ pc[t] = "idle" \/ todo[t] # <<>>

\* A unit is sold only after it left the shelf, and not put back once it is
\* sold: what is on the shelf and what is sold never exceed the supply of a
\* row (a shelf below 0 counts the units that are owed).
SoldLeftTheShelf == \A r \in rows : stock[r] + Sold(r) <= Supply(r)

\* Closing the modal gives back no more than checking out took: over all rows
\* the shelves never hold more than the supply, although customers close while
\* paying, leave with the modal open, retry, and lose answers.  It takes a
\* customer who does not click Cancel again while handleModalClose waits.
ShelfNeverOverfull ==
  MapThenSumSet(LAMBDA r : stock[r], Row) <= MapThenSumSet(Supply, Row)

\* A click on Checkout is answered: handleCheckout leaves its loop, with the
\* modal or an alert, whatever happens to its requests.
CheckoutEnds == \A t \in Calls("checkout") : running[t] ~> ~running[t]

-----------------------------------------------------------------------------
\* Why a patient customer with one line gets what was reserved: a call of
\* handleCheckout has the units it deducted until it ends, and then the modal
\* has them, until a purchase is inserted or a restore is committed.
Wanted(u) == CartOf[u][1]
ModalCalls(u) == CallsOf(u) \ Calls("checkout")
HasUnits(t) ==
  \/ pc[t] \in {"pend", "ok"}
  \/ running[t] /\ (warehouse[t] # <<>> \/ pickups[t] # <<>>)
ModalHasUnits(u) == showBillingModal[u] /\ \A t \in ModalCalls(u) : pc[t] # "ok"

Reserving(r) ==
  Units({t \in Calls("checkout") : HasUnits(t) /\ Wanted(t[2]).inventory_id = r},
        [t \in Calls("checkout") |-> Wanted(t[2]).quantity])
Billing(r) ==
  Units({u \in User : ModalHasUnits(u) /\ Wanted(u).inventory_id = r},
        [u \in User |-> Wanted(u).quantity])

\* Of a call in flight: where it is, and what it is going to write, computed
\* from the stock there is; a modal waits for one call at a time.
CheckoutIsFresh(t) ==
  LET line == Wanted(t[2])
      r == line.inventory_id
  IN
  /\ pc[t] \in {"idle", "decrement", "pend"} \cup Answer
  /\ todo[t] # <<>> => todo[t] = CartOf[t[2]] /\ warehouse[t] = <<>> /\ pickups[t] = <<>>
  /\ pc[t] = "decrement" => stock[r] > 0 /\ task[t].upd = {<<r, stock[r] - line.quantity>>}
ModalIsFresh(t) ==
  LET line == Wanted(t[2])
      r == line.inventory_id
  IN
  /\ t[1] = "submit" => pc[t] \in {"idle", "pay", "claim", "insert"} \cup Answer
  /\ t[1] = "close" => pc[t] \in {"idle", "restore"} \cup Answer
  /\ pc[t] \in {"pay", "claim", "insert"} => task[t].items = CartOf[t[2]]
  /\ pc[t] = "restore" =>
       task[t].upd \subseteq {<<r, stock[r] + line.quantity>>} /\ task[t].move = {}
  /\ pc[t] # "idle" => /\ showBillingModal[t[2]]
                       /\ \A s \in ModalCalls(t[2]) \ {t} : pc[s] = "idle"

CallIsFresh(t) == IF t[1] = "checkout" THEN CheckoutIsFresh(t) ELSE ModalIsFresh(t)

RowsAsOpened ==
  /\ rows = 1..Len(Opening)
  /\ \A r \in rows : place[r] = [kit |-> Opening[r].kit, loc |-> Opening[r].loc]
NoRollbackData == \A r \in Row, u \in User : redis[DataKey(r, u)] = 0
OneHandlerRuns == \A s, t \in Worker : {pc[s], pc[t]} \subseteq Label => s = t
UnitsFit == \A r \in Row : stock[r] + Sold(r) + Billing(r) + Reserving(r) <= Supply(r)

\* All of it: units on the shelf, sold, and in somebody's hands fit the
\* supply, and one handler runs at a time, on what is there.
PromiseInv ==
  /\ RowsAsOpened /\ NoRollbackData /\ OneHandlerRuns
  /\ \A t \in Worker : CallIsFresh(t)
  /\ UnitsFit

-----------------------------------------------------------------------------
\* What the shop promises of each row, as an abstract specification.
Promise == INSTANCE Shop WITH supply <- [r \in Row |-> Supply(r)],
                              shelf <- stock,
                              sold <- [r \in Row |-> Sold(r)]
KeepsPromise == Promise!Spec
=============================================================================
