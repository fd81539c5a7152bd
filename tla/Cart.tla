-------------------------------- MODULE Cart --------------------------------
(***************************************************************************)
(* One customer's cart: context/CartContext.jsx in each browser tab and    *)
(* the handlers of cart_routes.py over the table cart_items.               *)
(*                                                                         *)
(* A slot is a pair (kit, inventory row).  The page's functions are async  *)
(* and no button is disabled, so several calls of a tab run at a time;     *)
(* a call keeps the cart of the render it was started in.                  *)
(***************************************************************************)
EXTENDS Naturals

CONSTANTS
  Tab, Slot, Call,
  MaxQty,       \* the largest number typed into a quantity field
  MaxClicks,    \* clicks in a behaviour
  Serial        \* TRUE: handlers do not overlap (one worker)

ASSUME CartAssumption ==
  /\ {MaxQty, MaxClicks} \subseteq Nat
  /\ Serial \in BOOLEAN

VARIABLES
  rows,      \* the table cart_items: a set of [id, slot, quantity]
  lastId,    \* its AUTO_INCREMENT counter
  open,      \* the tabs whose page is mounted
  cart,      \* CartContext's state, of a tab
  call,      \* the async calls and where each of them is
  clicks,
  wanted,    \* history: what the clicks asked for, of a slot
  used,      \* history: the tab of the last click
  calm       \* history: every click was made on a page that showed the
             \* table, with no call running, and no request was lost

vars == <<rows, lastId, open, cart, call, clicks, wanted, used, calm>>

-----------------------------------------------------------------------------
(* A call: its step, its tab, the slot and row it is about, the quantity   *)
(* it sends, the cart it captured or was sent (seen), the row its handler  *)
(* has read, and what addToCart does next.                                 *)

NoCall == [step |-> "none"]

Requests == {"PUT", "POST", "DELETE", "CLEAR", "GET"}
Commits == {"update", "insert", "delete"}

Running == {c \in Call : call[c] # NoCall}
Done(c) == call' = [call EXCEPT ![c] = NoCall]
Goes(c, next) == call' = [call EXCEPT ![c] = next]

Init ==
  /\ rows = {}
  /\ lastId = 0
  /\ open = {}
  /\ cart = [b \in Tab |-> {}]
  /\ call = [c \in Call |-> NoCall]
  /\ clicks = 0
  /\ wanted = [s \in Slot |-> 0]
  /\ used = {}
  /\ calm = TRUE

-----------------------------------------------------------------------------
(* The page.                                                               *)

Start(c, fields) ==
  /\ call[c] = NoCall
  /\ call' = [call EXCEPT ![c] = fields]

Click(b) ==
  /\ b \in open
  /\ clicks < MaxClicks
  /\ clicks' = clicks + 1
  /\ used' = {b}
  /\ calm' = (calm /\ Running = {} /\ cart[b] = rows)
  /\ UNCHANGED <<rows, lastId, open>>

\* The effect that loads the cart when the page is mounted.
Mount(b, c) ==
  /\ b \notin open
  /\ open' = open \cup {b}
  /\ Start(c, [step |-> "GET", tab |-> b, mount |-> TRUE])
  /\ UNCHANGED <<rows, lastId, cart, clicks, wanted, used, calm>>

\* addToCart up to its first await: it asks for the kit's stock.
addToCart(b, c, s) ==
  /\ Click(b)
  /\ Start(c, [step |-> "ask", tab |-> b, slot |-> s, seen |-> cart[b]])
  /\ UNCHANGED <<cart, wanted>>

\* Out of stock, or the location selector was cancelled.
OutOfStock(c) ==
  /\ call[c].step = "ask"
  /\ Done(c)
  /\ UNCHANGED <<rows, lastId, open, cart, clicks, wanted, used, calm>>

With(items, s, n) ==
  {IF i.slot = s THEN [i EXCEPT !.quantity = @ + n] ELSE i : i \in items}

\* addToCart after it: the item is looked for in the captured cart.
Chosen(c) ==
  LET s == call[c].slot
      existing == {i \in call[c].seen : i.slot = s}
  IN
  /\ call[c].step = "ask"
  /\ wanted' = [wanted EXCEPT ![s] = @ + 1]
  /\ \/ /\ existing # {}
        /\ cart' = [cart EXCEPT ![call[c].tab] = With(call[c].seen, s, 1)]
        /\ \E i \in existing :
             /\ \A j \in existing : i.id <= j.id
             /\ Goes(c, [step |-> "PUT", id |-> i.id, quantity |-> i.quantity + 1])
     \/ /\ existing = {}
        /\ Goes(c, [step |-> "POST", tab |-> call[c].tab, slot |-> s])
        /\ UNCHANGED cart
  /\ UNCHANGED <<rows, lastId, open, clicks, used, calm>>

updateQuantity(b, c, i, q) ==
  /\ Click(b)
  /\ i \in cart[b]
  /\ cart' = [cart EXCEPT ![b] =
                {IF j.id = i.id THEN [j EXCEPT !.quantity = q] ELSE j : j \in @}]
  /\ Start(c, [step |-> "PUT", id |-> i.id, quantity |-> q])
  /\ wanted' = [wanted EXCEPT ![i.slot] = q]

removeFromCart(b, c, i) ==
  /\ Click(b)
  /\ i \in cart[b]
  /\ cart' = [cart EXCEPT ![b] = {j \in @ : j.id # i.id}]
  /\ Start(c, [step |-> "DELETE", id |-> i.id])
  /\ wanted' = [wanted EXCEPT ![i.slot] = 0]

clearCart(b, c) ==
  /\ Click(b)
  /\ cart' = [cart EXCEPT ![b] = {}]
  /\ Start(c, [step |-> "CLEAR"])
  /\ wanted' = [s \in Slot |-> 0]

\* The answer to a GET replaces the tab's cart.
setCart(c) ==
  /\ call[c].step = "answer"
  /\ cart' = [cart EXCEPT ![call[c].tab] = call[c].seen]
  /\ Done(c)
  /\ UNCHANGED <<rows, lastId, open, clicks, wanted, used, calm>>

\* A request, or the answer to it, is lost: nothing is sent again.
Lost(c) ==
  /\ call[c].step \in Requests
  /\ cart' = IF call[c].step = "GET" /\ call[c].mount
             THEN [cart EXCEPT ![call[c].tab] = {}]
             ELSE cart
  /\ Done(c)
  /\ calm' = FALSE
  /\ UNCHANGED <<rows, lastId, open, clicks, wanted, used>>

-----------------------------------------------------------------------------
(* The handlers: what one reads, and then what it commits.                 *)

Serve(c, step) ==
  /\ call[c].step = step
  /\ Serial => \A d \in Call : call[d].step \notin Commits
  /\ UNCHANGED <<lastId, open, cart, clicks, wanted, used, calm>>

get_cart(c) ==
  /\ Serve(c, "GET")
  /\ Goes(c, [step |-> "answer", tab |-> call[c].tab, seen |-> rows])
  /\ UNCHANGED rows

\* A faulty add_to_cart: the table is not searched.
add_to_cartAlways(c) ==
  /\ Serve(c, "POST")
  /\ Goes(c, [step |-> "insert", tab |-> call[c].tab, slot |-> call[c].slot])
  /\ UNCHANGED rows

add_to_cart(c) ==
  LET found == {r \in rows : r.slot = call[c].slot} IN
  /\ Serve(c, "POST")
  /\ \/ /\ found = {}
        /\ Goes(c, [step |-> "insert", tab |-> call[c].tab, slot |-> call[c].slot])
     \/ \E r \in found :
          Goes(c, [step |-> "update", tab |-> call[c].tab, read |-> r,
                   quantity |-> r.quantity + 1, next |-> "GET"])
  /\ UNCHANGED rows

\* A faulty update_cart: the quantity sent is added.
update_cartAdds(c) ==
  LET found == {r \in rows : r.id = call[c].id} IN
  /\ Serve(c, "PUT")
  /\ \/ found = {} /\ Done(c)
     \/ \E r \in found :
          Goes(c, [step |-> "update", read |-> r,
                   quantity |-> r.quantity + call[c].quantity, next |-> "none"])
  /\ UNCHANGED rows

update_cart(c) ==
  LET found == {r \in rows : r.id = call[c].id} IN
  /\ Serve(c, "PUT")
  /\ \/ found = {} /\ Done(c)
     \/ \E r \in found :
          Goes(c, [step |-> "update", read |-> r,
                   quantity |-> call[c].quantity, next |-> "none"])
  /\ UNCHANGED rows

delete_cart(c) ==
  /\ Serve(c, "DELETE")
  /\ IF \E r \in rows : r.id = call[c].id
     THEN Goes(c, [step |-> "delete", id |-> call[c].id]) ELSE Done(c)
  /\ UNCHANGED rows

delete_all_cart(c) ==
  /\ Serve(c, "CLEAR")
  /\ rows' = {}
  /\ Done(c)

\* The commit of an UPDATE: none is sent for an unchanged quantity, and one
\* of a row that is gone fails.  addToCart goes on whatever the status.
CommitUpdate(c) ==
  LET r == call[c].read
      q == call[c].quantity
  IN
  /\ call[c].step = "update"
  /\ rows' = {IF x.id = r.id /\ q # r.quantity THEN [x EXCEPT !.quantity = q] ELSE x :
                x \in rows}
  /\ IF call[c].next = "GET"
     THEN Goes(c, [step |-> "GET", tab |-> call[c].tab, mount |-> FALSE])
     ELSE Done(c)
  /\ UNCHANGED <<lastId, open, cart, clicks, wanted, used, calm>>

\* A faulty CommitInsert: the id of the last row is used again.
CommitInsertReusing(c) ==
  /\ call[c].step = "insert"
  /\ rows' = rows \cup {[id |-> lastId, slot |-> call[c].slot, quantity |-> 1]}
  /\ lastId' = lastId
  /\ Goes(c, [step |-> "GET", tab |-> call[c].tab, mount |-> FALSE])
  /\ UNCHANGED <<open, cart, clicks, wanted, used, calm>>

CommitInsert(c) ==
  /\ call[c].step = "insert"
  /\ rows' = rows \cup {[id |-> lastId + 1, slot |-> call[c].slot, quantity |-> 1]}
  /\ lastId' = lastId + 1
  /\ Goes(c, [step |-> "GET", tab |-> call[c].tab, mount |-> FALSE])
  /\ UNCHANGED <<open, cart, clicks, wanted, used, calm>>

CommitDelete(c) ==
  /\ call[c].step = "delete"
  /\ rows' = {r \in rows : r.id # call[c].id}
  /\ Done(c)
  /\ UNCHANGED <<lastId, open, cart, clicks, wanted, used, calm>>

-----------------------------------------------------------------------------
PageStep(c) ==
  \/ \E b \in Tab :
       \/ Mount(b, c)
       \/ \E s \in Slot : addToCart(b, c, s)
       \/ \E i \in cart[b], q \in 0 .. MaxQty : updateQuantity(b, c, i, q)
       \/ \E i \in cart[b] : removeFromCart(b, c, i)
       \/ clearCart(b, c)
  \/ OutOfStock(c)
  \/ Chosen(c)
  \/ setCart(c)
  \/ Lost(c)

ServerStep(c) ==
  \/ get_cart(c)
  \/ add_to_cart(c)
  \/ update_cart(c)
  \/ delete_cart(c)
  \/ delete_all_cart(c)
  \/ CommitUpdate(c)
  \/ CommitInsert(c)
  \/ CommitDelete(c)

Next == \E c \in Call : PageStep(c) \/ ServerStep(c)

Spec == Init /\ [][Next]_vars

-----------------------------------------------------------------------------
(* Properties.                                                             *)

\* The rows that can be made with the first n ids.
Item(n) == [id : 1 .. n, slot : Slot, quantity : Nat]

\* Types: the ids shown by a page, or about to be, were handed out by
\* cart_items' AUTO_INCREMENT and no two rows share one.
CartTypeOK ==
  /\ lastId \in Nat
  /\ rows \subseteq Item(lastId)
  /\ \A r, s \in rows : r.id = s.id => r = s
  /\ open \subseteq Tab
  /\ cart \in [Tab -> SUBSET Item(lastId)]
  /\ wanted \in [Slot -> Nat]
  /\ used \subseteq Tab
  /\ \A c \in Call : call[c].step \in Requests \cup Commits \cup {"none", "ask", "answer"}

\* cart_items has no unique constraint: that a slot has one row is the work
\* of the search in add_to_cart (cart_routes.py:26), however many tabs and
\* hasty clicks send POSTs, as long as handlers do not overlap.
OneRowPerSlot ==
  \A r, s \in rows : r.slot = s.slot => r.id = s.id

\* The table holds what the clicks asked for: a row has the quantity wanted
\* of its slot, and what is wanted has a row.
AsWanted ==
  /\ \A r \in rows : r.quantity = wanted[r.slot]
  /\ \A s \in Slot : wanted[s] > 0 => \E r \in rows : r.slot = s

\* A customer who lets every call end before the next click, on a page that
\* is up to date, has in the table what the clicks asked for, one row per
\* slot, and sees it once nothing is in flight: the optimistic setCart of
\* CartContext.jsx and the handler it calls agree.
CalmCartIsTrue ==
  calm /\ Running = {} =>
    /\ \A r, s \in rows : r.slot = s.slot => r = s
    /\ AsWanted
    /\ \A b \in used : cart[b] = rows

-----------------------------------------------------------------------------
(* What the steps preserve.                                                *)

\* The fields of a call, by its step, when n ids were handed out.
CallOK(j, n) ==
  /\ j.step = "none" => j = NoCall
  /\ j.step \in {"ask", "POST", "insert"} => j.tab \in Tab /\ j.slot \in Slot
  /\ j.step \in {"ask", "answer"} => j.seen \subseteq Item(n)
  /\ j.step \in {"GET", "answer"} => j.tab \in Tab
  /\ j.step \in {"PUT", "update"} => j.quantity \in Nat
  /\ j.step \in {"PUT", "DELETE", "delete"} => j.id \in 1 .. n
  /\ j.step = "update" => j.read \in Item(n) /\ (j.next = "GET" => j.tab \in Tab)

CallsOK ==
  /\ call = [c \in Call |-> call[c]]
  /\ \A c \in Call : CallOK(call[c], lastId)

\* With one worker, handlers commit one at a time, and one that is about to
\* insert a row still has nothing to find.
InsertsAreAlone ==
  /\ \A c, d \in Call : call[c].step \in Commits /\ call[d].step \in Commits => c = d
  /\ \A c \in Call : call[c].step = "insert" => \A r \in rows : r.slot # call[c].slot

\* A call that a click started: all but the GETs of pages being mounted.
OfClick(c) ==
  call[c] # NoCall /\ (call[c].step \in {"GET", "answer"} => call[c].tab \in used)

\* How far the table is behind the click, and the page ahead of the table,
\* at each step of the click's call.
Changed(items, id, q) == {IF i.id = id THEN [i EXCEPT !.quantity = q] ELSE i : i \in items}

Behind(c) ==
  LET j == call[c] IN
  /\ j.step = "ask" => AsWanted /\ used = {j.tab} /\ j.seen = rows /\ cart[j.tab] = rows
  /\ j.step \in {"PUT", "update"} =>
       /\ \E r \in rows :
            /\ IF j.step = "PUT" THEN r.id = j.id ELSE r = j.read /\ j.next = "none"
            /\ wanted[r.slot] = j.quantity
            /\ \A x \in rows : x.slot # r.slot => x.quantity = wanted[x.slot]
            /\ \A b \in used : cart[b] = Changed(rows, r.id, j.quantity)
       /\ \A s \in Slot : wanted[s] > 0 => \E r \in rows : r.slot = s
  /\ j.step \in {"POST", "insert"} =>
       /\ used = {j.tab}
       /\ wanted[j.slot] = 1
       /\ \A r \in rows : r.slot # j.slot /\ r.quantity = wanted[r.slot]
       /\ \A s \in Slot : wanted[s] > 0 /\ s # j.slot => \E r \in rows : r.slot = s
  /\ j.step \in {"DELETE", "delete"} =>
       /\ \E r \in rows :
            /\ r.id = j.id
            /\ wanted[r.slot] = 0
            /\ \A x \in rows : x.slot # r.slot => x.quantity = wanted[x.slot]
            /\ \A b \in used : cart[b] = {x \in rows : x.id # r.id}
       /\ \A s \in Slot : wanted[s] > 0 => \E r \in rows : r.slot = s
  /\ j.step = "CLEAR" => (\A s \in Slot : wanted[s] = 0) /\ \A b \in used : cart[b] = {}
  /\ j.step \in {"GET", "answer"} => AsWanted
  /\ j.step = "answer" => j.seen = rows

CalmInv ==
  calm =>
    /\ \A r, s \in rows : r.slot = s.slot => r = s
    /\ used \subseteq open
    /\ \A b1, b2 \in used : b1 = b2
    /\ \A c, d \in Call : OfClick(c) /\ OfClick(d) => c = d
    /\ \A c \in Call : OfClick(c) => Behind(c)
    /\ (\A c \in Call : ~OfClick(c)) => AsWanted /\ \A b \in used : cart[b] = rows

\* Every step of the pages and of the handlers preserves all of it: the
\* calls carry what their next step needs, and a calm customer's page and
\* table are apart by exactly the call in flight.
CartInv ==
  /\ CartTypeOK
  /\ CallsOK
  /\ Serial => OneRowPerSlot /\ InsertsAreAlone
  /\ CalmInv
=============================================================================
