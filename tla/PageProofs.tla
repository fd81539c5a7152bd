----------------------------- MODULE PageProofs -----------------------------
(***************************************************************************)
(* Proofs about the pages of Checkout, for every number of customers,      *)
(* calls, rows and lines: the pages keep their lists in order, and what    *)
(* the store keeps is kept under the pages' requests.  The second half     *)
(* counts units and follows the calls in flight of patient customers, for  *)
(* CheckoutProofs.                                                         *)
(***************************************************************************)
EXTENDS Checkout, StoreProofs, FiniteSetTheorems

-----------------------------------------------------------------------------
(* Lists of lines.                                                         *)

LEMMA NoLines ==
  ASSUME NEW u \in User
  PROVE  <<>> \in Lines(u)
  BY DEF Lines, OneLineEach, Range

LEMMA CartIsLines ==
  ASSUME NEW u \in User
  PROVE  CartOf[u] \in Lines(u)
  BY CheckoutAssumption DEF Lines

LEMMA TailIsLines ==
  ASSUME NEW u \in User, NEW s \in Lines(u), s # <<>>
  PROVE  /\ Tail(s) \in Lines(u) /\ Head(s) \in Range(s)
         /\ Range(Tail(s)) \subseteq Range(s)
         /\ \A x \in Range(Tail(s)) : x.inventory_id # Head(s).inventory_id
<1>1. s \in Seq(Item) /\ Len(s) \in Nat /\ Len(s) > 0 /\ DOMAIN s = 1..Len(s)
  BY DEF Lines
<1>2. /\ Tail(s) \in Seq(Item) /\ DOMAIN Tail(s) = 1..(Len(s) - 1)
      /\ \A k \in 1..(Len(s) - 1) : Tail(s)[k] = s[k + 1]
      /\ Len(Tail(s)) = Len(s) - 1
      /\ Head(s) = s[1] /\ 1 \in DOMAIN s
  BY <1>1
<1>3. \A x \in Range(Tail(s)) : \E k \in 2..Len(s) : x = s[k]
  BY <1>1, <1>2 DEF Range
<1>4. Range(Tail(s)) \subseteq Range(s) /\ Head(s) \in Range(s)
  BY <1>1, <1>2, <1>3 DEF Range
<1>5. OneLineEach(s)
  BY DEF Lines
<1>6. OneLineEach(Tail(s))
  BY <1>1, <1>2, <1>5 DEF OneLineEach
<1>7. \A x \in Range(Tail(s)) : x.inventory_id # Head(s).inventory_id
  BY <1>1, <1>2, <1>3, <1>5 DEF OneLineEach
<1> QED
  BY <1>2, <1>4, <1>6, <1>7 DEF Lines

LEMMA AppendIsLines ==
  ASSUME NEW u \in User, NEW s \in Lines(u), NEW x \in Range(CartOf[u]),
         \A y \in Range(s) : x.inventory_id # y.inventory_id
  PROVE  /\ Append(s, x) \in Lines(u)
         /\ Range(Append(s, x)) = Range(s) \cup {x}
<1>1. s \in Seq(Item) /\ Len(s) \in Nat /\ DOMAIN s = 1..Len(s) /\ x \in Item
  BY CheckoutAssumption DEF Lines, Range
<1>2. /\ Append(s, x) \in Seq(Item) /\ DOMAIN Append(s, x) = 1..(Len(s) + 1)
      /\ \A k \in 1..Len(s) : Append(s, x)[k] = s[k]
      /\ Append(s, x)[Len(s) + 1] = x
      /\ Len(Append(s, x)) = Len(s) + 1
  BY <1>1
<1>3. Range(Append(s, x)) = Range(s) \cup {x}
  BY <1>1, <1>2 DEF Range
<1>4. OneLineEach(s)
  BY DEF Lines
<1>5. \A k \in 1..Len(s) : s[k].inventory_id # x.inventory_id
  BY <1>1 DEF Range
<1>6. OneLineEach(Append(s, x))
  BY <1>1, <1>2, <1>4, <1>5 DEF OneLineEach
<1> QED
  BY <1>2, <1>3, <1>6 DEF Lines

LEMMA CallTypes ==
  ASSUME NEW t \in Worker
  PROVE  /\ t[1] \in {"checkout", "submit", "close"} /\ t[2] \in User
         /\ t \in Calls(t[1]) /\ t \in CallsOf(t[2])
  BY CheckoutAssumption DEF Calls, CallsOf

-----------------------------------------------------------------------------
(* The store under the pages' requests.                                    *)

\* The requests a page makes of a worker.
PageRequest(w) ==
  \/ \E u \in User, kit \in Kit, loc \in Location, q \in Quantity :
       \/ decrement_quantity(w, u, kit, loc, q)
       \/ DecrementRefused(w, kit, loc)
  \/ \E u \in User, items \in Seq(Item) :
       /\ OneLineEach(items)
       /\ \/ restore_reserved_inventory(w, u, items)
          \/ create_purchase(w, u, items)
          \/ PurchaseRefused(w, items)

\* What the server does in a step, as Store says it.
ServerStep ==
  \/ \E w \in Worker : PageRequest(w) \/ Work(w) \/ Crash(w) \/ AnswerLost(w) \/ Deliver(w)
  \/ Background
  \/ UNCHANGED vars

LEMMA LinesAreItems ==
  ASSUME PageTypeOK
  PROVE  /\ \A u \in User : /\ {cart[u], warehouseItems[u]} \subseteq Seq(Item)
                            /\ OneLineEach(cart[u]) /\ OneLineEach(warehouseItems[u])
         /\ \A t \in Calls("checkout") :
              todo[t] # <<>> => Head(todo[t]) \in Item /\ Head(todo[t]) \in Range(CartOf[t[2]])
<1>1. ASSUME NEW u \in User
      PROVE  {cart[u], warehouseItems[u]} \subseteq Lines(u)
  BY <1>1, NoLines, CartIsLines, Zenon DEF PageTypeOK
<1>2. ASSUME NEW t \in Calls("checkout"), todo[t] # <<>>
      PROVE  Head(todo[t]) \in Item /\ Head(todo[t]) \in Range(CartOf[t[2]])
  <2>1. t[2] \in User /\ todo[t] \in Lines(t[2])
    BY <1>2, CallTypes DEF PageTypeOK, Calls
  <2>2. Head(todo[t]) \in Range(todo[t])
    BY <1>2, <2>1, TailIsLines
  <2>3. Head(todo[t]) \in Range(CartOf[t[2]])
    BY <2>1, <2>2 DEF Lines
  <2>4. CartOf[t[2]] \in Seq(Item)
    BY <2>1, CheckoutAssumption
  <2> QED
    BY <2>3, <2>4 DEF Range
<1> QED
  BY <1>1, <1>2 DEF Lines

LEMMA SendsOne ==
  ASSUME StockInv, PageTypeOK, NEW t \in Calls("checkout"), SendDecrement(t)
  PROVE  PageRequest(t)
<1> DEFINE line == Head(todo[t])
           at == place[line.inventory_id]
<1>1. t[2] \in User /\ line \in Item
  BY CallTypes, LinesAreItems DEF SendDecrement, Calls
<1>2. line.quantity \in Quantity /\ at \in Place
  BY <1>1 DEF Item, StockInv, TypeOK
<1>3. at.kit \in Kit /\ at.loc \in Location
  BY <1>2 DEF Place
<1> QED
  BY <1>1, <1>2, <1>3, Zenon DEF SendDecrement, PageRequest

LEMMA StoreStep ==
  ASSUME StockInv, PageTypeOK, [CheckoutNext]_allVars
  PROVE  ServerStep
<1>1. ASSUME NEW t \in Worker, PageStep(t) PROVE ServerStep
  <2>1. CASE t[1] = "checkout" /\ SendDecrement(t)
    BY <2>1, CallTypes, SendsOne DEF ServerStep
  <2>2. CASE GotDecrement(t) \/ GotSubmit(t) \/ GotClose(t)
    BY <2>2 DEF GotDecrement, GotSubmit, GotClose, ServerStep
  <2>3. CASE EndCheckout(t)
    BY <2>3 DEF EndCheckout, server, ServerStep
  <2> QED
    BY <1>1, <2>1, <2>2, <2>3 DEF PageStep
<1>2. ASSUME NEW t \in Worker, Click(t) PROVE ServerStep
  <2>1. CASE ClickCheckout(t)
    BY <2>1 DEF ClickCheckout, server, ServerStep
  <2>2. CASE Submit(t)
    BY <2>2, CallTypes, LinesAreItems DEF Submit, ServerStep, PageRequest
  <2>3. CASE Close(t)
    BY <2>3, CallTypes, LinesAreItems DEF Close, ServerStep, PageRequest
  <2> QED
    BY <1>2, <2>1, <2>2, <2>3 DEF Click
<1>3. ASSUME NEW t \in Worker, Serve(t) PROVE ServerStep
  BY <1>3, Zenon DEF Serve, Work, ServerStep
<1>4. CASE Faults
  BY <1>4, Zenon DEF Faults, Work, ServerStep
<1>5. CASE Expiry
  BY <1>5, Zenon DEF Expiry, Background, ServerStep
<1>6. ASSUME NEW u \in User, Leave(u) \/ Refill(u) PROVE ServerStep
  BY <1>6, Zenon DEF Leave, Refill, server, ServerStep
<1>7. CASE UNCHANGED allVars
  BY <1>7, Zenon DEF allVars, ServerStep
<1> QED
  BY <1>1, <1>2, <1>3, <1>4, <1>5, <1>6, <1>7, Zenon DEF CheckoutNext

\* Everything Store keeps is kept.
LEMMA StoreKept ==
  ASSUME StockInv, ServerStep
  PROVE  StockInv'
<1>1. ASSUME NEW w \in Worker, Refuse(w) PROVE StockInv'
  BY <1>1, QuietKeeps, Zenon DEF Refuse, tables, Answer
<1>2. ASSUME NEW w \in Worker, PageRequest(w) PROVE StockInv'
  <2>1. ASSUME NEW u \in User, NEW kit \in Kit, NEW loc \in Location, NEW q \in Quantity,
               decrement_quantity(w, u, kit, loc, q)
        PROVE  StockInv'
    <3>1. DecrementRows(kit, loc) \subseteq Row
      BY IdsInRange DEF DecrementRows, RowsAt, StockInv
    <3> QED
      BY <2>1, <3>1, DecrementReadsKeeps DEF decrement_quantity
  <2> QED
    BY <1>1, <1>2, <2>1, RestoreKeeps, CreatePurchaseKeeps, Zenon
    DEF PageRequest, DecrementRefused, PurchaseRefused
<1>3. ASSUME NEW w \in Worker, Work(w) \/ Crash(w) \/ AnswerLost(w) \/ Deliver(w)
      PROVE  StockInv'
  BY <1>3, NextStockInv, Zenon DEF Next
<1>4. CASE Background \/ UNCHANGED vars
  BY <1>4, NextStockInv, Zenon DEF Next
<1> QED
  BY <1>2, <1>3, <1>4, Zenon DEF ServerStep

-----------------------------------------------------------------------------
(* The pages' lists.                                                       *)

\* What PageTypeOK says of a call of handleCheckout.
CallOK(t) ==
  /\ {todo[t], warehouse[t], pickups[t]} \subseteq Lines(t[2])
  /\ \A x \in Range(todo[t]), y \in Range(warehouse[t]) \cup Range(pickups[t]) :
       x.inventory_id # y.inventory_id
  /\ running[t] \/ todo[t] = <<>>
  /\ pc[t] = "idle" \/ todo[t] # <<>>

PageTypes ==
  /\ cart \in [User -> Seq(Item)] /\ warehouseItems \in [User -> Seq(Item)]
  /\ showBillingModal \in [User -> BOOLEAN]
  /\ running \in [Calls("checkout") -> BOOLEAN]
  /\ todo \in [Calls("checkout") -> Seq(Item)]
  /\ warehouse \in [Calls("checkout") -> Seq(Item)]
  /\ pickups \in [Calls("checkout") -> Seq(Item)]

LEMMA PageParts ==
  ASSUME PageTypeOK
  PROVE  /\ PageTypes
         /\ \A u \in User : cart[u] \in {<<>>, CartOf[u]} /\ warehouseItems[u] \in Lines(u)
         /\ \A t \in Calls("checkout") : CallOK(t)
<1>1. \A t \in Calls("checkout") : CallOK(t)
  BY Zenon DEF PageTypeOK, CallOK
<1>2. PageTypes
  BY DEF PageTypeOK, PageTypes
<1> QED
  BY <1>1, <1>2, Zenon DEF PageTypeOK

LEMMA PageAgain ==
  ASSUME PageTypes',
         \A u \in User : cart'[u] \in {<<>>, CartOf[u]} /\ warehouseItems'[u] \in Lines(u),
         \A t \in Calls("checkout") : CallOK(t)'
  PROVE  PageTypeOK'
<1>1. ({todo, warehouse, pickups} \subseteq [Calls("checkout") -> Seq(Item)])'
  BY DEF PageTypes
<1> QED
  BY <1>1, Zenon DEF PageTypeOK, PageTypes, CallOK, Lines

\* A step of the server moves one worker, from idle only by a request.
OnlyMoves(w) == \A s \in Worker \ {w} : pc'[s] = pc[s]

LEMMA WorkMoves ==
  ASSUME StockInv, NEW w \in Worker,
         Work(w) \/ Crash(w) \/ AnswerLost(w) \/ Deliver(w)
  PROVE  pc[w] # "idle" /\ OnlyMoves(w)
<1>1. pc \in [Worker -> {"idle"} \cup Label \cup Answer]
  BY DEF StockInv, TypeOK
<1>2. \E a : pc' = [pc EXCEPT ![w] = a]
  BY Zenon DEF Work, Crash, AnswerLost, Deliver, DecrementCommits, SetPending, SetPendingFails,
     InventoryCommits, RestoreFails, DropCommits, PaymentSucceeds, PaymentFails,
     ClaimItem, ClaimFails, InsertCommits, UpdateCommits, CancelCommits, CommitFails, Finish
<1>3. pc[w] # "idle"
  BY DEF Work, Crash, AnswerLost, Deliver, DecrementCommits, SetPending, SetPendingFails,
     InventoryCommits, RestoreFails, DropCommits, PaymentSucceeds, PaymentFails,
     ClaimItem, ClaimFails, InsertCommits, UpdateCommits, CancelCommits, CommitFails,
     Label, Answer
<1> QED
  BY <1>1, <1>2, <1>3 DEF OnlyMoves

LEMMA RequestMoves ==
  ASSUME StockInv, NEW w \in Worker, PageRequest(w)
  PROVE  OnlyMoves(w)
<1>1. pc \in [Worker -> {"idle"} \cup Label \cup Answer]
  BY DEF StockInv, TypeOK
<1>2. \E a : pc' = [pc EXCEPT ![w] = a]
  BY Zenon DEF PageRequest, decrement_quantity, DecrementReads, DecrementRefused, Refuse,
     restore_reserved_inventory, create_purchase, PurchaseRefused, Start
<1> QED
  BY <1>1, <1>2 DEF OnlyMoves

LEMMA PageStays ==
  ASSUME PageTypeOK, UNCHANGED page,
         \A t \in Calls("checkout") : pc'[t] = "idle" \/ todo[t] # <<>>
  PROVE  PageTypeOK'
<1>1. UNCHANGED <<cart, running, todo, warehouse, pickups, warehouseItems, showBillingModal>>
  BY DEF page
<1>2. ASSUME NEW t \in Calls("checkout") PROVE CallOK(t)'
  <2>1. CallOK(t)
    BY <1>2, PageParts
  <2> QED
    BY <1>1, <1>2, <2>1, Zenon DEF CallOK, Lines
<1>3. PageTypes'
  BY <1>1, PageParts DEF PageTypes
<1> QED
  BY <1>1, <1>2, <1>3, PageParts, PageAgain, Zenon

\* A step that leaves the lists alone.
LEMMA ServeKeepsPage ==
  ASSUME StockInv, PageTypeOK, UNCHANGED page, NEW w \in Worker,
         \/ Work(w) \/ Crash(w) \/ AnswerLost(w)
         \/ PageRequest(w) /\ (w[1] = "checkout" => todo[w] # <<>>)
  PROVE  PageTypeOK'
<1>1. OnlyMoves(w) /\ (w \in Calls("checkout") => todo[w] # <<>>)
  BY WorkMoves, RequestMoves, Zenon DEF PageTypeOK, Calls
<1>2. \A t \in Calls("checkout") : pc'[t] = "idle" \/ todo[t] # <<>>
  BY <1>1, Zenon DEF OnlyMoves, PageTypeOK, Calls
<1> QED
  BY <1>2, PageStays

\* The lists of the other calls stay.
SameCall(t) ==
  /\ todo'[t] = todo[t] /\ running'[t] = running[t]
  /\ warehouse'[t] = warehouse[t] /\ pickups'[t] = pickups[t]

LEMMA CallStays ==
  ASSUME PageTypeOK, NEW t \in Calls("checkout"), SameCall(t),
         pc'[t] = pc[t]
  PROVE  CallOK(t)'
<1>1. CallOK(t)
  BY PageParts
<1> QED
  BY <1>1, Zenon DEF CallOK, SameCall, Lines

LEMMA GotDecrementKeepsPage ==
  ASSUME StockInv, PageTypeOK, NEW w \in Calls("checkout"), GotDecrement(w)
  PROVE  PageTypeOK'
<1> DEFINE u == w[2]
           line == Head(todo[w])
<1>p. PageTypes
  BY PageParts
<1>1. w \in Worker /\ u \in User
  BY CallTypes DEF Calls
<1>2. pc[w] \in Answer /\ pc'[w] = "idle" /\ \A t \in Worker \ {w} : pc'[t] = pc[t]
  BY <1>1 DEF GotDecrement, Deliver, StockInv, TypeOK
<1>3. todo[w] # <<>> /\ CallOK(w)
  BY <1>2, PageParts DEF CallOK, Answer
<1>4. /\ Tail(todo[w]) \in Lines(u) /\ line \in Range(todo[w])
      /\ Range(Tail(todo[w])) \subseteq Range(todo[w])
      /\ \A x \in Range(Tail(todo[w])) : x.inventory_id # line.inventory_id
  BY <1>1, <1>3, TailIsLines DEF CallOK
<1>5. line \in Range(CartOf[u])
  BY <1>3, <1>4 DEF CallOK, Lines
<1>6. ASSUME NEW s \in {warehouse[w], pickups[w]}
      PROVE  Append(s, line) \in Lines(u) /\ Range(Append(s, line)) = Range(s) \cup {line}
  <2>1. s \in Lines(u) /\ \A y \in Range(s) : line.inventory_id # y.inventory_id
    BY <1>3, <1>4, <1>6 DEF CallOK
  <2> QED
    BY <1>1, <1>5, <2>1, AppendIsLines
<1>7. /\ todo'[w] \in {<<>>, Tail(todo[w])} /\ (pc[w] = "lost" => todo'[w] = <<>>)
      /\ running'[w] = (pc[w] # "lost")
      /\ warehouse'[w] \in {warehouse[w], Append(warehouse[w], line)}
      /\ pickups'[w] \in {pickups[w], Append(pickups[w], line)}
  BY <1>p DEF GotDecrement, LeftAfter, PageTypes
<1>8. \A t \in Calls("checkout") \ {w} : SameCall(t)
  BY <1>p DEF GotDecrement, PageTypes, SameCall
<1>9. UNCHANGED <<cart, warehouseItems, showBillingModal>>
  BY DEF GotDecrement
<1>10. {todo'[w], warehouse'[w], pickups'[w]} \subseteq Lines(u)
  BY <1>1, <1>3, <1>4, <1>6, <1>7, NoLines, Zenon DEF CallOK
<1>11. Range(<<>>) = {}
  BY DEF Range
<1>12. /\ Range(todo'[w]) \subseteq Range(Tail(todo[w]))
       /\ Range(warehouse'[w]) \subseteq Range(warehouse[w]) \cup {line}
       /\ Range(pickups'[w]) \subseteq Range(pickups[w]) \cup {line}
  BY <1>6, <1>7, <1>11, Zenon
<1>13. \A x \in Range(todo'[w]), y \in Range(warehouse'[w]) \cup Range(pickups'[w]) :
         x.inventory_id # y.inventory_id
  BY <1>3, <1>4, <1>12 DEF CallOK
<1>14. CallOK(w)'
  BY <1>2, <1>7, <1>10, <1>13, Zenon DEF CallOK, Lines
<1>15. ASSUME NEW t \in Calls("checkout") \ {w} PROVE CallOK(t)'
  BY <1>2, <1>8, <1>15, CallStays DEF Calls
<1>16. PageTypes'
  <2>1. {todo'[w], warehouse'[w], pickups'[w]} \subseteq Seq(Item)
    BY <1>10 DEF Lines
  <2> QED
    BY <1>p, <1>9, <2>1 DEF GotDecrement, PageTypes
<1> QED
  BY <1>9, <1>14, <1>15, <1>16, PageParts, PageAgain, Zenon

\* A click on Checkout.
LEMMA ClickKeepsPage ==
  ASSUME StockInv, PageTypeOK, NEW w \in Calls("checkout"), ClickCheckout(w)
  PROVE  PageTypeOK'
<1> DEFINE u == w[2]
<1>p. PageTypes
  BY PageParts
<1>1. w \in Worker /\ u \in User
  BY CallTypes DEF Calls
<1>2. pc' = pc /\ UNCHANGED <<cart, warehouseItems, showBillingModal>>
  BY DEF ClickCheckout, server, vars
<1>3. cart[u] \in Lines(u) /\ <<>> \in Lines(u)
  BY <1>1, PageParts, NoLines, CartIsLines
<1>4. /\ running'[w] = TRUE /\ todo'[w] = cart[u] /\ warehouse'[w] = <<>>
      /\ pickups'[w] = <<>> /\ cart[u] # <<>>
  BY <1>p DEF ClickCheckout, PageTypes
<1>5. \A t \in Calls("checkout") \ {w} : SameCall(t)
  BY <1>p DEF ClickCheckout, PageTypes, SameCall
<1>6. Range(<<>>) = {}
  BY DEF Range
<1>7. CallOK(w)'
  BY <1>3, <1>4, <1>6, Zenon DEF CallOK, Lines
<1>8. ASSUME NEW t \in Calls("checkout") \ {w} PROVE CallOK(t)'
  BY <1>2, <1>5, <1>8, CallStays
<1>9. PageTypes'
  <2>1. cart[u] \in Seq(Item) /\ <<>> \in Seq(Item)
    BY <1>3 DEF Lines
  <2> QED
    BY <1>p, <1>2, <2>1 DEF ClickCheckout, PageTypes
<1> QED
  BY <1>2, <1>7, <1>8, <1>9, PageParts, PageAgain, Zenon

\* The end of the loop.
LEMMA EndKeepsPage ==
  ASSUME StockInv, PageTypeOK, NEW w \in Calls("checkout"), EndCheckout(w)
  PROVE  PageTypeOK'
<1> DEFINE u == w[2]
<1>p. PageTypes
  BY PageParts
<1>1. w \in Worker /\ u \in User
  BY CallTypes DEF Calls
<1>2. /\ pc' = pc /\ UNCHANGED <<cart, todo, warehouse, pickups>> /\ todo[w] = <<>>
      /\ running' = [running EXCEPT ![w] = FALSE]
  BY DEF EndCheckout, server, vars
<1>3. warehouse[w] \in Lines(u)
  BY PageParts DEF CallOK
<1>4. ASSUME NEW t \in Calls("checkout") PROVE CallOK(t)'
  <2>1. CallOK(t)
    BY <1>4, PageParts
  <2>2. running'[t] \/ todo[t] = <<>>
    BY <1>p, <1>2, <2>1, Zenon DEF PageTypes, CallOK
  <2> QED
    BY <1>2, <2>1, <2>2, Zenon DEF CallOK, Lines
<1>5. warehouse[w] \in Seq(Item)
  BY <1>3 DEF Lines
<1>6. warehouseItems' = warehouseItems \/ warehouseItems' = [warehouseItems EXCEPT ![u] = warehouse[w]]
  BY <1>p, Zenon DEF EndCheckout, PageTypes
<1>7. \A v \in User : warehouseItems'[v] \in Lines(v)
  BY <1>p, <1>1, <1>3, <1>6, PageParts, Zenon DEF PageTypes
<1>8. PageTypes'
  <2>1. showBillingModal' \in [User -> BOOLEAN] /\ running' \in [Calls("checkout") -> BOOLEAN]
    BY <1>p, Zenon DEF EndCheckout, PageTypes
  <2>2. warehouseItems' \in [User -> Seq(Item)]
    BY <1>p, <1>5, <1>6, Zenon DEF PageTypes
  <2> QED
    BY <1>p, <1>2, <2>1, <2>2 DEF PageTypes
<1> QED
  BY <1>2, <1>4, <1>7, <1>8, PageParts, PageAgain, Zenon

\* The answers to the modal's requests.
LEMMA AnswerKeepsPage ==
  ASSUME StockInv, PageTypeOK, NEW w \in Worker, w[1] # "checkout",
         GotSubmit(w) \/ GotClose(w)
  PROVE  PageTypeOK'
<1>p. PageTypes /\ w[2] \in User
  BY PageParts, CallTypes
<1>2. UNCHANGED <<running, todo, warehouse, pickups, warehouseItems>>
  BY DEF GotSubmit, GotClose
<1>3. \A t \in Calls("checkout") : pc'[t] = pc[t]
  BY DEF GotSubmit, GotClose, Deliver, Calls, StockInv, TypeOK
<1>4. ASSUME NEW t \in Calls("checkout") PROVE CallOK(t)'
  BY <1>2, <1>3, <1>4, CallStays DEF SameCall
<1>5. showBillingModal' \in [User -> BOOLEAN]
  BY <1>p, Zenon DEF GotSubmit, GotClose, PageTypes
<1>6. cart' \in [User -> Seq(Item)] /\ \A u \in User : cart'[u] \in {<<>>, cart[u]}
  <2>1. CASE GotSubmit(w)
    BY <1>p, <2>1 DEF GotSubmit, PageTypes
  <2>2. CASE GotClose(w)
    BY <1>p, <2>2 DEF GotClose, PageTypes
  <2> QED
    BY <2>1, <2>2
<1>8. \A u \in User : cart'[u] \in {<<>>, CartOf[u]}
  BY <1>6, PageParts
<1>9. PageTypes'
  BY <1>p, <1>2, <1>5, <1>6 DEF PageTypes
<1> QED
  BY <1>2, <1>4, <1>8, <1>9, PageParts, PageAgain, Zenon

\* A customer leaves.
LEMMA LeaveKeepsPage ==
  ASSUME StockInv, PageTypeOK, NEW u \in User, Leave(u)
  PROVE  PageTypeOK'
<1> DEFINE mine == CallsOf(u) \cap Calls("checkout")
<1>p. PageTypes
  BY PageParts
<1>1. /\ pc' = pc /\ UNCHANGED <<cart, warehouse, pickups>>
      /\ \A t \in mine : pc[t] = "idle"
  BY DEF Leave, server, vars
<1>2. \A t \in Calls("checkout") :
        IF t \in mine THEN running'[t] = FALSE /\ todo'[t] = <<>>
        ELSE running'[t] = running[t] /\ todo'[t] = todo[t]
  BY <1>p, Zenon DEF Leave, PageTypes
<1>3. Range(<<>>) = {}
  BY DEF Range
<1>4. ASSUME NEW t \in Calls("checkout") PROVE CallOK(t)'
  <2>1. CASE t \in mine
    <3>1. CallOK(t) /\ <<>> \in Lines(t[2])
      BY <1>4, PageParts, CallTypes, NoLines DEF Calls
    <3>2. running'[t] = FALSE /\ todo'[t] = <<>> /\ pc[t] = "idle"
      BY <1>1, <1>2, <1>4, <2>1
    <3> QED
      BY <1>1, <1>3, <3>1, <3>2, Zenon DEF CallOK, Lines
  <2>2. CASE t \notin mine
    BY <1>1, <1>2, <1>4, <2>2, CallStays DEF SameCall
  <2> QED
    BY <2>1, <2>2
<1>5. <<>> \in Lines(u) /\ <<>> \in Seq(Item)
  BY NoLines
<1>6. \A v \in User : warehouseItems'[v] \in Lines(v)
  BY <1>p, <1>5, PageParts DEF Leave, PageTypes
<1>7. running' \in [Calls("checkout") -> BOOLEAN] /\ showBillingModal' \in [User -> BOOLEAN]
  BY <1>p, Zenon DEF Leave, PageTypes
<1>8. warehouseItems' \in [User -> Seq(Item)] /\ todo' \in [Calls("checkout") -> Seq(Item)]
  BY <1>p, <1>5 DEF Leave, PageTypes
<1>9. PageTypes'
  BY <1>p, <1>1, <1>7, <1>8 DEF PageTypes
<1> QED
  BY <1>1, <1>4, <1>6, <1>9, PageParts, PageAgain, Zenon

\* A customer fills the cart again.
LEMMA RefillKeepsPage ==
  ASSUME StockInv, PageTypeOK, NEW u \in User, Refill(u)
  PROVE  PageTypeOK'
<1>p. PageTypes /\ CartOf[u] \in Seq(Item)
  BY PageParts, CartIsLines DEF Lines
<1>1. /\ UNCHANGED <<running, todo, warehouse, pickups, warehouseItems, showBillingModal>>
      /\ pc' = pc /\ cart' = [cart EXCEPT ![u] = CartOf[u]]
  BY DEF Refill, server, vars
<1>2. ASSUME NEW t \in Calls("checkout") PROVE CallOK(t)'
  BY <1>1, <1>2, CallStays DEF SameCall
<1>3. \A v \in User : cart'[v] \in {<<>>, CartOf[v]}
  BY <1>p, <1>1, PageParts DEF PageTypes
<1>4. PageTypes'
  BY <1>p, <1>1 DEF PageTypes
<1> QED
  BY <1>1, <1>2, <1>3, <1>4, PageParts, PageAgain, Zenon

LEMMA InitPage == CheckoutInit => StockInv /\ PageTypeOK
<1> SUFFICES ASSUME CheckoutInit PROVE StockInv /\ PageTypeOK
  OBVIOUS
<1>1. StockInv
  BY InitStockInv DEF CheckoutInit
<1>2. \A u \in User : cart[u] = CartOf[u] /\ warehouseItems[u] = <<>> /\ CartOf[u] \in Seq(Item)
  BY CheckoutAssumption DEF CheckoutInit
<1>3. <<>> \in Seq(Item) /\ Range(<<>>) = {}
  BY DEF Range
<1>4. \A t \in Calls("checkout") :
        /\ running[t] = FALSE /\ todo[t] = <<>> /\ warehouse[t] = <<>> /\ pickups[t] = <<>>
        /\ pc[t] = "idle" /\ <<>> \in Lines(t[2])
  BY CallTypes, NoLines DEF CheckoutInit, Init, Calls
<1>5. \A t \in Calls("checkout") : CallOK(t)
  BY <1>3, <1>4, Zenon DEF CallOK
<1>6. PageTypes
  BY <1>2, <1>3, CheckoutAssumption DEF CheckoutInit, PageTypes
<1>7. {todo, warehouse, pickups} \subseteq [Calls("checkout") -> Seq(Item)]
  BY <1>6 DEF PageTypes
<1>8. \A u \in User : warehouseItems[u] \in Lines(u)
  BY <1>2, NoLines
<1> QED
  BY <1>1, <1>2, <1>5, <1>6, <1>7, <1>8, Zenon DEF PageTypeOK, PageTypes, CallOK

\* Every step of the pages, their customers, the server and Redis.
LEMMA NextPage ==
  ASSUME StockInv, PageTypeOK, [CheckoutNext]_allVars
  PROVE  StockInv' /\ PageTypeOK'
<1>1. StockInv'
  BY StoreStep, StoreKept
<1>2. ASSUME NEW t \in Worker, PageStep(t) PROVE PageTypeOK'
  <2>1. CASE t[1] = "checkout" /\ SendDecrement(t)
    <3>1. PageRequest(t) /\ todo[t] # <<>> /\ UNCHANGED page
      BY <2>1, CallTypes, SendsOne DEF SendDecrement
    <3> QED
      BY <3>1, ServeKeepsPage
  <2>2. CASE t[1] = "checkout" /\ (GotDecrement(t) \/ EndCheckout(t))
    BY <2>2, CallTypes, GotDecrementKeepsPage, EndKeepsPage
  <2>3. CASE t[1] # "checkout" /\ (GotSubmit(t) \/ GotClose(t))
    BY <2>3, AnswerKeepsPage
  <2> QED
    BY <1>2, <2>1, <2>2, <2>3 DEF PageStep
<1>3. ASSUME NEW t \in Worker, Click(t) PROVE PageTypeOK'
  <2>1. CASE t[1] = "checkout" /\ ClickCheckout(t)
    BY <2>1, CallTypes, ClickKeepsPage
  <2>2. CASE t[1] # "checkout" /\ (Submit(t) \/ Close(t))
    <3>1. PageRequest(t) /\ UNCHANGED page
      BY <2>2, CallTypes, LinesAreItems DEF Submit, Close, PageRequest
    <3> QED
      BY <2>2, <3>1, ServeKeepsPage
  <2> QED
    BY <1>3, <2>1, <2>2 DEF Click
<1>4. ASSUME NEW t \in Worker, Serve(t) PROVE PageTypeOK'
  <2>1. Work(t) /\ UNCHANGED page
    BY <1>4, Zenon DEF Serve, Work
  <2> QED
    BY <2>1, ServeKeepsPage
<1>5. CASE Faults
  <2>1. PICK t \in Worker : Work(t) \/ Crash(t) \/ AnswerLost(t)
    BY <1>5, Zenon DEF Faults, Work
  <2>2. UNCHANGED page
    BY <1>5 DEF Faults
  <2> QED
    BY <1>1, <2>1, <2>2, ServeKeepsPage
<1>6. CASE Expiry \/ UNCHANGED allVars
  <2>1. UNCHANGED page /\ pc' = pc
    BY <1>6, Zenon DEF Expiry, PendingExpires, ListenerHandles, allVars, vars
  <2>2. \A t \in Calls("checkout") : pc'[t] = "idle" \/ todo[t] # <<>>
    BY <2>1, PageParts DEF CallOK
  <2> QED
    BY <1>1, <2>1, <2>2, PageStays
<1>7. ASSUME NEW u \in User, Leave(u) \/ Refill(u) PROVE PageTypeOK'
  BY <1>7, LeaveKeepsPage, RefillKeepsPage
<1> QED
  BY <1>1, <1>2, <1>3, <1>4, <1>5, <1>6, <1>7, Zenon DEF CheckoutNext

\* Everything the store keeps is kept when the requests are those of the
\* pages, and the pages' lists name lines of the cart, each row once, through
\* overlapping calls, answers that fail or get lost, and customers who leave.
THEOREM CheckoutKeepsTypes == CheckoutSpec => [](StockInv /\ PageTypeOK)
<1>1. StockInv /\ PageTypeOK /\ [CheckoutNext]_allVars => (StockInv /\ PageTypeOK)'
  BY NextPage
<1> QED
  BY <1>1, InitPage, PTL DEF CheckoutSpec

\* The lists CartPage.jsx and handleCheckout hold are always in order.
THEOREM PageTypeCorrect == CheckoutSpec => []PageTypeOK
  BY CheckoutKeepsTypes, PTL

\* A store that takes the requests of the pages: decrements, purchases and
\* restores, of any list with one line per row.
TakesPageRequests ==
  /\ {"decrement", "restore", "purchase"} \subseteq Ops
  /\ \A s \in Seq(Item) : OneLineEach(s) => s \in Carts

\* The composed system is a run of the store: what is proved of Store, of
\* stock, purchases and payments, holds of the shop with its pages.
THEOREM CheckoutRunsStore ==
  ASSUME TakesPageRequests
  PROVE  CheckoutSpec => Spec
<1>1. CheckoutInit => Init
  BY DEF CheckoutInit
<1>2. StockInv /\ PageTypeOK /\ [CheckoutNext]_allVars => [Next]_vars
  <2> SUFFICES ASSUME StockInv, PageTypeOK, [CheckoutNext]_allVars PROVE [Next]_vars
    OBVIOUS
  <2>1. ServerStep
    BY StoreStep
  <2>2. ASSUME NEW w \in Worker, PageRequest(w) PROVE Request(w)
    BY <2>2, Zenon DEF PageRequest, Request, TakesPageRequests
  <2> QED
    BY <2>1, <2>2, Zenon DEF ServerStep, Next
<1> QED
  BY <1>1, <1>2, CheckoutKeepsTypes, PTL DEF CheckoutSpec, Spec

\* However the pages' requests overlap, fail and are retried, no row falls
\* below 1 - MaxQty.
THEOREM CheckoutStockFloor == CheckoutSpec => []StockFloor
<1>1. StockInv /\ PageTypeOK => StockFloor
  BY DEF StockInv
<1> QED
  BY <1>1, CheckoutKeepsTypes, PTL

\* And no payment is used twice by the pages: every paid purchase is for a
\* line of its own customer's payment, one purchase per line.
THEOREM CheckoutChargesOnce ==
  ASSUME TakesPageRequests
  PROVE  CheckoutSpec => []ChargedLineSoldOnce /\ []PurchasesHaveRows
  BY CheckoutRunsStore, ChargedLineSoldOnceHolds, RowsOfPurchasesExist, PTL

-----------------------------------------------------------------------------
(* Counting units.                                                         *)

LEMMA BuyersUnits ==
  ASSUME NEW buyer, NEW q \in Nat
  PROVE  IsFiniteSet({buyer} \X (1..q)) /\ Cardinality({buyer} \X (1..q)) = q
<1>1. IsFiniteSet({buyer}) /\ Cardinality({buyer}) = 1
  BY FS_Singleton, Zenon
<1>2. IsFiniteSet(1..q) /\ Cardinality(1..q) = q
  BY FS_Interval
<1>3. IsFiniteSet({buyer} \X (1..q)) /\ Cardinality({buyer} \X (1..q)) = Cardinality({buyer}) * Cardinality(1..q)
  <2> DEFINE A == {buyer}
             B == 1..q
  <2>1. IsFiniteSet(A) /\ IsFiniteSet(B)
    BY <1>1, <1>2
  <2> HIDE DEF A, B
  <2>2. IsFiniteSet(A \X B) /\ Cardinality(A \X B) = Cardinality(A) * Cardinality(B)
    BY <2>1, FS_Product
  <2> QED
    BY <2>2 DEF A, B
<1>4. Cardinality({buyer}) * Cardinality(1..q) = q
  BY <1>1, <1>2
<1> QED
  BY <1>3, <1>4

LEMMA PurchasesFinite ==
  ASSUME StockInv
  PROVE  IsFiniteSet(orders)
<1>1. orders \in SUBSET (1..MaxOrder)
  BY IdsInRange DEF StockInv, Order
<1>2. IsFiniteSet(1..MaxOrder)
  BY FS_Interval, BoundsAssumption
<1> QED
  BY <1>1, <1>2, FS_Subset, Zenon

LEMMA UnitsFinite ==
  ASSUME NEW S, IsFiniteSet(S), NEW f
  PROVE  /\ IsFiniteSet({x \in S \X Quantity : x[2] <= f[x[1]]})
         /\ Units(S, f) \in Nat
<1>1. IsFiniteSet(S \X Quantity)
  <2>1. IsFiniteSet(Quantity)
    BY FS_Interval, BoundsAssumption DEF Quantity
  <2> QED
    BY <2>1, FS_Product
<1>2. {x \in S \X Quantity : x[2] <= f[x[1]]} \in SUBSET (S \X Quantity)
  OBVIOUS
<1>3. IsFiniteSet({x \in S \X Quantity : x[2] <= f[x[1]]})
  BY <1>1, <1>2, FS_Subset
<1> QED
  BY <1>3, FS_CardinalityType DEF Units

LEMMA UnitsFewer ==
  ASSUME NEW T, IsFiniteSet(T), NEW S \in SUBSET T, NEW f, NEW g,
         \A x \in S : f[x] = g[x]
  PROVE  Units(S, f) <= Units(T, g)
<1> DEFINE F == {x \in S \X Quantity : x[2] <= f[x[1]]}
           G == {x \in T \X Quantity : x[2] <= g[x[1]]}
<1>1. F \in SUBSET G
  OBVIOUS
<1>2. IsFiniteSet(G)
  BY UnitsFinite
<1>3. Cardinality(F) <= Cardinality(G)
  <2> HIDE DEF F, G
  <2> QED
    BY <1>1, <1>2, FS_Subset
<1> QED
  BY <1>3 DEF Units

\* A buyer more has its own quantity more.
LEMMA UnitsMore ==
  ASSUME NEW S, IsFiniteSet(S), NEW f, NEW g, NEW o, o \notin S, g[o] \in Quantity,
         \A x \in S : f[x] = g[x]
  PROVE  Units(S \cup {o}, g) = Units(S, f) + g[o]
<1> DEFINE F == {x \in S \X Quantity : x[2] <= f[x[1]]}
           G == {x \in (S \cup {o}) \X Quantity : x[2] <= g[x[1]]}
           N == {o} \X (1..g[o])
<1>1. IsFiniteSet(F) /\ Cardinality(F) \in Nat
  BY UnitsFinite, Zenon DEF Units
<1>2. g[o] \in Nat /\ 1..g[o] \subseteq Quantity /\ \A q \in Quantity : q <= g[o] <=> q \in 1..g[o]
  BY BoundsAssumption DEF Quantity
<1>3. IsFiniteSet(N) /\ Cardinality(N) = g[o]
  BY <1>2, BuyersUnits, Zenon
<1>4. G = F \cup N /\ F \cap N = {}
  <2>1. ASSUME NEW x, NEW q PROVE <<x, q>> \in G <=> <<x, q>> \in F \cup N
    BY <1>2
  <2>2. G \subseteq (S \cup {o}) \X Quantity /\ F \cup N \subseteq (S \cup {o}) \X Quantity
    BY <1>2
  <2> QED
    BY <2>1, <2>2
<1>5. Cardinality(F \cup N) = Cardinality(F) + Cardinality(N) - Cardinality(F \cap N)
  <2> HIDE DEF F, N
  <2> QED
    BY <1>1, <1>3, FS_Union
<1>6. Cardinality(F \cap N) = 0 /\ Cardinality(G) = Cardinality(F \cup N)
  <2>1. Cardinality({}) = 0
    BY FS_EmptySet
  <2> HIDE DEF F, N, G
  <2> QED
    BY <1>4, <2>1, Zenon
<1>7. Cardinality(G) = Cardinality(F) + g[o]
  <2> HIDE DEF F, N, G
  <2> QED
    BY <1>1, <1>2, <1>3, <1>5, <1>6
<1> QED
  BY <1>7, Zenon DEF Units

\* A buyer less has its own quantity less.
LEMMA UnitsLess ==
  ASSUME NEW T, IsFiniteSet(T), NEW o \in T, NEW S \in SUBSET (T \ {o}), NEW f, NEW g,
         g[o] \in Quantity, \A x \in S : f[x] = g[x]
  PROVE  Units(S, f) + g[o] <= Units(T, g)
<1>1. IsFiniteSet(S) /\ S \cup {o} \in SUBSET T /\ o \notin S
  BY FS_Subset
<1>2. Units(S \cup {o}, g) = Units(S, f) + g[o]
  BY <1>1, UnitsMore
<1>3. Units(S \cup {o}, g) <= Units(T, g)
  BY <1>1, UnitsFewer
<1> QED
  BY <1>2, <1>3

\* Those who come are one at most.
LEMMA UnitsJoin ==
  ASSUME NEW S, IsFiniteSet(S), NEW o, NEW R \in SUBSET (S \cup {o}), NEW f,
         f[o] \in Quantity
  PROVE  Units(R, f) <= Units(S, f) + f[o]
<1>q. f[o] \in Nat
  BY BoundsAssumption DEF Quantity
<1>1. Units(S, f) \in Nat /\ f[o] \in Nat
  BY <1>q, UnitsFinite, Zenon
<1>2. CASE R \subseteq S
  <2>1. Units(R, f) <= Units(S, f) /\ Units(R, f) \in Nat
    BY <1>2, UnitsFewer, UnitsFinite, FS_Subset, Zenon
  <2> QED
    BY <1>1, <2>1
<1>3. CASE o \notin S
  <2>1. IsFiniteSet(S \cup {o})
    BY FS_AddElement
  <2>2. Units(R, f) <= Units(S \cup {o}, f)
    BY <2>1, UnitsFewer
  <2>3. Units(S \cup {o}, f) = Units(S, f) + f[o]
    BY <1>3, UnitsMore
  <2> QED
    BY <2>2, <2>3
<1> QED
  BY <1>2, <1>3

-----------------------------------------------------------------------------
(* Patient customers with one line each.                                   *)

\* The shop of KeepsPromise: handlers do not overlap, an answer is not lost
\* after its commit, customers wait in the modal, nothing is sold at the
\* start, a cart has one line, and a line's kit and place find its own row.
OneLineShop ==
  /\ Serial /\ Patient /\ "answer" \notin Faulty
  /\ IsFiniteSet(User) /\ IsFiniteSet(Worker)
  /\ OpeningOrders = <<>>
  /\ \A u \in User : Len(CartOf[u]) = 1 /\ Wanted(u).inventory_id <= Len(Opening)
  /\ \A r, s \in 1..Len(Opening) :
       (/\ Opening[r].loc = Opening[s].loc
        /\ Opening[r].loc = "warehouse" \/ Opening[r].kit = Opening[s].kit)
       => r = s

LEMMA OneLine ==
  ASSUME OneLineShop, NEW u \in User
  PROVE  /\ Wanted(u) \in Item /\ Wanted(u).inventory_id \in 1..Len(Opening)
         /\ Wanted(u).inventory_id \in Row /\ Wanted(u).quantity \in Quantity
         /\ CartOf[u] # <<>> /\ Head(CartOf[u]) = Wanted(u) /\ Tail(CartOf[u]) = <<>>
         /\ Lines(u) \subseteq {<<>>, CartOf[u]}
<1>1. CartOf[u] \in Seq(Item) /\ Len(CartOf[u]) = 1
  BY CheckoutAssumption DEF OneLineShop
<1>2. /\ CartOf[u] = <<Wanted(u)>> /\ CartOf[u] # <<>>
      /\ Head(CartOf[u]) = Wanted(u) /\ Tail(CartOf[u]) = <<>> /\ Wanted(u) \in Item
  <2>1. ASSUME NEW s \in Seq(Item), Len(s) = 1
        PROVE  s = <<s[1]>> /\ s # <<>> /\ Head(s) = s[1] /\ s[1] \in Item
    BY <2>1
  <2>2. ASSUME NEW s \in Seq(Item), Len(s) = 1 PROVE Tail(s) = <<>>
    <3>1. Tail(s) \in Seq(Item) /\ Len(Tail(s)) = 0
      <4>1. s # <<>>
        BY <2>1, <2>2, Zenon
      <4>2. \A x \in Seq(Item) : x # <<>> =>
              Tail(x) \in Seq(Item) /\ Len(Tail(x)) = Len(x) - 1
        BY SMTT(30)
      <4> QED
        BY <2>2, <4>1, <4>2
    <3>2. \A x \in Seq(Item) : Len(x) = 0 => x = <<>>
      OBVIOUS
    <3> QED
      BY <3>1, <3>2, Zenon
  <2> QED
    BY <1>1, <2>1, <2>2 DEF Wanted
<1>3. Wanted(u).inventory_id \in Row /\ Wanted(u).quantity \in Quantity
  BY <1>2 DEF Item
<1>4. Wanted(u).inventory_id \in 1..Len(Opening)
  BY <1>3, OpeningAssumption DEF OneLineShop, Row
<1>5. ASSUME NEW s \in Lines(u), s # <<>> PROVE s = CartOf[u]
  <2>1. s \in Seq(Item) /\ Len(s) \in Nat /\ Len(s) > 0 /\ DOMAIN s = 1..Len(s)
    BY <1>5 DEF Lines
  <2>2. Range(CartOf[u]) = {Wanted(u)}
    BY <1>2 DEF Range
  <2>3. \A k \in 1..Len(s) : s[k] = Wanted(u)
    BY <1>5, <2>1, <2>2, Zenon DEF Lines, Range
  <2>4. OneLineEach(s)
    BY <1>5 DEF Lines
  <2>5. Len(s) = 1
    BY <2>1, <2>3, <2>4 DEF OneLineEach
  <2> QED
    BY <1>1, <1>2, <2>1, <2>3, <2>5
<1> QED
  BY <1>2, <1>3, <1>4, <1>5

\* What u's line adds to the units in hand of row r.
Share(u, r) == IF Wanted(u).inventory_id = r THEN Wanted(u).quantity ELSE 0

LEMMA ShareType ==
  ASSUME OneLineShop, NEW u \in User, NEW r \in Row
  PROVE  Share(u, r) \in Nat
<1>1. Wanted(u).quantity \in Nat
  BY OneLine, BoundsAssumption DEF Quantity
<1> QED
  BY <1>1 DEF Share

\* The units of a set of customers, one of whom comes or goes.
LEMMA HandsMove ==
  ASSUME NEW T, IsFiniteSet(T), NEW S \in SUBSET T, NEW R \in SUBSET T,
         NEW o \in T, NEW f, f[o] \in Quantity, R \ {o} \subseteq S
  PROVE  /\ {Units(R, f), Units(S, f)} \subseteq Nat
         /\ Units(R, f) <= Units(S, f) + f[o]
         /\ (o \in R => o \in S) => Units(R, f) <= Units(S, f)
         /\ o \in S /\ o \notin R => Units(R, f) + f[o] <= Units(S, f)
<1>1. IsFiniteSet(S) /\ IsFiniteSet(R)
  BY FS_Subset
<1>2. {Units(R, f), Units(S, f)} \subseteq Nat
  BY <1>1, UnitsFinite, Zenon
<1>3. Units(R, f) <= Units(S, f) + f[o]
  BY <1>1, UnitsJoin, Zenon
<1>4. ASSUME o \in R => o \in S PROVE Units(R, f) <= Units(S, f)
  <2>1. R \in SUBSET S
    BY <1>4
  <2> QED
    BY <1>1, <2>1, UnitsFewer, Zenon
<1>5. ASSUME o \in S, o \notin R PROVE Units(R, f) + f[o] <= Units(S, f)
  <2>1. R \in SUBSET (S \ {o})
    BY <1>5
  <2> QED
    BY <1>1, <1>5, <2>1, UnitsLess, Zenon
<1> QED
  BY <1>2, <1>3, <1>4, <1>5

LEMMA ReservingMoves ==
  ASSUME OneLineShop, NEW t \in Calls("checkout"), NEW r \in Row,
         \A s \in Calls("checkout") \ {t} : HasUnits(s)' => HasUnits(s)
  PROVE  /\ {Reserving(r), Reserving(r)'} \subseteq Nat
         /\ Reserving(r)' <= Reserving(r) + Share(t[2], r)
         /\ (HasUnits(t)' => HasUnits(t)) => Reserving(r)' <= Reserving(r)
         /\ HasUnits(t) /\ ~HasUnits(t)' => Reserving(r)' + Share(t[2], r) <= Reserving(r)
<1> DEFINE T == Calls("checkout")
           f == [s \in T |-> Wanted(s[2]).quantity]
           S == {s \in T : HasUnits(s) /\ Wanted(s[2]).inventory_id = r}
           R == {s \in T : HasUnits(s)' /\ Wanted(s[2]).inventory_id = r}
<1>1. Reserving(r) = Units(S, f) /\ Reserving(r)' = Units(R, f)
  BY DEF Reserving, Calls, Wanted
<1>2. IsFiniteSet(T)
  BY FS_Subset DEF OneLineShop, Calls
<1>3. t[2] \in User /\ f[t] = Wanted(t[2]).quantity /\ f[t] \in Quantity
  BY CallTypes, OneLine DEF Calls
<1>4. /\ S \in SUBSET T /\ R \in SUBSET T /\ R \ {t} \subseteq S
      /\ t \in S <=> HasUnits(t) /\ Wanted(t[2]).inventory_id = r
      /\ t \in R <=> HasUnits(t)' /\ Wanted(t[2]).inventory_id = r
  BY Zenon
<1> HIDE DEF S, R, f, T
<1>5. /\ {Units(R, f), Units(S, f)} \subseteq Nat
      /\ Units(R, f) <= Units(S, f) + f[t]
      /\ (t \in R => t \in S) => Units(R, f) <= Units(S, f)
      /\ t \in S /\ t \notin R => Units(R, f) + f[t] <= Units(S, f)
  BY <1>2, <1>3, <1>4, HandsMove DEF T
<1> QED
  BY <1>1, <1>3, <1>4, <1>5 DEF Share

LEMMA BillingMoves ==
  ASSUME OneLineShop, NEW u \in User, NEW r \in Row,
         \A v \in User \ {u} : ModalHasUnits(v)' => ModalHasUnits(v)
  PROVE  /\ {Billing(r), Billing(r)'} \subseteq Nat
         /\ Billing(r)' <= Billing(r) + Share(u, r)
         /\ (ModalHasUnits(u)' => ModalHasUnits(u)) => Billing(r)' <= Billing(r)
         /\ ModalHasUnits(u) /\ ~ModalHasUnits(u)' => Billing(r)' + Share(u, r) <= Billing(r)
<1> DEFINE f == [v \in User |-> Wanted(v).quantity]
           S == {v \in User : ModalHasUnits(v) /\ Wanted(v).inventory_id = r}
           R == {v \in User : ModalHasUnits(v)' /\ Wanted(v).inventory_id = r}
<1>1. Billing(r) = Units(S, f) /\ Billing(r)' = Units(R, f)
  BY DEF Billing, Wanted
<1>2. IsFiniteSet(User)
  BY DEF OneLineShop
<1>3. f[u] = Wanted(u).quantity /\ f[u] \in Quantity
  BY OneLine
<1>4. /\ S \in SUBSET User /\ R \in SUBSET User /\ R \ {u} \subseteq S
      /\ u \in S <=> ModalHasUnits(u) /\ Wanted(u).inventory_id = r
      /\ u \in R <=> ModalHasUnits(u)' /\ Wanted(u).inventory_id = r
  BY Zenon
<1> HIDE DEF S, R, f
<1>5. /\ {Units(R, f), Units(S, f)} \subseteq Nat
      /\ Units(R, f) <= Units(S, f) + f[u]
      /\ (u \in R => u \in S) => Units(R, f) <= Units(S, f)
      /\ u \in S /\ u \notin R => Units(R, f) + f[u] <= Units(S, f)
  BY <1>2, <1>3, <1>4, HandsMove
<1> QED
  BY <1>1, <1>3, <1>4, <1>5 DEF Share

\* Nobody comes to have units who had none.
LEMMA HandsShrink ==
  ASSUME OneLineShop, NEW r \in Row,
         \A s \in Calls("checkout") : HasUnits(s)' => HasUnits(s),
         \A v \in User : ModalHasUnits(v)' => ModalHasUnits(v)
  PROVE  /\ {Reserving(r), Reserving(r)', Billing(r), Billing(r)'} \subseteq Nat
         /\ Reserving(r)' <= Reserving(r) /\ Billing(r)' <= Billing(r)
<1>1. {Billing(r), Billing(r)'} \subseteq Nat /\ Billing(r)' <= Billing(r)
  <2>1. PICK u \in User : TRUE
    BY BoundsAssumption
  <2> QED
    BY <2>1, BillingMoves
<1>2. {Reserving(r), Reserving(r)'} \subseteq Nat /\ Reserving(r)' <= Reserving(r)
  <2>1. CASE Calls("checkout") = {}
    <3>1. Reserving(r)' = Reserving(r)
      BY <2>1, Zenon DEF Reserving, Calls, Wanted
    <3>2. IsFiniteSet({t \in Calls("checkout") : HasUnits(t) /\ Wanted(t[2]).inventory_id = r})
      BY <2>1, FS_EmptySet
    <3>3. Reserving(r) \in Nat
      BY <3>2, UnitsFinite, Zenon DEF Reserving
    <3> QED
      BY <3>1, <3>3
  <2>2. CASE Calls("checkout") # {}
    <3>1. PICK t \in Calls("checkout") : TRUE
      BY <2>2
    <3> QED
      BY <3>1, ReservingMoves
  <2> QED
    BY <2>1, <2>2
<1> QED
  BY <1>1, <1>2

LEMMA HandsNat ==
  ASSUME OneLineShop, NEW r \in Row
  PROVE  Billing(r) \in Nat /\ Reserving(r) \in Nat
<1>1. IsFiniteSet({u \in User : ModalHasUnits(u) /\ Wanted(u).inventory_id = r})
  <2>1. {u \in User : ModalHasUnits(u) /\ Wanted(u).inventory_id = r} \in SUBSET User
    OBVIOUS
  <2> QED
    BY <2>1, FS_Subset, Zenon DEF OneLineShop
<1>2. IsFiniteSet({t \in Calls("checkout") : HasUnits(t) /\ Wanted(t[2]).inventory_id = r})
  <2>1. {t \in Calls("checkout") : HasUnits(t) /\ Wanted(t[2]).inventory_id = r}
          \in SUBSET Worker
    BY DEF Calls
  <2> QED
    BY <2>1, FS_Subset, Zenon DEF OneLineShop
<1> QED
  BY <1>1, <1>2, UnitsFinite, Zenon DEF Billing, Reserving

LEMMA HandsNatNext ==
  ASSUME OneLineShop, NEW r \in Row
  PROVE  Billing(r)' \in Nat /\ Reserving(r)' \in Nat
<1>1. IsFiniteSet({u \in User : ModalHasUnits(u)' /\ Wanted(u).inventory_id = r})
  <2>1. {u \in User : ModalHasUnits(u)' /\ Wanted(u).inventory_id = r} \in SUBSET User
    OBVIOUS
  <2> QED
    BY <2>1, FS_Subset, Zenon DEF OneLineShop
<1>2. IsFiniteSet({t \in Calls("checkout") : HasUnits(t)' /\ Wanted(t[2]).inventory_id = r})
  <2>1. {t \in Calls("checkout") : HasUnits(t)' /\ Wanted(t[2]).inventory_id = r}
          \in SUBSET Worker
    BY DEF Calls
  <2> QED
    BY <2>1, FS_Subset, Zenon DEF OneLineShop
<1> QED
  BY <1>1, <1>2, UnitsFinite, Zenon DEF Billing, Reserving, Wanted, Calls

LEMMA FitTypesOf ==
  ASSUME StockInv, NEW r \in Row
  PROVE  stock[r] \in Int /\ Sold(r) \in Nat /\ Supply(r) \in Nat
<1>1. IsFiniteSet({o \in orders : purchase[o].inventory_id = r})
  <2>1. {o \in orders : purchase[o].inventory_id = r} \in SUBSET orders
    OBVIOUS
  <2> QED
    BY <2>1, PurchasesFinite, FS_Subset, Zenon
<1>2. Sold(r) \in Nat
  BY <1>1, UnitsFinite, Zenon DEF Sold
<1>3. Supply(r) \in Nat
  <2>1. ASSUME NEW k \in 1..Len(Opening) PROVE Opening[k].quantity \in 0..MaxStock
    <3> DEFINE R == [kit: Kit, loc: Location, quantity: 0..MaxStock]
    <3>1. Opening \in Seq(R)
      BY OpeningAssumption, Zenon
    <3> HIDE DEF R
    <3>2. Opening[k] \in R
      BY <2>1, <3>1
    <3> QED
      BY <3>2 DEF R
  <2>2. Len(Opening) \in Nat /\ 0..MaxStock \subseteq Nat
    BY OpeningAssumption, BoundsAssumption
  <2>3. r <= Len(Opening) => r \in 1..Len(Opening)
    BY <2>2, BoundsAssumption DEF Row
  <2> QED
    BY <2>1, <2>2, <2>3 DEF Supply
<1> QED
  BY <1>2, <1>3 DEF StockInv, TypeOK

SameTables == UNCHANGED <<rows, place, stock, orders, purchase>>

LEMMA UnitsStay ==
  ASSUME OneLineShop, StockInv, UnitsFit, SameTables,
         \A s \in Calls("checkout") : HasUnits(s)' => HasUnits(s),
         \A v \in User : ModalHasUnits(v)' => ModalHasUnits(v)
  PROVE  UnitsFit'
<1> SUFFICES ASSUME NEW r \in Row
             PROVE  stock'[r] + Sold(r)' + Billing(r)' + Reserving(r)' <= Supply(r)
  BY Zenon DEF UnitsFit, Supply, Row
<1>1. stock[r] + Sold(r) + Billing(r) + Reserving(r) <= Supply(r)
  BY DEF UnitsFit
<1>2. stock' = stock /\ Sold(r)' = Sold(r)
  BY Zenon DEF SameTables, Sold, Order
<1> QED
  BY <1>1, <1>2, HandsShrink, FitTypesOf

-----------------------------------------------------------------------------
(* The calls in flight.                                                    *)

\* A call is left as it was by the step of another: the stock it read is the
\* stock there is, and nobody else is served for its modal.
LEMMA OthersFresh ==
  ASSUME OneLineShop, StockInv, PromiseInv, NEW w \in Worker, OnlyMoves(w),
         pc[w] # "idle" \/ (w[1] # "checkout" => CanClick(w[2])),
         NEW t \in Worker \ {w}, task'[t] = task[t],
         t[1] = "checkout" => SameCall(t),
         stock' = stock \/ pc[t] \notin Label,
         t[1] # "checkout" /\ pc[t] # "idle" => showBillingModal'[t[2]]
  PROVE  CallIsFresh(t)'
<1>1. CallIsFresh(t) /\ pc'[t] = pc[t]
  BY DEF PromiseInv, OnlyMoves
<1>2. CASE t[1] = "checkout"
  <2>1. CheckoutIsFresh(t)
    BY <1>1, <1>2 DEF CallIsFresh
  <2>2. pc[t] = "decrement" => stock' = stock
    BY DEF Label
  <2> QED
    BY <1>1, <1>2, <2>1, <2>2, Zenon DEF CallIsFresh, CheckoutIsFresh, SameCall, Wanted, Answer
<1>3. CASE t[1] # "checkout"
  <2>1. ModalIsFresh(t)
    BY <1>1, <1>3 DEF CallIsFresh
  <2>2. pc[t] = "restore" => stock' = stock
    BY DEF Label
  <2>3. ASSUME pc[t] # "idle", NEW s \in ModalCalls(t[2]) \ {t} PROVE pc'[s] = "idle"
    <3>1. pc[s] = "idle" /\ s \in Worker /\ s[2] = t[2] /\ s[1] # "checkout"
      BY <2>1, <2>3, Zenon DEF ModalIsFresh, ModalCalls, CallsOf, Calls
    <3>2. s # w
      BY <1>3, <2>3, <3>1 DEF CanClick, OneLineShop, CallsOf
    <3> QED
      BY <3>1, <3>2 DEF OnlyMoves
  <2>4. pc[t] # "idle" => \A s \in (ModalCalls(t[2]) \ {t})' : pc'[s] = "idle"
    BY <2>3, Zenon DEF ModalCalls, CallsOf, Calls
  <2> QED
    BY <1>1, <1>3, <2>1, <2>2, <2>4, Zenon DEF CallIsFresh, ModalIsFresh, Wanted, Answer
<1> QED
  BY <1>2, <1>3

\* The facts about the whole shop, from those about the call that moved.
LEMMA PromiseAgain ==
  ASSUME OneLineShop, StockInv, PromiseInv, NEW w \in Worker, OnlyMoves(w),
         UNCHANGED <<rows, place>>, NoRollbackData', UnitsFit',
         pc'[w] \in Label => pc[w] \in Label \/ CanSend(w),
         \A t \in Worker : CallIsFresh(t)'
  PROVE  PromiseInv'
<1>1. OneHandlerRuns'
  <2>1. ASSUME NEW s \in Worker, NEW t \in Worker, {pc'[s], pc'[t]} \subseteq Label
        PROVE  s = t
    <3>1. OneHandlerRuns
      BY DEF PromiseInv
    <3>2. CASE pc[w] \in Label \/ pc'[w] \notin Label
      BY <2>1, <3>1, <3>2 DEF OneHandlerRuns, OnlyMoves
    <3>3. CASE CanSend(w)
      BY <2>1, <3>3 DEF CanSend, OneLineShop, OnlyMoves
    <3> QED
      BY <3>2, <3>3
  <2> QED
    BY <2>1, Zenon DEF OneHandlerRuns, Label
<1>2. RowsAsOpened'
  BY Zenon DEF PromiseInv, RowsAsOpened
<1> QED
  BY <1>1, <1>2, Zenon DEF PromiseInv

\* The step of a handler, or of the page of one user, is nobody else's.
OthersTasks(w) == \A s \in Worker \ {w} : task'[s] = task[s]

LEMMA OthersHands ==
  ASSUME NEW w \in Worker, OnlyMoves(w), NEW s \in Calls("checkout"), s # w, SameCall(s)
  PROVE  HasUnits(s)' => HasUnits(s)
<1>1. pc'[s] = pc[s]
  BY DEF OnlyMoves, Calls
<1> QED
  BY <1>1, Zenon DEF HasUnits, SameCall

\* A modal that has units had them, unless an answer was delivered to it.
LEMMA OthersModals ==
  ASSUME NEW w \in Worker, OnlyMoves(w), NEW v \in User,
         showBillingModal'[v] => showBillingModal[v],
         w \in ModalCalls(v) => pc[w] # "ok"
  PROVE  ModalHasUnits(v)' => ModalHasUnits(v)
<1> SUFFICES ASSUME ModalHasUnits(v)', NEW t \in ModalCalls(v)
             PROVE  showBillingModal[v] /\ pc[t] # "ok"
  BY Zenon DEF ModalHasUnits
<1>1. t \in Worker
  BY DEF ModalCalls, CallsOf
<1>2. showBillingModal'[v] /\ pc'[t] # "ok"
  BY Zenon DEF ModalHasUnits, ModalCalls, CallsOf, Calls
<1> QED
  BY <1>1, <1>2 DEF OnlyMoves

LEMMA SamePage ==
  ASSUME UNCHANGED page
  PROVE  /\ UNCHANGED <<cart, warehouseItems, showBillingModal>>
         /\ UNCHANGED <<running, todo, warehouse, pickups>>
         /\ \A t \in Calls("checkout") : SameCall(t)
  BY DEF page, SameCall

\* What is left to show of a step that writes no table.
LEMMA QuietPromise ==
  ASSUME OneLineShop, StockInv, PromiseInv, NoRollbackData', NEW w \in Worker,
         OnlyMoves(w), OthersTasks(w), UNCHANGED page, SameTables,
         pc[w] # "idle" \/ (w[1] # "checkout" => CanClick(w[2])),
         pc[w] \notin Answer,
         pc'[w] \in Label => pc[w] \in Label \/ CanSend(w),
         w[1] = "checkout" => (HasUnits(w)' => HasUnits(w)),
         CallIsFresh(w)'
  PROVE  PromiseInv'
<1>1. /\ UNCHANGED <<cart, warehouseItems, showBillingModal>> /\ stock' = stock
      /\ \A t \in Calls("checkout") : SameCall(t)
  BY SamePage DEF SameTables
<1>2. ASSUME NEW t \in Worker \ {w} PROVE CallIsFresh(t)'
  <2>1. t[1] = "checkout" => SameCall(t)
    BY <1>1, <1>2, CallTypes
  <2>2. t[1] # "checkout" /\ pc[t] # "idle" => showBillingModal'[t[2]]
    BY <1>1, <1>2 DEF PromiseInv, CallIsFresh, ModalIsFresh
  <2> QED
    BY <1>1, <1>2, <2>1, <2>2, OthersFresh, Zenon DEF OthersTasks
<1>3. UnitsFit'
  <2>1. ASSUME NEW s \in Calls("checkout") PROVE HasUnits(s)' => HasUnits(s)
    <3>1. CASE s = w
      BY <2>1, <3>1 DEF Calls
    <3>2. CASE s # w
      BY <1>1, <2>1, <3>2, OthersHands
    <3> QED
      BY <3>1, <3>2
  <2>2. ASSUME NEW v \in User PROVE ModalHasUnits(v)' => ModalHasUnits(v)
    BY <1>1, <2>2, OthersModals DEF Answer
  <2>3. UnitsFit
    BY DEF PromiseInv
  <2> QED
    BY <2>1, <2>2, <2>3, UnitsStay
<1>4. \A t \in Worker : CallIsFresh(t)'
  BY <1>2
<1>5. UNCHANGED <<rows, place>>
  BY DEF SameTables
<1> QED
  BY <1>3, <1>4, <1>5, PromiseAgain, Zenon

\* A handler that answers leaves its call fresh.
LEMMA AnswerFresh ==
  ASSUME OneLineShop, StockInv, PromiseInv, NEW w \in Worker, OnlyMoves(w),
         UNCHANGED page, pc[w] \in Label, pc'[w] \in Answer
  PROVE  CallIsFresh(w)'
<1>1. CallIsFresh(w) /\ pc[w] # "idle"
  BY DEF PromiseInv, Label
<1>2. UNCHANGED <<todo, warehouse, pickups, showBillingModal>>
  BY SamePage
<1>3. pc'[w] \notin {"idle", "decrement", "pay", "claim", "insert", "restore"}
  BY DEF Answer
<1>4. CASE w[1] = "checkout"
  <2>1. CheckoutIsFresh(w)
    BY <1>1, <1>4 DEF CallIsFresh
  <2> QED
    BY <1>2, <1>3, <1>4, <2>1, Zenon DEF CallIsFresh, CheckoutIsFresh, Wanted, Answer
<1>5. CASE w[1] # "checkout"
  <2>1. showBillingModal[w[2]] /\ \A s \in ModalCalls(w[2]) \ {w} : pc[s] = "idle"
    BY <1>1, <1>5 DEF CallIsFresh, ModalIsFresh
  <2>2. \A s \in (ModalCalls(w[2]) \ {w})' : pc'[s] = "idle"
    BY <2>1, Zenon DEF ModalCalls, CallsOf, Calls, OnlyMoves
  <2> QED
    BY <1>2, <1>3, <1>5, <2>1, <2>2, Zenon DEF CallIsFresh, ModalIsFresh, Answer
<1> QED
  BY <1>4, <1>5

LEMMA MovesTo ==
  ASSUME StockInv, NEW w \in Worker, NEW a, pc' = [pc EXCEPT ![w] = a]
  PROVE  pc'[w] = a /\ OnlyMoves(w)
  BY DEF StockInv, TypeOK, OnlyMoves

\* Handlers that answer and write no table.
LEMMA EndsPromise ==
  ASSUME OneLineShop, StockInv, PromiseInv, NoRollbackData', NEW w \in Worker,
         UNCHANGED page, SameTables, pc[w] \in Label, NEW a \in Answer, Finish(w, a),
         a = "ok" => pc[w] = "pend"
  PROVE  PromiseInv'
<1>1. pc'[w] = a /\ OnlyMoves(w) /\ OthersTasks(w)
  <2>1. OthersTasks(w)
    BY DEF Finish, StockInv, TypeOK, OthersTasks
  <2> QED
    BY <2>1, MovesTo, Zenon DEF Finish
<1>2. CallIsFresh(w)'
  BY <1>1, AnswerFresh
<1>3. pc[w] # "idle" /\ pc[w] \notin Answer
  BY DEF Label, Answer
<1>4. w[1] = "checkout" => (HasUnits(w)' => HasUnits(w))
  <2>1. UNCHANGED <<running, warehouse, pickups>>
    BY SamePage
  <2>2. pc'[w] # "pend" /\ (pc'[w] = "ok" => pc[w] = "pend")
    BY <1>1 DEF Answer
  <2> QED
    BY <2>1, <2>2, Zenon DEF HasUnits
<1> QED
  BY <1>1, <1>2, <1>3, <1>4, QuietPromise, Zenon

LEMMA HandlerAnswers ==
  ASSUME OneLineShop, StockInv, PromiseInv, NoRollbackData', NEW w \in Worker,
         UNCHANGED page,
         \/ SetPending(w) \/ SetPendingFails(w) \/ RestoreFails(w)
         \/ PaymentFails(w) \/ ClaimFails(w) \/ Crash(w)
  PROVE  PromiseInv' /\ SameTables
<1>1. SameTables
  BY DEF SameTables, SetPending, SetPendingFails, RestoreFails, PaymentFails, ClaimFails, Crash,
     inventoryTable, purchasesTable
<1>2. pc[w] \in Label
  BY DEF SetPending, SetPendingFails, RestoreFails, PaymentFails, ClaimFails, Crash, Label
<1>3. \E a \in Answer : Finish(w, a) /\ (a = "ok" => pc[w] = "pend")
  <2>1. CASE SetPending(w)
    BY <2>1, Zenon DEF SetPending, Answer
  <2>2. CASE ~SetPending(w)
    <3>1. Finish(w, "failed") \/ Finish(w, "lost")
      BY <2>2, Zenon DEF SetPendingFails, RestoreFails, PaymentFails, ClaimFails, Crash
    <3> QED
      BY <3>1 DEF Answer
  <2> QED
    BY <2>1, <2>2
<1> QED
  BY <1>1, <1>2, <1>3, EndsPromise, Zenon

\* create_purchase between two of its steps.
LEMMA PurchaseGoesOn ==
  ASSUME OneLineShop, StockInv, PromiseInv, NoRollbackData', NEW w \in Worker,
         UNCHANGED page, PaymentSucceeds(w) \/ ClaimItem(w)
  PROVE  PromiseInv' /\ SameTables
<1>1. SameTables
  BY DEF SameTables, PaymentSucceeds, ClaimItem, inventoryTable, purchasesTable
<1>2. pc[w] \in {"pay", "claim"} /\ pc[w] \in Label /\ pc[w] \notin Answer
  BY DEF PaymentSucceeds, ClaimItem, Label, Answer
<1>3. pc'[w] \in {"claim", "insert"} /\ OnlyMoves(w)
  BY <1>2 DEF PaymentSucceeds, ClaimItem, OnlyMoves, StockInv, TypeOK
<1>4. OthersTasks(w) /\ task'[w].items = task[w].items
  <2>1. task \in [Worker -> Task]
    BY DEF StockInv, TypeOK
  <2> QED
    BY <2>1 DEF PaymentSucceeds, ClaimItem, OthersTasks, Task
<1>5. w[1] = "submit" /\ ModalIsFresh(w)
  BY <1>2, CallTypes DEF PromiseInv, CallIsFresh, CheckoutIsFresh, ModalIsFresh, Answer
<1>6. CallIsFresh(w)'
  <2>1. /\ showBillingModal[w[2]] /\ task[w].items = CartOf[w[2]]
        /\ \A s \in ModalCalls(w[2]) \ {w} : pc[s] = "idle"
    BY <1>2, <1>5 DEF ModalIsFresh
  <2>2. \A s \in (ModalCalls(w[2]) \ {w})' : pc'[s] = "idle"
    BY <1>3, <2>1, Zenon DEF ModalCalls, CallsOf, Calls, OnlyMoves
  <2>3. showBillingModal' = showBillingModal
    BY SamePage
  <2>4. pc'[w] # "restore" /\ pc'[w] \in {"idle", "pay", "claim", "insert"} \cup Answer
    BY <1>3
  <2> QED
    BY <1>4, <1>5, <2>1, <2>2, <2>3, <2>4, Zenon DEF CallIsFresh, ModalIsFresh, Answer
<1> QED
  BY <1>1, <1>2, <1>3, <1>4, <1>5, <1>6, QuietPromise, Zenon

\* What the page of w starts, with the stock there is.
LEMMA SendFresh ==
  ASSUME OneLineShop, StockInv, PageTypeOK, PromiseInv, NEW w \in Calls("checkout"),
         SendDecrement(w)
  PROVE  CallIsFresh(w)'
<1> DEFINE line == Wanted(w[2])
           r == line.inventory_id
           at == place[r]
<1>1. w \in Worker /\ w[1] = "checkout" /\ w[2] \in User /\ CheckoutIsFresh(w)
  BY CallTypes DEF Calls, PromiseInv, CallIsFresh
<1>2. /\ todo[w] = CartOf[w[2]] /\ warehouse[w] = <<>> /\ pickups[w] = <<>>
      /\ Head(todo[w]) = line /\ r \in 1..Len(Opening)
  BY <1>1, OneLine DEF CheckoutIsFresh, SendDecrement
<1>3. DecrementRows(at.kit, at.loc) = {r}
  <2>1. rows = 1..Len(Opening) /\ r \in rows
    BY <1>2 DEF PromiseInv, RowsAsOpened
  <2>2. \A s \in rows : place[s] = [kit |-> Opening[s].kit, loc |-> Opening[s].loc]
    BY DEF PromiseInv, RowsAsOpened
  <2>3. ASSUME NEW s \in rows
        PROVE  place[s].kit = Opening[s].kit /\ place[s].loc = Opening[s].loc
    <3>1. place[s] = [kit |-> Opening[s].kit, loc |-> Opening[s].loc]
      BY <2>2, <2>3, Zenon
    <3> QED
      BY <3>1
  <2>4. ASSUME NEW s \in rows, Opening[s].loc = Opening[r].loc,
               Opening[s].loc = "warehouse" \/ Opening[s].kit = Opening[r].kit
        PROVE  s = r
    BY <2>1, <2>4, Zenon DEF OneLineShop
  <2> HIDE DEF r
  <2> QED
    BY <2>1, <2>3, <2>4 DEF DecrementRows, RowsAt
<1>4. /\ \/ DecrementReads(w, w[2], r, line.quantity)
         \/ Refuse(w)
      /\ UNCHANGED <<todo, warehouse, pickups>>
  BY <1>2, <1>3, SamePage, Zenon DEF SendDecrement, decrement_quantity, DecrementRefused
<1>5. CASE DecrementReads(w, w[2], r, line.quantity)
  <2>1. task \in [Worker -> Task]
    BY DEF StockInv, TypeOK
  <2>2. /\ stock[r] > 0 /\ stock' = stock /\ pc'[w] = "decrement"
        /\ task'[w].upd = {<<r, stock[r] - line.quantity>>}
    <3>1. /\ stock[r] > 0 /\ stock' = stock
          /\ task'[w].upd = {<<r, stock[r] - line.quantity>>}
      BY <1>1, <1>5, <2>1 DEF DecrementReads, Start, Available, Deducted, NoTask, inventoryTable
    <3>2. pc'[w] = "decrement"
      BY <1>1, <1>5, MovesTo, Zenon DEF DecrementReads, Start
    <3> QED
      BY <3>1, <3>2
  <2> QED
    BY <1>1, <1>2, <1>4, <2>2, Zenon DEF CallIsFresh, CheckoutIsFresh, Wanted
<1>6. CASE Refuse(w)
  <2>1. pc'[w] = "failed"
    BY <1>1, <1>6, MovesTo, Zenon DEF Refuse
  <2>2. pc'[w] # "decrement" /\ pc'[w] \in Answer
    BY <2>1 DEF Answer
  <2> QED
    BY <1>1, <1>2, <1>4, <2>2, Zenon DEF CallIsFresh, CheckoutIsFresh, Wanted, Answer
<1> QED
  BY <1>4, <1>5, <1>6

\* A step of Start or of Refuse.
LEMMA Requests ==
  ASSUME StockInv, NEW w \in Worker,
         Refuse(w) \/ \E l, t : Start(w, l, t) /\ UNCHANGED <<inventoryTable, purchasesTable>>
  PROVE  OnlyMoves(w) /\ OthersTasks(w) /\ SameTables
<1>1. OnlyMoves(w)
  BY MovesTo, Zenon DEF Refuse, Start
<1>2. OthersTasks(w)
  BY DEF Refuse, Start, OthersTasks, StockInv, TypeOK
<1>3. SameTables
  BY DEF Refuse, SameTables, inventoryTable, purchasesTable
<1> QED
  BY <1>1, <1>2, <1>3

LEMMA SendPromise ==
  ASSUME OneLineShop, StockInv, PageTypeOK, PromiseInv, NoRollbackData',
         NEW w \in Calls("checkout"), SendDecrement(w)
  PROVE  PromiseInv' /\ SameTables
<1>1. w \in Worker /\ w[1] = "checkout" /\ CheckoutIsFresh(w)
  BY CallTypes DEF Calls, PromiseInv, CallIsFresh
<1>2. OnlyMoves(w) /\ OthersTasks(w) /\ SameTables
  BY <1>1, Requests, Zenon DEF SendDecrement, decrement_quantity, DecrementReads, DecrementRefused
<1>3. pc[w] = "idle" /\ CanSend(w) /\ pc[w] \notin Answer
  BY DEF SendDecrement, CanSend, Answer
<1>4. HasUnits(w)' => HasUnits(w)
  <2>1. /\ UNCHANGED <<running, warehouse, pickups>>
        /\ warehouse[w] = <<>> /\ pickups[w] = <<>>
    BY <1>1, SamePage DEF SendDecrement, CheckoutIsFresh
  <2>2. pc'[w] \in {"decrement", "failed"}
    BY <1>1, MovesTo, Zenon DEF SendDecrement, decrement_quantity, DecrementReads, DecrementRefused, Start, Refuse
  <2>3. pc'[w] \notin {"pend", "ok"}
    BY <2>2
  <2> QED
    BY <2>1, <2>3, Zenon DEF HasUnits
<1>5. CallIsFresh(w)' /\ UNCHANGED page
  BY SendFresh DEF SendDecrement
<1> QED
  BY <1>1, <1>2, <1>3, <1>4, <1>5, QuietPromise, Zenon

\* The modal's clicks: the purchase of the cart, and the restore of the line
\* that was reserved.
LEMMA ClickFresh ==
  ASSUME OneLineShop, NEW w \in Worker, w[1] # "checkout", StockInv, OnlyMoves(w),
         CanClick(w[2]), UNCHANGED page,
         \/ pc'[w] = "failed"
         \/ w[1] = "submit" /\ pc'[w] \in {"pay", "claim"} /\ task'[w].items = CartOf[w[2]]
         \/ /\ w[1] = "close" /\ pc'[w] = "restore" /\ task'[w].move = {} /\ stock' = stock
            /\ task'[w].upd \subseteq {<<Wanted(w[2]).inventory_id,
                                        stock[Wanted(w[2]).inventory_id] + Wanted(w[2]).quantity>>}
  PROVE  CallIsFresh(w)'
<1>1. showBillingModal'[w[2]]
  BY SamePage DEF CanClick
<1>2. \A s \in ModalCalls(w[2]) \ {w} : pc[s] = "idle" /\ s \in Worker
  BY Zenon DEF CanClick, OneLineShop, ModalCalls, CallsOf, Calls
<1>3. \A s \in (ModalCalls(w[2]) \ {w})' : pc'[s] = "idle"
  BY <1>2, Zenon DEF ModalCalls, CallsOf, Calls, OnlyMoves
<1>4. CASE pc'[w] = "failed"
  <2>1. pc'[w] \in Answer /\ pc'[w] \notin {"pay", "claim", "insert", "restore"}
    BY <1>4 DEF Answer
  <2> QED
    BY <1>1, <1>3, <2>1, Zenon DEF CallIsFresh, ModalIsFresh, Answer
<1>5. CASE w[1] = "submit" /\ pc'[w] \in {"pay", "claim"} /\ task'[w].items = CartOf[w[2]]
  <2>1. w[1] # "close" /\ pc'[w] # "restore" /\ pc'[w] \in {"idle", "pay", "claim", "insert"} \cup Answer
    BY <1>5
  <2> QED
    BY <1>1, <1>3, <1>5, <2>1, Zenon DEF CallIsFresh, ModalIsFresh, Answer
<1>6. CASE /\ w[1] = "close" /\ pc'[w] = "restore" /\ task'[w].move = {} /\ stock' = stock
           /\ task'[w].upd \subseteq {<<Wanted(w[2]).inventory_id,
                                       stock[Wanted(w[2]).inventory_id] + Wanted(w[2]).quantity>>}
  <2>1. /\ w[1] # "submit" /\ pc'[w] \notin {"pay", "claim", "insert"}
        /\ pc'[w] \in {"idle", "restore"} \cup Answer
    BY <1>6
  <2> QED
    BY <1>1, <1>3, <1>6, <2>1, Zenon DEF CallIsFresh, ModalIsFresh, Answer, Wanted
<1> QED
  BY <1>4, <1>5, <1>6

\* What restore_reserved_inventory will write for at most one line.
LEMMA RestoresOne ==
  ASSUME OneLineShop, StockInv, NEW u \in User, NEW items \in {<<>>, CartOf[u]}
  PROVE  {<<r, stock[r] + RestoredQuantity(items, r)>> : r \in RestoredRows(items)}
           \subseteq {<<Wanted(u).inventory_id, stock[Wanted(u).inventory_id] + Wanted(u).quantity>>}
<1>1. CASE items = <<>>
  BY <1>1 DEF RestoredRows
<1>2. CASE items = CartOf[u]
  <2>1. Len(items) = 1 /\ items[1] = Wanted(u)
    BY <1>2 DEF OneLineShop, Wanted
  <2>2. RestoredRows(items) \subseteq {Wanted(u).inventory_id}
    BY <2>1 DEF RestoredRows
  <2>3. RestoredQuantity(items, Wanted(u).inventory_id) = Wanted(u).quantity
    <3>1. (CHOOSE k \in 1..Len(items) : items[k].inventory_id = Wanted(u).inventory_id) = 1
      BY <2>1
    <3> QED
      BY <2>1, <3>1, Zenon DEF RestoredQuantity
  <2> QED
    BY <2>2, <2>3, Zenon
<1> QED
  BY <1>1, <1>2

LEMMA ClickPromise ==
  ASSUME OneLineShop, StockInv, PageTypeOK, PromiseInv, NoRollbackData', NEW w \in Worker,
         \/ w[1] = "submit" /\ Submit(w)
         \/ w[1] = "close" /\ Close(w)
  PROVE  PromiseInv' /\ SameTables
<1>1. /\ w[1] # "checkout" /\ CanClick(w[2]) /\ CanSend(w) /\ UNCHANGED page /\ w[2] \in User
      /\ pc[w] = "idle" /\ pc[w] \notin Answer
  BY CallTypes DEF Submit, Close, CanSend, Answer
<1>2. OnlyMoves(w) /\ OthersTasks(w) /\ SameTables
  BY Requests, Zenon
  DEF Submit, Close, create_purchase, PurchaseRefused, restore_reserved_inventory
<1>t. task \in [Worker -> Task]
  BY DEF StockInv, TypeOK
<1>3. CASE w[1] = "submit" /\ create_purchase(w, w[2], cart[w[2]])
  <2>1. pc'[w] \in {"pay", "claim"}
    <3>1. \E a \in {"pay", "claim"} : pc' = [pc EXCEPT ![w] = a]
      BY <1>3, Zenon DEF create_purchase, Start
    <3> QED
      BY <3>1, MovesTo, Zenon
  <2>2. task'[w].items = cart[w[2]] /\ cart[w[2]] # <<>>
    BY <1>t, <1>3 DEF create_purchase, Start, NoTask
  <2>3. task'[w].items = CartOf[w[2]]
    BY <1>1, <2>2, PageParts
  <2>4. CallIsFresh(w)'
    BY <1>1, <1>2, <1>3, <2>1, <2>3, ClickFresh, Zenon
  <2> QED
    BY <1>1, <1>2, <2>4, QuietPromise, Zenon
<1>4. CASE w[1] = "submit" /\ PurchaseRefused(w, cart[w[2]])
  <2>1. pc'[w] = "failed"
    BY <1>4, MovesTo, Zenon DEF PurchaseRefused, Refuse
  <2>2. CallIsFresh(w)'
    BY <1>1, <1>2, <2>1, ClickFresh, Zenon
  <2> QED
    BY <1>1, <1>2, <2>2, QuietPromise, Zenon
<1>5. CASE w[1] = "close" /\ Close(w)
  <2> DEFINE items == warehouseItems[w[2]]
             back == {<<r, stock[r] + RestoredQuantity(items, r)>> : r \in RestoredRows(items)}
  <2>1. pc'[w] = "restore"
    BY <1>5, MovesTo, Zenon DEF Close, restore_reserved_inventory, Start
  <2>2. task'[w].upd = back /\ task'[w].move = {} /\ stock' = stock
    BY <1>t, <1>2, <1>5 DEF Close, restore_reserved_inventory, Start, NoTask, SameTables
  <2>3. items \in {<<>>, CartOf[w[2]]}
    BY <1>1, PageParts, OneLine, Zenon
  <2> HIDE DEF back
  <2>4. back \subseteq {<<Wanted(w[2]).inventory_id,
                         stock[Wanted(w[2]).inventory_id] + Wanted(w[2]).quantity>>}
    BY <1>1, <2>3, RestoresOne, Zenon DEF back
  <2>5. CallIsFresh(w)'
    BY <1>1, <1>2, <1>5, <2>1, <2>2, <2>4, ClickFresh, Zenon
  <2> QED
    BY <1>1, <1>2, <2>5, QuietPromise, Zenon
<1> QED
  BY <1>3, <1>4, <1>5 DEF Submit
=============================================================================
