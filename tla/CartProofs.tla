----------------------------- MODULE CartProofs -----------------------------
(***************************************************************************)
(* Proofs about Cart, for any number of tabs, slots, calls and clicks: a   *)
(* calm customer's cart is what the clicks asked for, the types, and that  *)
(* with one worker a slot has one row.                                     *)
(***************************************************************************)
EXTENDS Cart, TLAPS

Steps == Requests \cup Commits \cup {"none", "ask", "answer"}

Typed == CartTypeOK /\ CallsOK

\* A step moves one call and leaves the others.
LEMMA OneMoves ==
  ASSUME CallsOK, NEW c \in Call, NEW n, Goes(c, n)
  PROVE  /\ call'[c] = n
         /\ \A d \in Call : d # c => call'[d] = call[d]
         /\ call' = [d \in Call |-> call'[d]]
  BY DEF CallsOK, Goes

\* What a call in flight carries is well typed.
LEMMA CallForms ==
  ASSUME NEW m, NEW b \in Tab, NEW s \in Slot
  PROVE  /\ CallOK([step |-> "insert", tab |-> b, slot |-> s], m)
         /\ \A x \in Item(m), q \in Nat :
              /\ CallOK([step |-> "update", tab |-> b, read |-> x, quantity |-> q,
                         next |-> "GET"], m)
              /\ CallOK([step |-> "update", read |-> x, quantity |-> q, next |-> "none"], m)
  BY DEF CallOK

\* A step that changes nothing leaves a call as far behind as it was.
LEMMA BehindStays ==
  ASSUME NEW c \in Call, Behind(c),
         UNCHANGED <<rows, open, cart, call, wanted, used, calm>>
  PROVE  Behind(c)'
<1>1. AsWanted' = AsWanted
  BY DEF AsWanted
<1> QED
  BY <1>1, SMTT(30) DEF Behind

\* What an insertion in flight has still to do.
LEMMA BehindInsert ==
  ASSUME NEW c, Behind(c), call[c].step \in {"POST", "insert"}
  PROVE  /\ used = {call[c].tab} /\ wanted[call[c].slot] = 1
         /\ \A r \in rows : r.slot # call[c].slot /\ r.quantity = wanted[r.slot]
         /\ \A s \in Slot : wanted[s] > 0 /\ s # call[c].slot => \E r \in rows : r.slot = s
  BY DEF Behind

\* What a removal in flight has still to do.
LEMMA BehindDelete ==
  ASSUME NEW c, Behind(c), call[c].step \in {"DELETE", "delete"}
  PROVE  /\ \A s \in Slot : wanted[s] > 0 => \E r \in rows : r.slot = s
         /\ \E r \in rows :
              /\ r.id = call[c].id /\ wanted[r.slot] = 0
              /\ \A x \in rows : x.slot # r.slot => x.quantity = wanted[x.slot]
              /\ \A b \in used : cart[b] = {x \in rows : x.id # r.id}
  BY DEF Behind

\* An UPDATE keeps ids and slots, and sets the quantity of one id.
LEMMA ChangedRow ==
  ASSUME NEW m, NEW r \in Item(m), NEW q \in Nat
  PROVE  /\ [r EXCEPT !.quantity = q] \in Item(m)
         /\ [r EXCEPT !.quantity = q].id = r.id
         /\ [r EXCEPT !.quantity = q].slot = r.slot
         /\ [r EXCEPT !.quantity = q].quantity = q
  BY DEF Item

LEMMA ChangedRows ==
  ASSUME NEW items, NEW m, items \subseteq Item(m), NEW id, NEW q \in Nat
  PROVE  /\ \A r \in items : \E x \in Changed(items, id, q) :
              /\ x.id = r.id /\ x.slot = r.slot
              /\ (r.id = id => x.quantity = q) /\ (r.id # id => x.quantity = r.quantity)
         /\ \A x \in Changed(items, id, q) : \E r \in items :
              /\ x.id = r.id /\ x.slot = r.slot
              /\ (r.id = id => x.quantity = q) /\ (r.id # id => x.quantity = r.quantity)
<1>1. ASSUME NEW r \in items
      PROVE  \E x \in Changed(items, id, q) :
               /\ x.id = r.id /\ x.slot = r.slot
               /\ (r.id = id => x.quantity = q) /\ (r.id # id => x.quantity = r.quantity)
  <2>1. (IF r.id = id THEN [r EXCEPT !.quantity = q] ELSE r) \in Changed(items, id, q)
    BY DEF Changed
  <2>2. CASE r.id = id
    <3>1. [r EXCEPT !.quantity = q] \in Changed(items, id, q)
      BY <2>1, <2>2
    <3>2. r \in Item(m)
      OBVIOUS
    <3> QED
      BY <2>2, <3>1, <3>2, ChangedRow, ZenonT(30)
  <2>3. CASE r.id # id
    BY <2>1, <2>3
  <2> QED
    BY <2>2, <2>3
<1>2. ASSUME NEW x \in Changed(items, id, q)
      PROVE  \E r \in items :
               /\ x.id = r.id /\ x.slot = r.slot
               /\ (r.id = id => x.quantity = q) /\ (r.id # id => x.quantity = r.quantity)
  <2>1. PICK r \in items : IF r.id = id THEN x = [r EXCEPT !.quantity = q] ELSE x = r
    BY DEF Changed
  <2>2. CASE r.id = id
    <3>1. r \in Item(m) /\ x = [r EXCEPT !.quantity = q]
      BY <2>1, <2>2
    <3>2. x.id = r.id /\ x.slot = r.slot /\ x.quantity = q
      BY <3>1, ChangedRow
    <3> QED
      BY <2>2, <3>2
  <2>3. CASE r.id # id
    BY <2>1, <2>3
  <2> QED
    BY <2>2, <2>3
<1> QED
  BY <1>1, <1>2

Unique(items) == \A r, s \in items : r.id = s.id => r = s

LEMMA ChangedKeeps ==
  ASSUME NEW items, NEW m, items \subseteq Item(m), NEW id, NEW q \in Nat, Unique(items)
  PROVE  Changed(items, id, q) \subseteq Item(m) /\ Unique(Changed(items, id, q))
<1>1. \A x \in Changed(items, id, q) : \E r \in items :
        IF r.id = id THEN x = [r EXCEPT !.quantity = q] ELSE x = r
  BY DEF Changed
<1>2. \A r \in items : /\ [r EXCEPT !.quantity = q] \in Item(m)
                       /\ [r EXCEPT !.quantity = q].id = r.id
  BY ChangedRow
<1>3. Changed(items, id, q) \subseteq Item(m)
  BY <1>1, <1>2
<1>4. ASSUME NEW x \in Changed(items, id, q), NEW y \in Changed(items, id, q), x.id = y.id
      PROVE  x = y
  <2>1. PICK r \in items : IF r.id = id THEN x = [r EXCEPT !.quantity = q] ELSE x = r
    BY <1>1
  <2>2. PICK s \in items : IF s.id = id THEN y = [s EXCEPT !.quantity = q] ELSE y = s
    BY <1>1
  <2>3. r.id = x.id /\ s.id = y.id
    BY <1>2, <2>1, <2>2, Zenon
  <2>4. r = s
    BY <1>4, <2>3 DEF Unique
  <2> QED
    BY <2>1, <2>2, <2>4
<1> QED
  BY <1>3, <1>4 DEF Unique

\* The commit of an UPDATE: the table with the quantity set, or untouched.
LEMMA UpdateChanges ==
  ASSUME Typed, NEW c \in Call, CommitUpdate(c)
  PROVE  \/ /\ call[c].quantity # call[c].read.quantity
            /\ rows' = Changed(rows, call[c].read.id, call[c].quantity)
         \/ /\ call[c].quantity = call[c].read.quantity
            /\ rows' = rows
<1>1. CASE call[c].quantity # call[c].read.quantity
  BY <1>1 DEF CommitUpdate, Changed
<1>2. CASE call[c].quantity = call[c].read.quantity
  BY <1>2 DEF CommitUpdate
<1> QED
  BY <1>1, <1>2

-----------------------------------------------------------------------------
(* A calm customer.                                                        *)

\* One row per slot.
Single == \A r, s \in rows : r.slot = s.slot => r = s

\* A step of a call that no click started, next to the click's call.
LEMMA AsideCalm ==
  ASSUME Typed, CalmInv, NEW c \in Call, NEW n, Goes(c, n), ~OfClick(c),
         n = NoCall \/ (n.step \in {"GET", "answer"} /\ n.tab \notin used),
         UNCHANGED <<rows, wanted, used, calm>>, open \subseteq open',
         \A b \in used : cart'[b] = cart[b]
  PROVE  CalmInv'
<1> SUFFICES ASSUME calm
             PROVE  CalmInv'
  BY DEF CalmInv
<1>1. call'[c] = n /\ \A d \in Call : d # c => call'[d] = call[d]
  BY OneMoves DEF Typed
<1>2. ~OfClick(c)'
  BY <1>1 DEF OfClick
<1>3. \A d \in Call : OfClick(d)' <=> OfClick(d)
  BY <1>1, <1>2 DEF OfClick
<1>4. AsWanted' <=> AsWanted
  BY DEF AsWanted
<1>5. ASSUME NEW d \in Call, OfClick(d)
      PROVE  Behind(d)'
  <2>1. call'[d] = call[d] /\ Behind(d)
    BY <1>1, <1>5 DEF CalmInv
  <2> QED
    BY <2>1, <1>4 DEF Behind
<1> QED
  BY <1>3, <1>4, <1>5 DEF CalmInv

\* A step of the click's call: the page and the table end up agreeing, or
\* the call knows the difference.
LEMMA OnwardCalm ==
  ASSUME Typed, CalmInv, NEW c \in Call, NEW n, Goes(c, n), calm, OfClick(c),
         UNCHANGED <<used, calm, open>>, Single',
         \/ n = NoCall /\ AsWanted' /\ \A b \in used : cart'[b] = rows'
         \/ /\ n # NoCall /\ (n.step \in {"GET", "answer"} => n.tab \in used)
            /\ Behind(c)'
  PROVE  CalmInv'
<1>1. call'[c] = n /\ \A d \in Call : d # c => call'[d] = call[d]
  BY OneMoves DEF Typed
<1>2. \A d \in Call : OfClick(d) => d = c
  BY DEF CalmInv
<1>3. \A d \in Call : OfClick(d)' => d = c
  BY <1>1, <1>2 DEF OfClick
<1>4. OfClick(c)' <=> n # NoCall /\ (n.step \in {"GET", "answer"} => n.tab \in used)
  BY <1>1 DEF OfClick
<1>5. used \subseteq open /\ \A b1, b2 \in used : b1 = b2
  BY DEF CalmInv
<1> QED
  BY <1>3, <1>4, <1>5 DEF CalmInv, Single

\* Before a click that leaves the customer calm, page and table agree.
LEMMA BeforeClick ==
  ASSUME Typed, CalmInv, NEW b \in Tab, Click(b), calm'
  PROVE  /\ calm /\ AsWanted /\ Single /\ cart[b] = rows /\ b \in open
         /\ \A d \in Call : call[d] = NoCall
         /\ UNCHANGED <<rows, open>> /\ used' = {b}
<1>1. /\ calm /\ Running = {} /\ cart[b] = rows /\ b \in open
      /\ UNCHANGED <<rows, open>> /\ used' = {b}
  BY Zenon DEF Click
<1>2. \A d \in Call : call[d] = NoCall
  BY <1>1 DEF Running
<1>3. \A d \in Call : ~OfClick(d)
  BY <1>2 DEF OfClick
<1> QED
  BY <1>1, <1>2, <1>3 DEF CalmInv, Single

\* A click starts a call that knows how far the table is behind.
LEMMA ClickCalm ==
  ASSUME Typed, CalmInv, NEW c \in Call, NEW b \in Tab, NEW n, Click(b), Start(c, n),
         n.step \notin {"none", "GET", "answer"}, calm' => Behind(c)'
  PROVE  CalmInv'
<1> SUFFICES ASSUME calm'
             PROVE  CalmInv'
  BY DEF CalmInv
<1>1. /\ Single /\ b \in open /\ UNCHANGED <<rows, open>> /\ used' = {b}
      /\ \A d \in Call : call[d] = NoCall
  BY BeforeClick
<1>2. call'[c] = n /\ \A d \in Call : d # c => call'[d] = NoCall
  BY <1>1 DEF Start, Typed, CallsOK
<1>3. n # NoCall
  BY DEF NoCall
<1>4. \A d \in Call : OfClick(d)' <=> d = c
  BY <1>2, <1>3 DEF OfClick
<1> QED
  BY <1>1, <1>4 DEF CalmInv, Single

\* addToCart, updateQuantity, removeFromCart and clearCart up to their
\* requests.
LEMMA ClicksCalm ==
  ASSUME Typed, CalmInv, NEW c \in Call, NEW b \in Tab,
         \/ \E s \in Slot : addToCart(b, c, s)
         \/ \E i \in cart[b], q \in 0 .. MaxQty : updateQuantity(b, c, i, q)
         \/ \E i \in cart[b] : removeFromCart(b, c, i)
         \/ clearCart(b, c)
  PROVE  CalmInv'
<1>t. /\ rows \subseteq Item(lastId) /\ cart \in [Tab -> SUBSET Item(lastId)]
      /\ \A r, s \in rows : r.id = s.id => r = s
      /\ wanted \in [Slot -> Nat]
  BY DEF Typed, CartTypeOK
<1>s. ASSUME NEW n, Start(c, n)
      PROVE  call'[c] = n
  BY <1>s DEF Start, Typed, CallsOK
<1>1. ASSUME NEW s \in Slot, addToCart(b, c, s)
      PROVE  CalmInv'
  <2> DEFINE n == [step |-> "ask", tab |-> b, slot |-> s, seen |-> cart[b]]
  <2>1. /\ Click(b) /\ Start(c, n) /\ UNCHANGED <<cart, wanted>>
        /\ n.step = "ask" /\ n.tab = b /\ n.seen = cart[b]
    BY <1>1 DEF addToCart
  <2> HIDE DEF n
  <2>2. ASSUME calm'
        PROVE  Behind(c)'
    <3>1. AsWanted /\ cart[b] = rows /\ UNCHANGED rows /\ used' = {b}
      BY <2>1, <2>2, BeforeClick
    <3>2. call'[c] = n
      BY <2>1, <1>s
    <3>3. AsWanted'
      BY <3>1, <2>1 DEF AsWanted
    <3> QED
      BY <2>1, <3>1, <3>2, <3>3 DEF Behind
  <2> QED
    BY <2>1, <2>2, ClickCalm
<1>2. ASSUME NEW i \in cart[b], NEW q \in 0 .. MaxQty, updateQuantity(b, c, i, q)
      PROVE  CalmInv'
  <2> DEFINE n == [step |-> "PUT", id |-> i.id, quantity |-> q]
  <2>1. /\ Click(b) /\ Start(c, n) /\ n.step = "PUT" /\ n.id = i.id /\ n.quantity = q
        /\ wanted' = [wanted EXCEPT ![i.slot] = q]
        /\ cart' = [cart EXCEPT ![b] = Changed(cart[b], i.id, q)]
    BY <1>2 DEF updateQuantity, Changed
  <2> HIDE DEF n
  <2>2. ASSUME calm'
        PROVE  Behind(c)'
    <3>1. /\ AsWanted /\ cart[b] = rows /\ UNCHANGED rows /\ used' = {b} /\ Single
      BY <2>1, <2>2, BeforeClick
    <3>2. call'[c] = n
      BY <2>1, <1>s
    <3>3. cart'[b] = Changed(rows, i.id, q) /\ i \in rows /\ i.slot \in Slot
      BY <1>t, <2>1, <3>1 DEF Item
    <3>4. /\ wanted'[i.slot] = q
          /\ \A s \in Slot : s # i.slot => wanted'[s] = wanted[s]
      BY <1>t, <2>1, <3>3
    <3>5. \A x \in rows : x.slot # i.slot => x.quantity = wanted'[x.slot]
      BY <1>t, <3>1, <3>4 DEF AsWanted, Item
    <3>6. \A s \in Slot : wanted'[s] > 0 => \E r \in rows : r.slot = s
      BY <3>1, <3>3, <3>4 DEF AsWanted
    <3> QED
      BY <2>1, <3>1, <3>2, <3>3, <3>4, <3>5, <3>6 DEF Behind
  <2> QED
    BY <2>1, <2>2, ClickCalm
<1>3. ASSUME NEW i \in cart[b], removeFromCart(b, c, i)
      PROVE  CalmInv'
  <2> DEFINE n == [step |-> "DELETE", id |-> i.id]
  <2>1. /\ Click(b) /\ Start(c, n) /\ n.step = "DELETE" /\ n.id = i.id
        /\ wanted' = [wanted EXCEPT ![i.slot] = 0]
        /\ cart' = [cart EXCEPT ![b] = {j \in @ : j.id # i.id}]
    BY <1>3 DEF removeFromCart
  <2> HIDE DEF n
  <2>2. ASSUME calm'
        PROVE  Behind(c)'
    <3>1. /\ AsWanted /\ cart[b] = rows /\ UNCHANGED rows /\ used' = {b} /\ Single
      BY <2>1, <2>2, BeforeClick
    <3>2. call'[c] = n
      BY <2>1, <1>s
    <3>3. cart'[b] = {x \in rows : x.id # i.id} /\ i \in rows /\ i.slot \in Slot
      BY <1>t, <2>1, <3>1 DEF Item
    <3>4. /\ wanted'[i.slot] = 0
          /\ \A s \in Slot : s # i.slot => wanted'[s] = wanted[s]
      BY <1>t, <2>1, <3>3
    <3>5. \A x \in rows : x.slot # i.slot => x.quantity = wanted'[x.slot]
      BY <1>t, <3>1, <3>4 DEF AsWanted, Item
    <3>6. \A s \in Slot : wanted'[s] > 0 => \E r \in rows : r.slot = s
      BY <3>1, <3>3, <3>4 DEF AsWanted
    <3> QED
      BY <2>1, <3>1, <3>2, <3>3, <3>4, <3>5, <3>6 DEF Behind
  <2> QED
    BY <2>1, <2>2, ClickCalm
<1>4. ASSUME clearCart(b, c)
      PROVE  CalmInv'
  <2> DEFINE n == [step |-> "CLEAR"]
  <2>1. /\ Click(b) /\ Start(c, n) /\ n.step = "CLEAR"
        /\ wanted' = [s \in Slot |-> 0] /\ cart' = [cart EXCEPT ![b] = {}]
    BY <1>4 DEF clearCart
  <2> HIDE DEF n
  <2>2. ASSUME calm'
        PROVE  Behind(c)'
    <3>1. used' = {b}
      BY <2>1, <2>2, BeforeClick
    <3>2. call'[c] = n /\ cart'[b] = {}
      BY <1>t, <2>1, <1>s
    <3> QED
      BY <2>1, <3>1, <3>2 DEF Behind
  <2> QED
    BY <2>1, <2>2, ClickCalm
<1> QED
  BY <1>1, <1>2, <1>3, <1>4

\* A call past its first step is the click's.
LEMMA OfClicks ==
  ASSUME Typed, NEW c \in Call, call[c].step \notin {"none", "GET", "answer"}
  PROVE  OfClick(c)
  BY DEF OfClick, NoCall

\* addToCart after the kit's stock: it sends a PUT for the row it saw, or a
\* POST when it saw none.
LEMMA ChosenCalm ==
  ASSUME Typed, CalmInv, NEW c \in Call, Chosen(c)
  PROVE  CalmInv'
<1> DEFINE s == call[c].slot
           existing == {i \in call[c].seen : i.slot = s}
<1>1. /\ call[c].step = "ask" /\ UNCHANGED <<rows, lastId, open, used, calm>>
      /\ wanted' = [wanted EXCEPT ![s] = @ + 1]
  BY DEF Chosen
<1> SUFFICES ASSUME calm
             PROVE  CalmInv'
  BY <1>1 DEF CalmInv
<1>t. /\ rows \subseteq Item(lastId) /\ cart \in [Tab -> SUBSET Item(lastId)]
      /\ \A r, x \in rows : r.id = x.id => r = x
      /\ wanted \in [Slot -> Nat] /\ s \in Slot /\ call[c].tab \in Tab
  BY <1>1 DEF Typed, CartTypeOK, CallsOK, CallOK
<1>2. OfClick(c) /\ Single /\ Single'
  BY <1>1, OfClicks DEF CalmInv, Single
<1>3. /\ AsWanted /\ used = {call[c].tab} /\ call[c].seen = rows
      /\ cart[call[c].tab] = rows
  BY <1>1, <1>2 DEF CalmInv, Behind
<1>4. /\ wanted'[s] = wanted[s] + 1
      /\ \A x \in Slot : x # s => wanted'[x] = wanted[x]
  BY <1>1, <1>t
<1>5. ASSUME NEW i \in existing, cart' = [cart EXCEPT ![call[c].tab] = With(call[c].seen, s, 1)],
             Goes(c, [step |-> "PUT", id |-> i.id, quantity |-> i.quantity + 1])
      PROVE  CalmInv'
  <2> DEFINE n == [step |-> "PUT", id |-> i.id, quantity |-> i.quantity + 1]
  <2>1. Goes(c, n) /\ n.step = "PUT" /\ n.id = i.id /\ n.quantity = i.quantity + 1
    BY <1>5
  <2> HIDE DEF n
  <2>2. call'[c] = n
    BY <2>1, OneMoves DEF Typed
  <2>3. i \in rows /\ i.slot = s /\ i.quantity = wanted[s]
    BY <1>3 DEF AsWanted
  <2>4. With(rows, s, 1) = Changed(rows, i.id, i.quantity + 1)
    <3>1. \A x \in rows : (x.slot = s <=> x.id = i.id) /\ (x.slot = s => x = i)
      BY <1>2, <1>t, <2>3 DEF Single
    <3> QED
      BY <3>1 DEF With, Changed
  <2>5. \A b \in used' : cart'[b] = Changed(rows, i.id, i.quantity + 1)
    BY <1>1, <1>3, <1>5, <1>t, <2>4
  <2>6. \A x \in rows : x.slot # i.slot => x.quantity = wanted'[x.slot]
    BY <1>3, <1>4, <1>t, <2>3 DEF AsWanted, Item
  <2>7. \A x \in Slot : wanted'[x] > 0 => \E r \in rows : r.slot = x
    BY <1>3, <1>4, <2>3 DEF AsWanted
  <2>8. Behind(c)'
    BY <1>1, <1>4, <2>1, <2>2, <2>3, <2>5, <2>6, <2>7 DEF Behind
  <2>9. n # NoCall
    BY <2>1 DEF NoCall
  <2> QED
    BY <1>1, <1>2, <2>1, <2>8, <2>9, OnwardCalm
<1>6. ASSUME existing = {},
             Goes(c, [step |-> "POST", tab |-> call[c].tab, slot |-> s])
      PROVE  CalmInv'
  <2> DEFINE n == [step |-> "POST", tab |-> call[c].tab, slot |-> s]
  <2>1. Goes(c, n) /\ n.step = "POST" /\ n.tab = call[c].tab /\ n.slot = s
    BY <1>6
  <2> HIDE DEF n
  <2>2. call'[c] = n
    BY <2>1, OneMoves DEF Typed
  <2>3. \A r \in rows : r.slot # s
    BY <1>6, <1>3
  <2>4. wanted[s] = 0 /\ wanted'[s] = 1
    BY <1>3, <1>4, <1>t, <2>3 DEF AsWanted
  <2>5. \A r \in rows : r.slot # s /\ r.quantity = wanted'[r.slot]
    BY <1>3, <1>4, <1>t, <2>3 DEF AsWanted, Item
  <2>6. \A x \in Slot : wanted'[x] > 0 /\ x # s => \E r \in rows : r.slot = x
    BY <1>3, <1>4 DEF AsWanted
  <2>7. Behind(c)'
    BY <1>1, <1>3, <2>1, <2>2, <2>4, <2>5, <2>6 DEF Behind
  <2>8. n # NoCall
    BY <2>1 DEF NoCall
  <2> QED
    BY <1>1, <1>2, <2>1, <2>7, <2>8, OnwardCalm
<1> QED
  BY <1>5, <1>6, Zenon DEF Chosen

\* The page's other steps.
LEMMA PageCalm ==
  ASSUME Typed, CalmInv, NEW c \in Call, PageStep(c)
  PROVE  CalmInv'
<1>d. Done(c) => Goes(c, NoCall)
  BY DEF Done, Goes
<1>1. ASSUME NEW b \in Tab, Mount(b, c)
      PROVE  CalmInv'
  <2> SUFFICES ASSUME calm
               PROVE  CalmInv'
    BY <1>1 DEF CalmInv, Mount
  <2> DEFINE n == [step |-> "GET", tab |-> b, mount |-> TRUE]
  <2>1. /\ Goes(c, n) /\ n.step = "GET" /\ n.tab = b /\ call[c] = NoCall /\ b \notin open
        /\ UNCHANGED <<rows, cart, wanted, used, calm>> /\ open \subseteq open'
    BY <1>1 DEF Mount, Start, Goes
  <2> HIDE DEF n
  <2>2. b \notin used /\ ~OfClick(c)
    BY <2>1 DEF CalmInv, OfClick
  <2> QED
    BY <2>1, <2>2, AsideCalm
<1>2. CASE OutOfStock(c)
  <2> SUFFICES ASSUME calm
               PROVE  CalmInv'
    BY <1>2 DEF CalmInv, OutOfStock
  <2>1. /\ call[c].step = "ask" /\ Goes(c, NoCall)
        /\ UNCHANGED <<rows, open, cart, wanted, used, calm>>
    BY <1>2, <1>d DEF OutOfStock
  <2>2. OfClick(c)
    BY <2>1, OfClicks
  <2>3. AsWanted /\ used = {call[c].tab} /\ cart[call[c].tab] = rows /\ Single
    BY <2>1, <2>2 DEF CalmInv, Behind, Single
  <2>4. AsWanted' /\ Single' /\ \A b \in used : cart'[b] = rows'
    BY <2>1, <2>3 DEF AsWanted, Single
  <2> QED
    BY <2>1, <2>2, <2>4, OnwardCalm
<1>3. CASE setCart(c)
  <2> SUFFICES ASSUME calm
               PROVE  CalmInv'
    BY <1>3 DEF CalmInv, setCart
  <2>1. /\ call[c].step = "answer" /\ Goes(c, NoCall)
        /\ UNCHANGED <<rows, open, wanted, used, calm>>
        /\ cart' = [cart EXCEPT ![call[c].tab] = call[c].seen]
    BY <1>3, <1>d DEF setCart
  <2>2. cart \in [Tab -> SUBSET Item(lastId)] /\ call[c].tab \in Tab /\ used \subseteq Tab
    BY <2>1 DEF Typed, CartTypeOK, CallsOK, CallOK
  <2>3. CASE OfClick(c)
    <3>1. /\ AsWanted /\ call[c].seen = rows /\ call[c].tab \in used /\ Single
          /\ \A b1, b2 \in used : b1 = b2
      BY <2>1, <2>3 DEF CalmInv, Behind, OfClick, Single
    <3>2. \A b \in used : cart'[b] = rows'
      BY <2>1, <2>2, <3>1
    <3>3. AsWanted' /\ Single'
      BY <2>1, <3>1 DEF AsWanted, Single
    <3> QED
      BY <2>1, <2>3, <3>2, <3>3, OnwardCalm
  <2>4. CASE ~OfClick(c)
    <3>1. call[c].tab \notin used
      BY <2>1, <2>4 DEF OfClick, NoCall
    <3>2. \A b \in used : cart'[b] = cart[b]
      BY <2>1, <2>2, <3>1
    <3> QED
      BY <2>1, <2>4, <3>2, AsideCalm
  <2> QED
    BY <2>3, <2>4
<1>4. CASE Lost(c)
  BY <1>4 DEF Lost, CalmInv
<1> QED
  BY <1>1, <1>2, <1>3, <1>4, ClicksCalm, ChosenCalm DEF PageStep

\* The handlers' steps: what each of them commits is what its click asked
\* for, and what the page already shows or is about to fetch.
LEMMA ServerCalm ==
  ASSUME Typed, CalmInv, NEW c \in Call, ServerStep(c)
  PROVE  CalmInv'
<1>d. Done(c) => Goes(c, NoCall)
  BY DEF Done, Goes
<1>k. UNCHANGED <<open, wanted, used, calm, cart>>
  BY DEF ServerStep, get_cart, add_to_cart, update_cart, delete_cart, delete_all_cart,
         Serve, CommitUpdate, CommitInsert, CommitDelete
<1> SUFFICES ASSUME calm
             PROVE  CalmInv'
  BY <1>k DEF CalmInv
<1>t. /\ rows \subseteq Item(lastId) /\ lastId \in Nat
      /\ \A r, x \in rows : r.id = x.id => r = x
      /\ wanted \in [Slot -> Nat] /\ CallOK(call[c], lastId)
  BY DEF Typed, CartTypeOK, CallsOK
<1>s. Single /\ (rows' = rows => Single') /\ (rows' = rows /\ AsWanted => AsWanted')
  BY <1>k DEF CalmInv, Single, AsWanted
<1>m. ASSUME NEW n, Goes(c, n)
      PROVE  call'[c] = n
  BY <1>m, OneMoves DEF Typed
<1>b. call[c].step \notin {"none", "GET", "answer"} => OfClick(c) /\ Behind(c)
  BY OfClicks DEF CalmInv
<1>1. CASE get_cart(c)
  <2> DEFINE n == [step |-> "answer", tab |-> call[c].tab, seen |-> rows]
  <2>1. /\ Goes(c, n) /\ n.step = "answer" /\ n.tab = call[c].tab /\ n.seen = rows
        /\ call[c].step = "GET" /\ rows' = rows
    BY <1>1 DEF get_cart, Serve
  <2> HIDE DEF n
  <2>2. CASE OfClick(c)
    <3>1. AsWanted /\ call[c].tab \in used
      BY <2>1, <2>2 DEF CalmInv, Behind, OfClick
    <3>2. Behind(c)'
      BY <1>m, <1>s, <2>1, <3>1 DEF Behind
    <3>3. n # NoCall
      BY <2>1 DEF NoCall
    <3> QED
      BY <1>k, <1>s, <2>1, <2>2, <3>1, <3>2, <3>3, OnwardCalm
  <2>3. CASE ~OfClick(c)
    <3>1. call[c].tab \notin used
      BY <2>1, <2>3 DEF OfClick, NoCall
    <3> QED
      BY <1>k, <2>1, <2>3, <3>1, AsideCalm
  <2> QED
    BY <2>2, <2>3
<1>2. CASE add_to_cart(c)
  <2> DEFINE n == [step |-> "insert", tab |-> call[c].tab, slot |-> call[c].slot]
  <2>1. call[c].step = "POST" /\ rows' = rows
    BY <1>2 DEF add_to_cart, Serve
  <2>2. /\ OfClick(c) /\ used = {call[c].tab} /\ wanted[call[c].slot] = 1
        /\ \A r \in rows : r.slot # call[c].slot /\ r.quantity = wanted[r.slot]
        /\ \A s \in Slot : wanted[s] > 0 /\ s # call[c].slot => \E r \in rows : r.slot = s
    BY <1>b, <2>1 DEF Behind
  <2>3. Goes(c, n) /\ n.step = "insert" /\ n.tab = call[c].tab /\ n.slot = call[c].slot
    BY <1>2, <2>2, Zenon DEF add_to_cart
  <2> HIDE DEF n
  <2>4. Behind(c)'
    BY <1>k, <1>m, <2>1, <2>2, <2>3 DEF Behind
  <2>5. n # NoCall
    BY <2>3 DEF NoCall
  <2> QED
    BY <1>k, <1>s, <2>1, <2>2, <2>3, <2>4, <2>5, OnwardCalm
<1>3. CASE update_cart(c)
  <2>1. call[c].step = "PUT" /\ rows' = rows
    BY <1>3, Zenon DEF update_cart, Serve
  <2>2. OfClick(c) /\ \A s \in Slot : wanted[s] > 0 => \E r \in rows : r.slot = s
    BY <1>b, <2>1 DEF Behind
  <2>3. PICK r \in rows :
          /\ r.id = call[c].id /\ wanted[r.slot] = call[c].quantity
          /\ \A x \in rows : x.slot # r.slot => x.quantity = wanted[x.slot]
          /\ \A b \in used : cart[b] = Changed(rows, r.id, call[c].quantity)
    BY <1>b, <2>1 DEF Behind
  <2> DEFINE n == [step |-> "update", read |-> r,
                   quantity |-> call[c].quantity, next |-> "none"]
  <2>4. \A x \in rows : x.id = call[c].id => x = r
    BY <1>t, <2>3
  <2>5. /\ Goes(c, n) /\ n.step = "update" /\ n.read = r /\ n.next = "none"
        /\ n.quantity = call[c].quantity
    BY <1>3, <2>3, <2>4, Zenon DEF update_cart
  <2> HIDE DEF n
  <2>6. Behind(c)'
    <3>1. call'[c] = n
      BY <1>m, <2>5
    <3>2. \A s \in Slot : wanted'[s] > 0 => \E x \in rows' : x.slot = s
      BY <1>k, <2>1, <2>2
    <3>3. /\ r \in rows' /\ wanted'[r.slot] = n.quantity
          /\ \A x \in rows' : x.slot # r.slot => x.quantity = wanted'[x.slot]
          /\ \A b \in used' : cart'[b] = Changed(rows', r.id, n.quantity)
      BY <1>k, <2>1, <2>3, <2>5
    <3> QED
      BY <2>5, <3>1, <3>2, <3>3 DEF Behind
  <2>7. n # NoCall
    BY <2>5 DEF NoCall
  <2> QED
    BY <1>k, <1>s, <2>1, <2>2, <2>5, <2>6, <2>7, OnwardCalm, Zenon
<1>4. CASE delete_cart(c)
  <2> DEFINE n == [step |-> "delete", id |-> call[c].id]
  <2>1. call[c].step = "DELETE" /\ rows' = rows
    BY <1>4 DEF delete_cart, Serve
  <2>2. OfClick(c) /\ \A s \in Slot : wanted[s] > 0 => \E r \in rows : r.slot = s
    BY <1>b, <2>1, BehindDelete, Zenon
  <2>3. PICK r \in rows :
          /\ r.id = call[c].id /\ wanted[r.slot] = 0
          /\ \A x \in rows : x.slot # r.slot => x.quantity = wanted[x.slot]
          /\ \A b \in used : cart[b] = {x \in rows : x.id # r.id}
    BY <1>b, <2>1, BehindDelete, Zenon
  <2>4. Goes(c, n) /\ n.step = "delete" /\ n.id = call[c].id
    BY <1>4, <2>3, Zenon DEF delete_cart
  <2> HIDE DEF n
  <2>5. Behind(c)'
    <3>1. call'[c] = n
      BY <1>m, <2>4
    <3>2. \A s \in Slot : wanted'[s] > 0 => \E x \in rows' : x.slot = s
      BY <1>k, <2>1, <2>2
    <3>3. /\ r \in rows' /\ r.id = n.id /\ wanted'[r.slot] = 0
          /\ \A x \in rows' : x.slot # r.slot => x.quantity = wanted'[x.slot]
          /\ \A b \in used' : cart'[b] = {x \in rows' : x.id # r.id}
      BY <1>k, <2>1, <2>3, <2>4
    <3> QED
      BY <2>4, <3>1, <3>2, <3>3 DEF Behind
  <2>6. n # NoCall
    BY <2>4 DEF NoCall
  <2> QED
    BY <1>k, <1>s, <2>1, <2>2, <2>4, <2>5, <2>6, OnwardCalm, Zenon
<1>5. CASE delete_all_cart(c)
  <2>1. call[c].step = "CLEAR" /\ rows' = {} /\ Goes(c, NoCall)
    BY <1>5, <1>d DEF delete_all_cart, Serve
  <2>2. OfClick(c) /\ (\A s \in Slot : wanted[s] = 0) /\ \A b \in used : cart[b] = {}
    BY <1>b, <2>1 DEF Behind
  <2>3. AsWanted' /\ Single' /\ \A b \in used : cart'[b] = rows'
    BY <1>k, <2>1, <2>2 DEF AsWanted, Single
  <2> QED
    BY <1>k, <2>1, <2>2, <2>3, OnwardCalm
<1>6. CASE CommitUpdate(c)
  <2>1. call[c].step = "update" /\ call[c].quantity \in Nat
    BY <1>6, <1>t DEF CommitUpdate, CallOK
  <2>2. OfClick(c) /\ \A s \in Slot : wanted[s] > 0 => \E r \in rows : r.slot = s
    BY <1>b, <2>1 DEF Behind
  <2>3. PICK r \in rows :
          /\ r = call[c].read /\ call[c].next = "none" /\ wanted[r.slot] = call[c].quantity
          /\ \A x \in rows : x.slot # r.slot => x.quantity = wanted[x.slot]
          /\ \A b \in used : cart[b] = Changed(rows, r.id, call[c].quantity)
    BY <1>b, <2>1 DEF Behind
  <2> DEFINE q == call[c].quantity
  <2>4. Goes(c, NoCall)
    BY <1>6, <1>d, <2>3 DEF CommitUpdate
  <2>5. rows' = Changed(rows, r.id, q)
    <3>1. CASE q # r.quantity
      BY <1>6, <2>3, <3>1, UpdateChanges
    <3>2. CASE q = r.quantity
      <4>1. \A x \in rows : x.id = r.id => [x EXCEPT !.quantity = q] = x
        BY <1>t, <3>2 DEF Item
      <4>2. Changed(rows, r.id, q) = rows
        BY <4>1 DEF Changed
      <4>3. rows' = rows
        BY <1>6, <2>3, <3>2, UpdateChanges
      <4> QED
        BY <4>2, <4>3
    <3> QED
      BY <3>1, <3>2
  <2>6. LET T == Changed(rows, r.id, q) IN
        /\ \A y \in rows : \E x \in T :
             /\ x.id = y.id /\ x.slot = y.slot
             /\ (y.id = r.id => x.quantity = q) /\ (y.id # r.id => x.quantity = y.quantity)
        /\ \A x \in T : \E y \in rows :
             /\ x.id = y.id /\ x.slot = y.slot
             /\ (y.id = r.id => x.quantity = q) /\ (y.id # r.id => x.quantity = y.quantity)
        /\ \A x, y \in T : x.id = y.id => x = y
    <3>1. \A x, y \in Changed(rows, r.id, q) : x.id = y.id => x = y
      <4>1. Unique(rows)
        BY <1>t DEF Unique
      <4>2. Unique(Changed(rows, r.id, q))
        BY <1>t, <2>1, <4>1, ChangedKeeps
      <4> QED
        BY <4>2 DEF Unique
    <3>2. \A y \in rows : \E x \in Changed(rows, r.id, q) :
            /\ x.id = y.id /\ x.slot = y.slot
            /\ (y.id = r.id => x.quantity = q) /\ (y.id # r.id => x.quantity = y.quantity)
      BY <1>t, <2>1, ChangedRows
    <3>3. \A x \in Changed(rows, r.id, q) : \E y \in rows :
            /\ x.id = y.id /\ x.slot = y.slot
            /\ (y.id = r.id => x.quantity = q) /\ (y.id # r.id => x.quantity = y.quantity)
      BY <1>t, <2>1, ChangedRows
    <3> QED
      BY <3>1, <3>2, <3>3, Zenon
  <2>7. /\ \A y \in rows : \E x \in rows' :
             /\ x.id = y.id /\ x.slot = y.slot
             /\ (y.id = r.id => x.quantity = q) /\ (y.id # r.id => x.quantity = y.quantity)
        /\ \A x \in rows' : \E y \in rows :
             /\ x.id = y.id /\ x.slot = y.slot
             /\ (y.id = r.id => x.quantity = q) /\ (y.id # r.id => x.quantity = y.quantity)
        /\ \A x, y \in rows' : x.id = y.id => x = y
    BY <2>5, <2>6, Zenon
  <2>8. Single'
    BY <1>s, <2>7 DEF Single
  <2>9. \A x \in rows' : x.quantity = wanted[x.slot]
    <3>1. \A y \in rows : y.id # r.id => y.slot # r.slot
      BY <1>s DEF Single
    <3>2. \A y \in rows : y.id = r.id => y = r
      BY <1>t
    <3> QED
      BY <2>3, <2>7, <3>1, <3>2
  <2>10. \A s \in Slot : wanted[s] > 0 => \E x \in rows' : x.slot = s
    BY <2>2, <2>7
  <2>11. AsWanted' /\ \A b \in used : cart'[b] = rows'
    BY <1>k, <2>3, <2>5, <2>9, <2>10 DEF AsWanted
  <2> QED
    BY <1>k, <2>2, <2>4, <2>8, <2>11, OnwardCalm
<1>7. CASE CommitInsert(c)
  <2> DEFINE n == [step |-> "GET", tab |-> call[c].tab, mount |-> FALSE]
             new == [id |-> lastId + 1, slot |-> call[c].slot, quantity |-> 1]
  <2>1. /\ call[c].step = "insert" /\ rows' = rows \cup {new}
        /\ new.slot = call[c].slot /\ new.quantity = 1
        /\ Goes(c, n) /\ n.step = "GET" /\ n.tab = call[c].tab
    BY <1>7, Zenon DEF CommitInsert
  <2> HIDE DEF n, new
  <2>2. /\ OfClick(c) /\ used = {call[c].tab} /\ wanted[call[c].slot] = 1
        /\ \A r \in rows : r.slot # call[c].slot /\ r.quantity = wanted[r.slot]
        /\ \A s \in Slot : wanted[s] > 0 /\ s # call[c].slot => \E r \in rows : r.slot = s
    BY <1>b, <2>1, BehindInsert, Zenon
  <2>3. Single' /\ AsWanted'
    <3>1. Single'
      BY <1>s, <2>1, <2>2 DEF Single
    <3>2. \A r \in rows' : r.quantity = wanted'[r.slot]
      BY <1>k, <2>1, <2>2
    <3>3. \A s \in Slot : wanted'[s] > 0 => \E r \in rows' : r.slot = s
      BY <1>k, <2>1, <2>2
    <3> QED
      BY <3>1, <3>2, <3>3 DEF AsWanted
  <2>4. Behind(c)'
    BY <1>m, <2>1, <2>3 DEF Behind
  <2>5. n # NoCall
    BY <2>1 DEF NoCall
  <2> QED
    BY <1>k, <2>1, <2>2, <2>3, <2>4, <2>5, OnwardCalm
<1>8. CASE CommitDelete(c)
  <2>1. call[c].step = "delete" /\ rows' = {r \in rows : r.id # call[c].id} /\ Goes(c, NoCall)
    BY <1>8, <1>d DEF CommitDelete
  <2>2. OfClick(c) /\ \A s \in Slot : wanted[s] > 0 => \E r \in rows : r.slot = s
    BY <1>b, <2>1, BehindDelete, Zenon
  <2>3. PICK r \in rows :
          /\ r.id = call[c].id /\ wanted[r.slot] = 0
          /\ \A x \in rows : x.slot # r.slot => x.quantity = wanted[x.slot]
          /\ \A b \in used : cart[b] = {x \in rows : x.id # r.id}
    BY <1>b, <2>1, BehindDelete, Zenon
  <2>4. \A x \in rows' : x \in rows /\ x.slot # r.slot
    BY <1>s, <2>1, <2>3 DEF Single
  <2>5. \A s \in Slot : wanted[s] > 0 => \E x \in rows' : x.slot = s
    <3> SUFFICES ASSUME NEW s \in Slot, wanted[s] > 0
                 PROVE  \E x \in rows' : x.slot = s
      OBVIOUS
    <3>1. PICK x \in rows : x.slot = s
      BY <2>2
    <3>2. x.id # r.id
      BY <1>t, <2>3, <3>1
    <3> QED
      BY <2>1, <2>3, <3>1, <3>2
  <2>6. AsWanted' /\ Single' /\ \A b \in used : cart'[b] = rows'
    BY <1>k, <1>s, <2>1, <2>3, <2>4, <2>5 DEF AsWanted, Single
  <2> QED
    BY <1>k, <2>1, <2>2, <2>6, OnwardCalm
<1> QED
  BY <1>1, <1>2, <1>3, <1>4, <1>5, <1>6, <1>7, <1>8 DEF ServerStep

-----------------------------------------------------------------------------
(* Types.                                                                  *)

\* What a page was shown stays well typed as ids are handed out.
LEMMA ItemsStay ==
  ASSUME NEW m \in Nat, NEW n \in Nat, m <= n
  PROVE  Item(m) \subseteq Item(n) /\ \A j : CallOK(j, m) => CallOK(j, n)
<1>1. Item(m) \subseteq Item(n) /\ 1 .. m \subseteq 1 .. n
  BY DEF Item
<1> QED
  BY <1>1 DEF CallOK

\* A step whose tables and call are well typed.
LEMMA MoveTyped ==
  ASSUME Typed, NEW c \in Call, NEW n, Goes(c, n), n.step \in Steps, CallOK(n, lastId'),
         lastId' \in Nat, lastId <= lastId',
         rows' \subseteq Item(lastId'), \A r, s \in rows' : r.id = s.id => r = s,
         open' \subseteq Tab, cart' \in [Tab -> SUBSET Item(lastId')],
         wanted' \in [Slot -> Nat], used' \subseteq Tab
  PROVE  Typed'
<1>1. /\ call'[c] = n
      /\ \A d \in Call : d # c => call'[d] = call[d]
      /\ call' = [d \in Call |-> call'[d]]
  BY OneMoves DEF Typed
<1>2. \A d \in Call : CallOK(call'[d], lastId')
  BY <1>1, ItemsStay DEF Typed, CallsOK, CartTypeOK
<1>3. \A d \in Call : call'[d].step \in Steps
  BY <1>1 DEF Typed, CartTypeOK, Steps
<1> QED
  BY <1>1, <1>2, <1>3 DEF Typed, CartTypeOK, CallsOK, Steps

\* A step that only moves a call.
LEMMA CallTyped ==
  ASSUME Typed, NEW c \in Call, NEW n, Goes(c, n), n.step \in Steps, CallOK(n, lastId),
         UNCHANGED <<rows, lastId, open, cart, wanted, used>>
  PROVE  Typed'
<1>1. /\ lastId \in Nat /\ rows \subseteq Item(lastId)
      /\ \A r, s \in rows : r.id = s.id => r = s
      /\ open \subseteq Tab /\ cart \in [Tab -> SUBSET Item(lastId)]
      /\ wanted \in [Slot -> Nat] /\ used \subseteq Tab
  BY DEF Typed, CartTypeOK
<1>2. lastId <= lastId'
  BY <1>1
<1> QED
  BY <1>1, <1>2, MoveTyped, Zenon

LEMMA NoCallOK ==
  ASSUME NEW m
  PROVE  CallOK(NoCall, m) /\ NoCall.step = "none" /\ "none" \in Steps
  BY DEF CallOK, NoCall, Steps

\* The page's steps.
LEMMA PageTyped ==
  ASSUME Typed, NEW c \in Call, PageStep(c)
  PROVE  Typed'
<1>t. /\ lastId \in Nat /\ rows \subseteq Item(lastId) /\ lastId <= lastId
      /\ \A r, s \in rows : r.id = s.id => r = s
      /\ open \subseteq Tab /\ cart \in [Tab -> SUBSET Item(lastId)]
      /\ wanted \in [Slot -> Nat] /\ used \subseteq Tab
  BY DEF Typed, CartTypeOK
<1>c. CallOK(call[c], lastId)
  BY DEF Typed, CallsOK
<1>q. \A n, d : Start(d, n) => Goes(d, n)
  BY DEF Start, Goes
<1>d. \A d : Done(d) => Goes(d, NoCall)
  BY DEF Done, Goes
<1>1. ASSUME NEW b \in Tab, Mount(b, c)
      PROVE  Typed'
  <2> DEFINE n == [step |-> "GET", tab |-> b, mount |-> TRUE]
  <2>1. Goes(c, n) /\ n.step \in Steps /\ CallOK(n, lastId)
    BY <1>1, <1>q DEF Mount, Steps, Requests, CallOK
  <2>2. /\ UNCHANGED <<rows, lastId, cart, wanted, used>>
        /\ open' \subseteq Tab
    BY <1>1, <1>t DEF Mount
  <2> QED
    BY <2>1, <2>2, <1>t, MoveTyped, Zenon
<1>2. ASSUME NEW b \in Tab, NEW s \in Slot, addToCart(b, c, s)
      PROVE  Typed'
  <2> DEFINE n == [step |-> "ask", tab |-> b, slot |-> s, seen |-> cart[b]]
  <2>1. Goes(c, n) /\ n.step \in Steps /\ CallOK(n, lastId)
    BY <1>2, <1>q, <1>t DEF addToCart, Steps, CallOK
  <2>2. UNCHANGED <<rows, lastId, open, cart, wanted>> /\ used' \subseteq Tab
    BY <1>2 DEF addToCart, Click
  <2> QED
    BY <2>1, <2>2, <1>t, MoveTyped, Zenon
<1>3. ASSUME NEW b \in Tab, NEW i \in cart[b], NEW q \in 0 .. MaxQty,
             updateQuantity(b, c, i, q)
      PROVE  Typed'
  <2> DEFINE n == [step |-> "PUT", id |-> i.id, quantity |-> q]
  <2>0. q \in Nat /\ i \in Item(lastId)
    BY <1>t, CartAssumption
  <2>1. Goes(c, n) /\ n.step \in Steps /\ CallOK(n, lastId)
    BY <1>3, <1>q, <2>0 DEF updateQuantity, Steps, Requests, CallOK, Item
  <2>2. UNCHANGED <<rows, lastId, open>> /\ used' \subseteq Tab
    BY <1>3 DEF updateQuantity, Click
  <2>3. wanted' \in [Slot -> Nat]
    BY <1>3, <1>t, <2>0 DEF updateQuantity, Item
  <2>4. {IF j.id = i.id THEN [j EXCEPT !.quantity = q] ELSE j : j \in cart[b]}
          \subseteq Item(lastId)
    BY <1>t, <2>0 DEF Item
  <2>5. cart' \in [Tab -> SUBSET Item(lastId)]
    BY <1>3, <1>t, <2>4 DEF updateQuantity
  <2> QED
    BY <2>1, <2>2, <2>3, <2>5, <1>t, MoveTyped
<1>4. ASSUME NEW b \in Tab, NEW i \in cart[b], removeFromCart(b, c, i)
      PROVE  Typed'
  <2> DEFINE n == [step |-> "DELETE", id |-> i.id]
  <2>0. i \in Item(lastId)
    BY <1>t
  <2>1. Goes(c, n) /\ n.step \in Steps /\ CallOK(n, lastId)
    BY <1>4, <1>q, <2>0 DEF removeFromCart, Steps, Requests, CallOK, Item
  <2>2. UNCHANGED <<rows, lastId, open>> /\ used' \subseteq Tab
    BY <1>4 DEF removeFromCart, Click
  <2>3. wanted' \in [Slot -> Nat] /\ cart' \in [Tab -> SUBSET Item(lastId)]
    BY <1>4, <1>t, Zenon DEF removeFromCart
  <2> QED
    BY <2>1, <2>2, <2>3, <1>t, MoveTyped
<1>5. ASSUME NEW b \in Tab, clearCart(b, c)
      PROVE  Typed'
  <2> DEFINE n == [step |-> "CLEAR"]
  <2>1. Goes(c, n) /\ n.step \in Steps /\ CallOK(n, lastId)
    BY <1>5, <1>q DEF clearCart, Steps, Requests, CallOK
  <2>2. UNCHANGED <<rows, lastId, open>> /\ used' \subseteq Tab
    BY <1>5 DEF clearCart, Click
  <2>3. wanted' \in [Slot -> Nat] /\ cart' \in [Tab -> SUBSET Item(lastId)]
    BY <1>5, <1>t DEF clearCart
  <2> QED
    BY <2>1, <2>2, <2>3, <1>t, MoveTyped
<1>6. CASE OutOfStock(c)
  BY <1>6, <1>d, NoCallOK, CallTyped DEF OutOfStock
<1>7. CASE Chosen(c)
  <2> DEFINE s == call[c].slot
             existing == {i \in call[c].seen : i.slot = s}
  <2>1. /\ call[c].tab \in Tab /\ s \in Slot /\ existing \subseteq Item(lastId)
        /\ call[c].seen \subseteq Item(lastId)
    <3>1. call[c].step = "ask"
      BY <1>7, Zenon DEF Chosen
    <3> QED
      BY <3>1, <1>c DEF CallOK
  <2>2. UNCHANGED <<rows, lastId, open, used>> /\ wanted' \in [Slot -> Nat]
    <3>1. UNCHANGED <<rows, lastId, open, used>> /\ wanted' = [wanted EXCEPT ![s] = @ + 1]
      BY <1>7, Zenon DEF Chosen
    <3> QED
      BY <1>t, <2>1, <3>1
  <2>3. ASSUME NEW i \in existing, cart' = [cart EXCEPT ![call[c].tab] = With(call[c].seen, s, 1)],
               Goes(c, [step |-> "PUT", id |-> i.id, quantity |-> i.quantity + 1])
        PROVE  Typed'
    <3> DEFINE n == [step |-> "PUT", id |-> i.id, quantity |-> i.quantity + 1]
    <3>0. i \in Item(lastId)
      BY <2>1
    <3>1. Goes(c, n) /\ n.step \in Steps /\ CallOK(n, lastId)
      BY <2>3, <3>0 DEF Steps, Requests, CallOK, Item
    <3>2. With(call[c].seen, s, 1) \subseteq Item(lastId)
      BY <2>1 DEF With, Item
    <3>3. cart' \in [Tab -> SUBSET Item(lastId)]
      BY <2>3, <3>2, <1>t, Zenon
    <3> QED
      BY <3>1, <3>3, <2>2, <1>t, MoveTyped
  <2>4. ASSUME Goes(c, [step |-> "POST", tab |-> call[c].tab, slot |-> s]), UNCHANGED cart
        PROVE  Typed'
    <3> DEFINE n == [step |-> "POST", tab |-> call[c].tab, slot |-> s]
    <3>1. Goes(c, n) /\ n.step \in Steps /\ CallOK(n, lastId)
      BY <2>4, <2>1 DEF Steps, Requests, CallOK
    <3> QED
      BY <3>1, <2>4, <2>2, <1>t, MoveTyped, Zenon
  <2> QED
    BY <1>7, <2>3, <2>4, Zenon DEF Chosen
<1>8. CASE setCart(c)
  <2>1. /\ call[c].tab \in Tab /\ call[c].seen \subseteq Item(lastId)
    BY <1>8, <1>c DEF setCart, CallOK
  <2>2. /\ UNCHANGED <<rows, lastId, open, used, wanted>> /\ Goes(c, NoCall)
        /\ cart' \in [Tab -> SUBSET Item(lastId)]
    BY <1>8, <1>t, <1>d, <2>1 DEF setCart
  <2> QED
    BY <2>2, <1>t, MoveTyped, NoCallOK
<1>9. CASE Lost(c)
  <2>1. cart' \in [Tab -> SUBSET Item(lastId)]
    BY <1>9, <1>t, Zenon DEF Lost
  <2>2. /\ UNCHANGED <<rows, lastId, open, used, wanted>> /\ Goes(c, NoCall)
    BY <1>9, <1>d DEF Lost
  <2> QED
    BY <2>1, <2>2, <1>t, MoveTyped, NoCallOK
<1> QED
  BY <1>1, <1>2, <1>3, <1>4, <1>5, <1>6, <1>7, <1>8, <1>9 DEF PageStep

\* The handlers' steps.
LEMMA ServerTyped ==
  ASSUME Typed, NEW c \in Call, ServerStep(c)
  PROVE  Typed'
<1>t. /\ lastId \in Nat /\ rows \subseteq Item(lastId) /\ lastId <= lastId
      /\ \A r, s \in rows : r.id = s.id => r = s
      /\ open \subseteq Tab /\ cart \in [Tab -> SUBSET Item(lastId)]
      /\ wanted \in [Slot -> Nat] /\ used \subseteq Tab
  BY DEF Typed, CartTypeOK
<1>c. CallOK(call[c], lastId)
  BY DEF Typed, CallsOK
<1>d. \A d : Done(d) => Goes(d, NoCall)
  BY DEF Done, Goes
<1>s. ASSUME NEW step, Serve(c, step)
      PROVE  call[c].step = step /\ UNCHANGED <<lastId, open, cart, wanted, used>>
  BY <1>s DEF Serve
<1>1. CASE get_cart(c)
  <2> DEFINE n == [step |-> "answer", tab |-> call[c].tab, seen |-> rows]
  <2>1. Goes(c, n) /\ n.step \in Steps /\ CallOK(n, lastId)
    BY <1>1, <1>s, <1>c, <1>t DEF get_cart, CallOK, Steps
  <2> QED
    BY <1>1, <1>s, <2>1, CallTyped DEF get_cart
<1>2. CASE add_to_cart(c)
  <2>1. /\ call[c].tab \in Tab /\ call[c].slot \in Slot
        /\ UNCHANGED <<rows, lastId, open, cart, wanted, used>>
    BY <1>2, <1>s, <1>c DEF add_to_cart, CallOK
  <2>2. ASSUME Goes(c, [step |-> "insert", tab |-> call[c].tab, slot |-> call[c].slot])
        PROVE  Typed'
    <3> DEFINE n == [step |-> "insert", tab |-> call[c].tab, slot |-> call[c].slot]
    <3>1. n.step \in Steps /\ CallOK(n, lastId)
      BY <2>1, CallForms, Zenon DEF Steps, Commits
    <3> QED
      BY <2>1, <2>2, <3>1, CallTyped
  <2>3. ASSUME NEW r \in rows,
               Goes(c, [step |-> "update", tab |-> call[c].tab, read |-> r,
                        quantity |-> r.quantity + 1, next |-> "GET"])
        PROVE  Typed'
    <3> DEFINE n == [step |-> "update", tab |-> call[c].tab, read |-> r,
                     quantity |-> r.quantity + 1, next |-> "GET"]
    <3>0. r \in Item(lastId) /\ r.quantity \in Nat
      BY <1>t DEF Item
    <3>1. n.step \in Steps
      BY Zenon DEF Steps, Commits
    <3>2. r.quantity + 1 \in Nat
      BY <3>0
    <3>3. CallOK(n, lastId)
      BY <2>1, <3>0, <3>2, CallForms, Zenon
    <3> QED
      BY <2>1, <2>3, <3>1, <3>3, CallTyped, Zenon
  <2> QED
    BY <1>2, <2>2, <2>3, Zenon DEF add_to_cart
<1>3. CASE update_cart(c)
  <2>1. call[c].quantity \in Nat /\ UNCHANGED <<rows, lastId, open, cart, wanted, used>>
    <3>1. Serve(c, "PUT") /\ rows' = rows
      BY <1>3, Zenon DEF update_cart
    <3> QED
      BY <3>1, <1>s, <1>c DEF CallOK
  <2>2. ASSUME NEW r \in rows,
               Goes(c, [step |-> "update", read |-> r,
                        quantity |-> call[c].quantity, next |-> "none"])
        PROVE  Typed'
    <3> DEFINE n == [step |-> "update", read |-> r,
                     quantity |-> call[c].quantity, next |-> "none"]
    <3>0. r \in Item(lastId)
      BY <1>t
    <3>1. n.step \in Steps /\ CallOK(n, lastId)
      BY <2>1, <3>0 DEF CallOK, Steps, Commits
    <3> QED
      BY <2>1, <2>2, <3>1, CallTyped
  <2>3. ASSUME Done(c)
        PROVE  Typed'
    BY <2>1, <2>3, <1>d, CallTyped, NoCallOK
  <2> QED
    BY <1>3, <2>2, <2>3, Zenon DEF update_cart
<1>4. CASE delete_cart(c)
  <2> DEFINE n == [step |-> "delete", id |-> call[c].id]
  <2>1. n.step \in Steps /\ CallOK(n, lastId) /\ UNCHANGED <<rows, lastId, open, cart, wanted, used>>
    BY <1>4, <1>s, <1>c DEF delete_cart, CallOK, Steps, Commits
  <2>2. Goes(c, n) \/ Goes(c, NoCall)
    BY <1>4, <1>d DEF delete_cart
  <2> QED
    BY <2>1, <2>2, CallTyped, NoCallOK, Zenon
<1>5. CASE delete_all_cart(c)
  <2>1. UNCHANGED <<lastId, open, cart, wanted, used>> /\ rows' = {} /\ Goes(c, NoCall)
    BY <1>5, <1>s, <1>d DEF delete_all_cart
  <2> QED
    BY <2>1, <1>t, MoveTyped, NoCallOK
<1>6. CASE CommitUpdate(c)
  <2>1. call[c].quantity \in Nat /\ UNCHANGED <<lastId, open, cart, wanted, used>>
    BY <1>6, <1>c DEF CommitUpdate, CallOK
  <2>2. rows' \subseteq Item(lastId) /\ \A r, s \in rows' : r.id = s.id => r = s
    <3>1. rows' = Changed(rows, call[c].read.id, call[c].quantity) \/ rows' = rows
      BY <1>6, UpdateChanges
    <3>2. /\ Changed(rows, call[c].read.id, call[c].quantity) \subseteq Item(lastId)
          /\ Unique(Changed(rows, call[c].read.id, call[c].quantity))
      <4>1. Unique(rows)
        BY <1>t DEF Unique
      <4> QED
        BY <1>t, <2>1, <4>1, ChangedKeeps
    <3> QED
      BY <1>t, <3>1, <3>2 DEF Unique
  <2>3. ASSUME call[c].next = "GET"
        PROVE  Typed'
    <3> DEFINE n == [step |-> "GET", tab |-> call[c].tab, mount |-> FALSE]
    <3>1. Goes(c, n) /\ n.step \in Steps /\ CallOK(n, lastId)
      BY <1>6, <1>c, <2>3 DEF CommitUpdate, CallOK, Steps, Requests
    <3> QED
      BY <1>t, <2>1, <2>2, <3>1, MoveTyped
  <2>4. ASSUME Done(c)
        PROVE  Typed'
    BY <1>t, <1>d, <2>1, <2>2, <2>4, MoveTyped, NoCallOK
  <2> QED
    BY <1>6, <2>3, <2>4 DEF CommitUpdate
<1>7. CASE CommitInsert(c)
  <2> DEFINE n == [step |-> "GET", tab |-> call[c].tab, mount |-> FALSE]
             new == [id |-> lastId + 1, slot |-> call[c].slot, quantity |-> 1]
  <2>1. /\ Goes(c, n) /\ n.step \in Steps /\ CallOK(n, lastId')
        /\ call[c].slot \in Slot
    BY <1>7, <1>c DEF CommitInsert, CallOK, Steps, Requests
  <2>2. /\ lastId' \in Nat /\ lastId <= lastId' /\ lastId' = lastId + 1
        /\ UNCHANGED <<open, cart, wanted, used>> /\ rows' = rows \cup {new}
    BY <1>7, <1>t DEF CommitInsert
  <2>3. Item(lastId) \subseteq Item(lastId')
    BY <1>t, <2>2, ItemsStay
  <2>4. new \in Item(lastId') /\ new.id = lastId + 1
    BY <2>1, <2>2, <1>t DEF Item
  <2>5. \A r \in rows : r.id # lastId + 1
    BY <1>t DEF Item
  <2> HIDE DEF new
  <2>6. rows' \subseteq Item(lastId') /\ \A r, s \in rows' : r.id = s.id => r = s
    BY <1>t, <2>2, <2>3, <2>4, <2>5
  <2>7. cart' \in [Tab -> SUBSET Item(lastId')]
    BY <1>t, <2>2, <2>3
  <2> QED
    BY <1>t, <2>1, <2>2, <2>6, <2>7, MoveTyped, Zenon
<1>8. CASE CommitDelete(c)
  <2>1. /\ UNCHANGED <<lastId, open, cart, wanted, used>> /\ rows' \subseteq rows
        /\ Goes(c, NoCall)
    BY <1>8, <1>d DEF CommitDelete
  <2> QED
    BY <2>1, <1>t, MoveTyped, NoCallOK
<1> QED
  BY <1>1, <1>2, <1>3, <1>4, <1>5, <1>6, <1>7, <1>8 DEF ServerStep

-----------------------------------------------------------------------------
(* One worker: one row per slot.                                           *)

OneAtATime == OneRowPerSlot /\ InsertsAreAlone

\* A step that adds no row, and after which its call may be about to commit
\* only if no other is.
LEMMA MoveAlone ==
  ASSUME Typed, OneAtATime, NEW c \in Call, NEW n, Goes(c, n),
         \A x \in rows' : \E r \in rows : x.id = r.id /\ x.slot = r.slot,
         n.step \in Commits => \A d \in Call : call[d].step \notin Commits,
         n.step = "insert" => \A r \in rows : r.slot # n.slot
  PROVE  OneAtATime'
<1>1. call'[c] = n /\ \A d \in Call : d # c => call'[d] = call[d]
  BY OneMoves DEF Typed
<1>2. OneRowPerSlot'
  BY DEF OneAtATime, OneRowPerSlot
<1>3. \A d, e \in Call : call'[d].step \in Commits /\ call'[e].step \in Commits => d = e
  BY <1>1 DEF OneAtATime, InsertsAreAlone
<1>4. \A d \in Call : call'[d].step = "insert" => \A x \in rows' : x.slot # call'[d].slot
  BY <1>1 DEF OneAtATime, InsertsAreAlone
<1> QED
  BY <1>2, <1>3, <1>4 DEF OneAtATime, InsertsAreAlone

\* What the page does to the calls and the table.
LEMMA PageMoves ==
  ASSUME NEW c \in Call, PageStep(c)
  PROVE  /\ rows' = rows
         /\ \E n : Goes(c, n) /\ n.step \notin Commits
<1>m. \A x, y : (Start(c, x) => Goes(c, x)) /\ (Done(c) => Goes(c, NoCall))
  BY DEF Start, Done, Goes
<1>n. NoCall.step \notin Commits
  BY DEF NoCall, Commits
<1>1. rows' = rows
  BY Zenon DEF PageStep, Mount, addToCart, updateQuantity, removeFromCart, clearCart, Click,
         OutOfStock, Chosen, setCart, Lost
<1>2. ASSUME NEW b \in Tab, Mount(b, c)
      PROVE  \E n : Goes(c, n) /\ n.step \notin Commits
  <2> DEFINE n == [step |-> "GET", tab |-> b, mount |-> TRUE]
  <2>1. Goes(c, n) /\ n.step \notin Commits
    BY <1>2, <1>m DEF Mount, Commits
  <2> QED
    BY <2>1
<1>3. ASSUME NEW b \in Tab, NEW s \in Slot, addToCart(b, c, s)
      PROVE  \E n : Goes(c, n) /\ n.step \notin Commits
  <2> DEFINE n == [step |-> "ask", tab |-> b, slot |-> s, seen |-> cart[b]]
  <2>1. Goes(c, n) /\ n.step \notin Commits
    BY <1>3, <1>m DEF addToCart, Commits
  <2> QED
    BY <2>1
<1>4. ASSUME NEW b \in Tab, NEW i, NEW q, updateQuantity(b, c, i, q)
      PROVE  \E n : Goes(c, n) /\ n.step \notin Commits
  <2> DEFINE n == [step |-> "PUT", id |-> i.id, quantity |-> q]
  <2>1. Goes(c, n) /\ n.step \notin Commits
    BY <1>4, <1>m DEF updateQuantity, Commits
  <2> QED
    BY <2>1
<1>5. ASSUME NEW b \in Tab, NEW i, removeFromCart(b, c, i)
      PROVE  \E n : Goes(c, n) /\ n.step \notin Commits
  <2> DEFINE n == [step |-> "DELETE", id |-> i.id]
  <2>1. Goes(c, n) /\ n.step \notin Commits
    BY <1>5, <1>m DEF removeFromCart, Commits
  <2> QED
    BY <2>1
<1>6. ASSUME NEW b \in Tab, clearCart(b, c)
      PROVE  \E n : Goes(c, n) /\ n.step \notin Commits
  <2> DEFINE n == [step |-> "CLEAR"]
  <2>1. Goes(c, n) /\ n.step \notin Commits
    BY <1>6, <1>m DEF clearCart, Commits
  <2> QED
    BY <2>1
<1>7. ASSUME OutOfStock(c) \/ setCart(c) \/ Lost(c)
      PROVE  \E n : Goes(c, n) /\ n.step \notin Commits
  BY <1>7, <1>m, <1>n DEF OutOfStock, setCart, Lost
<1>8. ASSUME Chosen(c)
      PROVE  \E n : Goes(c, n) /\ n.step \notin Commits
  <2>1. ASSUME NEW i, Goes(c, [step |-> "PUT", id |-> i.id, quantity |-> i.quantity + 1])
        PROVE  \E n : Goes(c, n) /\ n.step \notin Commits
    <3>1. [step |-> "PUT", id |-> i.id, quantity |-> i.quantity + 1].step \notin Commits
      BY DEF Commits
    <3> QED
      BY <2>1, <3>1
  <2>2. ASSUME Goes(c, [step |-> "POST", tab |-> call[c].tab, slot |-> call[c].slot])
        PROVE  \E n : Goes(c, n) /\ n.step \notin Commits
    <3>1. [step |-> "POST", tab |-> call[c].tab, slot |-> call[c].slot].step \notin Commits
      BY DEF Commits
    <3> QED
      BY <2>2, <3>1
  <2> QED
    BY <1>8, <2>1, <2>2, Zenon DEF Chosen
<1> QED
  BY <1>1, <1>2, <1>3, <1>4, <1>5, <1>6, <1>7, <1>8, Zenon DEF PageStep

LEMMA PageAlone ==
  ASSUME Typed, OneAtATime, NEW c \in Call, PageStep(c)
  PROVE  OneAtATime'
<1>1. rows' = rows
  BY PageMoves
<1>2. PICK n : Goes(c, n) /\ n.step \notin Commits
  BY PageMoves
<1>3. n.step # "insert"
  BY <1>2 DEF Commits
<1> QED
  BY <1>1, <1>2, <1>3, MoveAlone

\* With one worker, a handler's steps keep a slot to one row: the search of
\* add_to_cart is still true when it commits.
LEMMA ServerAlone ==
  ASSUME Typed, Serial, OneAtATime, NEW c \in Call, ServerStep(c)
  PROVE  OneAtATime'
<1>d. /\ \A d : Done(d) => Goes(d, NoCall)
      /\ NoCall.step \notin Commits /\ NoCall.step # "insert"
  BY DEF Done, Goes, NoCall, Commits
<1>s. ASSUME NEW step, Serve(c, step)
      PROVE  \A d \in Call : call[d].step \notin Commits
  BY <1>s DEF Serve
<1>r. \A r \in rows : r.id = r.id /\ r.slot = r.slot
  OBVIOUS
<1>1. CASE get_cart(c)
  <2> DEFINE n == [step |-> "answer", tab |-> call[c].tab, seen |-> rows]
  <2>1. Goes(c, n) /\ n.step # "insert" /\ rows' = rows
    BY <1>1 DEF get_cart
  <2>2. \A d \in Call : call[d].step \notin Commits
    BY <1>1, <1>s DEF get_cart
  <2> HIDE DEF n
  <2> QED
    BY <2>1, <2>2, MoveAlone
<1>2. CASE add_to_cart(c)
  <2>1. rows' = rows /\ \A d \in Call : call[d].step \notin Commits
    BY <1>2, <1>s DEF add_to_cart
  <2>2. ASSUME \A r \in rows : r.slot # call[c].slot,
               Goes(c, [step |-> "insert", tab |-> call[c].tab, slot |-> call[c].slot])
        PROVE  OneAtATime'
    <3> DEFINE n == [step |-> "insert", tab |-> call[c].tab, slot |-> call[c].slot]
    <3>1. n.slot = call[c].slot
      BY Zenon
    <3> HIDE DEF n
    <3>2. Goes(c, n)
      BY <2>2, Zenon DEF n
    <3> QED
      BY <2>1, <2>2, <3>1, <3>2, MoveAlone
  <2>3. ASSUME NEW r, Goes(c, [step |-> "update", tab |-> call[c].tab, read |-> r,
                               quantity |-> r.quantity + 1, next |-> "GET"])
        PROVE  OneAtATime'
    <3> DEFINE n == [step |-> "update", tab |-> call[c].tab, read |-> r,
                     quantity |-> r.quantity + 1, next |-> "GET"]
    <3>1. n.step # "insert"
      OBVIOUS
    <3> HIDE DEF n
    <3>2. Goes(c, n)
      BY <2>3 DEF n
    <3> QED
      BY <2>1, <3>1, <3>2, MoveAlone
  <2> QED
    BY <1>2, <2>2, <2>3, Zenon DEF add_to_cart
<1>3. CASE update_cart(c)
  <2>1. rows' = rows /\ \A d \in Call : call[d].step \notin Commits
    BY <1>3, <1>s DEF update_cart
  <2>2. ASSUME NEW r, Goes(c, [step |-> "update", read |-> r,
                               quantity |-> call[c].quantity, next |-> "none"])
        PROVE  OneAtATime'
    <3> DEFINE n == [step |-> "update", read |-> r,
                     quantity |-> call[c].quantity, next |-> "none"]
    <3>1. n.step # "insert"
      OBVIOUS
    <3> HIDE DEF n
    <3>2. Goes(c, n)
      BY <2>2, Zenon DEF n
    <3> QED
      BY <2>1, <3>1, <3>2, MoveAlone
  <2>3. ASSUME Done(c)
        PROVE  OneAtATime'
    BY <2>1, <2>3, <1>d, MoveAlone
  <2> QED
    BY <1>3, <2>2, <2>3, Zenon DEF update_cart
<1>4. CASE delete_cart(c)
  <2> DEFINE n == [step |-> "delete", id |-> call[c].id]
  <2>1. rows' = rows /\ \A d \in Call : call[d].step \notin Commits
    BY <1>4, <1>s DEF delete_cart
  <2>2. (Goes(c, n) \/ Goes(c, NoCall)) /\ n.step # "insert"
    BY <1>4, <1>d DEF delete_cart
  <2> HIDE DEF n
  <2> QED
    BY <2>1, <2>2, <1>d, MoveAlone
<1>5. CASE delete_all_cart(c)
  <2>1. rows' = {} /\ Goes(c, NoCall)
    BY <1>5, <1>d DEF delete_all_cart
  <2> QED
    BY <2>1, <1>d, MoveAlone
<1>6. CASE CommitUpdate(c)
  <2>1. \A x \in rows' : \E r \in rows : x.id = r.id /\ x.slot = r.slot
    <3>1. /\ rows \subseteq Item(lastId) /\ \A r, s \in rows : r.id = s.id => r = s
          /\ call[c].quantity \in Nat
      BY <1>6 DEF Typed, CartTypeOK, CallsOK, CallOK, CommitUpdate
    <3>2. \A x \in Changed(rows, call[c].read.id, call[c].quantity) :
            \E r \in rows : x.id = r.id /\ x.slot = r.slot
      BY <3>1, ChangedRows
    <3>3. rows' = Changed(rows, call[c].read.id, call[c].quantity) \/ rows' = rows
      BY <1>6, UpdateChanges
    <3> QED
      BY <3>2, <3>3
  <2>2. ASSUME Goes(c, [step |-> "GET", tab |-> call[c].tab, mount |-> FALSE])
        PROVE  OneAtATime'
    <3> DEFINE n == [step |-> "GET", tab |-> call[c].tab, mount |-> FALSE]
    <3>1. n.step # "insert" /\ n.step \notin Commits
      BY DEF Commits
    <3> HIDE DEF n
    <3>2. Goes(c, n)
      BY <2>2, Zenon DEF n
    <3> QED
      BY <2>1, <3>1, <3>2, MoveAlone
  <2>3. ASSUME Done(c)
        PROVE  OneAtATime'
    BY <2>1, <2>3, <1>d, MoveAlone
  <2> QED
    BY <1>6, <2>2, <2>3 DEF CommitUpdate
<1>7. CASE CommitInsert(c)
  <2> DEFINE n == [step |-> "GET", tab |-> call[c].tab, mount |-> FALSE]
             new == [id |-> lastId + 1, slot |-> call[c].slot, quantity |-> 1]
  <2>1. /\ rows' = rows \cup {new} /\ new.slot = call[c].slot
        /\ Goes(c, n) /\ n.step \notin Commits /\ n.step # "insert"
        /\ call[c].step = "insert" /\ call[c].step \in Commits
    BY <1>7 DEF CommitInsert, Commits
  <2> HIDE DEF n, new
  <2>2. call'[c] = n /\ \A d \in Call : d # c => call'[d] = call[d]
    BY <2>1, OneMoves DEF Typed
  <2>3. \A r \in rows : r.slot # call[c].slot
    BY <2>1 DEF OneAtATime, InsertsAreAlone
  <2>4. \A d \in Call : call'[d].step \notin Commits
    BY <2>1, <2>2 DEF OneAtATime, InsertsAreAlone
  <2>5. OneRowPerSlot'
    BY <2>1, <2>3 DEF OneAtATime, OneRowPerSlot
  <2> QED
    BY <2>4, <2>5 DEF OneAtATime, InsertsAreAlone, Commits
<1>8. CASE CommitDelete(c)
  <2>1. rows' \subseteq rows /\ Goes(c, NoCall)
    BY <1>8, <1>d DEF CommitDelete
  <2> QED
    BY <2>1, <1>d, MoveAlone
<1> QED
  BY <1>1, <1>2, <1>3, <1>4, <1>5, <1>6, <1>7, <1>8 DEF ServerStep

-----------------------------------------------------------------------------
(* The theorems.                                                           *)

LEMMA InitTyped ==
  ASSUME Init
  PROVE  Typed /\ OneAtATime
<1>1. \A c \in Call : call[c] = NoCall /\ call[c].step = "none"
  BY DEF Init, NoCall
<1>2. CartTypeOK
  BY <1>1 DEF Init, CartTypeOK, Item
<1>3. CallsOK
  BY <1>1 DEF Init, CallsOK, CallOK
<1>4. OneRowPerSlot /\ InsertsAreAlone
  BY <1>1 DEF Init, OneRowPerSlot, InsertsAreAlone, Commits
<1> QED
  BY <1>2, <1>3, <1>4 DEF Typed, OneAtATime

LEMMA NextTyped ==
  ASSUME Typed, Serial => OneAtATime, [Next]_vars
  PROVE  Typed' /\ (Serial => OneAtATime')
<1>1. ASSUME NEW c \in Call, PageStep(c) \/ ServerStep(c)
      PROVE  Typed' /\ (Serial => OneAtATime')
  BY <1>1, PageTyped, ServerTyped, PageAlone, ServerAlone
<1>2. CASE UNCHANGED vars
  <2>1. UNCHANGED <<rows, lastId, open, cart, call, clicks, wanted, used, calm>>
    BY <1>2 DEF vars
  <2>2. CartTypeOK' = CartTypeOK /\ CallsOK' = CallsOK
    BY <2>1 DEF CartTypeOK, CallsOK
  <2>3. OneRowPerSlot' = OneRowPerSlot /\ InsertsAreAlone' = InsertsAreAlone
    BY <2>1 DEF OneRowPerSlot, InsertsAreAlone
  <2> QED
    BY <2>2, <2>3 DEF Typed, OneAtATime
<1> QED
  BY <1>1, <1>2 DEF Next

\* The calls in flight carry what their next step needs, and with one worker
\* their commits do not overlap (cart_routes.py).
THEOREM TypedHolds == Spec => [](Typed /\ (Serial => OneAtATime))
<1>1. Init => Typed /\ (Serial => OneAtATime)
  BY InitTyped
<1>2. Typed /\ (Serial => OneAtATime) /\ [Next]_vars
         => (Typed /\ (Serial => OneAtATime))'
  BY NextTyped
<1> QED
  BY <1>1, <1>2, PTL DEF Spec

\* Ids are handed out once and everything is well typed (cart_items).
THEOREM CartTypeCorrect == Spec => []CartTypeOK
<1>1. Typed => CartTypeOK
  BY DEF Typed
<1> QED
  BY <1>1, TypedHolds, PTL

\* With one worker, however many tabs send POSTs, the search of add_to_cart
\* keeps a slot to one row.
THEOREM OneRowPerSlotHolds ==
  ASSUME Serial
  PROVE  Spec => []OneRowPerSlot
<1>1. Typed /\ (Serial => OneAtATime) => OneRowPerSlot
  BY DEF OneAtATime
<1> QED
  BY <1>1, TypedHolds, PTL

LEMMA InitCart ==
  ASSUME Init
  PROVE  CartInv
<1>1. \A c \in Call : call[c] = NoCall
  BY DEF Init
<1>2. CalmInv
  BY <1>1 DEF Init, CalmInv, OfClick, AsWanted
<1> QED
  BY <1>2, InitTyped DEF CartInv, Typed, OneAtATime

LEMMA NextCart ==
  ASSUME CartInv, [Next]_vars
  PROVE  CartInv'
<1>1. Typed /\ CalmInv /\ (Serial => OneAtATime)
  BY DEF CartInv, Typed, OneAtATime
<1>2. ASSUME NEW c \in Call, PageStep(c) \/ ServerStep(c)
      PROVE  CalmInv'
  BY <1>1, <1>2, PageCalm, ServerCalm
<1>3. ASSUME UNCHANGED vars
      PROVE  CalmInv'
  <2>1. UNCHANGED <<rows, open, cart, call, wanted, used, calm>>
    BY <1>3 DEF vars
  <2>2. AsWanted' = AsWanted /\ \A c \in Call : OfClick(c)' = OfClick(c)
    BY <2>1 DEF AsWanted, OfClick
  <2>3. ASSUME NEW c \in Call, Behind(c)
        PROVE  Behind(c)'
    BY <2>1, <2>3, BehindStays, Zenon
  <2> QED
    BY <1>1, <2>1, <2>2, <2>3, Zenon DEF CalmInv
<1>4. CalmInv'
  BY <1>2, <1>3 DEF Next
<1> QED
  BY <1>1, <1>4, NextTyped DEF CartInv, Typed, OneAtATime

\* In every reachable state the calls in flight carry what their next step
\* needs, and a calm customer's page and table differ by exactly the call
\* in flight (CartContext.jsx, cart_routes.py).
THEOREM CartInvHolds == Spec => []CartInv
<1>1. Init => CartInv
  BY InitCart
<1>2. CartInv /\ [Next]_vars => CartInv'
  BY NextCart
<1> QED
  BY <1>1, <1>2, PTL DEF Spec

\* A calm customer has in the table, and sees, what the clicks asked for,
\* whatever number of workers serves the requests (CartContext.jsx).
THEOREM CalmCartIsTrueHolds == Spec => []CalmCartIsTrue
<1>1. CartInv => CalmCartIsTrue
  <2> SUFFICES ASSUME CartInv, calm, Running = {}
               PROVE  /\ \A r, s \in rows : r.slot = s.slot => r = s
                      /\ AsWanted
                      /\ \A b \in used : cart[b] = rows
    BY DEF CalmCartIsTrue
  <2>1. \A c \in Call : ~OfClick(c)
    BY DEF Running, OfClick
  <2> QED
    BY <2>1, Zenon DEF CartInv, CalmInv
<1> QED
  BY <1>1, CartInvHolds, PTL
=============================================================================
