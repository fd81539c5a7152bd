-------------------------------- MODULE Site --------------------------------
(***************************************************************************)
(* The tables around the catalogue (models/*.py) and the handlers that     *)
(* write them: kit_routes, review_routes, favorite_routes,                 *)
(* newsletter_routes, and delete_user of user_settings_routes.             *)
(*                                                                         *)
(* A handler that reads before it writes takes two steps.  The first reads *)
(* and makes the early returns; the session works on what it read then.    *)
(* The second is the flush and COMMIT: all that SQLAlchemy sends for the   *)
(* session, refused as a whole when SQLAlchemy or MySQL refuses a part.    *)
(***************************************************************************)
EXTENDS Naturals, FiniteSets

CONSTANTS
  Kit, User, Name, Email, Worker,
  NoKit,         \* NULL
  MaxRows        \* rows a behaviour inserts

ASSUME SiteAssumption ==
  /\ NoKit \notin Kit
  /\ MaxRows \in Nat

VARIABLES
  db,       \* the tables
  job,      \* what a worker has read and is about to commit
  last,     \* AUTO_INCREMENT: no id is given out twice
  raced     \* history: addresses with two overlapping subscribe handlers

vars == <<db, job, last, raced>>

Id == 1 .. MaxRows

Tables ==
  [kits : SUBSET Kit, users : SUBSET User,
   inventory : SUBSET Kit,                     \* the kits with inventory rows
   options : SUBSET [id : Id, name : Name],    \* age, category, grade or theme
   kit_option : SUBSET (Kit \X Id),
   cart_items : SUBSET [id : Id, user : User, kit : Kit],
   purchases : SUBSET [id : Id, user : User, kit : Kit, shipped : BOOLEAN],
   reviews : SUBSET [id : Id, user : User, kit : Kit],
   favorites : SUBSET [id : Id, user : User, kit : Kit \cup {NoKit}, filter : BOOLEAN],
   newsletter : SUBSET [id : Id, email : Email]]

\* The handlers that read first.
Handlers ==
  {"delete_kit", "create_option", "delete_option", "update_kit", "delete_favorite",
   "review", "delete_own_review", "delete_user", "subscribe", "unsubscribe"}

Idle == [op |-> "idle"]

Init ==
  /\ db = [kits |-> Kit, users |-> User, inventory |-> Kit, options |-> {},
           kit_option |-> {}, cart_items |-> {}, purchases |-> {},
           reviews |-> {}, favorites |-> {}, newsletter |-> {}]
  /\ job = [w \in Worker |-> Idle]
  /\ last = 0
  /\ raced = {}

-----------------------------------------------------------------------------
(* Transactions.                                                           *)

\* MySQL's foreign keys, which NULL satisfies, and unique constraints.
Consistent(d) ==
  /\ d.inventory \subseteq d.kits
  /\ d.kit_option \subseteq d.kits \X {o.id : o \in d.options}
  /\ \A r \in d.cart_items \cup d.purchases : r.user \in d.users /\ r.kit \in d.inventory
  /\ \A r \in d.reviews \cup d.favorites : r.user \in d.users /\ r.kit \in d.kits \cup {NoKit}
  /\ \A r, s \in d.options : r.name = s.name => r = s
  /\ \A r, s \in d.reviews : r.user = s.user /\ r.kit = s.kit => r = s

\* The handler reads the tables; it goes on to its commit with what it read.
Reads(w, request) ==
  /\ job[w] = Idle
  /\ job' = [job EXCEPT ![w] = request]
  /\ UNCHANGED <<db, last>>

\* A faulty Commit: what was sent before the refusal stays.
CommitPiecemeal(w, ok, d) ==
  /\ job' = [job EXCEPT ![w] = Idle]
  /\ db' = IF ok /\ Consistent(d) THEN d ELSE [db EXCEPT !.favorites = d.favorites]
  /\ UNCHANGED raced

\* The commit of d by worker w, where ok: no UPDATE, and no DELETE from an
\* association table, missed a row.
Commit(w, ok, d) ==
  /\ job' = [job EXCEPT ![w] = Idle]
  /\ db' = IF ok /\ Consistent(d) THEN d ELSE db
  /\ UNCHANGED raced

\* The commit of a row that is inserted without anything being read.
Insert(d) ==
  /\ last < MaxRows
  /\ last' = last + 1
  /\ db' = IF Consistent(d) THEN d ELSE db
  /\ UNCHANGED <<job, raced>>

Row(u, k) == [id |-> last + 1, user |-> u, kit |-> k]
Of(rows, k) == {r \in rows : r.kit = k}
By(rows, u) == {r \in rows : r.user = u}

-----------------------------------------------------------------------------
(* Catalogue.                                                              *)

\* What the session loads of the rows that refer to kit k.
KitRows(k) ==
  [kit_option |-> {t \in db.kit_option : t[1] = k},
   inventory |-> db.inventory \cap {k},
   cart_items |-> Of(db.cart_items, k), purchases |-> Of(db.purchases, k),
   reviews |-> Of(db.reviews, k), favorites |-> Of(db.favorites, k)]

delete_kit(w, k) ==
  /\ k \in db.kits
  /\ Reads(w, [op |-> "delete_kit", kit |-> k, seen |-> KitRows(k)])
  /\ UNCHANGED raced

\* A faulty Cascade: cart items are not deleted with their inventory row.
CascadeNotToCarts(d, k, seen) ==
  [d EXCEPT !.kits = @ \ {k},
            !.inventory = @ \ seen.inventory,
            !.purchases = @ \ seen.purchases,
            !.kit_option = @ \ seen.kit_option,
            !.favorites = {IF f \in seen.favorites THEN [f EXCEPT !.kit = NoKit] ELSE f :
                             f \in @}]

\* The relations of models/kits.py, when a kit is deleted: purchases and
\* inventory rows go with it, and the cart items of those rows go with them;
\* a favorite's kit_id becomes NULL.
Cascade(d, k, seen) ==
  [d EXCEPT !.kits = @ \ {k},
            !.inventory = @ \ seen.inventory,
            !.cart_items = @ \ seen.cart_items,
            !.purchases = @ \ seen.purchases,
            !.kit_option = @ \ seen.kit_option,
            !.favorites = {IF f \in seen.favorites THEN [f EXCEPT !.kit = NoKit] ELSE f :
                             f \in @}]

\* A faulty commit_delete_kit: reviews are deleted with the kit.
commit_delete_kitAndReviews(w) ==
  LET seen == job[w].seen IN
  /\ job[w].op = "delete_kit"
  /\ Commit(w, seen.favorites \subseteq db.favorites /\ seen.kit_option \subseteq db.kit_option,
            [Cascade(db, job[w].kit, seen) EXCEPT !.reviews = @ \ seen.reviews])
  /\ UNCHANGED last

\* A faulty commit_delete_kit: a review's kit_id may become NULL.
commit_delete_kitNullsReviews(w) ==
  LET seen == job[w].seen IN
  /\ job[w].op = "delete_kit"
  /\ Commit(w, seen.favorites \subseteq db.favorites /\ seen.kit_option \subseteq db.kit_option,
            [Cascade(db, job[w].kit, seen) EXCEPT
               !.reviews = {IF r \in seen.reviews THEN [r EXCEPT !.kit = NoKit] ELSE r : r \in @}])
  /\ UNCHANGED last

\* A review's kit_id cannot become NULL.
commit_delete_kit(w) ==
  LET seen == job[w].seen IN
  /\ job[w].op = "delete_kit"
  /\ Commit(w, /\ seen.reviews = {}
               /\ seen.favorites \subseteq db.favorites
               /\ seen.kit_option \subseteq db.kit_option,
            Cascade(db, job[w].kit, seen))
  /\ UNCHANGED last

create_option(w, n) ==
  /\ \A o \in db.options : o.name # n
  /\ Reads(w, [op |-> "create_option", name |-> n])
  /\ UNCHANGED raced

commit_create_option(w) ==
  /\ job[w].op = "create_option"
  /\ last < MaxRows
  /\ last' = last + 1
  /\ Commit(w, TRUE, [db EXCEPT !.options = @ \cup {[id |-> last + 1, name |-> job[w].name]}])

delete_option(w, o) ==
  /\ o \in db.options
  /\ Reads(w, [op |-> "delete_option", option |-> o, seen |-> {t \in db.kit_option : t[2] = o.id}])
  /\ UNCHANGED raced

commit_delete_option(w) ==
  /\ job[w].op = "delete_option"
  /\ Commit(w, job[w].seen \subseteq db.kit_option,
            [db EXCEPT !.options = @ \ {job[w].option}, !.kit_option = @ \ job[w].seen])
  /\ UNCHANGED last

\* update_kit with new options; those that do not exist are left out.
update_kit(w, k, chosen) ==
  /\ k \in db.kits
  /\ Reads(w,
           [op |-> "update_kit", kit |-> k, seen |-> {t \in db.kit_option : t[1] = k},
            new |-> {k} \X {o.id : o \in db.options \cap chosen}])
  /\ UNCHANGED raced

commit_update_kit(w) ==
  LET gone == job[w].seen \ job[w].new
      added == job[w].new \ job[w].seen
  IN
  /\ job[w].op = "update_kit"
  /\ Commit(w, gone \subseteq db.kit_option /\ added \cap db.kit_option = {},
            [db EXCEPT !.kit_option = (@ \ gone) \cup added])
  /\ UNCHANGED last

-----------------------------------------------------------------------------
(* Customers.                                                              *)

\* Rows of the cart and of purchases, as Cart and PurchaseRoutes insert them.
AddCartItem(u, k) ==
  Insert([db EXCEPT !.cart_items = @ \cup {Row(u, k)}])

AddPurchase(u, k, shipped) ==
  Insert([db EXCEPT !.purchases = @ \cup {[id |-> last + 1, user |-> u, kit |-> k, shipped |-> shipped]}])

add_favorite(u, k, filter) ==
  /\ k # NoKit \/ filter
  /\ Insert([db EXCEPT !.favorites = @ \cup {[id |-> last + 1, user |-> u, kit |-> k, filter |-> filter]}])

delete_favorite(w, f) ==
  /\ f \in db.favorites
  /\ Reads(w, [op |-> "delete_favorite", favorite |-> f])
  /\ UNCHANGED raced

commit_delete_favorite(w) ==
  /\ job[w].op = "delete_favorite"
  /\ Commit(w, TRUE, [db EXCEPT !.favorites = {f \in @ : f.id # job[w].favorite.id}])
  /\ UNCHANGED last

create_or_update_review(w, u, k) ==
  /\ Reads(w, [op |-> "review", user |-> u, kit |-> k, seen |-> By(Of(db.reviews, k), u)])
  /\ UNCHANGED raced

commit_review(w) ==
  LET seen == job[w].seen IN
  /\ job[w].op = "review"
  /\ \/ /\ seen # {}
        /\ Commit(w, seen \subseteq db.reviews, db)
        /\ UNCHANGED last
     \/ /\ seen = {}
        /\ last < MaxRows
        /\ last' = last + 1
        /\ Commit(w, TRUE, [db EXCEPT !.reviews = @ \cup {Row(job[w].user, job[w].kit)}])

delete_own_review(w, r) ==
  /\ r \in db.reviews
  /\ Reads(w, [op |-> "delete_own_review", review |-> r])
  /\ UNCHANGED raced

commit_delete_own_review(w) ==
  /\ job[w].op = "delete_own_review"
  /\ Commit(w, TRUE, [db EXCEPT !.reviews = @ \ {job[w].review}])
  /\ UNCHANGED last

\* An administrator deletes an account.  Its addresses go with it, and the
\* purchases shipped to them; user_id cannot become NULL in the others, in
\* a cart item or in a review.
delete_user(w, u) ==
  /\ u \in db.users
  /\ Reads(w,
           [op |-> "delete_user", user |-> u, purchases |-> By(db.purchases, u),
            kept |-> By(db.cart_items \cup db.reviews, u)])
  /\ UNCHANGED raced

commit_delete_user(w) ==
  LET shipped == {p \in job[w].purchases : p.shipped} IN
  /\ job[w].op = "delete_user"
  /\ Commit(w, job[w].purchases = shipped /\ job[w].kept = {},
            [db EXCEPT !.users = @ \ {job[w].user}, !.purchases = @ \ shipped])
  /\ UNCHANGED last

-----------------------------------------------------------------------------
(* Newsletter.                                                             *)

\* A faulty subscribe: the table is not searched.
subscribeAlways(w, e) ==
  /\ Reads(w, [op |-> "subscribe", email |-> e])
  /\ raced' = raced \cup {d \in {e} : \E v \in Worker :
                            job[v].op = "subscribe" /\ job[v].email = d}

subscribe(w, e) ==
  /\ \A n \in db.newsletter : n.email # e
  /\ Reads(w, [op |-> "subscribe", email |-> e])
  /\ raced' = raced \cup {d \in {e} : \E v \in Worker :
                            job[v].op = "subscribe" /\ job[v].email = d}

commit_subscribe(w) ==
  /\ job[w].op = "subscribe"
  /\ last < MaxRows
  /\ last' = last + 1
  /\ Commit(w, TRUE, [db EXCEPT !.newsletter =
                        @ \cup {[id |-> last + 1, email |-> job[w].email]}])

unsubscribe(w, n) ==
  /\ n \in db.newsletter
  /\ Reads(w, [op |-> "unsubscribe", entry |-> n])
  /\ UNCHANGED raced

commit_unsubscribe(w) ==
  /\ job[w].op = "unsubscribe"
  /\ Commit(w, TRUE, [db EXCEPT !.newsletter = @ \ {job[w].entry}])
  /\ UNCHANGED last

-----------------------------------------------------------------------------
Begin(w) ==
  \/ \E k \in Kit : delete_kit(w, k)
  \/ \E n \in Name : create_option(w, n)
  \/ \E o \in db.options : delete_option(w, o)
  \/ \E k \in Kit : \E chosen \in SUBSET db.options : update_kit(w, k, chosen)
  \/ \E f \in db.favorites : delete_favorite(w, f)
  \/ \E u \in db.users, k \in Kit : create_or_update_review(w, u, k)
  \/ \E r \in db.reviews : delete_own_review(w, r)
  \/ \E u \in User : delete_user(w, u)
  \/ \E e \in Email : subscribe(w, e)
  \/ \E n \in db.newsletter : unsubscribe(w, n)

End(w) ==
  \/ commit_delete_kit(w)
  \/ commit_create_option(w)
  \/ commit_delete_option(w)
  \/ commit_update_kit(w)
  \/ commit_delete_favorite(w)
  \/ commit_review(w)
  \/ commit_delete_own_review(w)
  \/ commit_delete_user(w)
  \/ commit_subscribe(w)
  \/ commit_unsubscribe(w)

Next ==
  \/ \E w \in Worker : Begin(w) \/ End(w)
  \/ \E u \in db.users, k \in Kit :
       \/ AddCartItem(u, k)
       \/ \E shipped \in BOOLEAN : AddPurchase(u, k, shipped)
  \/ \E u \in db.users, k \in Kit \cup {NoKit}, filter \in BOOLEAN : add_favorite(u, k, filter)

Spec == Init /\ [][Next]_vars

-----------------------------------------------------------------------------
(* Properties.                                                             *)

\* Types: every row of every table has columns its table allows.
SiteTypeOK ==
  /\ db \in Tables
  /\ last \in 0 .. MaxRows
  /\ raced \subseteq Email
  /\ \A w \in Worker : job[w].op \in Handlers \cup {"idle"}

\* Worker w ends its handler in this step.
Ends(w) == job[w] # Idle /\ job'[w] = Idle

\* delete_kit (kit_routes.py:212) fails for one reason only, reviews of the
\* kit, unless a row that refers to the kit came or went between its read
\* and its commit: the relations of models/kits.py clear every other
\* reference in an order the foreign keys allow.
RefusedForCause ==
  [][\A w \in Worker :
       job[w].op = "delete_kit" /\ Ends(w) /\ job[w].kit \in db'.kits =>
         Of(db.reviews, job[w].kit) # {} \/ KitRows(job[w].kit) # job[w].seen]_vars

\* A review that was saved is in the table until its author deletes it
\* (review_routes.py:72): no administrator's deletion of the kit or of the
\* account takes it along, whatever is going on at the same time.
SavedReviewsStay ==
  [][\A r \in db.reviews :
       \/ r \in db'.reviews
       \/ \E w \in Worker :
            Ends(w) /\ job[w].op = "delete_own_review" /\ job[w].review = r]_vars

\* A favorite stays until it is deleted, and loses its kit only in the step
\* in which the kit goes: a delete_kit that fails, for any reason and after
\* any number of its UPDATEs, leaves the favorites of the kit alone.
FavoritesFollowTheirKit ==
  [][\A f \in db.favorites :
       \/ f \in db'.favorites
       \/ [f EXCEPT !.kit = NoKit] \in db'.favorites /\ f.kit \notin db'.kits
       \/ \E w \in Worker :
            Ends(w) /\ job[w].op = "delete_favorite" /\ job[w].favorite.id = f.id]_vars

\* An address is on the newsletter's list once, though the table has no
\* unique constraint (models/newsletter.py), unless two subscribe handlers
\* for it overlapped: only the search at newsletter_routes.py:23 keeps it so.
SubscribedOnce ==
  \A n, m \in db.newsletter : n.email = m.email /\ n.email \notin raced => n = m

\* What a session keeps between its read and its commit.
SessionOK(j) ==
  /\ j.op = "delete_kit" => j.kit \in Kit /\ \A f \in j.seen.favorites : f.kit = j.kit
  /\ j.op = "create_option" => j.name \in Name
  /\ j.op = "update_kit" => j.new \subseteq Kit \X Id
  /\ j.op = "review" => j.user \in User /\ j.kit \in Kit
  /\ j.op = "subscribe" => j.email \in Email

\* A subscribe handler about to commit is the only one for its address, and
\* the address is not on the list, unless handlers overlapped.
SubscriberAlone(w) ==
  job[w].op = "subscribe" /\ job[w].email \notin raced =>
    /\ \A n \in db.newsletter : n.email # job[w].email
    /\ \A v \in Worker \ {w} : job[v].op = "subscribe" => job[v].email # job[w].email

\* What every handler preserves: no commit leaves a foreign key or a unique
\* constraint of the tables broken, and what a session works on stays fit to
\* be committed.
SiteInv ==
  /\ SiteTypeOK
  /\ Consistent(db)
  /\ job = [w \in Worker |-> job[w]]
  /\ \A w \in Worker : SessionOK(job[w]) /\ SubscriberAlone(w)
  /\ SubscribedOnce
=============================================================================
