---------------------------- MODULE SiteProofs ----------------------------
(***************************************************************************)
(* Proofs about Site, for any number of workers, kits, users, options,     *)
(* addresses and rows: SiteInv is inductive, and what the handlers promise *)
(* of reviews, favorites, deletions and subscriptions follows.             *)
(***************************************************************************)
EXTENDS Site, TLAPS

-----------------------------------------------------------------------------
\* The columns of the tables.
LEMMA Columns ==
  ASSUME NEW d \in Tables
  PROVE  /\ d.kits \subseteq Kit /\ d.users \subseteq User /\ d.inventory \subseteq Kit
         /\ d.options \subseteq [id : Id, name : Name]
         /\ d.kit_option \subseteq Kit \X Id
         /\ d.cart_items \subseteq [id : Id, user : User, kit : Kit]
         /\ d.purchases \subseteq [id : Id, user : User, kit : Kit, shipped : BOOLEAN]
         /\ d.reviews \subseteq [id : Id, user : User, kit : Kit]
         /\ d.favorites \subseteq
              [id : Id, user : User, kit : Kit \cup {NoKit}, filter : BOOLEAN]
         /\ d.newsletter \subseteq [id : Id, email : Email]
  BY DEF Tables

\* A new row gets an id within the bound.
LEMMA NewId ==
  ASSUME SiteInv, last < MaxRows
  PROVE  last + 1 \in Id /\ last + 1 \in 0 .. MaxRows
<1>1. last \in 0 .. MaxRows
  BY DEF SiteInv, SiteTypeOK
<1> QED
  BY <1>1, SiteAssumption DEF Id

\* The handler's first step: it reads, and changes no table.
LEMMA ReadKeeps ==
  ASSUME SiteInv, NEW w \in Worker, NEW request, Reads(w, request), UNCHANGED raced,
         request.op \in Handlers, request.op # "subscribe", SessionOK(request)
  PROVE  SiteInv'
<1>1. /\ job' = [job EXCEPT ![w] = request] /\ UNCHANGED <<db, last>>
  BY DEF Reads
<1>2. job'[w] = request /\ \A v \in Worker : v # w => job'[v] = job[v]
  BY <1>1 DEF SiteInv
<1>3. SiteTypeOK' /\ Consistent(db)' /\ SubscribedOnce'
  BY <1>1, <1>2 DEF SiteInv, SiteTypeOK, Consistent, SubscribedOnce
<1>4. job' = [v \in Worker |-> job'[v]]
  BY <1>1 DEF SiteInv
<1>5. \A v \in Worker : SessionOK(job'[v]) /\ SubscriberAlone(v)'
  BY <1>1, <1>2 DEF SiteInv, SubscriberAlone
<1> QED
  BY <1>3, <1>4, <1>5 DEF SiteInv, SessionOK

\* The first step of subscribe: overlapping handlers are remembered.
LEMMA SubscribeKeeps ==
  ASSUME SiteInv, NEW w \in Worker, NEW e \in Email, subscribe(w, e)
  PROVE  SiteInv'
<1> DEFINE request == [op |-> "subscribe", email |-> e]
<1>1. /\ job' = [job EXCEPT ![w] = request] /\ UNCHANGED <<db, last>>
      /\ \A n \in db.newsletter : n.email # e
      /\ raced' = raced \cup {d \in {e} : \E v \in Worker :
                                job[v].op = "subscribe" /\ job[v].email = d}
      /\ job[w] = Idle
  BY DEF subscribe, Reads
<1>2. job'[w] = request /\ \A v \in Worker : v # w => job'[v] = job[v]
  BY <1>1 DEF SiteInv
<1>3. /\ raced \subseteq raced' /\ raced' \subseteq Email
      /\ e \notin raced' => \A v \in Worker : job[v].op = "subscribe" => job[v].email # e
  BY <1>1 DEF SiteInv, SiteTypeOK
<1>4. SiteTypeOK' /\ Consistent(db)' /\ SubscribedOnce'
  BY <1>1, <1>2, <1>3 DEF SiteInv, SiteTypeOK, Consistent, SubscribedOnce, Handlers
<1>5. job' = [v \in Worker |-> job'[v]]
  BY <1>1 DEF SiteInv
<1>6. \A v \in Worker : SessionOK(job'[v])
  BY <1>2 DEF SiteInv, SessionOK
<1>7. ASSUME NEW v \in Worker PROVE SubscriberAlone(v)'
  <2>1. CASE v = w
    BY <1>1, <1>2, <1>3, <2>1 DEF SubscriberAlone
  <2>2. CASE v # w
    <3> SUFFICES ASSUME job[v].op = "subscribe", job[v].email \notin raced'
                 PROVE  /\ \A n \in db.newsletter : n.email # job[v].email
                        /\ \A u \in Worker \ {v} :
                             job'[u].op = "subscribe" => job'[u].email # job[v].email
      BY <1>1, <1>2, <2>2 DEF SubscriberAlone
    <3>1. job[v].email # e
      BY <1>1
    <3>2. SubscriberAlone(v) /\ job[v].email \notin raced
      BY <1>3 DEF SiteInv
    <3> QED
      BY <1>2, <3>1, <3>2 DEF SubscriberAlone
  <2> QED
    BY <2>1, <2>2
<1> QED
  BY <1>4, <1>5, <1>6, <1>7 DEF SiteInv

\* The second step, for handlers that add nobody to the newsletter.
LEMMA CommitKeeps ==
  ASSUME SiteInv, NEW w \in Worker, NEW ok \in BOOLEAN, NEW d \in Tables, Commit(w, ok, d),
         d.newsletter \subseteq db.newsletter, last' \in 0 .. MaxRows
  PROVE  SiteInv'
<1>1. /\ job' = [job EXCEPT ![w] = Idle] /\ raced' = raced
      /\ db' = IF ok /\ Consistent(d) THEN d ELSE db
  BY DEF Commit
<1>2. job'[w] = Idle /\ \A v \in Worker : v # w => job'[v] = job[v]
  BY <1>1 DEF SiteInv
<1>3. db' \in Tables /\ Consistent(db') /\ db'.newsletter \subseteq db.newsletter
  BY <1>1 DEF SiteInv, SiteTypeOK
<1>4. SiteTypeOK' /\ SubscribedOnce'
  BY <1>1, <1>2, <1>3 DEF SiteInv, SiteTypeOK, SubscribedOnce, Idle
<1>5. job' = [v \in Worker |-> job'[v]]
  BY <1>1 DEF SiteInv
<1>6. \A v \in Worker : SessionOK(job'[v]) /\ SubscriberAlone(v)'
  BY <1>1, <1>2, <1>3 DEF SiteInv, SessionOK, SubscriberAlone, Idle
<1>7. Consistent(db)'
  BY <1>3 DEF Consistent
<1> QED
  BY <1>4, <1>5, <1>6, <1>7 DEF SiteInv, SessionOK

\* A single INSERT.
LEMMA InsertKeeps ==
  ASSUME SiteInv, NEW d \in Tables, Insert(d), d.newsletter = db.newsletter
  PROVE  SiteInv'
<1>1. /\ last < MaxRows /\ last' = last + 1 /\ UNCHANGED <<job, raced>>
      /\ db' = IF Consistent(d) THEN d ELSE db
  BY DEF Insert
<1>2. db' \in Tables /\ Consistent(db') /\ db'.newsletter = db.newsletter
  BY <1>1 DEF SiteInv, SiteTypeOK
<1>3. SiteTypeOK' /\ SubscribedOnce'
  BY <1>1, <1>2, NewId DEF SiteInv, SiteTypeOK, SubscribedOnce
<1>4. job' = [v \in Worker |-> job'[v]]
  BY <1>1 DEF SiteInv
<1>5. \A v \in Worker : SessionOK(job'[v]) /\ SubscriberAlone(v)'
  BY <1>1, <1>2 DEF SiteInv, SubscriberAlone
<1>6. Consistent(db)'
  BY <1>2 DEF Consistent
<1> QED
  BY <1>3, <1>4, <1>5, <1>6 DEF SiteInv, SessionOK

-----------------------------------------------------------------------------
\* Every handler's first step.
LEMMA BeginKeeps ==
  ASSUME SiteInv, NEW w \in Worker, Begin(w)
  PROVE  SiteInv'
<1>t. db \in Tables
  BY DEF SiteInv, SiteTypeOK
<1>1. ASSUME NEW k \in Kit, delete_kit(w, k) PROVE SiteInv'
  <2> DEFINE request == [op |-> "delete_kit", kit |-> k, seen |-> KitRows(k)]
  <2>1. Reads(w, request) /\ UNCHANGED raced
    BY <1>1 DEF delete_kit
  <2>2. \A f \in KitRows(k).favorites : f.kit = k
    BY DEF KitRows, Of
  <2>3. SessionOK(request) /\ request.op \in Handlers /\ request.op # "subscribe"
    BY <2>2 DEF SessionOK, Handlers
  <2> QED
    BY <2>1, <2>3, ReadKeeps
<1>2. ASSUME NEW n \in Name, create_option(w, n) PROVE SiteInv'
  <2> DEFINE request == [op |-> "create_option", name |-> n]
  <2>1. Reads(w, request) /\ UNCHANGED raced
    BY <1>2 DEF create_option
  <2>2. SessionOK(request) /\ request.op \in Handlers /\ request.op # "subscribe"
    BY DEF SessionOK, Handlers
  <2> QED
    BY <2>1, <2>2, ReadKeeps
<1>3. ASSUME NEW o \in db.options, delete_option(w, o) PROVE SiteInv'
  <2> DEFINE request == [op |-> "delete_option", option |-> o,
                         seen |-> {t \in db.kit_option : t[2] = o.id}]
  <2>1. Reads(w, request) /\ UNCHANGED raced
    BY <1>3 DEF delete_option
  <2>2. SessionOK(request) /\ request.op \in Handlers /\ request.op # "subscribe"
    BY DEF SessionOK, Handlers
  <2> QED
    BY <2>1, <2>2, ReadKeeps
<1>4. ASSUME NEW k \in Kit, NEW chosen \in SUBSET db.options, update_kit(w, k, chosen)
      PROVE  SiteInv'
  <2> DEFINE request == [op |-> "update_kit", kit |-> k,
                         seen |-> {t \in db.kit_option : t[1] = k},
                         new |-> {k} \X {o.id : o \in db.options \cap chosen}]
  <2>1. Reads(w, request) /\ UNCHANGED raced
    BY <1>4 DEF update_kit
  <2>2. {k} \X {o.id : o \in db.options \cap chosen} \subseteq Kit \X Id
    BY <1>t, Columns
  <2>3. SessionOK(request) /\ request.op \in Handlers /\ request.op # "subscribe"
    BY <2>2 DEF SessionOK, Handlers
  <2> QED
    BY <2>1, <2>3, ReadKeeps
<1>5. ASSUME NEW f \in db.favorites, delete_favorite(w, f) PROVE SiteInv'
  <2> DEFINE request == [op |-> "delete_favorite", favorite |-> f]
  <2>1. Reads(w, request) /\ UNCHANGED raced
    BY <1>5 DEF delete_favorite
  <2>2. SessionOK(request) /\ request.op \in Handlers /\ request.op # "subscribe"
    BY DEF SessionOK, Handlers
  <2> QED
    BY <2>1, <2>2, ReadKeeps
<1>6. ASSUME NEW u \in db.users, NEW k \in Kit, create_or_update_review(w, u, k)
      PROVE  SiteInv'
  <2> DEFINE request == [op |-> "review", user |-> u, kit |-> k,
                         seen |-> By(Of(db.reviews, k), u)]
  <2>1. Reads(w, request) /\ UNCHANGED raced
    BY <1>6 DEF create_or_update_review
  <2>2. u \in User
    BY <1>t, Columns
  <2>3. SessionOK(request) /\ request.op \in Handlers /\ request.op # "subscribe"
    BY <2>2 DEF SessionOK, Handlers
  <2> QED
    BY <2>1, <2>3, ReadKeeps
<1>7. ASSUME NEW r \in db.reviews, delete_own_review(w, r) PROVE SiteInv'
  <2> DEFINE request == [op |-> "delete_own_review", review |-> r]
  <2>1. Reads(w, request) /\ UNCHANGED raced
    BY <1>7 DEF delete_own_review
  <2>2. SessionOK(request) /\ request.op \in Handlers /\ request.op # "subscribe"
    BY DEF SessionOK, Handlers
  <2> QED
    BY <2>1, <2>2, ReadKeeps
<1>8. ASSUME NEW u \in User, delete_user(w, u) PROVE SiteInv'
  <2> DEFINE request == [op |-> "delete_user", user |-> u, purchases |-> By(db.purchases, u),
                         kept |-> By(db.cart_items \cup db.reviews, u)]
  <2>1. Reads(w, request) /\ UNCHANGED raced
    BY <1>8 DEF delete_user
  <2>2. SessionOK(request) /\ request.op \in Handlers /\ request.op # "subscribe"
    BY DEF SessionOK, Handlers
  <2> QED
    BY <2>1, <2>2, ReadKeeps
<1>9. ASSUME NEW e \in Email, subscribe(w, e) PROVE SiteInv'
  BY <1>9, SubscribeKeeps
<1>10. ASSUME NEW n \in db.newsletter, unsubscribe(w, n) PROVE SiteInv'
  <2> DEFINE request == [op |-> "unsubscribe", entry |-> n]
  <2>1. Reads(w, request) /\ UNCHANGED raced
    BY <1>10 DEF unsubscribe
  <2>2. SessionOK(request) /\ request.op \in Handlers /\ request.op # "subscribe"
    BY DEF SessionOK, Handlers
  <2> QED
    BY <2>1, <2>2, ReadKeeps
<1> QED
  BY <1>1, <1>2, <1>3, <1>4, <1>5, <1>6, <1>7, <1>8, <1>9, <1>10 DEF Begin

\* The tables after the cascade of a deleted kit.
LEMMA CascadeType ==
  ASSUME NEW d \in Tables, NEW k, NEW seen
  PROVE  /\ Cascade(d, k, seen) \in Tables
         /\ Cascade(d, k, seen).users = d.users
         /\ Cascade(d, k, seen).options = d.options
         /\ Cascade(d, k, seen).newsletter = d.newsletter
         /\ Cascade(d, k, seen).reviews = d.reviews
         /\ Cascade(d, k, seen).kits = d.kits \ {k}
         /\ Cascade(d, k, seen).inventory = d.inventory \ seen.inventory
         /\ Cascade(d, k, seen).cart_items = d.cart_items \ seen.cart_items
         /\ Cascade(d, k, seen).purchases = d.purchases \ seen.purchases
         /\ Cascade(d, k, seen).kit_option = d.kit_option \ seen.kit_option
         /\ Cascade(d, k, seen).favorites =
              {IF f \in seen.favorites THEN [f EXCEPT !.kit = NoKit] ELSE f : f \in d.favorites}
<1> DEFINE favs == {IF f \in seen.favorites THEN [f EXCEPT !.kit = NoKit] ELSE f :
                      f \in d.favorites}
<1>1. favs \subseteq [id : Id, user : User, kit : Kit \cup {NoKit}, filter : BOOLEAN]
  <2> DEFINE F == [id : Id, user : User, kit : Kit \cup {NoKit}, filter : BOOLEAN]
  <2>1. \A f \in F : [f EXCEPT !.kit = NoKit] \in F
    OBVIOUS
  <2>2. d.favorites \subseteq F
    BY Columns
  <2> HIDE DEF F
  <2>3. favs \subseteq F
    BY <2>1, <2>2
  <2> QED
    BY <2>3 DEF F
<1> DEFINE d1 == [d EXCEPT !.kits = d.kits \ {k}]
           d2 == [d1 EXCEPT !.inventory = d.inventory \ seen.inventory]
           d3 == [d2 EXCEPT !.cart_items = d.cart_items \ seen.cart_items]
           d4 == [d3 EXCEPT !.purchases = d.purchases \ seen.purchases]
           d5 == [d4 EXCEPT !.kit_option = d.kit_option \ seen.kit_option]
           d6 == [d5 EXCEPT !.favorites = favs]
<1>2. Cascade(d, k, seen) = d6
  BY Zenon DEF Cascade
<1> HIDE DEF favs, d1, d2, d3, d4, d5, d6
<1>d1. d1 \in Tables
  BY Columns DEF Tables, d1
<1>d2. d2 \in Tables
  BY <1>d1, Columns DEF Tables, d2
<1>d3. d3 \in Tables
  BY <1>d2, Columns DEF Tables, d3
<1>d4. d4 \in Tables
  BY <1>d3, Columns DEF Tables, d4
<1>d5. d5 \in Tables
  BY <1>d4, Columns DEF Tables, d5
<1>d6. d6 \in Tables
  BY <1>1, <1>d5, Columns DEF Tables, d6
<1>f. Cascade(d, k, seen).favorites = favs
  BY <1>2, <1>d5 DEF Tables, d6
<1>u. Cascade(d, k, seen).users = d.users
  BY <1>2, <1>d1, <1>d2, <1>d3, <1>d4, <1>d5 DEF Tables, d1, d2, d3, d4, d5, d6
<1>o. Cascade(d, k, seen).options = d.options
  BY <1>2, <1>d1, <1>d2, <1>d3, <1>d4, <1>d5 DEF Tables, d1, d2, d3, d4, d5, d6
<1>n. Cascade(d, k, seen).newsletter = d.newsletter
  BY <1>2, <1>d1, <1>d2, <1>d3, <1>d4, <1>d5 DEF Tables, d1, d2, d3, d4, d5, d6
<1>r. Cascade(d, k, seen).reviews = d.reviews
  BY <1>2, <1>d1, <1>d2, <1>d3, <1>d4, <1>d5 DEF Tables, d1, d2, d3, d4, d5, d6
<1>k. Cascade(d, k, seen).kits = d.kits \ {k}
  BY <1>2, <1>d1, <1>d2, <1>d3, <1>d4, <1>d5 DEF Tables, d1, d2, d3, d4, d5, d6
<1>i. Cascade(d, k, seen).inventory = d.inventory \ seen.inventory
  BY <1>2, <1>d1, <1>d2, <1>d3, <1>d4, <1>d5 DEF Tables, d1, d2, d3, d4, d5, d6
<1>c. Cascade(d, k, seen).cart_items = d.cart_items \ seen.cart_items
  BY <1>2, <1>d1, <1>d2, <1>d3, <1>d4, <1>d5 DEF Tables, d1, d2, d3, d4, d5, d6
<1>p. Cascade(d, k, seen).purchases = d.purchases \ seen.purchases
  BY <1>2, <1>d1, <1>d2, <1>d3, <1>d4, <1>d5 DEF Tables, d1, d2, d3, d4, d5, d6
<1>t. Cascade(d, k, seen).kit_option = d.kit_option \ seen.kit_option
  BY <1>2, <1>d1, <1>d2, <1>d3, <1>d4, <1>d5 DEF Tables, d1, d2, d3, d4, d5, d6
<1> QED
  BY <1>2, <1>d6, <1>f, <1>u, <1>o, <1>n, <1>r, <1>k, <1>i, <1>c, <1>p, <1>t DEF favs

\* What a handler's second step may commit: reviews go only with their
\* author's request, favorites only by request or with their kit's NULL.
MayCommit(w, ok, d) ==
  /\ Commit(w, ok, d)
  /\ last' \in 0 .. MaxRows
  /\ \A r \in db.reviews : \/ r \in d.reviews
                           \/ job[w].op = "delete_own_review" /\ job[w].review = r
  /\ \A f \in db.favorites :
       \/ f \in d.favorites
       \/ [f EXCEPT !.kit = NoKit] \in d.favorites /\ f.kit \notin d.kits
       \/ job[w].op = "delete_favorite" /\ job[w].favorite.id = f.id

\* The commit of delete_kit.
LEMMA DeleteKitCommits ==
  ASSUME SiteInv, NEW w \in Worker, commit_delete_kit(w)
  PROVE  \E ok \in BOOLEAN, d \in Tables :
           MayCommit(w, ok, d) /\ d.newsletter \subseteq db.newsletter
<1> DEFINE k == job[w].kit
           seen == job[w].seen
           d == Cascade(db, k, seen)
           ok == /\ seen.reviews = {}
                 /\ seen.favorites \subseteq db.favorites
                 /\ seen.kit_option \subseteq db.kit_option
<1>1. db \in Tables /\ last \in 0 .. MaxRows
  BY DEF SiteInv, SiteTypeOK
<1>2. Commit(w, ok, d) /\ last' = last /\ job[w].op = "delete_kit"
  BY Zenon DEF commit_delete_kit
<1>3. /\ d \in Tables /\ d.newsletter = db.newsletter /\ d.reviews = db.reviews
      /\ d.kits = db.kits \ {k}
      /\ d.favorites = {IF f \in seen.favorites THEN [f EXCEPT !.kit = NoKit] ELSE f :
                          f \in db.favorites}
  BY <1>1, CascadeType
<1>4. \A f \in seen.favorites : f.kit = k
  BY <1>2 DEF SiteInv, SessionOK
<1> HIDE DEF d
<1>5. ASSUME NEW f \in db.favorites
      PROVE  \/ f \in d.favorites
             \/ [f EXCEPT !.kit = NoKit] \in d.favorites /\ f.kit \notin d.kits
  BY <1>3, <1>4, Zenon
<1>6. MayCommit(w, ok, d)
  BY <1>1, <1>2, <1>3, <1>5, Zenon DEF MayCommit
<1>7. ok \in BOOLEAN
  OBVIOUS
<1> QED
  BY <1>3, <1>6, <1>7, Zenon

\* A handler's second step, unless it adds to the newsletter.
LEMMA EndCommits ==
  ASSUME SiteInv, NEW w \in Worker, End(w), ~commit_subscribe(w)
  PROVE  \E ok \in BOOLEAN, d \in Tables :
           MayCommit(w, ok, d) /\ d.newsletter \subseteq db.newsletter
<1>t. db \in Tables /\ last \in 0 .. MaxRows
  BY DEF SiteInv, SiteTypeOK
<1>s. SessionOK(job[w])
  BY DEF SiteInv
<1>m. ASSUME NEW ok \in BOOLEAN, NEW d \in Tables, Commit(w, ok, d), last' \in 0 .. MaxRows,
             d.newsletter \subseteq db.newsletter, d.reviews = db.reviews,
             d.favorites = db.favorites
      PROVE  MayCommit(w, ok, d) /\ d.newsletter \subseteq db.newsletter
  BY <1>m DEF MayCommit
<1>1. CASE commit_delete_kit(w)
  BY <1>1, DeleteKitCommits
<1>2. CASE commit_create_option(w)
  <2> DEFINE d == [db EXCEPT !.options = @ \cup {[id |-> last + 1, name |-> job[w].name]}]
  <2>1. Commit(w, TRUE, d) /\ last < MaxRows /\ last' = last + 1 /\ job[w].name \in Name
    BY <1>2, <1>s, Zenon DEF commit_create_option, SessionOK
  <2>2. last + 1 \in Id /\ last' \in 0 .. MaxRows
    BY <2>1, NewId
  <2>3. d \in Tables
    BY <1>t, <2>1, <2>2 DEF Tables
  <2>4. d.newsletter = db.newsletter /\ d.reviews = db.reviews /\ d.favorites = db.favorites
    BY <1>t DEF Tables
  <2> QED
    BY <2>1, <2>2, <2>3, <2>4, <1>m, Zenon
<1>3. CASE commit_delete_option(w)
  <2> DEFINE d1 == [db EXCEPT !.options = @ \ {job[w].option}]
             d == [db EXCEPT !.options = @ \ {job[w].option}, !.kit_option = @ \ job[w].seen]
             ok == job[w].seen \subseteq db.kit_option
  <2>1. Commit(w, ok, d) /\ last' = last /\ ok \in BOOLEAN
    BY <1>3 DEF commit_delete_option
  <2>2. d1 \in Tables /\ d1.kit_option = db.kit_option
    BY <1>t DEF Tables
  <2>3. d = [d1 EXCEPT !.kit_option = db.kit_option \ job[w].seen]
    BY Zenon
  <2>4. d \in Tables
    BY <1>t, <2>2, <2>3, Zenon DEF Tables
  <2>5. d.newsletter = db.newsletter /\ d.reviews = db.reviews /\ d.favorites = db.favorites
    BY <1>t DEF Tables
  <2> QED
    BY <1>t, <2>1, <2>4, <2>5, <1>m, Zenon
<1>4. CASE commit_update_kit(w)
  <2> DEFINE gone == job[w].seen \ job[w].new
             added == job[w].new \ job[w].seen
             d == [db EXCEPT !.kit_option = (@ \ gone) \cup added]
             ok == gone \subseteq db.kit_option /\ added \cap db.kit_option = {}
  <2>1. Commit(w, ok, d) /\ last' = last /\ ok \in BOOLEAN /\ added \subseteq Kit \X Id
    BY <1>4, <1>s DEF commit_update_kit, SessionOK
  <2>2. d \in Tables
    BY <1>t, <2>1 DEF Tables
  <2>3. d.newsletter = db.newsletter /\ d.reviews = db.reviews /\ d.favorites = db.favorites
    BY <1>t DEF Tables
  <2> QED
    BY <1>t, <2>1, <2>2, <2>3, <1>m, Zenon
<1>5. CASE commit_delete_favorite(w)
  <2> DEFINE d == [db EXCEPT !.favorites = {f \in @ : f.id # job[w].favorite.id}]
  <2>1. Commit(w, TRUE, d) /\ last' = last /\ job[w].op = "delete_favorite"
    BY <1>5, Zenon DEF commit_delete_favorite
  <2>2. d \in Tables
    BY <1>t DEF Tables
  <2>3. /\ d.newsletter = db.newsletter /\ d.reviews = db.reviews
        /\ d.favorites = {f \in db.favorites : f.id # job[w].favorite.id}
    BY <1>t DEF Tables
  <2>4. MayCommit(w, TRUE, d)
    BY <1>t, <2>1, <2>3, Zenon DEF MayCommit
  <2> QED
    BY <2>2, <2>3, <2>4, Zenon
<1>6. CASE commit_review(w)
  <2>1. CASE job[w].seen # {} /\ Commit(w, job[w].seen \subseteq db.reviews, db) /\ UNCHANGED last
    BY <1>t, <2>1, <1>m, Zenon
  <2>2. CASE /\ last < MaxRows /\ last' = last + 1
             /\ Commit(w, TRUE, [db EXCEPT !.reviews = @ \cup {Row(job[w].user, job[w].kit)}])
    <3> DEFINE d == [db EXCEPT !.reviews = @ \cup {Row(job[w].user, job[w].kit)}]
    <3>1. last + 1 \in Id /\ last' \in 0 .. MaxRows
      BY <2>2, NewId
    <3>2. Row(job[w].user, job[w].kit) \in [id : Id, user : User, kit : Kit]
      BY <1>6, <1>s, <3>1 DEF commit_review, SessionOK, Row
    <3>3. d \in Tables
      BY <1>t, <3>2 DEF Tables
    <3>4. /\ d.newsletter = db.newsletter /\ d.favorites = db.favorites
          /\ db.reviews \subseteq d.reviews
      BY <1>t DEF Tables
    <3>5. MayCommit(w, TRUE, d)
      BY <2>2, <3>1, <3>4, Zenon DEF MayCommit
    <3> QED
      BY <3>3, <3>4, <3>5, Zenon
  <2> QED
    BY <1>6, <2>1, <2>2, Zenon DEF commit_review
<1>7. CASE commit_delete_own_review(w)
  <2> DEFINE d == [db EXCEPT !.reviews = @ \ {job[w].review}]
  <2>1. Commit(w, TRUE, d) /\ last' = last /\ job[w].op = "delete_own_review"
    BY <1>7, Zenon DEF commit_delete_own_review
  <2>2. d \in Tables
    BY <1>t DEF Tables
  <2>3. /\ d.newsletter = db.newsletter /\ d.favorites = db.favorites
        /\ d.reviews = db.reviews \ {job[w].review}
    BY <1>t DEF Tables
  <2>4. MayCommit(w, TRUE, d)
    BY <1>t, <2>1, <2>3, Zenon DEF MayCommit
  <2> QED
    BY <2>2, <2>3, <2>4, Zenon
<1>8. CASE commit_delete_user(w)
  <2> DEFINE shipped == {p \in job[w].purchases : p.shipped}
             d1 == [db EXCEPT !.users = @ \ {job[w].user}]
             d == [db EXCEPT !.users = @ \ {job[w].user}, !.purchases = @ \ shipped]
             ok == job[w].purchases = shipped /\ job[w].kept = {}
  <2>1. Commit(w, ok, d) /\ last' = last /\ ok \in BOOLEAN
    BY <1>8 DEF commit_delete_user
  <2> HIDE DEF shipped
  <2>2. d1 \in Tables /\ d1.purchases = db.purchases
    BY <1>t DEF Tables
  <2>3. d = [d1 EXCEPT !.purchases = db.purchases \ shipped]
    BY Zenon
  <2>4. d \in Tables
    BY <1>t, <2>2, <2>3, Zenon DEF Tables
  <2>5. d.newsletter = db.newsletter /\ d.reviews = db.reviews /\ d.favorites = db.favorites
    BY <1>t DEF Tables
  <2> QED
    BY <1>t, <2>1, <2>4, <2>5, <1>m, Zenon
<1>9. CASE commit_unsubscribe(w)
  <2> DEFINE d == [db EXCEPT !.newsletter = @ \ {job[w].entry}]
  <2>1. Commit(w, TRUE, d) /\ last' = last
    BY <1>9, Zenon DEF commit_unsubscribe
  <2>2. d \in Tables
    BY <1>t DEF Tables
  <2>3. /\ d.newsletter \subseteq db.newsletter /\ d.favorites = db.favorites
        /\ d.reviews = db.reviews
    BY <1>t DEF Tables
  <2> HIDE DEF d
  <2> QED
    BY <1>t, <2>1, <2>2, <2>3, <1>m, Zenon
<1> QED
  BY <1>1, <1>2, <1>3, <1>4, <1>5, <1>6, <1>7, <1>8, <1>9 DEF End

\* The commit of subscribe: the address was on no list and nobody else is
\* about to add it, unless handlers overlapped.
LEMMA SubscribeCommits ==
  ASSUME SiteInv, NEW w \in Worker, commit_subscribe(w)
  PROVE  /\ SiteInv'
         /\ db'.reviews = db.reviews /\ db'.favorites = db.favorites
<1> DEFINE e == job[w].email
           d == [db EXCEPT !.newsletter = @ \cup {[id |-> last + 1, email |-> e]}]
<1>t. db \in Tables /\ last \in 0 .. MaxRows /\ SessionOK(job[w]) /\ SubscriberAlone(w)
  BY DEF SiteInv, SiteTypeOK
<1>1. /\ job[w].op = "subscribe" /\ last < MaxRows /\ last' = last + 1
      /\ job' = [job EXCEPT ![w] = Idle] /\ raced' = raced
      /\ db' = IF Consistent(d) THEN d ELSE db
  BY DEF commit_subscribe, Commit
<1>2. job'[w] = Idle /\ \A v \in Worker : v # w => job'[v] = job[v]
  BY <1>1 DEF SiteInv
<1>3. last + 1 \in Id /\ last' \in 0 .. MaxRows /\ e \in Email
  BY <1>1, <1>t, NewId DEF SessionOK
<1>4. d \in Tables
  BY <1>t, <1>3 DEF Tables
<1>5. /\ d.newsletter = db.newsletter \cup {[id |-> last + 1, email |-> e]}
      /\ d.reviews = db.reviews /\ d.favorites = db.favorites
  BY <1>t DEF Tables
<1> HIDE DEF d
<1>6. /\ db' \in Tables /\ Consistent(db')
      /\ db'.newsletter \subseteq db.newsletter \cup {[id |-> last + 1, email |-> e]}
      /\ db'.reviews = db.reviews /\ db'.favorites = db.favorites
  BY <1>1, <1>4, <1>5, <1>t DEF SiteInv
<1>7. SiteTypeOK' /\ Consistent(db)'
  BY <1>1, <1>2, <1>3, <1>6, Zenon DEF SiteInv, SiteTypeOK, Idle, Consistent
<1>8. job' = [v \in Worker |-> job'[v]]
  BY <1>1 DEF SiteInv
<1>9. SubscribedOnce'
  <2> SUFFICES ASSUME NEW n \in db'.newsletter, NEW m \in db'.newsletter,
                      n.email = m.email, n.email \notin raced
               PROVE  n = m
    BY <1>1 DEF SubscribedOnce
  <2>1. CASE n \in db.newsletter /\ m \in db.newsletter
    BY <2>1 DEF SiteInv, SubscribedOnce
  <2>2. CASE n.email = e
    <3>1. \A x \in db.newsletter : x.email # e
      BY <1>1, <1>t, <2>2 DEF SubscriberAlone
    <3>2. n = [id |-> last + 1, email |-> e] /\ m = [id |-> last + 1, email |-> e]
      BY <1>6, <2>2, <3>1, Zenon
    <3> QED
      BY <3>2
  <2>3. CASE n.email # e
    BY <1>6, <2>1, <2>3
  <2> QED
    BY <2>2, <2>3
<1>10. ASSUME NEW v \in Worker PROVE SessionOK(job'[v]) /\ SubscriberAlone(v)'
  <2>1. CASE v = w
    BY <1>2, <2>1 DEF Idle, SessionOK, SubscriberAlone
  <2>2. CASE v # w
    <3>1. SessionOK(job'[v])
      BY <1>2, <2>2 DEF SiteInv
    <3> SUFFICES ASSUME job[v].op = "subscribe", job[v].email \notin raced
                 PROVE  /\ \A n \in db'.newsletter : n.email # job[v].email
                        /\ \A u \in Worker \ {v} :
                             job'[u].op = "subscribe" => job'[u].email # job[v].email
      BY <1>1, <1>2, <2>2, <3>1 DEF SubscriberAlone
    <3>2. SubscriberAlone(v)
      BY DEF SiteInv
    <3>3. /\ \A n \in db.newsletter : n.email # job[v].email
          /\ \A u \in Worker \ {v} : job[u].op = "subscribe" => job[u].email # job[v].email
      BY <3>2 DEF SubscriberAlone
    <3>4. e # job[v].email
      BY <1>1, <2>2, <3>3
    <3>5. \A n \in db'.newsletter : n.email # job[v].email
      BY <1>6, <3>3, <3>4
    <3>6. \A u \in Worker \ {v} : job'[u].op = "subscribe" => job'[u].email # job[v].email
      BY <1>2, <3>3 DEF Idle
    <3> QED
      BY <3>5, <3>6
  <2> QED
    BY <2>1, <2>2
<1> QED
  BY <1>6, <1>7, <1>8, <1>9, <1>10 DEF SiteInv, SessionOK

\* The rows that are inserted at once.
LEMMA InsertForms ==
  ASSUME SiteInv,
         \/ \E u \in db.users, k \in Kit :
              \/ AddCartItem(u, k)
              \/ \E shipped \in BOOLEAN : AddPurchase(u, k, shipped)
         \/ \E u \in db.users, k \in Kit \cup {NoKit}, filter \in BOOLEAN :
              add_favorite(u, k, filter)
  PROVE  \E d \in Tables : /\ Insert(d)
                           /\ d.newsletter = db.newsletter /\ d.reviews = db.reviews
                           /\ db.favorites \subseteq d.favorites
<1>t. db \in Tables /\ db.users \subseteq User
  BY Columns DEF SiteInv, SiteTypeOK
<1>1. ASSUME NEW u \in db.users, NEW k \in Kit, AddCartItem(u, k)
      PROVE  \E d \in Tables : /\ Insert(d)
                               /\ d.newsletter = db.newsletter /\ d.reviews = db.reviews
                               /\ db.favorites \subseteq d.favorites
  <2> DEFINE d == [db EXCEPT !.cart_items = @ \cup {Row(u, k)}]
  <2>1. Insert(d) /\ last + 1 \in Id
    BY <1>1, NewId DEF AddCartItem, Insert
  <2>2. Row(u, k) \in [id : Id, user : User, kit : Kit]
    BY <1>t, <2>1 DEF Row
  <2>3. d \in Tables
    BY <1>t, <2>2 DEF Tables
  <2>4. d.newsletter = db.newsletter /\ d.reviews = db.reviews /\ d.favorites = db.favorites
    BY <1>t DEF Tables
  <2> QED
    BY <2>1, <2>3, <2>4, Zenon
<1>2. ASSUME NEW u \in db.users, NEW k \in Kit, NEW shipped \in BOOLEAN,
             AddPurchase(u, k, shipped)
      PROVE  \E d \in Tables : /\ Insert(d)
                               /\ d.newsletter = db.newsletter /\ d.reviews = db.reviews
                               /\ db.favorites \subseteq d.favorites
  <2> DEFINE p == [id |-> last + 1, user |-> u, kit |-> k, shipped |-> shipped]
             d == [db EXCEPT !.purchases = @ \cup {p}]
  <2>1. Insert(d) /\ last + 1 \in Id
    BY <1>2, NewId DEF AddPurchase, Insert
  <2>2. p \in [id : Id, user : User, kit : Kit, shipped : BOOLEAN]
    BY <1>t, <2>1
  <2> HIDE DEF p
  <2>3. d \in Tables
    BY <1>t, <2>2 DEF Tables
  <2>4. d.newsletter = db.newsletter /\ d.reviews = db.reviews /\ d.favorites = db.favorites
    BY <1>t DEF Tables
  <2> QED
    BY <2>1, <2>3, <2>4, Zenon
<1>3. ASSUME NEW u \in db.users, NEW k \in Kit \cup {NoKit}, NEW filter \in BOOLEAN,
             add_favorite(u, k, filter)
      PROVE  \E d \in Tables : /\ Insert(d)
                               /\ d.newsletter = db.newsletter /\ d.reviews = db.reviews
                               /\ db.favorites \subseteq d.favorites
  <2> DEFINE f == [id |-> last + 1, user |-> u, kit |-> k, filter |-> filter]
             d == [db EXCEPT !.favorites = @ \cup {f}]
  <2>1. Insert(d) /\ last + 1 \in Id
    BY <1>3, NewId DEF add_favorite, Insert
  <2>2. f \in [id : Id, user : User, kit : Kit \cup {NoKit}, filter : BOOLEAN]
    BY <1>t, <2>1
  <2> HIDE DEF f
  <2>3. d \in Tables
    BY <1>t, <2>2 DEF Tables
  <2>4. d.newsletter = db.newsletter /\ d.reviews = db.reviews /\ db.favorites \subseteq d.favorites
    BY <1>t DEF Tables
  <2> QED
    BY <2>1, <2>3, <2>4, Zenon
<1> QED
  BY <1>1, <1>2, <1>3

-----------------------------------------------------------------------------
\* SiteInv holds with a catalogue and nothing else in the tables.
LEMMA InitSiteInv == Init => SiteInv
<1> SUFFICES ASSUME Init PROVE SiteInv
  OBVIOUS
<1>1. db \in Tables /\ Consistent(db)
  BY DEF Init, Tables, Consistent
<1>2. \A w \in Worker : job[w] = [op |-> "idle"]
  BY DEF Init, Idle
<1>3. SiteTypeOK /\ SubscribedOnce
  BY <1>1, <1>2, SiteAssumption DEF Init, SiteTypeOK, SubscribedOnce
<1>4. job = [w \in Worker |-> job[w]]
  BY DEF Init
<1>5. \A w \in Worker : SessionOK(job[w]) /\ SubscriberAlone(w)
  BY <1>2 DEF SessionOK, SubscriberAlone
<1> QED
  BY <1>1, <1>3, <1>4, <1>5 DEF SiteInv

\* Every step preserves SiteInv.
LEMMA NextSiteInv == SiteInv /\ [Next]_vars => SiteInv'
<1> SUFFICES ASSUME SiteInv, [Next]_vars PROVE SiteInv'
  OBVIOUS
<1>1. ASSUME NEW w \in Worker, Begin(w) PROVE SiteInv'
  BY <1>1, BeginKeeps
<1>2. ASSUME NEW w \in Worker, End(w) PROVE SiteInv'
  <2>1. CASE commit_subscribe(w)
    BY <2>1, SubscribeCommits
  <2>2. CASE ~commit_subscribe(w)
    <3>1. PICK ok \in BOOLEAN, d \in Tables :
            MayCommit(w, ok, d) /\ d.newsletter \subseteq db.newsletter
      BY <1>2, <2>2, EndCommits
    <3> QED
      BY <3>1, CommitKeeps DEF MayCommit
  <2> QED
    BY <2>1, <2>2
<1>3. CASE \/ \E u \in db.users, k \in Kit :
                \/ AddCartItem(u, k)
                \/ \E shipped \in BOOLEAN : AddPurchase(u, k, shipped)
           \/ \E u \in db.users, k \in Kit \cup {NoKit}, filter \in BOOLEAN :
                add_favorite(u, k, filter)
  <2>1. PICK d \in Tables : Insert(d) /\ d.newsletter = db.newsletter
    BY <1>3, InsertForms
  <2> QED
    BY <2>1, InsertKeeps
<1>4. CASE UNCHANGED vars
  <2>1. UNCHANGED <<db, job, last, raced>>
    BY <1>4 DEF vars
  <2> QED
    BY <2>1 DEF SiteInv, SiteTypeOK, Consistent, SubscribedOnce, SubscriberAlone, SessionOK
<1> QED
  BY <1>1, <1>2, <1>3, <1>4 DEF Next

\* A worker ends its handler only by its own commit.
LEMMA EndsByCommit ==
  ASSUME SiteInv, [Next]_vars, NEW w \in Worker, Ends(w)
  PROVE  End(w)
<1>1. ASSUME NEW v \in Worker, NEW j, job' = [job EXCEPT ![v] = j], v # w PROVE FALSE
  BY <1>1 DEF SiteInv, Ends
<1>2. ASSUME NEW v \in Worker, Begin(v) PROVE FALSE
  <2>1. PICK request : Reads(v, request)
    BY <1>2, Zenon DEF Begin, delete_kit, create_option, delete_option, update_kit, delete_favorite,
                create_or_update_review, delete_own_review, delete_user, subscribe, unsubscribe
  <2> QED
    BY <1>1, <2>1 DEF Reads, Ends
<1>3. ASSUME NEW v \in Worker, End(v) PROVE job' = [job EXCEPT ![v] = Idle]
  BY <1>3, Zenon DEF End, Commit, commit_delete_kit, commit_create_option, commit_delete_option,
               commit_update_kit, commit_delete_favorite, commit_review,
               commit_delete_own_review, commit_delete_user, commit_subscribe,
               commit_unsubscribe
<1>4. ASSUME NEW d, Insert(d) PROVE FALSE
  BY <1>4 DEF Insert, Ends
<1>5. CASE UNCHANGED vars
  BY <1>5 DEF vars, Ends
<1>6. CASE \/ \E u \in db.users, k \in Kit :
                \/ AddCartItem(u, k)
                \/ \E shipped \in BOOLEAN : AddPurchase(u, k, shipped)
           \/ \E u \in db.users, k \in Kit \cup {NoKit}, filter \in BOOLEAN :
                add_favorite(u, k, filter)
  BY <1>4, <1>6, InsertForms
<1>7. ASSUME NEW v \in Worker, End(v) PROVE End(w)
  BY <1>1, <1>3, <1>7
<1> QED
  BY <1>2, <1>5, <1>6, <1>7 DEF Next

\* Deleting kit k with all the rows that refer to it breaks no constraint,
\* when none of them is a review.
LEMMA CascadeConsistent ==
  ASSUME SiteInv, NEW k, Of(db.reviews, k) = {}
  PROVE  Consistent(Cascade(db, k, KitRows(k)))
<1> DEFINE seen == KitRows(k)
           d == Cascade(db, k, seen)
<1>t. db \in Tables /\ Consistent(db)
  BY DEF SiteInv, SiteTypeOK
<1>s. /\ seen.inventory = db.inventory \cap {k}
      /\ seen.cart_items = Of(db.cart_items, k) /\ seen.purchases = Of(db.purchases, k)
      /\ seen.kit_option = {t \in db.kit_option : t[1] = k}
      /\ seen.favorites = Of(db.favorites, k)
  BY DEF KitRows
<1> HIDE DEF seen
<1>d. /\ d.users = db.users /\ d.options = db.options /\ d.reviews = db.reviews
      /\ d.kits = db.kits \ {k}
      /\ d.inventory = db.inventory \ seen.inventory
      /\ d.cart_items = db.cart_items \ seen.cart_items
      /\ d.purchases = db.purchases \ seen.purchases
      /\ d.kit_option = db.kit_option \ seen.kit_option
      /\ d.favorites = {IF f \in seen.favorites THEN [f EXCEPT !.kit = NoKit] ELSE f :
                          f \in db.favorites}
  BY <1>t, CascadeType
<1> HIDE DEF d
<1>1. d.inventory \subseteq d.kits
  BY <1>t, <1>s, <1>d DEF Consistent
<1>2. d.kit_option \subseteq d.kits \X {o.id : o \in d.options}
  BY <1>t, <1>s, <1>d DEF Consistent
<1>3. \A r \in d.cart_items \cup d.purchases : r.user \in d.users /\ r.kit \in d.inventory
  BY <1>t, <1>s, <1>d DEF Consistent, Of
<1>4. \A r \in d.reviews : r.user \in d.users /\ r.kit \in d.kits \cup {NoKit}
  BY <1>t, <1>d DEF Consistent, Of
<1>5. ASSUME NEW r \in d.favorites PROVE r.user \in d.users /\ r.kit \in d.kits \cup {NoKit}
  <2>1. PICK f \in db.favorites : r = IF f \in seen.favorites THEN [f EXCEPT !.kit = NoKit] ELSE f
    BY <1>d, <1>5
  <2>2. f \in [id : Id, user : User, kit : Kit \cup {NoKit}, filter : BOOLEAN]
    BY <1>t, Columns
  <2>3. f.user \in db.users /\ f.kit \in db.kits \cup {NoKit}
    BY <1>t DEF Consistent
  <2>4. CASE f \in seen.favorites
    BY <2>1, <2>2, <2>3, <2>4, <1>d
  <2>5. CASE f \notin seen.favorites
    BY <2>1, <2>3, <2>5, <1>d, <1>s DEF Of
  <2> QED
    BY <2>4, <2>5
<1>6. /\ \A r, s \in d.options : r.name = s.name => r = s
      /\ \A r, s \in d.reviews : r.user = s.user /\ r.kit = s.kit => r = s
  BY <1>t, <1>d DEF Consistent
<1>7. Consistent(d)
  BY <1>1, <1>2, <1>3, <1>4, <1>5, <1>6 DEF Consistent
<1> QED
  BY <1>7 DEF d, seen

-----------------------------------------------------------------------------
\* Foreign keys and unique constraints hold after every commit, and what a
\* session holds between its read and its commit stays fit to be committed.
THEOREM SiteInvHolds == Spec => []SiteInv
  BY InitSiteInv, NextSiteInv, PTL DEF Spec

\* Every row of every table has columns its table allows.
THEOREM SiteTypeCorrect == Spec => []SiteTypeOK
<1>1. SiteInv => SiteTypeOK
  BY DEF SiteInv
<1> QED
  BY <1>1, SiteInvHolds, PTL

\* Without overlapping subscribe handlers an address is on the newsletter's
\* list at most once.
THEOREM SubscribedOnceHolds == Spec => []SubscribedOnce
<1>1. SiteInv => SubscribedOnce
  BY DEF SiteInv
<1> QED
  BY <1>1, SiteInvHolds, PTL

\* A delete_kit that leaves the kit in place met a review of it, or rows that
\* came or went between its read and its commit.
THEOREM RefusedForCauseHolds == Spec => RefusedForCause
<1> DEFINE Cause == \A w \in Worker :
              job[w].op = "delete_kit" /\ Ends(w) /\ job[w].kit \in db'.kits =>
                Of(db.reviews, job[w].kit) # {} \/ KitRows(job[w].kit) # job[w].seen
<1>1. SiteInv /\ [Next]_vars => [Cause]_vars
  <2> SUFFICES ASSUME SiteInv, [Next]_vars, NEW w \in Worker,
                      job[w].op = "delete_kit", Ends(w),
                      Of(db.reviews, job[w].kit) = {}, KitRows(job[w].kit) = job[w].seen
               PROVE  job[w].kit \notin db'.kits
    OBVIOUS
  <2> DEFINE k == job[w].kit
             d == Cascade(db, k, KitRows(k))
  <2>1. End(w)
    BY EndsByCommit
  <2>2. commit_delete_kit(w)
    BY <2>1 DEF End, commit_create_option, commit_delete_option, commit_update_kit,
                commit_delete_favorite, commit_review, commit_delete_own_review,
                commit_delete_user, commit_subscribe, commit_unsubscribe
  <2>3. /\ KitRows(k).reviews = {}
        /\ KitRows(k).favorites \subseteq db.favorites
        /\ KitRows(k).kit_option \subseteq db.kit_option
    BY DEF KitRows, Of
  <2>4. Consistent(d)
    BY CascadeConsistent
  <2>5. db' = d
    BY <2>2, <2>3, <2>4 DEF commit_delete_kit, Commit
  <2>6. d.kits = db.kits \ {k}
    BY CascadeType DEF SiteInv, SiteTypeOK
  <2> QED
    BY <2>5, <2>6
<1> QED
  BY <1>1, SiteInvHolds, PTL DEF Spec, RefusedForCause

\* What any step does to the reviews and the favorites there are.
LEMMA RowsStay ==
  ASSUME SiteInv, [Next]_vars
  PROVE  /\ \A r \in db.reviews :
              \/ r \in db'.reviews
              \/ \E w \in Worker :
                   Ends(w) /\ job[w].op = "delete_own_review" /\ job[w].review = r
         /\ \A f \in db.favorites :
              \/ f \in db'.favorites
              \/ [f EXCEPT !.kit = NoKit] \in db'.favorites /\ f.kit \notin db'.kits
              \/ \E w \in Worker :
                   Ends(w) /\ job[w].op = "delete_favorite" /\ job[w].favorite.id = f.id
<1>1. ASSUME NEW w \in Worker, Begin(w) PROVE db' = db
  <2>1. PICK request : Reads(w, request)
    BY <1>1, Zenon DEF Begin, delete_kit, create_option, delete_option, update_kit, delete_favorite,
                create_or_update_review, delete_own_review, delete_user, subscribe, unsubscribe
  <2> QED
    BY <2>1 DEF Reads
<1>2. CASE \/ \E u \in db.users, k \in Kit :
                \/ AddCartItem(u, k)
                \/ \E shipped \in BOOLEAN : AddPurchase(u, k, shipped)
           \/ \E u \in db.users, k \in Kit \cup {NoKit}, filter \in BOOLEAN :
                add_favorite(u, k, filter)
  <2>1. PICK d \in Tables : /\ Insert(d) /\ d.reviews = db.reviews
                            /\ db.favorites \subseteq d.favorites
    BY <1>2, InsertForms
  <2>2. db.reviews \subseteq db'.reviews /\ db.favorites \subseteq db'.favorites
    BY <2>1 DEF Insert
  <2> QED
    BY <2>2
<1>3. ASSUME NEW w \in Worker, End(w), ~commit_subscribe(w)
      PROVE  /\ \A r \in db.reviews :
                  \/ r \in db'.reviews
                  \/ Ends(w) /\ job[w].op = "delete_own_review" /\ job[w].review = r
             /\ \A f \in db.favorites :
                  \/ f \in db'.favorites
                  \/ [f EXCEPT !.kit = NoKit] \in db'.favorites /\ f.kit \notin db'.kits
                  \/ Ends(w) /\ job[w].op = "delete_favorite" /\ job[w].favorite.id = f.id
  <2>1. PICK ok \in BOOLEAN, d \in Tables : MayCommit(w, ok, d)
    BY <1>3, EndCommits
  <2>2. job' = [job EXCEPT ![w] = Idle] /\ (db' = d \/ db' = db)
    BY <2>1 DEF MayCommit, Commit
  <2>3. job[w].op # "idle" => Ends(w)
    BY <2>2 DEF SiteInv, Ends, Idle
  <2>4. CASE db' = db
    BY <2>4
  <2>5. CASE db' = d
    BY <2>1, <2>3, <2>5 DEF MayCommit
  <2> QED
    BY <2>2, <2>4, <2>5
<1>4. ASSUME NEW w \in Worker, commit_subscribe(w)
      PROVE  db'.reviews = db.reviews /\ db'.favorites = db.favorites
  BY <1>4, SubscribeCommits
<1>5. UNCHANGED vars => db' = db
  BY DEF vars
<1> QED
  BY <1>1, <1>2, <1>3, <1>4, <1>5 DEF Next

\* A review that was saved stays until its author deletes it.
THEOREM SavedReviewsStayHolds == Spec => SavedReviewsStay
<1> DEFINE Stay == \A r \in db.reviews :
              \/ r \in db'.reviews
              \/ \E w \in Worker :
                   Ends(w) /\ job[w].op = "delete_own_review" /\ job[w].review = r
<1>1. SiteInv /\ [Next]_vars => [Stay]_vars
  BY RowsStay
<1> QED
  BY <1>1, SiteInvHolds, PTL DEF Spec, SavedReviewsStay

\* A favorite stays until it is deleted, and loses its kit only together
\* with the kit.
THEOREM FavoritesFollowTheirKitHolds == Spec => FavoritesFollowTheirKit
<1> DEFINE Follow == \A f \in db.favorites :
              \/ f \in db'.favorites
              \/ [f EXCEPT !.kit = NoKit] \in db'.favorites /\ f.kit \notin db'.kits
              \/ \E w \in Worker :
                   Ends(w) /\ job[w].op = "delete_favorite" /\ job[w].favorite.id = f.id
<1>1. SiteInv /\ [Next]_vars => [Follow]_vars
  BY RowsStay
<1> QED
  BY <1>1, SiteInvHolds, PTL DEF Spec, FavoritesFollowTheirKit
=============================================================================
