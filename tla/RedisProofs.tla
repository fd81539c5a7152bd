---------------------------- MODULE RedisProofs ----------------------------
(***************************************************************************)
(* Proofs about Redis, for every set of keys, lifetime, output limit and   *)
(* bound: RedisInv is inductive, and the safety properties of the server   *)
(* and its refinement of ExpiringKeys follow from it.                      *)
(***************************************************************************)
EXTENDS Redis, TLAPS

Settled == {"announced", "handled", "dropped", "unheard"}

-----------------------------------------------------------------------------
\* A key with an entry in memory is one that a SETEX still holds, and that
\* SETEX has a place in the history.
LEMMA HeldInMemory ==
  ASSUME RedisInv, Up, NEW k \in Key, expires[k] # 0
  PROVE  /\ keys[k] \in Life /\ keys[k] <= nset
         /\ fate[keys[k]] = "held"
         /\ deadline[keys[k]] = expires[k]
<1>1. keys \in [Key -> 0..MaxSet] /\ keys[k] # 0
  BY DEF RedisInv, RedisTypeOK, Agree, Memory, Image
<1>2. keys[k] \in Life
  BY <1>1, RedisAssumption DEF Life
<1>3. keys[k] <= nset /\ deadline[keys[k]] = expires[k]
  BY <1>1 DEF RedisInv, Owned, Memory
<1>4. fate[keys[k]] = "held"
  BY <1>2 DEF RedisInv, FatesFollow
<1> QED
  BY <1>2, <1>3, <1>4

\* What is in the buffer belongs to a SETEX of the past.
LEMMA BufferIsPast ==
  ASSUME RedisInv, NEW i \in 1..Len(buffer)
  PROVE  /\ buffer[i] \in Key \X Life
         /\ buffer[i][1] \in Key /\ buffer[i][2] \in Life
         /\ buffer[i][2] <= nset
         /\ fate[buffer[i][2]] = "announced"
<1>1. buffer[i] \in Key \X Life
  BY DEF RedisInv, RedisTypeOK
<1>2. fate[buffer[i][2]] = "announced" /\ buffer[i][2] \in Life
  BY <1>1 DEF RedisInv, BufferAnnounces
<1>3. \A n \in Life : n > nset => fate[n] = "none"
  BY DEF RedisInv, FatesFollow
<1>4. buffer[i][2] \in Nat /\ nset \in Nat
  BY <1>2, RedisAssumption DEF Life, RedisInv, RedisTypeOK
<1>5. ~ (buffer[i][2] > nset)
  BY <1>2, <1>3
<1> QED
  BY <1>1, <1>2, <1>4, <1>5

\* A closed connection: the announcements under way are dropped, nothing
\* else changes.
LEMMA DisconnectEffect ==
  ASSUME NEW f \in [Life -> Fate], Disconnect(f)
  PROVE  /\ subscribed' = FALSE /\ buffer' = <<>>
         /\ fate' \in [Life -> Fate]
         /\ \A n \in Life : /\ f[n] # "announced" => fate'[n] = f[n]
                            /\ f[n] = "announced" => fate'[n] = "dropped"
         /\ BufferAnnounces'
         /\ Notices' = {}
<1>1. /\ subscribed' = FALSE /\ buffer' = <<>>
      /\ fate' = [n \in Life |-> IF f[n] = "announced" THEN "dropped" ELSE f[n]]
  BY DEF Disconnect, Dropped
<1>2. fate' \in [Life -> Fate]
  BY <1>1 DEF Fate
<1>3. Len(buffer') = 0
  BY <1>1
<1>4. BufferAnnounces' /\ Notices' = {}
  BY <1>1, <1>3 DEF BufferAnnounces, Notices
<1> QED
  BY <1>1, <1>2, <1>4

\* An "expired" message for k: the SETEX that k held is announced, dropped
\* or unheard, every other one keeps its fate unless the connection is
\* closed, and the buffer keeps its shape.
LEMMA NotifyEffect ==
  ASSUME RedisInv, Up, NEW k \in Key, expires[k] # 0,
         NEW f \in [Life -> Fate],
         \A n \in Life : n <= nset => f[n] = fate[n],
         \A n \in Life : n > nset => f[n] # "announced",
         notify(k, f)
  PROVE  /\ subscribed' \in BOOLEAN /\ events' = events
         /\ buffer' \in Seq(Key \X Life) /\ Len(buffer') <= OutputLimit
         /\ fate' \in [Life -> Fate]
         /\ fate'[keys[k]] \in {"announced", "dropped", "unheard"}
         /\ \A n \in Life : n # keys[k] =>
              \/ fate'[n] = f[n]
              \/ f[n] = "announced" /\ fate'[n] = "dropped"
         /\ BufferAnnounces'
         /\ Notices' \in {Notices, Notices \cup {k}, {}}
<1> DEFINE m == keys[k]
<1>h. m \in Life /\ m <= nset /\ fate[m] = "held"
  BY HeldInMemory
<1>t. /\ subscribed \in BOOLEAN
      /\ buffer \in Seq(Key \X Life) /\ Len(buffer) <= OutputLimit
      /\ Len(buffer) \in Nat /\ OutputLimit \in Nat
  BY RedisAssumption DEF RedisInv, RedisTypeOK
<1>b. \A i \in 1..Len(buffer) : /\ buffer[i][2] \in Life
                                /\ f[buffer[i][2]] = "announced"
                                /\ buffer[i][2] # m
  BY <1>h, BufferIsPast, Zenon
<1>i. \A i, j \in 1..Len(buffer) : buffer[i][2] = buffer[j][2] => i = j
  BY DEF RedisInv, BufferAnnounces
<1> HIDE DEF m
<1>1. CASE /\ fate' = [f EXCEPT ![m] = "unheard"]
           /\ UNCHANGED <<subscribed, buffer, events>>
           /\ ~subscribed => buffer = <<>>
  <2>1. fate' \in [Life -> Fate] /\ fate'[m] = "unheard"
        /\ \A n \in Life : n # m => fate'[n] = f[n]
    BY <1>1, <1>h DEF Fate
  <2>2. BufferAnnounces'
    BY <1>1, <1>b, <1>i, <2>1 DEF BufferAnnounces
  <2>3. Notices' = Notices
    BY <1>1 DEF Notices
  <2> QED
    BY <1>1, <1>t, <2>1, <2>2, <2>3 DEF m
<1>2. CASE Disconnect([f EXCEPT ![m] = "dropped"]) /\ UNCHANGED events
  <2> DEFINE g == [f EXCEPT ![m] = "dropped"]
  <2>1. /\ g \in [Life -> Fate] /\ g[m] = "dropped"
        /\ \A n \in Life : n # m => g[n] = f[n]
    BY <1>h DEF Fate
  <2> HIDE DEF g
  <2>2. /\ subscribed' = FALSE /\ buffer' = <<>> /\ Notices' = {}
        /\ fate' \in [Life -> Fate] /\ BufferAnnounces'
        /\ \A n \in Life : /\ g[n] # "announced" => fate'[n] = g[n]
                           /\ g[n] = "announced" => fate'[n] = "dropped"
    BY <1>2, <2>1, DisconnectEffect, Zenon DEF g
  <2>3. fate'[m] = "dropped"
    BY <1>h, <2>1, <2>2
  <2>4. \A n \in Life : n # m =>
          \/ fate'[n] = f[n]
          \/ f[n] = "announced" /\ fate'[n] = "dropped"
    BY <2>1, <2>2
  <2>5. buffer' \in Seq(Key \X Life) /\ Len(buffer') <= OutputLimit
    BY <2>2, <1>t
  <2> QED
    BY <1>2, <2>2, <2>3, <2>4, <2>5, Zenon DEF m
<1>3. CASE /\ subscribed /\ ~OverLimit
           /\ fate' = [f EXCEPT ![m] = "announced"]
           /\ buffer' = Append(buffer, <<k, m>>)
           /\ UNCHANGED <<subscribed, events>>
  <2>1. fate' \in [Life -> Fate] /\ fate'[m] = "announced"
        /\ \A n \in Life : n # m => fate'[n] = f[n]
    BY <1>3, <1>h DEF Fate
  <2>2. /\ buffer' \in Seq(Key \X Life) /\ Len(buffer') = Len(buffer) + 1
        /\ \A i \in 1..Len(buffer) : buffer'[i] = buffer[i]
        /\ buffer'[Len(buffer) + 1] = <<k, m>>
    BY <1>3, <1>h, <1>t
  <2>3. Len(buffer') <= OutputLimit
    BY <1>3, <1>t, <2>2 DEF OverLimit
  <2>4. \A i \in 1..Len(buffer') : i \in 1..Len(buffer) \/ i = Len(buffer) + 1
    BY <2>2, <1>t
  <2>5. \A i \in 1..Len(buffer') : fate'[buffer'[i][2]] = "announced"
    BY <2>1, <2>2, <2>4, <1>b
  <2>6. \A i, j \in 1..Len(buffer') : buffer'[i][2] = buffer'[j][2] => i = j
    BY <2>2, <2>4, <1>b, <1>i
  <2>7. BufferAnnounces'
    BY <1>3, <2>5, <2>6 DEF BufferAnnounces
  <2>8. Notices' = Notices \cup {k}
    <3>1. \A x : x \in Notices' <=> \E i \in 1..Len(buffer') : x = buffer'[i][1]
      BY DEF Notices
    <3>2. \A x : x \in Notices <=> \E i \in 1..Len(buffer) : x = buffer[i][1]
      BY DEF Notices
    <3>3. \A i \in 1..Len(buffer) : i \in 1..Len(buffer')
      BY <2>2, <1>t
    <3>4. Len(buffer) + 1 \in 1..Len(buffer')
      BY <2>2, <1>t
    <3>5. \A x \in Notices' : x \in Notices \cup {k}
      BY <3>1, <3>2, <2>2, <2>4, SMTT(30)
    <3>6. \A x \in Notices \cup {k} : x \in Notices'
      BY <3>1, <3>2, <2>2, <3>3, <3>4
    <3> QED
      BY <3>5, <3>6
  <2> QED
    BY <1>3, <1>t, <2>1, <2>2, <2>3, <2>7, <2>8 DEF m
<1>4. ~subscribed => buffer = <<>>
  BY DEF RedisInv, BufferAnnounces
<1> QED
  BY <1>1, <1>2, <1>3, <1>4 DEF notify, publish, m
-----------------------------------------------------------------------------
\* The entries of a database with a deadline after t.
Live(db, t) == {<<k, db.keys[k], db.expires[k]>> : k \in {j \in Key : db.expires[j] > t}}

\* Two databases have the same live entries when no key tells them apart.
LEMMA LiveSame ==
  ASSUME NEW a, NEW b, NEW t
  PROVE  Live(a, t) = Live(b, t) <=>
           \A k \in Key : a.expires[k] > t \/ b.expires[k] > t =>
             a.keys[k] = b.keys[k] /\ a.expires[k] = b.expires[k]
<1>a. \A x : x \in Live(a, t) <=> \E k \in Key : /\ a.expires[k] > t
                                                 /\ x = <<k, a.keys[k], a.expires[k]>>
  BY DEF Live
<1>b. \A x : x \in Live(b, t) <=> \E k \in Key : /\ b.expires[k] > t
                                                 /\ x = <<k, b.keys[k], b.expires[k]>>
  BY DEF Live
<1>1. ASSUME Live(a, t) = Live(b, t), NEW k \in Key, a.expires[k] > t
      PROVE  a.keys[k] = b.keys[k] /\ a.expires[k] = b.expires[k]
  <2>1. <<k, a.keys[k], a.expires[k]>> \in Live(b, t)
    BY <1>1, <1>a
  <2>2. PICK j \in Key : <<k, a.keys[k], a.expires[k]>> = <<j, b.keys[j], b.expires[j]>>
    BY <2>1, <1>b
  <2> QED
    BY <2>2
<1>2. ASSUME Live(a, t) = Live(b, t), NEW k \in Key, b.expires[k] > t
      PROVE  a.keys[k] = b.keys[k] /\ a.expires[k] = b.expires[k]
  <2>1. <<k, b.keys[k], b.expires[k]>> \in Live(a, t)
    BY <1>2, <1>b
  <2>2. PICK j \in Key : <<k, b.keys[k], b.expires[k]>> = <<j, a.keys[j], a.expires[j]>>
    BY <2>1, <1>a
  <2> QED
    BY <2>2
<1>3. ASSUME \A k \in Key : a.expires[k] > t \/ b.expires[k] > t =>
               a.keys[k] = b.keys[k] /\ a.expires[k] = b.expires[k]
      PROVE  Live(a, t) = Live(b, t)
  <2>1. \A x : x \in Live(a, t) <=> x \in Live(b, t)
    BY <1>3, <1>a, <1>b
  <2> QED
    BY <2>1, Zenon DEF Live
<1> QED
  BY <1>1, <1>2, <1>3

\* Time takes the same entries from both.
LEMMA LiveLater ==
  ASSUME NEW a \in Image, NEW b \in Image, NEW t \in Nat, NEW u \in Nat, t <= u,
         Live(a, t) = Live(b, t)
  PROVE  Live(a, u) = Live(b, u)
<1>1. \A k \in Key : a.expires[k] > t \/ b.expires[k] > t =>
        a.keys[k] = b.keys[k] /\ a.expires[k] = b.expires[k]
  BY LiveSame
<1>2. \A k \in Key : a.expires[k] \in Nat /\ b.expires[k] \in Nat
  BY RedisAssumption DEF Image
<1>3. \A k \in Key : a.expires[k] > u \/ b.expires[k] > u =>
        a.keys[k] = b.keys[k] /\ a.expires[k] = b.expires[k]
  BY <1>1, <1>2
<1> QED
  BY <1>3, LiveSame

\* What RedisInv says of the types, in the form the proofs use.
LEMMA Types ==
  ASSUME RedisInv
  PROVE  /\ keys \in [Key -> 0..MaxSet] /\ expires \in [Key -> 0..MaxTime]
         /\ rdb.keys \in [Key -> 0..MaxSet] /\ rdb.expires \in [Key -> 0..MaxTime]
         /\ child.db.keys \in [Key -> 0..MaxSet] /\ child.db.expires \in [Key -> 0..MaxTime]
         /\ Memory \in Image /\ rdb \in Image /\ child.db \in Image
         /\ Memory.keys = keys /\ Memory.expires = expires
         /\ now \in Nat /\ downAt \in Nat /\ nset \in Nat /\ dirty \in Nat
         /\ fate \in [Life -> Fate] /\ deadline \in [Life -> 0..MaxTime]
<1>1. Memory \in Image /\ rdb \in Image /\ child.db \in Image
  BY DEF RedisInv, RedisTypeOK
<1>2. /\ now \in Nat /\ downAt \in Nat /\ nset \in Nat /\ dirty \in Nat
      /\ fate \in [Life -> Fate] /\ deadline \in [Life -> 0..MaxTime]
  BY RedisAssumption DEF RedisInv, RedisTypeOK
<1> QED
  BY <1>1, <1>2 DEF Image, Memory

\* The empty database.
LEMMA NoFileType == NoFile \in Image /\ Agree(NoFile)
  BY RedisAssumption DEF NoFile, Image, Agree, Empty

-----------------------------------------------------------------------------
\* The steps of saving: they leave the database, the clients and the history
\* alone, and what they put in the file or in the child is one of the images
\* there are.
LEMMA SaveStepKeeps ==
  ASSUME RedisInv, Up,
         UNCHANGED <<processVars, dbVars, clientVars, historyVars>>,
         dirty' \in Nat, dirty_before_bgsave' \in Nat,
         lastbgsave_status' \in {"ok", "err"},
         child' \in [db : Image, exit : {"none", "running", "ok", "failed", "killed"}],
         rdb' \in {rdb, Memory, child.db},
         child'.db \in {child.db, Memory, NoFile},
         ChildIsBehind',
         dirty' = 0 /\ child'.exit = "none" => Live(Memory, now) = Live(rdb', now)
  PROVE  RedisInv'
<1>u. /\ UNCHANGED <<now, server, downAt, keys, expires, events, subscribed, buffer,
                     nset, fate, deadline>>
      /\ Memory' = Memory /\ Up'
  BY DEF processVars, dbVars, clientVars, historyVars, Memory, Up
<1>1. RedisTypeOK'
  BY <1>u, NoFileType, Zenon DEF RedisInv, RedisTypeOK
<1>2. Owned(Memory)' /\ Owned(rdb)'
  BY <1>u DEF RedisInv, Owned
<1>3. Owned(child.db)'
  <2>1. CASE child'.db = NoFile
    BY <2>1 DEF Owned, NoFile, Empty
  <2>2. CASE child'.db \in {child.db, Memory}
    BY <1>u, <2>2 DEF RedisInv, Owned
  <2> QED
    BY <2>1, <2>2
<1>4. BufferAnnounces' /\ FatesFollow' /\ downAt' <= now'
  BY <1>u DEF RedisInv, BufferAnnounces, FatesFollow, Up
<1>5. DownIsBare' /\ StoppedWithAllSaved'
  BY <1>u DEF DownIsBare, StoppedWithAllSaved, Up
<1>6. CleanMeansSaved'
  BY <1>u DEF CleanMeansSaved, Current, Live
<1> QED
  BY <1>1, <1>2, <1>3, <1>4, <1>5, <1>6 DEF RedisInv

\* The steps of the listener's connection: they leave the database and its
\* copies alone, and end nothing but announcements.
LEMMA ClientStepKeeps ==
  ASSUME RedisInv, Up,
         UNCHANGED <<processVars, dbVars, dirty, saveVars, nset, deadline>>,
         events' \in BOOLEAN, subscribed' \in BOOLEAN,
         buffer' \in Seq(Key \X Life), Len(buffer') <= OutputLimit,
         BufferAnnounces',
         fate' \in [Life -> Fate],
         \A n \in Life : \/ fate'[n] = fate[n]
                         \/ fate[n] = "announced" /\ fate'[n] \in {"handled", "dropped"}
  PROVE  RedisInv'
<1>u. /\ UNCHANGED <<now, server, downAt, keys, expires, dirty, dirty_before_bgsave,
                     lastbgsave_status, child, rdb, nset, deadline>>
      /\ Memory' = Memory /\ Up'
  BY DEF processVars, dbVars, saveVars, Memory, Up
<1>1. RedisTypeOK'
  BY <1>u, Zenon DEF RedisInv, RedisTypeOK, Agree
<1>2. Owned(Memory)' /\ Owned(rdb)' /\ Owned(child.db)'
  BY <1>u DEF RedisInv, Owned
<1>3. FatesFollow' /\ downAt' <= now'
  BY <1>u DEF RedisInv, FatesFollow, Up
<1>4. DownIsBare' /\ StoppedWithAllSaved'
  BY <1>u DEF DownIsBare, StoppedWithAllSaved, Up
<1>5. CleanMeansSaved' /\ ChildIsBehind'
  BY <1>u DEF RedisInv, CleanMeansSaved, ChildIsBehind, Current, Up
<1> QED
  BY <1>1, <1>2, <1>3, <1>4, <1>5 DEF RedisInv

-----------------------------------------------------------------------------
\* deleteExpiredKey ends the SETEX that k held and no other.
LEMMA ExpiryEffect ==
  ASSUME RedisInv, Up, NEW k \in Key, expires[k] # 0, deleteExpiredKey(k)
  PROVE  /\ subscribed' \in BOOLEAN /\ events' = events
         /\ buffer' \in Seq(Key \X Life) /\ Len(buffer') <= OutputLimit
         /\ fate' \in [Life -> Fate]
         /\ fate'[keys[k]] \in {"announced", "dropped", "unheard"}
         /\ \A n \in Life : n # keys[k] =>
              \/ fate'[n] = fate[n]
              \/ fate[n] = "announced" /\ fate'[n] = "dropped"
         /\ BufferAnnounces'
         /\ Notices' \in {Notices, Notices \cup {k}, {}}
<1>1. fate \in [Life -> Fate] /\ notify(k, fate)
  BY Types DEF deleteExpiredKey
<1>2. \A n \in Life : n > nset => fate[n] # "announced"
  BY DEF RedisInv, FatesFollow
<1> QED
  BY <1>1, <1>2, NotifyEffect, Zenon

\* deleteExpiredKey, of a key at or past its deadline.
LEMMA ExpiryKeeps ==
  ASSUME RedisInv, Up, NEW k \in Key, expires[k] # 0, now >= expires[k],
         deleteExpiredKey(k)
  PROVE  RedisInv'
<1>u. /\ keys' = [keys EXCEPT ![k] = 0] /\ expires' = [expires EXCEPT ![k] = 0]
      /\ notify(k, fate)
      /\ UNCHANGED <<now, server, downAt, dirty, dirty_before_bgsave,
                     lastbgsave_status, child, rdb, nset, deadline>>
      /\ Up'
  BY DEF deleteExpiredKey, processVars, saveVars, Up
<1>h. /\ keys[k] \in Life /\ keys[k] <= nset
      /\ fate[keys[k]] = "held" /\ deadline[keys[k]] = expires[k]
  BY HeldInMemory
<1>f. nset \in Nat /\ Life \subseteq Nat
  BY Types, RedisAssumption DEF Life
<1>n. /\ subscribed' \in BOOLEAN /\ events' = events
      /\ buffer' \in Seq(Key \X Life) /\ Len(buffer') <= OutputLimit
      /\ fate' \in [Life -> Fate]
      /\ fate'[keys[k]] \in {"announced", "dropped", "unheard"}
      /\ \A n \in Life : n # keys[k] =>
           \/ fate'[n] = fate[n]
           \/ fate[n] = "announced" /\ fate'[n] = "dropped"
      /\ BufferAnnounces'
  BY ExpiryEffect, Zenon
<1>m. /\ Memory' \in Image /\ Agree(Memory)'
      /\ \A j \in Key : j # k => keys'[j] = keys[j] /\ expires'[j] = expires[j]
      /\ keys'[k] = 0 /\ expires'[k] = 0
  BY <1>u, Types, RedisAssumption DEF Memory, Image, Agree, RedisInv, RedisTypeOK
<1>1. RedisTypeOK'
  BY <1>u, <1>n, <1>m, Zenon DEF RedisInv, RedisTypeOK, Agree
<1>2. Owned(Memory)'
  <2>1. \A j \in Key : keys[j] # 0 =>
          /\ keys[j] <= nset /\ expires[j] = deadline[keys[j]]
          /\ \A i \in Key : keys[i] = keys[j] => i = j
    BY DEF RedisInv, Owned, Memory
  <2> QED
    BY <1>u, <1>m, <2>1 DEF Owned, Memory
<1>3. Owned(rdb)' /\ Owned(child.db)'
  BY <1>u DEF RedisInv, Owned
<1>4. FatesFollow' /\ downAt' <= now'
  <2>1. \A i, j \in Key : keys[i] = keys[j] /\ keys[i] # 0 => i = j
    BY DEF RedisInv, Owned, Memory
  <2>2. \A n \in Life : (\E j \in Key : keys'[j] = n) <=> (n # keys[k] /\ \E j \in Key : keys[j] = n)
    BY <1>m, <1>h, <2>1 DEF Life
  <2>3. downAt' <= now'
    BY <1>u DEF RedisInv
  <2>4. ASSUME NEW n \in Life
        PROVE  /\ n > nset' => fate'[n] = "none"
               /\ fate'[n] = "held" <=> \E j \in Key : keys'[j] = n
               /\ fate'[n] \in Settled => deadline'[n] <= now'
    <3>1. /\ n > nset => fate[n] = "none"
          /\ fate[n] = "held" <=> \E j \in Key : keys[j] = n
          /\ fate[n] \in Settled => deadline[n] <= now
      BY DEF RedisInv, FatesFollow, Settled
    <3>2. CASE n = keys[k]
      <4>1. ~ (n > nset') /\ fate'[n] # "held"
        BY <3>2, <1>u, <1>h, <1>f, <1>n
      <4>2. deadline'[n] <= now'
        BY <3>2, <1>u, <1>h, Types, RedisAssumption
      <4> QED
        BY <3>2, <2>2, <4>1, <4>2
    <3>3. CASE n # keys[k]
      BY <3>1, <3>3, <1>u, <1>n, <2>2 DEF Settled
    <3> QED
      BY <3>2, <3>3
  <2> QED
    BY <1>u, <2>3, <2>4 DEF FatesFollow, Settled
<1>5. DownIsBare' /\ StoppedWithAllSaved'
  BY <1>u DEF DownIsBare, StoppedWithAllSaved, Up
<1>6. CleanMeansSaved' /\ ChildIsBehind'
  <2>1. Live(Memory', now) = Live(Memory, now)
    <3>1. \A j \in Key : Memory'.expires[j] > now \/ Memory.expires[j] > now =>
            Memory'.keys[j] = Memory.keys[j] /\ Memory'.expires[j] = Memory.expires[j]
      BY <1>m, Types, RedisAssumption DEF Memory
    <3> QED
      BY <3>1, LiveSame
  <2>2. Current(Memory)' = Current(Memory) /\ Current(rdb)' = Current(rdb)
        /\ Current(child.db)' = Current(child.db)
    BY <1>u, <2>1 DEF Current, Live
  <2> QED
    BY <1>u, <2>2, Zenon DEF RedisInv, CleanMeansSaved, ChildIsBehind, Up
<1> QED
  BY <1>1, <1>2, <1>3, <1>n, <1>4, <1>5, <1>6 DEF RedisInv

-----------------------------------------------------------------------------
\* A change of the database counts as dirty, so that neither the file nor a
\* child is taken for it.
LEMMA WriteKeepsSaving ==
  ASSUME RedisInv, Up', dirty' = dirty + 1,
         UNCHANGED <<dirty_before_bgsave, child, rdb>>
  PROVE  CleanMeansSaved' /\ ChildIsBehind' /\ DownIsBare'
<1>1. dirty \in Nat /\ dirty' \in Nat /\ dirty' # 0
  BY Types
<1>2. child.exit # "none" => dirty_before_bgsave \in 1..dirty
  BY DEF RedisInv, ChildIsBehind
<1>3. child.exit # "none" => dirty_before_bgsave' \in 1..dirty' /\ dirty_before_bgsave' # dirty'
  BY <1>1, <1>2
<1> QED
  BY <1>1, <1>3 DEF RedisInv, CleanMeansSaved, ChildIsBehind, DownIsBare

\* What SETEX does to the fates: the new one is held, the one it writes over
\* has ended, and the others go on.
LEMMA SetexFates ==
  ASSUME RedisInv, NEW k \in Key, SETEX(k)
  PROVE  /\ subscribed' \in BOOLEAN /\ events' = events
         /\ buffer' \in Seq(Key \X Life) /\ Len(buffer') <= OutputLimit
         /\ fate' \in [Life -> Fate]
         /\ BufferAnnounces'
         /\ nset + 1 \in Life /\ fate'[nset + 1] = "held"
         /\ keys[k] # 0 => /\ keys[k] \in Life /\ keys[k] <= nset
                           /\ fate'[keys[k]] # "held"
                           /\ fate'[keys[k]] \in Settled => deadline[keys[k]] <= now
         /\ \A n \in Life : n # keys[k] /\ n # nset + 1 =>
              \/ fate'[n] = fate[n]
              \/ fate[n] = "announced" /\ fate'[n] = "dropped"
         /\ Notices' \in {Notices, Notices \cup {k}, {}}
         /\ keys[k] = 0 => Notices' = Notices
         /\ \A n \in Life : fate[n] = "held" /\ fate'[n] \in Settled => deadline[n] <= now
<1> DEFINE born == [fate EXCEPT ![nset + 1] = "held"]
<1>t. /\ nset \in Nat /\ nset + 1 \in Life /\ Life \subseteq Nat /\ now \in Nat
      /\ fate \in [Life -> Fate] /\ keys[k] \in Nat /\ expires[k] \in Nat
      /\ keys[k] = 0 <=> expires[k] = 0
  <2>1. nset \in Nat /\ now \in Nat /\ fate \in [Life -> Fate]
        /\ keys[k] \in 0..MaxSet /\ expires[k] \in 0..MaxTime
    BY Types
  <2>2. nset < MaxSet
    BY DEF SETEX
  <2>3. keys[k] = 0 <=> expires[k] = 0
    BY DEF RedisInv, RedisTypeOK, Agree, Memory
  <2> QED
    BY <2>1, <2>2, <2>3, RedisAssumption DEF Life
<1>f. /\ \A n \in Life : n > nset => fate[n] = "none"
      /\ \A n \in Life : fate[n] = "held" => n <= nset
  BY <1>t DEF RedisInv, FatesFollow
<1>b. /\ born \in [Life -> Fate] /\ born[nset + 1] = "held"
      /\ \A n \in Life : n # nset + 1 => born[n] = fate[n]
  BY <1>t DEF Fate
<1>c. /\ \A n \in Life : n <= nset => born[n] = fate[n]
      /\ \A n \in Life : n > nset => born[n] # "announced"
  BY <1>b, <1>f, <1>t
<1>h. keys[k] # 0 => /\ keys[k] \in Life /\ keys[k] <= nset
                     /\ fate[keys[k]] = "held" /\ deadline[keys[k]] = expires[k]
  BY <1>t, HeldInMemory DEF SETEX
<1>s. /\ Up
      /\ IF keyIsExpired(k) THEN notify(k, born)
         ELSE /\ fate' = IF keys[k] = 0 THEN born
                                        ELSE [born EXCEPT ![keys[k]] = "replaced"]
              /\ UNCHANGED clientVars
  BY DEF SETEX
<1> HIDE DEF born
<1>1. CASE keyIsExpired(k)
  <2>1. expires[k] # 0 /\ now > expires[k] /\ keys[k] # 0
    BY <1>1, <1>t DEF keyIsExpired
  <2>2. /\ subscribed' \in BOOLEAN /\ events' = events
        /\ buffer' \in Seq(Key \X Life) /\ Len(buffer') <= OutputLimit
        /\ fate' \in [Life -> Fate]
        /\ fate'[keys[k]] \in {"announced", "dropped", "unheard"}
        /\ \A n \in Life : n # keys[k] =>
             \/ fate'[n] = born[n]
             \/ born[n] = "announced" /\ fate'[n] = "dropped"
        /\ BufferAnnounces'
        /\ Notices' \in {Notices, Notices \cup {k}, {}}
    BY <1>1, <1>s, <1>b, <1>c, <2>1, NotifyEffect, Zenon
  <2>3. keys[k] # nset + 1
    BY <1>h, <2>1, <1>t
  <2>4. fate'[nset + 1] = "held"
    BY <2>2, <2>3, <1>b, <1>t
  <2>5. deadline[keys[k]] <= now
    BY <1>h, <1>t, <2>1
  <2>6. \A n \in Life : n # keys[k] /\ n # nset + 1 =>
          \/ fate'[n] = fate[n]
          \/ fate[n] = "announced" /\ fate'[n] = "dropped"
    BY <2>2, <1>b
  <2>7. \A n \in Life : fate[n] = "held" /\ fate'[n] \in Settled => deadline[n] <= now
    BY <2>4, <2>5, <2>6 DEF Settled
  <2> QED
    BY <1>h, <1>t, <2>1, <2>2, <2>4, <2>5, <2>6, <2>7
<1>2. CASE ~keyIsExpired(k)
  <2>1. /\ UNCHANGED <<subscribed, buffer, events>>
        /\ fate' = IF keys[k] = 0 THEN born
                                  ELSE [born EXCEPT ![keys[k]] = "replaced"]
    BY <1>2, <1>s DEF clientVars
  <2>2. /\ fate' \in [Life -> Fate]
        /\ keys[k] # 0 => fate'[keys[k]] = "replaced"
        /\ \A n \in Life : n # keys[k] => fate'[n] = born[n]
    BY <2>1, <1>b, <1>h DEF Fate
  <2>3. keys[k] # nset + 1
    BY <1>h, <1>t
  <2>4. fate'[nset + 1] = "held"
    BY <2>2, <2>3, <1>b, <1>t
  <2>5. \A n \in Life : n # keys[k] /\ n # nset + 1 => fate'[n] = fate[n]
    BY <2>2, <1>b
  <2>6. BufferAnnounces'
    <3>1. \A i \in 1..Len(buffer) : /\ buffer[i][2] \in Life /\ buffer[i][2] # nset + 1
                                    /\ fate[buffer[i][2]] = "announced"
      BY BufferIsPast, <1>t
    <3>2. \A i \in 1..Len(buffer) : buffer[i][2] # keys[k]
      <4>1. keys[k] \notin Life \/ fate[keys[k]] = "held"
        BY <1>h, RedisAssumption DEF Life
      <4> QED
        BY <3>1, <4>1
    <3>3. \A i \in 1..Len(buffer) : fate'[buffer[i][2]] = "announced"
      BY <3>1, <3>2, <2>5
    <3> QED
      BY <2>1, <3>3 DEF BufferAnnounces, RedisInv
  <2>7. Notices' = Notices
    BY <2>1 DEF Notices
  <2>8. /\ subscribed \in BOOLEAN /\ buffer \in Seq(Key \X Life) /\ Len(buffer) <= OutputLimit
    BY DEF RedisInv, RedisTypeOK
  <2>9. \A n \in Life : fate[n] = "held" => fate'[n] \notin Settled
    <3>1. \A n \in Life : n = keys[k] => keys[k] # 0
      BY RedisAssumption DEF Life
    <3> QED
      BY <2>2, <2>4, <2>5, <3>1 DEF Settled
  <2>10. keys[k] # 0 => fate'[keys[k]] \notin Settled /\ fate'[keys[k]] # "held"
    BY <2>2 DEF Settled
  <2> QED
    BY <1>h, <1>t, <2>1, <2>2, <2>4, <2>5, <2>6, <2>7, <2>8, <2>9, <2>10
<1> QED
  BY <1>1, <1>2

\* SETEX: the new life of the key is in memory and in the history at once.
LEMMA SetexKeeps ==
  ASSUME RedisInv, NEW k \in Key, SETEX(k)
  PROVE  RedisInv'
<1> DEFINE n1 == nset + 1
<1>u. /\ Up /\ nset < MaxSet /\ now + Lifetime <= MaxTime
      /\ keys' = [keys EXCEPT ![k] = n1]
      /\ expires' = [expires EXCEPT ![k] = now + Lifetime]
      /\ deadline' = [deadline EXCEPT ![n1] = now + Lifetime]
      /\ nset' = n1 /\ dirty' = dirty + 1
      /\ UNCHANGED <<now, server, downAt, dirty_before_bgsave, lastbgsave_status,
                     child, rdb>>
      /\ Up'
  BY DEF SETEX, NewExpire, processVars, saveVars, Up
<1>f. /\ subscribed' \in BOOLEAN /\ events' = events
      /\ buffer' \in Seq(Key \X Life) /\ Len(buffer') <= OutputLimit
      /\ fate' \in [Life -> Fate]
      /\ BufferAnnounces'
      /\ n1 \in Life /\ fate'[n1] = "held"
      /\ keys[k] # 0 => /\ keys[k] \in Life /\ keys[k] <= nset
                        /\ fate'[keys[k]] # "held"
                        /\ fate'[keys[k]] \in Settled => deadline[keys[k]] <= now
      /\ \A n \in Life : n # keys[k] /\ n # n1 =>
           \/ fate'[n] = fate[n]
           \/ fate[n] = "announced" /\ fate'[n] = "dropped"
  BY SetexFates, Zenon
<1>t. /\ nset \in Nat /\ n1 \in 1..MaxSet /\ n1 > nset /\ Life \subseteq Nat
      /\ now \in Nat /\ now + Lifetime \in 1..MaxTime
  <2>1. nset \in Nat /\ now \in Nat
    BY Types
  <2> QED
    BY <1>u, <2>1, RedisAssumption DEF Life
<1> HIDE DEF n1
<1>m. /\ Memory' \in Image /\ Agree(Memory)'
      /\ \A j \in Key : j # k => keys'[j] = keys[j] /\ expires'[j] = expires[j]
      /\ keys'[k] = n1 /\ expires'[k] = now + Lifetime
  <2>1. keys \in [Key -> 0..MaxSet] /\ expires \in [Key -> 0..MaxTime]
    BY Types
  <2>2. /\ keys' \in [Key -> 0..MaxSet] /\ expires' \in [Key -> 0..MaxTime]
        /\ \A j \in Key : j # k => keys'[j] = keys[j] /\ expires'[j] = expires[j]
        /\ keys'[k] = n1 /\ expires'[k] = now + Lifetime
        /\ n1 # 0 /\ now + Lifetime # 0
    BY <1>u, <1>t, <2>1, RedisAssumption
  <2>3. \A j \in Key : keys[j] = 0 <=> expires[j] = 0
    BY DEF RedisInv, RedisTypeOK, Agree, Memory
  <2> QED
    BY <2>2, <2>3 DEF Memory, Image, Agree
<1>d. /\ deadline' \in [Life -> 0..MaxTime] /\ deadline'[n1] = now + Lifetime
      /\ \A n \in Life : n # n1 => deadline'[n] = deadline[n]
  BY <1>u, <1>t, Types DEF Life
<1>1. RedisTypeOK'
  <2>1. dirty' \in Nat /\ nset' \in 0..MaxSet
    BY <1>u, <1>t, Types
  <2> QED
    BY <1>u, <1>f, <1>m, <1>d, <2>1, Zenon DEF RedisInv, RedisTypeOK, Agree
<1>o. ASSUME NEW db \in {Memory, rdb, child.db}, NEW j \in Key, db.keys[j] # 0
      PROVE  /\ db.keys[j] \in Life /\ db.keys[j] <= nset' /\ db.keys[j] # n1
             /\ db.expires[j] = deadline'[db.keys[j]]
             /\ \A i \in Key : db.keys[i] = db.keys[j] => i = j
  <2>1. /\ db.keys[j] <= nset /\ db.expires[j] = deadline[db.keys[j]]
        /\ \A i \in Key : db.keys[i] = db.keys[j] => i = j
    BY <1>o DEF RedisInv, Owned
  <2>2. db.keys[j] \in 0..MaxSet
    BY <1>o, Types
  <2>3. db.keys[j] \in Life /\ db.keys[j] \in Nat
    BY <1>o, <2>2, RedisAssumption DEF Life
  <2>4. db.keys[j] # n1 /\ db.keys[j] <= nset'
    BY <2>1, <2>3, <1>t, <1>u
  <2> QED
    BY <2>1, <2>3, <2>4, <1>d
<1>2. Owned(rdb)' /\ Owned(child.db)'
  BY <1>u, <1>o DEF Owned
<1>3. Owned(Memory)'
  <2>1. \A j \in Key : keys[j] # 0 =>
          /\ keys[j] \in Life /\ keys[j] <= nset' /\ keys[j] # n1
          /\ expires[j] = deadline'[keys[j]]
          /\ \A i \in Key : keys[i] = keys[j] => i = j
    BY <1>o DEF Memory
  <2>2. n1 <= nset'
    BY <1>u, <1>t
  <2>3. ASSUME NEW j \in Key, keys'[j] # 0
        PROVE  /\ keys'[j] <= nset' /\ expires'[j] = deadline'[keys'[j]]
               /\ \A i \in Key : keys'[i] = keys'[j] => i = j
    <3>1. CASE j = k
      BY <3>1, <2>1, <2>2, <1>m, <1>d, <1>t
    <3>2. CASE j # k
      BY <3>2, <2>1, <2>3, <1>m
    <3> QED
      BY <3>1, <3>2
  <2> QED
    BY <2>3 DEF Owned, Memory
<1>4. FatesFollow' /\ downAt' <= now'
  <2>1. \A i, j \in Key : keys[i] = keys[j] /\ keys[i] # 0 => i = j
    BY DEF RedisInv, Owned, Memory
  <2>o. \A j \in Key : keys[j] # n1
    BY <1>o, <1>t DEF Memory
  <2>2. \A n \in Life : (\E j \in Key : keys'[j] = n) <=>
                          n = n1 \/ (n # keys[k] /\ \E j \in Key : keys[j] = n)
    <3> TAKE n \in Life
    <3>0. n # 0
      BY RedisAssumption DEF Life
    <3>1. ASSUME NEW j \in Key, keys'[j] = n
          PROVE  n = n1 \/ (n # keys[k] /\ \E i \in Key : keys[i] = n)
      BY <3>0, <3>1, <1>m, <2>1
    <3>2. ASSUME n # keys[k], NEW j \in Key, keys[j] = n
          PROVE  \E i \in Key : keys'[i] = n
      BY <3>2, <1>m
    <3>3. keys'[k] = n1
      BY <1>m
    <3> QED
      BY <3>1, <3>2, <3>3
  <2>3. downAt' <= now'
    BY <1>u DEF RedisInv
  <2>4. ASSUME NEW n \in Life
        PROVE  /\ n > nset' => fate'[n] = "none"
               /\ fate'[n] = "held" <=> \E j \in Key : keys'[j] = n
               /\ fate'[n] \in Settled => deadline'[n] <= now'
    <3>0. n \in Nat /\ n # 0 /\ nset' = nset + 1
      BY RedisAssumption, <1>u DEF Life, n1
    <3>1. /\ n > nset => fate[n] = "none"
          /\ fate[n] = "held" <=> \E j \in Key : keys[j] = n
          /\ fate[n] \in Settled => deadline[n] <= now
      BY <1>u DEF RedisInv, FatesFollow, Settled
    <3>2. CASE n = n1
      BY <3>0, <3>2, <1>f, <1>u, <1>t, <2>2 DEF Settled
    <3>3. CASE n = keys[k]
      <4>1. ~ (n > nset') /\ n # n1
        BY <3>0, <3>3, <1>f, <1>t
      <4>2. fate'[n] # "held" /\ (fate'[n] \in Settled => deadline'[n] <= now')
        BY <3>0, <3>3, <4>1, <1>f, <1>u, <1>d
      <4> QED
        BY <3>3, <4>1, <4>2, <2>2
    <3>4. CASE n # n1 /\ n # keys[k]
      <4>1. n > nset' => n > nset
        BY <3>0, <1>t
      <4>2. \/ fate'[n] = fate[n]
            \/ fate[n] = "announced" /\ fate'[n] = "dropped"
        BY <3>4, <1>f
      <4>3. deadline'[n] = deadline[n] /\ now' = now
        BY <3>4, <1>d, <1>u
      <4> QED
        BY <3>1, <3>4, <4>1, <4>2, <4>3, <2>2 DEF Settled
    <3> QED
      BY <3>2, <3>3, <3>4
  <2> QED
    BY <1>u, <2>3, <2>4 DEF FatesFollow, Settled
<1>5. CleanMeansSaved' /\ ChildIsBehind' /\ DownIsBare'
  BY <1>u, WriteKeepsSaving
<1>6. StoppedWithAllSaved'
  BY <1>u DEF StoppedWithAllSaved, Up
<1> QED
  BY <1>1, <1>2, <1>3, <1>f, <1>4, <1>5, <1>6 DEF RedisInv
-----------------------------------------------------------------------------
\* DEL of a key that has not expired.
LEMMA DelKeeps ==
  ASSUME RedisInv, Up, NEW k \in Key, keys[k] # 0,
         dbSyncDelete(k), dirty' = dirty + 1,
         fate' = [fate EXCEPT ![keys[k]] = "deleted"],
         UNCHANGED <<processVars, clientVars, saveVars, nset, deadline>>
  PROVE  RedisInv'
<1>u. /\ keys' = [keys EXCEPT ![k] = 0] /\ expires' = [expires EXCEPT ![k] = 0]
      /\ UNCHANGED <<now, server, downAt, events, subscribed, buffer,
                     dirty_before_bgsave, lastbgsave_status, child, rdb, nset, deadline>>
      /\ Up'
  BY DEF dbSyncDelete, processVars, clientVars, saveVars, Up
<1>e. expires[k] # 0
  BY DEF RedisInv, RedisTypeOK, Agree, Memory
<1>h. /\ keys[k] \in Life /\ keys[k] <= nset /\ fate[keys[k]] = "held"
  BY <1>e, HeldInMemory
<1>f. /\ fate' \in [Life -> Fate] /\ fate'[keys[k]] = "deleted"
      /\ \A n \in Life : n # keys[k] => fate'[n] = fate[n]
      /\ nset \in Nat /\ Life \subseteq Nat
  <2>1. fate \in [Life -> Fate] /\ nset \in Nat
    BY Types
  <2>2. "deleted" \in Fate
    BY DEF Fate
  <2>3. Life \subseteq Nat
    BY RedisAssumption DEF Life
  <2> HIDE DEF Life, Fate
  <2> QED
    BY <1>h, <2>1, <2>2, <2>3
<1>m. /\ Memory' \in Image /\ Agree(Memory)'
      /\ \A j \in Key : j # k => keys'[j] = keys[j] /\ expires'[j] = expires[j]
      /\ keys'[k] = 0 /\ expires'[k] = 0
  BY <1>u, Types, RedisAssumption DEF Memory, Image, Agree, RedisInv, RedisTypeOK
<1>1. RedisTypeOK'
  <2>1. dirty' \in Nat
    BY Types
  <2> QED
    BY <1>u, <1>f, <1>m, <2>1, Zenon DEF RedisInv, RedisTypeOK, Agree
<1>2. Owned(Memory)'
  <2>1. \A j \in Key : keys[j] # 0 =>
          /\ keys[j] <= nset /\ expires[j] = deadline[keys[j]]
          /\ \A i \in Key : keys[i] = keys[j] => i = j
    BY Zenon DEF RedisInv, Owned, Memory
  <2> QED
    BY <1>u, <1>m, <2>1 DEF Owned, Memory
<1>3. Owned(rdb)' /\ Owned(child.db)'
  <2>1. Owned(rdb) /\ Owned(child.db)
    BY DEF RedisInv
  <2>2. rdb' = rdb /\ child' = child /\ nset' = nset /\ deadline' = deadline
    BY <1>u
  <2> QED
    BY <2>1, <2>2 DEF Owned
<1>4. BufferAnnounces'
  <2>1. \A i \in 1..Len(buffer) : fate'[buffer[i][2]] = "announced"
    BY BufferIsPast, <1>h, <1>f
  <2> QED
    BY <1>u, <2>1, Zenon DEF RedisInv, BufferAnnounces
<1>5. FatesFollow' /\ downAt' <= now'
  <2>1. \A i, j \in Key : keys[i] = keys[j] /\ keys[i] # 0 => i = j
    BY DEF RedisInv, Owned, Memory
  <2>2. \A n \in Life : (\E j \in Key : keys'[j] = n) <=> (n # keys[k] /\ \E j \in Key : keys[j] = n)
    BY <1>m, <1>h, <2>1 DEF Life
  <2>3. downAt' <= now'
    BY <1>u DEF RedisInv
  <2>4. ASSUME NEW n \in Life
        PROVE  /\ n > nset' => fate'[n] = "none"
               /\ fate'[n] = "held" <=> \E j \in Key : keys'[j] = n
               /\ fate'[n] \in Settled => deadline'[n] <= now'
    <3>1. /\ n > nset => fate[n] = "none"
          /\ fate[n] = "held" <=> \E j \in Key : keys[j] = n
          /\ fate[n] \in Settled => deadline[n] <= now
      BY DEF RedisInv, FatesFollow, Settled
    <3> QED
      BY <3>1, <1>u, <1>f, <1>h, <2>2 DEF Settled
  <2> QED
    BY <1>u, <2>3, <2>4 DEF FatesFollow, Settled
<1>6. CleanMeansSaved' /\ ChildIsBehind' /\ DownIsBare'
  BY <1>u, WriteKeepsSaving
<1>7. StoppedWithAllSaved'
  BY <1>u DEF StoppedWithAllSaved, Up
<1> QED
  BY <1>1, <1>2, <1>3, <1>4, <1>5, <1>6, <1>7 DEF RedisInv

\* The end of the process, by a shutdown or a crash.
LEMMA ExitKeeps ==
  ASSUME RedisInv, Up, NEW how \in {"stopped", "crashed"}, Exit(how),
         rdb' \in {rdb, Memory, child.db},
         how = "stopped" => rdb' = Memory
  PROVE  RedisInv'
<1>u. /\ now < MaxTime /\ server' = how /\ downAt' = now
      /\ keys' = Empty /\ expires' = Empty /\ events' = FALSE
      /\ Disconnect(fate)
      /\ dirty' = 0 /\ dirty_before_bgsave' = 0 /\ lastbgsave_status' = "ok"
      /\ child' = NoChild
      /\ UNCHANGED <<now, nset, deadline>>
      /\ ~Up' /\ Memory' = NoFile
  BY DEF Exit, Up, Memory, NoFile
<1>t. fate \in [Life -> Fate]
  BY Types
<1>f. /\ subscribed' = FALSE /\ buffer' = <<>> /\ BufferAnnounces'
      /\ fate' \in [Life -> Fate]
      /\ \A n \in Life : /\ fate[n] # "announced" => fate'[n] = fate[n]
                         /\ fate[n] = "announced" => fate'[n] = "dropped"
  BY <1>u, <1>t, DisconnectEffect, Zenon
<1>1. RedisTypeOK'
  <2>1. rdb' \in Image /\ Agree(rdb)'
    BY DEF RedisInv, RedisTypeOK, Agree
  <2>2. now' \in 1..MaxTime /\ downAt' \in 0..MaxTime /\ nset' \in 0..MaxSet
        /\ deadline' \in [Life -> 0..MaxTime]
    BY <1>u, RedisAssumption DEF RedisInv, RedisTypeOK
  <2>3. /\ child' \in [db : Image, exit : {"none", "running", "ok", "failed", "killed"}]
        /\ Agree(child.db)' /\ Memory' \in Image /\ Agree(Memory)'
    BY <1>u, NoFileType DEF NoChild, Agree
  <2>4. buffer' \in Seq(Key \X Life) /\ Len(buffer') <= OutputLimit
    BY <1>f, RedisAssumption
  <2> QED
    BY <1>u, <1>f, <2>1, <2>2, <2>3, <2>4, Zenon DEF RedisTypeOK
<1>2. Owned(Memory)' /\ Owned(child.db)'
  BY <1>u DEF Owned, NoChild, NoFile, Empty
<1>3. Owned(rdb)'
  BY <1>u DEF RedisInv, Owned
<1>4. FatesFollow' /\ downAt' <= now'
  <2>1. now \in Nat
    BY Types
  <2>2. \A n \in Life : /\ n > nset => fate[n] = "none"
                        /\ fate[n] \in Settled => deadline[n] <= now
    BY DEF RedisInv, FatesFollow, Settled
  <2> QED
    BY <1>u, <1>f, <2>1, <2>2 DEF FatesFollow, Settled
<1>5. DownIsBare' /\ ChildIsBehind' /\ CleanMeansSaved'
  BY <1>u, <1>f DEF DownIsBare, ChildIsBehind, CleanMeansSaved, NoChild
<1>6. StoppedWithAllSaved'
  <2> SUFFICES ASSUME server' = "stopped"
               PROVE  {n \in Life : fate'[n] = "held"} = {rdb'.keys[k] : k \in Key} \ {0}
    BY DEF StoppedWithAllSaved
  <2>1. rdb'.keys = keys
    BY <1>u, Types
  <2>2. \A n \in Life : fate'[n] = "held" <=> \E k \in Key : keys[k] = n
    BY <1>f DEF RedisInv, FatesFollow
  <2>3. \A k \in Key : keys[k] # 0 => keys[k] \in Life
    BY Types, RedisAssumption DEF Life
  <2>4. 0 \notin Life
    BY RedisAssumption DEF Life
  <2> QED
    BY <2>1, <2>2, <2>3, <2>4
<1> QED
  BY <1>1, <1>2, <1>3, <1>f, <1>4, <1>5, <1>6 DEF RedisInv

\* Loading dump.rdb.
LEMMA RestartKeeps ==
  ASSUME RedisInv, Restart
  PROVE  RedisInv'
<1> DEFINE loaded == {rdb.keys[k] : k \in {j \in Key : Loads(j)}}
           saved == {rdb.keys[k] : k \in Key}
<1>u. /\ ~Up /\ now > downAt /\ server' = "up" /\ Up'
      /\ keys' = [k \in Key |-> IF Loads(k) THEN rdb.keys[k] ELSE 0]
      /\ expires' = [k \in Key |-> IF Loads(k) THEN rdb.expires[k] ELSE 0]
      /\ fate' = [n \in Life |->
                    IF n \in loaded THEN "held"
                    ELSE IF fate[n] # "held" THEN fate[n]
                    ELSE IF n \in saved THEN "lapsed" ELSE "lost"]
      /\ UNCHANGED <<now, downAt, events, subscribed, buffer, dirty,
                     dirty_before_bgsave, lastbgsave_status, child, rdb, nset, deadline>>
  BY DEF Restart, LoadedExpire, clientVars, saveVars, Up
<1>f. /\ fate' \in [Life -> Fate]
      /\ \A n \in Life : /\ n \in loaded => fate'[n] = "held"
                         /\ n \notin loaded /\ fate[n] # "held" => fate'[n] = fate[n]
                         /\ n \notin loaded /\ fate[n] = "held" =>
                              fate'[n] \in {"lapsed", "lost"}
  BY <1>u, Types DEF Fate
<1>l. \A n : n \in loaded <=> \E k \in Key : Loads(k) /\ rdb.keys[k] = n
  OBVIOUS
<1> HIDE DEF loaded, saved
<1>m. /\ Memory' \in Image /\ Agree(Memory)'
      /\ Memory'.keys = keys' /\ Memory'.expires = expires'
      /\ \A k \in Key : /\ Loads(k) => keys'[k] = rdb.keys[k] /\ expires'[k] = rdb.expires[k]
                        /\ ~Loads(k) => keys'[k] = 0 /\ expires'[k] = 0
  <2>1. \A k \in Key : rdb.keys[k] = 0 <=> rdb.expires[k] = 0
    BY DEF RedisInv, RedisTypeOK, Agree
  <2>2. \A k \in Key : /\ Loads(k) => keys'[k] = rdb.keys[k] /\ expires'[k] = rdb.expires[k]
                       /\ ~Loads(k) => keys'[k] = 0 /\ expires'[k] = 0
    BY <1>u
  <2>3. keys' \in [Key -> 0..MaxSet] /\ expires' \in [Key -> 0..MaxTime]
    BY <1>u, Types, RedisAssumption
  <2> QED
    BY <2>1, <2>2, <2>3 DEF Memory, Image, Agree
<1>b. ~subscribed /\ buffer = <<>> /\ dirty = 0 /\ child = NoChild
  BY <1>u DEF RedisInv, DownIsBare, BufferAnnounces
<1>1. RedisTypeOK'
  BY <1>u, <1>f, <1>m, Zenon DEF RedisInv, RedisTypeOK, Agree
<1>2. Owned(rdb)' /\ Owned(child.db)'
  BY <1>u DEF RedisInv, Owned
<1>3. Owned(Memory)'
  <2>1. \A k \in Key : rdb.keys[k] # 0 =>
          /\ rdb.keys[k] <= nset /\ rdb.expires[k] = deadline[rdb.keys[k]]
          /\ \A j \in Key : rdb.keys[j] = rdb.keys[k] => j = k
    BY DEF RedisInv, Owned
  <2>2. ASSUME NEW k \in Key, keys'[k] # 0
        PROVE  /\ keys'[k] <= nset' /\ expires'[k] = deadline'[keys'[k]]
               /\ \A j \in Key : keys'[j] = keys'[k] => j = k
    <3>1. Loads(k) /\ keys'[k] = rdb.keys[k] /\ expires'[k] = rdb.expires[k]
      BY <1>m, <2>2
    <3>2. \A j \in Key : keys'[j] = keys'[k] => rdb.keys[j] = rdb.keys[k]
      BY <1>m, <2>2, <3>1
    <3> QED
      BY <1>u, <2>1, <2>2, <3>1, <3>2
  <2> QED
    BY <1>m, <2>2 DEF Owned
<1>4. BufferAnnounces'
  <2>1. Len(buffer') = 0 /\ buffer' = <<>>
    BY <1>u, <1>b
  <2> QED
    BY <2>1, SMTT(30) DEF BufferAnnounces
<1>5. FatesFollow' /\ downAt' <= now'
  <2>1. downAt' <= now'
    BY <1>u DEF RedisInv
  <2>2. \A n \in Life : n \in loaded => n <= nset
    BY <1>l DEF RedisInv, Owned, Loads
  <2>3. \A n \in Life : n \in loaded <=> \E k \in Key : keys'[k] = n
    <3>1. 0 \notin Life
      BY RedisAssumption DEF Life
    <3> QED
      BY <1>l, <1>m, <3>1
  <2>4. \A n \in Life : n \in Nat /\ nset \in Nat
    BY Types, RedisAssumption DEF Life
  <2>5. ASSUME NEW n \in Life
        PROVE  /\ n > nset' => fate'[n] = "none"
               /\ fate'[n] = "held" <=> \E j \in Key : keys'[j] = n
               /\ fate'[n] \in Settled => deadline'[n] <= now'
    <3>1. /\ n > nset => fate[n] = "none"
          /\ fate[n] \in Settled => deadline[n] <= now
      BY DEF RedisInv, FatesFollow, Settled
    <3>2. CASE n \in loaded
      BY <3>2, <1>u, <1>f, <2>2, <2>3, <2>4 DEF Settled
    <3>3. CASE n \notin loaded
      BY <3>1, <3>3, <1>u, <1>f, <2>3 DEF Settled
    <3> QED
      BY <3>2, <3>3
  <2> QED
    BY <1>u, <2>1, <2>5 DEF FatesFollow, Settled
<1>6. DownIsBare' /\ ChildIsBehind' /\ StoppedWithAllSaved'
  BY <1>u, <1>b DEF DownIsBare, ChildIsBehind, StoppedWithAllSaved, NoChild
<1>7. CleanMeansSaved'
  <2>1. \A k \in Key : rdb.keys[k] = 0 <=> rdb.expires[k] = 0
    BY DEF RedisInv, RedisTypeOK, Agree
  <2>2. \A k \in Key : Memory'.expires[k] > now \/ rdb.expires[k] > now =>
          Memory'.keys[k] = rdb.keys[k] /\ Memory'.expires[k] = rdb.expires[k]
    BY <1>m, <2>1, Types, RedisAssumption DEF Loads
  <2>3. Live(Memory', now) = Live(rdb, now)
    BY <2>2, LiveSame
  <2> QED
    BY <1>u, <2>3 DEF CleanMeansSaved, Current, Live
<1> QED
  BY <1>1, <1>2, <1>3, <1>4, <1>5, <1>6, <1>7 DEF RedisInv

\* The clock.
LEMMA TickKeeps ==
  ASSUME RedisInv, Tick
  PROVE  RedisInv'
<1>u. /\ now < MaxTime /\ now' = now + 1
      /\ UNCHANGED <<server, downAt, keys, expires, events, subscribed, buffer, dirty,
                     dirty_before_bgsave, lastbgsave_status, child, rdb, nset, fate, deadline>>
      /\ Memory' = Memory /\ Up' = Up
  BY DEF Tick, dbVars, clientVars, saveVars, historyVars, Memory, Up
<1>t. now \in Nat /\ now' \in Nat /\ now <= now' /\ now' \in 1..MaxTime /\ downAt \in Nat
  BY <1>u, Types, RedisAssumption
<1>1. RedisTypeOK'
  BY <1>u, <1>t, Zenon DEF RedisInv, RedisTypeOK, Agree
<1>2. Owned(Memory)' /\ Owned(rdb)' /\ Owned(child.db)' /\ BufferAnnounces'
  <2>1. Owned(Memory) /\ Owned(rdb) /\ Owned(child.db) /\ BufferAnnounces
    BY DEF RedisInv
  <2>2. Owned(Memory)'
    BY <1>u, <2>1, Zenon DEF Owned
  <2>3. Owned(rdb)'
    BY <1>u, <2>1, Zenon DEF Owned
  <2>4. Owned(child.db)'
    BY <1>u, <2>1, Zenon DEF Owned
  <2>5. BufferAnnounces'
    BY <1>u, <2>1, Zenon DEF BufferAnnounces
  <2> QED
    BY <2>2, <2>3, <2>4, <2>5
<1>3. FatesFollow' /\ downAt' <= now'
  <2>1. downAt' <= now'
    BY <1>u, <1>t DEF RedisInv
  <2>2. \A n \in Life : deadline[n] \in Nat
    BY Types, RedisAssumption
  <2> QED
    BY <1>u, <1>t, <2>1, <2>2 DEF RedisInv, FatesFollow
<1>4. DownIsBare' /\ StoppedWithAllSaved'
  BY <1>u DEF RedisInv, DownIsBare, StoppedWithAllSaved
<1>5. /\ Live(Memory, now) = Live(rdb, now) => Live(Memory, now') = Live(rdb, now')
      /\ Live(child.db, now) = Live(Memory, now) => Live(child.db, now') = Live(Memory, now')
  BY <1>t, LiveLater, Types
<1>6. CleanMeansSaved' /\ ChildIsBehind'
  <2>1. /\ Current(Memory) = Live(Memory, now) /\ Current(Memory)' = Live(Memory, now')
        /\ Current(rdb) = Live(rdb, now) /\ Current(rdb)' = Live(rdb, now')
        /\ Current(child.db) = Live(child.db, now) /\ Current(child.db)' = Live(child.db, now')
    BY <1>u DEF Current, Live
  <2> QED
    BY <1>u, <1>5, <2>1, Zenon DEF RedisInv, CleanMeansSaved, ChildIsBehind
<1> QED
  BY <1>1, <1>2, <1>3, <1>4, <1>6 DEF RedisInv

-----------------------------------------------------------------------------
\* What the listener reads is the oldest message; the rest stay as they are.
LEMMA ListenerReadsEffect ==
  ASSUME RedisInv, ListenerReads
  PROVE  /\ buffer' \in Seq(Key \X Life) /\ Len(buffer') <= OutputLimit
         /\ fate' \in [Life -> Fate] /\ BufferAnnounces'
         /\ \A n \in Life : \/ fate'[n] = fate[n]
                            \/ fate[n] = "announced" /\ fate'[n] = "handled"
         /\ buffer[1][1] \in Key /\ buffer[1][1] \in Notices
         /\ Notices' \in {Notices, Notices \ {buffer[1][1]}}
<1>u. /\ buffer # <<>> /\ buffer' = Tail(buffer)
      /\ fate' = [fate EXCEPT ![Head(buffer)[2]] = "handled"]
      /\ UNCHANGED subscribed
  BY DEF ListenerReads
<1>t. buffer \in Seq(Key \X Life) /\ Len(buffer) <= OutputLimit /\ fate \in [Life -> Fate]
      /\ OutputLimit \in Nat
  BY RedisAssumption DEF RedisInv, RedisTypeOK
<1>s. /\ Len(buffer) \in Nat /\ Len(buffer) >= 1 /\ 1 \in 1..Len(buffer)
      /\ buffer' \in Seq(Key \X Life) /\ Len(buffer') = Len(buffer) - 1
      /\ \A i \in 1..Len(buffer') : i + 1 \in 1..Len(buffer) /\ buffer'[i] = buffer[i + 1]
      /\ Head(buffer) = buffer[1]
  BY <1>u, <1>t
<1>b. \A i \in 1..Len(buffer) : /\ buffer[i][1] \in Key /\ buffer[i][2] \in Life
                                /\ fate[buffer[i][2]] = "announced"
  BY BufferIsPast
<1>i. \A i, j \in 1..Len(buffer) : buffer[i][2] = buffer[j][2] => i = j
  BY DEF RedisInv, BufferAnnounces
<1>f. /\ fate' \in [Life -> Fate] /\ fate'[buffer[1][2]] = "handled"
      /\ \A n \in Life : n # buffer[1][2] => fate'[n] = fate[n]
  BY <1>u, <1>t, <1>s, <1>b DEF Fate
<1>1. BufferAnnounces'
  <2>1. \A i \in 1..Len(buffer') : buffer'[i][2] # buffer[1][2]
    BY <1>s, <1>i
  <2>2. \A i \in 1..Len(buffer') : fate'[buffer'[i][2]] = "announced"
    <3> TAKE i \in 1..Len(buffer')
    <3>1. buffer'[i][2] \in Life /\ fate[buffer'[i][2]] = "announced"
      BY <1>s, <1>b
    <3> QED
      BY <2>1, <3>1, <1>f
  <2>3. \A i, j \in 1..Len(buffer') : buffer'[i][2] = buffer'[j][2] => i = j
    <3> TAKE i, j \in 1..Len(buffer')
    <3> HAVE buffer'[i][2] = buffer'[j][2]
    <3>1. i + 1 = j + 1
      BY <1>s, <1>i
    <3> QED
      BY <3>1
  <2>4. ~subscribed => buffer = <<>>
    BY DEF RedisInv, BufferAnnounces
  <2> QED
    BY <1>u, <2>2, <2>3, <2>4 DEF BufferAnnounces
<1>2. Len(buffer') <= OutputLimit
  BY <1>s, <1>t
<1>3. buffer[1][1] \in Notices /\ Notices' \in {Notices, Notices \ {buffer[1][1]}}
  <2>1. \A x : x \in Notices <=> \E i \in 1..Len(buffer) : x = buffer[i][1]
    BY DEF Notices
  <2>2. \A x : x \in Notices' <=> \E i \in 1..Len(buffer') : x = buffer'[i][1]
    BY DEF Notices
  <2>3. \A i \in 1..Len(buffer) : i = 1 \/ (i - 1 \in 1..Len(buffer') /\ buffer'[i - 1] = buffer[i])
    BY <1>s
  <2>4. \A x \in Notices' : x \in Notices
    BY <1>s, <2>1, <2>2
  <2>5. \A x \in Notices : x = buffer[1][1] \/ x \in Notices'
    BY <2>1, <2>2, <2>3
  <2>6. buffer[1][1] \in Notices
    BY <1>s, <2>1
  <2> QED
    BY <2>4, <2>5, <2>6
<1> QED
  BY <1>s, <1>b, <1>f, <1>1, <1>2, <1>3

\* The steps of the listener and of deploy.bat.
LEMMA ClientKeeps ==
  ASSUME RedisInv, psubscribe \/ ListenerReads \/ freeClient \/ Deploy
  PROVE  RedisInv'
<1>t. /\ events \in BOOLEAN /\ subscribed \in BOOLEAN /\ buffer \in Seq(Key \X Life)
      /\ Len(buffer) <= OutputLimit /\ fate \in [Life -> Fate] /\ OutputLimit \in Nat
  BY RedisAssumption DEF RedisInv, RedisTypeOK
<1>1. CASE psubscribe
  <2>1. BufferAnnounces'
    BY <1>1 DEF psubscribe, historyVars, RedisInv, BufferAnnounces
  <2> QED
    BY <1>1, <1>t, <2>1, ClientStepKeeps DEF psubscribe, historyVars
<1>2. CASE ListenerReads
  BY <1>2, <1>t, ListenerReadsEffect, ClientStepKeeps DEF ListenerReads
<1>3. CASE freeClient \/ Deploy
  <2>1. /\ Disconnect(fate) /\ Up /\ events' \in BOOLEAN
        /\ UNCHANGED <<processVars, dbVars, dirty, saveVars, nset, deadline>>
    BY <1>3, <1>t, Zenon DEF freeClient, Deploy
  <2>2. /\ subscribed' = FALSE /\ buffer' = <<>> /\ BufferAnnounces'
        /\ fate' \in [Life -> Fate]
        /\ \A n \in Life : /\ fate[n] # "announced" => fate'[n] = fate[n]
                           /\ fate[n] = "announced" => fate'[n] = "dropped"
    BY <2>1, <1>t, DisconnectEffect, Zenon
  <2>3. buffer' \in Seq(Key \X Life) /\ Len(buffer') <= OutputLimit
    BY <2>2, <1>t
  <2> QED
    BY <2>1, <2>2, <2>3, ClientStepKeeps, Zenon
<1> QED
  BY <1>1, <1>2, <1>3

\* The steps of a BGSAVE and of a shutdown that is cancelled.
LEMMA SaveKeeps ==
  ASSUME RedisInv,
         \/ rdbSaveBackground \/ ForkFails \/ ChildSaves \/ ChildFails
         \/ \E exit \in {"ok", "failed", "killed"} : backgroundSaveDone(exit)
         \/ cancelShutdown
  PROVE  RedisInv'
<1> DEFINE Child == [db : Image, exit : {"none", "running", "ok", "failed", "killed"}]
<1>t. /\ dirty \in Nat /\ dirty_before_bgsave \in Nat /\ lastbgsave_status \in {"ok", "err"}
      /\ child \in Child /\ Memory \in Image /\ rdb \in Image /\ NoChild \in Child
  BY NoFileType DEF RedisInv, RedisTypeOK, NoChild
<1>b. /\ child.exit # "none" => dirty_before_bgsave \in 1..dirty
      /\ child.exit \in {"running", "ok"} /\ dirty = dirty_before_bgsave =>
           Live(child.db, now) = Live(Memory, now)
      /\ child.exit = "ok" => rdb = child.db
  BY DEF RedisInv, ChildIsBehind, Current, Live
<1>c. Up /\ dirty = 0 /\ child.exit = "none" => Live(Memory, now) = Live(rdb, now)
  BY DEF RedisInv, CleanMeansSaved, Current, Live
<1>p. ASSUME UNCHANGED <<processVars, dbVars>>
      PROVE  /\ Memory' = Memory /\ now' = now /\ Current(child.db)' = Live(child'.db, now)
             /\ Current(Memory)' = Live(Memory, now)
  BY <1>p DEF processVars, dbVars, Memory, Current, Live
<1>1. CASE rdbSaveBackground
  <2>1. /\ Up /\ child.exit = "none" /\ dirty >= 1
        /\ dirty_before_bgsave' = dirty /\ child' = [db |-> Memory, exit |-> "running"]
        /\ UNCHANGED <<processVars, dbVars, clientVars, historyVars, dirty, lastbgsave_status, rdb>>
    BY <1>1 DEF rdbSaveBackground, SavePoint
  <2>2. ChildIsBehind'
    BY <1>t, <1>p, <2>1 DEF ChildIsBehind
  <2> QED
    BY <1>t, <2>1, <2>2, SaveStepKeeps
<1>2. CASE ForkFails
  <2>1. /\ Up /\ child.exit = "none" /\ dirty >= 1
        /\ dirty_before_bgsave' = dirty /\ lastbgsave_status' = "err"
        /\ UNCHANGED <<processVars, dbVars, clientVars, historyVars, dirty, child, rdb>>
    BY <1>2 DEF ForkFails, SavePoint
  <2>2. ChildIsBehind'
    BY <2>1 DEF ChildIsBehind
  <2> QED
    BY <1>t, <1>c, <2>1, <2>2, SaveStepKeeps
<1>3. CASE ChildSaves \/ ChildFails
  <2>1. PICK e \in {"ok", "failed"} :
          /\ Up /\ child.exit = "running" /\ child' = [child EXCEPT !.exit = e]
          /\ rdb' \in {rdb, child.db} /\ (e = "ok" => rdb' = child.db)
          /\ UNCHANGED <<processVars, dbVars, clientVars, historyVars, dirty,
                         dirty_before_bgsave, lastbgsave_status>>
    BY <1>3, Zenon DEF ChildSaves, ChildFails
  <2>2. child' \in Child /\ child'.db = child.db /\ child'.exit = e
    BY <2>1, <1>t
  <2>3. ChildIsBehind'
    BY <1>b, <1>p, <2>1, <2>2 DEF ChildIsBehind
  <2> QED
    BY <1>t, <2>1, <2>2, <2>3, SaveStepKeeps
<1>4. ASSUME NEW exit \in {"ok", "failed", "killed"}, backgroundSaveDone(exit)
      PROVE  RedisInv'
  <2>1. /\ Up /\ child.exit = exit /\ child' = NoChild
        /\ dirty' = IF exit = "ok" THEN dirty - dirty_before_bgsave ELSE dirty
        /\ UNCHANGED <<processVars, dbVars, clientVars, historyVars, dirty_before_bgsave, rdb>>
    BY <1>4 DEF backgroundSaveDone, StillDirty
  <2>2. lastbgsave_status' \in {"ok", "err"}
    BY <1>4, <1>t DEF backgroundSaveDone
  <2>3. dirty' \in Nat
    BY <1>t, <1>b, <2>1
  <2>4. ChildIsBehind' /\ child'.db = NoFile
    BY <2>1 DEF ChildIsBehind, NoChild
  <2>5. dirty' = 0 => Live(Memory, now) = Live(rdb, now)
    BY <1>t, <1>b, <2>1
  <2> QED
    BY <1>t, <2>1, <2>2, <2>3, <2>4, <2>5, SaveStepKeeps
<1>5. CASE cancelShutdown
  <2>1. /\ Up /\ rdb' \in {rdb, Memory, child.db}
        /\ child.exit = "none" => rdb' \in {rdb, Memory} /\ child' = child
        /\ child.exit # "none" => child' = [child EXCEPT !.exit = "killed"]
        /\ UNCHANGED <<processVars, dbVars, clientVars, historyVars, dirty,
                       dirty_before_bgsave, lastbgsave_status>>
    BY <1>5 DEF cancelShutdown, ChildFile
  <2>2. child' \in Child /\ child'.db = child.db /\ child'.exit \in {"none", "killed"}
        /\ (child'.exit = "none" <=> child.exit = "none")
    BY <2>1, <1>t
  <2>3. ChildIsBehind'
    BY <1>b, <1>p, <2>1, <2>2 DEF ChildIsBehind
  <2>4. dirty' = 0 /\ child'.exit = "none" => Live(Memory, now) = Live(rdb', now)
    BY <1>c, <2>1, <2>2
  <2> QED
    BY <1>t, <2>1, <2>2, <2>3, <2>4, SaveStepKeeps
<1> QED
  BY <1>1, <1>2, <1>3, <1>4, <1>5

\* RedisInv holds after a deployment.
LEMMA InitRedisInv == Init => RedisInv
<1> SUFFICES ASSUME Init PROVE RedisInv
  OBVIOUS
<1>1. RedisTypeOK
  <2>1. Memory = NoFile /\ rdb = NoFile /\ child = NoChild /\ child.db = NoFile
    BY DEF Init, Memory, NoFile, NoChild
  <2>2. /\ Memory \in Image /\ rdb \in Image /\ Agree(Memory) /\ Agree(rdb) /\ Agree(child.db)
        /\ child \in [db : Image, exit : {"none", "running", "ok", "failed", "killed"}]
    BY <2>1, NoFileType DEF NoChild
  <2>3. fate \in [Life -> Fate] /\ deadline \in [Life -> 0..MaxTime]
    BY RedisAssumption DEF Init, Fate
  <2>4. buffer \in Seq(Key \X Life) /\ Len(buffer) <= OutputLimit
    BY RedisAssumption DEF Init
  <2>5. now \in 1..MaxTime /\ downAt \in 0..MaxTime /\ nset \in 0..MaxSet
    BY RedisAssumption DEF Init
  <2> QED
    BY <2>2, <2>3, <2>4, <2>5 DEF Init, RedisTypeOK
<1>2. Owned(Memory) /\ Owned(rdb) /\ Owned(child.db)
  BY DEF Init, Owned, Memory, NoFile, NoChild, Empty
<1>3. BufferAnnounces /\ ChildIsBehind /\ DownIsBare /\ StoppedWithAllSaved
  BY DEF Init, BufferAnnounces, ChildIsBehind, DownIsBare, StoppedWithAllSaved, NoChild, Up
<1>4. FatesFollow /\ downAt <= now
  <2>1. \A n \in Life : n # 0
    BY RedisAssumption DEF Life
  <2> QED
    BY <2>1 DEF Init, FatesFollow, Empty, Up
<1>5. CleanMeansSaved
  BY DEF Init, CleanMeansSaved, Memory, NoFile
<1> QED
  BY <1>1, <1>2, <1>3, <1>4, <1>5 DEF RedisInv

\* The steps in which a key expires, by a command or by the active cycle.
LEMMA Expiring ==
  ASSUME RedisInv, NEW k \in Key,
         \/ Up /\ expireIfNeeded(k)
         \/ activeExpire(k)
  PROVE  Up /\ expires[k] # 0 /\ now >= expires[k] /\ deleteExpiredKey(k)
<1>1. now \in Nat /\ expires[k] \in 0..MaxTime
  BY Types
<1> QED
  BY <1>1, RedisAssumption DEF expireIfNeeded, activeExpire, keyIsExpired

\* DEL is an expiry or a deletion.
LEMMA DelCases ==
  ASSUME NEW k \in Key, DEL(k)
  PROVE  /\ Up
         /\ \/ expireIfNeeded(k)
            \/ /\ keys[k] # 0 /\ dbSyncDelete(k) /\ dirty' = dirty + 1
               /\ fate' = [fate EXCEPT ![keys[k]] = "deleted"]
               /\ UNCHANGED <<processVars, clientVars, saveVars, nset, deadline>>
  BY Zenon DEF DEL

\* Every step of the server preserves RedisInv.
LEMMA NextRedisInv == RedisInv /\ [Next]_vars => RedisInv'
<1> SUFFICES ASSUME RedisInv, [Next]_vars PROVE RedisInv'
  OBVIOUS
<1>1. ASSUME NEW k \in Key, SETEX(k) PROVE RedisInv'
  BY <1>1, SetexKeeps
<1>2. ASSUME NEW k \in Key, GET(k) \/ activeExpire(k) PROVE RedisInv'
  BY <1>2, Expiring, ExpiryKeeps DEF GET
<1>3. ASSUME NEW k \in Key, DEL(k) PROVE RedisInv'
  <2>1. CASE Up /\ expireIfNeeded(k)
    BY <2>1, Expiring, ExpiryKeeps
  <2> QED
    BY <1>3, <2>1, DelCases, DelKeeps
<1>4. CASE psubscribe \/ ListenerReads \/ freeClient \/ Deploy
  BY <1>4, ClientKeeps
<1>5. CASE \/ rdbSaveBackground \/ ForkFails \/ ChildSaves \/ ChildFails
           \/ \E exit \in {"ok", "failed", "killed"} : backgroundSaveDone(exit)
           \/ cancelShutdown
  BY <1>5, SaveKeeps
<1>6. CASE finishShutdown
  BY <1>6, ExitKeeps DEF finishShutdown, FinalSave
<1>7. CASE Crash
  <2>1. Up /\ Exit("crashed") /\ rdb' \in {rdb, Memory, child.db}
    BY <1>7 DEF Crash, ChildFile
  <2> QED
    BY <2>1, ExitKeeps
<1>8. CASE Restart
  BY <1>8, RestartKeeps
<1>9. CASE Tick
  BY <1>9, TickKeeps
<1>10. CASE UNCHANGED vars
  <2>1. /\ UNCHANGED <<now, server, downAt, keys, expires, events, subscribed, buffer,
                       dirty, dirty_before_bgsave, lastbgsave_status, child, rdb,
                       nset, fate, deadline>>
        /\ Memory' = Memory
    BY <1>10 DEF vars, processVars, dbVars, clientVars, saveVars, historyVars, Memory
  <2>2. RedisTypeOK'
    BY <2>1, Zenon DEF RedisInv, RedisTypeOK, Agree
  <2>3. Owned(Memory)' /\ Owned(child.db)' /\ Owned(rdb)'
    BY <2>1 DEF RedisInv, Owned
  <2>5. BufferAnnounces' /\ FatesFollow'
    BY <2>1, Zenon DEF RedisInv, BufferAnnounces, FatesFollow, Up
  <2>6. downAt' <= now' /\ DownIsBare' /\ StoppedWithAllSaved'
    BY <2>1 DEF RedisInv, DownIsBare, StoppedWithAllSaved, Up
  <2>4. ChildIsBehind' /\ CleanMeansSaved'
    BY <2>1 DEF RedisInv, ChildIsBehind, CleanMeansSaved, Current, Up
  <2> QED
    BY <2>2, <2>3, <2>4, <2>5, <2>6 DEF RedisInv
<1> QED
  BY <1>1, <1>2, <1>3, <1>4, <1>5, <1>6, <1>7, <1>8, <1>9, <1>10 DEF Next

-----------------------------------------------------------------------------
\* The database, the BGSAVE child, dump.rdb, the listener's buffer and the
\* history agree in every reachable state of the server.
THEOREM RedisInvHolds == Spec => []RedisInv
  BY InitRedisInv, NextRedisInv, PTL DEF Spec

\* db->keys and db->expires have entries for the same keys, in memory, in
\* the child and in the file, and every variable has its type.
THEOREM RedisTypeCorrect == Spec => []RedisTypeOK
<1>1. RedisInv => RedisTypeOK
  BY DEF RedisInv
<1> QED
  BY <1>1, RedisInvHolds, PTL

\* A server that counts no changes and runs no child has nothing in memory
\* that a crash would lose.
THEOREM CleanMeansSavedHolds == Spec => []CleanMeansSaved
<1>1. RedisInv => CleanMeansSaved
  BY DEF RedisInv
<1> QED
  BY <1>1, RedisInvHolds, PTL

\* An orderly shutdown leaves exactly the reservations still held in
\* dump.rdb, whatever the BGSAVE child was doing.
THEOREM StoppedWithAllSavedHolds == Spec => []StoppedWithAllSaved
<1>1. RedisInv => StoppedWithAllSaved
  BY DEF RedisInv
<1> QED
  BY <1>1, RedisInvHolds, PTL

-----------------------------------------------------------------------------
\* What a step may do to the fate of a SETEX.
FateStep(n) ==
  \/ fate'[n] = fate[n]
  \/ fate[n] = "announced" /\ fate'[n] \in {"handled", "dropped"}
  \/ fate[n] = "held" /\ (fate'[n] \in Settled => now >= deadline[n])
  \/ fate[n] = "none"
  \/ ~Up /\ fate[n] \notin Settled /\ fate'[n] \notin Settled

\* Every step is of that kind for every SETEX.
LEMMA FateSteps ==
  ASSUME RedisInv, [Next]_vars, NEW n \in Life
  PROVE  FateStep(n)
<1>t. now \in Nat /\ deadline[n] \in Nat /\ fate \in [Life -> Fate]
  BY Types, RedisAssumption
<1>e. ASSUME NEW k \in Key, Up, expires[k] # 0, now >= expires[k], deleteExpiredKey(k)
      PROVE  FateStep(n)
  <2>1. n # keys[k] => \/ fate'[n] = fate[n]
                       \/ fate[n] = "announced" /\ fate'[n] = "dropped"
    BY <1>e, ExpiryEffect, Zenon
  <2>2. n = keys[k] => fate[n] = "held" /\ deadline[n] = expires[k]
    BY <1>e, HeldInMemory
  <2> QED
    BY <1>e, <2>1, <2>2 DEF FateStep
<1>1. ASSUME NEW k \in Key, SETEX(k) PROVE FateStep(n)
  <2>1. /\ n # keys[k] /\ n # nset + 1 =>
             \/ fate'[n] = fate[n]
             \/ fate[n] = "announced" /\ fate'[n] = "dropped"
        /\ fate[n] = "held" /\ fate'[n] \in Settled => deadline[n] <= now
    BY <1>1, SetexFates, Zenon
  <2>2. CASE n = nset + 1
    <3>1. n > nset
      BY <2>2, Types
    <3> QED
      BY <3>1 DEF RedisInv, FatesFollow, FateStep
  <2>3. CASE n = keys[k]
    <3>1. Up
      BY <1>1 DEF SETEX
    <3>2. fate[n] = "held"
      BY <2>3, <3>1 DEF RedisInv, FatesFollow
    <3> QED
      BY <1>t, <2>1, <3>2 DEF FateStep
  <2> QED
    BY <2>1, <2>2, <2>3 DEF FateStep
<1>2. ASSUME NEW k \in Key, GET(k) \/ activeExpire(k) PROVE FateStep(n)
  BY <1>2, <1>e, Expiring DEF GET
<1>3. ASSUME NEW k \in Key, DEL(k) PROVE FateStep(n)
  <2>1. CASE Up /\ expireIfNeeded(k)
    BY <2>1, <1>e, Expiring
  <2>2. CASE Up /\ keys[k] # 0 /\ fate' = [fate EXCEPT ![keys[k]] = "deleted"]
    <3>1. n # keys[k] => fate'[n] = fate[n]
      BY <2>2, <1>t
    <3>2. n = keys[k] => fate[n] = "held" /\ fate'[n] = "deleted"
      BY <2>2, <1>t DEF RedisInv, FatesFollow
    <3> QED
      BY <3>1, <3>2 DEF FateStep, Settled
  <2> QED
    BY <1>3, <2>1, <2>2, DelCases
<1>4. CASE ListenerReads
  <2>1. \/ fate'[n] = fate[n]
        \/ fate[n] = "announced" /\ fate'[n] = "handled"
    BY <1>4, ListenerReadsEffect, Zenon
  <2> QED
    BY <2>1 DEF FateStep
<1>5. CASE Disconnect(fate)
  <2>1. /\ fate[n] # "announced" => fate'[n] = fate[n]
        /\ fate[n] = "announced" => fate'[n] = "dropped"
    BY <1>5, <1>t, DisconnectEffect, Zenon
  <2> QED
    BY <2>1 DEF FateStep
<1>6. CASE Restart
  <2>1. ~Up /\ now > downAt
    BY <1>6 DEF Restart
  <2>2. CASE fate[n] \in Settled
    <3>1. deadline[n] <= downAt /\ deadline[n] < now
      BY <1>t, <2>1, <2>2, Types DEF RedisInv, FatesFollow, Settled
    <3>2. \A k \in Key : Loads(k) => rdb.keys[k] # n
      <4> SUFFICES ASSUME NEW k \in Key, Loads(k), rdb.keys[k] = n PROVE FALSE
        OBVIOUS
      <4>1. rdb.expires[k] = deadline[n] /\ rdb.expires[k] >= now
        BY Zenon DEF RedisInv, Owned, Loads
      <4> QED
        BY <1>t, <3>1, <4>1
    <3>3. n \notin {rdb.keys[k] : k \in {j \in Key : Loads(j)}} /\ fate[n] # "held"
      BY <2>2, <3>2, Zenon DEF Settled
    <3>4. fate'[n] = fate[n]
      BY <1>6, <3>3, Zenon DEF Restart
    <3> QED
      BY <3>4 DEF FateStep
  <2>3. CASE fate[n] \notin Settled
    <3>1. fate'[n] \in {"held", fate[n], "lapsed", "lost"}
      BY <1>6 DEF Restart
    <3> QED
      BY <2>1, <2>3, <3>1 DEF FateStep, Settled
  <2> QED
    BY <2>2, <2>3
<1>7. CASE UNCHANGED fate
  BY <1>7 DEF FateStep
<1>8. CASE \/ psubscribe
           \/ rdbSaveBackground \/ ForkFails \/ ChildSaves \/ ChildFails
           \/ \E exit \in {"ok", "failed", "killed"} : backgroundSaveDone(exit)
           \/ cancelShutdown \/ Tick \/ UNCHANGED vars
  <2>1. UNCHANGED fate
    BY <1>8 DEF psubscribe, rdbSaveBackground, ForkFails, ChildSaves, ChildFails,
                backgroundSaveDone, cancelShutdown, Tick, vars, historyVars
  <2> QED
    BY <2>1, <1>7
<1>9. CASE freeClient \/ Deploy \/ finishShutdown \/ Crash
  <2>1. Disconnect(fate)
    BY <1>9 DEF freeClient, Deploy, finishShutdown, Crash, Exit
  <2> QED
    BY <2>1, <1>5
<1> QED
  BY <1>1, <1>2, <1>3, <1>4, <1>6, <1>8, <1>9 DEF Next

\* No reservation key is announced as expired before the deadline that its
\* own SETEX gave it, through any number of overwrites and restarts.
THEOREM NeverEarlyHolds == Spec => NeverEarly
<1> DEFINE Early == \A n \in Life :
                      /\ fate[n] = "held"
                      /\ fate'[n] \in {"announced", "unheard", "dropped"}
                      => now >= deadline[n]
<1>1. RedisInv /\ [Next]_vars => [Early]_fate
  <2> SUFFICES ASSUME RedisInv, [Next]_vars, NEW n \in Life, fate[n] = "held",
                      fate'[n] \in {"announced", "unheard", "dropped"}
               PROVE  now >= deadline[n]
    OBVIOUS
  <2> QED
    BY FateSteps DEF FateStep, Settled
<1> QED
  BY <1>1, RedisInvHolds, PTL DEF Spec, NeverEarly

\* An expiry that was announced happens once, and a SETEX that ended stays
\* ended while the server is up: no crash, late save or reload of dump.rdb
\* brings an announced reservation back.
THEOREM SettledFatesHolds == Spec => SettledFates
<1> DEFINE Fixed == \A n \in Life :
       /\ fate[n] = "announced" => fate'[n] \in {"announced", "handled", "dropped"}
       /\ fate[n] \in {"handled", "dropped", "unheard"} => fate'[n] = fate[n]
       /\ fate[n] \in {"deleted", "replaced", "lapsed", "lost"} /\ Up =>
            fate'[n] = fate[n]
<1>1. RedisInv /\ [Next]_vars => [Fixed]_fate
  <2> SUFFICES ASSUME RedisInv, [Next]_vars, NEW n \in Life
               PROVE
       /\ fate[n] = "announced" => fate'[n] \in {"announced", "handled", "dropped"}
       /\ fate[n] \in {"handled", "dropped", "unheard"} => fate'[n] = fate[n]
       /\ fate[n] \in {"deleted", "replaced", "lapsed", "lost"} /\ Up =>
            fate'[n] = fate[n]
    OBVIOUS
  <2> QED
    BY FateSteps DEF FateStep, Settled
<1> QED
  BY <1>1, RedisInvHolds, PTL DEF Spec, SettledFates

-----------------------------------------------------------------------------
\* While the server is up, a step of it is a step of the table of lapsing
\* keys, or leaves that table alone.
LEMMA StepIsAbstract ==
  ASSUME RedisInv, [Next]_vars, Up, Up'
  PROVE  K!Next \/ UNCHANGED <<keys, Notices>>
<1>e. ASSUME NEW k \in Key, Up, expires[k] # 0, deleteExpiredKey(k)
      PROVE  K!Lapse(k)
  <2>1. Notices' \in {Notices, Notices \cup {k}, {}}
    BY <1>e, ExpiryEffect, Zenon
  <2>2. keys[k] # 0
    BY <1>e DEF RedisInv, RedisTypeOK, Agree, Memory
  <2>3. keys' = [keys EXCEPT ![k] = 0]
    BY <1>e DEF deleteExpiredKey
  <2> QED
    BY <2>1, <2>2, <2>3 DEF K!Lapse, K!LapseNoticed
<1>1. ASSUME NEW k \in Key, SETEX(k) PROVE K!Next
  <2>1. /\ nset + 1 \in Life
        /\ Notices' \in {Notices, Notices \cup {k}, {}}
        /\ keys[k] = 0 => Notices' = Notices
        /\ keys[k] # 0 => keys[k] <= nset
    BY <1>1, SetexFates, Zenon
  <2>2. nset \in Nat /\ keys[k] \in 0..MaxSet
    BY Types
  <2>3. nset + 1 # keys[k]
    BY <2>1, <2>2
  <2>4. keys' = [keys EXCEPT ![k] = nset + 1]
    BY <1>1 DEF SETEX
  <2>5. K!Put(k, nset + 1)
    BY <2>1, <2>3, <2>4 DEF K!Put, K!LapseNoticed
  <2> QED
    BY <2>1, <2>5 DEF K!Next
<1>2. ASSUME NEW k \in Key, GET(k) \/ activeExpire(k) PROVE K!Next
  <2>1. K!Lapse(k)
    BY <1>2, <1>e, Expiring DEF GET
  <2> QED
    BY <2>1 DEF K!Next
<1>3. ASSUME NEW k \in Key, DEL(k) PROVE K!Next
  <2>1. CASE Up /\ expireIfNeeded(k)
    <3>1. K!Lapse(k)
      BY <2>1, <1>e, Expiring
    <3> QED
      BY <3>1 DEF K!Next
  <2>2. CASE dbSyncDelete(k) /\ UNCHANGED clientVars
    <3>1. keys' = [keys EXCEPT ![k] = 0] /\ Notices' = Notices
      BY <2>2 DEF dbSyncDelete, clientVars, Notices
    <3>2. K!Remove(k)
      BY <3>1 DEF K!Remove
    <3> QED
      BY <3>2 DEF K!Next
  <2> QED
    BY <1>3, <2>1, <2>2, DelCases
<1>4. CASE ListenerReads
  <2> DEFINE k == buffer[1][1]
  <2>1. k \in Key /\ k \in Notices /\ Notices' \in {Notices, Notices \ {k}}
    BY <1>4, ListenerReadsEffect, Zenon
  <2>2. UNCHANGED keys
    BY <1>4 DEF ListenerReads, dbVars
  <2>3. K!Take(k)
    BY <2>1, <2>2 DEF K!Take
  <2> QED
    BY <2>1, <2>3 DEF K!Next
<1>5. CASE freeClient \/ Deploy
  <2>1. Disconnect(fate) /\ UNCHANGED keys /\ fate \in [Life -> Fate]
    BY <1>5, Types DEF freeClient, Deploy, dbVars
  <2>2. Notices' = {}
    BY <2>1, DisconnectEffect, Zenon
  <2>3. K!LoseNotices
    BY <2>1, <2>2 DEF K!LoseNotices
  <2> QED
    BY <2>3 DEF K!Next
<1>6. CASE \/ psubscribe
           \/ rdbSaveBackground \/ ForkFails \/ ChildSaves \/ ChildFails
           \/ \E exit \in {"ok", "failed", "killed"} : backgroundSaveDone(exit)
           \/ cancelShutdown \/ Tick \/ UNCHANGED vars
  <2>1. UNCHANGED <<keys, buffer>>
    BY <1>6 DEF psubscribe, rdbSaveBackground, ForkFails, ChildSaves, ChildFails,
                backgroundSaveDone, cancelShutdown, Tick, vars, dbVars, clientVars
  <2> QED
    BY <2>1 DEF Notices
<1>7. ~finishShutdown /\ ~Crash /\ ~Restart
  BY DEF finishShutdown, Crash, Restart, Exit, Up
<1> QED
  BY <1>1, <1>2, <1>3, <1>4, <1>5, <1>6, <1>7 DEF Next

\* Between restarts the server with its deadlines, lazy and active expiry and
\* bounded output buffer implements the table of lapsing keys and lossy
\* notices that the shop's handlers rely on.
THEOREM RedisImplementsExpiringKeys == Spec => ImplementsExpiringKeys
<1>1. Init => K!Init
  <2> SUFFICES ASSUME Init PROVE K!Init
    OBVIOUS
  <2>1. Notices = {}
    BY DEF Init, Notices
  <2> QED
    BY <2>1 DEF Init, K!Init, Empty
<1>2. RedisInv /\ [Next]_vars => [Up /\ Up' => K!Next]_<<keys, Notices>>
  BY StepIsAbstract
<1> QED
  BY <1>1, <1>2, RedisInvHolds, PTL DEF Spec, ImplementsExpiringKeys
=============================================================================
