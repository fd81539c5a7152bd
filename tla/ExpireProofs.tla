---------------------------- MODULE ExpireProofs ----------------------------
(***************************************************************************)
(* Proofs about RedisDict and ExpireCycle, for every set of keys, hash     *)
(* function and table size: a lookup finds every entry, whatever has been  *)
(* moved, unlinked or resized before.                                      *)
(***************************************************************************)
EXTENDS ExpireCycle, FiniteSetTheorems, TLAPS

-----------------------------------------------------------------------------
(* Sizes, buckets and minima.                                              *)

LEMMA SizeType ==
  ASSUME NEW e \in Exps
  PROVE  e \in Nat /\ e # -1 /\ Size(e) \in Nat \ {0}
  BY DictAssumption, PowersAssumption DEF Exps, Size

LEMMA BucketType ==
  ASSUME NEW e \in Exps, NEW h \in Nat
  PROVE  Bucket(e, h) \in 0..(Size(e) - 1)
<1>1. ASSUME NEW n \in Nat \ {0} PROVE h % n \in 0..(n - 1)
  OBVIOUS
<1> QED
  BY <1>1, SizeType DEF Bucket

\* A set of natural numbers has a least element, and Min is it.
LEMMA LeastNatural ==
  ASSUME NEW T \in SUBSET Nat, T # {}
  PROVE  Min(T) \in T /\ \A y \in T : Min(T) <= y
<1> DEFINE R == {ss \in Nat \X Nat : ss[1] < ss[2]}
<1>0. IsWellFoundedOn(R, Nat)
  BY NatLessThanWellFounded, Zenon DEF OpToRel
<1>r. \A m, n \in Nat : m < n => <<m, n>> \in R
  OBVIOUS
<1> HIDE DEF R
<1>1. PICK x \in T : \A y \in T : ~ (<<y, x>> \in R)
  BY <1>0, WFMin, Zenon
<1>2. \A y \in T : x \in Nat /\ y \in Nat /\ ~ (y < x)
  BY <1>1, <1>r, Zenon
<1>3. \A y \in T : x <= y
  BY <1>2
<1> QED
  BY <1>3, Zenon DEF Min

\* _dictNextExp returns a size the table can have.
LEMMA NextExpType ==
  ASSUME NEW size \in Nat, NEW m \in Exps, size <= Size(m)
  PROVE  NextExp(size) \in Exps
<1> DEFINE T == {e \in Exps : Size(e) >= size}
<1>1. T \in SUBSET Nat
  BY SizeType
<1>2. m \in T
  BY SizeType
<1>3. Min(T) \in T
  BY <1>1, <1>2, LeastNatural
<1> QED
  BY <1>3 DEF NextExp

\* There is a table large enough for every key.
LEMMA UsedFits ==
  ASSUME NEW d
  PROVE  /\ used(d, 0) \in Nat /\ HashBits + 1 \in Exps
         /\ used(d, 0) + 1 <= Size(HashBits + 1)
         /\ used(d, 0) <= Size(HashBits + 1)
<1>1. In(d, 0) \in SUBSET Key
  BY DEF In
<1>2. /\ Cardinality(In(d, 0)) \in Nat /\ Cardinality(Key) \in Nat
      /\ Cardinality(In(d, 0)) <= Cardinality(Key)
  BY <1>1, DictAssumption, FS_Subset, FS_CardinalityType
<1>3. /\ HashBits + 1 \in Exps /\ Size(HashBits + 1) \in Nat
      /\ Cardinality(Key) < Size(HashBits + 1)
  BY DictAssumption, PowersAssumption DEF Size, Exps
<1> QED
  BY <1>2, <1>3 DEF used

\* A fact of records: a dictionary is its four fields.
LEMMA DictFields ==
  ASSUME NEW d, DictOK(d)
  PROVE  /\ d.where \in [Key -> {None, 0, 1}]
         /\ d.exp0 \in {-1} \cup Exps /\ d.exp1 \in {-1} \cup Exps
         /\ d.rehashidx \in Int
         /\ d = [where |-> d.where, exp0 |-> d.exp0, exp1 |-> d.exp1,
                 rehashidx |-> d.rehashidx]
  BY DEF DictOK

-----------------------------------------------------------------------------
(* The operations of dict.c.                                               *)

Hashes == hash \in [Key -> Nat]

\* e is a dictionary with the entries of d.
SameEntries(d, e) == DictOK(e) /\ Members(e) = Members(d)

\* _dictResize starts a rehash or replaces an empty table.
LEMMA ResizeKeeps ==
  ASSUME Hashes, NEW d, DictOK(d), ~IsRehashing(d),
         NEW size \in Nat, NEW m \in Exps, size <= Size(m)
  PROVE  SameEntries(d, Resize(d, size))
<1> DEFINE e == NextExp(size)
<1>1. e \in Exps /\ e \in Nat /\ Size(e) \in Nat
  BY NextExpType, SizeType
<1> HIDE DEF e
<1>2. CASE In(d, 0) = {} /\ e # d.exp0
  <2>1. Resize(d, size) = [where |-> d.where, exp0 |-> e, exp1 |-> d.exp1,
                           rehashidx |-> d.rehashidx]
    BY <1>2, DictFields DEF Resize, e
  <2> QED
    BY <1>1, <1>2, <2>1, DictFields DEF SameEntries, DictOK, In, Members, IsRehashing, Size
<1>3. CASE In(d, 0) # {} /\ e # d.exp0
  <2>1. Resize(d, size) = [where |-> d.where, exp0 |-> d.exp0, exp1 |-> e,
                           rehashidx |-> 0]
    <3>0. [d EXCEPT !.exp1 = e] = [where |-> d.where, exp0 |-> d.exp0, exp1 |-> e,
                                   rehashidx |-> d.rehashidx]
      BY DictFields
    <3>1. [d EXCEPT !.exp1 = e, !.rehashidx = 0] = [[d EXCEPT !.exp1 = e] EXCEPT !.rehashidx = 0]
      OBVIOUS
    <3>2. Resize(d, size) = [d EXCEPT !.exp1 = e, !.rehashidx = 0]
      BY <1>3, Zenon DEF Resize, e
    <3> QED
      BY <3>0, <3>1, <3>2, Zenon
  <2>2. d.exp0 \in Exps /\ Size(d.exp0) \in Nat
    BY <1>3, SizeType DEF DictOK
  <2>3. \A k \in In(d, 0) : Bucket(d.exp0, hash[k]) >= 0
    BY <2>2, BucketType DEF Hashes, In
  <2> QED
    BY <1>1, <1>3, <2>1, <2>2, <2>3, DictFields, SizeType DEF SameEntries, DictOK, In, Members, IsRehashing
<1> QED
  BY <1>2, <1>3 DEF Resize, SameEntries, e

\* dictExpandIfNeeded; afterwards there is a table.
LEMMA ExpandKeeps ==
  ASSUME Hashes, NEW d, DictOK(d)
  PROVE  /\ SameEntries(d, ExpandIfNeeded(d))
         /\ ExpandIfNeeded(d).exp0 # -1
<1>1. CASE IsRehashing(d)
  BY <1>1 DEF ExpandIfNeeded, SameEntries, DictOK
<1>2. CASE ~IsRehashing(d) /\ d.exp0 = -1
  <2>1. INITIAL_EXP \in Exps /\ Size(INITIAL_EXP) \in Nat
    BY DictAssumption, SizeType DEF Exps
  <2>2. NextExp(Size(INITIAL_EXP)) \in Exps /\ NextExp(Size(INITIAL_EXP)) # -1
    BY <2>1, NextExpType, SizeType
  <2>3. In(d, 0) = {}
    BY <1>2 DEF DictOK
  <2>4. Resize(d, Size(INITIAL_EXP)).exp0 = NextExp(Size(INITIAL_EXP))
    BY <1>2, <2>2, <2>3, DictFields DEF Resize
  <2>5. SameEntries(d, Resize(d, Size(INITIAL_EXP)))
    BY <1>2, <2>1, ResizeKeeps
  <2> QED
    BY <1>2, <2>2, <2>4, <2>5 DEF ExpandIfNeeded
<1>3. CASE ~IsRehashing(d) /\ d.exp0 # -1
  <2>1. SameEntries(d, Resize(d, used(d, 0) + 1))
    BY <1>3, UsedFits, ResizeKeeps
  <2>2. Resize(d, used(d, 0) + 1).exp0 # -1
    <3>1. NextExp(used(d, 0) + 1) # -1
      BY UsedFits, NextExpType, SizeType
    <3> QED
      BY <1>3, <3>1, DictFields DEF Resize
  <2> QED
    BY <1>3, <2>1, <2>2 DEF ExpandIfNeeded, SameEntries
<1> QED
  BY <1>1, <1>2, <1>3

\* dictShrinkIfNeeded
LEMMA ShrinkKeeps ==
  ASSUME Hashes, NEW d, DictOK(d)
  PROVE  SameEntries(d, ShrinkIfNeeded(d))
<1>1. CASE ~IsRehashing(d)
  <2>1. SameEntries(d, Resize(d, used(d, 0)))
    BY <1>1, UsedFits, ResizeKeeps
  <2> QED
    BY <2>1 DEF ShrinkIfNeeded, SameEntries
<1>2. CASE IsRehashing(d)
  BY <1>2 DEF ShrinkIfNeeded, SameEntries
<1> QED
  BY <1>1, <1>2

\* dictCheckRehashingCompleted, also of a dictionary whose entries in table 0
\* have all been moved.
LEMMA CompletedKeeps ==
  ASSUME Hashes, NEW d, DictOK(d), IsRehashing(d)
  PROVE  SameEntries(d, CheckCompleted(d))
<1>1. CASE In(d, 0) = {}
  <2> DEFINE w == [k \in Key |-> IF d.where[k] = 1 THEN 0 ELSE None]
  <2>1. CheckCompleted(d) = [where |-> w, exp0 |-> d.exp1, exp1 |-> -1, rehashidx |-> -1]
    BY <1>1 DEF CheckCompleted
  <2>2. d.exp1 \in Exps /\ Size(d.exp1) \in Nat /\ d.exp1 # -1
    BY SizeType DEF DictOK
  <2>3. \A k \in Key : Bucket(d.exp1, hash[k]) >= -1
    BY <2>2, BucketType DEF Hashes
  <2> QED
    BY <1>1, <2>1, <2>2, <2>3, DictFields
    DEF SameEntries, DictOK, In, Members, IsRehashing, None
<1>2. CASE In(d, 0) # {}
  BY <1>2 DEF CheckCompleted, SameEntries
<1> QED
  BY <1>1, <1>2

\* rehashEntriesInBucketAtIndex and what follows it: a bucket i goes to table
\* 1, and what stays in table 0 is at j or above.
LEMMA MoveKeeps ==
  ASSUME Hashes, NEW d, DictOK(d), IsRehashing(d),
         NEW i, NEW j \in 0..Size(d.exp0),
         \A k \in In(d, 0) : Bucket(d.exp0, hash[k]) = i \/ Bucket(d.exp0, hash[k]) >= j,
         NEW e, e = [MoveBucket(d, i) EXCEPT !.rehashidx = j]
  PROVE  SameEntries(d, CheckCompleted(e))
<1> DEFINE w == [k \in Key |-> IF k \in Chain(d, 0, d.exp0, i) THEN 1 ELSE d.where[k]]
<1>1. e = [where |-> w, exp0 |-> d.exp0, exp1 |-> d.exp1, rehashidx |-> j]
  <2>1. MoveBucket(d, i) = [where |-> w, exp0 |-> d.exp0, exp1 |-> d.exp1,
                            rehashidx |-> d.rehashidx]
    BY DictFields DEF MoveBucket
  <2> HIDE DEF w
  <2> QED
    BY <2>1
<1>2. /\ w \in [Key -> {None, 0, 1}]
      /\ \A k \in Key : w[k] = None <=> d.where[k] = None
      /\ \A k \in Key : w[k] = 0 => k \in In(d, 0) /\ Bucket(d.exp0, hash[k]) >= j
  BY DictFields DEF Chain, In, None
<1>3. d.exp0 \in Exps /\ d.exp1 \in Exps /\ Size(d.exp0) \in Nat /\ d.exp1 # -1
  BY SizeType DEF DictOK
<1> HIDE DEF w
<1>4. DictOK(e) /\ IsRehashing(e)
  <2>1. /\ e.where = w /\ e.exp0 = d.exp0 /\ e.exp1 = d.exp1 /\ e.rehashidx = j
        /\ e \in [where: [Key -> {None, 0, 1}], exp0: {-1} \cup Exps,
                 exp1: {-1} \cup Exps, rehashidx: Int]
    <3>1. \A u, a, b, c :
            u \in [Key -> {None, 0, 1}] /\ a \in Exps /\ b \in Exps /\ c \in Int
            => [where |-> u, exp0 |-> a, exp1 |-> b, rehashidx |-> c]
                 \in [where: [Key -> {None, 0, 1}], exp0: {-1} \cup Exps,
                     exp1: {-1} \cup Exps, rehashidx: Int]
      BY Zenon
    <3>2. w \in [Key -> {None, 0, 1}] /\ d.exp0 \in Exps /\ d.exp1 \in Exps /\ j \in Int
      BY <1>2, <1>3
    <3>3. e \in [where: [Key -> {None, 0, 1}], exp0: {-1} \cup Exps,
                exp1: {-1} \cup Exps, rehashidx: Int]
      BY <1>1, <3>1, <3>2, Zenon
    <3> QED
      BY <1>1, <3>3
  <2>2. IsRehashing(e) /\ d.exp0 # -1
    BY <2>1 DEF IsRehashing, DictOK
  <2>3. \A k \in In(e, 0) : e.exp0 # -1 /\ Bucket(e.exp0, hash[k]) >= e.rehashidx
    BY <1>2, <2>1, <2>2 DEF In
  <2> QED
    BY <1>3, <2>1, <2>2, <2>3 DEF DictOK
<1>5. Members(e) = Members(d)
  BY <1>1, <1>2 DEF Members
<1> QED
  BY <1>4, <1>5, CompletedKeeps DEF SameEntries

\* A dictionary that is being rehashed has two tables.
LEMMA RehashingHasTwo ==
  ASSUME Hashes, NEW d, DictOK(d), IsRehashing(d)
  PROVE  /\ d.exp0 \in Exps /\ Size(d.exp0) \in Nat \ {0}
         /\ d.rehashidx \in 0..Size(d.exp0)
         /\ \A k \in In(d, 0) : /\ Bucket(d.exp0, hash[k]) \in 0..(Size(d.exp0) - 1)
                                /\ Bucket(d.exp0, hash[k]) >= d.rehashidx
<1>1. d.exp0 \in Exps
  BY DEF DictOK
<1>2. Size(d.exp0) \in Nat \ {0}
  BY <1>1, SizeType
<1>3. \A k \in In(d, 0) : Bucket(d.exp0, hash[k]) \in 0..(Size(d.exp0) - 1)
  BY <1>1, BucketType DEF In, Hashes
<1> QED
  BY <1>1, <1>2, <1>3 DEF DictOK, IsRehashing

\* dictRehash: the next bucket that is not empty, unless it is too far.
LEMMA RehashKeeps ==
  ASSUME Hashes, NEW d, DictOK(d)
  PROVE  SameEntries(d, Rehash(d))
<1> DEFINE T == {Bucket(d.exp0, hash[k]) : k \in In(d, 0)}
           i == Min(T)
<1>1. CASE ~RehashAllowed(d)
  BY <1>1 DEF Rehash, SameEntries
<1>2. CASE RehashAllowed(d) /\ In(d, 0) = {}
  BY <1>2, CompletedKeeps DEF Rehash, RehashAllowed
<1>3. CASE RehashAllowed(d) /\ In(d, 0) # {}
  <2>r. IsRehashing(d)
    BY <1>3 DEF RehashAllowed
  <2>t. /\ d.exp0 \in Exps /\ Size(d.exp0) \in Nat \ {0}
        /\ d.rehashidx \in 0..Size(d.exp0)
        /\ T \subseteq 0..(Size(d.exp0) - 1)
        /\ \A n \in T : n >= d.rehashidx
    BY <2>r, RehashingHasTwo
  <2>m. i \in T /\ \A n \in T : i <= n
    <3>1. T \in SUBSET Nat /\ T # {}
      BY <1>3, <2>t
    <3> QED
      BY <3>1, LeastNatural, Zenon
  <2>k. \A k \in In(d, 0) : Bucket(d.exp0, hash[k]) \in T
    OBVIOUS
  <2> HIDE DEF i, T
  <2>1. CASE i - d.rehashidx >= empty_visits
    <3> DEFINE j == d.rehashidx + empty_visits
    <3>1. Rehash(d) = [where |-> d.where, exp0 |-> d.exp0, exp1 |-> d.exp1, rehashidx |-> j]
      BY <1>3, <2>1, DictFields DEF Rehash, i, T
    <3>2. j \in 0..Size(d.exp0) /\ \A n \in T : n >= j
      BY <2>1, <2>t, <2>m, DictAssumption
    <3> HIDE DEF j
    <3> QED
      BY <2>r, <2>k, <2>t, <3>1, <3>2, DictFields
      DEF SameEntries, DictOK, In, Members, IsRehashing
  <2>2. CASE ~ (i - d.rehashidx >= empty_visits)
    <3>1. Rehash(d) = CheckCompleted([MoveBucket(d, i) EXCEPT !.rehashidx = i + 1])
      BY <1>3, <2>2 DEF Rehash, i, T
    <3>2. i + 1 \in 0..Size(d.exp0) /\ \A n \in T : n = i \/ n >= i + 1
      BY <2>t, <2>m
    <3> QED
      BY <2>r, <2>k, <3>1, <3>2, MoveKeeps
  <2> QED
    BY <2>1, <2>2
<1> QED
  BY <1>1, <1>2, <1>3

\* _dictBucketRehash: a bucket out of turn.
LEMMA BucketRehashKeeps ==
  ASSUME Hashes, NEW d, DictOK(d), NEW i
  PROVE  SameEntries(d, BucketRehash(d, i))
<1>1. CASE RehashAllowed(d)
  <2>1. IsRehashing(d)
    BY <1>1 DEF RehashAllowed
  <2>2. MoveBucket(d, i) = [MoveBucket(d, i) EXCEPT !.rehashidx = d.rehashidx]
    BY DictFields, Zenon DEF MoveBucket
  <2> QED
    BY <1>1, <2>1, <2>2, RehashingHasTwo, MoveKeeps DEF BucketRehash
<1>2. CASE ~RehashAllowed(d)
  BY <1>2 DEF BucketRehash, SameEntries
<1> QED
  BY <1>1, <1>2

\* _dictRehashStepIfNeeded
LEMMA RehashStepKeeps ==
  ASSUME Hashes, NEW d, DictOK(d), NEW h
  PROVE  SameEntries(d, RehashStep(d, h))
  BY BucketRehashKeeps, RehashKeeps DEF RehashStep, SameEntries

-----------------------------------------------------------------------------
(* Search, insertion and removal.                                          *)

\* dictFind and its like find exactly the entries.
LEMMA FindsExactly ==
  ASSUME Hashes, NEW d, DictOK(d), NEW k \in Key
  PROVE  Finds(d, k) <=> k \in Members(d)
<1>1. d.where[k] \in {None, 0, 1}
  BY DictFields
<1> QED
  BY <1>1 DEF Finds, Members, DictOK, In, None, IsRehashing

\* dictAddRaw
LEMMA AddKeeps ==
  ASSUME Hashes, NEW d, DictOK(d), NEW k \in Key
  PROVE  DictOK(Add(d, k)) /\ Members(Add(d, k)) = Members(d) \cup {k}
<1> DEFINE e == FindPosition(d, k)
<1>1. DictOK(e) /\ Members(e) = Members(d) /\ e.exp0 # -1
  <2>1. SameEntries(d, RehashStep(d, hash[k])) /\ SameEntries(d, d)
    BY RehashStepKeeps DEF SameEntries
  <2> QED
    BY <2>1, ExpandKeeps DEF FindPosition, SameEntries
<1>2. Add(d, k) = IF Finds(e, k) THEN e
                  ELSE [e EXCEPT !.where[k] = IF IsRehashing(e) THEN 1 ELSE 0]
  BY DEF Add
<1> HIDE DEF e
<1>3. CASE Finds(e, k)
  BY <1>1, <1>2, <1>3, FindsExactly
<1>4. CASE ~Finds(e, k)
  <2> DEFINE w == [e.where EXCEPT ![k] = IF IsRehashing(e) THEN 1 ELSE 0]
  <2>1. Add(d, k) = [where |-> w, exp0 |-> e.exp0, exp1 |-> e.exp1, rehashidx |-> e.rehashidx]
    BY <1>1, <1>2, <1>4, DictFields
  <2>2. /\ w \in [Key -> {None, 0, 1}]
        /\ w[k] = IF IsRehashing(e) THEN 1 ELSE 0
        /\ \A l \in Key : l # k => w[l] = e.where[l]
    BY <1>1, DictFields
  <2>3. e.exp0 \in Exps /\ Bucket(e.exp0, hash[k]) >= -1
    BY <1>1, DictFields, BucketType DEF Hashes
  <2> HIDE DEF w
  <2>4. DictOK(Add(d, k))
    BY <1>1, <2>1, <2>2, <2>3, DictFields DEF DictOK, In, IsRehashing
  <2>5. Members(Add(d, k)) = Members(e) \cup {k}
    BY <2>1, <2>2 DEF Members, None
  <2> QED
    BY <1>1, <2>4, <2>5
<1> QED
  BY <1>3, <1>4

\* The unlinking of dictGenericDelete.
LEMMA UnlinkKeeps ==
  ASSUME Hashes, NEW d, DictOK(d), NEW k \in Key
  PROVE  DictOK(Unlink(d, k)) /\ Members(Unlink(d, k)) = Members(d) \ {k}
<1>1. CASE ~Finds(d, k)
  BY <1>1, FindsExactly DEF Unlink
<1>2. CASE Finds(d, k)
  <2> DEFINE w == [d.where EXCEPT ![k] = None]
             e == [d EXCEPT !.where[k] = None]
  <2>1. e = [where |-> w, exp0 |-> d.exp0, exp1 |-> d.exp1, rehashidx |-> d.rehashidx]
    BY DictFields
  <2>2. /\ w \in [Key -> {None, 0, 1}] /\ w[k] = None
        /\ \A l \in Key : l # k => w[l] = d.where[l]
    BY DictFields DEF None
  <2>3. Unlink(d, k) = ShrinkIfNeeded(e)
    BY <1>2 DEF Unlink
  <2> HIDE DEF w, e
  <2>4. DictOK(e)
    BY <2>1, <2>2, DictFields DEF DictOK, In, IsRehashing, None
  <2>5. Members(e) = Members(d) \ {k}
    BY <2>1, <2>2 DEF Members
  <2> QED
    BY <2>3, <2>4, <2>5, ShrinkKeeps DEF SameEntries
<1> QED
  BY <1>1, <1>2

\* dictDelete and dictFind
LEMMA DeleteKeeps ==
  ASSUME Hashes, NEW d, DictOK(d), NEW k \in Key
  PROVE  DictOK(Delete(d, k)) /\ Members(Delete(d, k)) = Members(d) \ {k}
<1>1. SameEntries(d, RehashStep(d, hash[k]))
  BY RehashStepKeeps
<1> QED
  BY <1>1, UnlinkKeeps DEF Delete, SameEntries

LEMMA FindKeeps ==
  ASSUME Hashes, NEW d, DictOK(d), NEW k \in Key
  PROVE  SameEntries(d, Find(d, k))
  BY RehashStepKeeps DEF Find, SameEntries

\* dictScan emits keys.
LEMMA ScanEmitsKeys ==
  ASSUME NEW d, NEW v
  PROVE  Scan(d, v).emitted \subseteq Key
<1>1. \A t, e, i : Chain(d, t, e, i) \subseteq Key
  BY DEF Chain, In
<1> QED
  BY <1>1 DEF Scan

-----------------------------------------------------------------------------
(* The steps of the commands and of serverCron.                            *)

\* The invariant after a step, from the dictionary the step leaves.
LEMMA CycleInvNext ==
  ASSUME CycleInv, hash' = hash, DictOK(dict'),
         due' \subseteq Members(dict'), owed' \subseteq Members(dict'),
         called' \subseteq Key, called' \cap owed' = {}
  PROVE  CycleInv'
<1>1. DictOK(dict)'
  BY Zenon DEF DictOK, In, IsRehashing, Bucket, Size, Exps
<1> QED
  BY <1>1 DEF CycleInv, Members

LEMMA CommandKeeps ==
  ASSUME CycleInv, NEW k \in Key,
         setExpire(k) \/ kvstoreDictDelete(k) \/ getExpire(k) \/ Passes(k)
  PROVE  CycleInv'
<1> USE DEF Command, cronVars, scanVars
<1>h. Hashes /\ DictOK(dict)
  BY DEF CycleInv, Hashes
<1>1. CASE setExpire(k)
  BY <1>h, <1>1, AddKeeps, CycleInvNext DEF setExpire, CycleInv
<1>2. CASE kvstoreDictDelete(k)
  BY <1>h, <1>2, DeleteKeeps, CycleInvNext DEF kvstoreDictDelete, CycleInv
<1>3. CASE getExpire(k)
  BY <1>h, <1>3, FindKeeps, CycleInvNext DEF getExpire, CycleInv, SameEntries
<1>4. CASE Passes(k)
  BY <1>h, <1>4, CycleInvNext DEF Passes, CycleInv
<1> QED
  BY <1>1, <1>2, <1>3, <1>4

\* The callback of a scan unlinks only an entry the scan no longer owes.
LEMMA CallbackKeeps ==
  ASSUME CycleInv, NEW k \in Key, expireScanCallback(k)
  PROVE  CycleInv'
<1>h. Hashes /\ DictOK(dict)
  BY DEF CycleInv, Hashes
<1>1. /\ k \notin owed /\ called' = called \ {k} /\ due' = due \ {k}
      /\ owed' = owed /\ hash' = hash
  BY DEF expireScanCallback, CycleInv, scanVars
<1>2. DictOK(dict') /\ Members(dict) \ {k} \subseteq Members(dict')
  BY <1>h, UnlinkKeeps DEF expireScanCallback
<1> QED
  BY <1>1, <1>2, CycleInvNext DEF CycleInv

LEMMA ScanKeeps ==
  ASSUME CycleInv, CycleScan
  PROVE  CycleInv'
<1>1. called' \subseteq Key
  BY ScanEmitsKeys DEF CycleScan, kvstoreScan
<1>2. owed' \subseteq owed /\ called' \cap owed' = {}
  BY DEF CycleScan, kvstoreScan
<1> QED
  BY <1>1, <1>2, CycleInvNext DEF CycleScan, CycleInv

\* The other steps of serverCron: some resize or rehash the table.
LEMMA CronKeeps ==
  ASSUME CycleInv, CycleGoesOn \/ TryResize \/ IncrementallyRehash
  PROVE  CycleInv'
<1> USE DEF scanVars
<1>h. Hashes /\ DictOK(dict)
  BY DEF CycleInv, Hashes
<1>1. CASE CycleGoesOn
  BY <1>h, <1>1, CycleInvNext DEF CycleGoesOn, CycleInv
<1>2. CASE TryResize
  <2>1. SameEntries(dict, dict')
    BY <1>h, <1>2, ExpandKeeps, ShrinkKeeps DEF TryResize, SameEntries
  <2> QED
    BY <1>2, <2>1, CycleInvNext DEF TryResize, CycleInv, SameEntries
<1>3. CASE IncrementallyRehash
  <2>1. SameEntries(dict, dict')
    BY <1>h, <1>3, RehashKeeps DEF IncrementallyRehash
  <2> QED
    BY <1>3, <2>1, CycleInvNext DEF IncrementallyRehash, CycleInv, SameEntries
<1> QED
  BY <1>1, <1>2, <1>3

LEMMA StillKeeps ==
  ASSUME CycleInv, UNCHANGED <<hash, dict, due, called, owed>>
  PROVE  CycleInv'
  BY CycleInvNext DEF CycleInv

LEMMA NextCycle ==
  ASSUME CycleInv, [Next]_cycleVars
  PROVE  CycleInv'
<1>1. ASSUME NEW k \in Key,
             setExpire(k) \/ kvstoreDictDelete(k) \/ getExpire(k) \/ Passes(k)
      PROVE  CycleInv'
  BY <1>1, CommandKeeps
<1>2. CASE TrafficStops
  BY <1>2, StillKeeps DEF TrafficStops, cronVars, scanVars
<1>3. CASE CronStarts \/ CycleLoop
  BY <1>3, StillKeeps DEF CronStarts, CycleLoop, scanVars
<1>4. CASE CycleScan
  BY <1>4, ScanKeeps
<1>5. CASE CycleGoesOn \/ TryResize \/ IncrementallyRehash
  BY <1>5, CronKeeps
<1>6. ASSUME NEW k \in Key, expireScanCallback(k)
      PROVE  CycleInv'
  BY <1>6, CallbackKeeps
<1>7. CASE ChildReaped \/ ChildForked \/ NoChildEvent
  BY <1>7, StillKeeps DEF ChildReaped, ChildForked, NoChildEvent, scanVars
<1>8. CASE UNCHANGED cycleVars
  BY <1>8, StillKeeps DEF cycleVars, cronVars, scanVars
<1> QED
  BY <1>1, <1>2, <1>3, <1>4, <1>5, <1>6, <1>7, <1>8 DEF Next, CronStep

LEMMA InitCycle == Init => CycleInv
<1> SUFFICES ASSUME Init PROVE CycleInv
  OBVIOUS
<1>1. hash \in [Key -> Nat]
  <2>1. 2 ^ HashBits \in Nat
    BY DictAssumption, PowersAssumption
  <2> QED
    BY <2>1, DictAssumption DEF Init
<1>2. DictOK(EmptyDict)
  BY DEF DictOK, EmptyDict, In, IsRehashing, None, Size
<1> QED
  BY <1>1, <1>2 DEF Init, CycleInv

\* Through every interleaving of commands, callbacks, resizes and saving
\* children, the table keeps the shape dict.c relies on.
THEOREM CycleInvHolds == Spec => []CycleInv
  BY InitCycle, NextCycle, PTL DEF Spec

\* A lookup, a deletion or an insertion finds every entry of db->expires,
\* however far a resize has come.
THEOREM LookupFindsAllHolds == Spec => []LookupFindsAll
<1>1. CycleInv => LookupFindsAll
  BY FindsExactly DEF CycleInv, LookupFindsAll, Hashes, Members
<1> QED
  BY <1>1, CycleInvHolds, PTL

\* An entry leaves the table by its own deletion or because its deadline has
\* passed: no resize, no moved bucket and no other key's removal drops it.
THEOREM EntriesLeaveByNameHolds == Spec => EntriesLeaveByName
<1>1. ASSUME CycleInv, [Next]_cycleVars, NEW k \in Key,
             k \in Members(dict), k \notin Members(dict)'
      PROVE  k \in due \/ kvstoreDictDelete(k)
  <2>h. Hashes /\ DictOK(dict) /\ k \notin Members(dict')
    BY <1>1 DEF CycleInv, Hashes, Members
  <2>1. ASSUME NEW l \in Key, setExpire(l) PROVE FALSE
    BY <1>1, <2>h, <2>1, AddKeeps DEF setExpire
  <2>2. ASSUME NEW l \in Key, kvstoreDictDelete(l) PROVE l = k
    BY <1>1, <2>h, <2>2, DeleteKeeps DEF kvstoreDictDelete
  <2>3. ASSUME NEW l \in Key, getExpire(l) PROVE FALSE
    BY <1>1, <2>h, <2>3, FindKeeps DEF getExpire, SameEntries
  <2>4. ASSUME NEW l \in Key, expireScanCallback(l) PROVE k \in due
    BY <1>1, <2>h, <2>4, UnlinkKeeps DEF expireScanCallback
  <2>5. CASE TryResize
    BY <1>1, <2>h, <2>5, ExpandKeeps, ShrinkKeeps DEF TryResize, SameEntries
  <2>6. CASE IncrementallyRehash
    BY <1>1, <2>h, <2>6, RehashKeeps DEF IncrementallyRehash, SameEntries
  <2>7. CASE dict' = dict
    BY <1>1, <2>h, <2>7
  <2>8. \/ dict' = dict \/ TryResize \/ IncrementallyRehash
        \/ \E l \in Key : \/ setExpire(l) \/ kvstoreDictDelete(l) \/ getExpire(l)
                           \/ expireScanCallback(l)
    BY <1>1 DEF Next, CronStep, cycleVars, Passes, TrafficStops, CronStarts, CycleLoop,
                CycleScan, CycleGoesOn, ChildReaped, ChildForked, NoChildEvent
  <2> QED
    BY <2>1, <2>2, <2>3, <2>4, <2>5, <2>6, <2>7, <2>8
<1>2. CycleInv /\ [Next]_cycleVars
        => [\A k \in Key : k \in Members(dict) /\ k \notin Members(dict)'
                           => k \in due \/ kvstoreDictDelete(k)]_cycleVars
  BY <1>1
<1> QED
  BY <1>2, CycleInvHolds, PTL DEF Spec, EntriesLeaveByName
=============================================================================
