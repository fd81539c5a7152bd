----------------------------- MODULE RedisDict -----------------------------
(***************************************************************************)
(* The hash table of backend/redis-stable/src/dict.c: two tables while it  *)
(* is being resized, entries moved bucket by bucket as the table is used,  *)
(* and the stateless scan whose cursor counts in reversed binary.          *)
(*                                                                         *)
(* A dictionary is a record: where[k] is the table that holds k (None when *)
(* neither does), exp0 and exp1 the binary logarithms of the table sizes   *)
(* and rehashidx the next bucket of table 0 to move, -1 when there is no   *)
(* second table.  Chains are sets: their order is never relied on.         *)
(***************************************************************************)
EXTENDS Integers, FiniteSets, FiniteSetsExt

CONSTANTS Key,
          HashBits,              \* bits of a hash value that are kept
          HashFunctions,         \* the functions dictHashKey may be
          INITIAL_EXP,           \* DICT_HT_INITIAL_EXP, 2
          MIN_FILL,              \* HASHTABLE_MIN_FILL, 8
          force_resize_ratio,    \* dict_force_resize_ratio, 4
          empty_visits           \* empty buckets one step may pass, 10

ASSUME DictAssumption ==
  /\ HashBits \in Nat /\ INITIAL_EXP \in 0..(HashBits + 1)
  /\ IsFiniteSet(Key) /\ Cardinality(Key) < 2 ^ (HashBits + 1)
  /\ HashFunctions \subseteq [Key -> 0..(2 ^ HashBits - 1)]
  /\ {MIN_FILL, force_resize_ratio, empty_visits} \subseteq Nat \ {0}

\* A fact of arithmetic, stated because the provers do not have it.
ASSUME PowersAssumption == \A e \in 0..(HashBits + 1) : 2 ^ e \in Nat \ {0}

VARIABLES hash,      \* dictHashKey, one of them
          child      \* a BGSAVE child is running: DICT_RESIZE_AVOID

None == -1

\* The tables there are, by the logarithm of their size.
Exps == INITIAL_EXP..(HashBits + 1)
Size(e) == IF e = -1 THEN 0 ELSE 2 ^ e
Bucket(e, h) == h % Size(e)

Members(d) == {k \in Key : d.where[k] # None}
In(d, t) == {k \in Key : d.where[k] = t}
used(d, t) == Cardinality(In(d, t))
IsRehashing(d) == d.rehashidx # -1
Chain(d, t, e, i) == {k \in In(d, t) : Bucket(e, hash[k]) = i}

EmptyDict == [where |-> [k \in Key |-> None], exp0 |-> -1, exp1 |-> -1,
              rehashidx |-> -1]

-----------------------------------------------------------------------------
\* _dictNextExp: the smallest table, not below the initial one, of that size.
NextExp(size) == Min({e \in Exps : Size(e) >= size})

\* _dictResize: an empty first table is replaced at once.
Resize(d, size) ==
  LET e == NextExp(size) IN
  IF e = d.exp0 THEN d
  ELSE IF In(d, 0) = {} THEN [d EXCEPT !.exp0 = e]
  ELSE [d EXCEPT !.exp1 = e, !.rehashidx = 0]

ExpandDue(d) ==
  \/ ~child /\ used(d, 0) >= Size(d.exp0)
  \/ used(d, 0) >= force_resize_ratio * Size(d.exp0)

\* dictExpandIfNeeded
ExpandIfNeeded(d) ==
  IF IsRehashing(d) THEN d
  ELSE IF d.exp0 = -1 THEN Resize(d, Size(INITIAL_EXP))
  ELSE IF ExpandDue(d) /\ Size(d.exp0) < used(d, 0) + 1
       THEN Resize(d, used(d, 0) + 1) ELSE d

ShrinkDue(d) ==
  /\ Size(d.exp0) > Size(INITIAL_EXP)
  /\ \/ ~child /\ used(d, 0) * MIN_FILL <= Size(d.exp0)
     \/ used(d, 0) * MIN_FILL * force_resize_ratio <= Size(d.exp0)

\* dictShrinkIfNeeded
ShrinkIfNeeded(d) ==
  IF ~IsRehashing(d) /\ ShrinkDue(d) /\ Size(d.exp0) > used(d, 0)
  THEN Resize(d, used(d, 0)) ELSE d

\* When dictShrinkIfNeeded returns DICT_ERR: it was free to shrink the table
\* and found it full enough.
ShrinkErr(d) ==
  ~IsRehashing(d) /\ Size(d.exp0) > Size(INITIAL_EXP) /\ ~ShrinkDue(d)

-----------------------------------------------------------------------------
\* While a child runs, only a resize by a large factor goes on.
RehashAllowed(d) ==
  LET s0 == Size(d.exp0)
      s1 == Size(d.exp1)
  IN
  /\ IsRehashing(d)
  /\ child => ~ \/ s1 > s0 /\ s1 < force_resize_ratio * s0
                \/ s1 < s0 /\ s0 < MIN_FILL * force_resize_ratio * s1

\* rehashEntriesInBucketAtIndex
MoveBucket(d, i) ==
  [d EXCEPT !.where = [k \in Key |-> IF k \in Chain(d, 0, d.exp0, i)
                                     THEN 1 ELSE d.where[k]]]

\* dictCheckRehashingCompleted: table 1 becomes table 0.
CheckCompletedNoReset(d) ==
  IF In(d, 0) # {} THEN d
  ELSE [where |-> [k \in Key |-> IF d.where[k] = 1 THEN 0 ELSE None],
        exp0 |-> d.exp1, exp1 |-> -1, rehashidx |-> d.rehashidx]
CheckCompleted(d) ==
  IF In(d, 0) # {} THEN d
  ELSE [where |-> [k \in Key |-> IF d.where[k] = 1 THEN 0 ELSE None],
        exp0 |-> d.exp1, exp1 |-> -1, rehashidx |-> -1]

\* dictRehash(d, 1)
Rehash(d) ==
  LET i == Min({Bucket(d.exp0, hash[k]) : k \in In(d, 0)}) IN
  IF ~RehashAllowed(d) THEN d
  ELSE IF In(d, 0) = {} THEN CheckCompleted(d)
  ELSE IF i - d.rehashidx >= empty_visits
       THEN [d EXCEPT !.rehashidx = @ + empty_visits]
       ELSE CheckCompleted([MoveBucket(d, i) EXCEPT !.rehashidx = i + 1])

\* _dictBucketRehash: one bucket out of turn; rehashidx stays.
BucketRehash(d, i) ==
  IF RehashAllowed(d) THEN CheckCompleted(MoveBucket(d, i)) ELSE d

\* _dictRehashStepIfNeeded: the visited bucket if it is still in table 0,
\* else the next one.  (A variant counts the visited bucket as the next.)
RehashStepAdvancing(d, h) ==
  LET i == Bucket(d.exp0, h) IN
  IF ~IsRehashing(d) THEN d
  ELSE IF i >= d.rehashidx /\ Chain(d, 0, d.exp0, i) # {}
       THEN IF RehashAllowed(d)
            THEN CheckCompleted([MoveBucket(d, i) EXCEPT !.rehashidx = i + 1])
            ELSE d
       ELSE Rehash(d)
RehashStep(d, h) ==
  LET i == Bucket(d.exp0, h) IN
  IF ~IsRehashing(d) THEN d
  ELSE IF i >= d.rehashidx /\ Chain(d, 0, d.exp0, i) # {}
       THEN BucketRehash(d, i) ELSE Rehash(d)

\* The search of dictFind, dictGenericDelete and dictFindPositionForInsert:
\* table 0 is passed over where its bucket has been moved.
Finds(d, k) ==
  \/ /\ d.exp0 # -1 /\ Bucket(d.exp0, hash[k]) >= d.rehashidx
     /\ d.where[k] = 0
  \/ IsRehashing(d) /\ d.where[k] = 1

\* dictFindPositionForInsert rehashes and expands before it searches.
FindPosition(d, k) ==
  ExpandIfNeeded(IF d.exp0 = -1 THEN d ELSE RehashStep(d, hash[k]))

\* dictAddRaw: the new entry goes to table 1 during a rehash.
Add(d, k) ==
  LET e == FindPosition(d, k) IN
  IF Finds(e, k) THEN e
  ELSE [e EXCEPT !.where[k] = IF IsRehashing(e) THEN 1 ELSE 0]

\* The unlinking of dictGenericDelete, with rehashing paused or done before.
Unlink(d, k) ==
  IF Finds(d, k) THEN ShrinkIfNeeded([d EXCEPT !.where[k] = None]) ELSE d

Delete(d, k) ==
  IF Members(d) = {} THEN d ELSE Unlink(RehashStep(d, hash[k]), k)

\* dictFind
Find(d, k) == IF Members(d) = {} THEN d ELSE RehashStep(d, hash[k])

-----------------------------------------------------------------------------
\* The n low bits of v in reverse: rev() after the mask is filled in.
Bit(v, i) == (v \div 2 ^ i) % 2
rev == [n \in 0..(HashBits + 1) |-> [v \in 0..(2 ^ n - 1) |->
          SumSet({Bit(v, i) * 2 ^ (n - 1 - i) : i \in 0..(n - 1)})]]

\* v |= ~m; v = rev(v); v++; v = rev(v)
NextCursorForward(n, v) == ((v % Size(n)) + 1) % Size(n)
NextCursor(n, v) == rev[n][(rev[n][v % Size(n)] + 1) % Size(n)]

\* The buckets of the larger table (2^n1) visited for cursor v: the
\* expansions of v in the smaller one (2^n0), and the cursor after them.
Expansions(n0, n1, v) ==
  LET walk[x \in 0..(Size(n1) - 1)] ==
        LET y == NextCursor(n1, x) IN
        IF y \div Size(n0) = 0 THEN [visited |-> {x}, next |-> y]
        ELSE [walk[y] EXCEPT !.visited = @ \cup {x}]
  IN walk[v % Size(n1)]

\* dictScan: the keys it emits for cursor v and the cursor it returns.
Scan(d, v) ==
  LET small == IF d.exp0 > d.exp1 THEN 1 ELSE 0
      e0 == IF small = 0 THEN d.exp0 ELSE d.exp1
      e1 == IF small = 0 THEN d.exp1 ELSE d.exp0
      x == Expansions(e0, e1, v)
  IN
  IF Members(d) = {} THEN [emitted |-> {}, next |-> 0]
  ELSE IF ~IsRehashing(d)
  THEN [emitted |-> Chain(d, 0, d.exp0, Bucket(d.exp0, v)),
        next |-> NextCursor(d.exp0, v)]
  ELSE [emitted |-> Chain(d, small, e0, Bucket(e0, v)) \cup
                    UNION {Chain(d, 1 - small, e1, i) : i \in x.visited},
        next |-> x.next]
=============================================================================
