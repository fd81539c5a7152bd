---------------------------- MODULE ExpireCycle ----------------------------
(***************************************************************************)
(* How Redis finds the keys that are past their deadline when nobody reads *)
(* them: serverCron samples db->expires with a cursor kept from call to    *)
(* call, while commands add, look up and delete entries between the calls  *)
(* and the table is resized underneath the cursor.  One call of serverCron *)
(* runs expire, resize, rehash and child handling in that order, and no    *)
(* command runs meanwhile.                                                 *)
(***************************************************************************)
EXTENDS RedisDict

CONSTANTS
  KEYS_PER_LOOP,       \* ACTIVE_EXPIRE_CYCLE_KEYS_PER_LOOP, 20
  ACCEPTABLE_STALE,    \* ACTIVE_EXPIRE_CYCLE_ACCEPTABLE_STALE, 10 (percent)
  BUCKETS_PER_KEY,     \* empty buckets looked at for each key wanted, 20
  SAMPLE_FILL          \* buckets per key beyond which sampling waits, 100

VARIABLES
  dict,        \* db->expires
  due,         \* the keys of it past their deadline
  cursor,      \* db->expires_cursor
  quiet,       \* the clients have stopped sending commands
  phase,       \* where serverCron is; "idle" between calls
  data,        \* the counters of activeExpireCycle's loop
  called,      \* the entries of the visited buckets not yet called back for
  owed,        \* history: present since the scan began and not yet emitted
  missed       \* history: owed when the cursor came back to 0

cronVars == <<cursor, phase, data, called>>
scanVars == <<owed, missed>>
cycleVars == <<hash, child, quiet, dict, due, cronVars, scanVars>>

NoData == [num |-> 0, sampled |-> 0, expired |-> 0, checked |-> 0]

Init ==
  /\ hash \in HashFunctions
  /\ child = FALSE /\ quiet = FALSE /\ dict = EmptyDict /\ due = {}
  /\ cursor = 0 /\ phase = "idle" /\ data = NoData /\ called = {}
  /\ owed = {} /\ missed = {}

-----------------------------------------------------------------------------
Command ==
  phase = "idle" /\ ~quiet /\ UNCHANGED <<hash, child, quiet, cronVars, missed>>

\* setExpire, by SETEX: an existing entry gets a new deadline.
setExpire(k) ==
  /\ Command
  /\ dict' = Add(dict, k)
  /\ due' = due \ {k}
  /\ UNCHANGED owed

\* DEL, or a command that meets a key past its deadline.
kvstoreDictDelete(k) ==
  /\ Command
  /\ k \in Members(dict)
  /\ dict' = Delete(dict, k)
  /\ due' = due \ {k}
  /\ owed' = owed \ {k}

\* getExpire: a lookup, which moves a bucket if a rehash is under way.
getExpire(k) ==
  /\ Command
  /\ k \notin due
  /\ dict' = Find(dict, k)
  /\ UNCHANGED <<due, owed>>

\* A deadline passes.  The callbacks of a scan compare with data.now, so to
\* them it passes before or after all of them.
Passes(k) ==
  /\ phase # "callback"
  /\ k \in Members(dict) \ due
  /\ due' = due \cup {k}
  /\ UNCHANGED <<hash, child, quiet, dict, cronVars, scanVars>>

\* The traffic ends (for good, as far as the model goes).
TrafficStops ==
  /\ phase = "idle" /\ ~quiet
  /\ quiet' = TRUE
  /\ UNCHANGED <<hash, child, dict, due, cronVars, scanVars>>

-----------------------------------------------------------------------------
\* databasesCron calls activeExpireCycle.
CronStarts ==
  /\ phase = "idle"
  /\ phase' = "loop"
  /\ UNCHANGED <<hash, child, quiet, dict, due, cursor, data, called, scanVars>>

CycleLoop ==
  /\ phase = "loop"
  /\ IF Members(dict) = {}
     THEN phase' = "resize" /\ UNCHANGED data
     ELSE /\ phase' = "scan"
          /\ data' = [NoData EXCEPT
                        !.num = Min({Cardinality(Members(dict)), KEYS_PER_LOOP})]
  /\ UNCHANGED <<hash, child, quiet, dict, due, cursor, called, scanVars>>

\* isExpiryDictValidForSamplingCb
ValidForSampling ==
  LET buckets == Size(dict.exp0) + Size(dict.exp1) IN
  ~ /\ buckets > Size(INITIAL_EXP)
    /\ (Cardinality(Members(dict)) * SAMPLE_FILL) \div buckets < 1

\* kvstoreScan with one dictionary: one that is not valid ends the scan.
kvstoreScan ==
  IF ValidForSampling THEN Scan(dict, cursor) ELSE [emitted |-> {}, next |-> 0]

\* Whether the loop goes round again, and whether it samples further.
Repeat(new) ==
  new.sampled = 0 \/ (new.expired * 100) \div new.sampled > ACCEPTABLE_STALE
Sampling(new) ==
  new.sampled < new.num /\ new.checked < new.num * BUCKETS_PER_KEY

\* The time limit may end the cycle where it would go round again.
AfterScanNotDone(next, new) ==
  IF Sampling(new) THEN {"scan"}
  ELSE IF Repeat(new) THEN {"loop", "resize"} ELSE {"resize"}
AfterScan(next, new) ==
  IF next = 0 THEN {"resize"}
  ELSE IF Sampling(new) THEN {"scan"}
  ELSE IF Repeat(new) THEN {"loop", "resize"} ELSE {"resize"}

\* The scan of one cursor: it visits the entries and fixes the next cursor.
CycleScan ==
  LET s == kvstoreScan IN
  /\ phase = "scan"
  /\ phase' = "callback"
  /\ called' = s.emitted
  /\ cursor' = s.next
  /\ owed' = IF ValidForSampling THEN owed \ s.emitted ELSE {}
  /\ UNCHANGED <<hash, child, quiet, dict, due, data, missed>>

\* The entries are unlinked while the scan has rehashing paused.  (A variant
\* unlinks whatever it is called for.)
expireScanCallbackAll(k) ==
  /\ phase = "callback" /\ k \in called
  /\ called' = called \ {k}
  /\ dict' = Unlink(dict, k) /\ data' = [data EXCEPT !.sampled = @ + 1, !.expired = @ + 1]
  /\ due' = due \ {k}
  /\ UNCHANGED <<hash, child, quiet, cursor, phase, scanVars>>
expireScanCallback(k) ==
  /\ phase = "callback" /\ k \in called
  /\ called' = called \ {k}
  /\ IF k \in due
     THEN dict' = Unlink(dict, k) /\ data' = [data EXCEPT !.sampled = @ + 1, !.expired = @ + 1]
     ELSE UNCHANGED dict /\ data' = [data EXCEPT !.sampled = @ + 1]
  /\ due' = due \ {k}
  /\ UNCHANGED <<hash, child, quiet, cursor, phase, scanVars>>

\* activeExpireCycle goes on after the scan.
CycleGoesOn ==
  LET new == [data EXCEPT !.checked = @ + 1] IN
  /\ phase = "callback" /\ called = {}
  /\ phase' \in AfterScan(cursor, new)
  /\ data' = IF phase' = "scan" THEN new ELSE NoData
  /\ IF cursor # 0 THEN UNCHANGED scanVars
     ELSE owed' = Members(dict) /\ missed' = owed
  /\ UNCHANGED <<hash, child, quiet, dict, due, cursor, called>>

-----------------------------------------------------------------------------
\* Without a child, databasesCron tries to shrink or expand the table, ...
TryResizeExpandOnly ==
  /\ phase = "resize"
  /\ IF child \/ dict.exp0 = -1
     THEN phase' = "children" /\ UNCHANGED dict
     ELSE dict' = ExpandIfNeeded(dict) /\ phase' = "rehash"
  /\ UNCHANGED <<hash, child, quiet, due, cursor, data, called, scanVars>>
TryResize ==
  /\ phase = "resize"
  /\ IF child \/ dict.exp0 = -1
     THEN phase' = "children" /\ UNCHANGED dict
     ELSE /\ dict' = IF ShrinkErr(dict) THEN ExpandIfNeeded(dict)
                                       ELSE ShrinkIfNeeded(dict)
          /\ phase' = "rehash"
  /\ UNCHANGED <<hash, child, quiet, due, cursor, data, called, scanVars>>

\* ... and moves buckets for a millisecond.
IncrementallyRehash ==
  /\ phase = "rehash"
  /\ dict' = Rehash(dict)
  /\ phase' \in {"children"} \cup IF IsRehashing(dict') THEN {"rehash"} ELSE {}
  /\ UNCHANGED <<hash, child, quiet, due, cursor, data, called, scanVars>>

\* serverCron reaps a child that has ended, or starts one at a save point.
ChildReaped ==
  /\ phase = "children" /\ child
  /\ child' = FALSE /\ phase' = "idle"
  /\ UNCHANGED <<hash, quiet, dict, due, cursor, data, called, scanVars>>

ChildForked ==
  /\ phase = "children" /\ ~child
  /\ child' = TRUE /\ phase' = "idle"
  /\ UNCHANGED <<hash, quiet, dict, due, cursor, data, called, scanVars>>

NoChildEvent ==
  /\ phase = "children"
  /\ phase' = "idle"
  /\ UNCHANGED <<hash, child, quiet, dict, due, cursor, data, called, scanVars>>

CronStep ==
  \/ CronStarts \/ CycleLoop \/ CycleScan \/ CycleGoesOn
  \/ \E k \in Key : expireScanCallback(k)
  \/ TryResize \/ IncrementallyRehash
  \/ ChildReaped \/ ChildForked \/ NoChildEvent

Next ==
  \/ \E k \in Key : setExpire(k) \/ kvstoreDictDelete(k) \/ getExpire(k) \/ Passes(k)
  \/ TrafficStops
  \/ CronStep

Spec == Init /\ [][Next]_cycleVars

\* serverCron is called hz times a second and runs to its end, and a child
\* that saves ends some day.
FairSpec == Spec /\ WF_cycleVars(CronStep) /\ SF_cycleVars(ChildReaped)

-----------------------------------------------------------------------------
\* Types; the scan owes only entries that are there.
CycleTypeOK ==
  /\ dict.where \in [Key -> {None, 0, 1}]
  /\ {dict.exp0, dict.exp1} \subseteq {-1} \cup Exps
  /\ dict.rehashidx \in -1..Size(dict.exp0)
  /\ cursor \in Nat
  /\ due \subseteq Members(dict) /\ owed \subseteq Members(dict)
  /\ called \subseteq Key
  /\ phase \in {"idle", "loop", "scan", "callback", "resize", "rehash", "children"}

\* A lookup finds every entry: while a resize is half done, the search that
\* passes over table 0 below rehashidx passes over no entry that is there.
LookupFindsAll == \A k \in Members(dict) : Finds(dict, k)

\* Why it does: there is a second table exactly while a rehash is under way,
\* and an entry of table 0 is in a bucket that has not been moved, although
\* buckets are also moved out of turn and a callback may start a resize.
DictOK(d) ==
  /\ d \in [where: [Key -> {None, 0, 1}], exp0: {-1} \cup Exps,
            exp1: {-1} \cup Exps, rehashidx: Int]
  /\ d.rehashidx \in -1..Size(d.exp0)
  /\ IsRehashing(d) <=> d.exp1 # -1
  /\ IsRehashing(d) => d.exp0 # -1
  /\ In(d, 1) # {} => IsRehashing(d)
  /\ \A k \in In(d, 0) : d.exp0 # -1 /\ Bucket(d.exp0, hash[k]) >= d.rehashidx

CycleInv ==
  /\ hash \in [Key -> Nat]
  /\ DictOK(dict)
  /\ due \subseteq Members(dict) /\ owed \subseteq Members(dict)
  /\ called \subseteq Key /\ called \cap owed = {}

\* An entry leaves the table by its own deletion or because its deadline has
\* passed: no resize, no moved bucket and no other key's removal drops it.
EntriesLeaveByName ==
  [][\A k \in Key : k \in Members(dict) /\ k \notin Members(dict)'
                    => k \in due \/ kvstoreDictDelete(k)]_cycleVars

\* The scan's guarantee (the comment above dictScan): an entry present from
\* the start of an iteration to its end is emitted, whatever is added,
\* deleted, expired or resized between the calls.
ScanMissesNothing == missed = {}

\* However the commands leave the table, once they pause every key past its
\* deadline goes although nobody reads it, even from a table that is too
\* sparse to be sampled until it has been resized, or caught half resized
\* by a saving child.
DueKeysGo == \A k \in Key : quiet /\ k \in due ~> k \notin due

\* A call of serverCron returns to the commands waiting for it.
CronReturns == phase # "idle" ~> phase = "idle"
=============================================================================
