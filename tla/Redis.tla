------------------------------- MODULE Redis -------------------------------
(***************************************************************************)
(* The part of the Redis server in backend/redis-stable that holds the     *)
(* shop's reservations: SETEX, GET and DEL on keys with a deadline, lazy   *)
(* and active expiry, the "expired" messages sent to the listener's        *)
(* connection, and the RDB file that a restart loads.  Every SETEX writes  *)
(* a number of its own, so that the model can tell one life of a key from  *)
(* the next; fate, a history variable, says what became of each.           *)
(***************************************************************************)
EXTENDS Naturals, Sequences, FiniteSets

CONSTANTS Key,
          Lifetime,      \* the seconds given to SETEX, in clock ticks
          MaxTime,       \* bound: the clock stops here
          MaxSet,        \* bound: SETEX commands in a behaviour
          OutputLimit    \* client-output-buffer-limit pubsub, in messages

ASSUME RedisAssumption ==
  Lifetime \in Nat \ {0} /\ MaxTime \in Nat \ {0} /\ MaxSet \in Nat
  /\ OutputLimit \in Nat \ {0}

VARIABLES
  now,                   \* mstime()
  server,                \* "up", or how it went down: "stopped", "crashed"
  downAt,                \* when it went down
  keys, expires,         \* db->keys and db->expires; 0 where there is none
  events,                \* notify_keyspace_events includes "Ex"
  subscribed, buffer,    \* the listener's client and its output buffer
  dirty, dirty_before_bgsave, lastbgsave_status,
  child,                 \* the BGSAVE child: its snapshot and how it ended
  rdb,                   \* dump.rdb
  nset, fate, deadline   \* history: SETEX so far, and each one's outcome

dbVars == <<keys, expires>>
clientVars == <<events, subscribed, buffer>>
saveVars == <<dirty_before_bgsave, lastbgsave_status, child, rdb>>
processVars == <<now, server, downAt>>
historyVars == <<nset, fate, deadline>>
vars == <<processVars, dbVars, clientVars, dirty, saveVars, historyVars>>

Life == 1..MaxSet
Empty == [k \in Key |-> 0]
\* What rdbSaveDb writes of each entry: the value and its deadline.
Memory == [keys |-> keys, expires |-> expires]
NoFile == [keys |-> Empty, expires |-> Empty]
NoChild == [db |-> NoFile, exit |-> "none"]

\* A SETEX is "held" until it ends in one of the other ways: its key was
\* "deleted" or its value "replaced"; it expired and the message is
\* "announced" (in the buffer), "handled", "dropped" with the connection or
\* "unheard" (published to nobody); it "lapsed" while the server was down,
\* or was "lost" with what the RDB file did not hold.
Fate == {"none", "held", "deleted", "replaced", "announced", "handled",
         "dropped", "unheard", "lapsed", "lost"}

-----------------------------------------------------------------------------
\* After a deployment: deploy.bat has issued CONFIG SET and started the
\* listener.
Init ==
  /\ now = 1 /\ server = "up" /\ downAt = 0
  /\ keys = Empty /\ expires = Empty
  /\ events = TRUE /\ subscribed = TRUE /\ buffer = <<>>
  /\ dirty = 0 /\ dirty_before_bgsave = 0 /\ lastbgsave_status = "ok"
  /\ child = NoChild /\ rdb = NoFile
  /\ nset = 0 /\ fate = [n \in Life |-> "none"]
  /\ deadline = [n \in Life |-> 0]

Up == server = "up"

\* keyIsExpiredInternal, for commands.
keyIsExpired(k) == expires[k] # 0 /\ now > expires[k]

\* What a closed connection takes with it.
Dropped(f) == [n \in Life |-> IF f[n] = "announced" THEN "dropped" ELSE f[n]]

Disconnect(f) ==
  /\ subscribed' = FALSE
  /\ buffer' = <<>>
  /\ fate' = Dropped(f)

\* The subscriber's output buffer is over client-output-buffer-limit.
OverLimit == Len(buffer) >= OutputLimit

\* The publication to the listener's pattern.  The message carries the key
\* alone; the number beside it is for the history.  A client over its output
\* limit is closed and its buffer discarded.
publish(k, n, f) ==
  IF ~subscribed
  THEN fate' = [f EXCEPT ![n] = "unheard"] /\ UNCHANGED <<subscribed, buffer>>
  ELSE IF OverLimit THEN Disconnect([f EXCEPT ![n] = "dropped"])
  ELSE /\ fate' = [f EXCEPT ![n] = "announced"]
       /\ buffer' = Append(buffer, <<k, n>>)
       /\ UNCHANGED subscribed

\* notifyKeyspaceEvent, "expired" of k.
notify(k, f) ==
  /\ IF events THEN publish(k, keys[k], f)
     ELSE fate' = [f EXCEPT ![keys[k]] = "unheard"] /\ UNCHANGED <<subscribed, buffer>>
  /\ UNCHANGED events

\* writeCommandsDeniedByDiskError: SETEX and DEL are answered with MISCONF.
WritesDenied == lastbgsave_status = "err"

\* The deadline SETEX leaves: an existing one is overwritten.
NewExpireKept(k) == IF expires[k] # 0 THEN expires[k] ELSE now + Lifetime
NewExpire(k) == now + Lifetime

\* An expired old value goes first, by lookupKeyWrite.
SETEX(k) ==
  LET n == nset + 1
      born == [fate EXCEPT ![n] = "held"]
  IN
  /\ Up /\ ~WritesDenied
  /\ nset < MaxSet /\ now + Lifetime <= MaxTime
  /\ keys' = [keys EXCEPT ![k] = n]
  /\ expires' = [expires EXCEPT ![k] = NewExpire(k)]
  /\ deadline' = [deadline EXCEPT ![n] = now + Lifetime]
  /\ nset' = n
  /\ dirty' = dirty + 1
  /\ IF keyIsExpired(k) THEN notify(k, born)
     ELSE /\ fate' = IF keys[k] = 0 THEN born
                                    ELSE [born EXCEPT ![keys[k]] = "replaced"]
          /\ UNCHANGED clientVars
  /\ UNCHANGED <<processVars, saveVars>>

\* deleteKeyAndPropagate: the key goes, then the message; dirty stays.
deleteExpiredKeyKept(k) ==
  /\ notify(k, fate)
  /\ UNCHANGED <<processVars, dbVars, dirty, saveVars, nset, deadline>>
deleteExpiredKey(k) ==
  /\ keys' = [keys EXCEPT ![k] = 0]
  /\ expires' = [expires EXCEPT ![k] = 0]
  /\ notify(k, fate)
  /\ UNCHANGED <<processVars, dirty, saveVars, nset, deadline>>

\* expireIfNeeded, where it deletes.
expireIfNeeded(k) == keyIsExpired(k) /\ deleteExpiredKey(k)

\* A GET that finds nothing expired changes nothing.
GET(k) == Up /\ expireIfNeeded(k)

\* The active cycle takes a key at its deadline, a command only after it.
activeExpireOnTime(k) == Up /\ now = expires[k] /\ deleteExpiredKey(k)
activeExpire(k) ==
  Up /\ expires[k] # 0 /\ now >= expires[k] /\ deleteExpiredKey(k)

dbSyncDelete(k) ==
  keys' = [keys EXCEPT ![k] = 0] /\ expires' = [expires EXCEPT ![k] = 0]

DEL(k) ==
  /\ Up /\ ~WritesDenied
  /\ \/ expireIfNeeded(k)
     \/ /\ keys[k] # 0 /\ ~keyIsExpired(k)
        /\ dbSyncDelete(k)
        /\ dirty' = dirty + 1
        /\ fate' = [fate EXCEPT ![keys[k]] = "deleted"]
        /\ UNCHANGED <<processVars, clientVars, saveVars, nset, deadline>>

-----------------------------------------------------------------------------
\* PSUBSCRIBE by a (re)started listener.
psubscribe ==
  /\ Up /\ ~subscribed
  /\ subscribed' = TRUE
  /\ UNCHANGED <<processVars, dbVars, events, buffer, dirty, saveVars,
                 historyVars>>

\* The listener's loop reads the next message.
ListenerReads ==
  /\ Up /\ buffer # <<>>
  /\ buffer' = Tail(buffer)
  /\ fate' = [fate EXCEPT ![Head(buffer)[2]] = "handled"]
  /\ UNCHANGED <<processVars, dbVars, events, subscribed, dirty, saveVars,
                 nset, deadline>>

\* The listener dies or the link breaks: freeClient.
freeClient ==
  /\ Up /\ subscribed
  /\ Disconnect(fate)
  /\ UNCHANGED <<processVars, dbVars, events, dirty, saveVars, nset, deadline>>

\* deploy.bat: CONFIG SET notify-keyspace-events Ex, then the listener is
\* deleted and started anew.
Deploy ==
  /\ Up
  /\ events' = TRUE
  /\ Disconnect(fate)
  /\ UNCHANGED <<processVars, dbVars, dirty, saveVars, nset, deadline>>

-----------------------------------------------------------------------------
\* serverCron: a save point is reached, whether the last BGSAVE worked or
\* not (after a delay), and rdbSaveBackground forks, or cannot.
SavePointNoRetry == dirty >= 1 /\ lastbgsave_status = "ok"
SavePoint == dirty >= 1

rdbSaveBackground ==
  /\ Up /\ child.exit = "none"
  /\ SavePoint
  /\ dirty_before_bgsave' = dirty
  /\ child' = [db |-> Memory, exit |-> "running"]
  /\ UNCHANGED <<processVars, dbVars, clientVars, dirty, lastbgsave_status, rdb,
                 historyVars>>

ForkFails ==
  /\ Up /\ child.exit = "none"
  /\ SavePoint
  /\ dirty_before_bgsave' = dirty
  /\ lastbgsave_status' = "err"
  /\ UNCHANGED <<processVars, dbVars, clientVars, dirty, child, rdb,
                 historyVars>>

\* In the child: rdbSave renames its file over dump.rdb.  A write error
\* ends it before the rename, a failing fsync of the directory after it.
ChildSaves ==
  /\ Up /\ child.exit = "running"
  /\ rdb' = child.db
  /\ child' = [child EXCEPT !.exit = "ok"]
  /\ UNCHANGED <<processVars, dbVars, clientVars, dirty, dirty_before_bgsave,
                 lastbgsave_status, historyVars>>

ChildFails ==
  /\ Up /\ child.exit = "running"
  /\ rdb' \in {rdb, child.db}
  /\ child' = [child EXCEPT !.exit = "failed"]
  /\ UNCHANGED <<processVars, dbVars, clientVars, dirty, dirty_before_bgsave,
                 lastbgsave_status, historyVars>>

\* backgroundSaveDoneHandler: only the changes made before the fork are in
\* the file.  A child killed with SIGUSR1 is not an error.
StillDirtyNone == 0
StillDirty == dirty - dirty_before_bgsave

backgroundSaveDone(exit) ==
  /\ Up /\ child.exit = exit
  /\ dirty' = IF exit = "ok" THEN StillDirty ELSE dirty
  /\ lastbgsave_status' = CASE exit = "ok" -> "ok"
                            [] exit = "failed" -> "err"
                            [] exit = "killed" -> lastbgsave_status
  /\ child' = NoChild
  /\ UNCHANGED <<processVars, dbVars, clientVars, dirty_before_bgsave, rdb,
                 historyVars>>

-----------------------------------------------------------------------------
\* The process is gone: memory, connections and CONFIG SET with it.
Exit(how) ==
  /\ now < MaxTime
  /\ server' = how
  /\ downAt' = now
  /\ keys' = Empty /\ expires' = Empty
  /\ events' = FALSE
  /\ Disconnect(fate)
  /\ dirty' = 0 /\ dirty_before_bgsave' = 0 /\ lastbgsave_status' = "ok"
  /\ child' = NoChild
  /\ UNCHANGED <<now, nset, deadline>>

\* finishShutdown kills a saving child and saves in the foreground.
\* (A variant that leaves the file to the child when there is one.)
FinalSaveUnlessChild == IF child.exit = "none" THEN Memory ELSE rdb
FinalSave == Memory

finishShutdown == Up /\ Exit("stopped") /\ rdb' = FinalSave

\* The save fails, before or after the rename: the server goes on.  The
\* child may have renamed its own file before the signal reached it.
ChildFile == IF child.exit = "running" THEN {child.db} ELSE {}

cancelShutdown ==
  /\ Up
  /\ rdb' \in {rdb, Memory} \cup ChildFile
  /\ child' = IF child.exit = "none" THEN child ELSE [child EXCEPT !.exit = "killed"]
  /\ UNCHANGED <<processVars, dbVars, clientVars, dirty, dirty_before_bgsave,
                 lastbgsave_status, historyVars>>

\* A child that is still saving may outlive the server and finish.
Crash ==
  /\ Up /\ Exit("crashed")
  /\ rdb' \in {rdb} \cup ChildFile

\* rdbLoadRioWithLoadingCtx: a key whose deadline has passed is skipped,
\* and nobody is told.
LoadsAll(k) == rdb.keys[k] # 0
Loads(k) == rdb.keys[k] # 0 /\ rdb.expires[k] >= now

LoadedExpire(k) == IF Loads(k) THEN rdb.expires[k] ELSE 0

\* Starting again takes time; notify-keyspace-events is "" in redis.conf.
Restart ==
  LET saved == {rdb.keys[k] : k \in Key}
      loaded == {rdb.keys[k] : k \in {j \in Key : Loads(j)}}
  IN
  /\ ~Up /\ now > downAt
  /\ server' = "up"
  /\ keys' = [k \in Key |-> IF Loads(k) THEN rdb.keys[k] ELSE 0]
  /\ expires' = [k \in Key |-> LoadedExpire(k)]
  /\ fate' = [n \in Life |->
                IF n \in loaded THEN "held"
                ELSE IF fate[n] # "held" THEN fate[n]
                ELSE IF n \in saved THEN "lapsed" ELSE "lost"]
  /\ UNCHANGED <<now, downAt, clientVars, dirty, saveVars, nset, deadline>>

Tick ==
  /\ now < MaxTime
  /\ now' = now + 1
  /\ UNCHANGED <<server, downAt, dbVars, clientVars, dirty, saveVars,
                 historyVars>>

Next ==
  \/ \E k \in Key : SETEX(k) \/ GET(k) \/ DEL(k) \/ activeExpire(k)
  \/ psubscribe \/ ListenerReads \/ freeClient \/ Deploy
  \/ rdbSaveBackground \/ ForkFails \/ ChildSaves \/ ChildFails
  \/ \E exit \in {"ok", "failed", "killed"} : backgroundSaveDone(exit)
  \/ finishShutdown \/ cancelShutdown \/ Crash \/ Restart \/ Tick

Spec == Init /\ [][Next]_vars

\* The event loop runs: the clock advances, serverCron expires, saves and
\* reaps, the listener reads, a stopped server is started again.  Forks and
\* disks that fail do not fail for ever.
Fairness ==
  /\ WF_vars(Tick) /\ WF_vars(Restart) /\ WF_vars(ListenerReads)
  /\ \A k \in Key : WF_vars(activeExpire(k))
  /\ SF_vars(rdbSaveBackground) /\ SF_vars(ChildSaves)
  /\ \A exit \in {"ok", "failed", "killed"} : SF_vars(backgroundSaveDone(exit))

FairSpec == Spec /\ Fairness

-----------------------------------------------------------------------------
\* Types; and db->expires has an entry exactly for the keys of db->keys
\* (every key of the shop is written with SETEX), in memory, in the child
\* and in the file.
Image == [keys : [Key -> 0..MaxSet], expires : [Key -> 0..MaxTime]]
Agree(db) == \A k \in Key : (db.keys[k] = 0) <=> (db.expires[k] = 0)

RedisTypeOK ==
  /\ now \in 1..MaxTime /\ downAt \in 0..MaxTime
  /\ server \in {"up", "stopped", "crashed"}
  /\ events \in BOOLEAN /\ subscribed \in BOOLEAN
  /\ buffer \in Seq(Key \X Life) /\ Len(buffer) <= OutputLimit
  /\ dirty \in Nat /\ dirty_before_bgsave \in Nat
  /\ lastbgsave_status \in {"ok", "err"}
  /\ child \in [db : Image, exit : {"none", "running", "ok", "failed", "killed"}]
  /\ Memory \in Image /\ rdb \in Image
  /\ Agree(Memory) /\ Agree(child.db) /\ Agree(rdb)
  /\ nset \in 0..MaxSet /\ fate \in [Life -> Fate]
  /\ deadline \in [Life -> 0..MaxTime]

\* A reservation key is never announced as expired before the deadline its
\* own SETEX gave it, whatever the key held before and whatever restarts
\* came in between.
NeverEarly ==
  [][\A n \in Life :
       /\ fate[n] = "held"
       /\ fate'[n] \in {"announced", "unheard", "dropped"}
       => now >= deadline[n]]_fate

\* What became of a SETEX is settled: an expiry that was announced never
\* happens again, even if the server crashes and loads an RDB file that
\* still holds the key, so that the listener puts no stock back twice; and
\* a deletion is undone by nothing but such a load.
SettledFates ==
  [][\A n \in Life :
       /\ fate[n] = "announced" => fate'[n] \in {"announced", "handled", "dropped"}
       /\ fate[n] \in {"handled", "dropped", "unheard"} => fate'[n] = fate[n]
       /\ fate[n] \in {"deleted", "replaced", "lapsed", "lost"} /\ Up =>
            fate'[n] = fate[n]]_fate

\* server.dirty = 0 with no child saving means that a crash now would lose
\* nothing: dump.rdb and memory hold the same keys, those at or past their
\* deadline left aside.
Current(db) == {<<k, db.keys[k], db.expires[k]>> : k \in {j \in Key : db.expires[j] > now}}

CleanMeansSaved ==
  Up /\ dirty = 0 /\ child.exit = "none" => Current(Memory) = Current(rdb)

\* A server that was shut down left every SETEX it still held in dump.rdb
\* and nothing else, whatever a BGSAVE child was doing at that moment.
StoppedWithAllSaved ==
  server = "stopped" =>
    {n \in Life : fate[n] = "held"} = {rdb.keys[k] : k \in Key} \ {0}

\* In memory, in the child and in the file, a key holds what one SETEX wrote,
\* with that SETEX's deadline, and no other key holds the same.
Owned(db) ==
  \A k \in Key : db.keys[k] # 0 =>
    /\ db.keys[k] <= nset
    /\ db.expires[k] = deadline[db.keys[k]]
    /\ \A j \in Key : db.keys[j] = db.keys[k] => j = k

\* The messages in the buffer are the announcements under way, each once.
BufferAnnounces ==
  /\ \A i \in 1..Len(buffer) : fate[buffer[i][2]] = "announced"
  /\ \A i, j \in 1..Len(buffer) : buffer[i][2] = buffer[j][2] => i = j
  /\ ~subscribed => buffer = <<>>

\* The fates follow what the server holds; an expiry is not before the
\* deadline, and not after the moment the server went down.
FatesFollow ==
  \A n \in Life :
    /\ n > nset => fate[n] = "none"
    /\ Up => (fate[n] = "held" <=> \E k \in Key : keys[k] = n)
    /\ fate[n] \in {"announced", "handled", "dropped", "unheard"} =>
         deadline[n] <= now /\ (~Up => deadline[n] <= downAt)
    /\ ~Up => fate[n] # "announced"

\* What a child was forked for is still counted as dirty; with nothing
\* changed since, its snapshot is memory, and so is the file once it is done.
ChildIsBehind ==
  /\ child.exit # "none" => dirty_before_bgsave \in 1..dirty
  /\ child.exit \in {"running", "ok"} /\ dirty = dirty_before_bgsave =>
       Current(child.db) = Current(Memory)
  /\ child.exit = "ok" => rdb = child.db

\* A server that is down has no clients, changes or children.
DownIsBare ==
  ~Up => ~subscribed /\ dirty = 0 /\ child = NoChild

\* All of this together is what every step of the server preserves: the
\* database, its two copies, the listener's buffer and the counters of
\* changes stay in agreement through expiries, saves, crashes and restarts.
RedisInv ==
  /\ RedisTypeOK
  /\ Owned(Memory) /\ Owned(child.db) /\ Owned(rdb)
  /\ BufferAnnounces
  /\ FatesFollow
  /\ downAt <= now
  /\ ChildIsBehind
  /\ DownIsBare
  /\ CleanMeansSaved
  /\ StoppedWithAllSaved

\* Every SETEX ends without anybody reading the key, and an announced expiry
\* reaches the listener unless the connection is lost.
EverySetexEnds ==
  \A n \in Life :
    fate[n] \in {"held", "announced"} ~> fate[n] \notin {"held", "announced"}

\* SETEX and DEL are refused after a failed BGSAVE only until a later one
\* succeeds, and a later one is tried.
WritesResume == WritesDenied ~> ~WritesDenied

\* Between restarts the keys and the messages under way behave as the table
\* of lapsing keys that the shop's handlers are modelled with.
Notices == {buffer[i][1] : i \in 1..Len(buffer)}
K == INSTANCE ExpiringKeys
       WITH Value <- Life, held <- keys, notices <- Notices
ImplementsExpiringKeys ==
  K!Init /\ [][Up /\ Up' => K!Next]_<<keys, Notices>>
=============================================================================
