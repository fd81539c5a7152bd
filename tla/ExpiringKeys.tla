---------------------------- MODULE ExpiringKeys ----------------------------
(***************************************************************************)
(* What the shop asks of Redis, and what InventoryRoutes assumes of it: a  *)
(* table of keys that lapse, and a set of keys whose lapse the listener    *)
(* has still to hear of.  A notice may be lost, but none is made up.       *)
(***************************************************************************)
EXTENDS Naturals

CONSTANTS Key,
          Value        \* one for each life of a key; 0 is "no such key"
VARIABLES held,        \* [Key -> Value \cup {0}]
          notices      \* the keys with an "expired" message under way

Init == held = [k \in Key |-> 0] /\ notices = {}

\* What becomes of the notices when k lapses: delivered, lost, or lost
\* together with every other one (the listener's connection is closed).
LapseNoticed(k) == notices' \in {notices, notices \cup {k}, {}}

Lapse(k) == held[k] # 0 /\ held' = [held EXCEPT ![k] = 0] /\ LapseNoticed(k)

\* SETEX, over whatever was there: an old value that had already lapsed is
\* announced now.
Put(k, v) ==
  /\ v # held[k]
  /\ held' = [held EXCEPT ![k] = v]
  /\ IF held[k] = 0 THEN UNCHANGED notices ELSE LapseNoticed(k)

Remove(k) == held' = [held EXCEPT ![k] = 0] /\ UNCHANGED notices

\* The listener takes a message; another one for the same key may follow.
Take(k) ==
  k \in notices /\ notices' \in {notices, notices \ {k}} /\ UNCHANGED held

LoseNotices == notices' = {} /\ UNCHANGED held

Next ==
  \/ \E k \in Key : Lapse(k) \/ Remove(k) \/ Take(k)
  \/ \E k \in Key, v \in Value : Put(k, v)
  \/ LoseNotices
=============================================================================
