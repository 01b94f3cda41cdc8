------------------------------- MODULE Mempool -------------------------------
(***************************************************************************)
(* The transaction pool of polay-mempool (pool.rs), used at once by the    *)
(* RPC tasks and by the validator loop.                                    *)
(*                                                                         *)
(* A transaction stands for its hash.  `pending` and `recently_seen` are   *)
(* the sets of keys of the two maps.  `by_sender` maps a sender and a      *)
(* nonce to one hash: it is the set of the hashes it holds, of which no    *)
(* two have one key, and `queues` the set of senders it has a queue for,   *)
(* an empty one included.                                                  *)
(*                                                                         *)
(* Every operation on a DashMap is atomic and nothing is locked between    *)
(* two of them, so an operation of the pool takes one step per write, and  *)
(* one per check of insert() that reads a map (a scan of a map, or two     *)
(* reads of one check, are one step); what reads no map belongs to the     *)
(* step it follows.  Thread t is at pc[t] with the transaction tx[t] to    *)
(* insert, and its remove() deletes victim[t].                             *)
(***************************************************************************)
EXTENDS Integers, FiniteSets, FiniteSetsExt

CONSTANTS Txs, Sender, Nonce, Fee, Invalid, Threads, None,
          max_size, max_per_account, min_fee, max_nonce_gap

ASSUME MempoolAssumption ==
    /\ None \notin Txs
    /\ Invalid \subseteq Txs
    /\ Nonce \in [Txs -> Nat] /\ Fee \in [Txs -> Nat]
    /\ max_size \in Nat /\ max_per_account \in Nat
    /\ min_fee \in Nat /\ max_nonce_gap \in Nat

VARIABLES pending, by_sender, queues, recently_seen, pc, tx, victim

pool == <<pending, by_sender, queues, recently_seen>>

vars == <<pending, by_sender, queues, recently_seen, pc, tx, victim>>

(* The queue of a sender, and what the entry of t's sender and nonce holds.*)
Queue(s) == {u \in by_sender : Sender[u] = s}

SameKey(t) == {u \in Txs : Sender[u] = Sender[t] /\ Nonce[u] = Nonce[t]}

Init ==
    /\ pending = {} /\ by_sender = {} /\ queues = {} /\ recently_seen = {}
    /\ pc = [t \in Threads |-> "idle"]
    /\ tx = [t \in Threads |-> None]
    /\ victim = [t \in Threads |-> None]

Goto(t, label) == pc' = [pc EXCEPT ![t] = label]

(* The operation ends, with or without an error.                           *)
Return(t) ==
    /\ Goto(t, "idle")
    /\ tx' = [tx EXCEPT ![t] = None]
    /\ victim' = [victim EXCEPT ![t] = None]

-----------------------------------------------------------------------------
(* insert(x), checks 1 to 1c: known hashes and the chain id.  A signature  *)
(* that does not verify (check 5) is refused later; Invalid is either.     *)
Insert(t, x) ==
    /\ pc[t] = "idle"
    /\ x \notin pending /\ x \notin recently_seen
    /\ Goto(t, "capacity")
    /\ tx' = [tx EXCEPT ![t] = x]
    /\ UNCHANGED <<pool, victim>>

(* Fault: the pool is full only beyond its size.                           *)
HasRoomForOneMore(t) ==
    /\ pc[t] = "capacity"
    /\ Cardinality(pending) <= max_size
    /\ Goto(t, "limits")
    /\ UNCHANGED <<pool, tx, victim>>

(* Check 2: when the pool is full, try_evict_lowest_fee picks a victim and *)
(* remove() deletes it, ...                                                *)
HasRoom(t) ==
    /\ pc[t] = "capacity"
    /\ Cardinality(pending) < max_size
    /\ Goto(t, "limits")
    /\ UNCHANGED <<pool, tx, victim>>

PickVictim(t) ==
    /\ pc[t] = "capacity"
    /\ Cardinality(pending) >= max_size
    /\ \E v \in pending :
          /\ \A u \in pending : Fee[v] <= Fee[u]
          /\ Fee[tx[t]] > Fee[v]
          /\ victim' = [victim EXCEPT ![t] = v]
    /\ Goto(t, "evict")
    /\ UNCHANGED <<pool, tx>>

MempoolFull(t) ==
    /\ pc[t] = "capacity"
    /\ Cardinality(pending) >= max_size
    /\ \A v \in pending : Fee[tx[t]] <= Fee[v]
    /\ Return(t)
    /\ UNCHANGED pool

(* Fault: the victim outlives its removal.                                 *)
EndRemoveKeepsVictim(t) ==
    /\ Goto(t, IF tx[t] = None THEN "idle" ELSE "limits")
    /\ UNCHANGED victim

(* remove() returns to insert(), or to the caller of remove_batch; either  *)
(* goes on whether or not the hash was still there.                        *)
EndRemove(t) ==
    /\ Goto(t, IF tx[t] = None THEN "idle" ELSE "limits")
    /\ victim' = [victim EXCEPT ![t] = None]

(* Fault: the queue of the sender is left alone.                           *)
RemovePendingOnly(t) ==
    /\ pc[t] = "evict"
    /\ pending' = pending \ {victim[t]}
    /\ EndRemove(t)
    /\ UNCHANGED <<by_sender, queues, recently_seen, tx>>

(* ... from the primary store, ...                                         *)
RemovePending(t) ==
    /\ pc[t] = "evict"
    /\ pending' = pending \ {victim[t]}
    /\ IF victim[t] \in pending THEN Goto(t, "unindex") /\ UNCHANGED victim
                                ELSE EndRemove(t)
    /\ UNCHANGED <<by_sender, queues, recently_seen, tx>>

(* ... then from the queue of its sender, whatever hash is queued at its   *)
(* nonce, ...                                                              *)
RemoveQueued(t) ==
    LET s == Sender[victim[t]]
    IN  /\ pc[t] = "unindex"
        /\ by_sender' = by_sender \ SameKey(victim[t])
        /\ IF s \in queues /\ Queue(s) \subseteq SameKey(victim[t])
           THEN Goto(t, "drop") /\ UNCHANGED victim
           ELSE EndRemove(t)
        /\ UNCHANGED <<pending, queues, recently_seen, tx>>

(* ... and a queue that was left empty is dropped, in a step of its own.   *)
DropQueue(t) ==
    LET s == Sender[victim[t]]
    IN  /\ pc[t] = "drop"
        /\ queues' = queues \ {s}
        /\ by_sender' = by_sender \ Queue(s)
        /\ EndRemove(t)
        /\ UNCHANGED <<pending, recently_seen, tx>>

(* Checks 3 and 4b read the sender's queue, check 4 the fee, check 5 the   *)
(* signature.                                                              *)
WithinLimits(x) ==
    LET queue == Queue(Sender[x])
    IN  /\ Cardinality(queue) < max_per_account
        /\ Fee[x] >= min_fee
        /\ queue # {} =>
              Nonce[x] - Min({Nonce[u] : u \in queue}) <= max_nonce_gap
        /\ x \notin Invalid

CheckLimits(t) ==
    /\ pc[t] = "limits"
    /\ IF WithinLimits(tx[t])
       THEN Goto(t, "store") /\ UNCHANGED <<tx, victim>>
       ELSE Return(t)
    /\ UNCHANGED pool

Store(t) ==
    /\ pc[t] = "store"
    /\ pending' = pending \cup {tx[t]}
    /\ Goto(t, "index")
    /\ UNCHANGED <<by_sender, queues, recently_seen, tx, victim>>

Index(t) ==
    /\ pc[t] = "index"
    /\ by_sender' = (by_sender \ SameKey(tx[t])) \cup {tx[t]}
    /\ queues' = queues \cup {Sender[tx[t]]}
    /\ Return(t)
    /\ UNCHANGED <<pending, recently_seen>>

-----------------------------------------------------------------------------
(* remove(x), of remove_batch after a commit and of evict_expired.         *)
Remove(t, x) ==
    /\ pc[t] = "idle"
    /\ x \in pending
    /\ Goto(t, "evict")
    /\ victim' = [victim EXCEPT ![t] = x]
    /\ UNCHANGED <<pool, tx>>

(* prune_below_nonce, when no other operation runs beside it.              *)
PruneBelowNonce(t, s, nonce) ==
    LET stale == {u \in Queue(s) : Nonce[u] < nonce}
    IN  /\ \A u \in Threads : pc[u] = "idle"
        /\ stale # {}
        /\ by_sender' = by_sender \ stale
        /\ pending' = pending \ stale
        /\ queues' = IF Queue(s) = stale THEN queues \ {s} ELSE queues
        /\ UNCHANGED <<recently_seen, pc, tx, victim>>

MarkSeen(t, x) ==
    /\ pc[t] = "idle"
    /\ recently_seen' = recently_seen \cup {x}
    /\ UNCHANGED <<pending, by_sender, queues, pc, tx, victim>>

ClearRecentlySeen(t) ==
    /\ pc[t] = "idle"
    /\ recently_seen' = {}
    /\ UNCHANGED <<pending, by_sender, queues, pc, tx, victim>>

(* clear(), when no other operation runs beside it.                        *)
Clear(t) ==
    /\ \A u \in Threads : pc[u] = "idle"
    /\ pending' = {} /\ by_sender' = {} /\ queues' = {}
    /\ recently_seen' = {}
    /\ UNCHANGED <<pc, tx, victim>>

Next ==
    \E t \in Threads :
        \/ \E x \in Txs : Insert(t, x) \/ Remove(t, x) \/ MarkSeen(t, x)
        \/ HasRoom(t) \/ PickVictim(t) \/ MempoolFull(t)
        \/ RemovePending(t) \/ RemoveQueued(t) \/ DropQueue(t)
        \/ CheckLimits(t) \/ Store(t) \/ Index(t)
        \/ \E x \in Txs : PruneBelowNonce(t, Sender[x], Nonce[x])
        \/ ClearRecentlySeen(t) \/ Clear(t)

Spec == Init /\ [][Next]_vars

-----------------------------------------------------------------------------
(* Types, and what an operation holds at each of its steps: remove() has a *)
(* victim exactly while it runs, and only insert() has a transaction.      *)
TypeOK ==
    /\ pending \subseteq Txs /\ by_sender \subseteq Txs
    /\ recently_seen \subseteq Txs
    /\ queues \subseteq {Sender[u] : u \in Txs}
    /\ tx \in [Threads -> Txs \cup {None}]
    /\ victim \in [Threads -> Txs \cup {None}]
    /\ \A t \in Threads :
          /\ victim[t] # None <=> pc[t] \in {"evict", "unindex", "drop"}
          /\ pc[t] = "idle" => tx[t] = None
          /\ pc[t] \in {"capacity", "limits", "store", "index"}
                => tx[t] # None

(* `max_size`: "maximum number of transactions the pool will hold".        *)
PoolIsBounded == Cardinality(pending) <= max_size

Quiet == \A t \in Threads : pc[t] = "idle"

(* Between operations every queued hash is the hash of a pending           *)
(* transaction: a queue entry left behind would count against the limit    *)
(* and the nonce gap of its sender for ever.                               *)
QueuedArePending == Quiet => by_sender \subseteq pending

(* The pool keeps its types and its limits, and between operations its     *)
(* queues hold only transactions that are pending.                         *)
PoolIsConsistent == TypeOK /\ PoolIsBounded /\ QueuedArePending
=============================================================================
