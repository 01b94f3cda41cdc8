---------------------------- MODULE ServiceProofs ----------------------------
(***************************************************************************)
(* Proofs about two services of a node: the mempool, and the peers of the  *)
(* networking service.  The two share no state; each has a specification   *)
(* of its own.                                                             *)
(***************************************************************************)
EXTENDS Mempool, P2PService, FiniteSetTheorems, TLAPS

-----------------------------------------------------------------------------
(* The mempool, for operations that do not overlap.                        *)

Alone == \A t, u \in Threads : t = u

Labels == {"idle", "capacity", "limits", "store", "index", "evict", "unindex", "drop"}

(* What an operation relies on between its steps: the room it found or     *)
(* made is still there when it stores, and of what it removes only the     *)
(* queue entry may outlive the transaction.                                *)
HoldsAt(t) ==
    /\ pc[t] \in {"limits", "store", "unindex", "drop"} => Cardinality(pending) < max_size
    /\ pc[t] = "evict" => victim[t] \in pending
    /\ pc[t] = "index" => tx[t] \in pending
    /\ by_sender \subseteq (IF pc[t] = "unindex" THEN pending \cup {victim[t]} ELSE pending)

PoolInv ==
    /\ PoolIsConsistent
    /\ pc \in [Threads -> Labels] /\ IsFiniteSet(pending)
    /\ \A t \in Threads : HoldsAt(t)

LEMMA PoolStart == Init => PoolInv
<1> SUFFICES ASSUME Init
             PROVE  PoolInv
    OBVIOUS
<1>1. IsFiniteSet(pending) /\ Cardinality(pending) = 0
    BY FS_EmptySet DEF Init
<1>2. TypeOK
    BY MempoolAssumption DEF Init, TypeOK
<1>3. PoolIsConsistent
    BY <1>1, <1>2, MempoolAssumption DEF Init, PoolIsConsistent, PoolIsBounded, QueuedArePending
<1>4. pc \in [Threads -> Labels] /\ \A t \in Threads : HoldsAt(t)
    BY DEF Init, HoldsAt, Labels
<1> QED
    BY <1>1, <1>3, <1>4 DEF PoolInv

(* The state a step of the only thread leaves is the one of its operation. *)
LEMMA PoolOfOne ==
    ASSUME Alone, NEW t \in Threads, TypeOK', PoolIsBounded',
           pc' \in [Threads -> Labels], IsFiniteSet(pending'), HoldsAt(t)'
    PROVE  PoolInv'
<1>1. \A u \in Threads : HoldsAt(u)'
    BY DEF Alone
<1>2. QueuedArePending'
    BY DEF QueuedArePending, Quiet, HoldsAt
<1> QED
    BY <1>1, <1>2 DEF PoolInv, PoolIsConsistent

LEMMA PoolSizes ==
    ASSUME PoolInv
    PROVE  /\ IsFiniteSet(pending) /\ Cardinality(pending) \in Nat
           /\ Cardinality(pending) <= max_size /\ max_size \in Nat
BY FS_CardinalityType, MempoolAssumption DEF PoolInv, PoolIsConsistent, PoolIsBounded

(* Steps that change no map of the pool.                                   *)
LEMMA ChecksKeepPool ==
    ASSUME Alone, PoolInv, NEW t \in Threads,
           \/ \E x \in Txs : Insert(t, x) \/ Remove(t, x)
           \/ HasRoom(t) \/ PickVictim(t) \/ MempoolFull(t) \/ CheckLimits(t)
    PROVE  PoolInv'
<1>1. /\ TypeOK /\ pc \in [Threads -> Labels] /\ HoldsAt(t)
    BY DEF PoolInv, PoolIsConsistent
<1>2. /\ pending' = pending /\ by_sender' = by_sender
      /\ queues' = queues /\ recently_seen' = recently_seen
    BY DEF Insert, Remove, HasRoom, PickVictim, MempoolFull, CheckLimits, pool
<1>3. pc' \in [Threads -> Labels]
    BY <1>1 DEF Insert, Remove, HasRoom, PickVictim, MempoolFull, CheckLimits, Return, Goto, Labels
<1>4. tx' \in [Threads -> Txs \cup {None}] /\ victim' \in [Threads -> Txs \cup {None}]
    BY <1>1 DEF TypeOK, Insert, Remove, HasRoom, PickVictim, MempoolFull, CheckLimits, Return
<1>5. /\ victim'[t] # None <=> pc'[t] \in {"evict", "unindex", "drop"}
      /\ pc'[t] = "idle" => tx'[t] = None
      /\ pc'[t] \in {"capacity", "limits", "store", "index"} => tx'[t] # None
    BY <1>1, MempoolAssumption
    DEF TypeOK, Insert, Remove, HasRoom, PickVictim, MempoolFull, CheckLimits, Return, Goto
<1>6. TypeOK'
    BY <1>1, <1>2, <1>4, <1>5 DEF TypeOK, Alone
<1>7. HoldsAt(t)'
    BY <1>1, <1>2, PoolSizes
    DEF HoldsAt, TypeOK, Insert, Remove, HasRoom, PickVictim, MempoolFull, CheckLimits, Return, Goto
<1>8. PoolIsBounded' /\ IsFiniteSet(pending')
    BY <1>2 DEF PoolInv, PoolIsConsistent, PoolIsBounded
<1> QED
    BY <1>3, <1>6, <1>7, <1>8, PoolOfOne

(* remove(): the three steps of a removal, begun by insert() or by itself. *)
LEMMA RemovalKeepsPool ==
    ASSUME Alone, PoolInv, NEW t \in Threads,
           RemovePending(t) \/ RemoveQueued(t) \/ DropQueue(t)
    PROVE  PoolInv'
<1>1. /\ TypeOK /\ pc \in [Threads -> Labels] /\ HoldsAt(t)
    BY DEF PoolInv, PoolIsConsistent
<1>2. /\ pending' \subseteq Txs /\ by_sender' \subseteq Txs /\ by_sender' \subseteq by_sender
      /\ queues' \subseteq queues /\ recently_seen' = recently_seen /\ tx' = tx
    BY <1>1 DEF TypeOK, RemovePending, RemoveQueued, DropQueue
<1>3. pc' \in [Threads -> Labels]
    BY <1>1 DEF RemovePending, RemoveQueued, DropQueue, EndRemove, Goto, Labels
<1>4. victim' \in [Threads -> Txs \cup {None}]
    BY <1>1 DEF TypeOK, RemovePending, RemoveQueued, DropQueue, EndRemove
<1>5. /\ victim'[t] # None <=> pc'[t] \in {"evict", "unindex", "drop"}
      /\ pc'[t] = "idle" => tx'[t] = None
      /\ pc'[t] \in {"capacity", "limits", "store", "index"} => tx'[t] # None
    BY <1>1, <1>2 DEF TypeOK, RemovePending, RemoveQueued, DropQueue, EndRemove, Goto
<1>6. TypeOK'
    BY <1>1, <1>2, <1>4, <1>5 DEF TypeOK, Alone
<1>7. CASE RemovePending(t)
    <2>1. victim[t] \in pending
        BY <1>1, <1>7 DEF HoldsAt, RemovePending
    <2>2. /\ IsFiniteSet(pending \ {victim[t]})
          /\ Cardinality(pending \ {victim[t]}) = Cardinality(pending) - 1
        BY <2>1, PoolSizes, FS_RemoveElement, Zenon
    <2>3. /\ pending' = pending \ {victim[t]} /\ by_sender' = by_sender
          /\ pc'[t] = "unindex" /\ victim' = victim
        BY <1>1, <1>7, <2>1 DEF RemovePending, Goto
    <2>4. IsFiniteSet(pending') /\ Cardinality(pending') = Cardinality(pending) - 1
        BY <2>2, <2>3
    <2>5. by_sender \subseteq pending
        BY <1>1, <1>7 DEF HoldsAt, RemovePending
    <2>6. HoldsAt(t)' /\ PoolIsBounded'
        BY <2>3, <2>4, <2>5, PoolSizes DEF HoldsAt, PoolIsBounded
    <2> QED
        BY <1>3, <1>6, <2>4, <2>6, PoolOfOne
<1>8. CASE RemoveQueued(t) \/ DropQueue(t)
    <2>1. /\ pending' = pending /\ Cardinality(pending) < max_size
          /\ pc'[t] \in {"drop", "idle", "limits"}
        BY <1>1, <1>8 DEF HoldsAt, RemoveQueued, DropQueue, EndRemove, Goto
    <2>2. victim[t] \in Txs
        BY <1>1, <1>8 DEF TypeOK, RemoveQueued, DropQueue
    <2>3. by_sender' \subseteq pending
        BY <1>1, <1>8, <2>2 DEF HoldsAt, RemoveQueued, DropQueue, SameKey
    <2>4. HoldsAt(t)' /\ PoolIsBounded' /\ IsFiniteSet(pending')
        BY <2>1, <2>3, PoolSizes DEF HoldsAt, PoolIsBounded
    <2> QED
        BY <1>3, <1>6, <2>4, PoolOfOne
<1> QED
    BY <1>7, <1>8

(* The two writes of insert().                                             *)
LEMMA StoringKeepsPool ==
    ASSUME Alone, PoolInv, NEW t \in Threads, Store(t) \/ Index(t)
    PROVE  PoolInv'
<1>1. /\ TypeOK /\ pc \in [Threads -> Labels] /\ HoldsAt(t)
    BY DEF PoolInv, PoolIsConsistent
<1>2. tx[t] \in Txs
    BY <1>1 DEF TypeOK, Store, Index
<1>3. /\ pending' \subseteq Txs /\ by_sender' \subseteq Txs
      /\ queues' \subseteq {Sender[u] : u \in Txs} /\ recently_seen' = recently_seen
    BY <1>1, <1>2 DEF TypeOK, Store, Index
<1>4. pc' \in [Threads -> Labels]
    BY <1>1 DEF Store, Index, Return, Goto, Labels
<1>5. tx' \in [Threads -> Txs \cup {None}] /\ victim' \in [Threads -> Txs \cup {None}]
    BY <1>1 DEF TypeOK, Store, Index, Return
<1>6. /\ victim'[t] # None <=> pc'[t] \in {"evict", "unindex", "drop"}
      /\ pc'[t] = "idle" => tx'[t] = None
      /\ pc'[t] \in {"capacity", "limits", "store", "index"} => tx'[t] # None
    BY <1>1 DEF TypeOK, Store, Index, Return, Goto
<1>7. TypeOK'
    BY <1>1, <1>3, <1>5, <1>6 DEF TypeOK, Alone
<1>8. CASE Store(t)
    <2>1. /\ IsFiniteSet(pending \cup {tx[t]})
          /\ Cardinality(pending \cup {tx[t]})
                = IF tx[t] \in pending THEN Cardinality(pending) ELSE Cardinality(pending) + 1
        BY PoolSizes, FS_AddElement
    <2>2. /\ pending' = pending \cup {tx[t]} /\ by_sender' = by_sender
          /\ pc'[t] = "index" /\ tx' = tx
        BY <1>1, <1>8 DEF Store, Goto
    <2>3. /\ IsFiniteSet(pending') /\ Cardinality(pending') <= Cardinality(pending) + 1
          /\ Cardinality(pending') \in Nat
        BY <2>1, <2>2, PoolSizes
    <2>4. Cardinality(pending) < max_size /\ by_sender \subseteq pending
        BY <1>1, <1>8 DEF HoldsAt, Store
    <2>5. HoldsAt(t)' /\ PoolIsBounded'
        BY <2>2, <2>3, <2>4, PoolSizes DEF HoldsAt, PoolIsBounded
    <2> QED
        BY <1>4, <1>7, <2>3, <2>5, PoolOfOne
<1>9. CASE Index(t)
    <2>1. pending' = pending /\ pc'[t] = "idle" /\ by_sender' \subseteq by_sender \cup {tx[t]}
        BY <1>1, <1>9 DEF Index, Return, Goto
    <2>2. by_sender \subseteq pending /\ tx[t] \in pending
        BY <1>1, <1>9 DEF HoldsAt, Index
    <2>3. HoldsAt(t)' /\ PoolIsBounded' /\ IsFiniteSet(pending')
        BY <2>1, <2>2, PoolSizes DEF HoldsAt, PoolIsBounded
    <2> QED
        BY <1>4, <1>7, <2>3, PoolOfOne
<1> QED
    BY <1>8, <1>9

(* What runs in one step.                                                  *)
LEMMA ClearingKeepsPool ==
    ASSUME Alone, PoolInv, NEW t \in Threads,
           \/ \E x \in Txs : MarkSeen(t, x) \/ PruneBelowNonce(t, Sender[x], Nonce[x])
           \/ ClearRecentlySeen(t) \/ Clear(t)
    PROVE  PoolInv'
<1>1. /\ TypeOK /\ pc \in [Threads -> Labels] /\ HoldsAt(t)
    BY DEF PoolInv, PoolIsConsistent
<1>2. /\ pc[t] = "idle" /\ pc' = pc /\ tx' = tx /\ victim' = victim
      /\ queues' \subseteq queues /\ recently_seen' \subseteq Txs
      /\ pending' \subseteq pending
    BY <1>1 DEF TypeOK, MarkSeen, PruneBelowNonce, ClearRecentlySeen, Clear
<1>3. by_sender' \subseteq pending' /\ by_sender' \subseteq by_sender
    <2>1. by_sender \subseteq pending
        BY <1>1, <1>2 DEF HoldsAt
    <2> QED
        BY <2>1 DEF MarkSeen, PruneBelowNonce, ClearRecentlySeen, Clear
<1>4. TypeOK'
    BY <1>1, <1>2, <1>3 DEF TypeOK
<1>5. IsFiniteSet(pending') /\ PoolIsBounded'
    <2>1. IsFiniteSet(pending') /\ Cardinality(pending') <= Cardinality(pending)
        BY <1>2, PoolSizes, FS_Subset
    <2>2. Cardinality(pending') \in Nat
        BY <2>1, FS_CardinalityType
    <2> QED
        BY <2>1, <2>2, PoolSizes DEF PoolIsBounded
<1>6. HoldsAt(t)'
    BY <1>2, <1>3 DEF HoldsAt
<1> QED
    BY <1>1, <1>2, <1>4, <1>5, <1>6, PoolOfOne

LEMMA PoolStep == Alone /\ PoolInv /\ [Next]_vars => PoolInv'
<1> SUFFICES ASSUME Alone, PoolInv, [Next]_vars
             PROVE  PoolInv'
    OBVIOUS
<1>1. CASE UNCHANGED vars
    BY <1>1 DEF vars, PoolInv, PoolIsConsistent, TypeOK, PoolIsBounded, QueuedArePending,
                Quiet, HoldsAt
<1>2. CASE Next
    <2>1. PICK t \in Threads :
              \/ \E x \in Txs : Insert(t, x) \/ Remove(t, x) \/ MarkSeen(t, x)
              \/ HasRoom(t) \/ PickVictim(t) \/ MempoolFull(t)
              \/ RemovePending(t) \/ RemoveQueued(t) \/ DropQueue(t)
              \/ CheckLimits(t) \/ Store(t) \/ Index(t)
              \/ \E x \in Txs : PruneBelowNonce(t, Sender[x], Nonce[x])
              \/ ClearRecentlySeen(t) \/ Clear(t)
        BY <1>2, Zenon DEF Next
    <2> QED
        BY <2>1, ChecksKeepPool, RemovalKeepsPool, StoringKeepsPool,
           ClearingKeepsPool, Zenon
<1> QED
    BY <1>1, <1>2

(* pool.rs, when no two of its operations overlap: the pool never holds    *)
(* more than max_size transactions at any step of an insertion with        *)
(* eviction, and between operations its queues hold only what is pending.  *)
(* (Two operations at once may break both: the pool takes no lock.)        *)
THEOREM SerialPoolIsConsistent == Alone /\ Spec => []PoolIsConsistent
<1>1. Init => PoolInv
    BY PoolStart
<1>2. Alone /\ PoolInv /\ [Next]_vars => PoolInv'
    BY PoolStep
<1>3. PoolInv => PoolIsConsistent
    BY DEF PoolInv
<1>4. Alone => []Alone
    <2>1. Alone => Alone'
        BY DEF Alone
    <2> QED
        BY <2>1, PTL
<1> QED
    BY <1>1, <1>2, <1>3, <1>4, PTL DEF Spec
-----------------------------------------------------------------------------
(* The peers of the networking service.                                    *)

P2PSpec == P2PInit /\ [][P2PNext]_p2pVars

(* What is kept by peer: scores, ends of bans, addresses.                  *)
ByPeer == UNION {[S -> Int] : S \in SUBSET Peers}

PeerManagers == [peers : ByPeer, banned : ByPeer, peer_ips : ByPeer]

(* peers.len() never passes max_peers, although a connection is accepted   *)
(* before anything is known about the peer.                                *)
PeersAreBounded == Cardinality(DOMAIN pm.peers) <= max_peers

(* A peer manager at an instant, beside the connections of the swarm.      *)
Records(q, now, open) ==
    /\ q \in PeerManagers
    /\ IsFiniteSet(DOMAIN q.peers) /\ Cardinality(DOMAIN q.peers) <= max_peers
    /\ \A p \in DOMAIN q.peers : open[p] > 0 /\ ~IsBanned(q, p, now)

P2PInv ==
    /\ tick \in Nat /\ connections \in [Peers -> Nat]
    /\ Records(pm, tick, connections)

LEMMA ByPeerType ==
    ASSUME NEW f
    PROVE  f \in ByPeer <=> /\ f = [p \in DOMAIN f |-> f[p]]
                            /\ DOMAIN f \subseteq Peers /\ \A p \in DOMAIN f : f[p] \in Int
<1>1. ASSUME f \in ByPeer
      PROVE  /\ f = [p \in DOMAIN f |-> f[p]]
             /\ DOMAIN f \subseteq Peers /\ \A p \in DOMAIN f : f[p] \in Int
    <2>1. PICK S \in SUBSET Peers : f \in [S -> Int]
        BY <1>1 DEF ByPeer
    <2> QED
        BY <2>1
<1>2. ASSUME f = [p \in DOMAIN f |-> f[p]],
             DOMAIN f \subseteq Peers, \A p \in DOMAIN f : f[p] \in Int
      PROVE  f \in ByPeer
    <2>1. f \in [DOMAIN f -> Int]
        BY <1>2
    <2> QED
        BY <2>1, <1>2 DEF ByPeer
<1> QED
    BY <1>1, <1>2

(* Dropping, adding and changing entries.                                  *)
LEMMA RestrictByPeer ==
    ASSUME NEW f \in ByPeer, NEW S \in SUBSET (DOMAIN f)
    PROVE  /\ Restrict(f, S) \in ByPeer /\ DOMAIN Restrict(f, S) = S
           /\ \A p \in S : Restrict(f, S)[p] = f[p]
<1> DEFINE g == Restrict(f, S)
<1>1. g = [p \in S |-> f[p]]
    BY DEF Restrict
<1>2. DOMAIN g = S /\ (\A p \in S : g[p] = f[p]) /\ g = [p \in DOMAIN g |-> g[p]]
    BY <1>1
<1>3. DOMAIN f \subseteq Peers /\ \A p \in DOMAIN f : f[p] \in Int
    BY ByPeerType
<1> HIDE DEF g
<1>4. g \in ByPeer
    BY <1>2, <1>3, ByPeerType
<1> QED
    BY <1>2, <1>4 DEF g

LEMMA EnterByPeer ==
    ASSUME NEW f \in ByPeer, NEW p \in Peers, NEW v \in Int
    PROVE  /\ With(f, p, v) \in ByPeer /\ DOMAIN With(f, p, v) = DOMAIN f \cup {p}
           /\ \A x \in DOMAIN f : x # p => With(f, p, v)[x] = f[x]
<1> DEFINE g == With(f, p, v)
<1>1. DOMAIN f \subseteq Peers /\ \A x \in DOMAIN f : f[x] \in Int
    BY ByPeerType
<1>2. /\ DOMAIN g = DOMAIN f \cup {p} /\ g = [x \in DOMAIN g |-> g[x]]
      /\ \A x \in DOMAIN g : g[x] \in Int
      /\ \A x \in DOMAIN f : x # p => g[x] = f[x]
    BY <1>1 DEF With
<1> HIDE DEF g
<1>3. g \in ByPeer
    BY <1>1, <1>2, ByPeerType
<1> QED
    BY <1>2, <1>3 DEF g

LEMMA ChangeByPeer ==
    ASSUME NEW f \in ByPeer, NEW p \in DOMAIN f, NEW v \in Int
    PROVE  [f EXCEPT ![p] = v] \in ByPeer /\ DOMAIN [f EXCEPT ![p] = v] = DOMAIN f
<1> DEFINE g == [f EXCEPT ![p] = v]
<1>1. DOMAIN f \subseteq Peers /\ \A x \in DOMAIN f : f[x] \in Int
    BY ByPeerType
<1>2. DOMAIN g = DOMAIN f /\ g = [x \in DOMAIN g |-> g[x]] /\ \A x \in DOMAIN g : g[x] \in Int
    BY <1>1
<1> HIDE DEF g
<1>3. g \in ByPeer
    BY <1>1, <1>2, ByPeerType
<1> QED
    BY <1>2, <1>3 DEF g

LEMMA PeerManagerFields ==
    ASSUME NEW q \in PeerManagers, NEW f \in ByPeer
    PROVE  /\ q.peers \in ByPeer /\ q.banned \in ByPeer /\ q.peer_ips \in ByPeer
           /\ [q EXCEPT !.peers = f] \in PeerManagers
           /\ [q EXCEPT !.peers = f].peers = f
           /\ [q EXCEPT !.peers = f].banned = q.banned
           /\ [q EXCEPT !.peers = f].peer_ips = q.peer_ips
           /\ [q EXCEPT !.banned = f] \in PeerManagers
           /\ [q EXCEPT !.banned = f].peers = q.peers
           /\ [q EXCEPT !.banned = f].banned = f
           /\ [q EXCEPT !.peer_ips = f] \in PeerManagers
           /\ [q EXCEPT !.peer_ips = f].peers = q.peers
           /\ [q EXCEPT !.peer_ips = f].banned = q.banned
BY DEF PeerManagers

(* Fewer tracked peers, or fewer bans, are sound where more were.          *)
LEMMA FewerRecords ==
    ASSUME NEW q, NEW r \in PeerManagers, NEW now \in Nat, NEW open, Records(q, now, open),
           DOMAIN r.peers \subseteq DOMAIN q.peers,
           \A p \in DOMAIN r.peers : IsBanned(r, p, now) => IsBanned(q, p, now)
    PROVE  Records(r, now, open)
<1>1. /\ IsFiniteSet(DOMAIN r.peers)
      /\ Cardinality(DOMAIN r.peers) <= Cardinality(DOMAIN q.peers)
    BY FS_Subset DEF Records
<1>2. Cardinality(DOMAIN r.peers) \in Nat /\ Cardinality(DOMAIN q.peers) \in Nat
    BY <1>1, FS_CardinalityType DEF Records
<1> QED
    BY <1>1, <1>2, PeerAssumption DEF Records

LEMMA GoodMessage ==
    ASSUME NEW q, NEW p \in Peers, NEW now \in Nat, NEW open, Records(q, now, open)
    PROVE  Records(RecordGoodMessage(q, p), now, open)
<1>1. CASE p \in DOMAIN q.peers
    <2> DEFINE f == [q.peers EXCEPT ![p] = @ + GOOD_MESSAGE_SCORE]
               r == [q EXCEPT !.peers = f]
    <2>1. q \in PeerManagers /\ q.peers \in ByPeer
        BY DEF Records, PeerManagers
    <2>2. q.peers[p] + GOOD_MESSAGE_SCORE \in Int
        BY <1>1, <2>1, ByPeerType, PeerAssumption
    <2>3. f \in ByPeer /\ DOMAIN f = DOMAIN q.peers
        BY <1>1, <2>1, <2>2, ChangeByPeer
    <2>4. RecordGoodMessage(q, p) = r
        BY <1>1, <2>1 DEF RecordGoodMessage, PeerManagers
    <2> HIDE DEF f
    <2>5. r \in PeerManagers /\ r.peers = f /\ r.banned = q.banned
        BY <2>1, <2>3, PeerManagerFields, Zenon
    <2> HIDE DEF r
    <2>6. \A x : IsBanned(r, x, now) => IsBanned(q, x, now)
        BY <2>5 DEF IsBanned
    <2> QED
        BY <2>3, <2>4, <2>5, <2>6, FewerRecords
<1>2. CASE p \notin DOMAIN q.peers
    BY <1>2 DEF RecordGoodMessage
<1> QED
    BY <1>1, <1>2

LEMMA WithoutPeer ==
    ASSUME NEW f \in ByPeer, NEW p
    PROVE  Without(f, p) \in ByPeer /\ DOMAIN Without(f, p) = DOMAIN f \ {p}
BY RestrictByPeer DEF Without

LEMMA BadMessage ==
    ASSUME NEW q, NEW p \in Peers, NEW now \in Nat, NEW open, Records(q, now, open)
    PROVE  Records(RecordBadMessage(q, p, now), now, open)
<1>1. q \in PeerManagers /\ q.peers \in ByPeer /\ q.banned \in ByPeer
    BY DEF Records, PeerManagers
<1>2. CASE BansPeer(q, p)
    <2> DEFINE f == Without(q.peers, p)
               b == With(q.banned, p, now + BAN_TICKS)
               r1 == [q EXCEPT !.peers = f]
               r == [r1 EXCEPT !.banned = b]
    <2>1. f \in ByPeer /\ DOMAIN f = DOMAIN q.peers \ {p}
        BY <1>1, WithoutPeer
    <2>2. now + BAN_TICKS \in Int
        BY PeerAssumption
    <2>3. /\ b \in ByPeer /\ DOMAIN b = DOMAIN q.banned \cup {p}
          /\ \A x \in DOMAIN q.banned : x # p => b[x] = q.banned[x]
        BY <1>1, <2>2, EnterByPeer, Zenon
    <2>4. RecordBadMessage(q, p, now) = r
        BY <1>1, <1>2 DEF RecordBadMessage, PeerManagers
    <2> HIDE DEF f, b
    <2>5. r1 \in PeerManagers /\ r1.peers = f
        BY <1>1, <2>1, PeerManagerFields, Zenon
    <2> HIDE DEF r1
    <2>6. r \in PeerManagers /\ r.peers = f /\ r.banned = b
        BY <2>3, <2>5, PeerManagerFields, Zenon
    <2> HIDE DEF r
    <2>7. \A x : x # p /\ IsBanned(r, x, now) => IsBanned(q, x, now)
        BY <2>3, <2>6 DEF IsBanned
    <2> QED
        BY <2>1, <2>4, <2>6, <2>7, FewerRecords
<1>3. CASE ~BansPeer(q, p) /\ p \in DOMAIN q.peers
    <2> DEFINE f == [q.peers EXCEPT ![p] = @ + BAD_MESSAGE_PENALTY]
               r == [q EXCEPT !.peers = f]
    <2>1. q.peers[p] + BAD_MESSAGE_PENALTY \in Int
        BY <1>1, <1>3, ByPeerType, PeerAssumption
    <2>2. f \in ByPeer /\ DOMAIN f = DOMAIN q.peers
        BY <1>1, <1>3, <2>1, ChangeByPeer
    <2>3. RecordBadMessage(q, p, now) = r
        BY <1>1, <1>3 DEF RecordBadMessage, PeerManagers
    <2> HIDE DEF f
    <2>4. r \in PeerManagers /\ r.peers = f /\ r.banned = q.banned
        BY <1>1, <2>2, PeerManagerFields, Zenon
    <2> HIDE DEF r
    <2>5. \A x : IsBanned(r, x, now) => IsBanned(q, x, now)
        BY <2>4 DEF IsBanned
    <2> QED
        BY <2>2, <2>3, <2>4, <2>5, FewerRecords
<1>4. CASE p \notin DOMAIN q.peers
    BY <1>4 DEF RecordBadMessage, BansPeer
<1> QED
    BY <1>2, <1>3, <1>4

LEMMA PeerConnects ==
    ASSUME NEW q, NEW p \in Peers, NEW now \in Nat, NEW open, Records(q, now, open),
           AcceptsPeer(q, p, now), open[p] > 0
    PROVE  Records(OnPeerConnected(q, p), now, open)
<1>1. q \in PeerManagers /\ q.peers \in ByPeer
    BY DEF Records, PeerManagers
<1>2. CASE p \in DOMAIN q.peers
    BY <1>2 DEF OnPeerConnected
<1>3. CASE p \notin DOMAIN q.peers
    <2> DEFINE f == With(q.peers, p, DEFAULT_SCORE)
               r == [q EXCEPT !.peers = f]
    <2>1. f \in ByPeer /\ DOMAIN f = DOMAIN q.peers \cup {p}
        BY <1>1, EnterByPeer, PeerAssumption, Zenon
    <2>2. OnPeerConnected(q, p) = r
        BY <1>3, <1>1 DEF OnPeerConnected, PeerManagers
    <2> HIDE DEF f
    <2>3. r \in PeerManagers /\ r.peers = f /\ r.banned = q.banned
        BY <1>1, <2>1, PeerManagerFields, Zenon
    <2> HIDE DEF r
    <2>4. \A x : IsBanned(r, x, now) => IsBanned(q, x, now)
        BY <2>3 DEF IsBanned
    <2>5. /\ IsFiniteSet(DOMAIN r.peers)
          /\ Cardinality(DOMAIN r.peers) = Cardinality(DOMAIN q.peers) + 1
        BY <1>3, <2>1, <2>3, FS_AddElement DEF Records
    <2>6. Cardinality(DOMAIN q.peers) \in Nat /\ Cardinality(DOMAIN q.peers) < max_peers
        <3>1. Cardinality(DOMAIN q.peers) \in Nat
            BY FS_CardinalityType DEF Records
        <3> QED
            BY <3>1, PeerAssumption DEF AcceptsPeer, IsAtCapacity
    <2>7. Cardinality(DOMAIN r.peers) <= max_peers
        BY <2>5, <2>6, PeerAssumption
    <2>8. \A x \in DOMAIN r.peers : open[x] > 0 /\ ~IsBanned(r, x, now)
        BY <2>1, <2>3, <2>4 DEF Records, AcceptsPeer
    <2> QED
        BY <2>2, <2>3, <2>5, <2>7, <2>8 DEF Records
<1> QED
    BY <1>2, <1>3

LEMMA PeerDisconnects ==
    ASSUME NEW q, NEW p \in Peers, NEW now \in Nat, NEW open, Records(q, now, open)
    PROVE  /\ Records(OnPeerDisconnected(q, p), now, open)
           /\ p \notin DOMAIN OnPeerDisconnected(q, p).peers
<1> DEFINE f == Without(q.peers, p)
           g == Without(q.peer_ips, p)
           r1 == [q EXCEPT !.peers = f]
           r == [r1 EXCEPT !.peer_ips = g]
<1>1. q \in PeerManagers /\ q.peers \in ByPeer /\ q.peer_ips \in ByPeer
    BY DEF Records, PeerManagers
<1>2. f \in ByPeer /\ DOMAIN f = DOMAIN q.peers \ {p} /\ g \in ByPeer
    BY <1>1, WithoutPeer, Zenon
<1>3. OnPeerDisconnected(q, p) = r
    BY <1>1 DEF OnPeerDisconnected, PeerManagers
<1> HIDE DEF f, g
<1>4. r1 \in PeerManagers /\ r1.peers = f /\ r1.banned = q.banned
    BY <1>1, <1>2, PeerManagerFields, Zenon
<1> HIDE DEF r1
<1>5. r \in PeerManagers /\ r.peers = f /\ r.banned = q.banned
    BY <1>2, <1>4, PeerManagerFields, Zenon
<1> HIDE DEF r
<1>6. \A x : IsBanned(r, x, now) => IsBanned(q, x, now)
    BY <1>5 DEF IsBanned
<1> QED
    BY <1>2, <1>3, <1>5, <1>6, FewerRecords

LEMMA BansExpire ==
    ASSUME NEW q, NEW now \in Nat, NEW open, Records(q, now, open)
    PROVE  Records(CleanupExpiredBans(q, now), now, open)
<1> DEFINE S == {p \in DOMAIN q.banned : q.banned[p] = Forever \/ now < q.banned[p]}
           b == Restrict(q.banned, S)
           r == [q EXCEPT !.banned = b]
<1>1. q \in PeerManagers /\ q.banned \in ByPeer
    BY DEF Records, PeerManagers
<1>2. b \in ByPeer /\ DOMAIN b = S /\ \A p \in S : b[p] = q.banned[p]
    BY <1>1, RestrictByPeer
<1>3. CleanupExpiredBans(q, now) = r
    BY <1>1 DEF CleanupExpiredBans, PeerManagers
<1> HIDE DEF b
<1>4. r \in PeerManagers /\ r.peers = q.peers /\ r.banned = b
    BY <1>1, <1>2, PeerManagerFields, Zenon
<1> HIDE DEF r
<1>5. \A x : IsBanned(r, x, now) => IsBanned(q, x, now)
    BY <1>2, <1>4 DEF IsBanned
<1> QED
    BY <1>3, <1>4, <1>5, FewerRecords

LEMMA P2PStart == P2PInit => P2PInv
<1> SUFFICES ASSUME P2PInit
             PROVE  P2PInv
    OBVIOUS
<1>1. pm = [peers |-> <<>>, banned |-> <<>>, peer_ips |-> <<>>]
    BY DEF P2PInit, NewPeerManager
<1>2. <<>> \in ByPeer /\ DOMAIN <<>> = {}
    <2>1. <<>> \in [{} -> Int] /\ {} \in SUBSET Peers
        OBVIOUS
    <2> QED
        BY <2>1 DEF ByPeer
<1>3. pm \in PeerManagers /\ DOMAIN pm.peers = {}
    BY <1>1, <1>2 DEF PeerManagers
<1>4. IsFiniteSet(DOMAIN pm.peers) /\ Cardinality(DOMAIN pm.peers) = 0
    BY <1>3, FS_EmptySet
<1> QED
    BY <1>3, <1>4, PeerAssumption DEF P2PInit, P2PInv, Records

(* Time ends bans and starts none.                                         *)
LEMMA BansOnlyEnd ==
    ASSUME NEW q \in PeerManagers, NEW p, NEW now \in Nat, IsBanned(q, p, now + 1)
    PROVE  IsBanned(q, p, now)
<1>1. q.banned \in ByPeer
    BY DEF PeerManagers
<1>2. p \in DOMAIN q.banned /\ q.banned[p] \in Int
    BY <1>1, ByPeerType DEF IsBanned
<1> QED
    BY <1>2 DEF IsBanned

LEMMA MessageStep ==
    ASSUME P2PInv, NEW p \in Peers, NEW m \in Messages, GossipMessage(p, m)
    PROVE  P2PInv'
<1> DEFINE Kept(q) == Records(q, tick, connections)
<1>1. tick \in Nat /\ connections \in [Peers -> Nat] /\ Kept(pm)
    BY DEF P2PInv
<1>2. tick' = tick /\ connections' = connections
    BY DEF GossipMessage
<1>3. Kept(RecordBadMessage(pm, p, tick)) /\ Kept(RecordGoodMessage(pm, p))
    BY <1>1, BadMessage, GoodMessage
<1>4. Kept(RecordBadMessage(RecordGoodMessage(pm, p), p, tick))
    BY <1>1, <1>3, BadMessage
<1>5. \/ pm' = RecordBadMessage(pm, p, tick) \/ pm' = RecordGoodMessage(pm, p)
      \/ pm' = RecordBadMessage(RecordGoodMessage(pm, p), p, tick)
    BY DEF GossipMessage, Penalize, DispatchPayload, HandleLegacyMessage
<1>6. Kept(pm')
    BY <1>3, <1>4, <1>5
<1> QED
    BY <1>1, <1>2, <1>6 DEF P2PInv

LEMMA ConnectionStep ==
    ASSUME P2PInv, NEW p \in Peers, ConnectionEstablished(p) \/ ConnectionClosed(p)
    PROVE  P2PInv'
<1>1. tick \in Nat /\ connections \in [Peers -> Nat] /\ Records(pm, tick, connections)
    BY DEF P2PInv
<1>2. DOMAIN pm.peers \subseteq Peers
    <2>1. pm.peers \in ByPeer
        BY <1>1 DEF Records, PeerManagers
    <2> QED
        BY <2>1, ByPeerType
<1>3. CASE ConnectionEstablished(p)
    <2>1. /\ connections' = [connections EXCEPT ![p] = @ + 1] /\ tick' = tick
          /\ connections' \in [Peers -> Nat]
        BY <1>1, <1>3 DEF ConnectionEstablished
    <2>2. connections'[p] > 0 /\ \A x \in DOMAIN pm.peers : connections'[x] > 0
        BY <1>1, <1>2, <2>1 DEF Records
    <2>3. Records(pm, tick, connections')
        BY <1>1, <2>2 DEF Records
    <2>4. AcceptsPeer(pm, p, tick) => Records(OnPeerConnected(pm, p), tick, connections')
        BY <1>1, <2>2, <2>3, PeerConnects
    <2> QED
        BY <1>1, <1>3, <2>1, <2>3, <2>4 DEF ConnectionEstablished, P2PInv
<1>4. CASE ConnectionClosed(p)
    <2>1. /\ connections' = [connections EXCEPT ![p] = @ - 1] /\ tick' = tick
          /\ connections' \in [Peers -> Nat] /\ pm' = OnPeerDisconnected(pm, p)
        BY <1>1, <1>4 DEF ConnectionClosed
    <2>2. Records(pm', tick, connections) /\ p \notin DOMAIN pm'.peers
        BY <1>1, <2>1, PeerDisconnects
    <2>3. \A x \in DOMAIN pm'.peers : x \in Peers /\ x # p
        <3>1. pm'.peers \in ByPeer
            BY <2>2 DEF Records, PeerManagers
        <3> QED
            BY <2>2, <3>1, ByPeerType
    <2>4. \A x \in DOMAIN pm'.peers : connections'[x] = connections[x]
        BY <1>1, <2>1, <2>3
    <2>5. Records(pm', tick, connections')
        BY <2>2, <2>4 DEF Records
    <2> QED
        BY <2>1, <2>5, <1>1 DEF P2PInv
<1> QED
    BY <1>3, <1>4

LEMMA P2PStep == P2PInv /\ [P2PNext]_p2pVars => P2PInv'
<1> SUFFICES ASSUME P2PInv, [P2PNext]_p2pVars
             PROVE  P2PInv'
    OBVIOUS
<1>1. tick \in Nat /\ connections \in [Peers -> Nat] /\ Records(pm, tick, connections)
    BY DEF P2PInv
<1>2. CASE UNCHANGED <<pm, tick, connections>>
    BY <1>2 DEF P2PInv, Records
<1>3. CASE Passes
    <2>1. pm' = pm /\ tick' = tick + 1 /\ connections' = connections
        BY <1>3 DEF Passes
    <2>2. \A p : IsBanned(pm, p, tick + 1) => IsBanned(pm, p, tick)
        BY <1>1, BansOnlyEnd DEF Records
    <2>3. Records(pm, tick + 1, connections)
        BY <1>1, <2>2 DEF Records
    <2> QED
        BY <1>1, <2>1, <2>3 DEF P2PInv
<1>4. CASE BanCleanup
    <2>1. pm' = CleanupExpiredBans(pm, tick) /\ tick' = tick /\ connections' = connections
        BY <1>4 DEF BanCleanup
    <2> QED
        BY <1>1, <2>1, BansExpire DEF P2PInv
<1>5. CASE Shutdown \/ \E notice \in {"PeerConnected", "PeerDisconnected"} : Mdns(notice)
    BY <1>2, <1>5 DEF Shutdown, Mdns
<1>6. CASE UNCHANGED p2pVars
    BY <1>2, <1>6 DEF p2pVars
<1> QED
    BY <1>3, <1>4, <1>5, <1>6, MessageStep, ConnectionStep DEF P2PNext

(* PeerManager, whatever the swarm reports and however often a peer        *)
(* connects: every peer with a score has a connection and no ban that      *)
(* still runs, and there are never more of them than max_peers.            *)
THEOREM PeerRecordsKept ==
    P2PSpec => [](TrackedAreConnected /\ BannedAreForgotten /\ PeersAreBounded)
<1>1. P2PInit => P2PInv
    BY P2PStart
<1>2. P2PInv /\ [P2PNext]_p2pVars => P2PInv'
    BY P2PStep
<1>3. P2PInv => TrackedAreConnected /\ BannedAreForgotten /\ PeersAreBounded
    BY DEF P2PInv, Records, TrackedAreConnected, BannedAreForgotten, PeersAreBounded
<1> QED
    BY <1>1, <1>2, <1>3, PTL DEF P2PSpec
=============================================================================
