----------------------------- MODULE P2PService -----------------------------
(***************************************************************************)
(* The networking service of one node: a background loop that owns the     *)
(* swarm, the peer manager and the rate limiter.  It handles one event of  *)
(* the swarm at a time and sends what the node should know of to the node  *)
(* (P2PChannels has the channels between the two).  The swarm (external)   *)
(* may have several connections to a peer; disconnect_peer_id closes all   *)
(* of them, and each is reported as closed by itself.                      *)
(*                                                                         *)
(* A message is a record of its topic, its size and what it decodes to:    *)
(* the payload kind of an envelope, "legacy" for a bare value of the kind  *)
(* the topic carries, or "garbage".                                        *)
(***************************************************************************)
EXTENDS Integers, FiniteSets, Sequences, FiniteSetsExt

(***************************************************************************)
(* What a node keeps about its peers, as functions of that state: scores   *)
(* and bans (PeerManager) and the messages of the current window           *)
(* (PeerRateLimiter).                                                      *)
(*                                                                         *)
(* pm is a record of                                                       *)
(*   peers     the score of every tracked peer,                            *)
(*   banned    when the ban of a peer ends, or Forever,                    *)
(*   peer_ips  the address of the peers connected with one.                *)
(* Times are in ticks.                                                     *)
(***************************************************************************)

CONSTANTS max_peers,
          DEFAULT_SCORE, BAN_THRESHOLD, GOOD_MESSAGE_SCORE, BAD_MESSAGE_PENALTY,
          BAN_TICKS,                                 \* one hour
          WINDOW_TICKS,                              \* one second
          max_messages_per_second, max_bytes_per_second

ASSUME PeerAssumption ==
    /\ max_peers \in Nat /\ BAN_TICKS \in Nat
    /\ DEFAULT_SCORE \in Int /\ GOOD_MESSAGE_SCORE \in Int /\ BAD_MESSAGE_PENALTY \in Int

Forever == -1

Without(f, x) == Restrict(f, DOMAIN f \ {x})
With(f, x, v) == [y \in DOMAIN f \cup {x} |-> IF y = x THEN v ELSE f[y]]

NewPeerManager == [peers |-> <<>>, banned |-> <<>>, peer_ips |-> <<>>]

(* is_banned: a record whose time has passed bans no more.                 *)
IsBanned(pm, p, now) ==
    p \in DOMAIN pm.banned /\ (pm.banned[p] = Forever \/ now < pm.banned[p])

IsAtCapacity(pm) == Cardinality(DOMAIN pm.peers) >= max_peers

(* on_peer_connected: whether it returns true, and what it then does.  A   *)
(* peer that is tracked keeps its score.                                   *)
AcceptsPeer(pm, p, now) == ~IsBanned(pm, p, now) /\ ~IsAtCapacity(pm)
OnPeerConnected(pm, p) ==
    IF p \in DOMAIN pm.peers THEN pm
    ELSE [pm EXCEPT !.peers = With(@, p, DEFAULT_SCORE)]

(* Fault: only the address of the peer is forgotten.                       *)
OnPeerDisconnectedIpOnly(pm, p) == [pm EXCEPT !.peer_ips = Without(@, p)]

OnPeerDisconnected(pm, p) ==
    [pm EXCEPT !.peers = Without(@, p), !.peer_ips = Without(@, p)]

RecordGoodMessage(pm, p) ==
    IF p \in DOMAIN pm.peers
    THEN [pm EXCEPT !.peers[p] = @ + GOOD_MESSAGE_SCORE] ELSE pm

(* record_bad_message: the lower score, and a ban when it is too low.      *)
BansPeer(pm, p) ==
    p \in DOMAIN pm.peers /\ pm.peers[p] + BAD_MESSAGE_PENALTY <= BAN_THRESHOLD

(* Fault: a peer stays tracked when its score gets it banned.              *)
RecordBadMessageKeepingPeer(pm, p, now) ==
    IF BansPeer(pm, p)
    THEN [pm EXCEPT !.banned = With(@, p, now + BAN_TICKS)]
    ELSE IF p \in DOMAIN pm.peers
         THEN [pm EXCEPT !.peers[p] = @ + BAD_MESSAGE_PENALTY] ELSE pm

RecordBadMessage(pm, p, now) ==
    IF BansPeer(pm, p)
    THEN [pm EXCEPT !.peers = Without(@, p), !.banned = With(@, p, now + BAN_TICKS)]
    ELSE IF p \in DOMAIN pm.peers
         THEN [pm EXCEPT !.peers[p] = @ + BAD_MESSAGE_PENALTY] ELSE pm

CleanupExpiredBans(pm, now) ==
    [pm EXCEPT !.banned =
        Restrict(@, {p \in DOMAIN @ : @[p] = Forever \/ now < @[p]})]

-----------------------------------------------------------------------------
(* PeerRateLimiter.  A limit is a record of the messages and the bytes     *)
(* counted and the tick the window started.                                *)
NewLimit(now) == [message_count |-> 0, byte_count |-> 0, window_start |-> now]

LimitOf(limits, p, now) == IF p \in DOMAIN limits THEN limits[p] ELSE NewLimit(now)

(* Fault: the counters are reset and the window is not started again.      *)
MaybeResetCounters(l, now) ==
    IF now - l.window_start >= WINDOW_TICKS
    THEN [l EXCEPT !.message_count = 0, !.byte_count = 0] ELSE l

(* maybe_reset.                                                            *)
MaybeReset(l, now) ==
    IF now - l.window_start >= WINDOW_TICKS THEN NewLimit(now) ELSE l

(* check_rate: the verdict and the limits it leaves.                       *)
RateAllows(limits, p, size, now) ==
    LET l == MaybeReset(LimitOf(limits, p, now), now)
    IN  /\ l.message_count < max_messages_per_second
        /\ l.byte_count + size <= max_bytes_per_second
CheckRate(limits, p, size, now) ==
    LET l == MaybeReset(LimitOf(limits, p, now), now)
    IN  With(limits, p, IF RateAllows(limits, p, size, now)
                        THEN [l EXCEPT !.message_count = @ + 1, !.byte_count = @ + size]
                        ELSE l)
-----------------------------------------------------------------------------
CONSTANTS Peers, Messages, enable_mdns,
          MAX_TX_MESSAGE_SIZE, MAX_BLOCK_MESSAGE_SIZE, MAX_CONSENSUS_MESSAGE_SIZE,
          MaxTick, MaxConnections

(* connections[p] counts the swarm's connections to p, closing are the     *)
(* peers it was told to disconnect, sent what the last event made the      *)
(* service send to the node.  accepted[p] are the ticks and sizes of the   *)
(* messages the limiter let pass since p was last dropped from it.         *)
VARIABLES pm, limits, connections, closing, tick, sent, accepted, running

p2pVars == <<pm, limits, connections, closing, tick, sent, accepted, running>>

-----------------------------------------------------------------------------
MaxSizeForTopic(topic) ==
    CASE topic = "transactions" -> MAX_TX_MESSAGE_SIZE
      [] topic = "blocks" -> MAX_BLOCK_MESSAGE_SIZE
      [] topic = "consensus" -> MAX_CONSENSUS_MESSAGE_SIZE
      [] OTHER -> MAX_TX_MESSAGE_SIZE

Topics == {"transactions", "blocks", "consensus"}

(* What the payload of a topic becomes for the node.                       *)
EventOf(topic) ==
    CASE topic = "transactions" -> "TransactionReceived"
      [] topic = "blocks" -> "BlockReceived"
      [] topic = "consensus" -> "ConsensusMessageReceived"

(* dispatch_payload after the credit for the envelope, and                 *)
(* handle_legacy_message: the state of the peers and what is sent.         *)
DispatchPayload(m, p, good) ==
    IF m.decodes = m.topic /\ m.topic \in Topics
    THEN [pm |-> good, sends |-> <<EventOf(m.topic)>>]
    ELSE [pm |-> RecordBadMessage(good, p, tick), sends |-> <<>>]
HandleLegacyMessage(m, p) ==
    IF m.decodes = "legacy" /\ m.topic \in Topics
    THEN [pm |-> RecordGoodMessage(pm, p), sends |-> <<EventOf(m.topic)>>]
    ELSE [pm |-> RecordBadMessage(pm, p, tick), sends |-> <<>>]

IsEnvelope(m) == m.decodes \notin {"legacy", "garbage"}

-----------------------------------------------------------------------------
P2PInit ==
    /\ pm = NewPeerManager /\ limits = <<>>
    /\ connections = [p \in Peers |-> 0] /\ closing = {}
    /\ tick = 0 /\ sent = <<>> /\ running = TRUE
    /\ accepted = [p \in Peers |-> <<>>]

Passes ==
    /\ tick < MaxTick /\ tick' = tick + 1
    /\ UNCHANGED <<pm, limits, connections, closing, sent, accepted, running>>

(* A message over the rate or over the size of its topic counts against    *)
(* the peer, which is disconnected when that gets it banned.               *)
Penalize(p) ==
    /\ pm' = RecordBadMessage(pm, p, tick)
    /\ closing' = IF BansPeer(pm, p) THEN closing \cup {p} ELSE closing
    /\ sent' = <<>>

(* A gossip message from p.                                                *)
GossipMessage(p, m) ==
    /\ running /\ connections[p] > 0
    /\ ~IsBanned(pm, p, tick)
    /\ limits' = CheckRate(limits, p, m.size, tick)
    /\ IF ~RateAllows(limits, p, m.size, tick)
       THEN Penalize(p) /\ UNCHANGED accepted
       ELSE /\ accepted' = [accepted EXCEPT ![p] = Append(@, <<tick, m.size>>)]
            /\ IF m.size > MaxSizeForTopic(m.topic) THEN Penalize(p)
               ELSE /\ LET r == IF IsEnvelope(m)
                                THEN DispatchPayload(m, p, RecordGoodMessage(pm, p))
                                ELSE HandleLegacyMessage(m, p)
                       IN  pm' = r.pm /\ sent' = r.sends
                    /\ UNCHANGED closing
    /\ UNCHANGED <<connections, tick, running>>

(* ConnectionEstablished, accepted or refused.                             *)
ConnectionEstablished(p) ==
    /\ running /\ connections[p] < MaxConnections /\ p \notin closing
    /\ connections' = [connections EXCEPT ![p] = @ + 1]
    /\ IF AcceptsPeer(pm, p, tick)
       THEN pm' = OnPeerConnected(pm, p) /\ sent' = <<"PeerConnected">> /\ UNCHANGED closing
       ELSE closing' = closing \cup {p} /\ sent' = <<>> /\ UNCHANGED pm
    /\ UNCHANGED <<limits, tick, accepted, running>>

(* ConnectionClosed: by the peer, or one of those the node closes.         *)
ConnectionClosed(p) ==
    /\ running /\ connections[p] > 0
    /\ connections' = [connections EXCEPT ![p] = @ - 1]
    /\ closing' = IF connections[p] = 1 THEN closing \ {p} ELSE closing
    /\ pm' = OnPeerDisconnected(pm, p)
    /\ limits' = Without(limits, p)
    /\ accepted' = [accepted EXCEPT ![p] = <<>>]
    /\ sent' = <<"PeerDisconnected">>
    /\ UNCHANGED <<tick, running>>

(* mDNS reports peers that appear or expire, connected or not.             *)
Mdns(notice) ==
    /\ running /\ enable_mdns
    /\ sent' = <<notice>>
    /\ UNCHANGED <<pm, limits, connections, closing, tick, accepted, running>>

BanCleanup ==
    /\ running
    /\ pm' = CleanupExpiredBans(pm, tick) /\ sent' = <<>>
    /\ UNCHANGED <<limits, connections, closing, tick, accepted, running>>

(* Shutdown closes every connection and ends the loop.                     *)
Shutdown ==
    /\ running /\ running' = FALSE
    /\ closing' = {p \in Peers : connections[p] > 0} /\ sent' = <<>>
    /\ UNCHANGED <<pm, limits, connections, tick, accepted>>

P2PNext ==
    \/ Passes
    \/ \E p \in Peers :
        \/ \E m \in Messages : GossipMessage(p, m)
        \/ ConnectionEstablished(p)
        \/ ConnectionClosed(p)
    \/ \E notice \in {"PeerConnected", "PeerDisconnected"} : Mdns(notice)
    \/ BanCleanup
    \/ Shutdown
-----------------------------------------------------------------------------
(* A tracked peer has a connection: whatever closes the last one also ends *)
(* its entry, so peers.len() never counts a peer that is gone.             *)
TrackedAreConnected == \A p \in DOMAIN pm.peers : connections[p] > 0

(* A banned peer has no score: record_bad_message removes it from peers,   *)
(* and no connection brings it back before the ban ends.                   *)
BannedAreForgotten == \A p \in DOMAIN pm.peers : ~IsBanned(pm, p, tick)

(* In any span of one window a peer gets at most two windows' worth of     *)
(* messages and of bytes past the limiter (its windows do not slide).      *)
TwoWindowsBound ==
    \A p \in Peers : \A t \in 0..MaxTick :
        LET span == {i \in DOMAIN accepted[p] :
                        t <= accepted[p][i][1] /\ accepted[p][i][1] < t + WINDOW_TICKS}
        IN  /\ Cardinality(span) <= 2 * max_messages_per_second
            /\ MapThenSumSet(LAMBDA i : accepted[p][i][2], span) <= 2 * max_bytes_per_second

(* What the service keeps about a peer is sound: every peer it tracks is   *)
(* connected and not banned, and the limiter holds in every span of time.  *)
PeerRecordsAreSound == TrackedAreConnected /\ BannedAreForgotten /\ TwoWindowsBound
=============================================================================
