---------------------------- MODULE P2PChannels -----------------------------
(***************************************************************************)
(* The validator loop of a node and the loop of its networking service,    *)
(* which talk over two bounded channels: commands to the service, events   *)
(* to the node.  Each loop handles one thing at a time and waits while the *)
(* channel it sends to is full: sending is what the service has still to   *)
(* send before it handles anything else, node_sending the same of the      *)
(* node.                                                                   *)
(***************************************************************************)
EXTENDS Naturals, Sequences

CONSTANTS COMMAND_SLOTS, EVENT_SLOTS

VARIABLES commands, net_events, sending, node_sending, service_runs

channelVars == <<commands, net_events, sending, node_sending, service_runs>>

ChannelsInit ==
    /\ commands = <<>> /\ net_events = <<>>
    /\ sending = <<>> /\ node_sending = <<>> /\ service_runs = TRUE

(* The service is between two turns of its select!.                        *)
Ready == service_runs /\ sending = <<>>

(* A swarm event that the node should know of (see P2PService).            *)
SwarmEvents == {"TransactionReceived", "BlockReceived", "ConsensusMessageReceived",
                "PeerConnected", "PeerDisconnected"}

HandleSwarmEvent(e) ==
    /\ Ready /\ sending' = <<e>>
    /\ UNCHANGED <<commands, net_events, node_sending, service_runs>>

(* event_tx.send.                                                          *)
SendEvent ==
    /\ sending # <<>> /\ Len(net_events) < EVENT_SLOTS
    /\ net_events' = Append(net_events, Head(sending)) /\ sending' = Tail(sending)
    /\ UNCHANGED <<commands, node_sending, service_runs>>

(* Fault: commands wait until the node has taken every event.              *)
HandleCommandAfterEvents ==
    /\ Ready /\ commands # <<>> /\ net_events = <<>>
    /\ commands' = Tail(commands)
    /\ net_events' = IF Head(commands) = "GetPeerCount" THEN <<"PeerCount">> ELSE net_events
    /\ service_runs' = (Head(commands) # "Shutdown")
    /\ UNCHANGED <<sending, node_sending>>

(* handle_command: a broadcast is published to whoever is connected, a     *)
(* count is dropped when there is no room for it, Shutdown ends the loop.  *)
HandleCommand ==
    /\ Ready /\ commands # <<>>
    /\ commands' = Tail(commands)
    /\ net_events' = IF Head(commands) = "GetPeerCount" /\ Len(net_events) < EVENT_SLOTS
                     THEN Append(net_events, "PeerCount") ELSE net_events
    /\ service_runs' = (Head(commands) # "Shutdown")
    /\ UNCHANGED <<sending, node_sending>>

(* The node handles an event; a block or a vote makes it broadcast up to   *)
(* two messages.                                                           *)
Broadcasts == {<<>>, <<"Broadcast">>, <<"Broadcast", "Broadcast">>}

NodeReceives ==
    /\ node_sending = <<>> /\ net_events # <<>>
    /\ net_events' = Tail(net_events)
    /\ IF Head(net_events) \in {"BlockReceived", "ConsensusMessageReceived"}
       THEN node_sending' \in Broadcasts ELSE UNCHANGED node_sending
    /\ UNCHANGED <<commands, sending, service_runs>>

(* A timer of the node, or a caller of peer_count or shutdown.             *)
NodeCommands ==
    /\ node_sending = <<>>
    /\ node_sending' \in {<<"GetPeerCount">>, <<"Shutdown">>, <<"Broadcast">>}
    /\ UNCHANGED <<commands, net_events, sending, service_runs>>

(* command_tx.send: refused once the service has ended.                    *)
SendCommand ==
    /\ node_sending # <<>> /\ (~service_runs \/ Len(commands) < COMMAND_SLOTS)
    /\ commands' = IF service_runs THEN Append(commands, Head(node_sending)) ELSE commands
    /\ node_sending' = Tail(node_sending)
    /\ UNCHANGED <<net_events, sending, service_runs>>

ChannelsNext ==
    \/ \E e \in SwarmEvents : HandleSwarmEvent(e)
    \/ SendEvent
    \/ HandleCommand
    \/ NodeReceives
    \/ NodeCommands
    \/ SendCommand

(* Sends go through when there is room; select! takes its ready branches   *)
(* in a random order, so none of them is passed over for ever.             *)
ChannelsFairness ==
    /\ WF_channelVars(SendEvent) /\ WF_channelVars(SendCommand)
    /\ WF_channelVars(NodeReceives) /\ SF_channelVars(HandleCommand)
ChannelsSpec == ChannelsInit /\ [][ChannelsNext]_channelVars /\ ChannelsFairness
-----------------------------------------------------------------------------
(* Both loops wait for room in the channel the other one empties.          *)
MutualWait ==
    /\ sending # <<>> /\ Len(net_events) = EVENT_SLOTS
    /\ node_sending # <<>> /\ Len(commands) = COMMAND_SLOTS

(* A broadcast of the node goes through, unless both channels are full and *)
(* the loops wait for each other: nothing else makes the node wait for     *)
(* ever, neither a busy swarm nor the end of the service.                  *)
BroadcastsGoThrough == node_sending # <<>> ~> (node_sending = <<>> \/ MutualWait)
=============================================================================
