----------------------------- MODULE MCServices -----------------------------
(***************************************************************************)
(* One run for the parts of a node and the programs beside it that share   *)
(* no state in these models.  A behaviour is one of the component it       *)
(* starts with; the others rest in an initial state.                       *)
(***************************************************************************)
EXTENDS P2PService, RpcServer, RpcFlow,
        StateSync, ExplorerApi, Faucet, NodeInit, Wallet, GameLibs,
        StoreKeys, MCMempool

(* Messages of every fate: good, old format, too large, of another topic.  *)
MCMessages ==
    {[topic |-> "transactions", size |-> 1, decodes |-> "transactions"],
     [topic |-> "consensus", size |-> 1, decodes |-> "legacy"],
     [topic |-> "consensus", size |-> 3, decodes |-> "consensus"],
     [topic |-> "transactions", size |-> 1, decodes |-> "blocks"]}
MCBanThreshold == -1
MCBadMessagePenalty == -2

(* Two transactions that verify and one whose address does not.            *)
CONSTANTS t1, t2, t3

Submitted(t, derived) ==
    [tx |-> t, signer |-> "alice", session |-> Nothing, derived |-> derived,
     hash_ok |-> TRUE, signature_ok |-> TRUE]
MCSubmissions == {Submitted(t1, "alice"), Submitted(t2, "alice"), Submitted(t3, "invalid")}
Symmetry == Permutations({t1, t2})

(* Entries 1 and 2 are below the state root, entry 4 is larger than a      *)
(* chunk, entry 5 is only ever in the store of the node that syncs.        *)
MCServedStates ==
    <<(1 :> "a") @@ (2 :> "x") @@ (3 :> "p"),
      (1 :> "b") @@ (2 :> "x") @@ (3 :> "q") @@ (4 :> "r")>>
MCTargetStates == {<<>>, 3 :> "p", 2 :> "y", (3 :> "o") @@ (5 :> "z"), 5 :> "z"}
MCEntrySize == <<1, 1, 2, 4, 1>>

(* Blocks without, with one and with several transactions; TRUE is one     *)
(* that involves the account asked for.                                    *)
MCBlocks == {<<>>, <<TRUE>>, <<TRUE, FALSE, TRUE>>}

(* Two valid genesis documents, and one for each check that may fail.      *)
Holds(a, n) == [address |-> a, balance |-> n]
Validates(a, n, bps) == [address |-> a, stake |-> n, commission_bps |-> bps]
Document(accounts, validators, supply) ==
    [chain_config |-> [min_stake |-> 2, max_commission_bps |-> 1],
     accounts |-> accounts, validators |-> validators, attestors |-> <<"attestor">>,
     initial_supply |-> supply]
MCGenesis == Document(<<Holds("x", 1), Holds("y", 1), Holds("z", 0)>>,
                      <<Validates("x", 2, 1), Validates("y", 3, 0)>>, 2)
MCGenesisDocs ==
    {MCGenesis,
     Document(<<Holds("x", 1), Holds("y", 1)>>, <<Validates("y", 2, 1)>>, 2),
     Document(<<Holds("x", 1)>>, <<Validates("y", 2, 1)>>, 1),
     Document(<<Holds("x", 1)>>, <<Validates("x", 1, 1)>>, 1),
     Document(<<Holds("x", 1)>>, <<Validates("x", 2, 2)>>, 1),
     Document(<<Holds("x", 1)>>, <<>>, 2),
     Document(<<Holds("x", 1), Holds("x", 1)>>, <<>>, 2)}

(* Wallet commands: one repeated often, one whose fee is too low, and one  *)
(* whose argument does not parse.                                          *)
Typed(group, name, bad, fee_ok) ==
    [group |-> group, name |-> name, bad |-> bad, fee_ok |-> fee_ok]
MCWalletCommands ==
    {Typed("transfer", "transfer", {}, TRUE), Typed("market", "buy", {}, FALSE),
     Typed("asset", "mint", {"to"}, TRUE)}
-----------------------------------------------------------------------------
VARIABLE component

Components == {"p2p", "rpc", "throttle", "events", "merkle", "sync",
               "explorer", "faucet", "genesis", "init", "wallet", "games", "keys", "mempool"}

(* A step of component c; the others do not move.                          *)
Only(c) ==
    /\ component = c /\ UNCHANGED component
    /\ IF c = "p2p" THEN TRUE ELSE UNCHANGED p2pVars
    /\ IF c = "rpc" THEN TRUE ELSE UNCHANGED rpcVars
    /\ IF c = "throttle" THEN TRUE ELSE UNCHANGED throttleVars
    /\ IF c = "events" THEN TRUE ELSE UNCHANGED busVars
    /\ IF c = "merkle" THEN TRUE ELSE UNCHANGED merkleVars
    /\ IF c = "sync" THEN TRUE ELSE UNCHANGED syncVars
    /\ IF c = "explorer" THEN TRUE ELSE UNCHANGED explorerVars
    /\ IF c = "faucet" THEN TRUE ELSE UNCHANGED faucetVars
    /\ IF c = "genesis" THEN TRUE ELSE UNCHANGED genesisVars
    /\ IF c = "init" THEN TRUE ELSE UNCHANGED nodeInitVars
    /\ IF c = "wallet" THEN TRUE ELSE UNCHANGED walletVars
    /\ IF c = "games" THEN TRUE ELSE UNCHANGED libVars
    /\ IF c = "keys" THEN TRUE ELSE UNCHANGED storeKeysVars
    /\ IF c = "mempool" THEN TRUE ELSE UNCHANGED vars

ServicesInit ==
    /\ component \in Components
    /\ P2PInit /\ RpcInit /\ ThrottleInit /\ BusInit
    /\ MerkleInit /\ SyncInit /\ ExplorerInit /\ FaucetInit /\ GenesisInit
    /\ NodeInitInit /\ WalletInit /\ LibInit /\ StoreKeysInit /\ Init
    /\ component # "sync" => sync_store = <<>>
    /\ component # "genesis" => genesis = MCGenesis /\ disk = FreshDisk
    /\ component # "wallet" => account_nonce = NoAccount

ServicesNext ==
    \/ Only("p2p") /\ P2PNext
    \/ Only("rpc") /\ LookupNext
    \/ Only("throttle") /\ ThrottleNext
    \/ Only("events") /\ BusNext
    \/ Only("merkle") /\ MerkleNext
    \/ Only("sync") /\ SyncNext
    \/ Only("explorer") /\ ExplorerNext
    \/ Only("faucet") /\ FaucetNext
    \/ Only("genesis") /\ GenesisNext
    \/ Only("init") /\ NodeInitNext
    \/ Only("wallet") /\ WalletNext
    \/ Only("games") /\ call.op = "none" /\ LibNext
    \/ Only("keys") /\ StoreKeysNext
    \/ Only("mempool") /\ Next

servicesVars ==
    <<component, p2pVars, rpcVars, throttleVars, busVars, merkleVars,
      syncVars, explorerVars, faucetVars, genesisVars, nodeInitVars, walletVars,
      libVars, storeKeysVars, vars>>

ServicesSpec == ServicesInit /\ [][ServicesNext]_servicesVars
=============================================================================
