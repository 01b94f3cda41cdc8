------------------------------ MODULE NodeInit ------------------------------
(***************************************************************************)
(* From the files of a node to its store.                                  *)
(*                                                                         *)
(* The start of a node: the genesis document is validated, the store is    *)
(* initialised from it key by key, and consensus begins with its           *)
(* validators.  The process may be killed between any two writes and is    *)
(* started again with the same document.  The store may be one that an     *)
(* older version left, without an active validator set.                    *)
(*                                                                         *)
(* The commands that prepare it: init generates a validator key and a      *)
(* genesis document that includes it, keygen a key of its own, and run     *)
(* starts a node from the two files.  A file is truncated and then         *)
(* written, and a command may end between any two steps: killed, or with   *)
(* an error of the file system.  An address is the pair of a prefix and an *)
(* index (SHA-256 of the two); a key is a number.                          *)
(***************************************************************************)
EXTENDS Naturals, Sequences, FiniteSets, TLC

LOCAL INSTANCE SequencesExt

CONSTANTS GenesisDocs, Missing, MaxGenesisHeight, MaxKills

(* The document, the keys of the store, the writes left of the             *)
(* initialisation, the state of the process, the validators of its         *)
(* consensus machine, and whether an epoch has changed the active set.     *)
VARIABLES genesis, disk, genesis_writes, process, consensus_set, rotated, kills

genesisVars == <<genesis, disk, genesis_writes, process, consensus_set, rotated, kills>>

SumOf(s) == FoldLeft(+, 0, s)
AddressesOf(s) == [i \in DOMAIN s |-> s[i].address]
NoDuplicates(s) == Cardinality(ToSet(s)) = Len(s)

(* Genesis::validate.                                                      *)
ValidGenesis(g) ==
    /\ SumOf([i \in DOMAIN g.accounts |-> g.accounts[i].balance]) = g.initial_supply
    /\ \A v \in ToSet(g.validators) :
          /\ v.stake >= g.chain_config.min_stake
          /\ v.commission_bps <= g.chain_config.max_commission_bps
    /\ NoDuplicates(AddressesOf(g.accounts)) /\ NoDuplicates(AddressesOf(g.validators))
    /\ ToSet(AddressesOf(g.validators)) \subseteq ToSet(AddressesOf(g.accounts))

TotalStaked(g) == SumOf([i \in DOMAIN g.validators |-> g.validators[i].stake])

(* create_genesis_validator: the record, then the validator list.          *)
GenesisValidatorWrites(v) ==
    <<[key |-> "validator", value |-> v], [key |-> "list", value |-> v.address]>>

EpochZero(g) ==
    [epoch |-> 0, validator_set |-> AddressesOf(g.validators), total_staked |-> TotalStaked(g)]

(* init_from_genesis at height zero.                                       *)
GenesisWrites(g) ==
    [i \in DOMAIN g.accounts |-> [key |-> "account", value |-> g.accounts[i]]]
        \o FlattenSeq([i \in DOMAIN g.validators |-> GenesisValidatorWrites(g.validators[i])])
        \o <<[key |-> "active", value |-> AddressesOf(g.validators)],
             [key |-> "epoch", value |-> EpochZero(g)]>>
        \o [i \in DOMAIN g.attestors |-> [key |-> "attestor", value |-> g.attestors[i]]]
        \o <<[key |-> "height", value |-> 0],
             [key |-> "supply", value |->
                [total |-> g.initial_supply,
                 circulating |-> IF g.initial_supply > TotalStaked(g)
                                 THEN g.initial_supply - TotalStaked(g) ELSE 0,
                 staked |-> TotalStaked(g)]]>>

(* Fault: the active set is written before the validators are listed.      *)
BackfillSetFirst(g) ==
    <<[key |-> "active", value |-> AddressesOf(g.validators)]>>
        \o [i \in DOMAIN g.validators |-> [key |-> "list", value |-> g.validators[i].address]]
        \o <<[key |-> "epoch", value |-> EpochZero(g)]>>

(* The migration of a store without an active set.                         *)
Backfill(g) ==
    [i \in DOMAIN g.validators |-> [key |-> "list", value |-> g.validators[i].address]]
        \o <<[key |-> "active", value |-> AddressesOf(g.validators)],
             [key |-> "epoch", value |-> EpochZero(g)]>>

Height(d) == IF d.height = Missing THEN 0 ELSE d.height

(* Fault: a store that has a height is taken for an initialised one.       *)
InitWritesOnce(g, d) ==
    IF d.height # Missing
    THEN IF d.active \in {Missing, <<>>} THEN Backfill(g) ELSE <<>>
    ELSE GenesisWrites(g)

InitWrites(g, d) ==
    IF Height(d) > 0
    THEN IF d.active \in {Missing, <<>>} THEN Backfill(g) ELSE <<>>
    ELSE GenesisWrites(g)

Put(d, w) ==
    CASE w.key = "account" ->
            [d EXCEPT !.accounts = (w.value.address :> w.value.balance) @@ @]
      [] w.key = "validator" -> [d EXCEPT !.validators = (w.value.address :> w.value.stake) @@ @]
      [] w.key = "list" -> [d EXCEPT !.list = IF w.value \in ToSet(@) THEN @ ELSE Append(@, w.value)]
      [] w.key = "attestor" -> [d EXCEPT !.attestors = @ \cup {w.value}]
      [] OTHER -> [d EXCEPT ![w.key] = w.value]

(* Fault: a validator with the minimum stake is left out.                  *)
ConsensusSetAbove(g) ==
    {v.address : v \in {u \in ToSet(g.validators) : u.stake > g.chain_config.min_stake}}

(* validator_set_from_genesis.                                             *)
ConsensusSet(g) == {v.address : v \in ToSet(g.validators)}

-----------------------------------------------------------------------------
FreshDisk ==
    [accounts |-> <<>>, validators |-> <<>>, list |-> <<>>, attestors |-> {},
     active |-> Missing, epoch |-> Missing, height |-> Missing, supply |-> Missing]

(* What an older version wrote, one block later.                           *)
OldDisk(g) ==
    [FreshDisk EXCEPT
        !.accounts = [a \in ToSet(AddressesOf(g.accounts)) |-> 7],
        !.validators = [v \in ToSet(AddressesOf(g.validators)) |-> g.chain_config.min_stake],
        !.height = 1, !.supply = [total |-> g.initial_supply, circulating |-> 0, staked |-> 0]]

GenesisInit ==
    /\ genesis \in GenesisDocs
    /\ disk \in {FreshDisk, OldDisk(genesis)}
    /\ genesis_writes = <<>> /\ process = "down" /\ consensus_set = {}
    /\ rotated = FALSE /\ kills = 0

(* The process exits when the document is not valid.                       *)
Boot ==
    /\ process = "down" /\ ValidGenesis(genesis)
    /\ process' = "starting" /\ genesis_writes' = InitWrites(genesis, disk)
    /\ UNCHANGED <<genesis, disk, consensus_set, rotated, kills>>

GenesisWrite ==
    /\ process = "starting" /\ genesis_writes # <<>>
    /\ disk' = Put(disk, Head(genesis_writes)) /\ genesis_writes' = Tail(genesis_writes)
    /\ UNCHANGED <<genesis, process, consensus_set, rotated, kills>>

InitConsensus ==
    /\ process = "starting" /\ genesis_writes = <<>>
    /\ process' = "up" /\ consensus_set' = ConsensusSet(genesis)
    /\ UNCHANGED <<genesis, disk, genesis_writes, rotated, kills>>

(* A committed block moves a unit between accounts.                        *)
CommitBlock ==
    /\ process = "up" /\ Height(disk) < MaxGenesisHeight
    /\ \E a, b \in DOMAIN disk.accounts :
          /\ a # b /\ disk.accounts[a] > 0
          /\ disk' = [disk EXCEPT !.height = @ + 1,
                                  !.accounts = [@ EXCEPT ![a] = @ - 1, ![b] = @ + 1]]
    /\ UNCHANGED <<genesis, genesis_writes, process, consensus_set, rotated, kills>>

(* An epoch transition that drops a validator.                             *)
RotateSet ==
    /\ process = "up" /\ ~rotated /\ Height(disk) > 0 /\ Len(disk.active) > 1
    /\ disk' = [disk EXCEPT !.active = Tail(@)]
    /\ consensus_set' = ToSet(Tail(disk.active)) /\ rotated' = TRUE
    /\ UNCHANGED <<genesis, genesis_writes, process, kills>>

Kill ==
    /\ process # "down" /\ kills < MaxKills /\ kills' = kills + 1
    /\ process' = "down" /\ genesis_writes' = <<>> /\ consensus_set' = {}
    /\ UNCHANGED <<genesis, disk, rotated>>

GenesisNext ==
    \/ Boot
    \/ GenesisWrite
    \/ InitConsensus
    \/ CommitBlock
    \/ RotateSet
    \/ Kill

-----------------------------------------------------------------------------
(* Every active validator is in the validator list the epoch transition    *)
(* reads, once, wherever a start was interrupted.                          *)
ActiveAreListed ==
    /\ NoDuplicates(disk.list)
    /\ disk.active # Missing => ToSet(disk.active) \subseteq ToSet(disk.list)

(* A node that is up has the supply on record, and every active validator  *)
(* has its record and an account; before the first block the recorded      *)
(* supply is what the accounts hold.                                       *)
UpIsInitialized ==
    process = "up" =>
        /\ disk.supply # Missing /\ disk.active # Missing
        /\ ToSet(disk.active) \subseteq DOMAIN disk.validators \cap DOMAIN disk.accounts
        /\ Height(disk) = 0 =>
              disk.supply.total = SumOf([i \in DOMAIN genesis.accounts |->
                                            disk.accounts[genesis.accounts[i].address]])

(* Until an epoch has changed it, the consensus machine of a started node  *)
(* has the validators of the active set on disk.  (After a change a        *)
(* restarted node goes back to the set of the genesis document.)           *)
ConsensusHasActiveSet ==
    process = "up" /\ ~rotated => consensus_set = ToSet(disk.active)

-----------------------------------------------------------------------------
(***************************************************************************)
(* The configuration of a chain: the profiles of the networks that can be  *)
(* generated, with the fields that validation and genesis read, and the    *)
(* validation of a configuration.                                          *)
(***************************************************************************)

(* ChainConfig::default, which is the devnet profile.                      *)
DevnetConfig ==
    [chain_id |-> "polay-devnet-1", block_time_ms |-> 2000,
     max_block_transactions |-> 10000, max_block_gas |-> 100000000,
     epoch_length |-> 7200, quorum_threshold_bps |-> 6667,
     max_validators |-> 100, min_stake |-> 1000000, max_commission_bps |-> 2000,
     slash_fraction_double_sign_bps |-> 500, slash_fraction_downtime_bps |-> 100,
     governance_quorum_bps |-> 3333, pass_threshold_bps |-> 5000,
     unbonding_period_blocks |-> 14400]

(* ChainConfig::testnet.                                                   *)
TestnetConfig ==
    [DevnetConfig EXCEPT
        !.chain_id = "polay-testnet-1", !.block_time_ms = 3000, !.max_validators = 50,
        !.min_stake = 10000000, !.unbonding_period_blocks = 100800, !.epoch_length = 28800]

(* ChainConfig::validate.                                                  *)
ValidConfig(c) ==
    /\ c.chain_id # ""
    /\ 0 \notin {c.block_time_ms, c.max_block_transactions, c.max_block_gas, c.epoch_length,
                 c.max_validators, c.unbonding_period_blocks, c.min_stake}
    /\ c.quorum_threshold_bps \in 5000..10000
    /\ \A bps \in {c.slash_fraction_double_sign_bps, c.slash_fraction_downtime_bps,
                   c.governance_quorum_bps, c.pass_threshold_bps, c.max_commission_bps} :
          bps <= 10000
-----------------------------------------------------------------------------
CONSTANTS ValidatorCounts, MaxGenerated

(* The files: the key of init, the key of keygen, the document.  init_cmd  *)
(* is the state of the init command, node what the last run started with.  *)
VARIABLES key_files, genesis_file, init_cmd, generated, node

nodeInitVars == <<key_files, genesis_file, init_cmd, generated, node>>

Truncated == [state |-> "truncated"]
NoFile == [state |-> "none"]
File(content) == [state |-> "written", content |-> content]

-----------------------------------------------------------------------------
(* The documents.                                                          *)
make_addr(prefix, i) == <<prefix, i>>

GeneratedValidators(prefix, n) ==
    [i \in 1..n |-> [address |-> make_addr(prefix, i - 1), stake |-> 10000000,
                     commission_bps |-> 500]]

(* The validators' accounts, with the amount of their stake, and others.   *)
GeneratedAccounts(validators, prefix, n, balance) ==
    [i \in DOMAIN validators |-> [address |-> validators[i].address, balance |-> 10000000]]
        \o [i \in 1..n |-> [address |-> make_addr(prefix, i - 1), balance |-> balance]]

GenerateWith(config, validators, accounts, attestors) ==
    [chain_config |-> config, accounts |-> accounts, validators |-> validators,
     attestors |-> attestors,
     initial_supply |-> SumOf([i \in DOMAIN accounts |-> accounts[i].balance])]

generate_devnet ==
    LET validators == GeneratedValidators("validator", 4)
    IN  GenerateWith(DevnetConfig, validators,
                     GeneratedAccounts(validators, "account", 10, 6000000),
                     [i \in 1..2 |-> make_addr("attestor", i - 1)])

generate_testnet(n) ==
    LET validators == GeneratedValidators("testnet-validator", n)
    IN  GenerateWith(TestnetConfig, validators,
                     GeneratedAccounts(validators, "testnet-account", 20, 5000000),
                     [i \in 1..4 |-> make_addr("testnet-attestor", i - 1)])

(* Fault: the new account is not counted in the supply.                    *)
WithOperatorUncounted(g, key) ==
    [g EXCEPT !.accounts = Append(@, [address |-> make_addr("key", key), balance |-> 10000000]),
              !.validators = Append(@, [address |-> make_addr("key", key),
                                        stake |-> g.chain_config.min_stake,
                                        commission_bps |-> 500])]

(* init adds the new key's account and validator.                          *)
WithOperator(g, key) ==
    [g EXCEPT !.accounts = Append(@, [address |-> make_addr("key", key), balance |-> 10000000]),
              !.validators = Append(@, [address |-> make_addr("key", key),
                                        stake |-> g.chain_config.min_stake,
                                        commission_bps |-> 500]),
              !.initial_supply = @ + 10000000]

-----------------------------------------------------------------------------
InitStep(step) == init_cmd' = [init_cmd EXCEPT !.step = step]

Running == init_cmd.step \in {"key", "generate", "open", "save"}

(* polay init: a fresh key; its file is truncated.                         *)
InitBegin(network, n) ==
    /\ ~Running /\ generated < MaxGenerated /\ generated' = generated + 1
    /\ init_cmd' = [step |-> "key", network |-> network, count |-> n, key |-> generated',
                    document |-> NoFile]
    /\ key_files' = [key_files EXCEPT !["init"] = Truncated]
    /\ UNCHANGED <<genesis_file, node>>

(* Fault: the file gets a key pair of its own.                             *)
InitKeyAnother ==
    /\ init_cmd.step = "key" /\ InitStep("generate")
    /\ generated' = generated + 1
    /\ key_files' = [key_files EXCEPT !["init"] = File(generated')]
    /\ UNCHANGED <<genesis_file, node>>

InitKey ==
    /\ init_cmd.step = "key" /\ InitStep("generate")
    /\ key_files' = [key_files EXCEPT !["init"] = File(init_cmd.key)]
    /\ UNCHANGED <<genesis_file, generated, node>>

(* The document for the network; there is none for mainnet.                *)
InitGenerate ==
    /\ init_cmd.step = "generate"
    /\ LET base == IF init_cmd.network = "testnet" THEN generate_testnet(init_cmd.count)
                   ELSE generate_devnet
           g == WithOperator(base, init_cmd.key)
       IN  IF init_cmd.network = "mainnet" THEN InitStep("failed")
           ELSE IF ValidGenesis(g) /\ ValidConfig(g.chain_config)
           THEN init_cmd' = [init_cmd EXCEPT !.step = "open", !.document = File(g)]
           ELSE InitStep("rejected")
    /\ UNCHANGED <<key_files, genesis_file, generated, node>>

InitOpen ==
    /\ init_cmd.step = "open" /\ InitStep("save") /\ genesis_file' = Truncated
    /\ UNCHANGED <<key_files, generated, node>>

InitSave ==
    /\ init_cmd.step = "save" /\ genesis_file' = init_cmd.document
    /\ init_cmd' = [init_cmd EXCEPT !.step = "ok", !.document = NoFile]
    /\ UNCHANGED <<key_files, generated, node>>

InitEnds ==
    /\ Running /\ init_cmd' = [init_cmd EXCEPT !.step = "failed", !.document = NoFile]
    /\ UNCHANGED <<key_files, genesis_file, generated, node>>

(* polay keygen, to the file run reads by default; it may end too.         *)
Keygen ==
    /\ generated < MaxGenerated /\ generated' = generated + 1
    /\ \E file \in {Truncated, File(generated')} :
          key_files' = [key_files EXCEPT !["keygen"] = file]
    /\ UNCHANGED <<genesis_file, init_cmd, node>>

(* load_keypair: anything but a whole key is an error.                     *)
LoadKeypair(path) == IF key_files[path].state = "written" THEN key_files[path] ELSE NoFile

(* polay run, with the key file given: it loads the document and the key.  *)
Run(path) ==
    /\ genesis_file.state = "written" /\ ValidGenesis(genesis_file.content)
    /\ LoadKeypair(path) # NoFile
    /\ node' = [key |-> LoadKeypair(path), path |-> path, document |-> genesis_file,
                after |-> init_cmd.step]
    /\ UNCHANGED <<key_files, genesis_file, init_cmd, generated>>

NodeInitInit ==
    /\ key_files = [path \in {"init", "keygen"} |-> NoFile] /\ genesis_file = NoFile
    /\ init_cmd = [step |-> "none", network |-> "none", count |-> 0, key |-> 0,
                   document |-> NoFile]
    /\ generated = 0
    /\ node = [key |-> NoFile, path |-> "none", document |-> NoFile, after |-> "none"]

NodeInitNext ==
    \/ \E network \in {"devnet", "testnet", "mainnet"}, n \in ValidatorCounts :
          InitBegin(network, n)
    \/ InitKey
    \/ InitGenerate
    \/ InitOpen
    \/ InitSave
    \/ InitEnds
    \/ Keygen
    \/ \E path \in {"init", "keygen"} : Run(path)

-----------------------------------------------------------------------------
(* The document init generates, with the operator added, passes both       *)
(* validations for every network and number of validators.                 *)
GeneratedIsValid == init_cmd.step # "rejected"

(* A node run with init's key file after an init that finished is a        *)
(* validator of its genesis document, with the minimum stake and funds of  *)
(* its own, whatever commands ended early before.  (After an init that did *)
(* not finish, one for mainnet among them, the document on disk is that of *)
(* the key before, which is lost.)                                         *)
OperatorIsValidator ==
    node.path = "init" /\ node.after = "ok" =>
        LET g == node.document.content
            me == make_addr("key", node.key.content)
        IN  /\ \E v \in ToSet(g.validators) :
                  v.address = me /\ v.stake >= g.chain_config.min_stake
            /\ \E a \in ToSet(g.accounts) : a.address = me /\ a.balance > 0

(* A node that runs has the state of its genesis document: however often   *)
(* init, keygen and run were cut off before, the documents are valid, the  *)
(* store is initialized, and consensus starts with the active set.         *)
NodesStartFromGenesis ==
    /\ ActiveAreListed
    /\ UpIsInitialized
    /\ ConsensusHasActiveSet
    /\ GeneratedIsValid
    /\ OperatorIsValidator
=============================================================================
