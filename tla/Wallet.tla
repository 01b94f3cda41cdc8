------------------------------- MODULE Wallet -------------------------------
(***************************************************************************)
(* The command-line wallet, run in several terminals with one key, beside  *)
(* the node it talks to.  A command asks the node for the chain, then for  *)
(* the nonce of the account, signs a transaction with the next nonce and   *)
(* the second of the clock, and submits it.  The hash of a transaction is  *)
(* the transaction itself.  The node executes a block, which counts the    *)
(* nonce up, and only then takes its transactions out of the mempool; the  *)
(* mempool refuses what is in it, and nothing looks at nonces again.       *)
(***************************************************************************)
EXTENDS Naturals, Sequences, FiniteSets, Functions

(* A command is a record of its group and name, the arguments that do not  *)
(* parse, and whether its fee is enough.                                   *)
CONSTANTS WalletCommands, Terminals, MaxWalletTime, MaxCommands, NoAccount

ASSUME WalletAssumption == NoAccount \notin Nat

(* wallet is the state of every terminal; clock, and the node: the nonce   *)
(* of the account, the mempool, the block being committed, the charged     *)
(* transactions of the chain.  commands counts the commands run; outdated  *)
(* are the transactions submitted with a nonce read before the last change *)
(* of the account's.                                                       *)
VARIABLES wallet, clock, account_nonce, wallet_pool, committing, charged, commands, outdated

walletVars ==
    <<wallet, clock, account_nonce, wallet_pool, committing, charged, commands, outdated>>

nodeVars == <<account_nonce, wallet_pool, committing, charged>>

-----------------------------------------------------------------------------
(* The action of a command, and the arguments it parses first.             *)
TransferCommand == [transfer |-> [action |-> "Transfer", parses |-> {"to"}]]

AssetCommands ==
    [create   |-> [action |-> "CreateAssetClass", parses |-> {}],
     mint     |-> [action |-> "MintAsset", parses |-> {"asset_id", "to"}],
     transfer |-> [action |-> "TransferAsset", parses |-> {"asset_id", "to"}],
     burn     |-> [action |-> "BurnAsset", parses |-> {"asset_id"}]]

MarketCommands ==
    [list   |-> [action |-> "CreateListing", parses |-> {"asset_id"}],
     buy    |-> [action |-> "BuyListing", parses |-> {"listing_id"}],
     cancel |-> [action |-> "CancelListing", parses |-> {"listing_id"}]]

ProfileCommands == [create |-> [action |-> "CreateProfile", parses |-> {}]]

StakeCommands ==
    [delegate   |-> [action |-> "DelegateStake", parses |-> {"validator"}],
     undelegate |-> [action |-> "UndelegateStake", parses |-> {"validator"}]]

ValidatorCommands == [register |-> [action |-> "RegisterValidator", parses |-> {}]]

CommandOf(c) ==
    CASE c.group = "asset" -> AssetCommands[c.name]
      [] c.group = "market" -> MarketCommands[c.name]
      [] c.group = "profile" -> ProfileCommands[c.name]
      [] c.group = "stake" -> StakeCommands[c.name]
      [] c.group = "validator" -> ValidatorCommands[c.name]
      [] OTHER -> TransferCommand[c.name]

(* The key file loads and every argument parses.                           *)
Parses(c) == (CommandOf(c).parses \cup {"key"}) \cap c.bad = {}

-----------------------------------------------------------------------------
Resting == [step |-> "idle", action |-> "none", fee_ok |-> TRUE, nonce |-> 0, time |-> 0,
            fresh |-> TRUE]

Begin(w, c) ==
    /\ wallet[w].step = "idle" /\ commands < MaxCommands /\ Parses(c)
    /\ commands' = commands + 1
    /\ wallet' = [wallet EXCEPT ![w] =
          [Resting EXCEPT !.step = "chain_info", !.action = CommandOf(c).action,
                          !.fee_ok = c.fee_ok]]
    /\ UNCHANGED <<nodeVars, clock, outdated>>

(* get_chain_info, for the chain id.                                       *)
AskChainInfo(w) ==
    /\ wallet[w].step = "chain_info"
    /\ wallet' = [wallet EXCEPT ![w].step = "nonce"]
    /\ UNCHANGED <<nodeVars, clock, commands, outdated>>

(* Fault: the wallet counts nonces from the start of the chain.            *)
FetchNonceOnce(w) ==
    /\ wallet[w].step = "nonce"
    /\ wallet' = [wallet EXCEPT ![w].step = "sign", ![w].nonce = 0]
    /\ UNCHANGED <<nodeVars, clock, commands, outdated>>

(* fetch_nonce: zero when there is no account.                             *)
FetchNonce(w) ==
    /\ wallet[w].step = "nonce"
    /\ wallet' = [wallet EXCEPT ![w].step = "sign",
          ![w].nonce = IF account_nonce = NoAccount THEN 0 ELSE account_nonce]
    /\ UNCHANGED <<nodeVars, clock, commands, outdated>>

SignTransaction(w) ==
    /\ wallet[w].step = "sign"
    /\ wallet' = [wallet EXCEPT ![w].step = "submit", ![w].nonce = @ + 1, ![w].time = clock]
    /\ UNCHANGED <<nodeVars, clock, commands, outdated>>

Transaction(w) ==
    [action |-> wallet[w].action, nonce |-> wallet[w].nonce, fee_ok |-> wallet[w].fee_ok,
     time |-> wallet[w].time]

(* submit_transaction: the mempool refuses a transaction that is in it.    *)
SubmitTransaction(w) ==
    /\ wallet[w].step = "submit"
    /\ wallet_pool' = wallet_pool \cup {Transaction(w)}
    /\ outdated' = IF Transaction(w) \notin wallet_pool /\ ~wallet[w].fresh
                   THEN outdated \cup {Transaction(w)} ELSE outdated
    /\ wallet' = [wallet EXCEPT ![w] = Resting]
    /\ UNCHANGED <<account_nonce, committing, charged, clock, commands>>

(* RpcClient::call: no answer, an error or a null result ends the command; *)
(* the node may refuse a transaction for a limit of its mempool.           *)
CallFails(w) ==
    /\ wallet[w].step \in {"chain_info", "nonce", "submit"}
    /\ wallet' = [wallet EXCEPT ![w] = Resting]
    /\ UNCHANGED <<nodeVars, clock, commands, outdated>>

-----------------------------------------------------------------------------
(* The node.  A transaction is charged, and counts the nonce of its signer *)
(* up, if the account is there and the fee is enough.                      *)
Charged(t) == account_nonce # NoAccount /\ t.fee_ok

(* A wallet that has read the nonce before it changed is not fresh.        *)
NonceChanges ==
    wallet' = [w \in Terminals |->
        IF wallet[w].step \in {"sign", "submit"} THEN [wallet[w] EXCEPT !.fresh = FALSE]
        ELSE wallet[w]]

(* handle_commit: execute_block, for some of what is pending.              *)
ExecuteBlock ==
    /\ committing = {}
    /\ \E block \in SUBSET wallet_pool \ {{}} :
          LET paid == {t \in block : Charged(t)}
          IN  /\ committing' = block
              /\ \E order \in Bijection(1..Cardinality(paid), paid) : charged' = charged \o order
              /\ IF paid = {} THEN UNCHANGED <<account_nonce, wallet>>
                 ELSE account_nonce' = account_nonce + Cardinality(paid) /\ NonceChanges
    /\ UNCHANGED <<wallet_pool, clock, commands, outdated>>

(* Its end: the transactions of the block leave the mempool.               *)
RemoveBatch ==
    /\ committing # {} /\ committing' = {}
    /\ wallet_pool' = wallet_pool \ committing
    /\ UNCHANGED <<account_nonce, charged, wallet, clock, commands, outdated>>

(* The mempool evicts a transaction for a better one.                      *)
EvictPending ==
    /\ \E t \in wallet_pool : wallet_pool' = wallet_pool \ {t}
    /\ UNCHANGED <<account_nonce, committing, charged, wallet, clock, commands, outdated>>

ClockTicks ==
    /\ clock < MaxWalletTime /\ clock' = clock + 1
    /\ UNCHANGED <<wallet, nodeVars, commands, outdated>>

WalletInit ==
    /\ wallet = [w \in Terminals |-> Resting] /\ clock = 0
    /\ account_nonce \in {NoAccount, 0}
    /\ wallet_pool = {} /\ committing = {} /\ charged = <<>> /\ commands = 0 /\ outdated = {}

WalletNext ==
    \/ \E w \in Terminals :
        \/ \E c \in WalletCommands : Begin(w, c)
        \/ AskChainInfo(w)
        \/ FetchNonce(w)
        \/ SignTransaction(w)
        \/ SubmitTransaction(w)
        \/ CallFails(w)
    \/ ExecuteBlock
    \/ RemoveBatch
    \/ EvictPending
    \/ ClockTicks

-----------------------------------------------------------------------------
(* No transaction is charged twice unless it was submitted with a nonce    *)
(* that had changed since the wallet read it: while the first is pending   *)
(* the mempool refuses the second, and once it is executed the nonce, and  *)
(* so the hash, is another.  (Two equal commands of one second may be the  *)
(* same transaction; when a block is committed between the nonce read of   *)
(* the second and its submission, it is executed twice.)                   *)
ChargedOnce ==
    \A i, j \in DOMAIN charged : i # j /\ charged[i] = charged[j] => charged[i] \in outdated
=============================================================================
