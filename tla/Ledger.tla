------------------------------- MODULE Ledger -------------------------------
(***************************************************************************)
(* The ledger as blocks execute: transactions of a workload in any order   *)
(* and any number of times, with the steps between two blocks.  A workload *)
(* is a record of the store it starts from, the transactions, whether only *)
(* validated ones are executed, and how many are executed at most.         *)
(*                                                                         *)
(* Five variables are history.  drift is what the tokens in accounts,      *)
(* stakes and escrows are above total_supply: the stakes of the genesis    *)
(* validators, which initial_supply does not include, and what steps that  *)
(* do not keep the two together add.  rewarded is the total of the match   *)
(* rewards.  slashed is the total of the stake taken by slashings.         *)
(* overwritten tells that a create operation hit an id in use, residue     *)
(* that a failed transaction changed more than the fee and the nonce.      *)
(***************************************************************************)
EXTENDS LedgerState, TxValidation

LOCAL INSTANCE FiniteSetsExt
LOCAL INSTANCE SequencesExt
LOCAL INSTANCE Functions

(***************************************************************************)
(* The checks StateInvariantChecker makes of a store, for given accounts,  *)
(* validators and <<delegator, validator>> pairs.  A result is whether the *)
(* check passed.                                                           *)
(***************************************************************************)

(* The parts of supply: what accounts hold and validators have at stake.   *)
SumOfBalances(s, accounts) == SumOver(accounts, LAMBDA a : Balance(s, a))
SumOfStakes(s, validators) ==
    SumOver({v \in validators : Has(s, validator_key(v))}, LAMBDA v : s[validator_key(v)].stake)

(* Fault: only what was minted is counted, not what was burned.            *)
ExpectedSupplyUnburned(info) == SatAdd(info.total_supply, info.total_minted)

(* What the checker compares them with.  total_supply already includes     *)
(* what was minted and not what was burned.                                *)
ExpectedSupply(info) ==
    SatSub(SatAdd(info.total_supply, info.total_minted), info.total_burned)

(* check_supply_invariant.                                                 *)
CheckSupplyInvariant(s, accounts, validators) ==
    Has(s, supply_info_key) =>
        SatAdd(SumOfBalances(s, accounts), SumOfStakes(s, validators))
            <= ExpectedSupply(s[supply_info_key])

(* check_account_invariants: what it finds is only worded.                 *)
CheckAccountInvariants(s, accounts) == TRUE

(* check_staking_invariants.                                               *)
CheckStakingInvariants(s, validators, pairs) ==
    \A v \in {w \in validators : Has(s, validator_key(w))} :
        SumOver({p \in pairs : p[2] = v /\ Has(s, delegation_key(p[1], v))},
                LAMBDA p : s[delegation_key(p[1], v)].amount) <= s[validator_key(v)].stake

(* check_all.                                                              *)
CheckAll(s, accounts, validators, pairs) ==
    [supply |-> CheckSupplyInvariant(s, accounts, validators),
     accounts |-> CheckAccountInvariants(s, accounts),
     staking |-> CheckStakingInvariants(s, validators, pairs)]
-----------------------------------------------------------------------------
CONSTANTS Workloads, Proposer, MaxHeight, genesis_commission_bps, genesis_game

VARIABLES workload, store, height, gas, steps, drift, rewarded, slashed, overwritten, residue

ledgerVars ==
    <<workload, store, height, gas, steps, drift, rewarded, slashed, overwritten, residue>>

Txs == Workloads[workload].txs

-----------------------------------------------------------------------------
(* Where tokens are.                                                       *)

(* The prizes of a completed tournament that were paid out.                *)
PaidPrizes(t) ==
    FoldLeft(LAMBDA acc, i : IF t.prizes_claimed[i] THEN acc + Prize(t, i) ELSE acc,
             0, [i \in DOMAIN t.prizes_claimed |-> i])

(* The tokens the value under a key stands for.                            *)
TokensAt(s, k) ==
    CASE k[1] = "account" -> s[k].balance
      [] k[1] = "validator" -> s[k].stake
      [] k[1] = "unbonding" -> s[k].amount
      [] k[1] = "guild" -> s[k].treasury_balance
      [] k[1] = "rental" -> IF s[k].status = "Active" THEN s[k].deposit ELSE 0
      [] k[1] = "proposal" -> IF s[k].status = "Voting" THEN s[k].deposit ELSE 0
      [] k[1] = "tournament" -> s[k].prize_pool - PaidPrizes(s[k])
      [] OTHER -> 0

Tokens(s) == MapThenSumSet(LAMBDA k : TokensAt(s, k), DOMAIN s)

(* The key a transaction that creates something writes it under.           *)
CreatedKey(s, tx, h) ==
    LET a == tx.action
        id == <<tx.signer, a.name, tx.timestamp>>
        done == h + unbonding_period_blocks
    IN  CASE a.kind = "CreateListing" ->
                 listing_key(<<tx.signer, a.class, a.amount, a.price, tx.timestamp>>)
          [] a.kind = "ListForRent" -> rental_key(id)
          [] a.kind = "CreateGuild" -> guild_key(id)
          [] a.kind = "CreateTournament" ->
                 tournament_key(<<tx.signer, a.name, a.start_height>>)
          [] a.kind = "SubmitProposal" -> proposal_key(<<tx.signer, a.name, h>>)
          [] a.kind = "SubmitMatchResult" -> match_result_key(a.match)
          [] a.kind = "UndelegateStake" ->
                 unbonding_key(done, tx.signer, UnbondingIndex(s, tx.signer, done))
          [] OTHER -> <<>>

(* The stake an executed proposal takes from a validator.                  *)
SlashedBy(s, tx) ==
    LET p == s[proposal_key(tx.action.id)]
    IN  IF /\ tx.action.kind = "ExecuteProposal" /\ p.action.kind = "SlashValidator"
           /\ QuorumMet(s, p) /\ ThresholdMet(p)
        THEN Bps(StakeOf(s, p.action.address), p.action.fraction_bps)
        ELSE 0

(* The tokens a transaction creates (or destroys, when negative) outside   *)
(* of total_supply, when its action succeeds in the store s.               *)
Unbacked(s, tx, h) ==
    LET a == tx.action
        lost == IF Has(s, CreatedKey(s, tx, h)) THEN TokensAt(s, CreatedKey(s, tx, h)) ELSE 0
        p == s[proposal_key(a.id)]
        passed == QuorumMet(s, p) /\ ThresholdMet(p)
        r == s[rental_key(a.id)]
        refund == RentalRefund(r, h)
        owned == Balance(s, r.owner)
                     + (IF r.owner = tx.signer THEN refund + r.deposit ELSE 0)
        stake == s[validator_key(a.validator)].stake
        g == s[guild_key(a.id)]
    IN  (CASE a.kind = "DistributeReward" -> TotalDistributed(a.rewards)
           [] a.kind = "ExecuteProposal" ->
                  IF ~passed THEN p.deposit \div 2 - p.deposit
                  ELSE IF p.action.kind = "TreasurySpend" THEN p.action.amount
                  ELSE -SlashedBy(s, tx)
           [] a.kind = "ReturnRental" -> refund - (IF owned < refund THEN owned ELSE refund)
           [] a.kind = "UndelegateStake" -> IF stake < a.amount THEN a.amount - stake ELSE 0
           [] a.kind = "LeaveGuild" -> IF g.member_count = 1 THEN -g.treasury_balance ELSE 0
           [] OTHER -> 0) - lost
-----------------------------------------------------------------------------
(* init_from_genesis: balances of the accounts, <<address, stake>> pairs of *)
(* the validators, and the attestors of a game.                            *)
Genesis(accounts, validators, attestors) ==
    LET stake(v) == validators[CHOOSE i \in DOMAIN validators : validators[i][1] = v][2]
        list == [i \in DOMAIN validators |-> validators[i][1]]
        base == [k \in {account_key(a) : a \in DOMAIN accounts}
                           \cup {validator_key(v) : v \in ToSet(list)}
                           \cup {attestor_key(a) : a \in attestors} |->
                    CASE k[1] = "account" -> NewAccount(accounts[k[2]])
                      [] k[1] = "validator" -> NewValidator(stake(k[2]), genesis_commission_bps)
                      [] k[1] = "attestor" -> [game_id |-> genesis_game, status |-> "Active"]]
        listed == Put(Put(base, validator_list_key, list), active_validator_set_key, list)
        epoch == [validator_set |-> list, total_staked |-> TotalStaked(base, list)]
        supply == [total_supply |-> SumOver(DOMAIN accounts, LAMBDA a : accounts[a]),
                   total_burned |-> 0, total_minted |-> 0,
                   treasury_balance |-> 0, total_fees_collected |-> 0]
    IN  Put(Put(Put(listed, epoch_info_key(0), epoch), chain_height_key, 0),
            supply_info_key, supply)

LedgerInit ==
    /\ workload \in DOMAIN Workloads
    /\ store = Workloads[workload].start
    /\ height = Workloads[workload].height
    /\ drift = Tokens(store) - store[supply_info_key].total_supply
    /\ gas = 0 /\ steps = 0 /\ rewarded = 0 /\ slashed = 0
    /\ overwritten = FALSE /\ residue = FALSE

Outcome(tx) == ExecuteTransaction(store, tx, height, Proposer)
IsValid(s, tx) == ValidateStateless(tx) /\ ValidateStateful(s, tx, height)

(* What the block and the history note of a transaction with outcome o,    *)
(* whose action found the store charged.                                   *)
Note(tx, o, charged) ==
    /\ store' = o.s
    /\ gas' = gas + o.gas
    /\ drift' = drift + (IF o.res = "ok" THEN Unbacked(charged, tx, height) ELSE 0)
    /\ slashed' = slashed + (IF o.res = "ok" THEN SlashedBy(charged, tx) ELSE 0)
    /\ rewarded' = rewarded + (IF o.res = "ok" /\ tx.action.kind = "DistributeReward"
                               THEN TotalDistributed(tx.action.rewards) ELSE 0)
    /\ overwritten' = (overwritten \/ (o.res = "ok" /\ Has(store, CreatedKey(store, tx, height))))
    /\ residue' = \/ residue
                  \/ o.res = "err" /\ o.s # charged
                  \/ /\ o.res = "rejected" /\ o.s # store
                     /\ tx.action.kind # "ReportTournamentResults"

(* execute_block, for one transaction.                                     *)
ExecuteTx(i) ==
    /\ steps < Workloads[workload].limit
    /\ Workloads[workload].vetted => IsValid(store, Txs[i])
    /\ gas + TotalGas(Txs[i]) <= max_block_gas
    /\ Note(Txs[i], Outcome(Txs[i]), ChargeFee(store, Txs[i], Proposer))
    /\ steps' = steps + 1
    /\ UNCHANGED <<workload, height>>

(* A transaction that does not fit into the block is skipped.              *)
SkipTx(i) ==
    /\ steps < Workloads[workload].limit
    /\ gas + TotalGas(Txs[i]) > max_block_gas
    /\ steps' = steps + 1
    /\ UNCHANGED <<workload, store, height, gas, drift, rewarded, slashed, overwritten, residue>>

(* handle_commit after the transactions: the height, the block reward and  *)
(* at the end of an epoch the transition.                                  *)
FinishBlock(s, h) ==
    LET applied == ApplyBlockReward(Put(s, chain_height_key, h), Proposer)
    IN  IF IsEpochBoundary(h) THEN ProcessEpochTransition(applied, h) ELSE applied

(* A call of the staking library that the node itself never makes.         *)
LibraryCall(c) ==
    LET cut == ProcessSlashing(store, c.validator, c.fraction_bps, height).s
    IN  /\ steps < Workloads[workload].limit
        /\ IF c.kind = "register"
           THEN /\ store' = RegisterDelegation(store, c.validator, c.delegator)
                /\ UNCHANGED <<drift, slashed>>
           ELSE /\ store' = cut
                /\ drift' = drift + StakeOf(cut, c.validator) - StakeOf(store, c.validator)
                /\ slashed' = slashed + StakeOf(store, c.validator) - StakeOf(cut, c.validator)
        /\ steps' = steps + 1
        /\ UNCHANGED <<workload, height, gas, rewarded, overwritten, residue>>

(* The block ends and the next one starts.                                 *)
NewBlock ==
    /\ height < MaxHeight
    /\ height' = height + 1
    /\ store' = ProcessMatureUnbondings(FinishBlock(store, height), height + 1)
    /\ gas' = 0
    /\ UNCHANGED <<workload, steps, drift, rewarded, slashed, overwritten, residue>>

LedgerNext ==
    \/ \E i \in DOMAIN Txs : ExecuteTx(i) \/ SkipTx(i)
    \/ \E i \in DOMAIN Workloads[workload].calls : LibraryCall(Workloads[workload].calls[i])
    \/ NewBlock

LedgerSpec == LedgerInit /\ [][LedgerNext]_ledgerVars
-----------------------------------------------------------------------------
(* Every amount in the store is a u64, every count a u32, and an account   *)
(* or escrow is where the type of its key says.                            *)
LedgerTypeOK ==
    /\ \A k \in DOMAIN store : k[1] # "tournament" => TokensAt(store, k) \in 0..MaxU64
    /\ \A k \in KeysOf(store, "guild") : store[k].member_count \in 0..MaxU32
    /\ \A k \in KeysOf(store, "validator") :
           store[k].status \in {"Active", "Jailed", "Unbonding"}
    /\ height \in 0..MaxHeight /\ gas \in 0..max_block_gas
    /\ drift \in Int /\ rewarded \in Nat /\ overwritten \in BOOLEAN

(* The tokens in accounts, stakes, unbondings and escrows (rental          *)
(* deposits, guild treasuries, prize pools, proposal deposits) are the     *)
(* supply the chain reports: fees, transfers, trades, delegations, block   *)
(* and epoch rewards move tokens or mint and burn them in total_supply,    *)
(* and nothing but the steps Unbacked names makes the two part.            *)
SupplyIsBacked == Tokens(store) = store[supply_info_key].total_supply + drift

(* The units of an asset class are with their owners or in open listings,  *)
(* and are as many as its total_supply says, below its cap: minting,       *)
(* transfers, burning and every end of a listing keep them, until a        *)
(* listing takes the id of another.                                        *)
AssetsAreConserved ==
    \A k \in KeysOf(store, "asset_class") :
        LET held == MapThenSumSet(LAMBDA b : store[b],
                        {b \in KeysOf(store, "asset_balance") : b[2] = k[2]})
            listed == MapThenSumSet(LAMBDA l : store[l].amount,
                          {l \in KeysOf(store, "listing") :
                              store[l].class = k[2] /\ store[l].status = "Active"})
        IN  /\ ~overwritten => held + listed = store[k].total_supply
            /\ store[k].max_supply # NoHeight => store[k].total_supply <= store[k].max_supply

(* A guild counts its members right and has no more than it allows, and    *)
(* the index from members to guilds has the same entries as the            *)
(* memberships, whatever joins, leaves, kicks and demotions happen.        *)
GuildsCountMembers ==
    /\ ~overwritten => \A k \in KeysOf(store, "guild") :
          /\ store[k].member_count = Cardinality({m \in KeysOf(store, "guild_member") : m[2] = k[2]})
          /\ store[k].member_count <= store[k].max_members
    /\ {<<m[3], m[2]>> : m \in KeysOf(store, "guild_member")}
          = {<<m[2], m[3]>> : m \in KeysOf(store, "member_guilds")}

(* What a tournament pays out never exceeds its pool when its shares add   *)
(* up to at most the whole, and no participant is registered twice: a      *)
(* prize is claimed once per rank and a cancelled pool is empty.           *)
PrizesFitThePool ==
    \A k \in KeysOf(store, "tournament") :
        LET t == store[k]
        IN  /\ FoldLeft(+, 0, t.prize_distribution) <= 100 => PaidPrizes(t) <= t.prize_pool
            /\ ~overwritten => /\ IsInjective(t.participants)
                               /\ t.status # "Cancelled" =>
                                    t.prize_pool = t.entry_fee * Len(t.participants)

(* The tallies of a proposal are the sums of the votes recorded for it,    *)
(* each with the weight it was cast with, also after voters changed their  *)
(* votes and their stakes moved in between.                                *)
TalliesMatchVotes ==
    ~overwritten => \A k \in KeysOf(store, "proposal") : \A o \in {"Yes", "No", "Abstain"} :
        store[k].votes[o] =
            MapThenSumSet(LAMBDA v : store[v].weight,
                {v \in KeysOf(store, "vote") : v[2] = k[2] /\ store[v].option = o})

(* A proposal is not decided while its vote is open, and one that was      *)
(* executed had the quorum's share of the stake of some moment: its tally  *)
(* is not empty and the threshold of it said yes.                          *)
DecidedAfterVoting ==
    \A k \in KeysOf(store, "proposal") :
        /\ store[k].status # "Voting" => height > store[k].voting_end_height
        /\ store[k].status = "Executed" => ThresholdMet(store[k])

(* Totals kept beside the records they count agree with them: the members  *)
(* of a guild, and the votes of a proposal, which is decided only after    *)
(* the last of them.                                                       *)
CountersAreExact == GuildsCountMembers /\ TalliesMatchVotes /\ DecidedAfterVoting

(* The stake of a validator covers what is delegated to it, but for what   *)
(* slashings took; and no matured unbonding is left behind once a block    *)
(* has started.                                                            *)
StakeCoversDelegations ==
    /\ \A k \in KeysOf(store, "unbonding") : k[2] > height
    /\ \A k \in KeysOf(store, "validator") :
          MapThenSumSet(LAMBDA d : store[d].amount,
              {d \in KeysOf(store, "delegation") : d[3] = k[2]}) <= store[k].stake + slashed

(* StateInvariantChecker, run on everything in the store, complains of the *)
(* delegations only after a slashing, and of the supply exactly when what  *)
(* circulates outside of escrows and unbondings exceeds it: burned tokens, *)
(* which it subtracts from a total_supply that lost them already, set it   *)
(* off as much as drift does.                                              *)
CheckerAlarmsAreExact ==
    LET info == store[supply_info_key]
        escrowed == MapThenSumSet(LAMBDA k : TokensAt(store, k),
                        {k \in DOMAIN store : k[1] \notin {"account", "validator"}})
        checks == CheckAll(store, {k[2] : k \in KeysOf(store, "account")},
                           {k[2] : k \in KeysOf(store, "validator")},
                           {<<k[2], k[3]>> : k \in KeysOf(store, "delegation")})
    IN  /\ checks.supply <=> drift + info.total_burned <= info.total_minted + escrowed
        /\ ~checks.staking => slashed > 0

(* Amounts are in range, and tokens are neither lost nor made: what        *)
(* accounts, stakes and escrows hold is total_supply and the drift         *)
(* explained, and StateInvariantChecker raises its alarms exactly where    *)
(* its own sums differ.                                                    *)
SupplyIsAccounted == LedgerTypeOK /\ SupplyIsBacked /\ CheckerAlarmsAreExact

(* The rewards of all matches stay within the pools their results set,     *)
(* because a match is settled once, until a result is submitted again.     *)
RewardsWithinPools ==
    ~overwritten => rewarded <= MapThenSumSet(LAMBDA m : store[m].reward_pool,
                                              KeysOf(store, "match_result"))

(* Nothing pays out more than was paid in: prizes of a tournament its      *)
(* pool, rewards of a match the reward pool.                               *)
PayoutsFitPools == PrizesFitThePool /\ RewardsWithinPools

(* When only validated transactions execute, a session never spends more   *)
(* than its limit: max_fee, which is checked, bounds the fee that is       *)
(* recorded.                                                               *)
SessionsStayInLimit ==
    Workloads[workload].vetted => \A k \in KeysOf(store, "session") :
        store[k].amount_spent <= store[k].spending_limit

(* A transaction that passes validation, and whose max_fee covers its gas, *)
(* is charged and never dropped; a transfer that passes does what it says; *)
(* and after it executed it does not pass again.                           *)
ValidationIsEnough ==
    \A i \in DOMAIN Txs :
        IsValid(store, Txs[i]) /\ Txs[i].max_fee >= FeeOf(Txs[i]) =>
            \E o \in {Outcome(Txs[i])} :
                /\ o.res # "rejected"
                /\ Txs[i].action.kind = "Transfer" => o.res = "ok"
                /\ ~IsValid(o.s, Txs[i])

(* What validate_transaction accepts in a store executes there as it       *)
(* promises: it is charged, is not accepted again, and stays within the    *)
(* limit of its session.                                                   *)
ValidationProtects == ValidationIsEnough /\ SessionsStayInLimit

(* No action that failed has left anything behind but the fee and the      *)
(* nonce, although the executor has nothing to roll it back with: every    *)
(* handler makes its checks before its first write.  (A rejected report of *)
(* tournament results is the exception: it panics after its writes.)       *)
FailureIsCharged == ~residue

(* An epoch transition chooses the listed validators with the most stake:  *)
(* a validator that is left out is not active, has too little stake, or    *)
(* has no more than any chosen one of a full set.                          *)
EpochSetHasTopStakes ==
    [][height' # height /\ IsEpochBoundary(height) =>
          LET chosen == ToSet(store'[active_validator_set_key])
              info(v) == store'[validator_key(v)]
          IN  \A v \in ToSet(store'[validator_list_key]) \ chosen :
                  \/ info(v).status # "Active" \/ info(v).stake < min_stake
                  \/ /\ Cardinality(chosen) = max_validators
                     /\ \A c \in chosen : info(c).stake >= info(v).stake]_ledgerVars
=============================================================================
