------------------------------ MODULE Staking -------------------------------
(***************************************************************************)
(* Staking: the transaction handlers, the maturing of unbondings at the    *)
(* start of a block, and the epoch transition with its rewards.            *)
(*                                                                         *)
(* A validator record exists for every registered validator.  The list of  *)
(* validators the epoch transition looks at is another key, and only       *)
(* genesis adds to it.  The list of a validator's delegators is a third;   *)
(* register_delegation adds to it and process_slashing reads it, and the   *)
(* node calls neither.                                                     *)
(***************************************************************************)
EXTENDS LedgerState

LOCAL INSTANCE SequencesExt

(* UnbondingSlots is the number of values of the u8 index of an unbonding  *)
(* key.                                                                    *)
CONSTANTS max_commission_bps, epoch_length, unbonding_period_blocks,
          UnbondingSlots, min_stake, max_validators, epochs_per_year,
          inflation_rate_bps, jail_duration

(* ValidatorInfo::new and Delegation::new.                                 *)
NewValidator(stake, commission_bps) ==
    [stake |-> stake, commission_bps |-> commission_bps, status |-> "Active",
     jailed_until |-> NoHeight, blocks_produced |-> 0]

NewDelegation == [amount |-> 0, last_reward_epoch |-> 0]

(* execute_register_validator.                                             *)
ExecuteRegisterValidator(s, signer, commission_bps) ==
    Attempt(s, ~Has(s, validator_key(signer)) /\ commission_bps <= max_commission_bps,
            Put(s, validator_key(signer), NewValidator(0, commission_bps)))

(* execute_delegate_stake.                                                 *)
ExecuteDelegateStake(s, signer, v, amount, height) ==
    LET d == Get(s, delegation_key(signer, v), NewDelegation)
        staked == Put(Debit(s, signer, amount), validator_key(v),
                      [s[validator_key(v)] EXCEPT !.stake = SatAdd(@, amount)])
    IN  Attempt(s, /\ Has(s, validator_key(v)) /\ s[validator_key(v)].status = "Active"
                   /\ CanAfford(s, signer, amount),
                Put(staked, delegation_key(signer, v),
                    [amount |-> SatAdd(d.amount, amount),
                     last_reward_epoch |-> height \div epoch_length]))

(* get_unbonding_entries of a delegator, at one completion height.         *)
UnbondingsAt(s, signer, h) ==
    {k \in KeysOf(s, "unbonding") : k[2] = h /\ k[3] = signer}

(* The slot of a new entry: the number of entries there are, as a u8.      *)
UnbondingIndex(s, signer, h) == Cardinality(UnbondingsAt(s, signer, h)) % UnbondingSlots

(* Fault: every undelegation of a block uses the first slot.               *)
ExecuteUndelegateStakeFirstSlot(s, signer, v, amount, height) ==
    LET d == delegation_key(signer, v)
        done == height + unbonding_period_blocks
        left == Put(Put(s, d, [s[d] EXCEPT !.amount = @ - amount]), validator_key(v),
                    [s[validator_key(v)] EXCEPT !.stake = SatSub(@, amount)])
    IN  Attempt(s, Has(s, validator_key(v)) /\ Has(s, d) /\ s[d].amount >= amount,
                Put(left, unbonding_key(done, signer, 0),
                    [validator |-> v, amount |-> amount]))

(* execute_undelegate_stake.  The stake of the validator is reduced by     *)
(* what it has of the amount.                                              *)
ExecuteUndelegateStake(s, signer, v, amount, height) ==
    LET d == delegation_key(signer, v)
        done == height + unbonding_period_blocks
        left == Put(Put(s, d, [s[d] EXCEPT !.amount = @ - amount]), validator_key(v),
                    [s[validator_key(v)] EXCEPT !.stake = SatSub(@, amount)])
    IN  Attempt(s, Has(s, validator_key(v)) /\ Has(s, d) /\ s[d].amount >= amount,
                Put(left, unbonding_key(done, signer, UnbondingIndex(s, signer, done)),
                    [validator |-> v, amount |-> amount]))

(* Fault: an entry matures one block late.                                 *)
MatureUnbondingsLate(s, height) == {k \in KeysOf(s, "unbonding") : k[2] < height}

(* get_mature_unbondings: by the index, which is sorted by height.         *)
MatureUnbondings(s, height) == {k \in KeysOf(s, "unbonding") : k[2] <= height}

(* process_mature_unbondings.                                              *)
ProcessMatureUnbondings(s, height) ==
    FoldLeft(LAMBDA t, k : Del(Credit(t, k[3], s[k].amount), k), s,
             SetToSeq(MatureUnbondings(s, height)))

(* get_validator_set: the listed validators, in the order of the list.     *)
GetValidatorSet(s) ==
    SelectSeq(Get(s, validator_list_key, <<>>), LAMBDA v : Has(s, validator_key(v)))

(* get_total_staked.                                                       *)
StakeOf(s, v) == s[validator_key(v)].stake
TotalStaked(s, vs) == SumOver(ToSet(vs), LAMBDA v : StakeOf(s, v))

(* Unjail every listed validator whose jail time is over.                  *)
Unjail(s, height) ==
    LET free(v) == LET i == s[validator_key(v)]
                   IN  /\ i.status = "Jailed" /\ i.jailed_until # NoHeight
                       /\ height >= i.jailed_until
    IN  FoldLeft(LAMBDA t, v :
                     IF free(v)
                     THEN Put(t, validator_key(v),
                              [t[validator_key(v)] EXCEPT !.status = "Active",
                                                          !.jailed_until = NoHeight])
                     ELSE t,
                 s, GetValidatorSet(s))

(* A validator's place in a list sorted by falling stake; the sort is      *)
(* stable, so the order of the list decides between equals.                *)
Ahead(s, vs, i, j) ==
    \/ StakeOf(s, vs[i]) > StakeOf(s, vs[j])
    \/ StakeOf(s, vs[i]) = StakeOf(s, vs[j]) /\ i < j

SortByStake(s, vs) ==
    LET rank(i) == 1 + Cardinality({j \in DOMAIN vs : Ahead(s, vs, j, i)})
    IN  [p \in DOMAIN vs |-> vs[CHOOSE i \in DOMAIN vs : rank(i) = p]]

(* Fault: the validators are cut off before they are sorted.               *)
SelectValidatorsUnsorted(s) ==
    LET eligible == SelectSeq(GetValidatorSet(s),
                        LAMBDA v : /\ s[validator_key(v)].status = "Active"
                                   /\ StakeOf(s, v) >= min_stake)
    IN  SortByStake(s, SubSeq(eligible, 1,
            IF Len(eligible) < max_validators THEN Len(eligible) ELSE max_validators))

(* The eligible validators, sorted and truncated to max_validators.        *)
SelectValidators(s) ==
    LET eligible == SelectSeq(GetValidatorSet(s),
                        LAMBDA v : /\ s[validator_key(v)].status = "Active"
                                   /\ StakeOf(s, v) >= min_stake)
    IN  SubSeq(SortByStake(s, eligible), 1,
               IF Len(eligible) < max_validators THEN Len(eligible) ELSE max_validators)

(* calculate_epoch_rewards, with the epochs of a year as a constant.       *)
CalculateEpochRewards(total_supply) ==
    IF epochs_per_year = 0 THEN 0
    ELSE Bps(total_supply, inflation_rate_bps) \div epochs_per_year

(* get_delegations_for_validator: those on the list of its delegators.     *)
GetDelegationsForValidator(s, v) ==
    SelectSeq(Get(s, delegation_list_key(v), <<>>), LAMBDA d : Has(s, delegation_key(d, v)))

(* The payouts of one validator: its commission, and the rest shared among *)
(* the delegations made before this epoch.                                 *)
PayoutsOf(s, v, reward, epoch) ==
    LET commission == Bps(reward, s[validator_key(v)].commission_bps)
        amount(d) == s[delegation_key(d, v)].amount
        eligible == SelectSeq(GetDelegationsForValidator(s, v),
                        LAMBDA d : /\ amount(d) > 0
                                   /\ s[delegation_key(d, v)].last_reward_epoch < epoch)
        total == SumOver(ToSet(eligible), amount)
        shares == [i \in DOMAIN eligible |->
                      <<eligible[i],
                        (SatSub(reward, commission) * amount(eligible[i])) \div total>>]
    IN  SelectSeq(<<<<v, commission>>>> \o shares, LAMBDA p : p[2] > 0)

(* SupplyInfo after tokens were minted.  recompute_circulating is left out *)
(* with the field it computes, which nothing reads back.                   *)
Mint(s, amount) ==
    Put(s, supply_info_key,
        [s[supply_info_key] EXCEPT !.total_minted = SatAdd(@, amount),
                                   !.total_supply = SatAdd(@, amount)])

(* distribute_epoch_rewards: by stake among the active validators.         *)
DistributeEpochRewards(s, vs, epoch) ==
    LET total == TotalStaked(s, vs)
        reward(v) == (CalculateEpochRewards(s[supply_info_key].total_supply) * StakeOf(s, v))
                         \div total
        payouts == FlattenSeq([i \in DOMAIN vs |-> PayoutsOf(s, vs[i], reward(vs[i]), epoch)])
        paid == SumOver(DOMAIN payouts, LAMBDA i : payouts[i][2])
    IN  IF total = 0 THEN s ELSE Mint(CreditEach(s, payouts), paid)

(* process_epoch_transition.                                               *)
ProcessEpochTransition(s, height) ==
    LET epoch == height \div epoch_length
        freed == Unjail(s, height)
        active == SelectValidators(freed)
        chosen == Put(freed, active_validator_set_key, active)
    IN  Put(DistributeEpochRewards(chosen, active, epoch), epoch_info_key(epoch),
            [validator_set |-> active, total_staked |-> TotalStaked(freed, active)])

(* is_epoch_boundary.                                                      *)
IsEpochBoundary(height) == height > 0 /\ height % epoch_length = 0

(* register_delegation.                                                    *)
RegisterDelegation(s, v, d) ==
    LET list == Get(s, delegation_list_key(v), <<>>)
    IN  IF Contains(list, d) THEN s ELSE Put(s, delegation_list_key(v), Append(list, d))

(* process_slashing: the validator and its listed delegations lose a       *)
(* fraction, and the validator is jailed, or unbonding when nothing is     *)
(* left of its stake.                                                      *)
ProcessSlashing(s, v, fraction_bps, height) ==
    LET i == s[validator_key(v)]
        stake == SatSub(i.stake, Bps(i.stake, fraction_bps))
        jailed == Put(s, validator_key(v),
                      [i EXCEPT !.stake = stake,
                                !.status = IF stake = 0 THEN "Unbonding" ELSE "Jailed",
                                !.jailed_until = height + jail_duration])
        cut(t, d) == Put(t, delegation_key(d, v),
                         [t[delegation_key(d, v)] EXCEPT
                             !.amount = SatSub(@, Bps(@, fraction_bps))])
    IN  Attempt(s, Has(s, validator_key(v)),
                FoldLeft(cut, jailed, GetDelegationsForValidator(s, v)))
=============================================================================
