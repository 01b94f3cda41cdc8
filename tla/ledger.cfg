SPECIFICATION MCSpec
CONSTANTS
    MaxU64 = 200000
    MaxU32 = 255
    MaxI64 = 1000
    protocol_fee_bps = 500
    min_proposal_deposit = 20
    voting_period_blocks = 1
    governance_quorum_bps = 3000
    pass_threshold_bps = 5000
    max_commission_bps = 2000
    epoch_length = 2
    unbonding_period_blocks = 2
    UnbondingSlots = 2
    min_stake = 50
    max_validators = 2
    epochs_per_year = 10
    inflation_rate_bps = 1000
    jail_duration = 1
    quarantine_threshold = 50
    base_gas = 1
    gas_per_byte = 1
    min_gas_price = 1
    max_block_gas = 60
    burn_bps = 5000
    treasury_bps = 2000
    block_reward = 10
    Treasury = "treasury"
    max_transaction_size = 2
    max_guild_members = 3
    max_prize_entries = 100
    Proposer = "p"
    genesis_commission_bps = 1000
    genesis_game = "g"
    MaxHeight = 3
    Workloads <- MCWorkloads
    Pool <- MCPool
    PoolStart <- MCPoolStart
    PoolProposer = "p"
    BlockSize = 3
    Keys = {}
    ChainBlocks <- MCChainBlocks
    StartHeights = {0, 2}
    MaxInterruptions = 1
    COMMAND_SLOTS = 1
    EVENT_SLOTS = 2
INVARIANTS
    
    SupplyIsAccounted
    AssetsAreConserved
    CountersAreExact
    PayoutsFitPools
    StakeCoversDelegations
    
    FailureIsCharged
    
PROPERTIES
    
    BroadcastsGoThrough
    EpochSetHasTopStakes
    ScheduleIsConflictFree
CHECK_DEADLOCK FALSE
