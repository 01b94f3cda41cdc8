CONSTANTS
  n1 = n1
  n2 = n2
  n3 = n3
  tx = tx
  u = u
  None = None
  NoBlock = NoBlock
  ValidatorSeq <- MCValidators
  Stake <- MCStake
  Txs = {tx}
  Unbondings = {u}
  CompletionHeight <- MCCompletionHeight
  MaxHeight = 2
  MaxProposals = 3
  CommitTxs = {t1, t2}
  CommitHeight = 3
  max_block_transactions = 2
  epoch_length = 2
  MaxFaults = 2
SPECIFICATION BlocksSpec
SYMMETRY Symmetry
INVARIANTS
    StatesAgree
    EffectsOfBlocks
    StoredBlocksAreWhole
