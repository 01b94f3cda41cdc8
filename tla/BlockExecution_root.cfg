CONSTANTS
  n1 = n1
  n2 = n2
  n3 = n3
  tx = tx
  u = u
  None = None
  NoBlock = NoBlock
  ValidatorSeq <- MCValidators
  Stake <- MCStake
  Txs = {tx}
  Unbondings = {}
  CompletionHeight <- MCCompletionHeight
  MaxHeight = 2
  MaxProposals = 2
  CommitTxs = {t1}
  CommitHeight = 1
  max_block_transactions = 1
  epoch_length = 2
  MaxFaults = 0
SPECIFICATION BlocksSpec
INVARIANT FirstProposalAccepted
