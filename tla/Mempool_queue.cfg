CONSTANTS
  x0 = x0
  x1 = x1
  y1 = y1
  z0 = z0
  w0 = w0
  alice = alice
  bob = bob
  None = None
  Txs = {x0, x1, y1, z0}
  Threads = {1, 2}
  Invalid = {}
  Sender <- MCSender
  Nonce <- MCNonce
  Fee <- MCFee
  max_size = 2
  max_per_account = 2
  min_fee = 2
  max_nonce_gap = 1
SPECIFICATION Spec
INVARIANT QueuedArePending
