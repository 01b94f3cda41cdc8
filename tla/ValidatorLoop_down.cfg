CONSTANTS
  a = a
  b = b
  c = c
  b1 = b1
  b2 = b2
  b3 = b3
  b4 = b4
  Nil = Nil
  None = None
  Genesis = Genesis
  Stake <- MCStake
  HeightOf <- MCHeightOf
  ParentOf <- MCParentOf
  ValidatorSeq <- AFirst
  Blocks = {b1, b2, b3}
  Faulty = {c}
  FaultyMsgs <- Silent
  MaxRound = 1
  MaxHeight = 2
SPECIFICATION TimerSpec
INVARIANTS
    AppliedIsCertified
PROPERTIES
    RoundsMoveForward
    RoundsEnd
