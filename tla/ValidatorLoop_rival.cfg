CONSTANTS
  a = a
  b = b
  c = c
  b1 = b1
  b2 = b2
  b3 = b3
  b4 = b4
  Nil = Nil
  None = None
  Genesis = Genesis
  Stake <- MCStake
  HeightOf <- MCHeightOf
  ParentOf <- MCParentOf
  ValidatorSeq <- BFirst
  Blocks = {b1, b2}
  Faulty = {c}
  FaultyMsgs <- LateRival
  MaxRound = 1
  MaxHeight = 1
SPECIFICATION Spec
INVARIANTS
    
    LockIsSupported
    RoundRecordsAgree
CONSTRAINT RivalMeetsA
