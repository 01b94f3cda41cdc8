---------------------------- MODULE CommitProofs ----------------------------
(***************************************************************************)
(* What holds of the stored blocks for any number of transactions, blocks, *)
(* crashes and failed writes (BlockCommit).                                *)
(***************************************************************************)
EXTENDS BlockCommit, FiniteSetTheorems, TLAPS

(* The steps that work on a block above the chain, and those that follow   *)
(* the write of its height.                                                *)
Above == {"execute", "block", "receipts", "height"}
Within == {"hash", "prune", "epoch"}

(* The block in work, its parent and its copy in the store.                *)
BlockInWork ==
    /\ pc \in Above =>
          block.height = chain_height + 1 /\ block.parent = latest_hash
    /\ pc \in Within => block.height = chain_height
    /\ pc # "idle" => block.id <= built
    /\ pc \in {"receipts", "height"} \cup Within =>
          stored_blocks[block.height] = block
    /\ pc \in {"receipts", "height"} =>
          \A t \in block.txs \ left : locations[t] = block.height

(* The effects of t that a block which is not yet in the chain has written *)
(* to the store.                                                           *)
InFlight(t) ==
    IF \/ pc = "execute" /\ t \in block.txs \ left
       \/ pc \in {"block", "receipts", "height"} /\ t \in block.txs
    THEN 1 ELSE 0

EffectCounted(t) ==
    executed[t] - Cardinality(Inclusions(t)) - InFlight(t) \in 0 .. faults

EffectsCounted == \A t \in CommitTxs : EffectCounted(t)

(* The link the next block will break.                                     *)
TipMismatch ==
    IF /\ pc # "hash" /\ chain_height > 0
       /\ latest_hash # stored_blocks[chain_height].id
    THEN 1 ELSE 0

LinksCounted == Cardinality(BrokenLinks) + TipMismatch <= faults

(* The location of a transaction is in the chain, or that of the block in  *)
(* work.                                                                   *)
LocationCounted(t) ==
    \/ locations[t] = NoBlock
    \/ /\ locations[t] \in 1 .. chain_height
       /\ t \in stored_blocks[locations[t]].txs
    \/ /\ pc \in {"receipts", "height"}
       /\ locations[t] = chain_height + 1 /\ t \in block.txs

LocationsCounted == faults = 0 => \A t \in CommitTxs : LocationCounted(t)

(* The epoch that ends with the block in work is not yet missed.           *)
MissedEpochs ==
    (PassedEpochs \ epochs) \ (IF pc \in Within THEN {chain_height} ELSE {})

EpochsCounted ==
    epochs \subseteq PassedEpochs /\ Cardinality(MissedEpochs) <= faults

CommitInv ==
    /\ CommitTypeOK
    /\ BlockInWork
    /\ HeightsHaveBlocks
    /\ EffectsCounted
    /\ LinksCounted
    /\ LocationsCounted
    /\ EpochsCounted

-----------------------------------------------------------------------------
(* The parts of the block in work.                                         *)
LEMMA BlockParts ==
    ASSUME CommitTypeOK, pc # "idle"
    PROVE  /\ block \in StoredBlocks /\ block # NoBlock
           /\ block.id \in Nat /\ block.height \in 1 .. CommitHeight
           /\ block.parent \in Nat /\ block.txs \subseteq CommitTxs
           /\ left \subseteq block.txs
  BY DEF CommitTypeOK, StoredBlocks

(* Types of the numbers.                                                   *)
LEMMA NumberTypes ==
    ASSUME CommitTypeOK
    PROVE  /\ chain_height \in Nat /\ chain_height <= CommitHeight
           /\ faults \in Nat /\ built \in Nat /\ latest_hash \in Nat
           /\ CommitHeight \in Nat
           /\ epoch_length \in Nat \ {0}
           /\ left = {} <=> pc \notin {"execute", "receipts"}
  BY CommitAssumption DEF CommitTypeOK

LEMMA TypeKept ==
    ASSUME CommitTypeOK, BlockInWork, CommitNext
    PROVE  CommitTypeOK'
<1> USE CommitAssumption
<1>1. ASSUME NEW t \in CommitTxs, SubmitTx(t) PROVE CommitTypeOK'
  BY <1>1 DEF SubmitTx, commitStore, CommitTypeOK
<1>2. ASSUME NEW t \in CommitTxs, Execute(t) PROVE CommitTypeOK'
  BY <1>2 DEF Execute, CommitTypeOK, Phases
<1>3. ASSUME NEW t \in CommitTxs, StoreReceipt(t) PROVE CommitTypeOK'
  <2>1. block.height \in 1 .. CommitHeight
    BY <1>3, BlockParts DEF StoreReceipt
  <2> QED
    BY <1>3, <2>1 DEF StoreReceipt, CommitTypeOK, Phases
<1>4. ASSUME Begin PROVE CommitTypeOK'
  <2>1. PICK txs \in SUBSET pending :
           /\ block' = [id |-> built + 1, height |-> chain_height + 1,
                        parent |-> latest_hash, txs |-> txs]
           /\ left' = txs
           /\ pc' = IF txs = {} THEN "block" ELSE "execute"
    BY <1>4 DEF Begin
  <2>2. block' \in StoredBlocks /\ block'.txs = txs
    BY <1>4, <2>1 DEF Begin, CommitTypeOK, StoredBlocks
  <2> QED
    BY <1>4, <2>1, <2>2 DEF Begin, commitStore, CommitTypeOK, Phases
<1>5. ASSUME StoreBlock PROVE CommitTypeOK'
  <2>1. block \in StoredBlocks /\ block.height \in 1 .. CommitHeight
    BY <1>5, BlockParts DEF StoreBlock
  <2> QED
    BY <1>5, <2>1 DEF StoreBlock, CommitTypeOK, Phases
<1>6. ASSUME SetChainHeight PROVE CommitTypeOK'
  <2>1. block.height \in 1 .. CommitHeight
    BY <1>6, BlockParts DEF SetChainHeight
  <2> QED
    BY <1>6, <2>1 DEF SetChainHeight, CommitTypeOK, Phases
<1>7. ASSUME SetLatestHash PROVE CommitTypeOK'
  <2>1. block.id \in 0 .. built
    BY <1>7, BlockParts, NumberTypes DEF SetLatestHash, BlockInWork
  <2> QED
    BY <1>7, <2>1 DEF SetLatestHash, CommitTypeOK, Phases
<1>8. ASSUME RemoveBatch PROVE CommitTypeOK'
  BY <1>8 DEF RemoveBatch, commitStore, CommitTypeOK, Phases
<1>9. ASSUME ProcessEpoch PROVE CommitTypeOK'
  <2>1. block.height \in 1 .. CommitHeight
    BY <1>9, BlockParts DEF ProcessEpoch
  <2> QED
    BY <1>9, <2>1, Zenon DEF ProcessEpoch, CommitTypeOK, Phases
<1>10. ASSUME WriteFails PROVE CommitTypeOK'
  BY <1>10 DEF WriteFails, Abandon, commitStore, CommitTypeOK, Phases
<1>11. ASSUME Crash PROVE CommitTypeOK'
  BY <1>11 DEF Crash, Abandon, CommitTypeOK, Phases
<1>12. ASSUME CommitFinished PROVE CommitTypeOK'
  BY <1>12 DEF CommitFinished, commitVars, CommitTypeOK
<1> QED
  BY <1>1, <1>2, <1>3, <1>4, <1>5, <1>6, <1>7, <1>8, <1>9, <1>10, <1>11,
     <1>12 DEF CommitNext

LEMMA WorkKept ==
    ASSUME CommitTypeOK, BlockInWork, CommitNext
    PROVE  BlockInWork'
<1>1. ASSUME NEW t \in CommitTxs, SubmitTx(t) PROVE BlockInWork'
  BY <1>1 DEF SubmitTx, commitStore, BlockInWork, Above, Within
<1>2. ASSUME NEW t \in CommitTxs, Execute(t) PROVE BlockInWork'
  BY <1>2 DEF Execute, BlockInWork, Above, Within
<1>3. ASSUME NEW t \in CommitTxs, StoreReceipt(t) PROVE BlockInWork'
  <2>1. \A x \in block.txs \ left' : locations'[x] = block.height
    BY <1>3, BlockParts DEF StoreReceipt, BlockInWork, CommitTypeOK
  <2> QED
    BY <1>3, <2>1 DEF StoreReceipt, BlockInWork, Above, Within
<1>4. ASSUME Begin PROVE BlockInWork'
  <2>1. PICK txs \in SUBSET pending :
           /\ block' = [id |-> built + 1, height |-> chain_height + 1,
                        parent |-> latest_hash, txs |-> txs]
           /\ pc' \in {"block", "execute"}
    BY <1>4 DEF Begin
  <2> QED
    BY <1>4, <2>1, NumberTypes
       DEF Begin, commitStore, BlockInWork, Above, Within
<1>5. ASSUME StoreBlock PROVE BlockInWork'
  <2>1. stored_blocks'[block.height] = block
    BY <1>5, BlockParts DEF StoreBlock, CommitTypeOK
  <2> QED
    BY <1>5, <2>1 DEF StoreBlock, BlockInWork, Above, Within
<1>6. ASSUME SetChainHeight PROVE BlockInWork'
  BY <1>6 DEF SetChainHeight, BlockInWork, Above, Within
<1>7. ASSUME SetLatestHash PROVE BlockInWork'
  BY <1>7 DEF SetLatestHash, BlockInWork, Above, Within
<1>8. ASSUME RemoveBatch PROVE BlockInWork'
  BY <1>8 DEF RemoveBatch, commitStore, BlockInWork, Above, Within
<1>9. ASSUME pc' = "idle" PROVE BlockInWork'
  BY <1>9 DEF BlockInWork, Above, Within
<1>10. ASSUME CommitFinished PROVE BlockInWork'
  BY <1>10 DEF CommitFinished, commitVars, BlockInWork
<1> QED
  BY <1>1, <1>2, <1>3, <1>4, <1>5, <1>6, <1>7, <1>8, <1>9, <1>10
     DEF CommitNext, ProcessEpoch, WriteFails, Crash, Abandon

(* The chain, and the blocks in it, change when the height is written and  *)
(* at no other step: StoreBlock writes above the height.                   *)
ChainUnchanged ==
    /\ chain_height' = chain_height
    /\ \A h \in 1 .. chain_height : stored_blocks'[h] = stored_blocks[h]

LEMMA ChainSteps ==
    ASSUME CommitTypeOK, BlockInWork, CommitNext
    PROVE  ChainUnchanged \/ SetChainHeight
<1>1. ASSUME StoreBlock PROVE ChainUnchanged
  BY <1>1, NumberTypes
     DEF StoreBlock, BlockInWork, Above, ChainUnchanged, CommitTypeOK
<1> QED
  BY <1>1 DEF CommitNext, SubmitTx, Execute, StoreReceipt, Begin,
     SetLatestHash, RemoveBatch, ProcessEpoch, WriteFails, Crash,
     CommitFinished, commitStore, commitVars, ChainUnchanged

LEMMA ChainBlocks ==
    ASSUME CommitTypeOK, HeightsHaveBlocks, NEW h \in 1 .. chain_height
    PROVE  /\ stored_blocks[h] \in StoredBlocks
           /\ stored_blocks[h].txs \subseteq CommitTxs
           /\ stored_blocks[h].id \in Nat /\ stored_blocks[h].parent \in Nat
<1>1. h \in 1 .. CommitHeight
  BY NumberTypes
<1>2. stored_blocks[h] \in StoredBlocks
  BY <1>1 DEF HeightsHaveBlocks, CommitTypeOK
<1> QED
  BY <1>2 DEF StoredBlocks

LEMMA HeightsKept ==
    ASSUME CommitTypeOK, BlockInWork, HeightsHaveBlocks, CommitNext
    PROVE  HeightsHaveBlocks'
<1> USE NumberTypes
<1>1. ASSUME SetChainHeight PROVE HeightsHaveBlocks'
  <2>1. /\ chain_height' = chain_height + 1
        /\ stored_blocks' = stored_blocks /\ locations' = locations
    BY <1>1 DEF SetChainHeight, BlockInWork, Above
  <2>2. /\ stored_blocks[chain_height + 1] = block /\ block # NoBlock
        /\ block.height = chain_height + 1 /\ block.height \in Nat
        /\ \A t \in block.txs : locations[t] = chain_height + 1
    BY <1>1, BlockParts DEF SetChainHeight, BlockInWork, Above
  <2>3. \A h \in 1 .. chain_height + 1 : h \in 1 .. chain_height
                                         \/ h = chain_height + 1
    OBVIOUS
  <2> QED
    BY <2>1, <2>2, <2>3, CommitAssumption DEF HeightsHaveBlocks
<1>2. ASSUME ChainUnchanged, NEW t \in CommitTxs, StoreReceipt(t)
      PROVE HeightsHaveBlocks'
  <2>1. block.height = chain_height + 1 /\ block.height \in Nat
    BY <1>2, BlockParts DEF StoreReceipt, BlockInWork, Above
  <2>2. \A x \in CommitTxs :
           locations'[x] = IF x = t THEN block.height ELSE locations[x]
    BY <1>2 DEF StoreReceipt, CommitTypeOK
  <2>3. \A h \in 1 .. chain_height : stored_blocks[h].txs \subseteq CommitTxs
    BY ChainBlocks
  <2> QED
    BY <1>2, <2>1, <2>2, <2>3, CommitAssumption
       DEF HeightsHaveBlocks, ChainUnchanged
<1>3. ASSUME ChainUnchanged, locations' = locations PROVE HeightsHaveBlocks'
  BY <1>3 DEF HeightsHaveBlocks, ChainUnchanged
<1> QED
  BY <1>1, <1>2, <1>3, ChainSteps DEF CommitNext, SubmitTx, Execute,
     StoreBlock, Begin, SetLatestHash, RemoveBatch, ProcessEpoch, WriteFails,
     Crash, CommitFinished, commitStore, commitVars

LEMMA InclusionsFinite ==
    ASSUME CommitTypeOK, NEW t
    PROVE  IsFiniteSet(Inclusions(t)) /\ Cardinality(Inclusions(t)) \in Nat
<1>1. IsFiniteSet(1 .. chain_height)
  BY NumberTypes, FS_Interval
<1>2. Inclusions(t) \in SUBSET (1 .. chain_height)
  BY DEF Inclusions
<1> QED
  BY <1>1, <1>2, FS_Subset, FS_CardinalityType, Zenon

LEMMA EffectsKept ==
    ASSUME CommitTypeOK, BlockInWork, EffectsCounted, CommitNext
    PROVE  EffectsCounted'
<1> SUFFICES ASSUME NEW t \in CommitTxs PROVE EffectCounted(t)'
  BY DEF EffectsCounted
<1> DEFINE n == Cardinality(Inclusions(t))
<1>1. /\ executed[t] - n - InFlight(t) \in 0 .. faults
      /\ n \in Nat /\ executed[t] \in Nat /\ faults \in Nat
  BY NumberTypes, InclusionsFinite
     DEF EffectsCounted, EffectCounted, CommitTypeOK
<1>2. ChainUnchanged => Inclusions(t)' = Inclusions(t)
  BY DEF ChainUnchanged, Inclusions
<1>3. ASSUME SetChainHeight PROVE EffectCounted(t)'
  <2>1. /\ chain_height' = chain_height + 1 /\ stored_blocks' = stored_blocks
        /\ stored_blocks[chain_height + 1] = block
        /\ executed' = executed /\ faults' = faults /\ pc' = "hash"
    BY <1>3 DEF SetChainHeight, BlockInWork, Above
  <2>2. CASE t \in block.txs
    <3>1. Inclusions(t)' = Inclusions(t) \cup {chain_height + 1}
      BY <2>1, <2>2, NumberTypes DEF Inclusions
    <3>2. chain_height + 1 \notin Inclusions(t)
      BY NumberTypes DEF Inclusions
    <3>3. Cardinality(Inclusions(t)') = n + 1
      BY <3>1, <3>2, InclusionsFinite, FS_AddElement
    <3>4. InFlight(t) = 1 /\ InFlight(t)' = 0
      BY <1>3, <2>1, <2>2 DEF InFlight, SetChainHeight
    <3> QED
      BY <1>1, <2>1, <3>3, <3>4 DEF EffectCounted
  <2>3. CASE t \notin block.txs
    <3>1. Inclusions(t)' = Inclusions(t)
      BY <2>1, <2>3, NumberTypes DEF Inclusions
    <3>2. InFlight(t) = 0 /\ InFlight(t)' = 0
      BY <1>3, <2>1, <2>3 DEF InFlight, SetChainHeight
    <3> QED
      BY <1>1, <2>1, <3>1, <3>2 DEF EffectCounted
  <2> QED
    BY <2>2, <2>3
<1>4. ASSUME ChainUnchanged, executed' = executed, faults' = faults,
             InFlight(t)' = InFlight(t)
      PROVE  EffectCounted(t)'
  BY <1>1, <1>2, <1>4 DEF EffectCounted
<1>5. ASSUME NEW x \in CommitTxs, Execute(x), ChainUnchanged
      PROVE  EffectCounted(t)'
  <2>1. /\ left \subseteq block.txs /\ x \in left /\ pc = "execute"
        /\ block' = block /\ left' = left \ {x}
        /\ pc' = IF left' = {} THEN "block" ELSE "execute"
        /\ faults' = faults
    BY <1>5, BlockParts DEF Execute
  <2>2. executed'[t] = IF t = x THEN executed[t] + 1 ELSE executed[t]
    BY <1>5 DEF Execute, CommitTypeOK
  <2>3. InFlight(t)' = IF t = x THEN InFlight(t) + 1 ELSE InFlight(t)
    BY <2>1 DEF InFlight
  <2>4. InFlight(t) \in {0, 1}
    BY DEF InFlight
  <2> QED
    BY <1>1, <1>2, <1>5, <2>1, <2>2, <2>3, <2>4 DEF EffectCounted
<1>6. ASSUME Begin PROVE InFlight(t)' = InFlight(t)
  BY <1>6 DEF Begin, InFlight
<1>7. ASSUME pc' = "idle", executed' = executed, ChainUnchanged,
             \/ faults' = faults /\ InFlight(t) = 0
             \/ faults' = faults + 1
      PROVE  EffectCounted(t)'
  <2>1. InFlight(t) \in {0, 1} /\ InFlight(t)' = 0
    BY <1>7 DEF InFlight
  <2> QED
    BY <1>1, <1>2, <1>7, <2>1 DEF EffectCounted
<1>8. ASSUME Crash, chain_height = 0 PROVE EffectCounted(t)'
  <2>1. Inclusions(t)' = {} /\ InFlight(t)' = 0 /\ executed'[t] = 0
    BY <1>8 DEF Crash, Abandon, Inclusions, InFlight
  <2> QED
    BY <1>1, <1>8, <2>1, FS_EmptySet DEF EffectCounted, Crash
<1>9. ASSUME \/ SetLatestHash \/ RemoveBatch \/ CommitFinished \/ StoreBlock
             \/ \E x \in CommitTxs : SubmitTx(x) \/ StoreReceipt(x)
      PROVE  /\ InFlight(t)' = InFlight(t)
             /\ executed' = executed /\ faults' = faults
  BY <1>9 DEF SetLatestHash, RemoveBatch, CommitFinished, SubmitTx,
     StoreReceipt, StoreBlock, commitStore, commitVars, InFlight
<1>10. ASSUME \/ ProcessEpoch \/ WriteFails
              \/ Crash /\ chain_height # 0
       PROVE  /\ pc' = "idle" /\ executed' = executed
              /\ \/ faults' = faults /\ InFlight(t) = 0
                 \/ faults' = faults + 1
  BY <1>10 DEF ProcessEpoch, WriteFails, Crash, Abandon, commitStore, InFlight
<1>11. CASE ChainUnchanged
  BY <1>3, <1>4, <1>5, <1>6, <1>7, <1>8, <1>9, <1>10, <1>11
     DEF CommitNext, Begin, commitStore
<1> QED
  BY <1>3, <1>11, ChainSteps

(* Abandoning a block costs at most one fault, and every other step keeps  *)
(* the count.                                                              *)
LEMMA LinksKept ==
    ASSUME CommitTypeOK, BlockInWork, HeightsHaveBlocks, LinksCounted,
           CommitNext
    PROVE  LinksCounted'
<1>1. /\ IsFiniteSet(BrokenLinks) /\ Cardinality(BrokenLinks) \in Nat
      /\ faults \in Nat /\ chain_height \in Nat
  <2>1. IsFiniteSet(2 .. chain_height)
    BY NumberTypes, FS_Interval
  <2>2. BrokenLinks \in SUBSET (2 .. chain_height)
    BY DEF BrokenLinks
  <2> QED
    BY <2>1, <2>2, NumberTypes, FS_Subset, FS_CardinalityType, Zenon
<1>2. Cardinality(BrokenLinks) + TipMismatch <= faults
      /\ TipMismatch \in {0, 1}
  BY DEF LinksCounted, TipMismatch
<1>3. ASSUME ChainUnchanged
      PROVE  /\ BrokenLinks' = BrokenLinks
             /\ chain_height > 0 => stored_blocks'[chain_height]
                                    = stored_blocks[chain_height]
  <2>1. \A h \in 2 .. chain_height :
           /\ h \in 1 .. chain_height /\ h - 1 \in 1 .. chain_height
    BY <1>1
  <2> QED
    BY <1>1, <1>3, <2>1 DEF ChainUnchanged, BrokenLinks
<1>4. CASE SetChainHeight
  <2>1. /\ chain_height' = chain_height + 1 /\ stored_blocks' = stored_blocks
        /\ stored_blocks[chain_height + 1] = block
        /\ block.parent = latest_hash
        /\ faults' = faults /\ TipMismatch' = 0
    BY <1>4 DEF SetChainHeight, BlockInWork, Above, TipMismatch
  <2>2. CASE TipMismatch = 1
    <3>1. BrokenLinks' = BrokenLinks \cup {chain_height + 1}
      BY <1>1, <2>1, <2>2 DEF BrokenLinks, TipMismatch
    <3>2. chain_height + 1 \notin BrokenLinks
      BY <1>1 DEF BrokenLinks
    <3>3. Cardinality(BrokenLinks') = Cardinality(BrokenLinks) + 1
      BY <1>1, <3>1, <3>2, FS_AddElement
    <3> QED
      BY <1>1, <1>2, <2>1, <2>2, <3>3 DEF LinksCounted
  <2>3. CASE TipMismatch = 0
    <3>1. BrokenLinks' = BrokenLinks
      BY <1>1, <1>4, <2>1, <2>3 DEF BrokenLinks, TipMismatch, SetChainHeight
    <3> QED
      BY <1>1, <1>2, <2>1, <2>3, <3>1 DEF LinksCounted
  <2> QED
    BY <1>2, <2>2, <2>3
<1>5. CASE SetLatestHash /\ ChainUnchanged
  <2>1. TipMismatch' = 0 /\ faults' = faults
    BY <1>5, <1>3
       DEF SetLatestHash, BlockInWork, Within, TipMismatch, ChainUnchanged
  <2> QED
    BY <1>1, <1>2, <1>3, <1>5, <2>1 DEF LinksCounted
<1>6. CASE (WriteFails \/ Crash) /\ ChainUnchanged
  <2>1. TipMismatch' \in {0, 1} /\ faults' = faults + 1
    BY <1>6 DEF WriteFails, Crash, TipMismatch
  <2> QED
    BY <1>1, <1>2, <1>3, <1>6, <2>1 DEF LinksCounted
<1>7. CASE /\ pc # "hash" /\ pc' # "hash" /\ ChainUnchanged
           /\ latest_hash' = latest_hash /\ faults' = faults
  <2>1. TipMismatch' = TipMismatch
    BY <1>1, <1>3, <1>7 DEF TipMismatch, ChainUnchanged
  <2> QED
    BY <1>2, <1>3, <1>7, <2>1 DEF LinksCounted
<1>8. CASE UNCHANGED <<pc, latest_hash, faults>> /\ ChainUnchanged
  <2>1. TipMismatch' = TipMismatch
    BY <1>1, <1>3, <1>8 DEF TipMismatch, ChainUnchanged
  <2> QED
    BY <1>2, <1>3, <1>8, <2>1 DEF LinksCounted
<1> QED
  BY <1>4, <1>5, <1>6, <1>7, <1>8, ChainSteps
     DEF CommitNext, SubmitTx, Execute, StoreReceipt, StoreBlock, Begin,
     RemoveBatch, ProcessEpoch, CommitFinished, commitStore, commitVars

LEMMA LocationsKept ==
    ASSUME CommitTypeOK, BlockInWork, LocationsCounted, CommitNext
    PROVE  LocationsCounted'
<1> SUFFICES ASSUME faults' = 0, NEW t \in CommitTxs
             PROVE  LocationCounted(t)'
  BY DEF LocationsCounted
<1>1. /\ faults \in Nat /\ chain_height \in Nat
      /\ \/ locations[t] = NoBlock
         \/ locations[t] \in Nat
  BY NumberTypes, CommitAssumption DEF CommitTypeOK
<1>2. faults = 0
  <2>1. faults' = faults \/ faults' = faults + 1
    BY DEF CommitNext, SubmitTx, Execute, StoreReceipt, StoreBlock, Begin,
       SetChainHeight, SetLatestHash, RemoveBatch, ProcessEpoch, WriteFails,
       Crash, CommitFinished, commitVars
  <2> QED
    BY <1>1, <2>1
<1>3. LocationCounted(t)
  BY <1>2 DEF LocationsCounted
<1>4. CASE SetChainHeight
  <2>1. /\ chain_height' = chain_height + 1 /\ stored_blocks' = stored_blocks
        /\ stored_blocks[chain_height + 1] = block
        /\ locations' = locations
    BY <1>4 DEF SetChainHeight, BlockInWork, Above
  <2> QED
    BY <1>1, <1>3, <2>1 DEF LocationCounted
<1>5. ASSUME NEW x \in CommitTxs, StoreReceipt(x), ChainUnchanged
      PROVE  LocationCounted(t)'
  <2>1. /\ block.height = chain_height + 1 /\ x \in block.txs
        /\ block' = block /\ pc' \in {"receipts", "height"}
        /\ pc = "receipts"
    BY <1>5, BlockParts DEF StoreReceipt, BlockInWork, Above
  <2>2. locations'[t] = IF t = x THEN chain_height + 1 ELSE locations[t]
    BY <1>5, <2>1 DEF StoreReceipt, CommitTypeOK
  <2> QED
    BY <1>3, <1>5, <2>1, <2>2 DEF LocationCounted, ChainUnchanged
<1>6. CASE ChainUnchanged /\ locations' = locations
           /\ pc \notin {"receipts", "height"}
  BY <1>3, <1>6 DEF LocationCounted, ChainUnchanged
<1>7. CASE ChainUnchanged /\ UNCHANGED <<locations, pc, block>>
  BY <1>3, <1>7 DEF LocationCounted, ChainUnchanged
<1>8. ~ WriteFails /\ ~ Crash
  BY <1>2 DEF WriteFails, Crash
<1>9. CASE ChainUnchanged
  BY <1>4, <1>5, <1>6, <1>7, <1>8, <1>9
     DEF CommitNext, SubmitTx, Execute, StoreBlock, Begin, SetLatestHash,
     RemoveBatch, ProcessEpoch, CommitFinished, commitStore, commitVars
<1> QED
  BY <1>4, <1>9, ChainSteps

LEMMA EpochsKept ==
    ASSUME CommitTypeOK, BlockInWork, EpochsCounted, CommitNext
    PROVE  EpochsCounted'
<1>1. /\ IsFiniteSet(PassedEpochs) /\ IsFiniteSet(PassedEpochs \ epochs)
      /\ IsFiniteSet(MissedEpochs) /\ Cardinality(MissedEpochs) \in Nat
      /\ faults \in Nat /\ chain_height \in Nat
  <2>1. IsFiniteSet(1 .. chain_height)
    BY NumberTypes, FS_Interval
  <2>2. /\ PassedEpochs \in SUBSET (1 .. chain_height)
        /\ PassedEpochs \ epochs \in SUBSET (1 .. chain_height)
        /\ MissedEpochs \in SUBSET (1 .. chain_height)
    BY DEF PassedEpochs, MissedEpochs
  <2> QED
    BY <2>1, <2>2, NumberTypes, FS_Subset, FS_CardinalityType, Zenon
<1>2. epochs \subseteq PassedEpochs /\ Cardinality(MissedEpochs) <= faults
  BY DEF EpochsCounted
<1>3. ChainUnchanged => PassedEpochs' = PassedEpochs
  BY DEF ChainUnchanged, PassedEpochs, IsEpochBoundary
<1>4. CASE SetChainHeight
  <2>1. /\ chain_height' = chain_height + 1 /\ epochs' = epochs
        /\ faults' = faults /\ pc = "height" /\ pc' = "hash"
    BY <1>4 DEF SetChainHeight, BlockInWork, Above
  <2>2. PassedEpochs' \ {chain_height + 1} = PassedEpochs
    BY <1>1, <2>1 DEF PassedEpochs, IsEpochBoundary
  <2>3. MissedEpochs = PassedEpochs \ epochs
        /\ MissedEpochs' = (PassedEpochs' \ epochs) \ {chain_height + 1}
    BY <2>1 DEF MissedEpochs, Within
  <2>4. MissedEpochs' = MissedEpochs
    BY <2>2, <2>3
  <2> QED
    BY <1>2, <2>1, <2>2, <2>4 DEF EpochsCounted
<1>5. CASE ProcessEpoch /\ ChainUnchanged
  <2>1. /\ block.height = chain_height /\ chain_height \in 1 .. CommitHeight
        /\ pc \in Within /\ pc' \notin Within /\ faults' = faults
        /\ epochs' = IF IsEpochBoundary(chain_height)
                     THEN epochs \cup {chain_height} ELSE epochs
    BY <1>5, BlockParts DEF ProcessEpoch, BlockInWork, Within
  <2>2. epochs' \subseteq PassedEpochs
    BY <1>1, <1>2, <2>1 DEF PassedEpochs
  <2>3. MissedEpochs' = PassedEpochs \ epochs'
    BY <1>3, <1>5, <2>1 DEF MissedEpochs
  <2>4. MissedEpochs = (PassedEpochs \ epochs) \ {chain_height}
    BY <2>1 DEF MissedEpochs
  <2>5. MissedEpochs' \in SUBSET MissedEpochs
    BY <2>1, <2>3, <2>4 DEF PassedEpochs
  <2>6. Cardinality(MissedEpochs') <= Cardinality(MissedEpochs)
        /\ IsFiniteSet(MissedEpochs')
    BY <1>1, <2>5, FS_Subset
  <2>7. Cardinality(MissedEpochs') \in Nat
    BY <2>6, FS_CardinalityType
  <2> QED
    BY <1>1, <1>2, <1>3, <1>5, <2>1, <2>2, <2>6, <2>7 DEF EpochsCounted
<1>6. CASE (WriteFails \/ Crash) /\ ChainUnchanged
  <2>1. /\ epochs' = epochs /\ faults' = faults + 1 /\ pc' \notin Within
    BY <1>6 DEF WriteFails, Crash, Abandon, commitStore, Within
  <2>2. MissedEpochs' = PassedEpochs \ epochs
    BY <1>3, <1>6, <2>1 DEF MissedEpochs
  <2>3. /\ IsFiniteSet(MissedEpochs \cup {chain_height})
        /\ Cardinality(MissedEpochs \cup {chain_height})
              <= Cardinality(MissedEpochs) + 1
        /\ Cardinality(MissedEpochs \cup {chain_height}) \in Nat
    <3>1. /\ IsFiniteSet(MissedEpochs \cup {chain_height})
          /\ Cardinality(MissedEpochs \cup {chain_height}) =
                IF chain_height \in MissedEpochs
                THEN Cardinality(MissedEpochs)
                ELSE Cardinality(MissedEpochs) + 1
      BY <1>1, FS_AddElement
    <3> QED
      BY <1>1, <3>1
  <2>4. MissedEpochs' \in SUBSET (MissedEpochs \cup {chain_height})
    BY <2>2 DEF MissedEpochs
  <2>5. /\ Cardinality(MissedEpochs') <= Cardinality(MissedEpochs) + 1
        /\ Cardinality(MissedEpochs') \in Nat
    BY <1>1, <2>3, <2>4, FS_Subset, FS_CardinalityType
  <2> QED
    BY <1>1, <1>2, <1>3, <1>6, <2>1, <2>5 DEF EpochsCounted
<1>7. CASE ChainUnchanged /\ UNCHANGED <<epochs, faults>>
           /\ (pc \in Within <=> pc' \in Within)
  <2>1. MissedEpochs' = MissedEpochs
    BY <1>3, <1>7 DEF MissedEpochs, ChainUnchanged
  <2> QED
    BY <1>2, <1>3, <1>7, <2>1 DEF EpochsCounted
<1> QED
  BY <1>4, <1>5, <1>6, <1>7, ChainSteps
     DEF CommitNext, SubmitTx, Execute, StoreReceipt, StoreBlock, Begin,
     SetLatestHash, RemoveBatch, CommitFinished, commitStore, commitVars,
     Within

LEMMA CommitInvStarts == CommitInit => CommitInv
<1> SUFFICES ASSUME CommitInit PROVE CommitInv
  OBVIOUS
<1> USE CommitAssumption DEF CommitInit
<1>1. CommitTypeOK
  BY DEF CommitTypeOK, Phases, ZERO
<1>2. /\ BlockInWork /\ HeightsHaveBlocks /\ LocationsCounted
  BY DEF BlockInWork, Above, Within, HeightsHaveBlocks, LocationsCounted,
     LocationCounted
<1>3. /\ \A t : Inclusions(t) = {}
      /\ BrokenLinks = {} /\ PassedEpochs = {} /\ MissedEpochs = {}
  BY DEF Inclusions, BrokenLinks, PassedEpochs, MissedEpochs
<1>4. ASSUME NEW t \in CommitTxs PROVE EffectCounted(t)
  <2>1. executed[t] = 0 /\ InFlight(t) = 0 /\ Cardinality(Inclusions(t)) = 0
    BY <1>3, FS_EmptySet, Zenon DEF InFlight
  <2> QED
    BY <2>1 DEF EffectCounted
<1>5. LinksCounted /\ EpochsCounted
  BY <1>3, FS_EmptySet DEF LinksCounted, TipMismatch, EpochsCounted
<1> QED
  BY <1>1, <1>2, <1>4, <1>5 DEF CommitInv, EffectsCounted

LEMMA CommitInvHolds == CommitSpec => []CommitInv
<1>1. CommitInv /\ [CommitNext]_commitVars => CommitInv'
  <2> SUFFICES ASSUME CommitInv, [CommitNext]_commitVars PROVE CommitInv'
    OBVIOUS
  <2>1. CASE CommitNext
    BY <2>1, TypeKept, WorkKept, HeightsKept, EffectsKept, LinksKept,
       LocationsKept, EpochsKept DEF CommitInv
  <2>2. CASE UNCHANGED commitVars
    <3> USE <2>2 DEF commitVars, CommitInv
    <3>1. CommitTypeOK' /\ BlockInWork'
      BY DEF CommitTypeOK, BlockInWork
    <3>2. HeightsHaveBlocks'
      BY DEF HeightsHaveBlocks
    <3>3. EffectsCounted'
      BY DEF EffectsCounted, EffectCounted, Inclusions, InFlight
    <3>4. LinksCounted'
      BY DEF LinksCounted, BrokenLinks, TipMismatch
    <3>5. LocationsCounted'
      BY DEF LocationsCounted, LocationCounted
    <3>6. EpochsCounted'
      BY DEF EpochsCounted, PassedEpochs, MissedEpochs, IsEpochBoundary
    <3> QED
      BY <3>1, <3>2, <3>3, <3>4, <3>5, <3>6
  <2> QED
    BY <2>1, <2>2
<1> QED
  BY <1>1, CommitInvStarts, PTL DEF CommitSpec

(* produce_and_apply_block: between blocks the store holds the effects of  *)
(* every transaction of the chain once per inclusion, and at most one more *)
(* for each crash or failed write.                                         *)
THEOREM EffectsExact == CommitSpec => []EffectsOfBlocks
<1>1. CommitInv => EffectsOfBlocks
  <2> SUFFICES ASSUME CommitInv, pc = "idle", NEW t \in CommitTxs
               PROVE  executed[t] - Cardinality(Inclusions(t)) \in 0 .. faults
    BY DEF EffectsOfBlocks
  <2>1. /\ EffectCounted(t) /\ InFlight(t) = 0 /\ executed[t] \in Nat
        /\ Cardinality(Inclusions(t)) \in Nat
    BY InclusionsFinite
       DEF CommitInv, EffectsCounted, InFlight, CommitTypeOK
  <2> QED
    BY <2>1 DEF EffectCounted
<1> QED
  BY <1>1, CommitInvHolds, PTL

(* apply_block and maybe_process_epoch: whatever crashes or fails, every   *)
(* height of the chain has its block and receipts, and each fault costs at *)
(* most one link between blocks and one epoch transition.                  *)
THEOREM BlocksWhole == CommitSpec => []StoredBlocksAreWhole
<1>1. CommitInv => StoredBlocksAreWhole
  <2> SUFFICES ASSUME CommitInv PROVE StoredBlocksAreWhole
    OBVIOUS
  <2> USE NumberTypes DEF CommitInv
  <2>1. ChainIsLinked
    <3>1. IsFiniteSet(2 .. chain_height)
      BY FS_Interval
    <3>2. BrokenLinks \in SUBSET (2 .. chain_height)
      BY DEF BrokenLinks
    <3>3. Cardinality(BrokenLinks) \in Nat /\ TipMismatch \in {0, 1}
      BY <3>1, <3>2, FS_Subset, FS_CardinalityType, Zenon DEF TipMismatch
    <3> QED
      BY <3>3 DEF LinksCounted, TipMismatch, ChainIsLinked
  <2>2. LocationsAreRight
    BY DEF LocationsCounted, LocationCounted, LocationsAreRight
  <2>3. EpochsProcessed
    BY DEF EpochsCounted, MissedEpochs, Within, EpochsProcessed
  <2> QED
    BY <2>1, <2>2, <2>3 DEF StoredBlocksAreWhole
<1> QED
  BY <1>1, CommitInvHolds, PTL
=============================================================================
