----------------------------- MODULE BlockCommit -----------------------------
(***************************************************************************)
(* How a node that produces blocks alone writes them to its store          *)
(* (run_single_validator, produce_and_apply_block and apply_block), one    *)
(* step per write, with a crash or a failed write between any two.         *)
(*                                                                         *)
(* pending     the mempool, lost in a crash                                *)
(* executed    how often the effects of a transaction are in the store     *)
(* stored_blocks   the stored block of each height, NoBlock if there is    *)
(*             none                                                        *)
(* locations   TxLocation of each transaction, stored with its receipt     *)
(* chain_height, latest_hash   the chain metadata                          *)
(* epochs      the heights whose epoch transition is in the store          *)
(* pc, block, left   the step of produce_and_apply_block, its block and    *)
(*             the transactions its current loop has yet to visit          *)
(* built, faults     blocks built and faults suffered so far               *)
(*                                                                         *)
(* A block is identified by `id`, which stands for its hash: two blocks    *)
(* differ at least in their timestamps.  The writes of one transaction are *)
(* one step, and every transaction executes within the gas limits.         *)
(***************************************************************************)
EXTENDS Integers, FiniteSets, FiniteSetsExt

CONSTANTS CommitTxs, NoBlock, max_block_transactions, epoch_length,
          CommitHeight, MaxFaults

VARIABLES pending, executed, stored_blocks, locations, chain_height,
          latest_hash, epochs, pc, block, left, built, faults

commitStore ==
    <<executed, stored_blocks, locations, chain_height, latest_hash, epochs>>

commitVars == <<pending, executed, stored_blocks, locations, chain_height,
                latest_hash, epochs, pc, block, left, built, faults>>

ZERO == 0

StoredBlocks == [id : Nat, height : 1 .. CommitHeight, parent : Nat,
                 txs : SUBSET CommitTxs]

ASSUME CommitAssumption ==
    /\ max_block_transactions \in Nat /\ epoch_length \in Nat \ {0}
    /\ CommitHeight \in Nat /\ MaxFaults \in Nat
    /\ NoBlock \notin Nat /\ NoBlock \notin StoredBlocks

Phases == {"idle", "execute", "block", "receipts", "height", "hash", "prune",
           "epoch"}

IsEpochBoundary(h) == h > 0 /\ h % epoch_length = 0

(* init_from_genesis on an empty store.                                    *)
CommitInit ==
    /\ pending = {}
    /\ executed = [t \in CommitTxs |-> 0]
    /\ stored_blocks = [h \in 1 .. CommitHeight |-> NoBlock]
    /\ locations = [t \in CommitTxs |-> NoBlock]
    /\ chain_height = 0 /\ latest_hash = ZERO
    /\ epochs = {}
    /\ pc = "idle" /\ block = NoBlock /\ left = {}
    /\ built = 0 /\ faults = 0

(* The mempool takes a transaction, at any time.                           *)
SubmitTx(t) ==
    /\ t \notin pending
    /\ pending' = pending \cup {t}
    /\ UNCHANGED <<commitStore, pc, block, left, built, faults>>

(* produce_block reads the tip and takes pending transactions (bound: no   *)
(* block above CommitHeight).  The block it assembles is fixed by now.     *)
Begin ==
    /\ pc = "idle" /\ chain_height < CommitHeight
    /\ \E txs \in SUBSET pending :
          /\ Cardinality(txs) =
                Min({Cardinality(pending), max_block_transactions})
          /\ block' = [id |-> built + 1, height |-> chain_height + 1,
                       parent |-> latest_hash, txs |-> txs]
          /\ left' = txs
          /\ pc' = IF txs = {} THEN "block" ELSE "execute"
    /\ built' = built + 1
    /\ UNCHANGED <<pending, commitStore, faults>>

(* execute_block writes the effects of each transaction to the live store. *)
Execute(t) ==
    /\ pc = "execute" /\ t \in left
    /\ executed' = [executed EXCEPT ![t] = @ + 1]
    /\ left' = left \ {t}
    /\ pc' = IF left' = {} THEN "block" ELSE pc
    /\ UNCHANGED <<pending, stored_blocks, locations, chain_height,
                   latest_hash, epochs, block, built, faults>>

(* Fault: the block is executed again when it is applied.                  *)
StoreBlockExecutes ==
    /\ pc = "block"
    /\ executed' = [t \in CommitTxs |->
                     executed[t] + IF t \in block.txs THEN 1 ELSE 0]
    /\ stored_blocks' = [stored_blocks EXCEPT ![block.height] = block]
    /\ left' = block.txs
    /\ pc' = IF left' = {} THEN "height" ELSE "receipts"
    /\ UNCHANGED <<pending, locations, chain_height, latest_hash, epochs,
                   block, built, faults>>

(* Fault: the height is written with the block.                            *)
StoreBlockSetsHeight ==
    /\ pc = "block"
    /\ stored_blocks' = [stored_blocks EXCEPT ![block.height] = block]
    /\ chain_height' = block.height
    /\ left' = block.txs
    /\ pc' = IF left' = {} THEN "height" ELSE "receipts"
    /\ UNCHANGED <<pending, executed, locations, latest_hash, epochs, block,
                   built, faults>>

(* apply_block: the block, ...                                             *)
StoreBlock ==
    /\ pc = "block"
    /\ stored_blocks' = [stored_blocks EXCEPT ![block.height] = block]
    /\ left' = block.txs
    /\ pc' = IF left' = {} THEN "height" ELSE "receipts"
    /\ UNCHANGED <<pending, executed, locations, chain_height, latest_hash,
                   epochs, block, built, faults>>

(* Fault: the location is that of the next block.                          *)
StoreReceiptAhead(t) ==
    /\ pc = "receipts" /\ t \in left
    /\ locations' = [locations EXCEPT ![t] = block.height + 1]
    /\ left' = left \ {t}
    /\ pc' = IF left' = {} THEN "height" ELSE pc
    /\ UNCHANGED <<pending, executed, stored_blocks, chain_height,
                   latest_hash, epochs, block, built, faults>>

(* ... the receipt and the location of each transaction, ...               *)
StoreReceipt(t) ==
    /\ pc = "receipts" /\ t \in left
    /\ locations' = [locations EXCEPT ![t] = block.height]
    /\ left' = left \ {t}
    /\ pc' = IF left' = {} THEN "height" ELSE pc
    /\ UNCHANGED <<pending, executed, stored_blocks, chain_height,
                   latest_hash, epochs, block, built, faults>>

(* ... and the chain metadata, in two writes.                              *)
SetChainHeight ==
    /\ pc = "height"
    /\ chain_height' = block.height
    /\ pc' = "hash"
    /\ UNCHANGED <<pending, executed, stored_blocks, locations, latest_hash,
                   epochs, block, left, built, faults>>

(* Fault: the latest hash stays that of the parent.                        *)
SetLatestHashOfParent ==
    /\ pc = "hash"
    /\ latest_hash' = block.parent
    /\ pc' = "prune"
    /\ UNCHANGED <<pending, executed, stored_blocks, locations,
                   chain_height, epochs, block, left, built, faults>>

SetLatestHash ==
    /\ pc = "hash"
    /\ latest_hash' = block.id
    /\ pc' = "prune"
    /\ UNCHANGED <<pending, executed, stored_blocks, locations,
                   chain_height, epochs, block, left, built, faults>>

(* remove_batch.                                                           *)
RemoveBatch ==
    /\ pc = "prune"
    /\ pending' = pending \ block.txs
    /\ pc' = "epoch"
    /\ UNCHANGED <<commitStore, block, left, built, faults>>

(* Fault: the epoch ends a block early.                                    *)
ProcessEpochEarly ==
    /\ pc = "epoch"
    /\ epochs' = IF IsEpochBoundary(block.height + 1)
                 THEN epochs \cup {block.height} ELSE epochs
    /\ pc' = "idle" /\ block' = NoBlock
    /\ UNCHANGED <<pending, executed, stored_blocks, locations,
                   chain_height, latest_hash, left, built, faults>>

(* maybe_process_epoch_readonly, the last thing produce_and_apply_block    *)
(* does; its writes are one step.                                          *)
ProcessEpoch ==
    /\ pc = "epoch"
    /\ epochs' = IF IsEpochBoundary(block.height)
                 THEN epochs \cup {block.height} ELSE epochs
    /\ pc' = "idle" /\ block' = NoBlock
    /\ UNCHANGED <<pending, executed, stored_blocks, locations,
                   chain_height, latest_hash, left, built, faults>>

(* Fault: the loop of the abandoned block keeps its place.                 *)
AbandonMidLoop == pc' = "idle" /\ block' = NoBlock /\ UNCHANGED left

Abandon == pc' = "idle" /\ block' = NoBlock /\ left' = {}

(* A write of apply_block or of the epoch transition fails: the error is   *)
(* logged, what is written stays written and the loop goes on.             *)
WriteFails ==
    /\ pc \in {"block", "receipts", "height", "hash", "epoch"}
    /\ faults < MaxFaults /\ faults' = faults + 1
    /\ Abandon
    /\ UNCHANGED <<pending, commitStore, built>>

(* The process dies and starts again on its store.  At height 0 it runs    *)
(* init_from_genesis again, which writes the genesis accounts anew.        *)
Crash ==
    /\ faults < MaxFaults /\ faults' = faults + 1
    /\ pending' = {}
    /\ executed' = IF chain_height = 0 THEN [t \in CommitTxs |-> 0]
                                       ELSE executed
    /\ Abandon
    /\ UNCHANGED <<stored_blocks, locations, chain_height, latest_hash,
                   epochs, built>>

(* Bound: nothing happens after block CommitHeight.                        *)
CommitFinished ==
    pc = "idle" /\ chain_height = CommitHeight /\ UNCHANGED commitVars

CommitNext ==
    \/ \E t \in CommitTxs : SubmitTx(t) \/ Execute(t) \/ StoreReceipt(t)
    \/ Begin \/ StoreBlock \/ SetChainHeight \/ SetLatestHash
    \/ RemoveBatch \/ ProcessEpoch
    \/ WriteFails \/ Crash
    \/ CommitFinished

CommitSpec == CommitInit /\ [][CommitNext]_commitVars

-----------------------------------------------------------------------------
(* Types, and that the loops of execution and of the receipts run exactly  *)
(* while they have transactions of the block to visit.                     *)
CommitTypeOK ==
    /\ pending \subseteq CommitTxs
    /\ executed \in [CommitTxs -> Nat]
    /\ stored_blocks \in [1 .. CommitHeight -> StoredBlocks \cup {NoBlock}]
    /\ locations \in [CommitTxs -> (1 .. CommitHeight) \cup {NoBlock}]
    /\ chain_height \in 0 .. CommitHeight /\ latest_hash \in 0 .. built
    /\ epochs \subseteq 1 .. CommitHeight
    /\ block = NoBlock <=> pc = "idle"
    /\ block # NoBlock => block \in StoredBlocks /\ left \subseteq block.txs
    /\ left # {} <=> pc \in {"execute", "receipts"}
    /\ pc \in Phases /\ built \in Nat /\ faults \in 0 .. MaxFaults

(* Whatever crashes, every height the chain has reached has its block, and *)
(* every transaction of the block a receipt of this or a later height:     *)
(* apply_block writes the height after what it makes visible.              *)
HeightsHaveBlocks ==
    \A h \in 1 .. chain_height :
        /\ stored_blocks[h] # NoBlock /\ stored_blocks[h].height = h
        /\ \A t \in stored_blocks[h].txs :
              locations[t] # NoBlock /\ locations[t] >= h

Inclusions(t) == {h \in 1 .. chain_height : t \in stored_blocks[h].txs}

(* Between blocks the store holds the effects of every transaction of the  *)
(* chain once per inclusion, and beyond that at most one more for each     *)
(* fault: produce_block executes on the live store, so a block that is     *)
(* abandoned leaves its effects behind, and none is ever lost.             *)
EffectsOfBlocks ==
    pc = "idle" =>
        \A t \in CommitTxs :
            executed[t] - Cardinality(Inclusions(t)) \in 0 .. faults

BrokenLinks ==
    {h \in 2 .. chain_height :
        stored_blocks[h].parent # stored_blocks[h - 1].id}

(* Every block names its predecessor in the chain as its parent, except    *)
(* that a fault between the height and the latest hash breaks one link.    *)
ChainIsLinked ==
    /\ Cardinality(BrokenLinks) <= faults
    /\ faults = 0 /\ pc = "idle" /\ chain_height > 0 =>
          latest_hash = stored_blocks[chain_height].id

(* A location that lies in the chain names a block with the transaction,   *)
(* unless the block has been written again after a fault.                  *)
LocationsAreRight ==
    \A t \in CommitTxs :
        faults = 0 /\ locations[t] # NoBlock /\ locations[t] <= chain_height =>
            t \in stored_blocks[locations[t]].txs

PassedEpochs == {h \in 1 .. chain_height : IsEpochBoundary(h)}

(* Between blocks the epochs the chain has passed have been processed, but *)
(* for one per fault: nothing looks again for one that was missed.         *)
EpochsProcessed ==
    pc = "idle" => /\ epochs \subseteq PassedEpochs
                   /\ Cardinality(PassedEpochs \ epochs) <= faults

(* What the chain says it has, it has, but for the losses the faults       *)
(* explain: blocks with receipts, links between them, locations of         *)
(* transactions, and the epochs passed.                                    *)
StoredBlocksAreWhole ==
    /\ CommitTypeOK
    /\ HeightsHaveBlocks
    /\ ChainIsLinked
    /\ LocationsAreRight
    /\ EpochsProcessed
=============================================================================
