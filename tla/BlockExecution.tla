--------------------------- MODULE BlockExecution ---------------------------
(***************************************************************************)
(* What proposing, validating and committing a block do to the store of    *)
(* each validator, and which blocks the state-root check lets through.     *)
(*                                                                         *)
(* The store of a validator counts how often each transaction took effect  *)
(* and how many block rewards were credited, and holds the unbonding       *)
(* entries that have not matured; its state root stands for all of it.     *)
(*                                                                         *)
(* Consensus is reduced to what it guarantees (see ValidatorLoop): any     *)
(* validator may have its turn to propose, a block needs a quorum of       *)
(* validators that accepted it, and one block is committed per height.     *)
(* Blocks of other heights and parents are refused before execution and    *)
(* left out, and so are the repeated proposal of one block and the epoch   *)
(* transition.                                                             *)
(***************************************************************************)
EXTENDS ValidatorSet

CONSTANTS Txs, Unbondings, CompletionHeight, None, MaxHeight, MaxProposals

ASSUME ExecutionAssumption ==
    /\ CompletionHeight \in [Unbondings -> Nat]
    /\ MaxHeight \in Nat /\ MaxProposals \in Nat

VARIABLES store, height, mempool, blocks, received, accepted, committed,
          snapshots

vars == <<store, height, mempool, blocks, received, accepted, committed,
          snapshots>>

Heights == 1 .. MaxHeight

Stores == [executed : [Txs -> Nat], rewards : Nat, unbonding : SUBSET Unbondings]

BlockSet == [id : 1 .. MaxProposals, height : Heights, root : Stores,
             txs : SUBSET Txs, proposer : Validators]

Init ==
    /\ store = [n \in Validators |->
                   [executed |-> [t \in Txs |-> 0], rewards |-> 0,
                    unbonding |-> Unbondings]]
    /\ height = [n \in Validators |-> 0]
    /\ mempool = [n \in Validators |-> {}]
    /\ blocks = {}
    /\ received = [n \in Validators |-> {}]
    /\ accepted = [n \in Validators |-> {}]
    /\ committed = [h \in Heights |-> None]
    /\ snapshots = [n \in Validators |-> [h \in Heights |-> None]]

(* execute_block: mature unbondings are paid out, then each transaction    *)
(* takes effect, whether or not it did before.                             *)
ExecuteBlock(s, txs, h) ==
    [executed |-> [t \in Txs |->
                      s.executed[t] + IF t \in txs THEN 1 ELSE 0],
     rewards |-> s.rewards,
     unbonding |-> {u \in s.unbonding : CompletionHeight[u] > h}]

ApplyBlockReward(s) == [s EXCEPT !.rewards = @ + 1]

(* A transaction reaches the mempool of some validators.                   *)
Submit(t, S) ==
    /\ \A n \in S : t \notin mempool[n]
    /\ mempool' = [n \in Validators |->
                      IF n \in S THEN mempool[n] \cup {t} ELSE mempool[n]]
    /\ UNCHANGED <<store, height, blocks, received, accepted, committed,
                   snapshots>>

(* Fault: a proposer counts its block as accepted and not as received.     *)
ProposeUnseen(n) ==
    LET h == height[n] + 1
        b == [id |-> Cardinality(blocks) + 1, height |-> h, root |-> store[n],
              txs |-> mempool[n], proposer |-> n]
    IN  /\ height[n] < MaxHeight /\ Cardinality(blocks) < MaxProposals
        /\ blocks' = blocks \cup {b}
        /\ store' = [store EXCEPT ![n] = ExecuteBlock(@, b.txs, h)]
        /\ accepted' = [accepted EXCEPT ![n] = @ \cup {b}]
        /\ UNCHANGED <<height, mempool, received, committed, snapshots>>

(* produce_proposal: the state root is computed first, then produce_block  *)
(* executes what is pending on the live store.  The proposer's own machine *)
(* takes the proposal without validating it.                               *)
Propose(n) ==
    LET h == height[n] + 1
        b == [id |-> Cardinality(blocks) + 1, height |-> h, root |-> store[n],
              txs |-> mempool[n], proposer |-> n]
    IN  /\ height[n] < MaxHeight /\ Cardinality(blocks) < MaxProposals
        /\ blocks' = blocks \cup {b}
        /\ store' = [store EXCEPT ![n] = ExecuteBlock(@, b.txs, h)]
        /\ received' = [received EXCEPT ![n] = @ \cup {b}]
        /\ accepted' = [accepted EXCEPT ![n] = @ \cup {b}]
        /\ UNCHANGED <<height, mempool, committed, snapshots>>

(* Fault: validation credits the block reward.                             *)
BlockReceivedRewards(n, b) ==
    LET after == ApplyBlockReward(ExecuteBlock(store[n], b.txs, b.height))
    IN  /\ b.height = height[n] + 1 /\ b \notin received[n]
        /\ store' = [store EXCEPT ![n] = after]
        /\ received' = [received EXCEPT ![n] = @ \cup {b}]
        /\ accepted' = [accepted EXCEPT ![n] =
                           IF after = b.root THEN @ \cup {b} ELSE @]
        /\ UNCHANGED <<height, mempool, blocks, committed, snapshots>>

(* on_received_block: validate_proposed_block executes the block on the    *)
(* live store and compares the root it gets with the root of the header.   *)
BlockReceived(n, b) ==
    LET after == ExecuteBlock(store[n], b.txs, b.height)
    IN  /\ b.height = height[n] + 1 /\ b \notin received[n]
        /\ store' = [store EXCEPT ![n] = after]
        /\ received' = [received EXCEPT ![n] = @ \cup {b}]
        /\ accepted' = [accepted EXCEPT ![n] =
                           IF after = b.root THEN @ \cup {b} ELSE @]
        /\ UNCHANGED <<height, mempool, blocks, committed, snapshots>>

(* Fault: only the proposer credits the reward of its block.               *)
HandleCommitRewardsOwn(n, b) ==
    LET paid == ExecuteBlock(store[n], b.txs, b.height)
        after == IF n = b.proposer THEN ApplyBlockReward(paid) ELSE paid
    IN  /\ b.height = height[n] + 1 /\ b \in accepted[n]
        /\ committed[b.height] \in {None, b.id}
        /\ IsQuorum({v \in Validators : b \in accepted[v]})
        /\ committed' = [committed EXCEPT ![b.height] = b.id]
        /\ store' = [store EXCEPT ![n] = after]
        /\ height' = [height EXCEPT ![n] = b.height]
        /\ mempool' = [mempool EXCEPT ![n] = @ \ b.txs]
        /\ snapshots' = [snapshots EXCEPT ![n][b.height] = after]
        /\ UNCHANGED <<blocks, received, accepted>>

(* handle_commit of a validator that holds the proposal: the block is      *)
(* executed (again), the reward credited and the mempool pruned.           *)
HandleCommit(n, b) ==
    LET after == ApplyBlockReward(ExecuteBlock(store[n], b.txs, b.height))
    IN  /\ b.height = height[n] + 1 /\ b \in accepted[n]
        /\ committed[b.height] \in {None, b.id}
        /\ IsQuorum({v \in Validators : b \in accepted[v]})
        /\ committed' = [committed EXCEPT ![b.height] = b.id]
        /\ store' = [store EXCEPT ![n] = after]
        /\ height' = [height EXCEPT ![n] = b.height]
        /\ mempool' = [mempool EXCEPT ![n] = @ \ b.txs]
        /\ snapshots' = [snapshots EXCEPT ![n][b.height] = after]
        /\ UNCHANGED <<blocks, received, accepted>>

(* Bounds: no height above MaxHeight and no more than MaxProposals blocks. *)
Finished ==
    /\ \/ Cardinality(blocks) = MaxProposals
       \/ \A n \in Validators : height[n] = MaxHeight
    /\ UNCHANGED vars

Next ==
    \/ \E t \in Txs, S \in SUBSET Validators \ {{}} : Submit(t, S)
    \/ \E n \in Validators :
          \/ Propose(n)
          \/ \E b \in blocks : BlockReceived(n, b) \/ HandleCommit(n, b)
    \/ Finished

Spec == Init /\ [][Next]_vars

-----------------------------------------------------------------------------
(* Types, and that a validator judges a block once and accepts no other.   *)
TypeOK ==
    /\ store \in [Validators -> Stores]
    /\ height \in [Validators -> 0 .. MaxHeight]
    /\ mempool \in [Validators -> SUBSET Txs]
    /\ blocks \subseteq BlockSet
    /\ \A n \in Validators : accepted[n] \subseteq received[n]
                             /\ received[n] \subseteq blocks

(* Empty rounds so far: no block with a transaction has been proposed.     *)
OnlyEmptyBlocks == \A b \in blocks : b.txs = {}

(* As long as blocks are empty, validators that have applied a height had  *)
(* the same state when they had: neither the rewards of failed rounds nor  *)
(* unbondings paid out while a block was proposed or validated (and not    *)
(* undone when it failed) leave a difference.                              *)
CommittedStatesAgree ==
    OnlyEmptyBlocks =>
    \A m, n \in Validators : \A h \in Heights :
        snapshots[m][h] # None /\ snapshots[n][h] # None
            => snapshots[m][h] = snapshots[n][h]

(* As long as blocks are empty, the validators that have validated a block *)
(* have all accepted or all refused it, whichever failed proposals each of *)
(* them has executed before.                                               *)
SameVerdict ==
    OnlyEmptyBlocks =>
    \A b \in blocks : \A m, n \in Validators \ {b.proposer} :
        b \in received[m] /\ b \in received[n]
            => (b \in accepted[m] <=> b \in accepted[n])

(* Validators that committed the same blocks have the same state, and      *)
(* judge a proposed block alike.                                           *)
StatesAgree == TypeOK /\ CommittedStatesAgree /\ SameVerdict

(* "state_root: Merkle root after executing all transactions": validators  *)
(* that execute the first proposal of a height get the root in its header, *)
(* so whoever validates it accepts it.                                     *)
FirstProposalAccepted ==
    \A b \in blocks :
        (\A c \in blocks : c.height = b.height => c.id >= b.id)
            => \A n \in Validators : b \in received[n] => b \in accepted[n]
=============================================================================
