---------------------------- MODULE ValidatorSet ----------------------------
(***************************************************************************)
(* The weighted validator set of polay-consensus (types.rs): who proposes  *)
(* in a round and which sets of voters count as a quorum.                  *)
(*                                                                         *)
(* ValidatorSeq is `validators: Vec<ValidatorWeight>` in its stored order, *)
(* Stake the stake of each member.  Stakes are u64 and every intermediate  *)
(* product is u128 in the code, so no sum below can wrap.                  *)
(***************************************************************************)
EXTENDS Integers, Sequences, FiniteSets, FiniteSetsExt

CONSTANTS ValidatorSeq, Stake

Validators == {ValidatorSeq[i] : i \in DOMAIN ValidatorSeq}

(* Sum of `get_stake` over the members of S.                               *)
StakeOf(S) == MapThenSumSet(LAMBDA v : Stake[v], S)

total_stake == StakeOf(Validators)

(* ValidatorSet::quorum_threshold.                                         *)
QuorumThreshold == (total_stake * 2) \div 3 + 1

(* ConsensusStateMachine::skip_threshold: more than a third of the stake.  *)
SkipThreshold == total_stake \div 3 + 1

IsQuorum(S) == StakeOf(S) >= QuorumThreshold

(* Fault: the round does not rotate the proposer.                          *)
GetProposerByHeight(height, round) ==
    ValidatorSeq[(height % Len(ValidatorSeq)) + 1]

(* ValidatorSet::get_proposer: round robin over the stored order.          *)
GetProposer(height, round) ==
    ValidatorSeq[((height + round) % Len(ValidatorSeq)) + 1]

(* ValidatorSet::new refuses duplicates and get_proposer an empty set.     *)
ASSUME ValidatorSeqAssumption ==
    /\ ValidatorSeq \in Seq(Validators) /\ ValidatorSeq # << >>
    /\ \A i, j \in DOMAIN ValidatorSeq :
          ValidatorSeq[i] = ValidatorSeq[j] => i = j

ASSUME StakeAssumption == Stake \in [Validators -> Nat]

(* What the proofs use of finite sums; every sum of stakes satisfies it.   *)
ASSUME StakeOfAssumption ==
    /\ \A S \in SUBSET Validators : StakeOf(S) \in Nat
    /\ \A S, T \in SUBSET Validators :
          StakeOf(S \cup T) + StakeOf(S \cap T) = StakeOf(S) + StakeOf(T)
    /\ StakeOf({}) = 0
=============================================================================
