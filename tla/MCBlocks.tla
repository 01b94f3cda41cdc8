------------------------------ MODULE MCBlocks ------------------------------
(***************************************************************************)
(* One run for the two models of block production: validators that propose *)
(* and validate blocks (BlockExecution), or a node that writes its blocks  *)
(* and may crash (BlockCommit).  A behaviour is one of the component it    *)
(* starts with; the other one rests in its initial state.                  *)
(***************************************************************************)
EXTENDS BlockExecution, BlockCommit, TLC

(* Any two of three validators but the lighter pair form a quorum; one     *)
(* unbonding entry matures at height 1.                                    *)

CONSTANTS n1, n2, n3, tx, u

MCValidators == <<n1, n2, n3>>

MCStake == n1 :> 2 @@ n2 :> 1 @@ n3 :> 1

MCCompletionHeight == [x \in Unbondings |-> 1]
-----------------------------------------------------------------------------
VARIABLE component

Symmetry == Permutations(CommitTxs)

BlocksInit == component \in {"commit", "execution"} /\ CommitInit /\ Init

BlocksNext ==
    \/ component = "commit" /\ CommitNext /\ UNCHANGED <<component, vars>>
    \/ component = "execution" /\ Next /\ UNCHANGED <<component, commitVars>>

BlocksSpec == BlocksInit /\ [][BlocksNext]_<<component, vars, commitVars>>
=============================================================================
