--------------------------- MODULE MCValidatorLoop ---------------------------
(* Three validators of stake 2, 1 and 1: a and one other form a quorum,    *)
(* b and c do not, and b or c alone is less than a third.                  *)
EXTENDS AgreementInvariant, TLC

CONSTANTS a, b, c, b1, b2, b3, b4

(* The proposer of height 1, round 0 is the second in the list.            *)
AFirst == <<c, a, b>>
BFirst == <<a, b, c>>
CFirst == <<a, c, b>>

MCStake == a :> 2 @@ b :> 1 @@ c :> 1

(* b1 and b2 are candidates for height 1, b3 extends b1 and b4 extends b3. *)
MCHeightOf == [x \in Blocks |-> CASE x = b3 -> 2 [] x = b4 -> 3 [] OTHER -> 1]
MCParentOf ==
    [x \in Blocks |-> CASE x = b3 -> b1 [] x = b4 -> b3 [] OTHER -> Genesis]

Vote(voter, type, round, hash) ==
    [type |-> type, height |-> 1, round |-> round, hash |-> hash,
     voter |-> voter]

(* c is down.                                                              *)
Silent == {}

(* c is silent in round 0, and proposes and supports b2 in round 1.        *)
LateRival ==
    {[type |-> "proposal", round |-> 1, block |-> b2, proposer |-> c],
     Vote(c, "prevote", 1, b2), Vote(c, "precommit", 1, b2)}

(* Only c builds b2, and its proposal reaches a alone, whose stake either  *)
(* block needs.                                                            *)
RivalMeetsA ==
    /\ \A m \in msgs : m.type = "proposal" /\ m.block = b2 => m.proposer = c
    /\ \A m \in delivered[b] : m.proposer # c

(* c proposes both blocks in round 0 and votes for one.                    *)
Equivocating ==
    [type : {"proposal"}, round : {0}, block : {b1, b2}, proposer : {c}]
        \cup {Vote(c, "prevote", 0, b1)}

(* What b says when it proposes b1 in round 0 and everything goes well.    *)
WellBehaved ==
    {[type |-> "proposal", round |-> 0, block |-> b1, proposer |-> b],
     Vote(b, "prevote", 0, b1), Vote(b, "precommit", 0, b1)}
=============================================================================
