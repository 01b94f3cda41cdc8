------------------------- MODULE AgreementInvariant -------------------------
(***************************************************************************)
(* Why ValidatorLoop agrees: the inductive invariant behind                *)
(* CertifiedAgreement.  It is stated of machines C and messages M rather   *)
(* than of the variables, so that it can be followed through the stages of *)
(* one handler (record a vote, lock, vote, commit).                        *)
(*                                                                         *)
(* StageInv(C, n, s, M) is the invariant when the machine of n is s, the   *)
(* others are as in C and the messages broadcast so far are M: a stage     *)
(* changes s (counts a vote, takes a lock, enters a round or a height) or  *)
(* adds a message of n to M.  The lemmas say that each stage preserves it; *)
(* AgreementProofs puts them together.                                     *)
(***************************************************************************)
EXTENDS ValidatorLoopProofs

VoteAt(type, height, round, hash, voter) ==
    [type |-> type, height |-> height, round |-> round, hash |-> hash,
     voter |-> voter]

PrevotersIn(M, height, round, hash) ==
    {v \in Validators : VoteAt("prevote", height, round, hash, v) \in M}

HasPrevoteQuorum(M, height, round, hash) ==
    IsQuorum(PrevotersIn(M, height, round, hash))

VotesBy(n, type, M) == {m \in M : m.type = type /\ m.voter = n}

(* The precommits of n for a block.                                        *)
PrecommitsBy(n, M) == {m \in VotesBy(n, "precommit", M) : m.hash # Nil}

(* The machine has left (height, round).                                   *)
Past(s, height, round) ==
    height < s.height \/ (height = s.height /\ round < s.round)

-----------------------------------------------------------------------------
(* Every vote a machine counts was broadcast, and it counts at most one    *)
(* prevote of a validator in a round.                                      *)
CountsBroadcastVotes(s, M) ==
    /\ \A w \in s.prevotes :
          VoteAt("prevote", s.height, w.round, w.hash, w.voter) \in M
    /\ \A w \in s.precommits :
          VoteAt("precommit", s.height, w.round, w.hash, w.voter) \in M
    /\ \A v, w \in s.prevotes :
          v.round = w.round /\ v.voter = w.voter => v = w

(* A validator has not voted in a round it has not reached.                *)
VotesNotAhead(n, s, M) ==
    \A m \in VotesBy(n, "prevote", M) \cup VotesBy(n, "precommit", M) :
        m.height < s.height \/ (m.height = s.height /\ m.round <= s.round)

(* The lock names a block with a prevote quorum.                           *)
LockSupported(s, M) ==
    s.locked_block # NoLock =>
        /\ s.locked_block.round <= s.round
        /\ HasPrevoteQuorum(M, s.height, s.locked_block.round,
                            s.locked_block.hash)

(* The lock is at least as recent as the last block precommitted.          *)
LockCoversPrecommits(n, s, M) ==
    \A m \in PrecommitsBy(n, M) :
        m.height = s.height =>
            /\ m.round <= s.locked_block.round
            /\ m.round = s.locked_block.round => m.hash = s.locked_block.hash
            /\ m.round = s.round
                  => IsQuorum(VotersFor(s.prevotes, m.round, m.hash))

(* One block per round is precommitted, and only on a prevote quorum.      *)
PrecommitsSupported(n, M) ==
    \A m \in PrecommitsBy(n, M) :
        /\ HasPrevoteQuorum(M, m.height, m.round, m.hash)
        /\ \A k \in PrecommitsBy(n, M) :
              m.height = k.height /\ m.round = k.round => m.hash = k.hash

(* After precommitting one block, another is prevoted only on a newer      *)
(* prevote quorum for it.                                                  *)
PrevotesJustified(n, M) ==
    \A m \in PrecommitsBy(n, M), k \in VotesBy(n, "prevote", M) :
        (/\ m.height = k.height /\ m.round < k.round
         /\ k.hash # Nil /\ k.hash # m.hash)
            => \E l \in (m.round + 1) .. k.round :
                   HasPrevoteQuorum(M, k.height, l, k.hash)

NodeInv(n, s, M) ==
    /\ CountsBroadcastVotes(s, M)
    /\ VotesNotAhead(n, s, M)
    /\ LockSupported(s, M)
    /\ LockCoversPrecommits(n, s, M)
    /\ PrecommitsSupported(n, M)
    /\ PrevotesJustified(n, M)

-----------------------------------------------------------------------------
(* The validators that precommitted hash at (height, round) or still can.  *)
MayPrecommit(C, M, height, round, hash) ==
    {v \in Validators : \/ v \in Faulty
                        \/ VoteAt("precommit", height, round, hash, v) \in M
                        \/ v \in Honest /\ ~Past(C[v], height, round)}

(* Once a block has a prevote quorum, no other block can be committed in   *)
(* an earlier round, now or later.                                         *)
QuorumsSafe(C, M) ==
    \A k \in M :
        (/\ k.type = "prevote" /\ k.hash # Nil
         /\ HasPrevoteQuorum(M, k.height, k.round, k.hash))
            => \A r \in 0 .. k.round - 1 : \A b \in Blocks \ {k.hash} :
                   ~IsQuorum(MayPrecommit(C, M, k.height, r, b))

(* A commit proof holds a quorum of broadcast precommits.                  *)
ProofsCertified(P, M) ==
    \A p \in P :
        /\ IsQuorum(p.voters)
        /\ \A v \in p.voters :
              VoteAt("precommit", p.height, p.round, p.hash, v) \in M

(* Nothing a validator does while rounds are skipped, votes buffered and   *)
(* late proposals accepted ever makes two commit proofs possible: votes    *)
(* are only cast on quorums (on_prevote), the lock follows every precommit *)
(* and a prevote against it needs a newer quorum (on_proposal).            *)
AgreementInv ==
    /\ \A n \in Honest : NodeInv(n, cs[n], msgs)
    /\ QuorumsSafe(cs, msgs)
    /\ ProofsCertified(proofs, msgs)

-----------------------------------------------------------------------------
Messages == VoteMsgs \cup ProposalMsgs

StageInv(C, n, s, M) ==
    /\ s \in Machine /\ M \subseteq Messages
    /\ NodeInv(n, s, M)
    /\ \A m \in Honest \ {n} : NodeInv(m, C[m], M)
    /\ QuorumsSafe([C EXCEPT ![n] = s], M)

-----------------------------------------------------------------------------
(* Prevote quorums stay when messages are added ...                        *)
LEMMA QuorumStays ==
    ASSUME NEW M, NEW N, M \subseteq N, NEW h, NEW r, NEW b,
           HasPrevoteQuorum(M, h, r, b)
    PROVE  HasPrevoteQuorum(N, h, r, b)
<1>1. PrevotersIn(M, h, r, b) \subseteq PrevotersIn(N, h, r, b)
  BY DEF PrevotersIn
<1>2. /\ PrevotersIn(M, h, r, b) \in SUBSET Validators
      /\ PrevotersIn(N, h, r, b) \in SUBSET Validators
  BY DEF PrevotersIn
<1> QED
  BY <1>1, <1>2, QuorumMonotone DEF HasPrevoteQuorum

(* ... and a machine that counts a quorum saw it broadcast.                *)
LEMMA CountedQuorum ==
    ASSUME NEW s \in Machine, NEW M, CountsBroadcastVotes(s, M),
           NEW r, NEW b, IsQuorum(VotersFor(s.prevotes, r, b))
    PROVE  HasPrevoteQuorum(M, s.height, r, b)
<1>1. VotersFor(s.prevotes, r, b) \subseteq PrevotersIn(M, s.height, r, b)
  BY DEF VotersFor, PrevotersIn, CountsBroadcastVotes
<1>2. /\ VotersFor(s.prevotes, r, b) \in SUBSET Validators
      /\ PrevotersIn(M, s.height, r, b) \in SUBSET Validators
  BY DEF PrevotersIn, VotersFor
<1> QED
  BY <1>1, <1>2, QuorumMonotone DEF HasPrevoteQuorum

(* A machine counts a quorum for one hash of a round at most.              *)
LEMMA CountedQuorumUnique ==
    ASSUME NEW s \in Machine, NEW M, CountsBroadcastVotes(s, M), NEW r,
           NEW b, IsQuorum(VotersFor(s.prevotes, r, b)),
           NEW d, IsQuorum(VotersFor(s.prevotes, r, d))
    PROVE  b = d
<1>1. /\ VotersFor(s.prevotes, r, b) \in SUBSET Validators
      /\ VotersFor(s.prevotes, r, d) \in SUBSET Validators
  BY DEF VotersFor
<1>2. PICK v \in VotersFor(s.prevotes, r, b) \cap VotersFor(s.prevotes, r, d) :
        v \notin Faulty
  BY <1>1, QuorumIntersection, FaultyAssumption
<1>3. /\ [round |-> r, hash |-> b, voter |-> v] \in s.prevotes
      /\ [round |-> r, hash |-> d, voter |-> v] \in s.prevotes
  BY <1>2 DEF VotersFor
<1>4. [round |-> r, hash |-> b, voter |-> v] = [round |-> r, hash |-> d, voter |-> v]
  BY <1>3 DEF CountsBroadcastVotes
<1> QED
  BY <1>4

(* What n knows is not disturbed by a message of another validator.        *)
LEMMA NodeGrows ==
    ASSUME NEW n \in Honest, NEW s \in Machine, NEW M \in SUBSET Messages,
           NEW x \in Messages, x.type = "proposal" \/ x.voter # n,
           NodeInv(n, s, M)
    PROVE  NodeInv(n, s, M \cup {x})
<1> DEFINE N == M \cup {x}
<1>1. /\ VotesBy(n, "prevote", N) = VotesBy(n, "prevote", M)
      /\ VotesBy(n, "precommit", N) = VotesBy(n, "precommit", M)
      /\ PrecommitsBy(n, N) = PrecommitsBy(n, M)
  BY DEF VotesBy, PrecommitsBy, Messages
<1>2. \A h, r, b : HasPrevoteQuorum(M, h, r, b) => HasPrevoteQuorum(N, h, r, b)
  BY QuorumStays
<1> HIDE DEF N
<1>3. CountsBroadcastVotes(s, N)
  BY DEF NodeInv, CountsBroadcastVotes, N
<1>4. VotesNotAhead(n, s, N)
  BY <1>1 DEF NodeInv, VotesNotAhead
<1>5. LockSupported(s, N)
  BY <1>2 DEF NodeInv, LockSupported
<1>6. LockCoversPrecommits(n, s, N)
  BY <1>1 DEF NodeInv, LockCoversPrecommits
<1>7. PrecommitsSupported(n, N)
  BY <1>1, <1>2 DEF NodeInv, PrecommitsSupported
<1>8. PrevotesJustified(n, N)
  BY <1>1, <1>2 DEF NodeInv, PrevotesJustified
<1> QED
  BY <1>3, <1>4, <1>5, <1>6, <1>7, <1>8 DEF NodeInv, N

-----------------------------------------------------------------------------
(* The stages of a handler that change the machine of n only.              *)

(* A machine that moves on can precommit less in the rounds it left.       *)
LEMMA QuorumsSafeMoves ==
    ASSUME NEW C \in [Honest -> Machine], NEW n \in Honest,
           NEW M \in SUBSET Messages, NEW s \in Machine, NEW t \in Machine,
           \A h, r \in Nat : Past(s, h, r) => Past(t, h, r),
           QuorumsSafe([C EXCEPT ![n] = s], M)
    PROVE  QuorumsSafe([C EXCEPT ![n] = t], M)
<1> DEFINE Cs == [C EXCEPT ![n] = s]
           Ct == [C EXCEPT ![n] = t]
<1>1. \A v \in Honest, h, r \in Nat : Past(Cs[v], h, r) => Past(Ct[v], h, r)
  OBVIOUS
<1> HIDE DEF Cs, Ct
<1>2. ASSUME NEW h \in Nat, NEW r \in Nat, NEW b,
             IsQuorum(MayPrecommit(Ct, M, h, r, b))
      PROVE  IsQuorum(MayPrecommit(Cs, M, h, r, b))
  <2>1. MayPrecommit(Ct, M, h, r, b) \subseteq MayPrecommit(Cs, M, h, r, b)
    BY <1>1 DEF MayPrecommit
  <2>2. /\ MayPrecommit(Ct, M, h, r, b) \in SUBSET Validators
        /\ MayPrecommit(Cs, M, h, r, b) \in SUBSET Validators
    BY DEF MayPrecommit
  <2> QED
    BY <1>2, <2>1, <2>2, QuorumMonotone
<1>3. QuorumsSafe(Cs, M)
  BY DEF Cs
<1>4. \A k \in M : k.type = "prevote" => k.height \in Nat /\ k.round \in Nat
  BY DEF Messages, VoteMsgs, ProposalMsgs
<1>5. QuorumsSafe(Ct, M)
  <2> SUFFICES ASSUME NEW k \in M, k.type = "prevote", k.hash # Nil,
                      HasPrevoteQuorum(M, k.height, k.round, k.hash),
                      NEW r \in 0 .. k.round - 1, NEW b \in Blocks \ {k.hash},
                      IsQuorum(MayPrecommit(Ct, M, k.height, r, b))
               PROVE  FALSE
    BY DEF QuorumsSafe
  <2>1. IsQuorum(MayPrecommit(Cs, M, k.height, r, b))
    BY <1>2, <1>4
  <2> QED
    BY <1>3, <2>1 DEF QuorumsSafe
<1> QED
  BY <1>5 DEF Ct

(* A new step, proposal or round.                                          *)
LEMMA MachineMoves ==
    ASSUME NEW C \in [Honest -> Machine], NEW n \in Honest, NEW M, NEW s,
           StageInv(C, n, s, M), NEW t \in Machine,
           t.height = s.height, t.round >= s.round,
           t.locked_block = s.locked_block,
           t.prevotes \subseteq s.prevotes, t.precommits \subseteq s.precommits,
           t.round = s.round => t.prevotes = s.prevotes
    PROVE  StageInv(C, n, t, M)
<1>1. s \in Machine /\ NodeInv(n, s, M) /\ M \subseteq Messages
  BY DEF StageInv
<1>2. /\ s.height \in Nat /\ s.round \in Nat /\ t.round \in Nat
      /\ s.locked_block \in Locks
  BY <1>1 DEF Machine
<1>3. \A h, r \in Nat : Past(s, h, r) => Past(t, h, r)
  BY <1>2 DEF Past
<1>4. CountsBroadcastVotes(t, M)
  BY <1>1 DEF NodeInv, CountsBroadcastVotes
<1>5. \A m \in M : m.type \in {"prevote", "precommit"}
                     => m.round \in Nat /\ m.height \in Nat
  BY <1>1 DEF Messages, VoteMsgs, ProposalMsgs
<1>6. VotesNotAhead(n, t, M)
  BY <1>1, <1>2, <1>5 DEF NodeInv, VotesNotAhead, VotesBy
<1>7. LockSupported(t, M)
  <2>1. s.locked_block.round \in Int
    BY <1>2 DEF Locks, NoLock
  <2> QED
    BY <1>1, <1>2, <2>1 DEF NodeInv, LockSupported
<1>8. LockCoversPrecommits(n, t, M)
  <2> SUFFICES ASSUME NEW m \in PrecommitsBy(n, M), m.height = t.height
               PROVE  /\ m.round <= s.locked_block.round
                      /\ m.round = s.locked_block.round
                            => m.hash = s.locked_block.hash
                      /\ m.round = t.round
                            => IsQuorum(VotersFor(t.prevotes, m.round, m.hash))
    BY DEF LockCoversPrecommits
  <2>1. m.round \in Nat /\ m.round <= s.round
    BY <1>1, <1>2, <1>5 DEF NodeInv, VotesNotAhead, PrecommitsBy, VotesBy
  <2>2. m.round = t.round => t.prevotes = s.prevotes /\ m.round = s.round
    BY <1>2, <2>1
  <2> QED
    BY <1>1, <2>2 DEF NodeInv, LockCoversPrecommits
<1>9. NodeInv(n, t, M)
  BY <1>1, <1>4, <1>6, <1>7, <1>8 DEF NodeInv
<1> QED
  BY <1>1, <1>3, <1>9, QuorumsSafeMoves, Zenon DEF StageInv

(* The next height, after a commit.                                        *)
LEMMA HeightMoves ==
    ASSUME NEW C \in [Honest -> Machine], NEW n \in Honest, NEW M, NEW s,
           StageInv(C, n, s, M)
    PROVE  StageInv(C, n, NewMachine(s.height + 1), M)
<1> DEFINE t == NewMachine(s.height + 1)
<1>1. s \in Machine /\ NodeInv(n, s, M) /\ M \subseteq Messages
  BY DEF StageInv
<1>2. s.height \in Nat /\ s.round \in Nat
  BY <1>1 DEF Machine
<1>3. /\ t \in Machine
      /\ t.height = s.height + 1 /\ t.locked_block = NoLock
      /\ t.prevotes = {} /\ t.precommits = {}
  BY <1>2, NewMachineType DEF NewMachine
<1> HIDE DEF t
<1>4. \A m \in M : m.type \in {"prevote", "precommit"}
                     => m.round \in Nat /\ m.height \in Nat
  BY <1>1 DEF Messages, VoteMsgs, ProposalMsgs
<1>5. \A m \in VotesBy(n, "prevote", M) \cup VotesBy(n, "precommit", M) :
         m.height < t.height
  BY <1>1, <1>2, <1>3, <1>4 DEF NodeInv, VotesNotAhead, VotesBy
<1>6. VotesNotAhead(n, t, M)
  BY <1>5 DEF VotesNotAhead
<1>7. LockCoversPrecommits(n, t, M)
  <2>1. \A m \in PrecommitsBy(n, M) : m.height \in Nat /\ m.height < t.height
    BY <1>4, <1>5 DEF PrecommitsBy, VotesBy
  <2> QED
    BY <2>1, <1>2, <1>3 DEF LockCoversPrecommits
<1>8. LockSupported(t, M) /\ CountsBroadcastVotes(t, M)
  BY <1>3 DEF LockSupported, CountsBroadcastVotes
<1>9. NodeInv(n, t, M)
  BY <1>1, <1>6, <1>7, <1>8 DEF NodeInv
<1>10. QuorumsSafe([C EXCEPT ![n] = t], M)
  <2>1. \A h, r \in Nat : Past(s, h, r) => Past(t, h, r)
    BY <1>2, <1>3 DEF Past
  <2> QED
    BY <1>1, <1>3, <2>1, QuorumsSafeMoves, Zenon DEF StageInv
<1> QED
  BY <1>1, <1>3, <1>9, <1>10 DEF StageInv, t

(* Counting a broadcast prevote of a validator not counted in its round.   *)
LEMMA PrevoteCounted ==
    ASSUME NEW C \in [Honest -> Machine], NEW n \in Honest, NEW M, NEW s,
           StageInv(C, n, s, M), NEW w \in Votes,
           VoteAt("prevote", s.height, w.round, w.hash, w.voter) \in M,
           ~HasVoted(s.prevotes, w.round, w.voter)
    PROVE  StageInv(C, n, [s EXCEPT !.prevotes = @ \cup {w}], M)
<1> DEFINE t == [s EXCEPT !.prevotes = @ \cup {w}]
<1>1. s \in Machine /\ NodeInv(n, s, M) /\ M \subseteq Messages
  BY DEF StageInv
<1>2. /\ t \in Machine
      /\ t.height = s.height /\ t.round = s.round
      /\ t.locked_block = s.locked_block
      /\ t.precommits = s.precommits /\ t.prevotes = s.prevotes \cup {w}
  BY <1>1 DEF Machine
<1> HIDE DEF t
<1>3. CountsBroadcastVotes(t, M)
  BY <1>1, <1>2 DEF NodeInv, CountsBroadcastVotes, HasVoted
<1>4. VotesNotAhead(n, t, M) /\ LockSupported(t, M)
  BY <1>1, <1>2 DEF NodeInv, VotesNotAhead, LockSupported
<1>5. LockCoversPrecommits(n, t, M)
  <2>1. ASSUME NEW r, NEW b, IsQuorum(VotersFor(s.prevotes, r, b))
        PROVE  IsQuorum(VotersFor(t.prevotes, r, b))
    <3>1. /\ VotersFor(s.prevotes, r, b) \subseteq VotersFor(t.prevotes, r, b)
          /\ VotersFor(s.prevotes, r, b) \in SUBSET Validators
          /\ VotersFor(t.prevotes, r, b) \in SUBSET Validators
      BY <1>2 DEF VotersFor
    <3> QED
      BY <2>1, <3>1, QuorumMonotone
  <2> QED
    BY <1>1, <1>2, <2>1, Zenon DEF NodeInv, LockCoversPrecommits
<1>6. NodeInv(n, t, M)
  BY <1>1, <1>3, <1>4, <1>5 DEF NodeInv
<1>7. QuorumsSafe([C EXCEPT ![n] = t], M)
  <2>1. \A h, r \in Nat : Past(s, h, r) => Past(t, h, r)
    BY <1>2 DEF Past
  <2> QED
    BY <1>1, <1>2, <2>1, QuorumsSafeMoves, Zenon DEF StageInv
<1> QED
  BY <1>1, <1>2, <1>6, <1>7 DEF StageInv, t

LEMMA PrecommitCounted ==
    ASSUME NEW C \in [Honest -> Machine], NEW n \in Honest, NEW M, NEW s,
           StageInv(C, n, s, M), NEW w \in Votes,
           VoteAt("precommit", s.height, w.round, w.hash, w.voter) \in M
    PROVE  StageInv(C, n, [s EXCEPT !.precommits = @ \cup {w}], M)
<1> DEFINE t == [s EXCEPT !.precommits = @ \cup {w}]
<1>1. s \in Machine /\ NodeInv(n, s, M) /\ M \subseteq Messages
  BY DEF StageInv
<1>2. /\ t \in Machine
      /\ t.height = s.height /\ t.round = s.round
      /\ t.locked_block = s.locked_block
      /\ t.precommits = s.precommits \cup {w} /\ t.prevotes = s.prevotes
  BY <1>1 DEF Machine
<1> HIDE DEF t
<1>3. CountsBroadcastVotes(t, M)
  BY <1>1, <1>2 DEF NodeInv, CountsBroadcastVotes
<1>4. /\ VotesNotAhead(n, t, M) /\ LockSupported(t, M)
      /\ LockCoversPrecommits(n, t, M)
  BY <1>1, <1>2 DEF NodeInv, VotesNotAhead, LockSupported, LockCoversPrecommits
<1>5. NodeInv(n, t, M)
  BY <1>1, <1>3, <1>4 DEF NodeInv
<1>6. QuorumsSafe([C EXCEPT ![n] = t], M)
  <2>1. \A h, r \in Nat : Past(s, h, r) => Past(t, h, r)
    BY <1>2 DEF Past
  <2> QED
    BY <1>1, <1>2, <2>1, QuorumsSafeMoves, Zenon DEF StageInv
<1> QED
  BY <1>1, <1>2, <1>5, <1>6 DEF StageInv, t

(* Locking the block of the quorum counted in the current round.           *)
LEMMA LockTaken ==
    ASSUME NEW C \in [Honest -> Machine], NEW n \in Honest, NEW M, NEW s,
           StageInv(C, n, s, M), NEW b \in Blocks,
           IsQuorum(VotersFor(s.prevotes, s.round, b))
    PROVE  StageInv(C, n, [s EXCEPT !.locked_block =
                                 [round |-> s.round, hash |-> b]], M)
<1> DEFINE lock == [round |-> s.round, hash |-> b]
           t == [s EXCEPT !.locked_block = lock]
<1>1. s \in Machine /\ NodeInv(n, s, M) /\ M \subseteq Messages
  BY DEF StageInv
<1>2. s.round \in Nat
  BY <1>1 DEF Machine
<1>3. lock \in Locks /\ lock.round = s.round /\ lock.hash = b
  BY <1>2 DEF Locks
<1> HIDE DEF lock
<1>4. /\ t \in Machine
      /\ t.height = s.height /\ t.round = s.round
      /\ t.locked_block = lock
      /\ t.precommits = s.precommits /\ t.prevotes = s.prevotes
  BY <1>1, <1>3 DEF Machine
<1> HIDE DEF t
<1>5. CountsBroadcastVotes(t, M) /\ VotesNotAhead(n, t, M)
  BY <1>1, <1>4 DEF NodeInv, CountsBroadcastVotes, VotesNotAhead
<1>6. LockSupported(t, M)
  <2>1. HasPrevoteQuorum(M, s.height, s.round, b)
    BY <1>1, CountedQuorum DEF NodeInv
  <2> QED
    BY <1>2, <1>3, <1>4, <2>1 DEF LockSupported
<1>7. LockCoversPrecommits(n, t, M)
  <2> SUFFICES ASSUME NEW m \in PrecommitsBy(n, M), m.height = s.height
               PROVE  /\ m.round <= s.round
                      /\ m.round = s.round
                            => /\ m.hash = b
                               /\ IsQuorum(VotersFor(s.prevotes, m.round, m.hash))
    BY <1>3, <1>4 DEF LockCoversPrecommits
  <2>1. m.round <= s.round
    <3>1. m \in VotesBy(n, "precommit", M) /\ m \in M
      BY DEF PrecommitsBy, VotesBy
    <3>2. m.height \in Nat
      BY <1>1 DEF Machine
    <3> QED
      BY <1>1, <3>1, <3>2 DEF NodeInv, VotesNotAhead
  <2>2. m.round = s.round => IsQuorum(VotersFor(s.prevotes, m.round, m.hash))
    BY <1>1 DEF NodeInv, LockCoversPrecommits
  <2>3. m.round = s.round => m.hash = b
    BY <1>1, <2>2, CountedQuorumUnique, Zenon DEF NodeInv
  <2> QED
    BY <2>1, <2>2, <2>3
<1>8. NodeInv(n, t, M)
  BY <1>1, <1>5, <1>6, <1>7 DEF NodeInv
<1>9. QuorumsSafe([C EXCEPT ![n] = t], M)
  <2>1. \A h, r \in Nat : Past(s, h, r) => Past(t, h, r)
    BY <1>4 DEF Past
  <2> QED
    BY <1>1, <1>4, <2>1, QuorumsSafeMoves, Zenon DEF StageInv
<1> QED
  BY <1>1, <1>4, <1>8, <1>9 DEF StageInv, t, lock

-----------------------------------------------------------------------------
(* The stages that broadcast a message of n.                               *)

(* A quorum has an honest member.                                          *)
LEMMA QuorumHonest ==
    ASSUME NEW S \in SUBSET Validators, IsQuorum(S)
    PROVE  \E v \in S : v \in Honest
BY QuorumIntersection, FaultyAssumption DEF Honest

LEMMA QuorumsSafeUse ==
    ASSUME NEW C, NEW M, QuorumsSafe(C, M), NEW h, NEW q, NEW d \in Blocks,
           HasPrevoteQuorum(M, h, q, d),
           NEW r \in 0 .. q - 1, NEW b \in Blocks, b # d
    PROVE  ~IsQuorum(MayPrecommit(C, M, h, r, b))
<1>1. PrevotersIn(M, h, q, d) \in SUBSET Validators
  BY DEF PrevotersIn
<1>2. PICK v \in PrevotersIn(M, h, q, d) : TRUE
  BY <1>1, QuorumHonest DEF HasPrevoteQuorum
<1> DEFINE k == VoteAt("prevote", h, q, d, v)
<1>3. /\ k \in M /\ k.type = "prevote"
      /\ k.height = h /\ k.round = q /\ k.hash = d
  BY <1>2 DEF PrevotersIn, VoteAt
<1> HIDE DEF k
<1> QED
  BY <1>3, BlocksAssumption DEF QuorumsSafe

LEMMA ProposalSent ==
    ASSUME NEW C \in [Honest -> Machine], NEW n \in Honest, NEW M, NEW s,
           StageInv(C, n, s, M), NEW p \in ProposalMsgs
    PROVE  StageInv(C, n, s, M \cup {p})
<1> DEFINE N == M \cup {p}
           Cs == [C EXCEPT ![n] = s]
<1>1. s \in Machine /\ M \subseteq Messages /\ p \in Messages
  BY DEF StageInv, Messages
<1>2. p.type = "proposal"
  BY DEF ProposalMsgs
<1>3. NodeInv(n, s, N) /\ \A m \in Honest \ {n} : NodeInv(m, C[m], N)
  BY <1>1, <1>2, NodeGrows DEF StageInv
<1>4. QuorumsSafe(Cs, N)
  <2> HIDE DEF Cs
  <2>1. \A h, r, b, v : /\ VoteAt("prevote", h, r, b, v) # p
                        /\ VoteAt("precommit", h, r, b, v) # p
    BY <1>2 DEF VoteAt
  <2>2. \A h, r, b : HasPrevoteQuorum(N, h, r, b) = HasPrevoteQuorum(M, h, r, b)
    <3>1. \A h, r, b : PrevotersIn(N, h, r, b) = PrevotersIn(M, h, r, b)
      BY <2>1 DEF PrevotersIn
    <3> QED BY <3>1 DEF HasPrevoteQuorum
  <2>3. \A h, r, b : MayPrecommit(Cs, N, h, r, b) = MayPrecommit(Cs, M, h, r, b)
    BY <2>1 DEF MayPrecommit
  <2>4. QuorumsSafe(Cs, M)
    BY DEF StageInv, Cs
  <2> QED
    <3>1. \A k \in N : k.type = "prevote" => k \in M
      BY <1>2
    <3> HIDE DEF N
    <3> QED BY <2>2, <2>3, <2>4, <3>1 DEF QuorumsSafe
<1> QED
  BY <1>1, <1>3, <1>4 DEF StageInv

(* A vote of the round a machine is in is not ahead of it.                 *)
LEMMA NotAheadGrows ==
    ASSUME NEW n, NEW s, NEW M, NEW N, NEW x, s.round \in Nat,
           VotesNotAhead(n, s, M), x.height = s.height, x.round = s.round,
           VotesBy(n, "prevote", N) \subseteq VotesBy(n, "prevote", M) \cup {x},
           VotesBy(n, "precommit", N) \subseteq VotesBy(n, "precommit", M) \cup {x}
    PROVE  VotesNotAhead(n, s, N)
<1>1. s.round <= s.round
  OBVIOUS
<1> QED
  BY <1>1, Zenon DEF VotesNotAhead

(* A machine that may have voted in round q has left the rounds before q.  *)
LEMMA LaterRoundIsPast ==
    ASSUME NEW s, s.round \in Nat, NEW h, NEW q \in Nat, NEW r \in Nat, r < q,
           h < s.height \/ (h = s.height /\ q <= s.round)
    PROVE  Past(s, h, r)
  BY DEF Past

(* What LockCoversPrecommits and PrecommitsSupported say of a precommit    *)
(* for the locked block.                                                   *)
LEMMA PrecommitCovered ==
    ASSUME NEW n, NEW s, NEW M, NEW N, NEW x, s.round \in Nat,
           LockCoversPrecommits(n, s, M),
           PrecommitsBy(n, N) \subseteq PrecommitsBy(n, M) \cup {x},
           x \in PrecommitsBy(n, N) =>
               /\ x.round = s.round /\ s.locked_block.round = s.round
               /\ s.locked_block.hash = x.hash
               /\ IsQuorum(VotersFor(s.prevotes, s.round, x.hash))
    PROVE  LockCoversPrecommits(n, s, N)
<1>1. s.round <= s.round
  OBVIOUS
<1> SUFFICES ASSUME NEW m \in PrecommitsBy(n, N), m.height = s.height
             PROVE  /\ m.round <= s.locked_block.round
                    /\ m.round = s.locked_block.round
                          => m.hash = s.locked_block.hash
                    /\ m.round = s.round
                          => IsQuorum(VotersFor(s.prevotes, m.round, m.hash))
  BY Zenon DEF LockCoversPrecommits
<1>2. CASE m \in PrecommitsBy(n, M)
  BY <1>2, Zenon DEF LockCoversPrecommits
<1>3. CASE m = x
  BY <1>1, <1>3, Zenon
<1> QED
  BY <1>2, <1>3, Zenon

(* One more precommit, for a block with a prevote quorum and the same as   *)
(* any other of its round.                                                 *)
LEMMA SupportedGrows ==
    ASSUME NEW n, NEW M, NEW N, NEW x, PrecommitsSupported(n, M),
           PrecommitsBy(n, N) \subseteq PrecommitsBy(n, M) \cup {x},
           \A h, r, b : HasPrevoteQuorum(M, h, r, b) => HasPrevoteQuorum(N, h, r, b),
           x \in PrecommitsBy(n, N) =>
               /\ HasPrevoteQuorum(M, x.height, x.round, x.hash)
               /\ \A k \in PrecommitsBy(n, M) :
                     k.height = x.height /\ k.round = x.round => k.hash = x.hash
    PROVE  PrecommitsSupported(n, N)
<1> SUFFICES ASSUME NEW m \in PrecommitsBy(n, N)
             PROVE  /\ HasPrevoteQuorum(N, m.height, m.round, m.hash)
                    /\ \A k \in PrecommitsBy(n, N) :
                          m.height = k.height /\ m.round = k.round
                              => m.hash = k.hash
  BY Zenon DEF PrecommitsSupported
<1>1. HasPrevoteQuorum(N, m.height, m.round, m.hash)
  BY Zenon DEF PrecommitsSupported
<1>2. ASSUME NEW k \in PrecommitsBy(n, N),
             m.height = k.height, m.round = k.round
      PROVE  m.hash = k.hash
  <2>1. CASE k \in PrecommitsBy(n, M) /\ m \in PrecommitsBy(n, M)
    BY <1>2, <2>1, Zenon DEF PrecommitsSupported
  <2>2. CASE k = x \/ m = x
    BY <1>2, <2>2, Zenon
  <2> QED
    BY <2>1, <2>2, Zenon
<1> QED
  BY <1>1, <1>2, Zenon

(* A precommit of the latest round a validator has prevoted in excludes no *)
(* prevote.                                                                *)
LEMMA JustifiedGrows ==
    ASSUME NEW n, NEW M, NEW N, NEW x, PrevotesJustified(n, M),
           PrecommitsBy(n, N) \subseteq PrecommitsBy(n, M) \cup {x},
           VotesBy(n, "prevote", N) = VotesBy(n, "prevote", M),
           \A h, r, b : HasPrevoteQuorum(M, h, r, b) => HasPrevoteQuorum(N, h, r, b),
           \A k \in VotesBy(n, "prevote", M) :
               k.height = x.height => ~(x.round < k.round)
    PROVE  PrevotesJustified(n, N)
<1> SUFFICES ASSUME NEW m \in PrecommitsBy(n, N),
                    NEW k \in VotesBy(n, "prevote", N),
                    m.height = k.height, m.round < k.round,
                    k.hash # Nil, k.hash # m.hash
             PROVE  \E l \in (m.round + 1) .. k.round :
                        HasPrevoteQuorum(N, k.height, l, k.hash)
  BY Zenon DEF PrevotesJustified
<1>1. m # x
  BY Zenon
<1>2. \E l \in (m.round + 1) .. k.round : HasPrevoteQuorum(M, k.height, l, k.hash)
  BY <1>1, Zenon DEF PrevotesJustified
<1> QED
  BY <1>2, Zenon

(* Two quorums have an honest validator in common.                         *)
LEMMA QuorumsMeet ==
    ASSUME NEW S \in SUBSET Validators, NEW T \in SUBSET Validators,
           IsQuorum(S), IsQuorum(T)
    PROVE  \E v \in S \cap T : v \notin Faulty
  BY QuorumIntersection, FaultyAssumption

(* QuorumsSafe only looks at prevotes and at who may precommit.            *)
LEMMA QuorumsSafeSame ==
    ASSUME NEW C, NEW M, NEW N, QuorumsSafe(C, M),
           \A k \in N : k.type = "prevote" => k \in M,
           \A h, r, b : HasPrevoteQuorum(N, h, r, b) = HasPrevoteQuorum(M, h, r, b),
           \A h, r, b : MayPrecommit(C, N, h, r, b) = MayPrecommit(C, M, h, r, b)
    PROVE  QuorumsSafe(C, N)
<1> SUFFICES ASSUME NEW k \in N, k.type = "prevote", k.hash # Nil,
                    HasPrevoteQuorum(N, k.height, k.round, k.hash),
                    NEW r \in 0 .. k.round - 1, NEW b \in Blocks \ {k.hash}
             PROVE  ~IsQuorum(MayPrecommit(C, N, k.height, r, b))
  BY Zenon DEF QuorumsSafe
<1>1. k \in M /\ HasPrevoteQuorum(M, k.height, k.round, k.hash)
  BY Zenon
<1>2. ~IsQuorum(MayPrecommit(C, M, k.height, r, b))
  BY <1>1, Zenon DEF QuorumsSafe
<1> QED
  BY <1>2, Zenon

(* Votes that are not ahead of a machine are of no later round.            *)
LEMMA NotAheadUse ==
    ASSUME NEW n, NEW s, NEW M, VotesNotAhead(n, s, M),
           s.height \in Nat, s.round \in Nat,
           NEW k \in VotesBy(n, "prevote", M), k.round \in Nat,
           k.height = s.height
    PROVE  ~(s.round < k.round)
<1>1. \/ k.height < s.height
      \/ k.height = s.height /\ k.round <= s.round
  BY Zenon DEF VotesNotAhead
<1> QED
  BY <1>1

LEMMA RoundBefore ==
    ASSUME NEW q \in Nat, NEW r \in 0 .. q - 1
    PROVE  r \in Nat /\ r < q
  OBVIOUS

LEMMA RoundBetween ==
    ASSUME NEW r \in Nat, NEW q \in Nat, NEW l \in (r + 1) .. q
    PROVE  r \in 0 .. l - 1
  OBVIOUS

(* The fields of a prevote for a block.                                    *)
LEMMA PrevoteFields ==
    ASSUME NEW k \in Messages, k.type = "prevote", k.hash # Nil
    PROVE  k.height \in Nat /\ k.round \in Nat /\ k.hash \in Blocks
<1>1. k \in VoteMsgs
  BY DEF Messages, VoteMsgs, ProposalMsgs
<1> QED
  BY <1>1 DEF VoteMsgs, Hashes

(* A precommit for nil, or for the block just locked.                      *)
LEMMA PrecommitSent ==
    ASSUME NEW C \in [Honest -> Machine], NEW n \in Honest, NEW M, NEW s,
           StageInv(C, n, s, M), NEW hash \in Hashes,
           hash # Nil => /\ s.locked_block.round = s.round
                         /\ s.locked_block.hash = hash
                         /\ IsQuorum(VotersFor(s.prevotes, s.round, hash))
    PROVE  StageInv(C, n, s, M \cup {VoteMsg("precommit", n, s, hash)})
<1> DEFINE x == VoteMsg("precommit", n, s, hash)
           N == M \cup {x}
           Cs == [C EXCEPT ![n] = s]
<1>1. s \in Machine /\ M \subseteq Messages /\ NodeInv(n, s, M)
  BY DEF StageInv
<1>2. x \in Messages
  BY <1>1, VoteMsgType DEF Messages, Honest
<1>3. /\ x.type = "precommit" /\ x.voter = n /\ x.hash = hash
      /\ x.height = s.height /\ x.round = s.round
  BY DEF VoteMsg
<1> HIDE DEF x
<1>4. s.height \in Nat /\ s.round \in Nat
  BY <1>1 DEF Machine
<1>5. \A m \in Honest \ {n} : NodeInv(m, C[m], N)
  BY <1>1, <1>2, <1>3, NodeGrows DEF StageInv
<1>6. VotesBy(n, "prevote", N) = VotesBy(n, "prevote", M)
  BY <1>3 DEF VotesBy
<1>7. PrecommitsBy(n, N) \subseteq PrecommitsBy(n, M) \cup {x}
  BY DEF PrecommitsBy, VotesBy
<1>8. x \in PrecommitsBy(n, N) => hash # Nil
  BY <1>3 DEF PrecommitsBy
<1>9. \A h, r, b : HasPrevoteQuorum(N, h, r, b) = HasPrevoteQuorum(M, h, r, b)
  <2>1. \A h, r, b : PrevotersIn(N, h, r, b) = PrevotersIn(M, h, r, b)
    BY <1>3 DEF PrevotersIn, VoteAt
  <2> QED BY <2>1 DEF HasPrevoteQuorum
<1> HIDE DEF N
<1>10. CountsBroadcastVotes(s, N) /\ LockSupported(s, N)
  BY <1>1, <1>9 DEF NodeInv, CountsBroadcastVotes, LockSupported, N
<1>11. VotesNotAhead(n, s, N)
  <2>1. VotesBy(n, "precommit", N) \subseteq VotesBy(n, "precommit", M) \cup {x}
    BY DEF VotesBy, N
  <2>2. VotesNotAhead(n, s, M)
    BY <1>1 DEF NodeInv
  <2> QED
    BY <1>3, <1>4, <1>6, <2>1, <2>2, NotAheadGrows
<1>12. LockCoversPrecommits(n, s, N)
  <2>1. LockCoversPrecommits(n, s, M)
    BY <1>1 DEF NodeInv
  <2> QED
    BY <1>3, <1>4, <1>7, <1>8, <2>1, PrecommitCovered
<1>13. PrecommitsSupported(n, N)
  <2>1. hash # Nil => HasPrevoteQuorum(M, s.height, s.round, hash)
    BY <1>1, CountedQuorum DEF NodeInv
  <2>2. hash # Nil => \A k \in PrecommitsBy(n, M) :
            k.height = s.height /\ k.round = s.round => k.hash = hash
    BY <1>1 DEF NodeInv, LockCoversPrecommits
  <2>3. PrecommitsSupported(n, M)
    BY <1>1 DEF NodeInv
  <2>4. \A h, r, b : HasPrevoteQuorum(M, h, r, b) => HasPrevoteQuorum(N, h, r, b)
    BY <1>9
  <2> QED
    BY <1>3, <1>7, <1>8, <2>1, <2>2, <2>3, <2>4, SupportedGrows
<1>14. PrevotesJustified(n, N)
  <2>1. \A k \in VotesBy(n, "prevote", M) :
            k.height = s.height => ~(s.round < k.round)
    <3>1. \A k \in VotesBy(n, "prevote", M) : k.round \in Nat
      BY <1>1 DEF VotesBy, Messages, VoteMsgs, ProposalMsgs
    <3> QED
      BY <1>1, <1>4, <3>1, NotAheadUse DEF NodeInv
  <2>2. PrevotesJustified(n, M)
    BY <1>1 DEF NodeInv
  <2>3. \A h, r, b : HasPrevoteQuorum(M, h, r, b) => HasPrevoteQuorum(N, h, r, b)
    BY <1>9
  <2> QED
    BY <1>3, <1>6, <1>7, <2>1, <2>2, <2>3, JustifiedGrows
<1>15. NodeInv(n, s, N)
  BY <1>10, <1>11, <1>12, <1>13, <1>14 DEF NodeInv
<1>16. QuorumsSafe(Cs, N)
  <2>1. Cs[n] = s
    OBVIOUS
  <2>2. QuorumsSafe(Cs, M)
    BY DEF StageInv
  <2> HIDE DEF Cs
  <2>3. \A h, r, b : MayPrecommit(Cs, N, h, r, b) = MayPrecommit(Cs, M, h, r, b)
    <3>1. ~Past(s, s.height, s.round)
      BY <1>4 DEF Past
    <3>2. \A h, r, b, v : VoteAt("precommit", h, r, b, v) = x
                             => v = n /\ h = s.height /\ r = s.round
      BY <1>3 DEF VoteAt
    <3> QED
      BY <2>1, <3>1, <3>2 DEF MayPrecommit, N
  <2>4. \A k \in N : k.type = "prevote" => k \in M
    BY <1>3 DEF N
  <2> QED
    BY <1>9, <2>2, <2>3, <2>4, QuorumsSafeSame, Zenon
<1>17. N \subseteq Messages
  BY <1>1, <1>2 DEF N
<1> QED
  BY <1>1, <1>5, <1>15, <1>16, <1>17 DEF StageInv, N, x

(* If every prevote of an honest validator was justified before x came,    *)
(* the quorum that x completes is safe.                                    *)
LEMMA NewPrevoteSafe ==
    ASSUME NEW C \in [Honest -> Machine], NEW M \in SUBSET Messages,
           NEW x \in Messages, x.type = "prevote",
           QuorumsSafe(C, M),
           \A v \in Honest : VotesNotAhead(v, C[v], M \cup {x}),
           \A v \in Honest : \A m \in PrecommitsBy(v, M) :
              \A k \in VotesBy(v, "prevote", M \cup {x}) :
                 (/\ m.height = k.height /\ m.round < k.round
                  /\ k.hash # Nil /\ k.hash # m.hash)
                     => \E l \in (m.round + 1) .. k.round :
                            HasPrevoteQuorum(M, k.height, l, k.hash)
    PROVE  QuorumsSafe(C, M \cup {x})
<1> DEFINE N == M \cup {x}
<1>0. /\ N \subseteq Messages /\ M \subseteq N
      /\ \A m \in N : m \in M \/ m = x
  OBVIOUS
<1>1. \A v \in Honest : VotesNotAhead(v, C[v], N)
  BY Zenon
<1>2. ASSUME NEW v \in Honest, NEW m \in PrecommitsBy(v, M),
             NEW k \in VotesBy(v, "prevote", N),
             m.height = k.height, m.round < k.round,
             k.hash # Nil, k.hash # m.hash
      PROVE  \E l \in (m.round + 1) .. k.round :
                 HasPrevoteQuorum(M, k.height, l, k.hash)
  BY <1>2, Zenon
<1> HIDE DEF N
<1>3. QuorumsSafe(C, N)
  <2> SUFFICES ASSUME NEW k \in N, k.type = "prevote", k.hash # Nil,
                      HasPrevoteQuorum(N, k.height, k.round, k.hash),
                      NEW r \in 0 .. k.round - 1, NEW b \in Blocks \ {k.hash},
                      IsQuorum(MayPrecommit(C, N, k.height, r, b))
               PROVE  FALSE
    BY DEF QuorumsSafe
  <2>1. /\ k.height \in Nat /\ k.round \in Nat /\ k.hash \in Blocks
        /\ r \in Nat /\ r < k.round
    <3>1. k \in Messages
      BY <1>0
    <3>2. k.height \in Nat /\ k.round \in Nat /\ k.hash \in Blocks
      BY <3>1, PrevoteFields, Zenon
    <3> QED
      BY <3>2, RoundBefore, Zenon
  <2>2. MayPrecommit(C, N, k.height, r, b) = MayPrecommit(C, M, k.height, r, b)
    <3>1. \A v : VoteAt("precommit", k.height, r, b, v) # x
      BY DEF VoteAt
    <3> QED
      BY <1>0, <3>1 DEF MayPrecommit
  <2>3. \A l \in (r + 1) .. k.round : ~HasPrevoteQuorum(M, k.height, l, k.hash)
    <3> SUFFICES ASSUME NEW l \in (r + 1) .. k.round,
                        HasPrevoteQuorum(M, k.height, l, k.hash)
                 PROVE  FALSE
      OBVIOUS
    <3>1. r \in 0 .. l - 1
      BY <2>1, RoundBetween, Zenon
    <3> QED
      BY <2>1, <2>2, <3>1, QuorumsSafeUse, Zenon
  <2>4. PICK v \in PrevotersIn(N, k.height, k.round, k.hash)
                     \cap MayPrecommit(C, N, k.height, r, b) : v \notin Faulty
    <3>1. /\ PrevotersIn(N, k.height, k.round, k.hash) \in SUBSET Validators
          /\ MayPrecommit(C, N, k.height, r, b) \in SUBSET Validators
      BY DEF PrevotersIn, MayPrecommit
    <3> QED
      BY <3>1, QuorumsMeet, Zenon DEF HasPrevoteQuorum
  <2>5. v \in Honest
    BY <2>4 DEF Honest, PrevotersIn
  <2> DEFINE kv == VoteAt("prevote", k.height, k.round, k.hash, v)
             mv == VoteAt("precommit", k.height, r, b, v)
  <2>6. kv \in N
    BY <2>4 DEF PrevotersIn
  <2>7. /\ kv.type = "prevote" /\ kv.voter = v /\ kv.height = k.height
        /\ kv.round = k.round /\ kv.hash = k.hash
        /\ mv.type = "precommit" /\ mv.voter = v /\ mv.height = k.height
        /\ mv.round = r /\ mv.hash = b
    BY DEF VoteAt
  <2>8. mv \in M
    <3>1. mv \in M \/ ~Past(C[v], k.height, r)
      BY <2>2, <2>4 DEF MayPrecommit
    <3> HIDE DEF kv, mv
    <3>2. kv \in VotesBy(v, "prevote", N)
      BY <2>6, <2>7 DEF VotesBy
    <3>3. \/ k.height < C[v].height
          \/ k.height = C[v].height /\ k.round <= C[v].round
      BY <1>1, <2>5, <2>7, <3>2 DEF VotesNotAhead
    <3>4. C[v].round \in Nat
      BY <2>5 DEF Machine
    <3>5. Past(C[v], k.height, r)
      BY <2>1, <3>3, <3>4, LaterRoundIsPast, Zenon
    <3> QED
      BY <3>1, <3>5
  <2> HIDE DEF kv, mv
  <2>9. kv \in VotesBy(v, "prevote", N) /\ mv \in PrecommitsBy(v, M)
    BY <2>6, <2>7, <2>8, BlocksAssumption DEF VotesBy, PrecommitsBy
  <2>10. \E l \in (r + 1) .. k.round : HasPrevoteQuorum(M, k.height, l, k.hash)
    BY <1>2, <2>1, <2>5, <2>7, <2>9
  <2> QED
    BY <2>3, <2>10
<1> QED
  BY <1>3 DEF N

(* A prevote for nil, or for a block the lock does not stand against.      *)
LEMMA PrevoteSent ==
    ASSUME NEW C \in [Honest -> Machine], NEW n \in Honest, NEW M, NEW s,
           StageInv(C, n, s, M), NEW hash \in Hashes,
           hash # Nil => s.locked_block.hash \in {Nil, hash}
    PROVE  StageInv(C, n, s, M \cup {VoteMsg("prevote", n, s, hash)})
<1> DEFINE x == VoteMsg("prevote", n, s, hash)
           N == M \cup {x}
           Cs == [C EXCEPT ![n] = s]
<1>1. s \in Machine /\ M \subseteq Messages /\ NodeInv(n, s, M)
  BY DEF StageInv
<1>2. x \in Messages
  BY <1>1, VoteMsgType DEF Messages, Honest
<1>3. /\ x.type = "prevote" /\ x.voter = n /\ x.hash = hash
      /\ x.height = s.height /\ x.round = s.round
  BY DEF VoteMsg
<1>4. s.height \in Nat /\ s.round \in Nat /\ s.locked_block \in Locks
  BY <1>1 DEF Machine
<1>5. \A m \in Honest \ {n} : NodeInv(m, C[m], N)
  <2> HIDE DEF x
  <2> QED
    BY <1>1, <1>2, <1>3, NodeGrows DEF StageInv
<1>6. VotesBy(n, "precommit", N) = VotesBy(n, "precommit", M)
  <2> HIDE DEF x
  <2> QED BY <1>3 DEF VotesBy
<1>7. PrecommitsBy(n, N) = PrecommitsBy(n, M)
  BY <1>6 DEF PrecommitsBy
<1>8. VotesBy(n, "prevote", N) \subseteq VotesBy(n, "prevote", M) \cup {x}
  BY DEF VotesBy
<1> HIDE DEF x
<1>9. \A h, r, b : HasPrevoteQuorum(M, h, r, b) => HasPrevoteQuorum(N, h, r, b)
  BY QuorumStays
<1>10. N \subseteq Messages
  BY <1>1, <1>2
<1> HIDE DEF N
<1>11. CountsBroadcastVotes(s, N) /\ LockSupported(s, N)
  BY <1>1, <1>9 DEF NodeInv, CountsBroadcastVotes, LockSupported, N
<1>12. VotesNotAhead(n, s, N)
  <2>1. VotesNotAhead(n, s, M)
    BY <1>1 DEF NodeInv
  <2> QED
    BY <1>3, <1>4, <1>6, <1>8, <2>1, NotAheadGrows
<1>13. LockCoversPrecommits(n, s, N) /\ PrecommitsSupported(n, N)
  BY <1>1, <1>7, <1>9 DEF NodeInv, LockCoversPrecommits, PrecommitsSupported
<1>14. ASSUME NEW m \in PrecommitsBy(n, M), m.height = s.height,
              m.round < s.round, hash # Nil, hash # m.hash
       PROVE  \E l \in (m.round + 1) .. s.round :
                  HasPrevoteQuorum(M, s.height, l, hash)
  <2>1. m.round \in Nat
    BY <1>1 DEF PrecommitsBy, VotesBy, Messages, VoteMsgs, ProposalMsgs
  <2>2. /\ m.round <= s.locked_block.round
        /\ m.round = s.locked_block.round => m.hash = s.locked_block.hash
    BY <1>1, <1>14 DEF NodeInv, LockCoversPrecommits
  <2>3. s.locked_block # NoLock
    BY <2>1, <2>2 DEF NoLock
  <2>4. s.locked_block.round \in Nat /\ s.locked_block.hash \in Blocks
    BY <1>4, <2>3 DEF Locks
  <2>5. s.locked_block.hash = hash
    BY <1>14, <2>4, BlocksAssumption
  <2>6. /\ s.locked_block.round <= s.round
        /\ HasPrevoteQuorum(M, s.height, s.locked_block.round, hash)
    BY <1>1, <2>3, <2>5 DEF NodeInv, LockSupported
  <2>7. s.locked_block.round \in (m.round + 1) .. s.round
    <3>1. m.round # s.locked_block.round
      BY <1>14, <2>2, <2>5
    <3> QED
      BY <1>4, <2>1, <2>2, <2>4, <2>6, <3>1
  <2> QED
    BY <2>6, <2>7
(* In the messages before the vote, every prevote is justified, the new    *)
(* one included.                                                           *)
<1>15. ASSUME NEW v \in Honest, NEW m \in PrecommitsBy(v, M),
              NEW k \in VotesBy(v, "prevote", N),
              m.height = k.height, m.round < k.round,
              k.hash # Nil, k.hash # m.hash
       PROVE  \E l \in (m.round + 1) .. k.round :
                  HasPrevoteQuorum(M, k.height, l, k.hash)
  <2>1. CASE k \in M
    <3>1. NodeInv(v, Cs[v], M)
      BY DEF StageInv
    <3>2. k \in VotesBy(v, "prevote", M)
      BY <2>1 DEF VotesBy
    <3> QED
      BY <1>15, <3>1, <3>2 DEF NodeInv, PrevotesJustified
  <2>2. CASE k = x
    <3>1. v = n
      BY <1>3, <2>2 DEF VotesBy
    <3> QED
      BY <1>3, <1>14, <1>15, <2>2, <3>1
  <2> QED
    BY <2>1, <2>2 DEF VotesBy, N
<1>16. PrevotesJustified(n, N)
  BY <1>7, <1>9, <1>15 DEF PrevotesJustified
<1>17. NodeInv(n, s, N)
  BY <1>11, <1>12, <1>13, <1>16 DEF NodeInv
<1>18. \A v \in Honest : VotesNotAhead(v, Cs[v], N)
  BY <1>5, <1>17 DEF NodeInv
<1>19. QuorumsSafe(Cs, M) /\ Cs \in [Honest -> Machine]
  BY <1>1 DEF StageInv
<1>20. QuorumsSafe(Cs, N)
  <2> HIDE DEF Cs
  <2>1. QuorumsSafe(Cs, M \cup {x})
    BY <1>1, <1>2, <1>3, <1>15, <1>18, <1>19, NewPrevoteSafe, Zenon DEF N
  <2> QED BY <2>1 DEF N
<1> QED
  BY <1>1, <1>5, <1>10, <1>17, <1>20 DEF StageInv, N, x
=============================================================================
