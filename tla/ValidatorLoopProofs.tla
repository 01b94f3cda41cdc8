------------------------ MODULE ValidatorLoopProofs -------------------------
(***************************************************************************)
(* Proofs about ValidatorLoop, for every validator set, every set of       *)
(* faulty validators below a third of the stake, every message they send   *)
(* and every bound.                                                        *)
(***************************************************************************)
EXTENDS ValidatorSet, TLAPS, ValidatorLoop

(***************************************************************************)
(* Arithmetic of quorums: why two of them always share an honest member.   *)
(***************************************************************************)

(* A larger set of voters never has less stake.                            *)
LEMMA StakeOfMonotone ==
    ASSUME NEW S \in SUBSET Validators, NEW T \in SUBSET Validators,
           S \subseteq T
    PROVE  StakeOf(S) <= StakeOf(T)
<1>1. S \cup (T \ S) = T /\ S \cap (T \ S) = {}
  OBVIOUS
<1>2. T \ S \in SUBSET Validators
  OBVIOUS
<1>3. /\ StakeOf(S) \in Nat /\ StakeOf(T) \in Nat
      /\ StakeOf(T \ S) \in Nat /\ StakeOf({}) = 0
  BY <1>2, StakeOfAssumption
<1>4. StakeOf(S \cup (T \ S)) + StakeOf(S \cap (T \ S))
        = StakeOf(S) + StakeOf(T \ S)
  BY <1>2, StakeOfAssumption, Zenon
<1>5. StakeOf(T) + StakeOf({}) = StakeOf(S) + StakeOf(T \ S)
  BY <1>1, <1>4
<1> QED
  BY <1>3, <1>5

(* Two quorums (QuorumThreshold, "more than two thirds") intersect in more *)
(* than any third of the stake.                                            *)
LEMMA QuorumIntersection ==
    ASSUME NEW S \in SUBSET Validators, NEW T \in SUBSET Validators,
           IsQuorum(S), IsQuorum(T),
           NEW F \in SUBSET Validators, StakeOf(F) * 3 < total_stake
    PROVE  \E v \in S \cap T : v \notin F
<1>1. /\ StakeOf(S) \in Nat /\ StakeOf(T) \in Nat
      /\ StakeOf(S \cap T) \in Nat /\ StakeOf(S \cup T) \in Nat
      /\ StakeOf(F) \in Nat /\ total_stake \in Nat
  BY StakeOfAssumption DEF total_stake
<1>2. StakeOf(S \cup T) + StakeOf(S \cap T) = StakeOf(S) + StakeOf(T)
  BY StakeOfAssumption
<1>3. StakeOf(S \cup T) <= total_stake
  BY StakeOfMonotone DEF total_stake
<1>4. QuorumThreshold * 3 >= total_stake * 2 + 1 /\ QuorumThreshold \in Nat
  BY <1>1 DEF QuorumThreshold
<1>5. StakeOf(S \cap T) > StakeOf(F)
  BY <1>1, <1>2, <1>3, <1>4 DEF IsQuorum
<1>6. ~(S \cap T \subseteq F)
  BY <1>1, <1>5, StakeOfMonotone
<1> QED
  BY <1>6

(* A set containing a quorum is a quorum.                                  *)
LEMMA QuorumMonotone ==
    ASSUME NEW S \in SUBSET Validators, NEW T \in SUBSET Validators,
           S \subseteq T, IsQuorum(S)
    PROVE  IsQuorum(T)
<1>1. StakeOf(S) \in Nat /\ StakeOf(T) \in Nat /\ total_stake \in Nat
  BY StakeOfAssumption DEF total_stake
<1>2. QuorumThreshold \in Nat
  BY <1>1 DEF QuorumThreshold
<1> QED
  BY <1>1, <1>2, StakeOfMonotone DEF IsQuorum
-----------------------------------------------------------------------------
-----------------------------------------------------------------------------
(* Type correctness, handler by handler.                                   *)

Actions == [type : {"NoAction", "SendPrevote", "SendPrecommit", "CommitBlock"},
            hash : Hashes]

Results == [st : Machine, act : Actions]

Proposals == [height : Nat, round : Nat, block : Blocks,
              proposer : Validators]

LEMMA NewMachineType ==
    ASSUME NEW h \in Nat PROVE NewMachine(h) \in Machine
BY Zenon DEF NewMachine, Machine, Steps, Locks, NoLock

LEMMA StartRoundType ==
    ASSUME NEW s \in Machine, NEW r \in Nat
    PROVE  StartRound(s, r) \in Machine
BY Zenon DEF StartRound, Machine, Steps

LEMMA OnProposalType ==
    ASSUME NEW s \in Machine, NEW p \in Proposals
    PROVE  OnProposal(s, p) \in Results
<1>1. ASSUME NEW t \in Machine PROVE AcceptProposal(t, p) \in Results
  BY Zenon DEF AcceptProposal, Result, Results, Actions, NoAction, SendPrevote,
         Machine, Steps, Proposals, Hashes
<1>2. Result(s, NoAction) \in Results
  BY DEF Result, Results, Actions, NoAction, Hashes
<1>3. p.round \in Nat
  BY DEF Proposals
<1> QED
  BY <1>1, <1>2, <1>3, StartRoundType DEF OnProposal

LEMMA OnPrevoteType ==
    ASSUME NEW s \in Machine, NEW v, v.round \in Nat, v.hash \in Hashes,
           v.voter \in Validators
    PROVE  OnPrevote(s, v) \in Results
<1> DEFINE t == [s EXCEPT !.prevotes = @ \cup {AsVote(v)}]
           quorum == QuorumHashes(t.prevotes, t.round)
           hash == CHOOSE h \in quorum : TRUE
<1>1. t \in Machine
  BY DEF Machine, AsVote, Votes
<1>2. Result(s, NoAction) \in Results /\ Result(t, NoAction) \in Results
  BY <1>1 DEF Result, Results, Actions, NoAction, Hashes
<1>3. Result(MaybeSkip(t, v.round), NoAction) \in Results
  BY <1>1, StartRoundType DEF MaybeSkip, Result, Results, Actions, NoAction, Hashes
<1>4. ASSUME quorum # {}
      PROVE  Result(PrevoteQuorum(t, hash), SendPrecommit(hash)) \in Results
  <2>1. hash \in Hashes
    BY <1>4 DEF QuorumHashes
  <2>2. PrevoteQuorum(t, hash) \in Machine
    <3> HIDE DEF t, hash
    <3>1. CASE hash = Nil
      BY <1>1, <3>1 DEF PrevoteQuorum, Machine, Steps
    <3>2. CASE hash # Nil
      BY <1>1, <2>1, <3>2, Zenon DEF PrevoteQuorum, Machine, Steps, Locks, Hashes
    <3> QED
      BY <3>1, <3>2
  <2> QED
    BY <2>1, <2>2 DEF Result, Results, Actions, SendPrecommit
<1> QED
  BY <1>2, <1>3, <1>4 DEF OnPrevote

LEMMA OnPrecommitType ==
    ASSUME NEW s \in Machine, NEW v, v.round \in Nat, v.hash \in Hashes,
           v.voter \in Validators
    PROVE  /\ OnPrecommit(s, v) \in Results
           /\ OnPrecommit(s, v).act.type = "CommitBlock"
                 => OnPrecommit(s, v).act.hash \in Blocks
<1> DEFINE t == [s EXCEPT !.precommits = @ \cup {AsVote(v)}]
           quorum == QuorumHashes(t.precommits, t.round)
           hash == CHOOSE h \in quorum : TRUE
           Good(r) == r \in Results /\ (r.act.type = "CommitBlock"
                                           => r.act.hash \in Blocks)
<1>1. t \in Machine
  BY DEF Machine, AsVote, Votes
<1>2. Good(Result(s, NoAction)) /\ Good(Result(t, NoAction))
  BY <1>1 DEF Result, Results, Actions, NoAction, Hashes
<1>3. Good(Result(MaybeSkip(t, v.round), NoAction))
  BY <1>1, StartRoundType DEF MaybeSkip, Result, Results, Actions, NoAction, Hashes
<1>4. ASSUME quorum # {}, hash # Nil
      PROVE  Good(Result([t EXCEPT !.step = "Commit"], CommitBlock(hash)))
  <2>1. hash \in Blocks
    BY <1>4 DEF QuorumHashes, Hashes
  <2>2. [t EXCEPT !.step = "Commit"] \in Machine
    <3> HIDE DEF t
    <3> QED BY <1>1 DEF Machine, Steps
  <2> QED
    BY <2>1, <2>2, Zenon DEF Result, Results, Actions, CommitBlock, Hashes
<1>5. Good(OnPrecommit(s, v))
  BY <1>2, <1>3, <1>4, Zenon DEF OnPrecommit
<1> QED
  BY <1>5

LEMMA OnTimeoutType ==
    ASSUME NEW s \in Machine
    PROVE  OnTimeout(s) \in Results
<1>1. CASE s.step \in {"NewRound", "Propose"}
  BY <1>1 DEF OnTimeout, Result, Results, Actions, SendPrevote, Machine, Steps, Hashes
<1>2. CASE s.step = "Prevote"
  BY <1>2 DEF OnTimeout, Result, Results, Actions, SendPrecommit, Machine, Steps, Hashes
<1>3. CASE s.step = "Precommit"
  <2>1. StartRound(s, s.round + 1) \in Machine
    BY StartRoundType DEF Machine
  <2> QED
    BY <1>3, <2>1 DEF OnTimeout, Result, Results, Actions, NoAction, Hashes
<1>4. CASE s.step = "Commit"
  BY <1>4 DEF OnTimeout, Result, Results, Actions, NoAction, Hashes
<1> QED
  BY <1>1, <1>2, <1>3, <1>4 DEF Machine, Steps

-----------------------------------------------------------------------------
Effects == [st : Machine, chain : Seq(Blocks),
            sent : SUBSET (VoteMsgs \cup ProposalMsgs),
            proofs : SUBSET CommitProofs]

LEMMA HandleCommitActionType ==
    ASSUME NEW n \in Validators, NEW e \in Effects, NEW hash \in Blocks
    PROVE  HandleCommitAction(n, e, hash) \in Effects
<1>1. ASSUME NEW f \in Effects PROVE HandleCommit(f) \in Effects
  <2>1. CASE f.st.proposal # None
    <3>1. f.st.proposal \in Blocks /\ f.st.height + 1 \in Nat
      BY <2>1 DEF Effects, Machine
    <3>2. NewMachine(f.st.height + 1) \in Machine
      BY <3>1, NewMachineType
    <3>3. Append(f.chain, f.st.proposal) \in Seq(Blocks)
      BY <3>1 DEF Effects
    <3> QED
      BY <3>2, <3>3, Zenon DEF HandleCommit, Effects
  <2>2. CASE f.st.proposal = None
    BY <2>2 DEF HandleCommit
  <2> QED
    BY <2>1, <2>2
<1> DEFINE proof ==
      [node |-> n, height |-> e.st.height, round |-> e.st.round, hash |-> hash,
       voters |-> VotersFor(e.st.precommits, e.st.round, hash)]
<1>2. proof \in CommitProofs
  BY DEF CommitProofs, Effects, Machine, VotersFor
<1>3. [e EXCEPT !.proofs = @ \cup {proof}] \in Effects
  <2> HIDE DEF proof
  <2> QED BY <1>2 DEF Effects
<1> QED
  BY <1>1, <1>3 DEF HandleCommitAction

LEMMA VoteMsgType ==
    ASSUME NEW n \in Validators, NEW s \in Machine, NEW hash \in Hashes,
           NEW type \in {"prevote", "precommit"}
    PROVE  VoteMsg(type, n, s, hash) \in VoteMsgs
BY DEF VoteMsg, VoteMsgs, Machine

LEMMA HandleSendPrecommitType ==
    ASSUME NEW n \in Validators, NEW e \in Effects, NEW hash \in Hashes
    PROVE  HandleSendPrecommit(n, e, hash) \in Effects
<1> DEFINE vote == VoteMsg("precommit", n, e.st, hash)
           r == OnPrecommit(e.st, vote)
           f == [e EXCEPT !.st = r.st, !.sent = @ \cup {vote}]
<1>1. e.st \in Machine
  BY DEF Effects
<1>2. vote \in VoteMsgs
  BY <1>1, VoteMsgType
<1>3. /\ r \in Results
      /\ r.act.type = "CommitBlock" => r.act.hash \in Blocks
  <2> HIDE DEF vote
  <2>1. vote.round \in Nat /\ vote.hash \in Hashes /\ vote.voter \in Validators
    BY <1>2 DEF VoteMsgs
  <2> QED BY <1>1, <2>1, OnPrecommitType
<1>4. f \in Effects
  <2> HIDE DEF vote, r
  <2> QED BY <1>2, <1>3, Zenon DEF Effects, Results
<1> QED
  BY <1>3, <1>4, HandleCommitActionType DEF HandleSendPrecommit

LEMMA HandleSendPrevoteType ==
    ASSUME NEW n \in Validators, NEW e \in Effects, NEW hash \in Hashes
    PROVE  HandleSendPrevote(n, e, hash) \in Effects
<1> DEFINE vote == VoteMsg("prevote", n, e.st, hash)
           r == OnPrevote(e.st, vote)
           f == [e EXCEPT !.st = r.st, !.sent = @ \cup {vote}]
<1>1. e.st \in Machine
  BY DEF Effects
<1>2. vote \in VoteMsgs
  BY <1>1, VoteMsgType
<1>3. r \in Results
  <2> HIDE DEF vote
  <2>1. vote.round \in Nat /\ vote.hash \in Hashes /\ vote.voter \in Validators
    BY <1>2 DEF VoteMsgs
  <2> QED BY <1>1, <2>1, OnPrevoteType
<1>4. f \in Effects /\ r.act.hash \in Hashes
  <2> HIDE DEF vote, r
  <2> QED BY <1>2, <1>3, Zenon DEF Effects, Results, Actions
<1> QED
  BY <1>4, HandleSendPrecommitType DEF HandleSendPrevote

LEMMA HandleConsensusActionType ==
    ASSUME NEW n \in Validators, NEW e \in Effects, NEW act \in Actions,
           act.type = "CommitBlock" => act.hash \in Blocks
    PROVE  HandleConsensusAction(n, e, act) \in Effects
BY HandleSendPrevoteType, HandleSendPrecommitType, HandleCommitActionType
   DEF HandleConsensusAction, Actions

(* OnProposal, OnPrevote and OnTimeout never ask for a commit.             *)
LEMMA CommitsOnlyOnPrecommit ==
    /\ \A s, p : OnProposal(s, p).act.type # "CommitBlock"
    /\ \A s, v : OnPrevote(s, v).act.type # "CommitBlock"
    /\ \A s \in Machine : OnTimeout(s).act.type # "CommitBlock"
<1>1. \A s, p : OnProposal(s, p).act.type # "CommitBlock"
  BY DEF OnProposal, AcceptProposal, Result, NoAction, SendPrevote
<1>2. \A s, v : OnPrevote(s, v).act.type # "CommitBlock"
  BY DEF OnPrevote, Result, NoAction, SendPrecommit
<1>3. \A s \in Machine : OnTimeout(s).act.type # "CommitBlock"
  BY DEF OnTimeout, Result, NoAction, SendPrecommit, SendPrevote, Machine, Steps
<1> QED
  BY <1>1, <1>2, <1>3

LEMMA HandleType ==
    ASSUME TypeOK, NEW n \in Honest, NEW r \in Results,
           r.act.type = "CommitBlock" => r.act.hash \in Blocks
    PROVE  Handle(n, r) \in Effects
<1>1. [Effect(n) EXCEPT !.st = r.st] \in Effects
  BY Zenon DEF Effect, Effects, TypeOK, Results
<1> QED
  BY <1>1, HandleConsensusActionType DEF Handle, Results, Honest

LEMMA ApplyType ==
    ASSUME TypeOK, NEW n \in Honest, NEW e \in Effects, Apply(n, e),
           running' \in [Honest -> BOOLEAN], armed' \in [Honest -> BOOLEAN],
           delivered' \in [Honest -> SUBSET ProposalMsgs]
    PROVE  TypeOK'
BY Zenon DEF TypeOK, Apply, Effects

LEMMA AsProposalType ==
    ASSUME NEW m \in ProposalMsgs
    PROVE  AsProposal(m) \in Proposals
BY BlockHeaderAssumption DEF AsProposal, Proposals, ProposalMsgs

(* The block timer hands Apply a well-typed effect.                        *)
LEMMA TickType ==
    ASSUME TypeOK, NEW n \in Honest, OnBlockTimer(n)
    PROVE  \E e \in Effects : Apply(n, e)
<1>1. CASE Propose(n)
  <2>1. PICK b \in ProposableBlocks(n) :
          LET p == ProposalMsg(n, cs[n], b)
              e == Handle(n, OnProposal(cs[n], AsProposal(p)))
          IN  MustPropose(n) /\ Apply(n, [e EXCEPT !.sent = @ \cup {p}])
    BY <1>1, Zenon DEF Propose
  <2> DEFINE p == ProposalMsg(n, cs[n], b)
             e == Handle(n, OnProposal(cs[n], AsProposal(p)))
  <2>2. cs[n] \in Machine /\ b \in Blocks
    BY DEF TypeOK, Machine, ProposableBlocks
  <2>3. p \in ProposalMsgs
    BY <2>2 DEF ProposalMsg, ProposalMsgs, Machine, Honest
  <2>4. e \in Effects
    <3>1. OnProposal(cs[n], AsProposal(p)) \in Results
      BY <2>2, <2>3, AsProposalType, OnProposalType
    <3> QED
      BY <3>1, CommitsOnlyOnPrecommit, HandleType
  <2>5. [e EXCEPT !.sent = @ \cup {p}] \in Effects
    <3> HIDE DEF e, p
    <3> QED BY <2>3, <2>4 DEF Effects
  <2> QED
    BY <2>1, <2>5
<1>2. CASE AwaitProposal(n)
  <2> DEFINE s == IF cs[n].step = "NewRound"
                  THEN [cs[n] EXCEPT !.step = "Propose"] ELSE cs[n]
  <2>1. s \in Machine
    <3>1. cs[n] \in Machine
      BY DEF TypeOK
    <3> QED BY <3>1 DEF Machine, Steps
  <2>2. [Effect(n) EXCEPT !.st = s] \in Effects
    <3> HIDE DEF s
    <3> QED BY <2>1, Zenon DEF TypeOK, Effect, Effects
  <2> QED
    BY <1>2, <2>2 DEF AwaitProposal
<1>3. CASE ProposalFails(n)
  <2>1. Effect(n) \in Effects
    BY DEF TypeOK, Effect, Effects
  <2> QED
    BY <1>3, <2>1 DEF ProposalFails
<1> QED
  BY <1>1, <1>2, <1>3 DEF OnBlockTimer

LEMMA TypeStep == TypeOK /\ [Next]_vars => TypeOK'
<1> SUFFICES ASSUME TypeOK, [Next]_vars PROVE TypeOK'
  OBVIOUS
<1>1. ASSUME NEW n \in Honest, Start(n) PROVE TypeOK'
  BY <1>1, TickType, ApplyType, Zenon DEF Start, TypeOK
<1>2. ASSUME NEW n \in Honest, BlockTimer(n) PROVE TypeOK'
  BY <1>2, TickType, ApplyType, Zenon DEF BlockTimer, TypeOK
<1>3. ASSUME NEW n \in Honest, ConsensusTimeout(n) PROVE TypeOK'
  <2>1. OnTimeout(cs[n]) \in Results /\ cs[n] \in Machine
    BY OnTimeoutType DEF TypeOK
  <2>2. Handle(n, OnTimeout(cs[n])) \in Effects
    BY <2>1, HandleType, CommitsOnlyOnPrecommit
  <2> QED
    BY <1>3, <2>2, ApplyType, Zenon DEF ConsensusTimeout, TypeOK
<1>4. ASSUME NEW n \in Honest, NEW m \in msgs, BlockReceived(n, m)
      PROVE  TypeOK'
  <2>1. m \in ProposalMsgs
    BY <1>4, Zenon DEF BlockReceived, TypeOK, VoteMsgs
  <2>2. Effect(n) \in Effects
    BY DEF TypeOK, Effect, Effects
  <2>3. OnProposal(cs[n], AsProposal(m)) \in Results
    BY <2>1, AsProposalType, OnProposalType DEF TypeOK
  <2>4. Handle(n, OnProposal(cs[n], AsProposal(m))) \in Effects
    BY <2>3, CommitsOnlyOnPrecommit, HandleType
  <2>5. delivered' \in [Honest -> SUBSET ProposalMsgs]
    BY <1>4, <2>1 DEF BlockReceived, TypeOK
  <2> QED
    BY <1>4, <2>2, <2>4, <2>5, ApplyType, Zenon DEF BlockReceived, TypeOK
<1>5. ASSUME NEW n \in Honest, NEW m \in msgs, ConsensusMessageReceived(n, m)
      PROVE  TypeOK'
  <2>1. m \in VoteMsgs
    BY <1>5 DEF ConsensusMessageReceived, TypeOK, ProposalMsgs
  <2> DEFINE r == IF m.type = "prevote" THEN OnPrevote(cs[n], m)
                                        ELSE OnPrecommit(cs[n], m)
  <2>2. r \in Results /\ (r.act.type = "CommitBlock" => r.act.hash \in Blocks)
    BY <2>1, OnPrevoteType, OnPrecommitType, CommitsOnlyOnPrecommit, Zenon
       DEF TypeOK, VoteMsgs
  <2>3. Handle(n, r) \in Effects
    BY <2>2, HandleType
  <2> QED
    BY <1>5, <2>3, ApplyType, Zenon DEF ConsensusMessageReceived, TypeOK
<1>6. CASE Finished
  BY <1>6 DEF Finished, vars, TypeOK
<1>7. CASE UNCHANGED vars
  BY <1>7 DEF vars, TypeOK
<1> QED
  BY <1>1, <1>2, <1>3, <1>4, <1>5, <1>6, <1>7 DEF Next

LEMMA TypeInit == Init => TypeOK
<1>1. FaultyMsgs \subseteq VoteMsgs \cup ProposalMsgs
  BY FaultyMsgsAssumption, FaultyAssumption, BoundsAssumption
     DEF VoteMsgs, ProposalMsgs, Rounds
<1> QED
  BY <1>1, NewMachineType DEF Init, TypeOK

(* Every handler of the loop leaves a well-formed machine, chain, message  *)
(* set and set of commit proofs; in particular no commit proof names nil.  *)
THEOREM TypeCorrect == Spec => []TypeOK
BY TypeInit, TypeStep, PTL DEF Spec

-----------------------------------------------------------------------------
(* Progress of a machine: it never returns to a round or height it left,   *)
(* nor, within a round, to the steps in which it would propose.            *)

Early(s) == s.step \in {"NewRound", "Propose"}

Moves(s, t) ==
    \/ t.height > s.height
    \/ t.height = s.height /\ t.round > s.round
    \/ t.height = s.height /\ t.round = s.round /\ (Early(t) => Early(s))

LEMMA MovesTransitive ==
    ASSUME NEW s \in Machine, NEW t \in Machine, NEW u \in Machine,
           Moves(s, t), Moves(t, u)
    PROVE  Moves(s, u)
<1>1. /\ s.height \in Nat /\ t.height \in Nat /\ u.height \in Nat
      /\ s.round \in Nat /\ t.round \in Nat /\ u.round \in Nat
  BY DEF Machine
<1> QED
  BY <1>1 DEF Moves

(* A machine that keeps its height and round, and is no earlier in it.     *)
LEMMA StaysMoves ==
    ASSUME NEW s, NEW t, t.height = s.height, t.round = s.round,
           Early(t) => Early(s)
    PROVE  Moves(s, t)
BY DEF Moves

LEMMA StartRoundMoves ==
    ASSUME NEW s \in Machine, NEW r \in Nat, r > s.round
    PROVE  Moves(s, StartRound(s, r))
<1>1. s.round \in Nat
  BY DEF Machine
<1>2. StartRound(s, r).height = s.height /\ StartRound(s, r).round = r
  BY DEF StartRound, Machine
<1> QED
  BY <1>1, <1>2 DEF Moves

LEMMA OnProposalMoves ==
    ASSUME NEW s \in Machine, NEW p \in Proposals
    PROVE  Moves(s, OnProposal(s, p).st)
<1>1. ASSUME NEW t \in Machine PROVE Moves(t, AcceptProposal(t, p).st)
  <2>1. /\ AcceptProposal(t, p).st.height = t.height
        /\ AcceptProposal(t, p).st.round = t.round
        /\ Early(AcceptProposal(t, p).st) => Early(t)
    BY DEF AcceptProposal, Result, Machine, Early
  <2> QED
    BY <2>1, StaysMoves
<1>2. CASE p.height # s.height \/ p.round < s.round
  BY <1>2, StaysMoves DEF OnProposal, Result
<1>3. CASE ~(p.height # s.height \/ p.round < s.round)
  <2> DEFINE t == IF p.round > s.round THEN StartRound(s, p.round) ELSE s
  <2>1. t \in Machine /\ Moves(s, t)
    BY StartRoundType, StartRoundMoves, StaysMoves DEF Proposals
  <2>2. OnProposal(s, p) = AcceptProposal(t, p)
    BY <1>3 DEF OnProposal
  <2>3. AcceptProposal(t, p).st \in Machine
    BY <2>2, OnProposalType DEF Results
  <2> HIDE DEF t
  <2> QED
    BY <1>1, <2>1, <2>2, <2>3, MovesTransitive
<1> QED
  BY <1>2, <1>3

LEMMA MaybeSkipMoves ==
    ASSUME NEW s \in Machine, NEW r \in Nat, r > s.round
    PROVE  Moves(s, MaybeSkip(s, r))
BY StartRoundMoves, StaysMoves DEF MaybeSkip

LEMMA OnPrevoteMoves ==
    ASSUME NEW s \in Machine, NEW v, v.round \in Nat, v.hash \in Hashes,
           v.voter \in Validators
    PROVE  Moves(s, OnPrevote(s, v).st)
<1> DEFINE t == [s EXCEPT !.prevotes = @ \cup {AsVote(v)}]
           hash == CHOOSE h \in QuorumHashes(t.prevotes, t.round) : TRUE
<1>1. /\ t \in Machine /\ t.height = s.height /\ t.round = s.round
      /\ t.step = s.step
  BY DEF Machine, AsVote, Votes
<1>2. \/ OnPrevote(s, v).st \in {s, t}
      \/ v.round > s.round /\ OnPrevote(s, v).st = MaybeSkip(t, v.round)
      \/ OnPrevote(s, v).st = PrevoteQuorum(t, hash)
  BY DEF OnPrevote, Result
<1> HIDE DEF t, hash
<1>3. /\ PrevoteQuorum(t, hash).height = t.height
      /\ PrevoteQuorum(t, hash).round = t.round
      /\ PrevoteQuorum(t, hash).step = "Precommit"
  BY <1>1 DEF PrevoteQuorum, Machine
<1>4. v.round > s.round => Moves(t, MaybeSkip(t, v.round))
  BY <1>1, MaybeSkipMoves
<1>5. Moves(s, s) /\ Moves(s, t) /\ Moves(s, PrevoteQuorum(t, hash))
  BY <1>1, <1>3, StaysMoves DEF Early
<1> QED
  BY <1>1, <1>2, <1>4, <1>5 DEF Moves, Early

LEMMA OnPrecommitMoves ==
    ASSUME NEW s \in Machine, NEW v, v.round \in Nat, v.hash \in Hashes,
           v.voter \in Validators
    PROVE  Moves(s, OnPrecommit(s, v).st)
<1> DEFINE t == [s EXCEPT !.precommits = @ \cup {AsVote(v)}]
           u == [t EXCEPT !.step = "Commit"]
<1>1. /\ t \in Machine /\ t.height = s.height /\ t.round = s.round
      /\ t.step = s.step
  BY DEF Machine, AsVote, Votes
<1>2. \/ OnPrecommit(s, v).st \in {s, t, u}
      \/ v.round > s.round /\ OnPrecommit(s, v).st = MaybeSkip(t, v.round)
  BY DEF OnPrecommit, Result
<1> HIDE DEF t
<1>3. u.height = t.height /\ u.round = t.round /\ u.step = "Commit"
  BY <1>1 DEF Machine
<1> HIDE DEF u
<1>4. v.round > s.round => Moves(t, MaybeSkip(t, v.round))
  BY <1>1, MaybeSkipMoves
<1>5. Moves(s, s) /\ Moves(s, t) /\ Moves(s, u)
  BY <1>1, <1>3, StaysMoves DEF Early
<1> QED
  BY <1>1, <1>2, <1>4, <1>5 DEF Moves, Early

LEMMA OnTimeoutMoves ==
    ASSUME NEW s \in Machine
    PROVE  Moves(s, OnTimeout(s).st)
<1>1. s.round \in Nat
  BY DEF Machine
<1>2. Moves(s, StartRound(s, s.round + 1))
  BY <1>1, StartRoundMoves
<1>3. ASSUME NEW step \in {"Prevote", "Precommit"}
      PROVE  Moves(s, [s EXCEPT !.step = step])
  <2>1. /\ [s EXCEPT !.step = step].height = s.height
        /\ [s EXCEPT !.step = step].round = s.round
        /\ [s EXCEPT !.step = step].step = step
    BY DEF Machine
  <2> QED BY <2>1, StaysMoves, Zenon DEF Early
<1>4. OnTimeout(s).st \in {[s EXCEPT !.step = "Prevote"],
                           [s EXCEPT !.step = "Precommit"],
                           StartRound(s, s.round + 1), s}
  BY DEF OnTimeout, Result, Machine, Steps
<1> QED
  BY <1>2, <1>3, <1>4, StaysMoves

LEMMA HandleCommitActionMoves ==
    ASSUME NEW n \in Validators, NEW e \in Effects, NEW hash \in Blocks
    PROVE  Moves(e.st, HandleCommitAction(n, e, hash).st)
<1> DEFINE proof == [node |-> n, height |-> e.st.height, round |-> e.st.round,
                     hash |-> hash,
                     voters |-> VotersFor(e.st.precommits, e.st.round, hash)]
           f == [e EXCEPT !.proofs = @ \cup {proof}]
<1>1. HandleCommitAction(n, e, hash) = HandleCommit(f)
  BY DEF HandleCommitAction
<1> HIDE DEF proof
<1>2. f.st = e.st /\ f \in [st : {f.st}, chain : {f.chain}, sent : {f.sent},
                            proofs : {f.proofs}]
  BY DEF Effects
<1> HIDE DEF f
<1>3. HandleCommit(f).st \in {f.st, NewMachine(f.st.height + 1)}
  BY <1>2 DEF HandleCommit
<1>4. e.st \in Machine /\ e.st.height \in Nat
  BY DEF Effects, Machine
<1>5. Moves(e.st, NewMachine(e.st.height + 1)) /\ Moves(e.st, e.st)
  <2>1. NewMachine(e.st.height + 1).height = e.st.height + 1
    BY DEF NewMachine
  <2> QED
    BY <1>4, <2>1, StaysMoves DEF Moves
<1> QED
  BY <1>1, <1>2, <1>3, <1>5

LEMMA HandleSendPrecommitMoves ==
    ASSUME NEW n \in Validators, NEW e \in Effects, NEW hash \in Hashes
    PROVE  Moves(e.st, HandleSendPrecommit(n, e, hash).st)
<1> DEFINE vote == VoteMsg("precommit", n, e.st, hash)
           r == OnPrecommit(e.st, vote)
           f == [e EXCEPT !.st = r.st, !.sent = @ \cup {vote}]
           g == HandleCommitAction(n, f, r.act.hash)
<1>1. e.st \in Machine
  BY DEF Effects
<1>2. vote \in VoteMsgs
  BY <1>1, VoteMsgType
<1>3. HandleSendPrecommit(n, e, hash) =
        IF r.act.type = "CommitBlock" THEN g ELSE f
  BY DEF HandleSendPrecommit
<1> HIDE DEF vote
<1>4. /\ r \in Results /\ Moves(e.st, r.st)
      /\ r.act.type = "CommitBlock" => r.act.hash \in Blocks
  <2>1. vote.round \in Nat /\ vote.hash \in Hashes /\ vote.voter \in Validators
    BY <1>2 DEF VoteMsgs
  <2> QED BY <1>1, <2>1, OnPrecommitType, OnPrecommitMoves
<1> HIDE DEF r
<1>5. f \in Effects /\ f.st = r.st /\ r.st \in Machine
  BY <1>2, <1>4, Zenon DEF Effects, Results
<1> HIDE DEF f
<1>6. r.act.type = "CommitBlock" => g.st \in Machine /\ Moves(f.st, g.st)
  <2>1. r.act.type = "CommitBlock" => g \in Effects /\ Moves(f.st, g.st)
    BY <1>4, <1>5, HandleCommitActionType, HandleCommitActionMoves
  <2> QED BY <2>1 DEF Effects
<1> HIDE DEF g
<1> QED
  BY <1>1, <1>3, <1>4, <1>5, <1>6, MovesTransitive

LEMMA HandleSendPrevoteMoves ==
    ASSUME NEW n \in Validators, NEW e \in Effects, NEW hash \in Hashes
    PROVE  Moves(e.st, HandleSendPrevote(n, e, hash).st)
<1> DEFINE vote == VoteMsg("prevote", n, e.st, hash)
           r == OnPrevote(e.st, vote)
           f == [e EXCEPT !.st = r.st, !.sent = @ \cup {vote}]
           g == HandleSendPrecommit(n, f, r.act.hash)
<1>1. e.st \in Machine
  BY DEF Effects
<1>2. vote \in VoteMsgs
  BY <1>1, VoteMsgType
<1>3. HandleSendPrevote(n, e, hash) =
        IF r.act.type = "SendPrecommit" THEN g ELSE f
  BY DEF HandleSendPrevote
<1> HIDE DEF vote
<1>4. r \in Results /\ Moves(e.st, r.st)
  <2>1. vote.round \in Nat /\ vote.hash \in Hashes /\ vote.voter \in Validators
    BY <1>2 DEF VoteMsgs
  <2> QED BY <1>1, <2>1, OnPrevoteType, OnPrevoteMoves
<1> HIDE DEF r
<1>5. f \in Effects /\ f.st = r.st /\ r.st \in Machine /\ r.act.hash \in Hashes
  BY <1>2, <1>4, Zenon DEF Effects, Results, Actions
<1> HIDE DEF f
<1>6. g.st \in Machine /\ Moves(f.st, g.st)
  <2>1. g \in Effects /\ Moves(f.st, g.st)
    BY <1>5, HandleSendPrecommitType, HandleSendPrecommitMoves
  <2> QED BY <2>1 DEF Effects
<1> HIDE DEF g
<1> QED
  BY <1>1, <1>3, <1>4, <1>5, <1>6, MovesTransitive

LEMMA HandleMoves ==
    ASSUME TypeOK, NEW n \in Honest, NEW r \in Results,
           r.act.type = "CommitBlock" => r.act.hash \in Blocks
    PROVE  /\ Moves(r.st, Handle(n, r).st)
           /\ Moves(cs[n], r.st) => Moves(cs[n], Handle(n, r).st)
<1> DEFINE e == [Effect(n) EXCEPT !.st = r.st]
<1>1. e \in Effects /\ e.st = r.st /\ r.st \in Machine /\ r.act \in Actions
  BY Zenon DEF Effect, Effects, TypeOK, Results
<1>2. Handle(n, r) = HandleConsensusAction(n, e, r.act) /\ n \in Validators
  BY DEF Handle, Honest
<1> HIDE DEF e
<1>3. r.act.hash \in Hashes
  BY <1>1 DEF Actions
<1>4. HandleConsensusAction(n, e, r.act) \in Effects
  BY <1>1, <1>2, HandleConsensusActionType
<1>5. Moves(e.st, HandleConsensusAction(n, e, r.act).st)
  <2>1. CASE r.act.type = "SendPrevote"
    BY <1>1, <1>2, <1>3, <2>1, HandleSendPrevoteMoves DEF HandleConsensusAction
  <2>2. CASE r.act.type = "SendPrecommit"
    BY <1>1, <1>2, <1>3, <2>2, HandleSendPrecommitMoves DEF HandleConsensusAction
  <2>3. CASE r.act.type = "CommitBlock"
    BY <1>1, <1>2, <2>3, HandleCommitActionMoves DEF HandleConsensusAction
  <2>4. CASE r.act.type = "NoAction"
    BY <1>1, <2>4, StaysMoves DEF HandleConsensusAction
  <2> QED
    BY <1>1, <2>1, <2>2, <2>3, <2>4 DEF Actions
<1>6. cs[n] \in Machine /\ HandleConsensusAction(n, e, r.act).st \in Machine
  BY <1>4 DEF TypeOK, Effects
<1> QED
  BY <1>1, <1>2, <1>5, <1>6, MovesTransitive

LEMMA ApplyMoves ==
    ASSUME TypeOK, NEW n \in Honest, NEW e, Moves(cs[n], e.st), Apply(n, e)
    PROVE  \A m \in Honest : Moves(cs[m], cs'[m])
<1>1. \A m \in Honest : cs[m] \in Machine
  BY DEF TypeOK
<1>2. \A m \in Honest : cs'[m] = IF m = n THEN e.st ELSE cs[m]
  BY DEF Apply, TypeOK
<1> QED
  BY <1>1, <1>2, StaysMoves

LEMMA TickMoves ==
    ASSUME TypeOK, NEW n \in Honest, OnBlockTimer(n)
    PROVE  \A m \in Honest : Moves(cs[m], cs'[m])
<1>0. cs[n] \in Machine
  BY DEF TypeOK
<1>1. CASE Propose(n)
  <2>1. PICK b \in ProposableBlocks(n) :
          LET p == ProposalMsg(n, cs[n], b)
              e == Handle(n, OnProposal(cs[n], AsProposal(p)))
          IN  MustPropose(n) /\ Apply(n, [e EXCEPT !.sent = @ \cup {p}])
    BY <1>1, Zenon DEF Propose
  <2> DEFINE p == ProposalMsg(n, cs[n], b)
             r == OnProposal(cs[n], AsProposal(p))
             e == Handle(n, r)
             f == [e EXCEPT !.sent = @ \cup {p}]
  <2>2. b \in Blocks
    BY <1>0 DEF Machine, ProposableBlocks
  <2>3. p \in ProposalMsgs
    BY <1>0, <2>2 DEF ProposalMsg, ProposalMsgs, Machine, Honest
  <2>4. Apply(n, f)
    BY <2>1
  <2> HIDE DEF p
  <2>5. r \in Results /\ r.act.type # "CommitBlock" /\ Moves(cs[n], r.st)
    BY <1>0, <2>3, AsProposalType, OnProposalType, OnProposalMoves,
       CommitsOnlyOnPrecommit
  <2> HIDE DEF r
  <2>6. e \in Effects /\ Moves(cs[n], e.st)
    BY <2>5, HandleType, HandleMoves
  <2> HIDE DEF e
  <2>7. f.st = e.st
    BY <2>6 DEF Effects
  <2> HIDE DEF f
  <2> QED
    BY <2>4, <2>6, <2>7, ApplyMoves
<1>2. CASE AwaitProposal(n)
  <2> DEFINE s == IF cs[n].step = "NewRound"
                  THEN [cs[n] EXCEPT !.step = "Propose"] ELSE cs[n]
             e == [Effect(n) EXCEPT !.st = s]
  <2>1. /\ s.height = cs[n].height /\ s.round = cs[n].round
        /\ Early(s) => Early(cs[n])
    BY <1>0 DEF Machine, Early
  <2>2. Apply(n, e) /\ e.st = s
    BY <1>2 DEF AwaitProposal, Effect
  <2> HIDE DEF s, e
  <2> QED
    BY <1>0, <2>1, <2>2, StaysMoves, ApplyMoves
<1>3. CASE ProposalFails(n)
  <2>1. Moves(cs[n], Effect(n).st)
    BY <1>0, StaysMoves DEF Effect
  <2> QED
    BY <1>3, <2>1, ApplyMoves DEF ProposalFails
<1> QED
  BY <1>1, <1>2, <1>3 DEF OnBlockTimer

LEMMA MovesStep ==
    ASSUME TypeOK, [Next]_vars
    PROVE  \A m \in Honest : Moves(cs[m], cs'[m])
<1>0. \A m \in Honest : cs[m] \in Machine
  BY DEF TypeOK
<1>1. ASSUME NEW n \in Honest, Start(n) \/ BlockTimer(n)
      PROVE  \A m \in Honest : Moves(cs[m], cs'[m])
  BY <1>1, TickMoves DEF Start, BlockTimer
<1>2. ASSUME NEW n \in Honest, ConsensusTimeout(n)
      PROVE  \A m \in Honest : Moves(cs[m], cs'[m])
  <2>1. Moves(cs[n], Handle(n, OnTimeout(cs[n])).st)
    BY <1>0, OnTimeoutType, OnTimeoutMoves, CommitsOnlyOnPrecommit, HandleMoves
  <2>2. Apply(n, Handle(n, OnTimeout(cs[n])))
    BY <1>2 DEF ConsensusTimeout
  <2> QED
    BY <2>1, <2>2, ApplyMoves
<1>3. ASSUME NEW n \in Honest, NEW k \in msgs, BlockReceived(n, k)
      PROVE  \A m \in Honest : Moves(cs[m], cs'[m])
  <2>1. k \in ProposalMsgs
    BY <1>3, Zenon DEF BlockReceived, TypeOK, VoteMsgs
  <2>2. Moves(cs[n], Handle(n, OnProposal(cs[n], AsProposal(k))).st)
    BY <1>0, <2>1, AsProposalType, OnProposalType, OnProposalMoves,
       CommitsOnlyOnPrecommit, HandleMoves
  <2>3. Moves(cs[n], Effect(n).st)
    BY <1>0, StaysMoves DEF Effect
  <2>4. \/ Apply(n, Handle(n, OnProposal(cs[n], AsProposal(k))))
        \/ Apply(n, Effect(n))
    BY <1>3 DEF BlockReceived
  <2> QED
    BY <2>2, <2>3, <2>4, ApplyMoves
<1>4. ASSUME NEW n \in Honest, NEW k \in msgs, ConsensusMessageReceived(n, k)
      PROVE  \A m \in Honest : Moves(cs[m], cs'[m])
  <2>1. k \in VoteMsgs
    BY <1>4, Zenon DEF ConsensusMessageReceived, TypeOK, ProposalMsgs
  <2>2. k.round \in Nat /\ k.hash \in Hashes /\ k.voter \in Validators
    BY <2>1 DEF VoteMsgs
  <2>3. Moves(cs[n], Handle(n, OnPrevote(cs[n], k)).st)
    BY <1>0, <2>2, OnPrevoteType, OnPrevoteMoves, CommitsOnlyOnPrecommit,
       HandleMoves
  <2>4. Moves(cs[n], Handle(n, OnPrecommit(cs[n], k)).st)
    BY <1>0, <2>2, OnPrecommitType, OnPrecommitMoves, HandleMoves
  <2>5. \/ Apply(n, Handle(n, OnPrevote(cs[n], k)))
        \/ Apply(n, Handle(n, OnPrecommit(cs[n], k)))
    BY <1>4 DEF ConsensusMessageReceived
  <2> QED
    BY <2>3, <2>4, <2>5, ApplyMoves
<1>5. CASE UNCHANGED vars
  BY <1>0, <1>5, StaysMoves DEF vars
<1>6. CASE Finished
  BY <1>5, <1>6 DEF Finished
<1> QED
  BY <1>1, <1>2, <1>3, <1>4, <1>5, <1>6 DEF Next

(* No handler, in whatever order votes, proposals and timeouts arrive,     *)
(* takes a running machine back to an earlier round or height.             *)
THEOREM RoundsForward == Spec => RoundsMoveForward
<1> DEFINE A == \A n \in Honest : \/ cs'[n].height > cs[n].height
                                  \/ /\ cs'[n].height = cs[n].height
                                     /\ cs'[n].round >= cs[n].round
<1>1. TypeOK /\ TypeOK' /\ [Next]_vars => [A]_vars
  <2> SUFFICES ASSUME TypeOK, TypeOK', [Next]_vars, NEW n \in Honest
               PROVE  \/ cs'[n].height > cs[n].height
                      \/ /\ cs'[n].height = cs[n].height
                         /\ cs'[n].round >= cs[n].round
    OBVIOUS
  <2>1. cs[n].round \in Nat /\ cs'[n].round \in Nat
    BY DEF TypeOK, Machine
  <2> QED
    BY <2>1, MovesStep DEF Moves
<1>2. RoundsMoveForward <=> [][A]_vars
  BY DEF RoundsMoveForward
<1> QED
  BY <1>1, <1>2, TypeCorrect, PTL DEF Spec

-----------------------------------------------------------------------------
(* The machine and the chain.  HeightFollowsChain is not inductive: a      *)
(* valid proposal is proposed again, and so becomes the stored proposal,   *)
(* without another look at the chain.  Fits adds that it too extends the   *)
(* chain.                                                                  *)

(* Machine s decides the height after chain c, with blocks that extend it. *)
Fits(s, c) ==
    /\ s.height = Len(c) + 1
    /\ \A b \in {s.proposal, s.valid_proposal} :
          b # None => ValidBlock(b, s.height, c)

FitsInv == TypeOK /\ \A n \in Honest : Fits(cs[n], chain[n])

(* t is at the height of s and remembers no block that s did not.          *)
Follows(s, t) ==
    /\ t.height = s.height
    /\ {t.proposal, t.valid_proposal} \subseteq
           {s.proposal, s.valid_proposal, None}

Grows(c, d) == Len(d) >= Len(c) /\ \A h \in DOMAIN c : d[h] = c[h]

LEMMA FollowsFits ==
    ASSUME NEW s, NEW t, NEW c, Fits(s, c), Follows(s, t)
    PROVE  Fits(t, c)
BY DEF Fits, Follows

LEMMA StartRoundFollows ==
    ASSUME NEW s \in Machine, NEW r
    PROVE  Follows(s, StartRound(s, r))
BY DEF Follows, StartRound, Machine

LEMMA OnPrevoteFollows ==
    ASSUME NEW s \in Machine, NEW v, v.round \in Nat, v.hash \in Hashes,
           v.voter \in Validators
    PROVE  Follows(s, OnPrevote(s, v).st)
<1> DEFINE t == [s EXCEPT !.prevotes = @ \cup {AsVote(v)}]
           hash == CHOOSE h \in QuorumHashes(t.prevotes, t.round) : TRUE
<1>1. /\ t \in Machine /\ t.height = s.height
      /\ t.proposal = s.proposal /\ t.valid_proposal = s.valid_proposal
  BY DEF Machine, AsVote, Votes
<1>2. Follows(s, s)
  BY DEF Follows
<1>3. OnPrevote(s, v).st \in {s, t, MaybeSkip(t, v.round), PrevoteQuorum(t, hash)}
  BY DEF OnPrevote, Result
<1> HIDE DEF t, hash
<1>4. Follows(s, t)
  BY <1>1 DEF Follows
<1>5. Follows(s, MaybeSkip(t, v.round))
  BY <1>1, <1>4, StartRoundFollows DEF MaybeSkip, Follows
<1>6. Follows(s, PrevoteQuorum(t, hash))
  BY <1>1 DEF Follows, PrevoteQuorum, Machine
<1> QED
  BY <1>2, <1>3, <1>4, <1>5, <1>6

LEMMA OnPrecommitFollows ==
    ASSUME NEW s \in Machine, NEW v, v.round \in Nat, v.hash \in Hashes,
           v.voter \in Validators
    PROVE  Follows(s, OnPrecommit(s, v).st)
<1> DEFINE t == [s EXCEPT !.precommits = @ \cup {AsVote(v)}]
           u == [t EXCEPT !.step = "Commit"]
<1>1. /\ t \in Machine /\ t.height = s.height
      /\ t.proposal = s.proposal /\ t.valid_proposal = s.valid_proposal
  BY DEF Machine, AsVote, Votes
<1>2. Follows(s, s)
  BY DEF Follows
<1>3. OnPrecommit(s, v).st \in {s, t, MaybeSkip(t, v.round), u}
  BY DEF OnPrecommit, Result
<1> HIDE DEF t
<1>4. Follows(s, t)
  BY <1>1 DEF Follows
<1>5. Follows(s, MaybeSkip(t, v.round))
  BY <1>1, <1>4, StartRoundFollows DEF MaybeSkip, Follows
<1>6. Follows(s, u)
  BY <1>1 DEF Follows, Machine
<1> HIDE DEF u
<1> QED
  BY <1>2, <1>3, <1>4, <1>5, <1>6

LEMMA OnTimeoutFollows ==
    ASSUME NEW s \in Machine
    PROVE  Follows(s, OnTimeout(s).st)
<1>1. OnTimeout(s).st \in {s, StartRound(s, s.round + 1),
                           [s EXCEPT !.step = "Prevote"],
                           [s EXCEPT !.step = "Precommit"]}
  BY DEF OnTimeout, Result, Machine, Steps
<1>2. /\ Follows(s, s) /\ Follows(s, [s EXCEPT !.step = "Prevote"])
      /\ Follows(s, [s EXCEPT !.step = "Precommit"])
  BY DEF Follows, Machine
<1> QED
  BY <1>1, <1>2, StartRoundFollows

(* A proposal that extends the chain may become the stored one.            *)
LEMMA OnProposalFits ==
    ASSUME NEW s \in Machine, NEW p \in Proposals, NEW c, Fits(s, c),
           ValidBlock(p.block, s.height, c)
    PROVE  Fits(OnProposal(s, p).st, c)
<1> DEFINE t == IF p.round > s.round THEN StartRound(s, p.round) ELSE s
<1>1. t \in Machine /\ Follows(s, t)
  <2>1. Follows(s, s) /\ p.round \in Nat
    BY DEF Follows, Proposals
  <2> QED BY <2>1, StartRoundFollows, StartRoundType
<1>2. OnProposal(s, p).st \in {s, AcceptProposal(t, p).st}
  BY DEF OnProposal, Result
<1> HIDE DEF t
<1>3. Fits(t, c) /\ t.height = s.height
  BY <1>1, FollowsFits DEF Follows
<1>4. AcceptProposal(t, p).st \in
        {t, [t EXCEPT !.proposal = p.block, !.step = "Prevote"]}
  BY DEF AcceptProposal, Result
<1>5. Fits([t EXCEPT !.proposal = p.block, !.step = "Prevote"], c)
  BY <1>1, <1>3 DEF Fits, Machine
<1> QED
  BY <1>2, <1>3, <1>4, <1>5

-----------------------------------------------------------------------------
(* What a handler may make of effect e: a machine that fits a chain, which *)
(* has grown at most.                                                      *)
Keeps(e, f) == Fits(f.st, f.chain) /\ Grows(e.chain, f.chain)

LEMMA GrowsReflexive == \A c \in Seq(Blocks) : Grows(c, c)
BY DEF Grows

LEMMA HandleCommitActionKeeps ==
    ASSUME NEW n \in Validators, NEW e \in Effects, NEW hash \in Blocks,
           Fits(e.st, e.chain)
    PROVE  Keeps(e, HandleCommitAction(n, e, hash))
<1> DEFINE proof ==
      [node |-> n, height |-> e.st.height, round |-> e.st.round, hash |-> hash,
       voters |-> VotersFor(e.st.precommits, e.st.round, hash)]
           f == [e EXCEPT !.proofs = @ \cup {proof}]
           g == [f EXCEPT !.chain = Append(@, f.st.proposal),
                          !.st = NewMachine(f.st.height + 1)]
<1>1. HandleCommitAction(n, e, hash) = HandleCommit(f)
  BY DEF HandleCommitAction
<1> HIDE DEF proof
<1>2. f.st = e.st /\ f.chain = e.chain /\ e.chain \in Seq(Blocks)
  BY DEF Effects
<1>3. DOMAIN f = {"st", "chain", "sent", "proofs"}
  BY DEF Effects
<1> HIDE DEF f
<1>4. CASE HandleCommit(f) = f
  BY <1>1, <1>2, <1>4, GrowsReflexive DEF Keeps
<1>5. CASE f.st.proposal # None /\ HandleCommit(f) = g
  <2>1. g.st = NewMachine(e.st.height + 1) /\ g.chain = Append(e.chain, e.st.proposal)
    BY <1>2, <1>3
  <2>2. e.st.proposal \in Blocks /\ e.st.height \in Nat
    BY <1>2, <1>5 DEF Effects, Machine
  <2> HIDE DEF g
  <2>3. Grows(e.chain, g.chain) /\ Len(g.chain) = Len(e.chain) + 1
    BY <1>2, <2>1, <2>2 DEF Grows
  <2>4. Fits(g.st, g.chain)
    BY <2>1, <2>3 DEF Fits, NewMachine
  <2> QED
    BY <1>1, <1>5, <2>3, <2>4 DEF Keeps
<1> QED
  BY <1>4, <1>5 DEF HandleCommit

LEMMA HandleSendPrecommitKeeps ==
    ASSUME NEW n \in Validators, NEW e \in Effects, NEW hash \in Hashes,
           Fits(e.st, e.chain)
    PROVE  Keeps(e, HandleSendPrecommit(n, e, hash))
<1> DEFINE vote == VoteMsg("precommit", n, e.st, hash)
           r == OnPrecommit(e.st, vote)
           f == [e EXCEPT !.st = r.st, !.sent = @ \cup {vote}]
<1>1. e.st \in Machine /\ e.chain \in Seq(Blocks)
  BY DEF Effects
<1>2. vote \in VoteMsgs
  BY <1>1, VoteMsgType
<1>3. HandleSendPrecommit(n, e, hash) =
        IF r.act.type = "CommitBlock"
        THEN HandleCommitAction(n, f, r.act.hash) ELSE f
  BY DEF HandleSendPrecommit
<1> HIDE DEF vote
<1>4. /\ r \in Results /\ Follows(e.st, r.st)
      /\ r.act.type = "CommitBlock" => r.act.hash \in Blocks
  <2>1. vote.round \in Nat /\ vote.hash \in Hashes /\ vote.voter \in Validators
    BY <1>2 DEF VoteMsgs
  <2> QED BY <1>1, <2>1, OnPrecommitType, OnPrecommitFollows
<1> HIDE DEF r
<1>5. f \in Effects /\ f.st = r.st /\ f.chain = e.chain
  BY <1>2, <1>4, Zenon DEF Effects, Results
<1> HIDE DEF f
<1>6. Fits(f.st, f.chain)
  BY <1>4, <1>5, FollowsFits
<1>7. Keeps(e, f)
  BY <1>1, <1>5, <1>6, GrowsReflexive DEF Keeps
<1>8. r.act.type = "CommitBlock" => Keeps(e, HandleCommitAction(n, f, r.act.hash))
  BY <1>4, <1>5, <1>6, HandleCommitActionKeeps DEF Keeps
<1> QED
  BY <1>3, <1>7, <1>8

LEMMA HandleSendPrevoteKeeps ==
    ASSUME NEW n \in Validators, NEW e \in Effects, NEW hash \in Hashes,
           Fits(e.st, e.chain)
    PROVE  Keeps(e, HandleSendPrevote(n, e, hash))
<1> DEFINE vote == VoteMsg("prevote", n, e.st, hash)
           r == OnPrevote(e.st, vote)
           f == [e EXCEPT !.st = r.st, !.sent = @ \cup {vote}]
<1>1. e.st \in Machine /\ e.chain \in Seq(Blocks)
  BY DEF Effects
<1>2. vote \in VoteMsgs
  BY <1>1, VoteMsgType
<1>3. HandleSendPrevote(n, e, hash) =
        IF r.act.type = "SendPrecommit"
        THEN HandleSendPrecommit(n, f, r.act.hash) ELSE f
  BY DEF HandleSendPrevote
<1> HIDE DEF vote
<1>4. r \in Results /\ Follows(e.st, r.st)
  <2>1. vote.round \in Nat /\ vote.hash \in Hashes /\ vote.voter \in Validators
    BY <1>2 DEF VoteMsgs
  <2> QED BY <1>1, <2>1, OnPrevoteType, OnPrevoteFollows
<1> HIDE DEF r
<1>5. f \in Effects /\ f.st = r.st /\ f.chain = e.chain /\ r.act.hash \in Hashes
  BY <1>2, <1>4, Zenon DEF Effects, Results, Actions
<1> HIDE DEF f
<1>6. Fits(f.st, f.chain)
  BY <1>4, <1>5, FollowsFits
<1>7. Keeps(e, f)
  BY <1>1, <1>5, <1>6, GrowsReflexive DEF Keeps
<1>8. Keeps(e, HandleSendPrecommit(n, f, r.act.hash))
  BY <1>5, <1>6, HandleSendPrecommitKeeps DEF Keeps
<1> QED
  BY <1>3, <1>7, <1>8

LEMMA HandleKeeps ==
    ASSUME TypeOK, NEW n \in Honest, NEW r \in Results, Fits(r.st, chain[n]),
           r.act.type = "CommitBlock" => r.act.hash \in Blocks
    PROVE  Keeps(Effect(n), Handle(n, r))
<1> DEFINE e == [Effect(n) EXCEPT !.st = r.st]
<1>1. /\ e \in Effects /\ e.st = r.st /\ r.act \in Actions
      /\ e.chain = chain[n] /\ Effect(n).chain = chain[n]
      /\ chain[n] \in Seq(Blocks)
  BY Zenon DEF Effect, Effects, TypeOK, Results
<1>2. Handle(n, r) = HandleConsensusAction(n, e, r.act) /\ n \in Validators
  BY DEF Handle, Honest
<1> HIDE DEF e
<1>3. r.act.hash \in Hashes
  BY <1>1 DEF Actions
<1>4. Keeps(e, HandleConsensusAction(n, e, r.act))
  <2>1. CASE r.act.type = "SendPrevote"
    BY <1>1, <1>2, <1>3, <2>1, HandleSendPrevoteKeeps DEF HandleConsensusAction
  <2>2. CASE r.act.type = "SendPrecommit"
    BY <1>1, <1>2, <1>3, <2>2, HandleSendPrecommitKeeps DEF HandleConsensusAction
  <2>3. CASE r.act.type = "CommitBlock"
    BY <1>1, <1>2, <2>3, HandleCommitActionKeeps DEF HandleConsensusAction
  <2>4. CASE r.act.type = "NoAction"
    BY <1>1, <2>4, GrowsReflexive DEF HandleConsensusAction, Keeps
  <2> QED
    BY <1>1, <2>1, <2>2, <2>3, <2>4 DEF Actions
<1> QED
  BY <1>1, <1>2, <1>4 DEF Keeps

(* What a step of the loop does to every validator.                        *)
StepKeeps == \A n \in Honest : /\ Fits(cs'[n], chain'[n])
                               /\ Grows(chain[n], chain'[n])

LEMMA ApplyKeeps ==
    ASSUME FitsInv, NEW n \in Honest, NEW e, Keeps(Effect(n), e), Apply(n, e)
    PROVE  StepKeeps
<1>1. \A m \in Honest : /\ cs'[m] = IF m = n THEN e.st ELSE cs[m]
                        /\ chain'[m] = IF m = n THEN e.chain ELSE chain[m]
  BY DEF Apply, FitsInv, TypeOK
<1>2. \A m \in Honest : Fits(cs[m], chain[m]) /\ Grows(chain[m], chain[m])
  BY GrowsReflexive DEF FitsInv, TypeOK
<1>3. Fits(e.st, e.chain) /\ Grows(chain[n], e.chain)
  BY DEF Keeps, Effect
<1> QED
  BY <1>1, <1>2, <1>3 DEF StepKeeps

LEMMA EffectKeeps ==
    ASSUME FitsInv, NEW n \in Honest
    PROVE  Keeps(Effect(n), Effect(n))
BY GrowsReflexive DEF FitsInv, TypeOK, Keeps, Effect

(* A proposal that extends the chain, from the network or our own.         *)
LEMMA ProposalKeeps ==
    ASSUME FitsInv, NEW n \in Honest, NEW m \in ProposalMsgs,
           ValidBlock(m.block, Len(chain[n]) + 1, chain[n])
    PROVE  /\ OnProposal(cs[n], AsProposal(m)) \in Results
           /\ Keeps(Effect(n), Handle(n, OnProposal(cs[n], AsProposal(m))))
<1> DEFINE r == OnProposal(cs[n], AsProposal(m))
<1>1. cs[n] \in Machine /\ Fits(cs[n], chain[n]) /\ TypeOK
  BY DEF FitsInv, TypeOK
<1>2. AsProposal(m) \in Proposals /\ AsProposal(m).block = m.block
  BY AsProposalType DEF AsProposal
<1>3. cs[n].height = Len(chain[n]) + 1
  BY <1>1 DEF Fits
<1>4. r \in Results /\ Fits(r.st, chain[n]) /\ r.act.type # "CommitBlock"
  BY <1>1, <1>2, <1>3, OnProposalType, OnProposalFits, CommitsOnlyOnPrecommit
<1> HIDE DEF r
<1>5. Keeps(Effect(n), Handle(n, r))
  BY <1>1, <1>4, HandleKeeps
<1> QED
  BY <1>4, <1>5 DEF r

LEMMA TickKeeps ==
    ASSUME FitsInv, NEW n \in Honest, OnBlockTimer(n)
    PROVE  StepKeeps
<1>0. cs[n] \in Machine /\ Fits(cs[n], chain[n]) /\ TypeOK
  BY DEF FitsInv, TypeOK
<1>1. CASE Propose(n)
  <2>1. PICK b \in ProposableBlocks(n) :
          LET p == ProposalMsg(n, cs[n], b)
              e == Handle(n, OnProposal(cs[n], AsProposal(p)))
          IN  MustPropose(n) /\ Apply(n, [e EXCEPT !.sent = @ \cup {p}])
    BY <1>1, Zenon DEF Propose
  <2> DEFINE p == ProposalMsg(n, cs[n], b)
             r == OnProposal(cs[n], AsProposal(p))
             e == Handle(n, r)
             f == [e EXCEPT !.sent = @ \cup {p}]
  <2>2. b \in Blocks
    BY <1>0 DEF Machine, ProposableBlocks
  <2>3. p \in ProposalMsgs /\ p.block = b
    BY <1>0, <2>2 DEF ProposalMsg, ProposalMsgs, Machine, Honest
  <2>4. Apply(n, f)
    BY <2>1
  <2>5. ValidBlock(b, Len(chain[n]) + 1, chain[n])
    BY <1>0 DEF ProposableBlocks, Fits
  <2> HIDE DEF p
  <2>6. r \in Results /\ r.act.type # "CommitBlock" /\ Keeps(Effect(n), e)
    BY <2>3, <2>5, ProposalKeeps, CommitsOnlyOnPrecommit
  <2> HIDE DEF r
  <2>7. e \in Effects
    BY <1>0, <2>6, HandleType
  <2> HIDE DEF e
  <2>8. f.st = e.st /\ f.chain = e.chain
    BY <2>7 DEF Effects
  <2> HIDE DEF f
  <2>9. Keeps(Effect(n), f)
    BY <2>6, <2>8 DEF Keeps
  <2> QED
    BY <2>4, <2>9, ApplyKeeps
<1>2. CASE AwaitProposal(n)
  <2> DEFINE s == IF cs[n].step = "NewRound"
                  THEN [cs[n] EXCEPT !.step = "Propose"] ELSE cs[n]
             e == [Effect(n) EXCEPT !.st = s]
  <2>1. Follows(cs[n], s)
    BY <1>0 DEF Follows, Machine
  <2>2. Apply(n, e)
    BY <1>2 DEF AwaitProposal
  <2> HIDE DEF s
  <2>3. e.st = s /\ e.chain = chain[n] /\ Effect(n).chain = chain[n]
    BY DEF Effect
  <2>4. Keeps(Effect(n), e)
    <3> HIDE DEF e
    <3> QED BY <1>0, <2>1, <2>3, FollowsFits, GrowsReflexive DEF Keeps, TypeOK
  <2> HIDE DEF e
  <2> QED
    BY <2>2, <2>4, ApplyKeeps
<1>3. CASE ProposalFails(n)
  BY <1>3, EffectKeeps, ApplyKeeps DEF ProposalFails
<1> QED
  BY <1>1, <1>2, <1>3 DEF OnBlockTimer

LEMMA LoopKeeps == FitsInv /\ [Next]_vars => StepKeeps
<1> SUFFICES ASSUME FitsInv, [Next]_vars PROVE StepKeeps
  OBVIOUS
<1>0. TypeOK /\ \A n \in Honest : cs[n] \in Machine /\ Fits(cs[n], chain[n])
  BY DEF FitsInv, TypeOK
<1>1. ASSUME NEW n \in Honest, Start(n) \/ BlockTimer(n) PROVE StepKeeps
  BY <1>1, TickKeeps DEF Start, BlockTimer
<1>2. ASSUME NEW n \in Honest, ConsensusTimeout(n) PROVE StepKeeps
  <2> DEFINE r == OnTimeout(cs[n])
  <2>1. r \in Results /\ r.act.type # "CommitBlock" /\ Follows(cs[n], r.st)
    BY <1>0, OnTimeoutType, CommitsOnlyOnPrecommit, OnTimeoutFollows
  <2>2. Apply(n, Handle(n, r))
    BY <1>2 DEF ConsensusTimeout
  <2> HIDE DEF r
  <2>3. Keeps(Effect(n), Handle(n, r))
    BY <1>0, <2>1, FollowsFits, HandleKeeps
  <2> QED
    BY <2>2, <2>3, ApplyKeeps
<1>3. ASSUME NEW n \in Honest, NEW m \in msgs, BlockReceived(n, m)
      PROVE  StepKeeps
  <2>1. m \in ProposalMsgs
    BY <1>0, <1>3, Zenon DEF BlockReceived, TypeOK, VoteMsgs
  <2>2. CASE ValidBlock(m.block, Len(chain[n]) + 1, chain[n])
    BY <1>3, <2>1, <2>2, ProposalKeeps, ApplyKeeps DEF BlockReceived
  <2>3. CASE ~ValidBlock(m.block, Len(chain[n]) + 1, chain[n])
    BY <1>3, <2>3, EffectKeeps, ApplyKeeps DEF BlockReceived
  <2> QED
    BY <2>2, <2>3
<1>4. ASSUME NEW n \in Honest, NEW m \in msgs, ConsensusMessageReceived(n, m)
      PROVE  StepKeeps
  <2>1. m \in VoteMsgs
    BY <1>0, <1>4 DEF ConsensusMessageReceived, TypeOK, ProposalMsgs
  <2> DEFINE r == IF m.type = "prevote" THEN OnPrevote(cs[n], m)
                                        ELSE OnPrecommit(cs[n], m)
  <2>2. m.round \in Nat /\ m.hash \in Hashes /\ m.voter \in Validators
    BY <2>1 DEF VoteMsgs
  <2>3. /\ r \in Results /\ Follows(cs[n], r.st)
        /\ r.act.type = "CommitBlock" => r.act.hash \in Blocks
    BY <1>0, <2>2, OnPrevoteType, OnPrecommitType, CommitsOnlyOnPrecommit,
       OnPrevoteFollows, OnPrecommitFollows, Zenon
  <2>4. Apply(n, Handle(n, r))
    BY <1>4 DEF ConsensusMessageReceived
  <2> HIDE DEF r
  <2>5. Keeps(Effect(n), Handle(n, r))
    BY <1>0, <2>3, FollowsFits, HandleKeeps
  <2> QED
    BY <2>4, <2>5, ApplyKeeps
<1>5. CASE UNCHANGED vars
  BY <1>0, <1>5, GrowsReflexive DEF vars, StepKeeps, TypeOK
<1>6. CASE Finished
  BY <1>5, <1>6 DEF Finished
<1> QED
  BY <1>1, <1>2, <1>3, <1>4, <1>5, <1>6 DEF Next
=============================================================================
