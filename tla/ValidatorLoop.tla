---------------------------- MODULE ValidatorLoop ----------------------------
(***************************************************************************)
(* The consensus-driven loop of polay-validator (ValidatorLoop::run) at    *)
(* every validator, over a broadcast network.                              *)
(*                                                                         *)
(* cs[n]      the ConsensusStateMachine of n                               *)
(* chain[n]   the blocks n has applied, oldest first (ChainStateManager)   *)
(* running[n] whether run() of n has passed its first block-timer call     *)
(* armed[n]   `timeout_active`                                             *)
(* msgs       every proposal and vote ever broadcast: a receiver may take  *)
(*            any of them at any time, in any order, or never              *)
(* delivered[n] the proposals handed to n: gossipsub drops a message it    *)
(*            has seen (a repeated vote is refused by the machine anyway)  *)
(* proofs     every CommitProof returned, with the validator it went to    *)
(*                                                                         *)
(* Each action is one iteration of the select! loop, handler included: the *)
(* handlers run to completion before the next event is polled.  Validators *)
(* in Faulty do not follow the code: all they ever say, FaultyMsgs, is     *)
(* in msgs from the start (nothing, for one that is down).  A message is   *)
(* taken to come from the validator it names.                              *)
(***************************************************************************)
EXTENDS ConsensusStateMachine

CONSTANTS Faulty, FaultyMsgs, HeightOf, ParentOf, Genesis, MaxRound, MaxHeight

Rounds == 0 .. MaxRound

ASSUME FaultyAssumption ==
    Faulty \subseteq Validators /\ StakeOf(Faulty) * 3 < total_stake

ASSUME FaultyMsgsAssumption ==
    FaultyMsgs \subseteq
        [type : {"prevote", "precommit"}, height : Nat, round : Rounds,
         hash : Hashes, voter : Faulty]
            \cup [type : {"proposal"}, round : Rounds, block : Blocks,
                  proposer : Faulty]

ASSUME BlockHeaderAssumption ==
    /\ HeightOf \in [Blocks -> Nat]
    /\ ParentOf \in [Blocks -> Blocks \cup {Genesis}]

ASSUME BoundsAssumption == MaxRound \in Nat /\ MaxHeight \in Nat

VARIABLES cs, chain, running, armed, msgs, delivered, proofs

vars == <<cs, chain, running, armed, msgs, delivered, proofs>>

Honest == Validators \ Faulty

VoteMsgs == [type : {"prevote", "precommit"}, height : Nat, round : Nat,
             hash : Hashes, voter : Validators]

ProposalMsgs == [type : {"proposal"}, round : Nat, block : Blocks,
                 proposer : Validators]

CommitProofs == [node : Validators, height : Nat, round : Nat, hash : Blocks,
                 voters : SUBSET Validators]

VoteMsg(type, n, s, hash) ==
    [type |-> type, height |-> s.height, round |-> s.round,
     hash |-> hash, voter |-> n]

ProposalMsg(n, s, block) ==
    [type |-> "proposal", round |-> s.round, block |-> block, proposer |-> n]

(* The Proposal built from a block message: its height is the block's.     *)
AsProposal(m) ==
    [height |-> HeightOf[m.block], round |-> m.round, block |-> m.block,
     proposer |-> m.proposer]

LatestHash(c) == IF c = << >> THEN Genesis ELSE c[Len(c)]

(* The checks of validate_block_light and validate_proposed_block that     *)
(* depend on the receiver's chain.  A block failing one of the others is   *)
(* refused by every validator and behaves like one never delivered.        *)
ValidBlock(block, height, c) ==
    HeightOf[block] = height /\ ParentOf[block] = LatestHash(c)

-----------------------------------------------------------------------------
(* What a handler of n has done so far: the machine and the chain it       *)
(* leaves, the messages it broadcast and the commit proofs it received.    *)
Effect(n) == [st |-> cs[n], chain |-> chain[n], sent |-> {}, proofs |-> {}]

(* handle_commit: applies the block of the stored proposal and advances,   *)
(* or returns with the machine still in Commit.                            *)
HandleCommit(e) ==
    IF e.st.proposal # None /\ ValidBlock(e.st.proposal, e.st.height, e.chain)
    THEN [e EXCEPT !.chain = Append(@, e.st.proposal),
                   !.st = NewMachine(e.st.height + 1)]
    ELSE e

HandleCommitAction(n, e, hash) ==
    LET proof == [node |-> n, height |-> e.st.height, round |-> e.st.round,
                  hash |-> hash,
                  voters |-> VotersFor(e.st.precommits, e.st.round, hash)]
    IN  HandleCommit([e EXCEPT !.proofs = @ \cup {proof}])

(* handle_consensus_action, SendPrecommit: broadcast, count it ourselves,  *)
(* and commit if that completes a quorum.                                  *)
HandleSendPrecommit(n, e, hash) ==
    LET vote == VoteMsg("precommit", n, e.st, hash)
        r == OnPrecommit(e.st, vote)
        f == [e EXCEPT !.st = r.st, !.sent = @ \cup {vote}]
    IN  IF r.act.type = "CommitBlock"
        THEN HandleCommitAction(n, f, r.act.hash) ELSE f

(* handle_consensus_action, SendPrevote.                                   *)
HandleSendPrevote(n, e, hash) ==
    LET vote == VoteMsg("prevote", n, e.st, hash)
        r == OnPrevote(e.st, vote)
        f == [e EXCEPT !.st = r.st, !.sent = @ \cup {vote}]
    IN  IF r.act.type = "SendPrecommit"
        THEN HandleSendPrecommit(n, f, r.act.hash) ELSE f

HandleConsensusAction(n, e, act) ==
    CASE act.type = "SendPrevote" -> HandleSendPrevote(n, e, act.hash)
      [] act.type = "SendPrecommit" -> HandleSendPrecommit(n, e, act.hash)
      [] act.type = "CommitBlock" -> HandleCommitAction(n, e, act.hash)
      [] OTHER -> e

(* A handler that feeds its input to the machine and handles the answer.   *)
Handle(n, r) == HandleConsensusAction(n, [Effect(n) EXCEPT !.st = r.st], r.act)

Apply(n, e) ==
    /\ cs' = [cs EXCEPT ![n] = e.st]
    /\ chain' = [chain EXCEPT ![n] = e.chain]
    /\ msgs' = msgs \cup e.sent
    /\ proofs' = proofs \cup e.proofs

-----------------------------------------------------------------------------
Init ==
    /\ cs = [n \in Honest |-> NewMachine(1)]
    /\ chain = [n \in Honest |-> << >>]
    /\ running = [n \in Honest |-> FALSE]
    /\ armed = [n \in Honest |-> FALSE]
    /\ msgs = FaultyMsgs
    /\ delivered = [n \in Honest |-> {}]
    /\ proofs = {}

(* produce_proposal builds a block on the tip, and no honest validator     *)
(* builds the same block twice; a valid proposal is proposed again.        *)
ProposableBlocks(n) ==
    IF cs[n].valid_proposal # None THEN {cs[n].valid_proposal}
    ELSE {b \in Blocks :
             /\ ValidBlock(b, Len(chain[n]) + 1, chain[n])
             /\ \A m \in msgs : m.type = "proposal" /\ m.block = b
                                   => m.proposer \in Faulty}

(* Fault: the proposer proposes at every tick of its round.                *)
MustProposeAnyStep(n) == CurrentProposer(cs[n]) = n

MustPropose(n) ==
    /\ CurrentProposer(cs[n]) = n
    /\ cs[n].step \in {"NewRound", "Propose"}

(* on_block_timer_inner: the proposer feeds the proposal to its machine,   *)
(* handles what that returns and broadcasts the block.                     *)
Propose(n) ==
    \E b \in ProposableBlocks(n) :
        LET p == ProposalMsg(n, cs[n], b)
            e == Handle(n, OnProposal(cs[n], AsProposal(p)))
        IN  MustPropose(n) /\ Apply(n, [e EXCEPT !.sent = @ \cup {p}])

AwaitProposal(n) ==
    LET s == IF cs[n].step = "NewRound" THEN [cs[n] EXCEPT !.step = "Propose"]
                                        ELSE cs[n]
    IN  ~MustPropose(n) /\ Apply(n, [Effect(n) EXCEPT !.st = s])

(* produce_block fails and the error is logged.                            *)
ProposalFails(n) ==
    MustPropose(n) /\ cs[n].valid_proposal = None /\ Apply(n, Effect(n))

OnBlockTimer(n) == Propose(n) \/ ProposalFails(n) \/ AwaitProposal(n)

(* Bound: a validator that has applied MaxHeight blocks stops.             *)
Active(n) == cs[n].height <= MaxHeight

(* run(): the call of on_block_timer before the loop ...                   *)
Start(n) ==
    /\ ~running[n]
    /\ OnBlockTimer(n)
    /\ running' = [running EXCEPT ![n] = TRUE]
    /\ armed' = [armed EXCEPT ![n] = TRUE]
    /\ UNCHANGED delivered

(* ... and its arms: the block timer,                                      *)
BlockTimer(n) ==
    /\ running[n] /\ Active(n)
    /\ OnBlockTimer(n)
    /\ armed' = [armed EXCEPT ![n] = TRUE]
    /\ UNCHANGED <<running, delivered>>

(* the step timeout (bound: no round after MaxRound is entered),           *)
ConsensusTimeout(n) ==
    /\ running[n] /\ Active(n)
    /\ armed[n]
    /\ cs[n].step = "Precommit" => cs[n].round < MaxRound
    /\ Apply(n, Handle(n, OnTimeout(cs[n])))
    /\ armed' = [armed EXCEPT ![n] = FALSE]
    /\ UNCHANGED <<running, delivered>>

(* a proposal, refused without a vote unless it extends our chain,         *)
BlockReceived(n, m) ==
    /\ running[n] /\ Active(n)
    /\ m.type = "proposal" /\ m.proposer # n
    /\ m \notin delivered[n]
    /\ delivered' = [delivered EXCEPT ![n] = @ \cup {m}]
    /\ Apply(n, IF ValidBlock(m.block, Len(chain[n]) + 1, chain[n])
                THEN Handle(n, OnProposal(cs[n], AsProposal(m)))
                ELSE Effect(n))
    /\ armed' = [armed EXCEPT ![n] = TRUE]
    /\ UNCHANGED running

(* and a vote.                                                             *)
ConsensusMessageReceived(n, m) ==
    /\ running[n] /\ Active(n)
    /\ m.type \in {"prevote", "precommit"} /\ m.voter # n
    /\ Apply(n, Handle(n, IF m.type = "prevote" THEN OnPrevote(cs[n], m)
                                                ELSE OnPrecommit(cs[n], m)))
    /\ armed' = [armed EXCEPT ![n] = TRUE]
    /\ UNCHANGED <<running, delivered>>

(* Bound: the model ends when every validator has applied MaxHeight blocks.*)
Finished == (\A n \in Honest : ~Active(n)) /\ UNCHANGED vars

Next ==
    \/ \E n \in Honest :
          \/ Start(n)
          \/ BlockTimer(n)
          \/ ConsensusTimeout(n)
          \/ \E m \in msgs : BlockReceived(n, m)
          \/ \E m \in msgs : ConsensusMessageReceived(n, m)
    \/ Finished

Spec == Init /\ [][Next]_vars
-----------------------------------------------------------------------------
(* The machine, the chain and the flags of every validator, and everything *)
(* broadcast or certified, keep their types.                               *)
TypeOK ==
    /\ cs \in [Honest -> Machine]
    /\ chain \in [Honest -> Seq(Blocks)]
    /\ running \in [Honest -> BOOLEAN]
    /\ armed \in [Honest -> BOOLEAN]
    /\ msgs \subseteq VoteMsgs \cup ProposalMsgs
    /\ delivered \in [Honest -> SUBSET ProposalMsgs]
    /\ proofs \subseteq CommitProofs

(* The validators that broadcast a vote for hash at (height, round).       *)
Voters(type, height, round, hash) ==
    {v \in Validators : [type |-> type, height |-> height, round |-> round,
                         hash |-> hash, voter |-> v] \in msgs}

(* No two validators are handed commit proofs for different blocks at one  *)
(* height, whatever the faulty third says and however rounds are skipped,  *)
(* votes buffered and late proposals accepted (on_precommit).              *)
CertifiedAgreement ==
    \A p, q \in proofs : p.height = q.height => p.hash = q.hash

(* The block handle_commit applies is the stored proposal; it is the block *)
(* the commit proof names, although the code never compares the two.       *)
AppliedIsCertified ==
    \A n \in Honest : \A h \in DOMAIN chain[n] :
        \E p \in proofs : p.node = n /\ p.height = h /\ p.hash = chain[n][h]

(* A lock (on_prevote) names a block for which a quorum prevoted in the    *)
(* round of the lock, so only a newer quorum moves it.                     *)
LockIsSupported ==
    \A n \in Honest : LET lock == cs[n].locked_block IN
        lock # NoLock =>
            /\ lock.round <= cs[n].round
            /\ IsQuorum(Voters("prevote", cs[n].height, lock.round, lock.hash))

(* valid_proposal is "the full proposal corresponding to valid_block" or   *)
(* missing, so a re-proposal proposes what the locked validators wait for. *)
ValidProposalMatchesValidBlock ==
    \A n \in Honest :
        cs[n].valid_proposal \in {None, cs[n].valid_block.hash}

(* A validator whose future-round buffer holds a third of the stake has    *)
(* skipped: no round above the current one is backed by that much stake.   *)
BufferedVotesBelowSkip ==
    \A n \in Honest : \A r \in Rounds :
        r > cs[n].round => ~ShouldSkipToRound(cs[n], r)

(* What a validator keeps for later rounds agrees with the round it is in: *)
(* its valid block with the proposal it re-proposes, and buffered votes of *)
(* later rounds stay below what would have made it skip.                   *)
RoundRecordsAgree == ValidProposalMatchesValidBlock /\ BufferedVotesBelowSkip

(* The machine decides the height after the chain tip, and the chain of    *)
(* every validator is linked: light validation in handle_commit, whose     *)
(* failure is logged as a bug, never fails.                                *)
HeightFollowsChain ==
    \A n \in Honest :
        /\ cs[n].height = Len(chain[n]) + 1
        /\ cs[n].proposal # None =>
              ValidBlock(cs[n].proposal, cs[n].height, chain[n])

(* A running machine never goes back to an earlier round of its height.    *)
RoundsMoveForward ==
    [][\A n \in Honest : \/ cs'[n].height > cs[n].height
                         \/ /\ cs'[n].height = cs[n].height
                            /\ cs'[n].round >= cs[n].round]_vars

-----------------------------------------------------------------------------
(***************************************************************************)
(* What the loop eventually does.                                          *)
(***************************************************************************)
ReceiveBlock(n) == \E m \in msgs : BlockReceived(n, m)

(* A vote that the machine takes; there are finitely many in a round.      *)
ReceiveVote(n) ==
    \E m \in msgs : ConsensusMessageReceived(n, m) /\ cs' # cs

(* Weak fairness of each arm of the loop, WF_vars of its action, with the  *)
(* condition under which its handler changes something written out.        *)
TickDue(n) ==
    running[n] /\ Active(n)
        /\ \/ MustPropose(n) /\ ProposableBlocks(n) # {}
           \/ ~MustPropose(n) /\ cs[n].step = "NewRound"
           \/ ~armed[n]

TimeoutDue(n) ==
    running[n] /\ Active(n) /\ armed[n]
        /\ (cs[n].step = "Precommit" => cs[n].round < MaxRound)

BlockDue(n) ==
    running[n] /\ Active(n)
        /\ \E m \in msgs : /\ m.type = "proposal" /\ m.proposer # n
                            /\ m \notin delivered[n]

VoteDue(n) ==
    running[n] /\ Active(n)
        /\ \E m \in msgs :
              /\ m.type \in {"prevote", "precommit"} /\ m.voter # n
              /\ ~VoteRejected(cs[n], IF m.type = "prevote"
                                      THEN cs[n].prevotes
                                      ELSE cs[n].precommits, m)

(* Every running loop polls its two timers, ...                            *)
Timers ==
    \A n \in Honest :
        /\ WF_vars(Start(n))
        /\ []<>~TickDue(n) \/ []<><<BlockTimer(n)>>_vars
        /\ []<>~TimeoutDue(n) \/ []<><<ConsensusTimeout(n)>>_vars

(* ... and gossip delivers every message to every validator in the end.    *)
Delivery ==
    \A n \in Honest :
        /\ []<>~BlockDue(n) \/ []<><<ReceiveBlock(n)>>_vars
        /\ []<>~VoteDue(n) \/ []<><<ReceiveVote(n)>>_vars

(* Timers only: messages may be lost.                                      *)
TimerSpec == Spec /\ Timers

FairSpec == Spec /\ Timers /\ Delivery

-----------------------------------------------------------------------------
(* A timely network: the step timeouts (2 s and 3 s) are longer than both  *)
(* the delivery of a message and the block interval (2 s by default), so   *)
(* none fires before every message has reached every validator and every   *)
(* proposer has had its tick; and the clocks run at one pace, so a         *)
(* validator does not time out ahead of one still in an earlier round.     *)
Idle(n) ==
    running[n] /\ (Active(n) => ~MustPropose(n)) /\ ~BlockDue(n) /\ ~VoteDue(n)

Behind(m, n) ==
    \/ cs[m].height < cs[n].height
    \/ cs[m].height = cs[n].height /\ cs[m].round < cs[n].round

Timely(n) == \A m \in Honest : Idle(m) /\ ~Behind(m, n)

TimelyNext ==
    \/ \E n \in Honest : \/ Start(n)
                         \/ BlockTimer(n)
                         \/ Timely(n) /\ ConsensusTimeout(n)
                         \/ ReceiveBlock(n)
                         \/ ReceiveVote(n)
    \/ Finished

TimelySpec == Init /\ [][TimelyNext]_vars /\ Timers /\ Delivery

-----------------------------------------------------------------------------
(* "The chain continues to produce blocks as long as more than 2/3 of      *)
(* total stake is online and honest": when messages are timely, every      *)
(* running validator applies a block at every height, past a proposer that *)
(* is down, and so waits for nobody forever.                               *)
ChainAdvances == <>(\A n \in Honest : ~Active(n))

(* A validator leaves every round, by a decision or by its timeouts, even  *)
(* if no message ever arrives: run() arms the timeout again at every tick, *)
(* so nobody stays below the last round that the model has.                *)
RoundsEnd ==
    \A n \in Honest : []<>\/ cs[n].round = MaxRound
                          \/ cs[n].step = "Commit"
                          \/ ~Active(n)

(* "Once a validator has received precommits for the same block_hash from  *)
(* validators representing >2/3 of total stake: 1. Writes the block's      *)
(* state diffs to RocksDB [...] 5. Advances to the next height."           *)
CommittedIsApplied ==
    \A n \in Honest : \A h \in 1 .. MaxHeight :
        (\E p \in proofs : p.node = n /\ p.height = h) ~> Len(chain[n]) >= h
=============================================================================
