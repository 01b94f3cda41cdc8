------------------------ MODULE ConsensusStateMachine ------------------------
(***************************************************************************)
(* The handlers of polay-consensus' ConsensusStateMachine as functions     *)
(* from a machine state (and an input) to the next state and the           *)
(* ConsensusAction returned to the validator loop.  An `Err(..)` result    *)
(* is NoAction, since every caller drops it; it leaves the state as it is, *)
(* except that on_proposal may have skipped to the proposal's round.       *)
(*                                                                         *)
(* A machine keeps its votes of the current round and the buffered votes   *)
(* of later rounds in one set per vote type: `prevotes` and                *)
(* `future_prevotes[r]` of the code are the members with round = s.round   *)
(* and with round = r.  Entering a round then drops the older members.     *)
(* A block is identified with its hash, the nil hash is Nil, and           *)
(* `Option<Proposal>` is a block or None: the fields of a stored proposal  *)
(* other than its block are never read again.                              *)
(***************************************************************************)
EXTENDS ValidatorSet

CONSTANTS Blocks, Nil, None

ASSUME BlocksAssumption == Nil \notin Blocks /\ None \notin Blocks /\ Nil # None

Hashes == Blocks \cup {Nil}

Steps == {"NewRound", "Propose", "Prevote", "Precommit", "Commit"}

Votes == [round : Nat, hash : Hashes, voter : Validators]

NoLock == [round |-> -1, hash |-> Nil]

Locks == {NoLock} \cup [round : Nat, hash : Blocks]

Machine == [height : Nat, round : Nat, step : Steps,
            proposal : Blocks \cup {None},
            prevotes : SUBSET Votes, precommits : SUBSET Votes,
            locked_block : Locks, valid_block : Locks,
            valid_proposal : Blocks \cup {None}]

(* ConsensusStateMachine::new, and advance_height.                         *)
NewMachine(height) ==
    [height |-> height, round |-> 0, step |-> "NewRound", proposal |-> None,
     prevotes |-> {}, precommits |-> {},
     locked_block |-> NoLock, valid_block |-> NoLock, valid_proposal |-> None]

CurrentProposer(s) == GetProposer(s.height, s.round)

-----------------------------------------------------------------------------
(* ConsensusAction.  SendProposal is never returned, and ScheduleTimeout   *)
(* is informational only: the loop treats it like no action.               *)
NoAction == [type |-> "NoAction", hash |-> Nil]

SendPrevote(hash) == [type |-> "SendPrevote", hash |-> hash]

SendPrecommit(hash) == [type |-> "SendPrecommit", hash |-> hash]

CommitBlock(hash) == [type |-> "CommitBlock", hash |-> hash]

Result(s, action) == [st |-> s, act |-> action]

-----------------------------------------------------------------------------
VotersFor(votes, round, hash) ==
    {v \in Validators : [round |-> round, hash |-> hash, voter |-> v] \in votes}

HasVoted(votes, round, voter) ==
    \E w \in votes : w.round = round /\ w.voter = voter

(* Fault: a quorum is taken to be the third that suffices to skip a round. *)
QuorumHashesOfAThird(votes, round) ==
    {h \in Hashes : StakeOf(VotersFor(votes, round, h)) >= SkipThreshold}

(* find_prevote_quorum and find_precommit_quorum return a member of this   *)
(* set; one vote per voter leaves it at most one.                          *)
QuorumHashes(votes, round) ==
    {h \in Hashes : IsQuorum(VotersFor(votes, round, h))}

(* should_skip_to_round.                                                   *)
ShouldSkipToRound(s, round) ==
    StakeOf({v \in Validators : \/ HasVoted(s.prevotes, round, v)
                                \/ HasVoted(s.precommits, round, v)})
        >= SkipThreshold

(* start_new_round and skip_to_round.  The lock survives.                  *)
StartRound(s, round) ==
    [s EXCEPT !.round = round, !.step = "Propose", !.proposal = None,
              !.prevotes = {w \in @ : w.round >= round},
              !.precommits = {w \in @ : w.round >= round}]

(* Fault: a second vote of one validator in a round is counted.            *)
VoteNotDeduplicated(s, votes, v) ==
    v.height # s.height \/ v.voter \notin Validators \/ v.round < s.round

(* The conditions under which on_prevote and on_precommit return an error. *)
VoteRejected(s, votes, v) ==
    \/ v.height # s.height
    \/ v.voter \notin Validators
    \/ v.round < s.round
    \/ HasVoted(votes, v.round, v.voter)

AsVote(v) == [round |-> v.round, hash |-> v.hash, voter |-> v.voter]

(* Fault: votes of later rounds are buffered and never looked at.          *)
MaybeSkipNever(s, round) == s

(* The future-round branch shared by on_prevote and on_precommit.          *)
MaybeSkip(s, round) ==
    IF ShouldSkipToRound(s, round) THEN StartRound(s, round) ELSE s

-----------------------------------------------------------------------------
(* Fault: the lock is ignored.                                             *)
AcceptProposalUnlocked(s, p) ==
    IF p.proposer # CurrentProposer(s) /\ s.valid_block.hash # p.block
    THEN Result(s, NoAction)
    ELSE Result([s EXCEPT !.proposal = p.block, !.step = "Prevote"],
                SendPrevote(p.block))

(* Fault: the proposal to repeat is remembered before it has a quorum.     *)
AcceptProposalRemembers(s, p) ==
    IF p.proposer # CurrentProposer(s) /\ s.valid_block.hash # p.block
    THEN Result(s, NoAction)
    ELSE Result([s EXCEPT !.proposal = p.block, !.step = "Prevote",
                          !.valid_proposal = p.block],
                SendPrevote(IF s.locked_block.hash \in {Nil, p.block}
                            THEN p.block ELSE Nil))

(* What on_proposal does once the machine is in the proposal's round.      *)
AcceptProposal(s, p) ==
    IF \/ p.proposer # CurrentProposer(s) /\ s.valid_block.hash # p.block
       \/ p.proposer \notin Validators
    THEN Result(s, NoAction)
    ELSE Result([s EXCEPT !.proposal = p.block, !.step = "Prevote"],
                SendPrevote(IF s.locked_block.hash \in {Nil, p.block}
                            THEN p.block ELSE Nil))

(* Fault: a proposal of an earlier round is followed too.                  *)
OnProposalOfAnyRound(s, p) ==
    IF p.height # s.height THEN Result(s, NoAction)
    ELSE AcceptProposal(IF p.round # s.round THEN StartRound(s, p.round)
                                             ELSE s, p)

OnProposal(s, p) ==
    IF p.height # s.height \/ p.round < s.round
    THEN Result(s, NoAction)
    ELSE AcceptProposal(IF p.round > s.round THEN StartRound(s, p.round)
                                             ELSE s, p)

(* The transition to Precommit on a prevote quorum, nil included.          *)
PrevoteQuorum(s, hash) ==
    LET lock == [round |-> s.round, hash |-> hash]
        t == [s EXCEPT !.step = "Precommit"]
    IN  IF hash = Nil THEN t
        ELSE [t EXCEPT !.locked_block = lock, !.valid_block = lock,
                       !.valid_proposal = s.proposal]

OnPrevote(s, v) ==
    LET t == [s EXCEPT !.prevotes = @ \cup {AsVote(v)}]
        quorum == QuorumHashes(t.prevotes, t.round)
        hash == CHOOSE h \in quorum : TRUE
    IN  IF VoteRejected(s, s.prevotes, v) THEN Result(s, NoAction)
        ELSE IF v.round > s.round
        THEN Result(MaybeSkip(t, v.round), NoAction)
        ELSE IF quorum # {} /\ s.step \in {"Propose", "Prevote"}
        THEN Result(PrevoteQuorum(t, hash), SendPrecommit(hash))
        ELSE Result(t, NoAction)

OnPrecommit(s, v) ==
    LET t == [s EXCEPT !.precommits = @ \cup {AsVote(v)}]
        quorum == QuorumHashes(t.precommits, t.round)
        hash == CHOOSE h \in quorum : TRUE
    IN  IF VoteRejected(s, s.precommits, v) THEN Result(s, NoAction)
        ELSE IF v.round > s.round
        THEN Result(MaybeSkip(t, v.round), NoAction)
        ELSE IF quorum # {} /\ hash # Nil /\ s.step # "Commit"
        THEN Result([t EXCEPT !.step = "Commit"], CommitBlock(hash))
        ELSE Result(t, NoAction)

(* Fault: the precommit timeout does not start a round.                    *)
OnTimeoutWaits(s) ==
    CASE s.step \in {"NewRound", "Propose"} ->
            Result([s EXCEPT !.step = "Prevote"], SendPrevote(Nil))
      [] s.step = "Prevote" ->
            Result([s EXCEPT !.step = "Precommit"], SendPrecommit(Nil))
      [] s.step \in {"Precommit", "Commit"} -> Result(s, NoAction)

(* on_timeout, by step.                                                    *)
OnTimeout(s) ==
    CASE s.step \in {"NewRound", "Propose"} ->
            Result([s EXCEPT !.step = "Prevote"], SendPrevote(Nil))
      [] s.step = "Prevote" ->
            Result([s EXCEPT !.step = "Precommit"], SendPrecommit(Nil))
      [] s.step = "Precommit" -> Result(StartRound(s, s.round + 1), NoAction)
      [] s.step = "Commit" -> Result(s, NoAction)
=============================================================================
