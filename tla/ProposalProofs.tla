--------------------------- MODULE ProposalProofs ---------------------------
(***************************************************************************)
(* Why the block ValidatorLoop applies is the block it certified.          *)
(* handle_commit applies the stored proposal without comparing it with     *)
(* the block of the commit proof; the two are the same as long as no       *)
(* proposer broadcasts two blocks for one turn.  An honest one does not:   *)
(* it proposes in the first steps of a round, which it leaves at once and  *)
(* does not come back to.  So a height and a round have one proposal, and  *)
(* what a quorum prevotes or precommits there, what a machine stores there *)
(* and what it keeps to propose again are all that block.                  *)
(*                                                                         *)
(* The last part is about ValidatorRestart: what restarts leave intact.    *)
(***************************************************************************)
EXTENDS AgreementProofs, ValidatorRestart

(* A block was proposed for (height, round).                               *)
Proposed(M, height, round, block) ==
    /\ HeightOf[block] = height
    /\ \E m \in M : m.type = "proposal" /\ m.round = round /\ m.block = block

(* The faulty validators propose in their turn, and one block per turn.    *)
FaultyProposeOnce ==
    \A m, k \in FaultyMsgs :
        m.type = "proposal" /\ k.type = "proposal" =>
            /\ m.proposer = GetProposer(HeightOf[m.block], m.round)
            /\ HeightOf[m.block] = HeightOf[k.block] /\ m.round = k.round
                  => m.block = k.block

(* What machine s remembers was proposed: its proposal in its round, its   *)
(* valid proposal in the round of its lock.                                *)
Remembers(s, M) ==
    /\ s.proposal # None => Proposed(M, s.height, s.round, s.proposal)
    /\ s.valid_block = s.locked_block
    /\ s.valid_proposal # None =>
          /\ s.valid_block # NoLock
          /\ Proposed(M, s.height, s.valid_block.round, s.valid_proposal)

(* The votes s has buffered for rounds after round are too few to skip.    *)
BelowSkip(s, round) ==
    \A k \in Nat : k > round => ~ShouldSkipToRound(s, k)

Sound(s, M) == Remembers(s, M) /\ BelowSkip(s, s.round)

(* The machine will not propose at (height, round) any more.               *)
Done(s, height, round) ==
    \/ Past(s, height, round)
    \/ s.height = height /\ s.round = round /\ ~Early(s)

(* There is one proposal per height and round: its proposer is fixed, and  *)
(* has left the step in which it proposes.                                 *)
OneProposal(C, M) ==
    \A m \in M : m.type = "proposal" =>
        /\ m.proposer = GetProposer(HeightOf[m.block], m.round)
        /\ m.proposer \in Faulty => m \in FaultyMsgs
        /\ m.proposer \in Honest => Done(C[m.proposer], HeightOf[m.block], m.round)
        /\ \A k \in M :
              (/\ k.type = "proposal" /\ k.round = m.round
               /\ HeightOf[k.block] = HeightOf[m.block]) => k.block = m.block

PrevotesProposed(V, M) ==
    \A m \in V : m.type = "prevote" /\ m.voter \in Honest /\ m.hash # Nil
                    => Proposed(M, m.height, m.round, m.hash)

ProposalInv ==
    /\ OneProposal(cs, msgs)
    /\ \A n \in Honest : Sound(cs[n], msgs)
    /\ PrevotesProposed(msgs, msgs)

-----------------------------------------------------------------------------
LEMMA ProposedStays ==
    ASSUME NEW M, NEW N, M \subseteq N, NEW h, NEW r, NEW b,
           Proposed(M, h, r, b)
    PROVE  Proposed(N, h, r, b)
BY DEF Proposed

LEMMA SoundStays ==
    ASSUME NEW s, NEW M, NEW N, M \subseteq N, Sound(s, M)
    PROVE  Sound(s, N)
BY ProposedStays DEF Sound, Remembers

(* Skipping depends only on who has voted in the round.                    *)
LEMMA SkipDepends ==
    ASSUME NEW s, NEW t, NEW k,
           \A v \in Validators :
              /\ HasVoted(s.prevotes, k, v) <=> HasVoted(t.prevotes, k, v)
              /\ HasVoted(s.precommits, k, v) <=> HasVoted(t.precommits, k, v)
    PROVE  ShouldSkipToRound(s, k) <=> ShouldSkipToRound(t, k)
<1>1. {v \in Validators : HasVoted(s.prevotes, k, v) \/ HasVoted(s.precommits, k, v)}
        = {v \in Validators : HasVoted(t.prevotes, k, v) \/ HasVoted(t.precommits, k, v)}
  OBVIOUS
<1> QED
  BY <1>1 DEF ShouldSkipToRound

(* Nobody has voted: a third of the stake is more than nothing.            *)
LEMMA NewMachineSound ==
    ASSUME NEW h \in Nat, NEW M
    PROVE  Sound(NewMachine(h), M)
<1> DEFINE s == NewMachine(h)
<1>1. /\ s.proposal = None /\ s.valid_proposal = None
      /\ s.valid_block = s.locked_block
      /\ s.prevotes = {} /\ s.precommits = {}
  BY DEF NewMachine
<1> HIDE DEF s
<1>2. ASSUME NEW k PROVE ~ShouldSkipToRound(s, k)
  <2>1. {v \in Validators : \/ HasVoted(s.prevotes, k, v)
                            \/ HasVoted(s.precommits, k, v)} = {}
    BY <1>1 DEF HasVoted
  <2>2. StakeOf({}) = 0 /\ total_stake \in Nat
    BY StakeOfAssumption DEF total_stake
  <2>3. ~(0 >= SkipThreshold)
    BY <2>2 DEF SkipThreshold
  <2> QED
    BY <2>1, <2>2, <2>3 DEF ShouldSkipToRound
<1>3. Sound(s, M)
  BY <1>1, <1>2 DEF Sound, Remembers, BelowSkip
<1> QED
  BY <1>3 DEF s

LEMMA StartRoundSound ==
    ASSUME NEW s \in Machine, NEW M, NEW r \in Nat, Remembers(s, M),
           BelowSkip(s, r)
    PROVE  Sound(StartRound(s, r), M)
<1> DEFINE t == StartRound(s, r)
<1>1. /\ t.proposal = None /\ t.round = r /\ t.height = s.height
      /\ t.valid_proposal = s.valid_proposal /\ t.valid_block = s.valid_block
      /\ t.locked_block = s.locked_block
      /\ t.prevotes = {w \in s.prevotes : w.round >= r}
      /\ t.precommits = {w \in s.precommits : w.round >= r}
  BY DEF StartRound, Machine
<1> HIDE DEF t
<1>2. ASSUME NEW k \in Nat, k > r PROVE ~ShouldSkipToRound(t, k)
  <2>1. \A v \in Validators :
           /\ HasVoted(t.prevotes, k, v) <=> HasVoted(s.prevotes, k, v)
           /\ HasVoted(t.precommits, k, v) <=> HasVoted(s.precommits, k, v)
    BY <1>1, <1>2 DEF HasVoted
  <2>2. ShouldSkipToRound(t, k) <=> ShouldSkipToRound(s, k)
    BY <2>1, SkipDepends
  <2> QED
    BY <1>2, <2>2 DEF BelowSkip
<1>3. Sound(t, M)
  BY <1>1, <1>2 DEF Sound, Remembers, BelowSkip
<1> QED
  BY <1>3 DEF t

(* A vote of round r has been buffered.                                    *)
LEMMA MaybeSkipSound ==
    ASSUME NEW s \in Machine, NEW M, NEW r \in Nat, Remembers(s, M),
           r > s.round,
           \A k \in Nat : k > s.round /\ k # r => ~ShouldSkipToRound(s, k)
    PROVE  Sound(MaybeSkip(s, r), M)
<1>0. s.round \in Nat
  BY DEF Machine
<1>1. CASE ShouldSkipToRound(s, r)
  <2>1. BelowSkip(s, r)
    BY <1>0 DEF BelowSkip
  <2> QED
    BY <1>1, <2>1, StartRoundSound DEF MaybeSkip
<1>2. CASE ~ShouldSkipToRound(s, r)
  BY <1>2 DEF MaybeSkip, Sound, BelowSkip
<1> QED
  BY <1>1, <1>2

(* A vote for the current round, or one that is buffered.                  *)
LEMMA CountVoteSound ==
    ASSUME NEW s \in Machine, NEW M, NEW v, v.round \in Nat, v.hash \in Hashes,
           v.voter \in Validators, Sound(s, M), NEW t \in Machine,
           \/ t = [s EXCEPT !.prevotes = @ \cup {AsVote(v)}]
           \/ t = [s EXCEPT !.precommits = @ \cup {AsVote(v)}]
    PROVE  /\ Remembers(t, M)
           /\ \A k \in Nat : k > s.round /\ k # v.round
                                => ~ShouldSkipToRound(t, k)
<1>1. /\ t.height = s.height /\ t.round = s.round /\ t.proposal = s.proposal
      /\ t.valid_proposal = s.valid_proposal /\ t.valid_block = s.valid_block
      /\ t.locked_block = s.locked_block
      /\ t.prevotes \in {s.prevotes, s.prevotes \cup {AsVote(v)}}
      /\ t.precommits \in {s.precommits, s.precommits \cup {AsVote(v)}}
  BY DEF Machine
<1>2. Remembers(t, M)
  BY <1>1 DEF Sound, Remembers
<1>3. ASSUME NEW k \in Nat, k > s.round, k # v.round
      PROVE  ~ShouldSkipToRound(t, k)
  <2>1. AsVote(v).round = v.round
    BY DEF AsVote
  <2>2. \A u \in Validators :
           /\ HasVoted(t.prevotes, k, u) <=> HasVoted(s.prevotes, k, u)
           /\ HasVoted(t.precommits, k, u) <=> HasVoted(s.precommits, k, u)
    BY <1>1, <1>3, <2>1, Zenon DEF HasVoted
  <2>3. ShouldSkipToRound(t, k) <=> ShouldSkipToRound(s, k)
    BY <2>2, SkipDepends
  <2> QED
    BY <1>3, <2>3 DEF Sound, BelowSkip
<1> QED
  BY <1>2, <1>3

(* Only what a machine remembers, its height, its round and its votes      *)
(* matter, not its step.                                                   *)
LEMMA StepSound ==
    ASSUME NEW s \in Machine, NEW M, Sound(s, M), NEW step
    PROVE  Sound([s EXCEPT !.step = step], M)
<1> DEFINE t == [s EXCEPT !.step = step]
<1>1. /\ t.height = s.height /\ t.round = s.round /\ t.proposal = s.proposal
      /\ t.valid_proposal = s.valid_proposal /\ t.valid_block = s.valid_block
      /\ t.locked_block = s.locked_block
      /\ t.prevotes = s.prevotes /\ t.precommits = s.precommits
  BY DEF Machine
<1> HIDE DEF t
<1>2. \A k : ShouldSkipToRound(t, k) <=> ShouldSkipToRound(s, k)
  BY <1>1 DEF ShouldSkipToRound
<1>3. Sound(t, M)
  BY <1>1, <1>2 DEF Sound, Remembers, BelowSkip
<1> QED
  BY <1>3 DEF t

LEMMA OnPrevoteSound ==
    ASSUME NEW s \in Machine, NEW M, NEW v \in VoteMsgs, Sound(s, M)
    PROVE  Sound(OnPrevote(s, v).st, M)
<1> DEFINE t == [s EXCEPT !.prevotes = @ \cup {AsVote(v)}]
           quorum == QuorumHashes(t.prevotes, t.round)
           hash == CHOOSE h \in quorum : TRUE
<1>1. v.round \in Nat /\ v.hash \in Hashes /\ v.voter \in Validators
  BY DEF VoteMsgs
<1>2. t \in Machine /\ t.round = s.round /\ s.round \in Nat
  BY <1>1 DEF Machine, AsVote, Votes
<1>3. /\ Remembers(t, M)
      /\ \A k \in Nat : k > t.round /\ k # v.round => ~ShouldSkipToRound(t, k)
  BY <1>1, <1>2, CountVoteSound, Zenon
<1>4. \/ OnPrevote(s, v).st = s
      \/ v.round > s.round /\ OnPrevote(s, v).st = MaybeSkip(t, v.round)
      \/ ~(v.round > s.round) /\ OnPrevote(s, v).st = t
      \/ /\ ~(v.round > s.round) /\ quorum # {}
         /\ OnPrevote(s, v).st = PrevoteQuorum(t, hash)
  BY DEF OnPrevote, Result
<1>5. quorum # {} => hash \in Hashes
  BY DEF QuorumHashes
<1> HIDE DEF t, quorum, hash
<1>6. v.round > s.round => Sound(MaybeSkip(t, v.round), M)
  BY <1>1, <1>2, <1>3, MaybeSkipSound
<1>7. ~(v.round > s.round) => Sound(t, M)
  BY <1>1, <1>2, <1>3 DEF Sound, BelowSkip
<1>8. ASSUME Sound(t, M), hash \in Hashes PROVE Sound(PrevoteQuorum(t, hash), M)
  <2>1. CASE hash = Nil
    BY <1>2, <1>8, <2>1, StepSound DEF PrevoteQuorum
  <2>2. CASE hash # Nil
    <3> DEFINE lock == [round |-> t.round, hash |-> hash]
               u == PrevoteQuorum(t, hash)
    <3>1. lock.round = t.round /\ lock # NoLock
      BY <1>2, <2>2 DEF NoLock
    <3>2. /\ u.height = t.height /\ u.round = t.round
          /\ u.proposal = t.proposal /\ u.valid_proposal = t.proposal
          /\ u.valid_block = lock /\ u.locked_block = lock
          /\ u.prevotes = t.prevotes /\ u.precommits = t.precommits
      BY <1>2, <2>2 DEF PrevoteQuorum, Machine
    <3> HIDE DEF lock, u
    <3>3. \A k : ShouldSkipToRound(u, k) <=> ShouldSkipToRound(t, k)
      BY <3>2 DEF ShouldSkipToRound
    <3>4. Remembers(u, M)
      BY <1>8, <3>1, <3>2 DEF Sound, Remembers
    <3>5. Sound(u, M)
      BY <1>8, <3>2, <3>3, <3>4 DEF Sound, BelowSkip
    <3> QED
      BY <3>5 DEF u
  <2> QED
    BY <2>1, <2>2
<1> QED
  BY <1>4, <1>5, <1>6, <1>7, <1>8

LEMMA OnPrecommitSound ==
    ASSUME NEW s \in Machine, NEW M, NEW v \in VoteMsgs, Sound(s, M)
    PROVE  Sound(OnPrecommit(s, v).st, M)
<1> DEFINE t == [s EXCEPT !.precommits = @ \cup {AsVote(v)}]
<1>1. v.round \in Nat /\ v.hash \in Hashes /\ v.voter \in Validators
  BY DEF VoteMsgs
<1>2. t \in Machine /\ t.round = s.round /\ s.round \in Nat
  BY <1>1 DEF Machine, AsVote, Votes
<1>3. /\ Remembers(t, M)
      /\ \A k \in Nat : k > t.round /\ k # v.round => ~ShouldSkipToRound(t, k)
  BY <1>1, <1>2, CountVoteSound, Zenon
<1>4. \/ OnPrecommit(s, v).st = s
      \/ v.round > s.round /\ OnPrecommit(s, v).st = MaybeSkip(t, v.round)
      \/ /\ ~(v.round > s.round)
         /\ OnPrecommit(s, v).st \in {t, [t EXCEPT !.step = "Commit"]}
  BY DEF OnPrecommit, Result
<1> HIDE DEF t
<1>5. v.round > s.round => Sound(MaybeSkip(t, v.round), M)
  BY <1>1, <1>2, <1>3, MaybeSkipSound
<1>6. ~(v.round > s.round) => Sound(t, M)
  BY <1>1, <1>2, <1>3 DEF Sound, BelowSkip
<1> QED
  BY <1>2, <1>4, <1>5, <1>6, StepSound

LEMMA OnTimeoutSound ==
    ASSUME NEW s \in Machine, NEW M, Sound(s, M)
    PROVE  Sound(OnTimeout(s).st, M)
<1>1. OnTimeout(s).st \in {s, StartRound(s, s.round + 1),
                           [s EXCEPT !.step = "Prevote"],
                           [s EXCEPT !.step = "Precommit"]}
  BY DEF OnTimeout, Result, Machine, Steps
<1>2. s.round + 1 \in Nat /\ BelowSkip(s, s.round + 1) /\ Remembers(s, M)
  BY DEF Sound, BelowSkip, Machine
<1>3. Sound(StartRound(s, s.round + 1), M)
  BY <1>2, StartRoundSound
<1>4. \A step : Sound([s EXCEPT !.step = step], M)
  BY StepSound
<1> QED
  BY <1>1, <1>3, <1>4

(* The proposal accepted, and the block prevoted, is the one received.     *)
LEMMA OnProposalSound ==
    ASSUME NEW s \in Machine, NEW M, NEW p \in Proposals, Sound(s, M),
           Proposed(M, p.height, p.round, p.block)
    PROVE  LET r == OnProposal(s, p) IN
           /\ Sound(r.st, M) /\ r.st.height = s.height
           /\ r.act.type = "SendPrevote" /\ r.act.hash # Nil =>
                 Proposed(M, r.st.height, r.st.round, r.act.hash)
<1> DEFINE t == IF p.round > s.round THEN StartRound(s, p.round) ELSE s
           u == [t EXCEPT !.proposal = p.block, !.step = "Prevote"]
           r == OnProposal(s, p)
<1>0. p.round \in Nat /\ s.round \in Nat
  BY DEF Proposals, Machine
<1>1. t \in Machine /\ t.height = s.height /\ Sound(t, M)
  <2>1. p.round > s.round => BelowSkip(s, p.round)
    BY <1>0 DEF Sound, BelowSkip
  <2>2. StartRound(s, p.round).height = s.height
    BY DEF StartRound, Machine
  <2> QED
    BY <1>0, <2>1, <2>2, StartRoundType, StartRoundSound, Zenon DEF Sound
<1>2. p.height = s.height /\ ~(p.round < s.round) => t.round = p.round
  BY <1>0 DEF StartRound, Machine
<1>3. \/ r = Result(s, NoAction)
      \/ r = Result(t, NoAction)
      \/ /\ p.height = s.height /\ ~(p.round < s.round)
         /\ \E h \in {p.block, Nil} : r = Result(u, SendPrevote(h))
  BY Zenon DEF OnProposal, AcceptProposal
<1> HIDE DEF t, r
<1>4. ASSUME p.height = s.height, ~(p.round < s.round)
      PROVE  /\ Sound(u, M) /\ u.height = s.height
             /\ Proposed(M, u.height, u.round, p.block)
  <2>1. /\ u.height = t.height /\ u.round = t.round /\ u.proposal = p.block
        /\ u.valid_proposal = t.valid_proposal /\ u.valid_block = t.valid_block
        /\ u.locked_block = t.locked_block
        /\ u.prevotes = t.prevotes /\ u.precommits = t.precommits
    BY <1>1 DEF Machine
  <2>2. Proposed(M, u.height, u.round, p.block) /\ u.height = s.height
    BY <1>1, <1>2, <1>4, <2>1
  <2> HIDE DEF u
  <2>3. \A k : ShouldSkipToRound(u, k) <=> ShouldSkipToRound(t, k)
    BY <2>1 DEF ShouldSkipToRound
  <2>4. Sound(u, M)
    BY <1>1, <2>1, <2>2, <2>3 DEF Sound, Remembers, BelowSkip
  <2> QED
    BY <2>2, <2>4
<1> HIDE DEF u
<1>5. ASSUME NEW x, NEW act
      PROVE  Result(x, act).st = x /\ Result(x, act).act = act
  BY DEF Result
<1>6. /\ NoAction.type = "NoAction"
      /\ \A h : SendPrevote(h).hash = h
  BY DEF NoAction, SendPrevote
<1>7. /\ Sound(r.st, M) /\ r.st.height = s.height
      /\ r.act.type = "SendPrevote" /\ r.act.hash # Nil =>
            Proposed(M, r.st.height, r.st.round, r.act.hash)
  BY <1>1, <1>3, <1>4, <1>5, <1>6
<1> QED
  BY <1>7 DEF r

-----------------------------------------------------------------------------
(* A handler of n that has not committed: the chain is still c, what it    *)
(* sent are votes, and it prevoted what was proposed.                      *)
Open(e, c, M) ==
    /\ Sound(e.st, M)
    /\ \A x \in e.sent : x.type # "proposal"
    /\ PrevotesProposed(e.sent, M)
    /\ e.chain = c /\ e.st.height = Len(c) + 1

(* The block it has appended, if any, was proposed for the height and the  *)
(* round of a commit proof it holds.                                       *)
AppliedProposed(n, e, c, M) ==
    e.chain # c =>
        \E q \in e.proofs : \E b \in Blocks :
            /\ q.node = n /\ q.height = Len(c) + 1 /\ e.chain = Append(c, b)
            /\ Proposed(M, q.height, q.round, b)

Backed(n, e, c, M) ==
    /\ Sound(e.st, M)
    /\ \A x \in e.sent : x.type # "proposal"
    /\ PrevotesProposed(e.sent, M)
    /\ AppliedProposed(n, e, c, M)

LEMMA OpenBacked ==
    ASSUME NEW n, NEW e, NEW c, NEW M, Open(e, c, M)
    PROVE  Backed(n, e, c, M)
BY DEF Open, Backed, AppliedProposed

LEMMA HandleCommitActionBacked ==
    ASSUME NEW n \in Validators, NEW e \in Effects, NEW hash \in Blocks,
           NEW c, NEW M, Open(e, c, M)
    PROVE  Backed(n, HandleCommitAction(n, e, hash), c, M)
<1> DEFINE proof ==
      [node |-> n, height |-> e.st.height, round |-> e.st.round, hash |-> hash,
       voters |-> VotersFor(e.st.precommits, e.st.round, hash)]
           f == [e EXCEPT !.proofs = @ \cup {proof}]
           g == [f EXCEPT !.chain = Append(@, f.st.proposal),
                          !.st = NewMachine(f.st.height + 1)]
<1>1. HandleCommitAction(n, e, hash) = HandleCommit(f)
  BY DEF HandleCommitAction
<1>2. proof.node = n /\ proof.height = e.st.height /\ proof.round = e.st.round
  OBVIOUS
<1> HIDE DEF proof
<1>3. /\ f.st = e.st /\ f.chain = e.chain /\ f.sent = e.sent
      /\ proof \in f.proofs
      /\ DOMAIN f = {"st", "chain", "sent", "proofs"}
  BY DEF Effects
<1> HIDE DEF f
<1>4. CASE HandleCommit(f) = f
  BY <1>1, <1>3, <1>4 DEF Open, Backed, AppliedProposed
<1>5. CASE f.st.proposal # None /\ HandleCommit(f) = g
  <2>1. /\ g.st = NewMachine(e.st.height + 1) /\ g.sent = e.sent
        /\ g.chain = Append(c, e.st.proposal) /\ proof \in g.proofs
    BY <1>3 DEF Open
  <2>2. e.st.proposal \in Blocks /\ e.st.height \in Nat
    BY <1>3, <1>5 DEF Effects, Machine
  <2> HIDE DEF g
  <2>3. Proposed(M, proof.height, proof.round, e.st.proposal)
    BY <1>2, <1>3, <1>5 DEF Open, Sound, Remembers
  <2>4. AppliedProposed(n, g, c, M)
    BY <1>2, <2>1, <2>2, <2>3 DEF AppliedProposed, Open
  <2>5. Sound(g.st, M)
    BY <2>1, <2>2, NewMachineSound
  <2> QED
    BY <1>1, <1>5, <2>1, <2>4, <2>5 DEF Open, Backed
<1> QED
  BY <1>4, <1>5 DEF HandleCommit

LEMMA HandleSendPrecommitBacked ==
    ASSUME NEW n \in Validators, NEW e \in Effects, NEW hash \in Hashes,
           NEW c, NEW M, Open(e, c, M)
    PROVE  Backed(n, HandleSendPrecommit(n, e, hash), c, M)
<1> DEFINE vote == VoteMsg("precommit", n, e.st, hash)
           r == OnPrecommit(e.st, vote)
           f == [e EXCEPT !.st = r.st, !.sent = @ \cup {vote}]
<1>1. e.st \in Machine /\ vote \in VoteMsgs
  BY VoteMsgType DEF Effects
<1>2. HandleSendPrecommit(n, e, hash) =
        IF r.act.type = "CommitBlock"
        THEN HandleCommitAction(n, f, r.act.hash) ELSE f
  BY DEF HandleSendPrecommit
<1>3. vote.type = "precommit"
  BY DEF VoteMsg
<1> HIDE DEF vote
<1>4. /\ r \in Results /\ r.st.height = e.st.height /\ Sound(r.st, M)
      /\ r.act.type = "CommitBlock" => r.act.hash \in Blocks
  <2>1. vote.round \in Nat /\ vote.hash \in Hashes /\ vote.voter \in Validators
    BY <1>1 DEF VoteMsgs
  <2> QED
    BY <1>1, <2>1, OnPrecommitType, OnPrecommitFollows, OnPrecommitSound
    DEF Follows, Open
<1> HIDE DEF r
<1>5. /\ f \in Effects /\ f.st = r.st /\ f.chain = e.chain
      /\ f.sent = e.sent \cup {vote}
  BY <1>1, <1>4, Zenon DEF Effects, Results
<1> HIDE DEF f
<1>6. Open(f, c, M)
  BY <1>3, <1>4, <1>5 DEF Open, PrevotesProposed
<1>7. Backed(n, f, c, M)
  BY <1>6, OpenBacked
<1>8. r.act.type = "CommitBlock" =>
        Backed(n, HandleCommitAction(n, f, r.act.hash), c, M)
  BY <1>4, <1>5, <1>6, HandleCommitActionBacked
<1> QED
  BY <1>2, <1>7, <1>8

LEMMA HandleSendPrevoteBacked ==
    ASSUME NEW n \in Validators, NEW e \in Effects, NEW hash \in Hashes,
           NEW c, NEW M, Open(e, c, M),
           hash # Nil => Proposed(M, e.st.height, e.st.round, hash)
    PROVE  Backed(n, HandleSendPrevote(n, e, hash), c, M)
<1> DEFINE vote == VoteMsg("prevote", n, e.st, hash)
           r == OnPrevote(e.st, vote)
           f == [e EXCEPT !.st = r.st, !.sent = @ \cup {vote}]
<1>1. e.st \in Machine /\ vote \in VoteMsgs
  BY VoteMsgType DEF Effects
<1>2. HandleSendPrevote(n, e, hash) =
        IF r.act.type = "SendPrecommit"
        THEN HandleSendPrecommit(n, f, r.act.hash) ELSE f
  BY DEF HandleSendPrevote
<1>3. /\ vote.type = "prevote" /\ vote.hash = hash
      /\ vote.height = e.st.height /\ vote.round = e.st.round
  BY DEF VoteMsg
<1> HIDE DEF vote
<1>4. r \in Results /\ r.st.height = e.st.height /\ Sound(r.st, M)
  <2>1. vote.round \in Nat /\ vote.hash \in Hashes /\ vote.voter \in Validators
    BY <1>1 DEF VoteMsgs
  <2> QED
    BY <1>1, <2>1, OnPrevoteType, OnPrevoteFollows, OnPrevoteSound
    DEF Follows, Open
<1> HIDE DEF r
<1>5. /\ f \in Effects /\ f.st = r.st /\ f.chain = e.chain
      /\ f.sent = e.sent \cup {vote} /\ r.act.hash \in Hashes
  BY <1>1, <1>4, Zenon DEF Effects, Results, Actions
<1> HIDE DEF f
<1>6. Open(f, c, M)
  BY <1>3, <1>4, <1>5 DEF Open, PrevotesProposed
<1>7. /\ Backed(n, f, c, M)
      /\ Backed(n, HandleSendPrecommit(n, f, r.act.hash), c, M)
  BY <1>5, <1>6, OpenBacked, HandleSendPrecommitBacked
<1> QED
  BY <1>2, <1>7

LEMMA HandleBacked ==
    ASSUME TypeOK, NEW n \in Honest, NEW r \in Results, NEW M, Sound(r.st, M),
           r.st.height = Len(chain[n]) + 1,
           r.act.type = "SendPrevote" /\ r.act.hash # Nil =>
              Proposed(M, r.st.height, r.st.round, r.act.hash),
           r.act.type = "CommitBlock" => r.act.hash \in Blocks
    PROVE  Backed(n, Handle(n, r), chain[n], M)
<1> DEFINE e == [Effect(n) EXCEPT !.st = r.st]
<1>1. /\ e \in Effects /\ e.st = r.st /\ r.act \in Actions
      /\ e.chain = chain[n] /\ e.sent = {}
  BY Zenon DEF Effect, Effects, TypeOK, Results
<1>2. Handle(n, r) = HandleConsensusAction(n, e, r.act) /\ n \in Validators
  BY DEF Handle, Honest
<1> HIDE DEF e
<1>3. Open(e, chain[n], M)
  BY <1>1 DEF Open, PrevotesProposed
<1>4. r.act.hash \in Hashes
  BY <1>1 DEF Actions
<1>5. CASE r.act.type = "SendPrevote"
  BY <1>1, <1>2, <1>3, <1>4, <1>5, HandleSendPrevoteBacked
  DEF HandleConsensusAction
<1>6. CASE r.act.type = "SendPrecommit"
  BY <1>1, <1>2, <1>3, <1>4, <1>6, HandleSendPrecommitBacked
  DEF HandleConsensusAction
<1>7. CASE r.act.type = "CommitBlock"
  BY <1>1, <1>2, <1>3, <1>7, HandleCommitActionBacked
  DEF HandleConsensusAction
<1>8. CASE r.act.type = "NoAction"
  BY <1>2, <1>3, <1>8, OpenBacked DEF HandleConsensusAction
<1> QED
  BY <1>1, <1>5, <1>6, <1>7, <1>8 DEF Actions

-----------------------------------------------------------------------------
LEMMA MovesDone ==
    ASSUME NEW s \in Machine, NEW t \in Machine, NEW h \in Nat, NEW r \in Nat,
           Moves(s, t), Done(s, h, r)
    PROVE  Done(t, h, r)
<1>1. /\ s.height \in Nat /\ t.height \in Nat
      /\ s.round \in Nat /\ t.round \in Nat
  BY DEF Machine
<1> QED
  BY <1>1 DEF Moves, Done, Past

(* The proposals stay the same while machines move on ...                  *)
LEMMA OneProposalStays ==
    ASSUME NEW C \in [Honest -> Machine], NEW D \in [Honest -> Machine],
           NEW M, M \subseteq Messages, NEW N, OneProposal(C, M),
           \A n \in Honest : Moves(C[n], D[n]),
           \A m \in N : m.type = "proposal" => m \in M
    PROVE  OneProposal(D, N)
<1>1. ASSUME NEW m \in M, m.type = "proposal"
      PROVE  HeightOf[m.block] \in Nat /\ m.round \in Nat
  <2>1. m \in ProposalMsgs
    BY <1>1, Zenon DEF Messages, VoteMsgs
  <2> QED
    BY <2>1, BlockHeaderAssumption DEF ProposalMsgs
<1>2. ASSUME NEW m \in N, m.type = "proposal", m.proposer \in Honest
      PROVE  Done(D[m.proposer], HeightOf[m.block], m.round)
  <2>1. m \in M /\ Done(C[m.proposer], HeightOf[m.block], m.round)
    BY <1>2 DEF OneProposal
  <2>2. /\ C[m.proposer] \in Machine /\ D[m.proposer] \in Machine
        /\ Moves(C[m.proposer], D[m.proposer])
    BY <1>2
  <2> QED
    BY <1>1, <1>2, <2>1, <2>2, MovesDone
<1> QED
  BY <1>2, Zenon DEF OneProposal

(* ... or the proposer of the round, who has not proposed in it, does so   *)
(* and leaves the step.                                                    *)
LEMMA OneProposalAdded ==
    ASSUME NEW C \in [Honest -> Machine], NEW D \in [Honest -> Machine],
           NEW M, M \subseteq Messages, NEW N, OneProposal(C, M),
           \A n \in Honest : Moves(C[n], D[n]),
           NEW p \in ProposalMsgs, p.proposer \in Honest,
           \A m \in N : m.type = "proposal" => m \in M \/ m = p,
           CurrentProposer(C[p.proposer]) = p.proposer,
           C[p.proposer].height = HeightOf[p.block],
           C[p.proposer].round = p.round, Early(C[p.proposer]),
           Done(D[p.proposer], HeightOf[p.block], p.round)
    PROVE  OneProposal(D, N)
<1> DEFINE K == N \ {p}
<1>1. OneProposal(D, K)
  BY OneProposalStays
<1>2. p.proposer = GetProposer(HeightOf[p.block], p.round)
  BY DEF CurrentProposer
<1>3. ASSUME NEW k \in N, k.type = "proposal", k.round = p.round,
             HeightOf[k.block] = HeightOf[p.block]
      PROVE  k.block = p.block
  <2>1. SUFFICES ASSUME k # p PROVE FALSE
    OBVIOUS
  <2>2. k \in M /\ k.proposer = p.proposer
    BY <1>2, <1>3, <2>1 DEF OneProposal
  <2>3. Done(C[p.proposer], HeightOf[p.block], p.round)
    BY <1>3, <2>2 DEF OneProposal
  <2>4. C[p.proposer] \in Machine
    OBVIOUS
  <2>5. C[p.proposer].height \in Nat /\ C[p.proposer].round \in Nat
    BY <2>4 DEF Machine
  <2> QED
    BY <2>3, <2>5 DEF Done, Past
<1>4. ASSUME NEW m \in N, m.type = "proposal"
      PROVE  /\ m.proposer = GetProposer(HeightOf[m.block], m.round)
             /\ m.proposer \in Faulty => m \in FaultyMsgs
             /\ m.proposer \in Honest =>
                   Done(D[m.proposer], HeightOf[m.block], m.round)
             /\ \A k \in N :
                   (/\ k.type = "proposal" /\ k.round = m.round
                    /\ HeightOf[k.block] = HeightOf[m.block])
                      => k.block = m.block
  <2>1. CASE m = p
    BY <1>2, <1>3, <2>1 DEF Honest
  <2>2. CASE m # p
    <3>1. m \in K
      BY <2>2
    <3> HIDE DEF K
    <3>2. /\ m.proposer = GetProposer(HeightOf[m.block], m.round)
          /\ m.proposer \in Faulty => m \in FaultyMsgs
          /\ m.proposer \in Honest =>
                Done(D[m.proposer], HeightOf[m.block], m.round)
      BY <1>1, <1>4, <3>1 DEF OneProposal
    <3>3. ASSUME NEW k \in N, k.type = "proposal", k.round = m.round,
                 HeightOf[k.block] = HeightOf[m.block]
          PROVE  k.block = m.block
      <4>1. CASE k = p
        BY <1>3, <1>4, <3>3, <4>1
      <4>2. CASE k # p
        BY <1>1, <1>4, <3>1, <3>3, <4>2 DEF OneProposal, K
      <4> QED
        BY <4>1, <4>2
    <3> QED
      BY <3>2, <3>3
  <2> QED
    BY <2>1, <2>2
<1> QED
  BY <1>4 DEF OneProposal

LEMMA SameProposal ==
    ASSUME NEW C, NEW M, OneProposal(C, M), NEW h, NEW r, NEW b, NEW d,
           Proposed(M, h, r, b), Proposed(M, h, r, d)
    PROVE  b = d
BY DEF Proposed, OneProposal

(* A prevote quorum for a block contains an honest prevote, so the block   *)
(* was proposed in that round ...                                          *)
LEMMA QuorumProposed ==
    ASSUME NEW M, PrevotesProposed(M, M), NEW h, NEW r, NEW b \in Blocks,
           HasPrevoteQuorum(M, h, r, b)
    PROVE  Proposed(M, h, r, b)
<1>1. PrevotersIn(M, h, r, b) \in SUBSET Validators
  BY DEF PrevotersIn
<1>2. PICK v \in PrevotersIn(M, h, r, b) : v \in Honest
  BY <1>1, QuorumHonest DEF HasPrevoteQuorum
<1> DEFINE k == VoteAt("prevote", h, r, b, v)
<1>3. /\ k \in M /\ k.type = "prevote" /\ k.voter = v
      /\ k.height = h /\ k.round = r /\ k.hash = b
  BY <1>2 DEF PrevotersIn, VoteAt
<1> HIDE DEF k
<1> QED
  BY <1>2, <1>3, BlocksAssumption DEF PrevotesProposed

(* ... and so was a block that has a commit proof.                         *)
LEMMA ProofProposed ==
    ASSUME NEW C, NEW M, NEW P, \A n \in Honest : NodeInv(n, C[n], M),
           PrevotesProposed(M, M), ProofsCertified(P, M),
           NEW q \in P, q \in CommitProofs
    PROVE  Proposed(M, q.height, q.round, q.hash)
<1>1. q.voters \in SUBSET Validators /\ q.hash \in Blocks
  BY DEF CommitProofs
<1>2. PICK v \in q.voters : v \in Honest
  BY <1>1, QuorumHonest DEF ProofsCertified
<1> DEFINE k == VoteAt("precommit", q.height, q.round, q.hash, v)
<1>3. /\ k \in M /\ k.type = "precommit" /\ k.voter = v
      /\ k.height = q.height /\ k.round = q.round /\ k.hash = q.hash
  BY <1>2 DEF ProofsCertified, VoteAt
<1> HIDE DEF k
<1>4. k \in PrecommitsBy(v, M)
  BY <1>1, <1>3, BlocksAssumption DEF PrecommitsBy, VotesBy
<1>5. HasPrevoteQuorum(M, q.height, q.round, q.hash)
  BY <1>2, <1>3, <1>4 DEF NodeInv, PrecommitsSupported
<1> QED
  BY <1>1, <1>5, QuorumProposed

-----------------------------------------------------------------------------
(* The inductive invariant of the theorems below.                          *)
AppliedInv == FitsInv /\ AgreementInv /\ ProposalInv /\ AppliedIsCertified

(* What a handler that is Backed makes of the invariant.                   *)
LEMMA BackedApply ==
    ASSUME AppliedInv, TypeOK', AgreementInv', OneProposal(cs', msgs'),
           NEW n \in Honest, NEW e, NEW M, Backed(n, e, chain[n], M),
           M \subseteq msgs', msgs \subseteq msgs',
           cs' = [cs EXCEPT ![n] = e.st], chain' = [chain EXCEPT ![n] = e.chain],
           proofs' = proofs \cup e.proofs,
           \A x \in msgs' : x.type = "prevote" => x \in msgs \cup e.sent
    PROVE  ProposalInv' /\ AppliedIsCertified'
<1>0. TypeOK /\ ProposalInv /\ AppliedIsCertified
  BY DEF AppliedInv, FitsInv
<1>1. \A m \in Honest : /\ cs'[m] = IF m = n THEN e.st ELSE cs[m]
                        /\ chain'[m] = IF m = n THEN e.chain ELSE chain[m]
  BY <1>0 DEF TypeOK
<1>2. ASSUME NEW m \in Honest PROVE Sound(cs'[m], msgs')
  <2>1. Sound(e.st, msgs') /\ Sound(cs[m], msgs')
    BY <1>0, SoundStays DEF Backed, ProposalInv
  <2> QED
    BY <1>1, <2>1
<1>3. PrevotesProposed(msgs', msgs')
  <2>1. ASSUME NEW x \in msgs', x.type = "prevote", x.voter \in Honest,
               x.hash # Nil
        PROVE  Proposed(msgs', x.height, x.round, x.hash)
    <3>1. CASE x \in msgs
      BY <1>0, <2>1, <3>1, ProposedStays DEF ProposalInv, PrevotesProposed
    <3>2. CASE x \in e.sent
      BY <2>1, <3>2, ProposedStays DEF Backed, PrevotesProposed
    <3> QED
      BY <2>1, <3>1, <3>2
  <2> QED
    BY <2>1 DEF PrevotesProposed
<1>4. ASSUME NEW m \in Honest, NEW h \in DOMAIN chain'[m]
      PROVE  \E p \in proofs' : /\ p.node = m /\ p.height = h
                                /\ p.hash = chain'[m][h]
  <2>0. chain[n] \in Seq(Blocks)
    BY <1>0 DEF TypeOK
  <2>1. CASE chain'[m] = chain[m]
    BY <1>0, <1>4, <2>1 DEF AppliedIsCertified
  <2>2. CASE chain'[m] # chain[m]
    <3>1. m = n /\ e.chain # chain[n] /\ chain'[m] = e.chain
      BY <1>1, <2>2
    <3>2. PICK q \in e.proofs, b \in Blocks :
            /\ q.node = n /\ q.height = Len(chain[n]) + 1
            /\ e.chain = Append(chain[n], b)
            /\ Proposed(M, q.height, q.round, b)
      BY <3>1 DEF Backed, AppliedProposed
    <3>3. CASE h \in DOMAIN chain[n]
      <4>1. e.chain[h] = chain[n][h]
        BY <2>0, <3>2, <3>3
      <4> QED
        BY <1>0, <3>1, <3>3, <4>1 DEF AppliedIsCertified
    <3>4. CASE h \notin DOMAIN chain[n]
      <4>1. h = Len(chain[n]) + 1 /\ e.chain[h] = b
        BY <1>4, <2>0, <3>1, <3>2, <3>4
      <4>2. q \in proofs' /\ q \in CommitProofs
        BY DEF TypeOK
      <4>3. Proposed(msgs', q.height, q.round, q.hash)
        BY <1>3, <4>2, ProofProposed, Zenon DEF AgreementInv
      <4>4. Proposed(msgs', q.height, q.round, b)
        BY <3>2, ProposedStays
      <4>5. q.hash = b
        BY <4>3, <4>4, SameProposal
      <4> QED
        BY <3>1, <3>2, <4>1, <4>2, <4>5
    <3> QED
      BY <3>3, <3>4
  <2> QED
    BY <2>1, <2>2
<1>5. ProposalInv'
  BY <1>2, <1>3 DEF ProposalInv
<1>6. AppliedIsCertified'
  BY <1>4 DEF AppliedIsCertified
<1> QED
  BY <1>5, <1>6

(* A handler that broadcasts votes only.                                   *)
LEMMA VotesApply ==
    ASSUME AppliedInv, TypeOK', AgreementInv',
           \A m \in Honest : Moves(cs[m], cs'[m]),
           NEW n \in Honest, NEW e, Backed(n, e, chain[n], msgs), Apply(n, e)
    PROVE  ProposalInv' /\ AppliedIsCertified'
<1>1. /\ cs' = [cs EXCEPT ![n] = e.st] /\ chain' = [chain EXCEPT ![n] = e.chain]
      /\ msgs' = msgs \cup e.sent /\ proofs' = proofs \cup e.proofs
  BY DEF Apply
<1>2. /\ cs \in [Honest -> Machine] /\ cs' \in [Honest -> Machine]
      /\ msgs \subseteq Messages /\ OneProposal(cs, msgs)
  BY DEF AppliedInv, FitsInv, TypeOK, ProposalInv, Messages
<1>3. \A m \in msgs' : m.type = "proposal" => m \in msgs
  BY <1>1 DEF Backed
<1>4. OneProposal(cs', msgs')
  BY <1>2, <1>3, OneProposalStays
<1> QED
  BY <1>1, <1>4, BackedApply, Zenon

LEMMA IdleBacked ==
    ASSUME AppliedInv, NEW n \in Honest
    PROVE  Backed(n, Effect(n), chain[n], msgs)
<1>1. /\ Effect(n).st = cs[n] /\ Effect(n).chain = chain[n]
      /\ Effect(n).sent = {}
  BY DEF Effect
<1>2. Sound(cs[n], msgs)
  BY DEF AppliedInv, ProposalInv
<1> QED
  BY <1>1, <1>2 DEF Backed, PrevotesProposed, AppliedProposed

(* A proposal, from the network or our own: M is the messages with it.     *)
LEMMA ProposalBacked ==
    ASSUME AppliedInv, NEW n \in Honest, NEW p \in ProposalMsgs,
           NEW M, msgs \subseteq M, p \in M
    PROVE  LET r == OnProposal(cs[n], AsProposal(p)) IN
           /\ r \in Results /\ r.act.type # "CommitBlock"
           /\ Backed(n, Handle(n, r), chain[n], M)
<1> DEFINE r == OnProposal(cs[n], AsProposal(p))
<1>0. /\ TypeOK /\ cs[n] \in Machine /\ Sound(cs[n], M)
      /\ cs[n].height = Len(chain[n]) + 1
  BY SoundStays DEF AppliedInv, FitsInv, Fits, ProposalInv, TypeOK
<1>1. AsProposal(p) \in Proposals
  BY AsProposalType
<1>2. Proposed(M, AsProposal(p).height, AsProposal(p).round, AsProposal(p).block)
  BY DEF AsProposal, Proposed, ProposalMsgs
<1>3. /\ r \in Results /\ r.act.type # "CommitBlock"
      /\ Sound(r.st, M) /\ r.st.height = cs[n].height
      /\ r.act.type = "SendPrevote" /\ r.act.hash # Nil =>
            Proposed(M, r.st.height, r.st.round, r.act.hash)
  <2>1. r \in Results /\ r.act.type # "CommitBlock"
    BY <1>0, <1>1, OnProposalType, CommitsOnlyOnPrecommit
  <2>2. /\ Sound(r.st, M) /\ r.st.height = cs[n].height
        /\ r.act.type = "SendPrevote" /\ r.act.hash # Nil =>
              Proposed(M, r.st.height, r.st.round, r.act.hash)
    BY <1>0, <1>1, <1>2, OnProposalSound
  <2> QED
    BY <2>1, <2>2
<1> HIDE DEF r
<1>4. Backed(n, Handle(n, r), chain[n], M)
  BY <1>0, <1>3, HandleBacked
<1> QED
  BY <1>3, <1>4 DEF r

(* The proposer accepts its own proposal, and does not propose again.      *)
LEMMA OwnProposalDone ==
    ASSUME NEW s \in Machine, NEW p \in Proposals, p.proposer = CurrentProposer(s),
           p.height = s.height, p.round = s.round
    PROVE  Done(OnProposal(s, p).st, s.height, s.round)
<1>0. s.height \in Nat /\ s.round \in Nat /\ p.proposer \in Validators
  BY DEF Machine, Proposals
<1>1. OnProposal(s, p) = AcceptProposal(s, p)
  BY <1>0 DEF OnProposal
<1>2. OnProposal(s, p).st = [s EXCEPT !.proposal = p.block, !.step = "Prevote"]
  BY <1>0, <1>1 DEF AcceptProposal, Result
<1>3. /\ OnProposal(s, p).st.height = s.height
      /\ OnProposal(s, p).st.round = s.round
      /\ OnProposal(s, p).st.step = "Prevote"
  BY <1>2 DEF Machine
<1> QED
  BY <1>3 DEF Done, Early

LEMMA ProposeApplied ==
    ASSUME AppliedInv, TypeOK', AgreementInv',
           \A m \in Honest : Moves(cs[m], cs'[m]), NEW n \in Honest, Propose(n)
    PROVE  ProposalInv' /\ AppliedIsCertified'
<1>0. /\ TypeOK /\ cs[n] \in Machine /\ Fits(cs[n], chain[n])
      /\ cs \in [Honest -> Machine] /\ cs' \in [Honest -> Machine]
      /\ msgs \subseteq Messages /\ OneProposal(cs, msgs)
  BY DEF AppliedInv, FitsInv, TypeOK, ProposalInv, Messages
<1>1. PICK b \in ProposableBlocks(n) :
        LET p == ProposalMsg(n, cs[n], b)
            e == Handle(n, OnProposal(cs[n], AsProposal(p)))
        IN  MustPropose(n) /\ Apply(n, [e EXCEPT !.sent = @ \cup {p}])
  BY Zenon DEF Propose
<1> DEFINE p == ProposalMsg(n, cs[n], b)
           r == OnProposal(cs[n], AsProposal(p))
           e == Handle(n, r)
           f == [e EXCEPT !.sent = @ \cup {p}]
<1>2. b \in Blocks /\ HeightOf[b] = cs[n].height
  BY <1>0 DEF Machine, ProposableBlocks, Fits, ValidBlock
<1>3. /\ p \in ProposalMsgs /\ p.block = b /\ p.proposer = n
      /\ p.round = cs[n].round /\ p.type = "proposal"
  BY <1>0, <1>2 DEF ProposalMsg, ProposalMsgs, Machine, Honest
<1>4. Apply(n, f) /\ MustPropose(n)
  BY <1>1
<1> HIDE DEF p
<1>5. /\ AsProposal(p) \in Proposals /\ AsProposal(p).height = cs[n].height
      /\ AsProposal(p).round = cs[n].round /\ AsProposal(p).proposer = n
  BY <1>2, <1>3, AsProposalType, Zenon DEF AsProposal
<1>6. Done(r.st, cs[n].height, cs[n].round)
  BY <1>0, <1>4, <1>5, OwnProposalDone DEF MustPropose
<1>7. /\ r \in Results /\ r.act.type # "CommitBlock"
      /\ Backed(n, e, chain[n], msgs \cup {p})
  <2>1. msgs \subseteq msgs \cup {p} /\ p \in msgs \cup {p} /\ p \in ProposalMsgs
    BY <1>3
  <2> QED
    BY <2>1, ProposalBacked, Zenon
<1> HIDE DEF r
<1>8. e \in Effects /\ Moves(r.st, e.st)
  BY <1>0, <1>7, HandleType, HandleMoves
<1> HIDE DEF e
<1>9. /\ f.st = e.st /\ f.chain = e.chain /\ f.proofs = e.proofs
      /\ f.sent = e.sent \cup {p}
  BY <1>8 DEF Effects
<1>10. Done(e.st, cs[n].height, cs[n].round)
  BY <1>0, <1>6, <1>7, <1>8, MovesDone, Zenon DEF Results, Effects, Machine
<1> HIDE DEF f
<1>11. /\ cs' = [cs EXCEPT ![n] = e.st] /\ chain' = [chain EXCEPT ![n] = e.chain]
       /\ msgs' = msgs \cup e.sent \cup {p} /\ proofs' = proofs \cup e.proofs
  BY <1>4, <1>9 DEF Apply
<1>12. cs'[n] = e.st
  BY <1>0, <1>11
<1>13. \A m \in msgs' : m.type = "proposal" => m \in msgs \/ m = p
  BY <1>7, <1>11 DEF Backed
<1>14. OneProposal(cs', msgs')
  <2>1. /\ CurrentProposer(cs[p.proposer]) = p.proposer
        /\ cs[p.proposer].height = HeightOf[p.block]
        /\ cs[p.proposer].round = p.round /\ Early(cs[p.proposer])
        /\ Done(cs'[p.proposer], HeightOf[p.block], p.round)
        /\ p.proposer \in Honest
    BY <1>2, <1>3, <1>4, <1>10, <1>12 DEF MustPropose, Early
  <2> QED
    BY <1>0, <1>3, <1>13, <2>1, OneProposalAdded
<1>15. \A x \in msgs' : x.type = "prevote" => x \in msgs \cup e.sent
  BY <1>3, <1>11
<1> QED
  BY <1>7, <1>11, <1>14, <1>15, BackedApply, Zenon

LEMMA TickApplied ==
    ASSUME AppliedInv, TypeOK', AgreementInv',
           \A m \in Honest : Moves(cs[m], cs'[m]),
           NEW n \in Honest, OnBlockTimer(n)
    PROVE  ProposalInv' /\ AppliedIsCertified'
<1>1. CASE Propose(n)
  BY <1>1, ProposeApplied
<1>2. CASE AwaitProposal(n)
  <2> DEFINE s == IF cs[n].step = "NewRound"
                  THEN [cs[n] EXCEPT !.step = "Propose"] ELSE cs[n]
             e == [Effect(n) EXCEPT !.st = s]
  <2>1. Sound(s, msgs)
    <3>1. Sound(cs[n], msgs) /\ cs[n] \in Machine
      BY DEF AppliedInv, ProposalInv, FitsInv, TypeOK
    <3> QED
      BY <3>1, StepSound
  <2>2. Apply(n, e)
    BY <1>2 DEF AwaitProposal
  <2> HIDE DEF s
  <2>3. e.st = s /\ e.chain = chain[n] /\ e.sent = {}
    BY DEF Effect
  <2> HIDE DEF e
  <2>4. Backed(n, e, chain[n], msgs)
    BY <2>1, <2>3 DEF Backed, PrevotesProposed, AppliedProposed
  <2> QED
    BY <2>2, <2>4, VotesApply
<1>3. CASE ProposalFails(n)
  BY <1>3, IdleBacked, VotesApply DEF ProposalFails
<1> QED
  BY <1>1, <1>2, <1>3 DEF OnBlockTimer

LEMMA AppliedStep == AppliedInv /\ [Next]_vars => AppliedInv'
<1> SUFFICES ASSUME AppliedInv, [Next]_vars
             PROVE  ProposalInv' /\ AppliedIsCertified' /\ FitsInv' /\ AgreementInv'
  BY DEF AppliedInv
<1>0. /\ FitsInv /\ TypeOK /\ AgreementInv
      /\ \A n \in Honest : /\ cs[n] \in Machine /\ Sound(cs[n], msgs)
                           /\ cs[n].height = Len(chain[n]) + 1
  BY DEF AppliedInv, FitsInv, Fits, TypeOK, ProposalInv
<1>1. TypeOK' /\ AgreementInv' /\ FitsInv'
  BY <1>0, TypeStep, AgreementStep, LoopKeeps DEF FitsInv, StepKeeps
<1>2. \A m \in Honest : Moves(cs[m], cs'[m])
  BY <1>0, MovesStep
<1> DEFINE Goal == ProposalInv' /\ AppliedIsCertified'
<1>3. ASSUME NEW n \in Honest, NEW r \in Results, Sound(r.st, msgs),
             Follows(cs[n], r.st), Apply(n, Handle(n, r)),
             r.act.type = "SendPrevote" => r.act.hash = Nil,
             r.act.type = "CommitBlock" => r.act.hash \in Blocks
      PROVE  Goal
  <2>1. Backed(n, Handle(n, r), chain[n], msgs)
    BY <1>0, <1>3, HandleBacked DEF Follows
  <2> QED
    BY <1>1, <1>2, <1>3, <2>1, VotesApply
<1>4. ASSUME NEW n \in Honest, Start(n) \/ BlockTimer(n) PROVE Goal
  BY <1>1, <1>2, <1>4, TickApplied DEF Start, BlockTimer
<1>5. ASSUME NEW n \in Honest, ConsensusTimeout(n) PROVE Goal
  <2> DEFINE r == OnTimeout(cs[n])
  <2>1. /\ r \in Results /\ r.act.type # "CommitBlock" /\ Follows(cs[n], r.st)
        /\ Sound(r.st, msgs)
    BY <1>0, OnTimeoutType, CommitsOnlyOnPrecommit, OnTimeoutFollows,
       OnTimeoutSound
  <2>2. r.act.type = "SendPrevote" => r.act.hash = Nil
    BY <1>0 DEF OnTimeout, Result, SendPrevote, SendPrecommit, NoAction,
                Machine, Steps
  <2>3. Apply(n, Handle(n, r))
    BY <1>5 DEF ConsensusTimeout
  <2> HIDE DEF r, Goal
  <2> QED
    BY <1>3, <2>1, <2>2, <2>3
<1>6. ASSUME NEW n \in Honest, NEW m \in msgs, BlockReceived(n, m) PROVE Goal
  <2>1. m \in ProposalMsgs
    BY <1>0, <1>6, Zenon DEF BlockReceived, TypeOK, VoteMsgs
  <2>2. Backed(n, Handle(n, OnProposal(cs[n], AsProposal(m))), chain[n], msgs)
    BY <2>1, ProposalBacked
  <2>3. \/ Apply(n, Handle(n, OnProposal(cs[n], AsProposal(m))))
        \/ Apply(n, Effect(n))
    BY <1>6 DEF BlockReceived
  <2> QED
    BY <1>1, <1>2, <2>2, <2>3, IdleBacked, VotesApply
<1>7. ASSUME NEW n \in Honest, NEW m \in msgs, ConsensusMessageReceived(n, m)
      PROVE  Goal
  <2> DEFINE r == IF m.type = "prevote" THEN OnPrevote(cs[n], m)
                                        ELSE OnPrecommit(cs[n], m)
  <2>1. m \in VoteMsgs
    BY <1>0, <1>7 DEF ConsensusMessageReceived, TypeOK, ProposalMsgs
  <2>2. m.round \in Nat /\ m.hash \in Hashes /\ m.voter \in Validators
    BY <2>1 DEF VoteMsgs
  <2>3. /\ r \in Results /\ Follows(cs[n], r.st)
        /\ r.act.type = "CommitBlock" => r.act.hash \in Blocks
    BY <1>0, <2>2, OnPrevoteType, OnPrecommitType, CommitsOnlyOnPrecommit,
       OnPrevoteFollows, OnPrecommitFollows, Zenon
  <2>4. Sound(r.st, msgs)
    BY <1>0, <2>1, OnPrevoteSound, OnPrecommitSound
  <2>5. r.act.type # "SendPrevote"
    BY DEF OnPrevote, OnPrecommit, Result, NoAction, SendPrecommit, CommitBlock
  <2>6. Apply(n, Handle(n, r))
    BY <1>7 DEF ConsensusMessageReceived
  <2> HIDE DEF r, Goal
  <2> QED
    BY <1>3, <2>3, <2>4, <2>5, <2>6
<1>8. CASE UNCHANGED vars
  <2>1. cs' = cs /\ msgs' = msgs /\ chain' = chain /\ proofs' = proofs
    BY <1>8 DEF vars
  <2>2. ProposalInv /\ AppliedIsCertified
    BY DEF AppliedInv
  <2>3. ProposalInv'
    BY <2>1, <2>2 DEF ProposalInv
  <2>4. AppliedIsCertified'
    BY <2>1, <2>2 DEF AppliedIsCertified
  <2> QED
    BY <1>1, <2>3, <2>4
<1>9. CASE Finished
  BY <1>8, <1>9 DEF Finished
<1> QED
  BY <1>1, <1>4, <1>5, <1>6, <1>7, <1>8, <1>9, Zenon DEF Next

LEMMA FreshFits == Fits(NewMachine(1), << >>)
<1>1. /\ NewMachine(1).height = 1 /\ NewMachine(1).proposal = None
      /\ NewMachine(1).valid_proposal = None
  BY DEF NewMachine
<1> QED
  BY <1>1 DEF Fits

LEMMA AppliedInit == FaultyProposeOnce /\ Init => AppliedInv
<1> SUFFICES ASSUME FaultyProposeOnce, Init PROVE AppliedInv
  OBVIOUS
<1>1. /\ \A n \in Honest : cs[n] = NewMachine(1) /\ chain[n] = << >>
      /\ msgs = FaultyMsgs
  BY DEF Init
<1>2. FitsInv
  BY <1>1, FreshFits, TypeInit DEF FitsInv
<1>3. \A m \in FaultyMsgs : IF m.type = "proposal" THEN m.proposer \in Faulty
                                                   ELSE m.voter \in Faulty
  BY FaultyMsgsAssumption
<1>4. OneProposal(cs, msgs)
  BY <1>1, <1>3 DEF OneProposal, FaultyProposeOnce, Honest
<1>5. PrevotesProposed(msgs, msgs)
  BY <1>1, <1>3 DEF PrevotesProposed, Honest
<1>6. ProposalInv
  BY <1>1, <1>4, <1>5, NewMachineSound DEF ProposalInv
<1>7. AppliedIsCertified
  <2>1. \A n \in Honest : DOMAIN chain[n] = {}
    BY <1>1
  <2> QED
    BY <2>1 DEF AppliedIsCertified
<1> QED
  BY <1>2, <1>6, <1>7, AgreementInit DEF AppliedInv

(* The block handle_commit applies is the block its commit proof names,    *)
(* whenever the proposers among the faulty validators do not equivocate;   *)
(* their votes may be anything.                                            *)
THEOREM AppliedCertified == FaultyProposeOnce /\ Spec => []AppliedIsCertified
<1>1. AppliedInv => AppliedIsCertified
  BY DEF AppliedInv
<1> QED
  BY <1>1, AppliedInit, AppliedStep, PTL DEF Spec

(* Every two validators have applied the same block at every height both   *)
(* have reached.                                                           *)
ChainsAgree ==
    \A m, n \in Honest : \A h \in DOMAIN chain[m] \cap DOMAIN chain[n] :
        chain[m][h] = chain[n][h]

(* Under the same condition the applied chains, and not only the commit    *)
(* proofs, of all validators that follow the code agree.                   *)
THEOREM AppliedChainsAgree == FaultyProposeOnce /\ Spec => []ChainsAgree
<1>1. AppliedIsCertified /\ CertifiedAgreement => ChainsAgree
  BY DEF AppliedIsCertified, CertifiedAgreement, ChainsAgree
<1> QED
  BY <1>1, AppliedCertified, Agreement, PTL

(* Under the same condition the proposal a locked validator proposes again *)
(* is the one its valid block names; and on every path through the         *)
(* handlers the votes buffered for later rounds stay below the third that  *)
(* would have made the validator skip.                                     *)
THEOREM RecordsAgree == FaultyProposeOnce /\ Spec => []RoundRecordsAgree
<1>1. AppliedInv => RoundRecordsAgree
  <2> SUFFICES ASSUME AppliedInv, NEW n \in Honest
               PROVE  /\ cs[n].valid_proposal \in {None, cs[n].valid_block.hash}
                      /\ \A r \in Rounds : r > cs[n].round
                            => ~ShouldSkipToRound(cs[n], r)
    BY DEF RoundRecordsAgree, ValidProposalMatchesValidBlock,
           BufferedVotesBelowSkip
  <2>1. /\ Sound(cs[n], msgs) /\ LockSupported(cs[n], msgs)
        /\ OneProposal(cs, msgs) /\ PrevotesProposed(msgs, msgs)
        /\ cs[n] \in Machine
    BY DEF AppliedInv, ProposalInv, AgreementInv, NodeInv, FitsInv, TypeOK
  <2>2. Rounds \subseteq Nat
    BY BoundsAssumption DEF Rounds
  <2>3. ASSUME cs[n].valid_proposal # None
        PROVE  cs[n].valid_proposal = cs[n].valid_block.hash
    <3> DEFINE s == cs[n]
               lock == s.locked_block
    <3>1. /\ lock # NoLock /\ s.valid_block = lock
          /\ Proposed(msgs, s.height, lock.round, s.valid_proposal)
      BY <2>1, <2>3 DEF Sound, Remembers
    <3>2. HasPrevoteQuorum(msgs, s.height, lock.round, lock.hash)
      BY <2>1, <3>1 DEF LockSupported
    <3>3. lock.hash \in Blocks
      BY <2>1, <3>1 DEF Machine, Locks
    <3>4. Proposed(msgs, s.height, lock.round, lock.hash)
      BY <2>1, <3>2, <3>3, QuorumProposed
    <3> QED
      BY <2>1, <3>1, <3>4, SameProposal
  <2> QED
    BY <2>1, <2>2, <2>3, Zenon DEF Sound, BelowSkip
<1> QED
  BY <1>1, AppliedInit, AppliedStep, PTL DEF Spec

-----------------------------------------------------------------------------
(* Proofs of HeightFollowsChain and ChainOnlyGrows, from FitsInv.          *)

(* A crash keeps the chain, and the new machine decides the next height.   *)
LEMMA CrashKeeps ==
    ASSUME FitsInv, NEW n \in Honest, Crash(n)
    PROVE  TypeOK' /\ StepKeeps
<1>1. /\ Len(chain[n]) + 1 \in Nat
      /\ \A m \in Honest : chain[m] \in Seq(Blocks)
  BY DEF FitsInv, TypeOK
<1>2. NewMachine(Len(chain[n]) + 1) \in Machine
  BY <1>1, NewMachineType
<1>3. Fits(NewMachine(Len(chain[n]) + 1), chain[n])
  BY DEF Fits, NewMachine
<1>4. TypeOK'
  BY <1>2, Zenon DEF Crash, FitsInv, TypeOK
<1>5. \A m \in Honest : /\ Fits(cs'[m], chain[m])
                        /\ chain' = chain
  BY <1>3 DEF Crash, FitsInv, TypeOK
<1> QED
  BY <1>1, <1>4, <1>5, GrowsReflexive DEF StepKeeps

LEMMA RestartStep == FitsInv /\ [RNext]_rvars => FitsInv' /\ StepKeeps
<1> SUFFICES ASSUME FitsInv, [RNext]_rvars PROVE TypeOK' /\ StepKeeps
  BY DEF FitsInv, StepKeeps
<1>1. CASE [Next]_vars
  BY <1>1, LoopKeeps, TypeStep DEF FitsInv
<1>2. ASSUME NEW n \in Restarting, Crash(n) PROVE TypeOK' /\ StepKeeps
  BY <1>2, CrashKeeps, RestartingAssumption
<1> QED
  BY <1>1, <1>2 DEF RNext, rvars

LEMMA RestartInit == RInit => FitsInv
<1> SUFFICES ASSUME RInit PROVE FitsInv
  OBVIOUS
<1>1. TypeOK
  BY TypeInit DEF RInit
<1>2. \A n \in Honest : cs[n] = NewMachine(1) /\ chain[n] = << >>
  BY DEF RInit, Init
<1> QED
  BY <1>1, <1>2, FreshFits DEF FitsInv

(* However validators restart and whatever the faulty ones say, every      *)
(* machine decides the height after its chain, and handle_commit never     *)
(* meets a stored proposal that light validation refuses.                  *)
THEOREM HeightsFollow == RSpec => []HeightFollowsChain
<1>1. FitsInv => HeightFollowsChain
  BY DEF FitsInv, Fits, HeightFollowsChain
<1> QED
  BY <1>1, RestartInit, RestartStep, PTL DEF RSpec

(* No step of the loop and no restart replaces or drops an applied block.  *)
THEOREM AppliedStays == RSpec => ChainOnlyGrows
<1>1. FitsInv /\ [RNext]_rvars =>
        [\A n \in Honest : /\ Len(chain'[n]) >= Len(chain[n])
                           /\ \A h \in DOMAIN chain[n] :
                                 chain'[n][h] = chain[n][h]]_rvars
  BY RestartStep DEF StepKeeps, Grows
<1> QED
  BY <1>1, RestartInit, RestartStep, PTL DEF RSpec, ChainOnlyGrows
=============================================================================
