-------------------------- MODULE AgreementProofs ---------------------------
(***************************************************************************)
(* AgreementInv is inductive, and implies CertifiedAgreement.  First the   *)
(* handlers of the machine and of the loop, which chain the stages of      *)
(* AgreementInvariant, then the actions.                                   *)
(***************************************************************************)
EXTENDS AgreementInvariant

(* The handlers of the consensus state machine and of the loop, followed   *)
(* stage by stage: each leaves StageInv and asks only for votes that the   *)
(* invariant allows.                                                       *)

(* What the machine guarantees of a vote it asks for.                      *)
PrevoteAllowed(s, hash) == hash # Nil => s.locked_block.hash \in {Nil, hash}

PrecommitAllowed(s, hash) ==
    hash # Nil => /\ s.locked_block.round = s.round
                  /\ s.locked_block.hash = hash
                  /\ IsQuorum(VotersFor(s.prevotes, s.round, hash))

LEMMA StartRoundStage ==
    ASSUME NEW C \in [Honest -> Machine], NEW n \in Honest, NEW M, NEW s,
           StageInv(C, n, s, M), NEW r \in Nat, r > s.round
    PROVE  StageInv(C, n, StartRound(s, r), M)
<1> DEFINE t == StartRound(s, r)
<1>1. s \in Machine
  BY DEF StageInv
<1>2. t \in Machine
  BY <1>1, StartRoundType
<1>3. /\ t.height = s.height /\ t.round = r /\ t.locked_block = s.locked_block
      /\ t.prevotes \subseteq s.prevotes /\ t.precommits \subseteq s.precommits
  BY <1>1 DEF StartRound, Machine
<1>4. s.round \in Nat
  BY <1>1 DEF Machine
<1> HIDE DEF t
<1>5. StageInv(C, n, t, M)
  BY <1>2, <1>3, <1>4, MachineMoves
<1> QED
  BY <1>5 DEF t

LEMMA MaybeSkipStage ==
    ASSUME NEW C \in [Honest -> Machine], NEW n \in Honest, NEW M, NEW s,
           StageInv(C, n, s, M), NEW r \in Nat, r > s.round
    PROVE  StageInv(C, n, MaybeSkip(s, r), M)
BY StartRoundStage DEF MaybeSkip

LEMMA OnProposalStage ==
    ASSUME NEW C \in [Honest -> Machine], NEW n \in Honest, NEW M, NEW s,
           StageInv(C, n, s, M), NEW p \in Proposals
    PROVE  LET r == OnProposal(s, p) IN
           /\ StageInv(C, n, r.st, M)
           /\ r.act.type \in {"NoAction", "SendPrevote"}
           /\ PrevoteAllowed(r.st, r.act.hash)
<1> DEFINE Good(r) == /\ StageInv(C, n, r.st, M)
                      /\ r.act.type \in {"NoAction", "SendPrevote"}
                      /\ PrevoteAllowed(r.st, r.act.hash)
<1>1. ASSUME NEW t, StageInv(C, n, t, M) PROVE Good(Result(t, NoAction))
  BY <1>1 DEF Result, NoAction, PrevoteAllowed
<1>2. ASSUME NEW t, StageInv(C, n, t, M) PROVE Good(AcceptProposal(t, p))
  <2> DEFINE u == [t EXCEPT !.proposal = p.block, !.step = "Prevote"]
             hash == IF t.locked_block.hash \in {Nil, p.block}
                     THEN p.block ELSE Nil
  <2>1. t \in Machine
    BY <1>2 DEF StageInv
  <2>2. /\ u \in Machine /\ u.height = t.height /\ u.round = t.round
        /\ u.locked_block = t.locked_block
        /\ u.prevotes = t.prevotes /\ u.precommits = t.precommits
    BY <2>1, Zenon DEF Machine, Steps, Proposals
  <2>3. StageInv(C, n, u, M)
    <3> HIDE DEF u
    <3>1. t.round \in Nat
      BY <2>1 DEF Machine
    <3> QED BY <1>2, <2>2, <3>1, MachineMoves
  <2>4. Good(Result(u, SendPrevote(hash)))
    <3>1. PrevoteAllowed(u, hash)
      BY <2>2 DEF PrevoteAllowed
    <3> HIDE DEF u, hash
    <3> QED BY <2>3, <3>1 DEF Result, SendPrevote
  <2> HIDE DEF Good
  <2> QED
    BY <1>1, <1>2, <2>4 DEF AcceptProposal
<1>3. p.round \in Nat
  BY DEF Proposals
<1>4. Good(OnProposal(s, p))
  <2> HIDE DEF Good
  <2> QED BY <1>1, <1>2, <1>3, StartRoundStage DEF OnProposal
<1> QED
  BY <1>4

(* A vote message is what a machine that counts it records.                *)
LEMMA CountedVote ==
    ASSUME NEW v \in VoteMsgs
    PROVE  /\ AsVote(v) \in Votes
           /\ AsVote(v).round = v.round /\ AsVote(v).hash = v.hash
           /\ AsVote(v).voter = v.voter
           /\ v = VoteAt(v.type, v.height, v.round, v.hash, v.voter)
BY DEF AsVote, Votes, VoteMsgs, VoteAt

LEMMA OnPrevoteStage ==
    ASSUME NEW C \in [Honest -> Machine], NEW n \in Honest, NEW M, NEW s,
           StageInv(C, n, s, M),
           NEW v \in VoteMsgs, v \in M, v.type = "prevote"
    PROVE  LET r == OnPrevote(s, v) IN
           /\ StageInv(C, n, r.st, M)
           /\ r.act.type \in {"NoAction", "SendPrecommit"}
           /\ PrecommitAllowed(r.st, r.act.hash)
<1> DEFINE Good(r) == /\ StageInv(C, n, r.st, M)
                      /\ r.act.type \in {"NoAction", "SendPrecommit"}
                      /\ PrecommitAllowed(r.st, r.act.hash)
           t == [s EXCEPT !.prevotes = @ \cup {AsVote(v)}]
           quorum == QuorumHashes(t.prevotes, t.round)
           hash == CHOOSE h \in quorum : TRUE
<1>1. ASSUME NEW u, StageInv(C, n, u, M) PROVE Good(Result(u, NoAction))
  BY <1>1 DEF Result, NoAction, PrecommitAllowed
<1>2. s \in Machine /\ t \in Machine /\ v.round \in Nat
  BY CountedVote DEF StageInv, Machine, VoteMsgs
<1>3. ASSUME ~VoteRejected(s, s.prevotes, v) PROVE StageInv(C, n, t, M)
  <2>1. v.height = s.height /\ ~HasVoted(s.prevotes, v.round, v.voter)
    BY <1>3 DEF VoteRejected
  <2> QED
    BY <2>1, CountedVote, PrevoteCounted
<1>4. t.round = s.round
  BY <1>2 DEF Machine
<1>5. ASSUME StageInv(C, n, t, M), quorum # {}
      PROVE  Good(Result(PrevoteQuorum(t, hash), SendPrecommit(hash)))
  <2>1. hash \in quorum
    BY <1>5
  <2>2. hash \in Hashes /\ IsQuorum(VotersFor(t.prevotes, t.round, hash))
    BY <2>1 DEF QuorumHashes
  <2> HIDE DEF t, hash, quorum
  <2> DEFINE u == PrevoteQuorum(t, hash)
             l == [t EXCEPT !.locked_block = [round |-> t.round, hash |-> hash]]
  <2>3. t.round \in Nat
    BY <1>2 DEF Machine
  <2>4. CASE hash = Nil
    <3>1. /\ u \in Machine /\ u.height = t.height /\ u.round = t.round
          /\ u.locked_block = t.locked_block
          /\ u.prevotes = t.prevotes /\ u.precommits = t.precommits
      BY <1>2, <2>4 DEF PrevoteQuorum, Machine, Steps
    <3> HIDE DEF u
    <3>2. StageInv(C, n, u, M)
      BY <1>5, <2>3, <3>1, MachineMoves
    <3> QED
      BY <2>4, <3>2 DEF Result, SendPrecommit, PrecommitAllowed, u
  <2>5. CASE hash # Nil
    <3>1. hash \in Blocks
      BY <2>2, <2>5 DEF Hashes
    <3>2. StageInv(C, n, l, M)
      BY <1>5, <2>2, <3>1, LockTaken
    <3>3. l \in Machine
      BY <3>2 DEF StageInv
    <3>4. /\ u \in Machine /\ u.height = l.height /\ u.round = l.round
          /\ u.locked_block = l.locked_block
          /\ u.prevotes = l.prevotes /\ u.precommits = l.precommits
      BY <1>2, <2>3, <2>5, <3>1, Zenon DEF PrevoteQuorum, Machine, Steps, Locks
    <3>5. /\ u.locked_block = [round |-> t.round, hash |-> hash]
          /\ u.round = t.round /\ u.prevotes = t.prevotes
      BY <1>2, <2>5 DEF PrevoteQuorum, Machine
    <3> HIDE DEF u, l
    <3>6. StageInv(C, n, u, M)
      <4>1. l.round \in Nat
        BY <3>3 DEF Machine
      <4> QED BY <3>2, <3>4, <4>1, MachineMoves
    <3>7. PrecommitAllowed(u, hash)
      BY <2>2, <3>5 DEF PrecommitAllowed
    <3> QED
      BY <3>6, <3>7 DEF Result, SendPrecommit, u
  <2> QED
    BY <2>4, <2>5
<1>6. Good(OnPrevote(s, v))
  <2>0. StageInv(C, n, s, M)
    OBVIOUS
  <2>1. CASE VoteRejected(s, s.prevotes, v)
    <3> HIDE DEF Good
    <3> QED BY <1>1, <2>0, <2>1 DEF OnPrevote
  <2>2. CASE ~VoteRejected(s, s.prevotes, v) /\ v.round > s.round
    <3>1. StageInv(C, n, MaybeSkip(t, v.round), M)
      BY <1>2, <1>3, <1>4, <2>2, MaybeSkipStage, Zenon
    <3>2. OnPrevote(s, v) = Result(MaybeSkip(t, v.round), NoAction)
      BY <2>2 DEF OnPrevote
    <3> HIDE DEF Good, t
    <3> QED BY <1>1, <3>1, <3>2
  <2>3. CASE ~VoteRejected(s, s.prevotes, v) /\ ~(v.round > s.round)
    <3>1. StageInv(C, n, t, M)
      BY <1>3, <2>3
    <3>2. \/ OnPrevote(s, v) = Result(t, NoAction)
          \/ /\ quorum # {}
             /\ OnPrevote(s, v) = Result(PrevoteQuorum(t, hash), SendPrecommit(hash))
      BY <2>3 DEF OnPrevote
    <3> HIDE DEF Good, t, quorum, hash
    <3> QED BY <1>1, <1>5, <3>1, <3>2
  <2> QED
    BY <2>1, <2>2, <2>3
<1> QED
  BY <1>6

LEMMA OnPrecommitStage ==
    ASSUME NEW C \in [Honest -> Machine], NEW n \in Honest, NEW M, NEW s,
           StageInv(C, n, s, M),
           NEW v \in VoteMsgs, v \in M, v.type = "precommit"
    PROVE  LET r == OnPrecommit(s, v) IN
           /\ StageInv(C, n, r.st, M)
           /\ r.act.type \in {"NoAction", "CommitBlock"}
           /\ r.act.type = "CommitBlock" =>
                 IsQuorum(VotersFor(r.st.precommits, r.st.round, r.act.hash))
<1> DEFINE Good(r) ==
             /\ StageInv(C, n, r.st, M)
             /\ r.act.type \in {"NoAction", "CommitBlock"}
             /\ r.act.type = "CommitBlock" =>
                   IsQuorum(VotersFor(r.st.precommits, r.st.round, r.act.hash))
           t == [s EXCEPT !.precommits = @ \cup {AsVote(v)}]
           quorum == QuorumHashes(t.precommits, t.round)
           hash == CHOOSE h \in quorum : TRUE
           u == [t EXCEPT !.step = "Commit"]
<1>1. ASSUME NEW w, StageInv(C, n, w, M) PROVE Good(Result(w, NoAction))
  BY <1>1 DEF Result, NoAction
<1>2. s \in Machine /\ t \in Machine /\ v.round \in Nat
  BY CountedVote DEF StageInv, Machine, VoteMsgs
<1>3. ASSUME ~VoteRejected(s, s.precommits, v) PROVE StageInv(C, n, t, M)
  <2>1. v.height = s.height
    BY <1>3 DEF VoteRejected
  <2> QED
    BY <2>1, CountedVote, PrecommitCounted
<1>4. t.round = s.round
  BY <1>2 DEF Machine
<1>5. ASSUME StageInv(C, n, t, M), quorum # {}
      PROVE  Good(Result(u, CommitBlock(hash)))
  <2>1. hash \in quorum
    BY <1>5, Zenon
  <2>2. IsQuorum(VotersFor(t.precommits, t.round, hash))
    BY <2>1 DEF QuorumHashes
  <2> HIDE DEF t, hash, quorum
  <2>3. /\ u \in Machine /\ u.height = t.height /\ u.round = t.round
        /\ u.locked_block = t.locked_block
        /\ u.prevotes = t.prevotes /\ u.precommits = t.precommits
    BY <1>2 DEF Machine, Steps
  <2> HIDE DEF u
  <2>4. StageInv(C, n, u, M)
    <3>1. t.round \in Nat
      BY <1>2 DEF Machine
    <3> QED BY <1>5, <2>3, <3>1, MachineMoves
  <2> QED
    BY <2>2, <2>3, <2>4 DEF Result, CommitBlock
<1>6. Good(OnPrecommit(s, v))
  <2>0. StageInv(C, n, s, M)
    OBVIOUS
  <2>1. CASE VoteRejected(s, s.precommits, v)
    <3> HIDE DEF Good
    <3> QED BY <1>1, <2>0, <2>1 DEF OnPrecommit
  <2>2. CASE ~VoteRejected(s, s.precommits, v) /\ v.round > s.round
    <3>1. StageInv(C, n, MaybeSkip(t, v.round), M)
      BY <1>2, <1>3, <1>4, <2>2, MaybeSkipStage, Zenon
    <3>2. OnPrecommit(s, v) = Result(MaybeSkip(t, v.round), NoAction)
      BY <2>2 DEF OnPrecommit
    <3> HIDE DEF Good, t
    <3> QED BY <1>1, <3>1, <3>2
  <2>3. CASE ~VoteRejected(s, s.precommits, v) /\ ~(v.round > s.round)
    <3>1. StageInv(C, n, t, M)
      BY <1>3, <2>3
    <3>2. \/ OnPrecommit(s, v) = Result(t, NoAction)
          \/ /\ quorum # {}
             /\ OnPrecommit(s, v) = Result(u, CommitBlock(hash))
      BY <2>3 DEF OnPrecommit
    <3> HIDE DEF Good, t, quorum, hash, u
    <3> QED BY <1>1, <1>5, <3>1, <3>2
  <2> QED
    BY <2>1, <2>2, <2>3, Zenon
<1> QED
  BY <1>6

LEMMA OnTimeoutStage ==
    ASSUME NEW C \in [Honest -> Machine], NEW n \in Honest, NEW M, NEW s,
           StageInv(C, n, s, M)
    PROVE  LET r == OnTimeout(s) IN
           /\ StageInv(C, n, r.st, M)
           /\ r.act.type \in {"NoAction", "SendPrevote", "SendPrecommit"}
           /\ r.act.hash = Nil
<1>1. s \in Machine
  BY DEF StageInv
<1>2. ASSUME NEW step \in Steps
      PROVE  StageInv(C, n, [s EXCEPT !.step = step], M)
  <2> DEFINE u == [s EXCEPT !.step = step]
  <2>1. /\ u \in Machine /\ u.height = s.height /\ u.round = s.round
        /\ u.locked_block = s.locked_block
        /\ u.prevotes = s.prevotes /\ u.precommits = s.precommits
    BY <1>1 DEF Machine, Steps
  <2>2. s.round \in Nat
    BY <1>1 DEF Machine
  <2> HIDE DEF u
  <2>3. StageInv(C, n, u, M)
    BY <2>1, <2>2, MachineMoves
  <2> QED BY <2>3 DEF u
<1>3. /\ StageInv(C, n, [s EXCEPT !.step = "Prevote"], M)
      /\ StageInv(C, n, [s EXCEPT !.step = "Precommit"], M)
  BY <1>2 DEF Steps
<1>4. StageInv(C, n, StartRound(s, s.round + 1), M)
  <2>1. s.round \in Nat /\ s.round + 1 \in Nat /\ s.round + 1 > s.round
    BY <1>1 DEF Machine
  <2> QED
    BY <2>1, StartRoundStage
<1>5. CASE s.step \in {"NewRound", "Propose"}
  BY <1>3, <1>5 DEF OnTimeout, Result, SendPrevote
<1>6. CASE s.step = "Prevote"
  BY <1>3, <1>6 DEF OnTimeout, Result, SendPrecommit
<1>7. CASE s.step = "Precommit"
  BY <1>4, <1>7 DEF OnTimeout, Result, NoAction
<1>8. CASE s.step = "Commit"
  BY <1>8 DEF OnTimeout, Result, NoAction
<1> QED
  BY <1>1, <1>5, <1>6, <1>7, <1>8 DEF Machine, Steps

-----------------------------------------------------------------------------
(* The handlers of the loop.                                               *)

EffectInv(C, n, e, M) ==
    /\ e \in Effects
    /\ StageInv(C, n, e.st, M \cup e.sent)
    /\ ProofsCertified(e.proofs, M \cup e.sent)

LEMMA ProofsGrow ==
    ASSUME NEW P, NEW M, NEW N, M \subseteq N, ProofsCertified(P, M)
    PROVE  ProofsCertified(P, N)
BY DEF ProofsCertified

LEMMA HandleCommitActionStage ==
    ASSUME NEW C \in [Honest -> Machine], NEW n \in Honest, NEW M, NEW e,
           EffectInv(C, n, e, M), NEW hash \in Blocks,
           IsQuorum(VotersFor(e.st.precommits, e.st.round, hash))
    PROVE  EffectInv(C, n, HandleCommitAction(n, e, hash), M)
<1> DEFINE proof == [node |-> n, height |-> e.st.height, round |-> e.st.round,
                     hash |-> hash,
                     voters |-> VotersFor(e.st.precommits, e.st.round, hash)]
           f == [e EXCEPT !.proofs = @ \cup {proof}]
           N == M \cup e.sent
<1>1. e \in Effects /\ StageInv(C, n, e.st, N)
  BY DEF EffectInv
<1>2. ProofsCertified({proof}, N)
  <2>1. CountsBroadcastVotes(e.st, N)
    BY <1>1, Zenon DEF StageInv, NodeInv
  <2>2. \A v \in VotersFor(e.st.precommits, e.st.round, hash) :
          VoteAt("precommit", e.st.height, e.st.round, hash, v) \in N
    BY <2>1, Zenon DEF CountsBroadcastVotes, VotersFor
  <2> QED
    BY <2>2 DEF ProofsCertified
<1> HIDE DEF proof
<1>3. /\ f.st = e.st /\ f.chain = e.chain /\ f.sent = e.sent
      /\ f.proofs = e.proofs \cup {proof}
  BY <1>1 DEF Effects
<1>4. ProofsCertified(f.proofs, N)
  BY <1>2, <1>3 DEF EffectInv, ProofsCertified
<1>5. HandleCommitAction(n, e, hash) \in Effects
  BY <1>1, HandleCommitActionType DEF Honest
<1>6. HandleCommitAction(n, e, hash) = HandleCommit(f)
  BY DEF HandleCommitAction, proof
<1>7. /\ HandleCommit(f).sent = e.sent /\ HandleCommit(f).proofs = f.proofs
      /\ HandleCommit(f).st \in {e.st, NewMachine(e.st.height + 1)}
  <2>1. f \in [st : {f.st}, chain : {f.chain}, sent : {f.sent},
               proofs : {f.proofs}]
    BY <1>1 DEF Effects
  <2> HIDE DEF f
  <2> QED BY <1>3, <2>1 DEF HandleCommit
<1>8. StageInv(C, n, HandleCommit(f).st, N)
  BY <1>1, <1>7, HeightMoves
<1> QED
  BY <1>4, <1>5, <1>6, <1>7, <1>8, Zenon DEF EffectInv

LEMMA HandleSendPrecommitStage ==
    ASSUME NEW C \in [Honest -> Machine], NEW n \in Honest, NEW M, NEW e,
           EffectInv(C, n, e, M), NEW hash \in Hashes,
           PrecommitAllowed(e.st, hash)
    PROVE  EffectInv(C, n, HandleSendPrecommit(n, e, hash), M)
<1> DEFINE vote == VoteMsg("precommit", n, e.st, hash)
           r == OnPrecommit(e.st, vote)
           f == [e EXCEPT !.st = r.st, !.sent = @ \cup {vote}]
           N == M \cup e.sent \cup {vote}
<1>1. e \in Effects /\ StageInv(C, n, e.st, M \cup e.sent) /\ e.st \in Machine
  BY DEF EffectInv, Effects
<1>2. vote \in VoteMsgs /\ vote.type = "precommit"
  BY <1>1, VoteMsgType, Zenon DEF Honest, VoteMsg
<1>3. StageInv(C, n, e.st, N)
  BY <1>1, PrecommitSent DEF PrecommitAllowed
<1> HIDE DEF vote
<1>4. /\ StageInv(C, n, r.st, N)
      /\ r.act.type = "CommitBlock" =>
            IsQuorum(VotersFor(r.st.precommits, r.st.round, r.act.hash))
  <2>1. vote \in N
    OBVIOUS
  <2> HIDE DEF N
  <2> QED
    BY <1>2, <1>3, <2>1, OnPrecommitStage, Zenon
<1>5. r \in Results /\ (r.act.type = "CommitBlock" => r.act.hash \in Blocks)
  <2>1. vote.round \in Nat /\ vote.hash \in Hashes /\ vote.voter \in Validators
    BY <1>2 DEF VoteMsgs
  <2> QED BY <1>1, <2>1, OnPrecommitType
<1> HIDE DEF r
<1>6. /\ f \in Effects /\ f.st = r.st /\ f.sent = e.sent \cup {vote}
      /\ f.proofs = e.proofs
  BY <1>1, <1>2, <1>5, Zenon DEF Effects, Results
<1>7. M \cup f.sent = N
  BY <1>6
<1>8. EffectInv(C, n, f, M)
  <2>1. ProofsCertified(e.proofs, N)
    BY ProofsGrow DEF EffectInv
  <2> HIDE DEF f, N
  <2> QED BY <1>4, <1>6, <1>7, <2>1, Zenon DEF EffectInv
<1>9. HandleSendPrecommit(n, e, hash) =
        IF r.act.type = "CommitBlock"
        THEN HandleCommitAction(n, f, r.act.hash) ELSE f
  BY DEF HandleSendPrecommit, r, vote
<1> HIDE DEF f
<1> QED
  BY <1>4, <1>5, <1>6, <1>8, <1>9, HandleCommitActionStage

LEMMA HandleSendPrevoteStage ==
    ASSUME NEW C \in [Honest -> Machine], NEW n \in Honest, NEW M, NEW e,
           EffectInv(C, n, e, M), NEW hash \in Hashes,
           PrevoteAllowed(e.st, hash)
    PROVE  EffectInv(C, n, HandleSendPrevote(n, e, hash), M)
<1> DEFINE vote == VoteMsg("prevote", n, e.st, hash)
           r == OnPrevote(e.st, vote)
           f == [e EXCEPT !.st = r.st, !.sent = @ \cup {vote}]
           N == M \cup e.sent \cup {vote}
<1>1. e \in Effects /\ StageInv(C, n, e.st, M \cup e.sent) /\ e.st \in Machine
  BY DEF EffectInv, Effects
<1>2. vote \in VoteMsgs /\ vote.type = "prevote"
  BY <1>1, VoteMsgType, Zenon DEF Honest, VoteMsg
<1>3. StageInv(C, n, e.st, N)
  BY <1>1, PrevoteSent DEF PrevoteAllowed
<1> HIDE DEF vote
<1>4. StageInv(C, n, r.st, N) /\ PrecommitAllowed(r.st, r.act.hash)
  BY <1>2, <1>3, OnPrevoteStage
<1>5. r \in Results
  <2>1. vote.round \in Nat /\ vote.hash \in Hashes /\ vote.voter \in Validators
    BY <1>2 DEF VoteMsgs
  <2> QED BY <1>1, <2>1, OnPrevoteType
<1> HIDE DEF r
<1>6. /\ f \in Effects /\ f.st = r.st /\ f.sent = e.sent \cup {vote}
      /\ f.proofs = e.proofs /\ r.act.hash \in Hashes
  BY <1>1, <1>2, <1>5, Zenon DEF Effects, Results, Actions
<1>7. M \cup f.sent = N
  BY <1>6
<1>8. EffectInv(C, n, f, M)
  <2>1. ProofsCertified(e.proofs, N)
    BY ProofsGrow DEF EffectInv
  <2> HIDE DEF f, N
  <2> QED BY <1>4, <1>6, <1>7, <2>1, Zenon DEF EffectInv
<1>9. HandleSendPrevote(n, e, hash) =
        IF r.act.type = "SendPrecommit"
        THEN HandleSendPrecommit(n, f, r.act.hash) ELSE f
  BY DEF HandleSendPrevote, r, vote
<1> HIDE DEF f
<1> QED
  BY <1>4, <1>6, <1>8, <1>9, HandleSendPrecommitStage

-----------------------------------------------------------------------------
(* The actions.                                                            *)
LEMMA HandleStage ==
    ASSUME TypeOK, NEW n \in Honest, NEW r \in Results,
           StageInv(cs, n, r.st, msgs),
           r.act.type = "SendPrevote" => PrevoteAllowed(r.st, r.act.hash),
           r.act.type = "SendPrecommit" => PrecommitAllowed(r.st, r.act.hash),
           r.act.type = "CommitBlock" =>
              /\ r.act.hash \in Blocks
              /\ IsQuorum(VotersFor(r.st.precommits, r.st.round, r.act.hash))
    PROVE  EffectInv(cs, n, Handle(n, r), msgs)
<1> DEFINE e == [Effect(n) EXCEPT !.st = r.st]
<1>1. /\ e \in Effects /\ e.st = r.st /\ e.sent = {} /\ e.proofs = {}
      /\ r.act \in Actions
  BY Zenon DEF Effect, Effects, TypeOK, Results
<1>2. cs \in [Honest -> Machine]
  BY DEF TypeOK
<1>3. Handle(n, r) = HandleConsensusAction(n, e, r.act)
  BY DEF Handle
<1> HIDE DEF e
<1>4. EffectInv(cs, n, e, msgs)
  BY <1>1, Zenon DEF EffectInv, ProofsCertified
<1>5. r.act.hash \in Hashes
  BY <1>1, Zenon DEF Actions
<1>6. EffectInv(cs, n, HandleConsensusAction(n, e, r.act), msgs)
  <2>1. CASE r.act.type = "SendPrevote"
    BY <1>1, <1>2, <1>4, <1>5, <2>1, HandleSendPrevoteStage
       DEF HandleConsensusAction
  <2>2. CASE r.act.type = "SendPrecommit"
    BY <1>1, <1>2, <1>4, <1>5, <2>2, HandleSendPrecommitStage
       DEF HandleConsensusAction
  <2>3. CASE r.act.type = "CommitBlock"
    BY <1>1, <1>2, <1>4, <2>3, HandleCommitActionStage
       DEF HandleConsensusAction
  <2>4. CASE r.act.type = "NoAction"
    BY <1>4, <2>4 DEF HandleConsensusAction
  <2> QED
    BY <1>1, <2>1, <2>2, <2>3, <2>4 DEF Actions
<1> QED
  BY <1>3, <1>6

(* The invariant before a handler of n is StageInv of its own machine.     *)
LEMMA StageStart ==
    ASSUME TypeOK, AgreementInv, NEW n \in Honest
    PROVE  StageInv(cs, n, cs[n], msgs)
<1>1. [cs EXCEPT ![n] = cs[n]] = cs
  BY DEF TypeOK
<1> QED
  BY <1>1, Zenon DEF TypeOK, AgreementInv, StageInv, Messages

LEMMA ApplyStage ==
    ASSUME TypeOK, AgreementInv, NEW n \in Honest, NEW e,
           EffectInv(cs, n, e, msgs), Apply(n, e)
    PROVE  AgreementInv'
<1>1. /\ cs' = [cs EXCEPT ![n] = e.st] /\ msgs' = msgs \cup e.sent
      /\ proofs' = proofs \cup e.proofs
  BY DEF Apply
<1>2. /\ StageInv(cs, n, e.st, msgs \cup e.sent)
      /\ ProofsCertified(e.proofs, msgs \cup e.sent)
  BY DEF EffectInv
<1>3. ASSUME NEW m \in Honest PROVE NodeInv(m, cs'[m], msgs')
  <2>1. cs'[m] = IF m = n THEN e.st ELSE cs[m]
    BY <1>1 DEF TypeOK
  <2> QED
    BY <1>1, <1>2, <2>1 DEF StageInv
<1>4. QuorumsSafe(cs', msgs')
  BY <1>1, <1>2 DEF StageInv
<1>5. ProofsCertified(proofs', msgs')
  <2>1. ProofsCertified(proofs, msgs \cup e.sent)
    BY ProofsGrow DEF AgreementInv
  <2> QED
    BY <1>1, <1>2, <2>1 DEF ProofsCertified
<1> QED
  BY <1>3, <1>4, <1>5 DEF AgreementInv

(* A handler that does nothing keeps the invariant.                        *)
LEMMA IdleStage ==
    ASSUME TypeOK, AgreementInv, NEW n \in Honest
    PROVE  EffectInv(cs, n, Effect(n), msgs)
<1>1. /\ Effect(n) \in Effects /\ Effect(n).st = cs[n]
      /\ Effect(n).sent = {} /\ Effect(n).proofs = {}
  BY DEF TypeOK, Effect, Effects
<1> QED
  BY <1>1, StageStart DEF EffectInv, ProofsCertified

LEMMA TickStage ==
    ASSUME TypeOK, AgreementInv, NEW n \in Honest, OnBlockTimer(n)
    PROVE  AgreementInv'
<1>0. cs[n] \in Machine /\ cs \in [Honest -> Machine]
  BY DEF TypeOK
<1>1. CASE Propose(n)
  <2>1. PICK b \in ProposableBlocks(n) :
          LET p == ProposalMsg(n, cs[n], b)
              e == Handle(n, OnProposal(cs[n], AsProposal(p)))
          IN  MustPropose(n) /\ Apply(n, [e EXCEPT !.sent = @ \cup {p}])
    BY <1>1, Zenon DEF Propose
  <2> DEFINE p == ProposalMsg(n, cs[n], b)
             r == OnProposal(cs[n], AsProposal(p))
             e == Handle(n, r)
             f == [e EXCEPT !.sent = @ \cup {p}]
  <2>2. b \in Blocks
    BY <1>0 DEF Machine, ProposableBlocks
  <2>3. p \in ProposalMsgs
    BY <1>0, <2>2 DEF ProposalMsg, ProposalMsgs, Machine, Honest
  <2>4. AsProposal(p) \in Proposals
    BY <2>3, AsProposalType
  <2> HIDE DEF p
  <2>5. r \in Results /\ r.act.type # "CommitBlock"
    BY <1>0, <2>4, OnProposalType, CommitsOnlyOnPrecommit
  <2>6. /\ StageInv(cs, n, r.st, msgs)
        /\ r.act.type \in {"NoAction", "SendPrevote"}
        /\ PrevoteAllowed(r.st, r.act.hash)
    BY <1>0, <2>4, StageStart, OnProposalStage
  <2> HIDE DEF r
  <2>7. EffectInv(cs, n, e, msgs)
    BY <2>5, <2>6, HandleStage, Zenon
  <2> HIDE DEF e
  <2>8. /\ f \in Effects /\ f.st = e.st /\ f.sent = e.sent \cup {p}
        /\ f.proofs = e.proofs
    BY <2>3, <2>7 DEF EffectInv, Effects
  <2>9. StageInv(cs, n, e.st, msgs \cup e.sent \cup {p})
    BY <1>0, <2>3, <2>7, ProposalSent DEF EffectInv
  <2>10. ProofsCertified(e.proofs, msgs \cup e.sent \cup {p})
    BY <2>7, ProofsGrow DEF EffectInv
  <2>11. msgs \cup f.sent = msgs \cup e.sent \cup {p}
    BY <2>8
  <2>12. Apply(n, f)
    BY <2>1 DEF p, e, r
  <2> HIDE DEF f
  <2>13. EffectInv(cs, n, f, msgs)
    BY <2>8, <2>9, <2>10, <2>11 DEF EffectInv
  <2> QED
    BY <2>12, <2>13, ApplyStage
<1>2. CASE AwaitProposal(n)
  <2> DEFINE s == IF cs[n].step = "NewRound"
                  THEN [cs[n] EXCEPT !.step = "Propose"] ELSE cs[n]
             e == [Effect(n) EXCEPT !.st = s]
  <2>1. /\ s \in Machine /\ s.height = cs[n].height /\ s.round = cs[n].round
        /\ s.locked_block = cs[n].locked_block
        /\ s.prevotes = cs[n].prevotes /\ s.precommits = cs[n].precommits
    BY <1>0 DEF Machine, Steps
  <2>2. Apply(n, e)
    BY <1>2 DEF AwaitProposal
  <2> HIDE DEF s
  <2>3. StageInv(cs, n, s, msgs)
    <3>1. cs[n].round \in Nat
      BY <1>0 DEF Machine
    <3> QED BY <1>0, <2>1, <3>1, StageStart, MachineMoves
  <2>4. e \in Effects /\ e.st = s /\ e.sent = {} /\ e.proofs = {}
    BY <2>1, Zenon DEF TypeOK, Effect, Effects
  <2> HIDE DEF e
  <2>5. EffectInv(cs, n, e, msgs)
    BY <2>3, <2>4 DEF EffectInv, ProofsCertified
  <2> QED
    BY <2>2, <2>5, ApplyStage
<1>3. CASE ProposalFails(n)
  BY <1>3, IdleStage, ApplyStage DEF ProposalFails
<1> QED
  BY <1>1, <1>2, <1>3 DEF OnBlockTimer

LEMMA AgreementStep == TypeOK /\ AgreementInv /\ [Next]_vars => AgreementInv'
<1> SUFFICES ASSUME TypeOK, AgreementInv, [Next]_vars PROVE AgreementInv'
  OBVIOUS
<1>0. cs \in [Honest -> Machine]
  BY DEF TypeOK
<1>1. ASSUME NEW n \in Honest, Start(n) PROVE AgreementInv'
  BY <1>1, TickStage DEF Start
<1>2. ASSUME NEW n \in Honest, BlockTimer(n) PROVE AgreementInv'
  BY <1>2, TickStage DEF BlockTimer
<1>3. ASSUME NEW n \in Honest, ConsensusTimeout(n) PROVE AgreementInv'
  <2> DEFINE r == OnTimeout(cs[n])
  <2>1. r \in Results /\ r.act.type # "CommitBlock"
    BY <1>0, OnTimeoutType, CommitsOnlyOnPrecommit
  <2>2. StageInv(cs, n, r.st, msgs) /\ r.act.hash = Nil
    BY <1>0, StageStart, OnTimeoutStage
  <2>3. Apply(n, Handle(n, r))
    BY <1>3 DEF ConsensusTimeout
  <2> HIDE DEF r
  <2>4. EffectInv(cs, n, Handle(n, r), msgs)
    BY <2>1, <2>2, HandleStage DEF PrevoteAllowed, PrecommitAllowed
  <2> QED
    BY <2>3, <2>4, ApplyStage
<1>4. ASSUME NEW n \in Honest, NEW m \in msgs, BlockReceived(n, m)
      PROVE  AgreementInv'
  <2> DEFINE r == OnProposal(cs[n], AsProposal(m))
  <2>1. m \in ProposalMsgs
    BY <1>4, Zenon DEF BlockReceived, TypeOK, VoteMsgs
  <2>2. AsProposal(m) \in Proposals
    BY <2>1, AsProposalType
  <2>3. r \in Results /\ r.act.type # "CommitBlock"
    BY <1>0, <2>2, OnProposalType, CommitsOnlyOnPrecommit
  <2>4. /\ StageInv(cs, n, r.st, msgs)
        /\ r.act.type \in {"NoAction", "SendPrevote"}
        /\ PrevoteAllowed(r.st, r.act.hash)
    BY <1>0, <2>2, StageStart, OnProposalStage
  <2>5. Apply(n, Handle(n, r)) \/ Apply(n, Effect(n))
    BY <1>4 DEF BlockReceived
  <2> HIDE DEF r
  <2>6. EffectInv(cs, n, Handle(n, r), msgs)
    BY <2>3, <2>4, HandleStage
  <2>7. EffectInv(cs, n, Effect(n), msgs)
    BY IdleStage
  <2> QED
    BY <2>5, <2>6, <2>7, ApplyStage
<1>5. ASSUME NEW n \in Honest, NEW m \in msgs, ConsensusMessageReceived(n, m)
      PROVE  AgreementInv'
  <2>1. m \in VoteMsgs
    BY <1>5 DEF ConsensusMessageReceived, TypeOK, ProposalMsgs
  <2>2. m.round \in Nat /\ m.hash \in Hashes /\ m.voter \in Validators
    BY <2>1 DEF VoteMsgs
  <2>3. CASE m.type = "prevote"
    <3> DEFINE r == OnPrevote(cs[n], m)
    <3>1. r \in Results /\ r.act.type # "CommitBlock"
      BY <1>0, <2>2, OnPrevoteType, CommitsOnlyOnPrecommit
    <3>2. /\ StageInv(cs, n, r.st, msgs)
          /\ r.act.type \in {"NoAction", "SendPrecommit"}
          /\ PrecommitAllowed(r.st, r.act.hash)
      BY <1>0, <2>1, <2>3, StageStart, OnPrevoteStage
    <3>3. Apply(n, Handle(n, r))
      BY <1>5, <2>3 DEF ConsensusMessageReceived
    <3> HIDE DEF r
    <3>4. EffectInv(cs, n, Handle(n, r), msgs)
      BY <3>1, <3>2, HandleStage
    <3> QED
      BY <3>3, <3>4, ApplyStage
  <2>4. CASE m.type = "precommit"
    <3> DEFINE r == OnPrecommit(cs[n], m)
    <3>1. r \in Results /\ (r.act.type = "CommitBlock" => r.act.hash \in Blocks)
      BY <1>0, <2>2, OnPrecommitType
    <3>2. /\ StageInv(cs, n, r.st, msgs)
          /\ r.act.type \in {"NoAction", "CommitBlock"}
          /\ r.act.type = "CommitBlock" =>
                IsQuorum(VotersFor(r.st.precommits, r.st.round, r.act.hash))
      BY <1>0, <2>1, <2>4, StageStart, OnPrecommitStage, Zenon
    <3>3. Apply(n, Handle(n, r))
      BY <1>5, <2>4 DEF ConsensusMessageReceived
    <3> HIDE DEF r
    <3>4. EffectInv(cs, n, Handle(n, r), msgs)
      BY <3>1, <3>2, HandleStage
    <3> QED
      BY <3>3, <3>4, ApplyStage
  <2> QED
    BY <1>5, <2>3, <2>4 DEF ConsensusMessageReceived
<1>6. CASE UNCHANGED vars
  BY <1>6 DEF vars, AgreementInv
<1>7. CASE Finished
  BY <1>6, <1>7 DEF Finished
<1> QED
  BY <1>1, <1>2, <1>3, <1>4, <1>5, <1>6, <1>7 DEF Next

LEMMA AgreementInit == Init => AgreementInv
<1> SUFFICES ASSUME Init PROVE AgreementInv
  OBVIOUS
<1>1. /\ cs = [n \in Honest |-> NewMachine(1)] /\ msgs = FaultyMsgs
      /\ proofs = {}
  BY DEF Init
<1>2. \A n \in Honest : /\ VotesBy(n, "prevote", msgs) = {}
                        /\ VotesBy(n, "precommit", msgs) = {}
                        /\ PrecommitsBy(n, msgs) = {}
  BY <1>1, FaultyMsgsAssumption DEF VotesBy, PrecommitsBy, Honest
<1>3. ASSUME NEW n \in Honest PROVE NodeInv(n, cs[n], msgs)
  <2>1. /\ cs[n].prevotes = {} /\ cs[n].precommits = {}
        /\ cs[n].locked_block = NoLock
    BY <1>1 DEF NewMachine
  <2> QED
    BY <1>2, <2>1, Zenon DEF NodeInv, CountsBroadcastVotes, VotesNotAhead,
       LockSupported, LockCoversPrecommits, PrecommitsSupported,
       PrevotesJustified
<1>4. \A h, r, b : ~HasPrevoteQuorum(msgs, h, r, b)
  <2> SUFFICES ASSUME NEW h, NEW r, NEW b, HasPrevoteQuorum(msgs, h, r, b)
               PROVE  FALSE
    OBVIOUS
  <2>1. PrevotersIn(msgs, h, r, b) \in SUBSET Validators
    BY DEF PrevotersIn
  <2>2. PICK v \in PrevotersIn(msgs, h, r, b) : v \in Honest
    BY <2>1, QuorumHonest DEF HasPrevoteQuorum
  <2>3. VoteAt("prevote", h, r, b, v) \in VotesBy(v, "prevote", msgs)
    BY <2>2 DEF PrevotersIn, VotesBy, VoteAt
  <2> QED
    BY <1>2, <2>2, <2>3
<1>5. QuorumsSafe(cs, msgs)
  BY <1>4 DEF QuorumsSafe
<1> QED
  BY <1>1, <1>3, <1>5 DEF AgreementInv, ProofsCertified

(* Two commit proofs of one round name one block, since an honest          *)
(* validator precommits one block a round; of two proofs of different      *)
(* rounds the later one needs a prevote quorum, which rules out the other. *)
LEMMA InvAgrees == TypeOK /\ AgreementInv => CertifiedAgreement
<1> SUFFICES ASSUME TypeOK, AgreementInv,
                    NEW p \in proofs, NEW q \in proofs, p.height = q.height,
                    p.hash # q.hash
             PROVE  FALSE
  BY DEF CertifiedAgreement
<1>1. \A x \in proofs :
        /\ x.round \in Nat /\ x.height \in Nat /\ x.hash \in Blocks
        /\ x.voters \in SUBSET Validators /\ IsQuorum(x.voters)
        /\ \A v \in x.voters :
              VoteAt("precommit", x.height, x.round, x.hash, v) \in msgs
  BY DEF TypeOK, CommitProofs, AgreementInv, ProofsCertified
<1>2. ASSUME NEW x \in proofs, NEW v \in x.voters
      PROVE  LET m == VoteAt("precommit", x.height, x.round, x.hash, v) IN
             /\ m \in PrecommitsBy(v, msgs)
             /\ m.height = x.height /\ m.round = x.round /\ m.hash = x.hash
  BY <1>1, <1>2, BlocksAssumption DEF PrecommitsBy, VotesBy, VoteAt
<1>3. p.round # q.round
  <2> SUFFICES ASSUME p.round = q.round PROVE FALSE
    OBVIOUS
  <2>1. PICK v \in p.voters \cap q.voters : v \notin Faulty
    BY <1>1, QuorumIntersection, FaultyAssumption
  <2>2. v \in Honest
    BY <1>1, <2>1 DEF Honest
  <2>3. PrecommitsSupported(v, msgs)
    BY <2>2 DEF AgreementInv, NodeInv
  <2> QED
    BY <1>2, <2>1, <2>3 DEF PrecommitsSupported
<1>4. ASSUME NEW x \in proofs, NEW y \in proofs, x.height = y.height,
             x.hash # y.hash, x.round < y.round
      PROVE  FALSE
  <2>1. PICK v \in y.voters : v \in Honest
    BY <1>1, QuorumHonest
  <2>2. HasPrevoteQuorum(msgs, y.height, y.round, y.hash)
    <3>1. PrecommitsSupported(v, msgs)
      BY <2>1 DEF AgreementInv, NodeInv
    <3> DEFINE m == VoteAt("precommit", y.height, y.round, y.hash, v)
    <3>2. /\ m \in PrecommitsBy(v, msgs)
          /\ m.height = y.height /\ m.round = y.round /\ m.hash = y.hash
      BY <1>2, <2>1
    <3> HIDE DEF m
    <3> QED
      BY <3>1, <3>2 DEF PrecommitsSupported
  <2>3. x.round \in 0 .. y.round - 1
    <3>1. x.round \in Nat /\ y.round \in Nat
      BY <1>1
    <3> QED
      BY <1>4, <3>1
  <2>4. ~IsQuorum(MayPrecommit(cs, msgs, y.height, x.round, x.hash))
    BY <1>1, <1>4, <2>2, <2>3, QuorumsSafeUse DEF AgreementInv
  <2>5. x.voters \subseteq MayPrecommit(cs, msgs, y.height, x.round, x.hash)
    BY <1>1, <1>4 DEF MayPrecommit
  <2>6. MayPrecommit(cs, msgs, y.height, x.round, x.hash) \in SUBSET Validators
    BY DEF MayPrecommit
  <2> QED
    BY <1>1, <2>4, <2>5, <2>6, QuorumMonotone
<1> QED
  BY <1>1, <1>3, <1>4

(* No execution of the loop hands out commit proofs for two blocks at one  *)
(* height while less than a third of the stake is faulty, for any number   *)
(* of validators, stakes, rounds, heights and blocks.                      *)
THEOREM Agreement == Spec => []CertifiedAgreement
<1>1. Init => TypeOK /\ AgreementInv
  BY TypeInit, AgreementInit
<1>2. TypeOK /\ AgreementInv /\ [Next]_vars => (TypeOK /\ AgreementInv)'
  BY TypeStep, AgreementStep
<1>3. TypeOK /\ AgreementInv => CertifiedAgreement
  BY InvAgrees
<1> QED
  BY <1>1, <1>2, <1>3, PTL DEF Spec

(* AgreementInv holds throughout: what TLC checks on the small instances   *)
(* as an invariant is an invariant of every instance.                      *)
THEOREM AgreementInvariance == Spec => []AgreementInv
BY TypeInit, AgreementInit, TypeStep, AgreementStep, PTL DEF Spec

(* In every instance a lock taken by on_prevote names a block for which a  *)
(* quorum prevoted at the height and in the round of the lock.             *)
THEOREM LocksAreSupported == Spec => []LockIsSupported
<1>1. AgreementInv => LockIsSupported
  BY Zenon DEF AgreementInv, NodeInv, LockSupported, LockIsSupported,
         HasPrevoteQuorum, PrevotersIn, Voters, VoteAt
<1> QED
  BY <1>1, AgreementInvariance, PTL
=============================================================================
