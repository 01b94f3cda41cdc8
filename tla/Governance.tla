----------------------------- MODULE Governance -----------------------------
(***************************************************************************)
(* Governance: proposals hold a deposit, collect stake-weighted votes      *)
(* until voting_end_height, and are then executed or rejected.             *)
(***************************************************************************)
EXTENDS LedgerState

CONSTANTS min_proposal_deposit, voting_period_blocks, governance_quorum_bps,
          pass_threshold_bps

(* execute_submit_proposal.  A proposal with this id (same signer, title   *)
(* and height) is replaced, and its id is listed again.                    *)
ExecuteSubmitProposal(s, signer, action, title, deposit, height) ==
    LET id == <<signer, title, height>>
        t == Put(Debit(s, signer, deposit), proposal_key(id),
                 [proposer |-> signer, action |-> action, deposit |-> deposit,
                  status |-> "Voting", voting_end_height |-> height + voting_period_blocks,
                  votes |-> [Yes |-> 0, No |-> 0, Abstain |-> 0]])
    IN  Attempt(s, deposit >= min_proposal_deposit /\ CanAfford(s, signer, deposit),
                Put(t, proposal_list_key, Append(Get(s, proposal_list_key, <<>>), id)))

(* What the signer has delegated, by a scan of its delegations.            *)
TotalDelegated(s, signer) ==
    SumOver({k \in KeysOf(s, "delegation") : k[2] = signer}, LAMBDA k : s[k].amount)

(* The weight of a vote: the stake of a validator (its delegations         *)
(* included), or what the signer delegated.                                *)
VoteWeight(s, signer) ==
    LET v == validator_key(signer)
    IN  IF Has(s, v) /\ s[v].stake > 0 THEN s[v].stake ELSE TotalDelegated(s, signer)

VotingOn(s, id) == Has(s, proposal_key(id)) /\ s[proposal_key(id)].status = "Voting"

(* Fault: a changed vote is added without taking the first one back.       *)
ExecuteVoteProposalTwice(s, signer, id, option, height) ==
    LET p == s[proposal_key(id)]
        w == VoteWeight(s, signer)
        cast == [p EXCEPT !.votes[option] = SatAdd(@, w)]
    IN  Attempt(s, /\ VotingOn(s, id) /\ height <= p.voting_end_height /\ w > 0,
                Put(Put(s, vote_key(id, signer), [option |-> option, weight |-> w]),
                    proposal_key(id), cast))

(* execute_vote_proposal: an earlier vote of the signer is taken back with *)
(* the weight it was recorded with.                                        *)
ExecuteVoteProposal(s, signer, id, option, height) ==
    LET p == s[proposal_key(id)]
        v == vote_key(id, signer)
        w == VoteWeight(s, signer)
        undone == IF Has(s, v) THEN [p EXCEPT !.votes[s[v].option] = SatSub(@, s[v].weight)]
                  ELSE p
        cast == [undone EXCEPT !.votes[option] = SatAdd(@, w)]
    IN  Attempt(s, /\ VotingOn(s, id) /\ height <= p.voting_end_height /\ w > 0,
                Put(Put(s, v, [option |-> option, weight |-> w]), proposal_key(id), cast))

(* calculate_total_staked: every validator record.                         *)
CalculateTotalStaked(s) == SumOver(KeysOf(s, "validator"), LAMBDA k : s[k].stake)

QuorumMet(s, p) ==
    LET staked == CalculateTotalStaked(s)
        total == SatAdd(SatAdd(p.votes.Yes, p.votes.No), p.votes.Abstain)
    IN  staked # 0 /\ total * 10000 >= governance_quorum_bps * staked

ThresholdMet(p) ==
    LET decided == SatAdd(p.votes.Yes, p.votes.No)
    IN  decided # 0 /\ p.votes.Yes * 10000 >= pass_threshold_bps * decided

(* execute_proposal_action.  A spend is credited to the recipient and      *)
(* debited from no account.                                                *)
ExecuteProposalAction(s, a) ==
    CASE a.kind = "TreasurySpend" -> Ok(Credit(s, a.recipient, a.amount))
      [] a.kind = "SlashValidator" ->
            LET v == validator_key(a.address)
            IN  Attempt(s, Has(s, v),
                        Put(s, v, [s[v] EXCEPT !.stake = SatSub(@, Bps(@, a.fraction_bps))]))
      [] a.kind = "SuspendAttestor" ->
            Ok(IF Has(s, attestor_key(a.address))
               THEN SetStatus(s, attestor_key(a.address), "Suspended") ELSE s)
      [] a.kind \in {"ParameterChange", "ApproveAttestor", "TextProposal"} -> Ok(s)

(* Fault: a proposal may be executed while voting is still open.           *)
ExecuteExecuteProposalEarly(s, id, height) ==
    LET p == s[proposal_key(id)]
        done == ExecuteProposalAction(s, p.action)
        executed == SetStatus(Credit(done.s, p.proposer, p.deposit), proposal_key(id), "Executed")
        returned == IF p.deposit \div 2 > 0 THEN Credit(s, p.proposer, p.deposit \div 2) ELSE s
        rejected == SetStatus(returned, proposal_key(id), "Rejected")
    IN  IF ~(VotingOn(s, id) /\ height >= p.voting_end_height) THEN Err(s)
        ELSE IF ~(QuorumMet(s, p) /\ ThresholdMet(p)) THEN Ok(rejected)
        ELSE IF done.res = "ok" THEN Ok(executed) ELSE Err(s)

(* execute_execute_proposal.  A passed proposal whose action fails stays   *)
(* in Voting; a rejected one returns half of the deposit.                  *)
ExecuteExecuteProposal(s, id, height) ==
    LET p == s[proposal_key(id)]
        done == ExecuteProposalAction(s, p.action)
        executed == SetStatus(Credit(done.s, p.proposer, p.deposit), proposal_key(id), "Executed")
        returned == IF p.deposit \div 2 > 0 THEN Credit(s, p.proposer, p.deposit \div 2) ELSE s
        rejected == SetStatus(returned, proposal_key(id), "Rejected")
    IN  IF ~(VotingOn(s, id) /\ height > p.voting_end_height) THEN Err(s)
        ELSE IF ~(QuorumMet(s, p) /\ ThresholdMet(p)) THEN Ok(rejected)
        ELSE IF done.res = "ok" THEN Ok(executed) ELSE Err(s)
=============================================================================
