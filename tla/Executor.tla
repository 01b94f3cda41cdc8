------------------------------ MODULE Executor ------------------------------
(***************************************************************************)
(* The executor: gas and fees, the fee distribution, the dispatch of an    *)
(* action to its handler, and the block-level steps around transactions.   *)
(*                                                                         *)
(* A transaction is a record with fields signer, action, max_fee, size,    *)
(* timestamp, nonce, sponsor and session (NoAddress for none).  Gas is     *)
(* counted in units of 5000.                                               *)
(***************************************************************************)
EXTENDS LedgerState, Assets, Guild, Tournament, Governance, Staking,
        Attestation

(***************************************************************************)
(* Session keys: a granter lets another key sign for it until a height, up *)
(* to a spending limit, and for some actions.                              *)
(***************************************************************************)

(* SessionGrant::is_valid, is_action_permitted and can_spend.  An empty    *)
(* set of permissions stands for SessionPermission::All.                   *)
IsValidGrant(g, height) == ~g.revoked /\ height <= g.expires_at
IsActionPermitted(g, label) == g.permissions = {} \/ label \in g.permissions
CanSpend(g, amount) == SatAdd(g.amount_spent, amount) <= g.spending_limit

(* execute_create_session.  The address is the hash of the key, NoAddress  *)
(* for a key that has not 32 bytes.  A grant that is no longer valid is    *)
(* replaced.                                                               *)
ExecuteCreateSession(s, signer, address, permissions, expires_at, limit, height) ==
    LET k == session_key(signer, address)
    IN  Attempt(s, /\ address # NoAddress /\ expires_at > height
                   /\ ~(Has(s, k) /\ IsValidGrant(s[k], height)),
                Put(s, k, [expires_at |-> expires_at, spending_limit |-> limit,
                           amount_spent |-> 0, revoked |-> FALSE,
                           permissions |-> permissions]))

(* execute_revoke_session.  The key holds the granter, so no other signer  *)
(* finds the grant.                                                        *)
ExecuteRevokeSession(s, signer, address) ==
    LET k == session_key(signer, address)
    IN  Attempt(s, Has(s, k) /\ ~s[k].revoked, Put(s, k, [s[k] EXCEPT !.revoked = TRUE]))

(* The executor's bookkeeping after a successful transaction: the fee, and *)
(* nothing the action moved, counts as spent.                              *)
RecordSpending(s, signer, address, fee) ==
    LET k == session_key(signer, address)
    IN  IF address # NoAddress /\ Has(s, k)
        THEN Put(s, k, [s[k] EXCEPT !.amount_spent = WrapAdd(@, fee)])
        ELSE s
-----------------------------------------------------------------------------
CONSTANTS base_gas, gas_per_byte, min_gas_price, max_block_gas, burn_bps,
          treasury_bps, block_reward, Treasury

(* Executor::new refuses a fee distribution above the whole.               *)
ASSUME ExecutorAssumption == burn_bps + treasury_bps <= 10000

(* GasSchedule::action_gas.                                                *)
FlatGas ==
    [Transfer |-> 1, CreateAssetClass |-> 10, MintAsset |-> 6, TransferAsset |-> 2,
     BurnAsset |-> 2, CreateListing |-> 8, CancelListing |-> 4, BuyListing |-> 12,
     CreateProfile |-> 6, AddAchievement |-> 4, UpdateReputation |-> 3,
     RegisterValidator |-> 20, DelegateStake |-> 6, UndelegateStake |-> 6,
     RegisterAttestor |-> 10, SubmitMatchResult |-> 16, DistributeReward |-> 8,
     SubmitProposal |-> 20, VoteProposal |-> 6, ExecuteProposal |-> 10,
     CreateSession |-> 10, RevokeSession |-> 4, ListForRent |-> 6, RentAsset |-> 8,
     ReturnRental |-> 5, ClaimExpiredRental |-> 5, CancelRentalListing |-> 4,
     CreateGuild |-> 10, JoinGuild |-> 4, LeaveGuild |-> 4, GuildDeposit |-> 5,
     GuildWithdraw |-> 5, GuildPromote |-> 3, GuildKick |-> 4,
     CreateTournament |-> 10, JoinTournament |-> 5, StartTournament |-> 6,
     ReportTournamentResults |-> 8, ClaimTournamentPrize |-> 5, CancelTournament |-> 6]

ActionGas(a) ==
    FlatGas[a.kind] + (CASE a.kind = "DistributeReward" -> Len(a.rewards)
                         [] a.kind = "ReportTournamentResults" -> Len(a.rankings)
                         [] OTHER -> 0)

(* GasSchedule::total_gas and fee.                                         *)
TotalGas(tx) == base_gas + ActionGas(tx.action) + tx.size * gas_per_byte
FeeOf(tx) == SatMul(TotalGas(tx), min_gas_price)

(* dispatch_action, by groups of actions.                                  *)
DispatchAssets(s, signer, a, timestamp) ==
    CASE a.kind = "Transfer" -> ExecuteTransfer(s, signer, a.to, a.amount)
      [] a.kind = "CreateAssetClass" ->
            ExecuteCreateAssetClass(s, signer, a.name, a.max_supply, timestamp)
      [] a.kind = "MintAsset" -> ExecuteMintAsset(s, signer, a.class, a.to, a.amount)
      [] a.kind = "TransferAsset" -> ExecuteTransferAsset(s, signer, a.class, a.to, a.amount)
      [] a.kind = "BurnAsset" -> ExecuteBurnAsset(s, signer, a.class, a.amount)
      [] a.kind = "CreateListing" ->
            ExecuteCreateListing(s, signer, a.class, a.amount, a.price, timestamp)
      [] a.kind = "CancelListing" -> ExecuteCancelListing(s, signer, a.id)
      [] a.kind = "BuyListing" -> ExecuteBuyListing(s, signer, a.id)

DispatchIdentity(s, signer, a) ==
    CASE a.kind = "CreateProfile" -> ExecuteCreateProfile(s, signer, a.display_name)
      [] a.kind = "AddAchievement" -> ExecuteAddAchievement(s, signer, a.player, a.name)
      [] a.kind = "UpdateReputation" -> ExecuteUpdateReputation(s, signer, a.player, a.delta)

DispatchAttestation(s, signer, a) ==
    CASE a.kind = "RegisterAttestor" -> ExecuteRegisterAttestor(s, signer, a.game_id)
      [] a.kind = "SubmitMatchResult" -> ExecuteSubmitMatchResult(s, signer, a.match, a.result)
      [] a.kind = "DistributeReward" -> ExecuteDistributeReward(s, signer, a.match, a.rewards)

DispatchStaking(s, signer, a, height) ==
    CASE a.kind = "RegisterValidator" -> ExecuteRegisterValidator(s, signer, a.commission_bps)
      [] a.kind = "DelegateStake" -> ExecuteDelegateStake(s, signer, a.validator, a.amount, height)
      [] a.kind = "UndelegateStake" ->
            ExecuteUndelegateStake(s, signer, a.validator, a.amount, height)

DispatchGovernance(s, signer, a, height) ==
    CASE a.kind = "SubmitProposal" ->
            ExecuteSubmitProposal(s, signer, a.proposal, a.name, a.deposit, height)
      [] a.kind = "VoteProposal" -> ExecuteVoteProposal(s, signer, a.id, a.option, height)
      [] a.kind = "ExecuteProposal" -> ExecuteExecuteProposal(s, a.id, height)
      [] a.kind = "CreateSession" ->
            ExecuteCreateSession(s, signer, a.address, a.permissions, a.expires_at,
                                 a.limit, height)
      [] a.kind = "RevokeSession" -> ExecuteRevokeSession(s, signer, a.address)

DispatchRental(s, signer, a, timestamp, height) ==
    CASE a.kind = "ListForRent" ->
            ExecuteListForRent(s, signer, a.class, a.name, a.price, a.deposit, a.min,
                               a.max, timestamp)
      [] a.kind = "RentAsset" -> ExecuteRentAsset(s, signer, a.id, a.duration, height)
      [] a.kind = "ReturnRental" -> ExecuteReturnRental(s, signer, a.id, height)
      [] a.kind = "ClaimExpiredRental" -> ExecuteClaimExpiredRental(s, a.id, height)
      [] a.kind = "CancelRentalListing" -> ExecuteCancelRentalListing(s, signer, a.id)

DispatchGuild(s, signer, a, timestamp) ==
    CASE a.kind = "CreateGuild" -> ExecuteCreateGuild(s, signer, a.name, a.max, timestamp)
      [] a.kind = "JoinGuild" -> ExecuteJoinGuild(s, signer, a.id)
      [] a.kind = "LeaveGuild" -> ExecuteLeaveGuild(s, signer, a.id)
      [] a.kind = "GuildDeposit" -> ExecuteGuildDeposit(s, signer, a.id, a.amount)
      [] a.kind = "GuildWithdraw" -> ExecuteGuildWithdraw(s, signer, a.id, a.amount)
      [] a.kind = "GuildPromote" -> ExecuteGuildPromote(s, signer, a.id, a.member, a.role)
      [] a.kind = "GuildKick" -> ExecuteGuildKick(s, signer, a.id, a.member)

DispatchTournament(s, signer, a, height) ==
    CASE a.kind = "CreateTournament" ->
            ExecuteCreateTournament(s, signer, a.name, a.entry_fee, a.max, a.min,
                                    a.start_height, a.shares)
      [] a.kind = "JoinTournament" -> ExecuteJoinTournament(s, signer, a.id)
      [] a.kind = "StartTournament" -> ExecuteStartTournament(s, a.id, height)
      [] a.kind = "ReportTournamentResults" ->
            ExecuteReportTournamentResults(s, signer, a.id, a.rankings)
      [] a.kind = "ClaimTournamentPrize" -> ExecuteClaimTournamentPrize(s, signer, a.id)
      [] a.kind = "CancelTournament" -> ExecuteCancelTournament(s, signer, a.id)

AssetKinds == {"Transfer", "CreateAssetClass", "MintAsset", "TransferAsset", "BurnAsset",
               "CreateListing", "CancelListing", "BuyListing"}
IdentityKinds == {"CreateProfile", "AddAchievement", "UpdateReputation"}
StakingKinds == {"RegisterValidator", "DelegateStake", "UndelegateStake"}
GovernanceKinds == {"SubmitProposal", "VoteProposal", "ExecuteProposal", "CreateSession",
                    "RevokeSession"}
RentalKinds == {"ListForRent", "RentAsset", "ReturnRental", "ClaimExpiredRental",
                "CancelRentalListing"}
GuildKinds == {"CreateGuild", "JoinGuild", "LeaveGuild", "GuildDeposit", "GuildWithdraw",
               "GuildPromote", "GuildKick"}
TournamentKinds == {"CreateTournament", "JoinTournament", "StartTournament",
                    "ReportTournamentResults", "ClaimTournamentPrize", "CancelTournament"}

DispatchAction(s, signer, a, timestamp, height) ==
    CASE a.kind \in AssetKinds -> DispatchAssets(s, signer, a, timestamp)
      [] a.kind \in IdentityKinds -> DispatchIdentity(s, signer, a)
      [] a.kind \in StakingKinds -> DispatchStaking(s, signer, a, height)
      [] a.kind \in GovernanceKinds -> DispatchGovernance(s, signer, a, height)
      [] a.kind \in RentalKinds -> DispatchRental(s, signer, a, timestamp, height)
      [] a.kind \in GuildKinds -> DispatchGuild(s, signer, a, timestamp)
      [] a.kind \in TournamentKinds -> DispatchTournament(s, signer, a, height)
      [] OTHER -> DispatchAttestation(s, signer, a)

FeePayer(tx) == IF tx.sponsor = NoAddress THEN tx.signer ELSE tx.sponsor

(* The checks before anything is written.                                  *)
CanCharge(s, tx) ==
    /\ tx.max_fee >= FeeOf(tx)
    /\ Has(s, account_key(tx.signer))
    /\ CanAfford(s, FeePayer(tx), FeeOf(tx))

IncrementNonce(s, a) ==
    Put(s, account_key(a), [s[account_key(a)] EXCEPT !.nonce = @ + 1])

CreditSome(s, a, amount) == IF amount > 0 THEN Credit(s, a, amount) ELSE s

(* The fee is deducted and the nonce incremented; then the fee is split    *)
(* into a burned share, the treasury's and the proposer's, which takes the *)
(* rounding.                                                               *)
ChargeFee(s, tx, proposer) ==
    LET fee == FeeOf(tx)
        burn == Bps(fee, burn_bps)
        treasury == Bps(fee, treasury_bps)
        rest == fee - burn - treasury
        charged == IncrementNonce(Debit(s, FeePayer(tx), fee), tx.signer)
        shared == CreditSome(CreditSome(charged, Treasury, treasury), proposer, rest)
    IN  IF fee = 0 THEN charged
        ELSE Put(shared, supply_info_key,
                 [s[supply_info_key] EXCEPT !.total_burned = SatAdd(@, burn),
                                            !.total_supply = SatSub(@, burn),
                                            !.treasury_balance = SatAdd(@, treasury),
                                            !.total_fees_collected = SatAdd(@, fee)])

(* What becomes of a charged transaction whose handler returned r.  One    *)
(* whose action fails keeps its fee and what the handler wrote; a panic is *)
(* reported as a rejection, although the fee was taken.                    *)
Receipt(r, tx) ==
    CASE r.res = "ok" ->
             [s |-> RecordSpending(r.s, tx.signer, tx.session, FeeOf(tx)), res |-> "ok",
              fee |-> FeeOf(tx), gas |-> TotalGas(tx)]
      [] r.res = "err" -> [s |-> r.s, res |-> "err", fee |-> FeeOf(tx), gas |-> TotalGas(tx)]
      [] OTHER -> [s |-> r.s, res |-> "rejected", fee |-> 0, gas |-> 0]

(* execute_transaction under execute_transaction_safe.  A transaction that *)
(* cannot be charged is rejected and nothing is written.                   *)
ExecuteTransaction(s, tx, height, proposer) ==
    IF CanCharge(s, tx)
    THEN Receipt(DispatchAction(ChargeFee(s, tx, proposer), tx.signer, tx.action,
                                tx.timestamp, height), tx)
    ELSE [s |-> s, res |-> "rejected", fee |-> 0, gas |-> 0]

(* apply_block_reward.                                                     *)
ApplyBlockReward(s, proposer) ==
    LET paid == Mint(Credit(s, proposer, block_reward), block_reward)
        v == validator_key(proposer)
    IN  IF block_reward = 0 \/ proposer = ZERO THEN s
        ELSE IF Has(s, v) THEN Put(paid, v, [s[v] EXCEPT !.blocks_produced = SatAdd(@, 1)])
        ELSE paid
=============================================================================
