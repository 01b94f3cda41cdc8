---------------------------- MODULE TxValidation ----------------------------
(***************************************************************************)
(* The validation of a transaction before it is executed: its form, its    *)
(* input fields, and its nonce, balance and session against the state.     *)
(* The chain id, the hash, the public key and the signature are one field, *)
(* authentic: whether all of these checks pass.  A text is a name; the     *)
(* empty string stands for one whose length or characters are not allowed. *)
(***************************************************************************)
EXTENDS Executor

LOCAL INSTANCE SequencesExt
LOCAL INSTANCE FiniteSetsExt

CONSTANTS max_transaction_size, max_guild_members, max_prize_entries

IsText(x) == x # ""
IsId(x) == x # ZERO

(* validate_transaction_input, by groups of actions.  A group without      *)
(* checks of its own is TRUE.                                              *)
ValidAssetInput(signer, a) ==
    CASE a.kind = "Transfer" -> a.amount > 0 /\ a.to \notin {signer, ZERO}
      [] a.kind = "CreateAssetClass" -> IsText(a.name) /\ a.max_supply # 0
      [] a.kind = "TransferAsset" -> a.amount > 0 /\ a.to # signer
      [] a.kind \in {"MintAsset", "BurnAsset"} -> a.amount > 0
      [] a.kind = "CreateListing" -> a.amount > 0 /\ a.price > 0
      [] a.kind = "BuyListing" -> IsId(a.id)
      [] a.kind = "CancelListing" -> TRUE

ValidIdentityInput(a) ==
    CASE a.kind = "CreateProfile" -> IsText(a.display_name)
      [] a.kind = "AddAchievement" -> IsText(a.name)
      [] a.kind = "UpdateReputation" -> a.delta # 0

ValidAttestationInput(a) ==
    CASE a.kind = "RegisterAttestor" -> IsText(a.game_id)
      [] a.kind = "SubmitMatchResult" ->
            /\ a.result.players # <<>> /\ a.result.winners # <<>>
            /\ Len(a.result.scores) = Len(a.result.players)
            /\ ToSet(a.result.winners) \subseteq ToSet(a.result.players)
      [] a.kind = "DistributeReward" ->
            a.rewards # <<>> /\ \A i \in DOMAIN a.rewards : a.rewards[i][2] > 0

ValidStakingInput(a) ==
    CASE a.kind = "RegisterValidator" -> a.commission_bps <= max_commission_bps
      [] OTHER -> a.amount > 0

ValidGovernanceInput(a) == a.kind = "SubmitProposal" => IsText(a.name) /\ a.deposit > 0

ValidRentalInput(a) ==
    CASE a.kind = "ListForRent" ->
            /\ IsId(a.class) /\ IsId(a.name) /\ a.price > 0 /\ a.min > 0 /\ a.max >= a.min
      [] a.kind = "RentAsset" -> IsId(a.id) /\ a.duration > 0
      [] OTHER -> IsId(a.id)

ValidGuildInput(a) ==
    CASE a.kind = "CreateGuild" -> IsText(a.name) /\ a.max \in 1..max_guild_members
      [] a.kind \in {"GuildDeposit", "GuildWithdraw"} -> IsId(a.id) /\ a.amount > 0
      [] a.kind = "GuildPromote" -> IsId(a.id) /\ a.role \in {"Officer", "Member"}
      [] OTHER -> IsId(a.id)

ValidTournamentInput(a) ==
    CASE a.kind = "CreateTournament" ->
            /\ IsText(a.name) /\ a.min >= 2 /\ a.max >= a.min
            /\ Len(a.shares) \in 1..max_prize_entries
            /\ FoldLeft(+, 0, a.shares) % (MaxU32 + 1) = 100
            /\ \A i \in DOMAIN a.shares : a.shares[i] \in 1..100
      [] a.kind = "ReportTournamentResults" -> IsId(a.id) /\ a.rankings # <<>>
      [] OTHER -> IsId(a.id)

ValidateInput(tx) ==
    LET a == tx.action
    IN  CASE a.kind \in AssetKinds -> ValidAssetInput(tx.signer, a)
          [] a.kind \in IdentityKinds -> ValidIdentityInput(a)
          [] a.kind \in StakingKinds -> ValidStakingInput(a)
          [] a.kind \in GovernanceKinds -> ValidGovernanceInput(a)
          [] a.kind \in RentalKinds -> ValidRentalInput(a)
          [] a.kind \in GuildKinds -> ValidGuildInput(a)
          [] a.kind \in TournamentKinds -> ValidTournamentInput(a)
          [] OTHER -> ValidAttestationInput(a)

(* validate_stateless_with_config.                                         *)
ValidateStateless(tx) ==
    /\ tx.signer # ZERO
    /\ tx.max_fee > 0
    /\ tx.sponsor \notin {ZERO, tx.signer}
    /\ tx.size <= max_transaction_size
    /\ tx.authentic
    /\ ValidateInput(tx)

(* What the action itself takes from the signer, for the two actions the   *)
(* validation looks at.                                                    *)
SpentByAction(a) == IF a.kind \in {"Transfer", "DelegateStake"} THEN a.amount ELSE 0

(* Fault: the amount and the fee are compared with the balance separately. *)
ValidateBalanceApart(s, tx) ==
    /\ CanAfford(s, FeePayer(tx), tx.max_fee)
    /\ Balance(s, tx.signer) >= SpentByAction(tx.action)

(* The sponsor covers the fee and the signer the amount, or the signer     *)
(* covers both.                                                            *)
ValidateBalance(s, tx) ==
    IF tx.sponsor # NoAddress
    THEN /\ CanAfford(s, tx.sponsor, tx.max_fee)
         /\ Balance(s, tx.signer) >= SpentByAction(tx.action)
    ELSE Balance(s, tx.signer) >= SatAdd(SpentByAction(tx.action), tx.max_fee)

(* Fault: the spending limit is not looked at.                             *)
ValidateSessionUnlimited(s, tx, height) ==
    LET k == session_key(tx.signer, tx.session)
    IN  tx.session # NoAddress =>
            /\ Has(s, k)
            /\ IsValidGrant(s[k], height)
            /\ IsActionPermitted(s[k], tx.action.kind)

ValidateSession(s, tx, height) ==
    LET k == session_key(tx.signer, tx.session)
    IN  tx.session # NoAddress =>
            /\ Has(s, k)
            /\ IsValidGrant(s[k], height)
            /\ IsActionPermitted(s[k], tx.action.kind)
            /\ CanSpend(s[k], tx.max_fee)

(* validate_stateful_at_height; validate_stateful is this at height 0.     *)
ValidateStateful(s, tx, height) ==
    /\ Has(s, account_key(tx.signer))
    /\ tx.nonce = s[account_key(tx.signer)].nonce
    /\ ValidateBalance(s, tx)
    /\ ValidateSession(s, tx, IF height > 0 THEN height ELSE s[chain_height_key])
=============================================================================
