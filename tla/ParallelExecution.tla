------------------------- MODULE ParallelExecution --------------------------
(***************************************************************************)
(* The parallel executor, which produces a block when parallel_execution   *)
(* is configured: the block is scheduled by predicted access sets, and the *)
(* transactions of a batch execute on overlays of one store, whose writes  *)
(* are then flushed in their order.  Unbondings and the gas limit of the   *)
(* block are not looked at, and a panic is not caught.                     *)
(***************************************************************************)
EXTENDS Executor, Scheduler

LOCAL INSTANCE SequencesExt

(***************************************************************************)
(* The keys the parallel scheduler predicts a transaction to touch.  A key *)
(* that is both read and written is listed with the writes only: this      *)
(* changes no conflict.                                                    *)
(***************************************************************************)

(* The balance prefix, which the handlers do not use.                      *)
balance_key(a) == <<"balance", a>>

AccountKeys(a) == {account_key(a), balance_key(a)}

AssetWrites(signer, a) ==
    CASE a.kind = "Transfer" -> AccountKeys(a.to)
      [] a.kind = "MintAsset" -> {asset_class_key(a.class), asset_balance_key(a.class, a.to)}
      [] a.kind = "TransferAsset" ->
            {asset_balance_key(a.class, signer), asset_balance_key(a.class, a.to)}
      [] a.kind = "BurnAsset" -> {asset_class_key(a.class), asset_balance_key(a.class, signer)}
      [] a.kind = "CreateListing" -> {asset_balance_key(a.class, signer)}
      [] a.kind \in {"CancelListing", "BuyListing"} -> {listing_key(a.id)}
      [] a.kind = "CreateAssetClass" -> {}

IdentityWrites(signer, a) ==
    CASE a.kind = "CreateProfile" -> {profile_key(signer)}
      [] a.kind = "AddAchievement" -> {achievement_key(a.player, a.name)}
      [] a.kind = "UpdateReputation" -> {profile_key(a.player)}

StakingWrites(signer, a) ==
    CASE a.kind = "RegisterValidator" -> {validator_key(signer)}
      [] OTHER -> {validator_key(a.validator), delegation_key(signer, a.validator)}

AttestationWrites(signer, a) ==
    CASE a.kind = "RegisterAttestor" -> {attestor_key(signer)}
      [] a.kind = "SubmitMatchResult" ->
            {match_result_key(a.match), match_settlement_key(a.match)}
      [] a.kind = "DistributeReward" ->
            {match_settlement_key(a.match)}
                \cup {balance_key(a.rewards[i][1]) : i \in DOMAIN a.rewards}

GovernanceWrites(signer, a) ==
    CASE a.kind = "SubmitProposal" -> {}
      [] a.kind = "VoteProposal" -> {proposal_key(a.id), vote_key(a.id, signer)}
      [] a.kind = "ExecuteProposal" -> {proposal_key(a.id)}
      [] OTHER -> {session_key(signer, a.address)}

RentalWrites(signer, a) ==
    CASE a.kind = "ListForRent" -> {asset_balance_key(a.class, signer)}
      [] OTHER -> {rental_key(a.id)}

GuildWrites(signer, a) ==
    CASE a.kind = "CreateGuild" -> {}
      [] a.kind \in {"JoinGuild", "LeaveGuild"} ->
            {guild_key(a.id), guild_member_key(a.id, signer), member_guilds_key(signer, a.id)}
      [] a.kind \in {"GuildDeposit", "GuildWithdraw"} -> {guild_key(a.id)}
      [] a.kind = "GuildPromote" -> {guild_member_key(a.id, a.member)}
      [] a.kind = "GuildKick" ->
            {guild_key(a.id), guild_member_key(a.id, a.member),
             member_guilds_key(a.member, a.id)}

GuildReads(signer, a) ==
    CASE a.kind \in {"GuildDeposit", "GuildWithdraw", "GuildKick"} ->
            {guild_member_key(a.id, signer)}
      [] a.kind = "GuildPromote" -> {guild_key(a.id), guild_member_key(a.id, signer)}
      [] OTHER -> {}

TournamentWrites(signer, a) ==
    CASE a.kind = "CreateTournament" -> {}
      [] a.kind = "JoinTournament" ->
            {tournament_key(a.id), tournament_participant_key(a.id, signer)}
      [] OTHER -> {tournament_key(a.id)}

ActionWrites(signer, a) ==
    CASE a.kind \in AssetKinds -> AssetWrites(signer, a)
      [] a.kind \in StakingKinds -> StakingWrites(signer, a)
      [] a.kind \in GovernanceKinds -> GovernanceWrites(signer, a)
      [] a.kind \in RentalKinds -> RentalWrites(signer, a)
      [] a.kind \in GuildKinds -> GuildWrites(signer, a)
      [] a.kind \in TournamentKinds -> TournamentWrites(signer, a)
      [] a.kind \in IdentityKinds -> IdentityWrites(signer, a)
      [] OTHER -> AttestationWrites(signer, a)

(* Fault: the sponsor's account is not among the writes.                   *)
PredictAccessSetUnsponsored(tx) ==
    [reads |-> IF tx.action.kind \in GuildKinds THEN GuildReads(tx.signer, tx.action) ELSE {},
     writes |-> AccountKeys(tx.signer) \cup ActionWrites(tx.signer, tx.action)]

(* predict_access_set.                                                     *)
PredictAccessSet(tx) ==
    [reads |-> IF tx.action.kind \in GuildKinds THEN GuildReads(tx.signer, tx.action) ELSE {},
     writes |-> AccountKeys(tx.signer) \cup AccountKeys(FeePayer(tx))
                    \cup ActionWrites(tx.signer, tx.action)]
-----------------------------------------------------------------------------
(* A block is a sequence of positions in Pool, of at most BlockSize.       *)
CONSTANTS Pool, BlockSize, PoolStart, PoolProposer

VARIABLES block, committed, executed, receipts

parallelVars == <<access, batches, next, block, committed, executed, receipts>>

ParallelInit ==
    /\ block \in UNION {[1..n -> DOMAIN Pool] : n \in 0..BlockSize}
    /\ access = [i \in DOMAIN block |-> PredictAccessSet(Pool[block[i]])]
    /\ SchedulerInit
    /\ committed = PoolStart /\ executed = 0
    /\ receipts = [i \in DOMAIN block |-> "none"]

Schedule == SchedulerNext /\ UNCHANGED <<block, committed, executed, receipts>>

Run(s, t) == ExecuteTransaction(s, Pool[block[t]], 1, PoolProposer)

(* The keys an overlay of s holds when a transaction left it as o.  A      *)
(* write of the value the key had is not told apart from no write; no      *)
(* handler makes one for the transactions of the pool.                     *)
Written(s, o) ==
    {k \in DOMAIN s \cup DOMAIN o : ~(k \in DOMAIN s /\ k \in DOMAIN o /\ s[k] = o[k])}

WriteSet(s, t) == Written(s, Run(s, t).s)

(* Flush one overlay over what the earlier ones left in the store.         *)
Flush(s, flushed, o) ==
    [k \in (DOMAIN flushed \ Written(s, o)) \cup (DOMAIN o \cap Written(s, o)) |->
        IF k \in Written(s, o) THEN o[k] ELSE flushed[k]]

(* execute_batch_parallel.                                                 *)
ExecuteBatch ==
    /\ Scheduled /\ executed < Len(batches)
    /\ \E outcomes \in {[t \in InBatch(executed + 1) |-> Run(committed, t)]} :
          /\ committed' = FoldLeft(LAMBDA flushed, t : Flush(committed, flushed, outcomes[t].s),
                                   committed, batches[executed + 1])
          /\ receipts' = [t \in DOMAIN block |->
                             IF t \in DOMAIN outcomes THEN outcomes[t].res ELSE receipts[t]]
    /\ executed' = executed + 1
    /\ UNCHANGED <<access, batches, next, block>>

ParallelNext == Schedule \/ ExecuteBatch

ParallelSpec == ParallelInit /\ [][ParallelNext]_parallelVars
-----------------------------------------------------------------------------
(* Every transaction shares the accounts of proposer and treasury and the  *)
(* supply record, for its fee; no prediction has them.                     *)
FeeKeys == {account_key(PoolProposer), account_key(Treasury), supply_info_key}

(* The execution of the batches one after the other, in order.             *)
Serial ==
    FoldLeft(LAMBDA r, t : LET o == Run(r.s, t)
                           IN  [s |-> o.s, receipts |-> [r.receipts EXCEPT ![t] = o.res]],
             [s |-> PoolStart, receipts |-> [i \in DOMAIN block |-> "none"]],
             FlattenSeq(batches))

(* Running the transactions of a batch on their own overlays gives the     *)
(* store and the results of running them one after the other, but for the  *)
(* fee records: for actions whose prediction is complete, the overlays of  *)
(* a batch do not hide each other's writes.                                *)
ParallelIsSerial ==
    Scheduled /\ executed = Len(batches) =>
        \E serial \in {Serial} :
            /\ receipts = serial.receipts
            /\ DOMAIN committed = DOMAIN serial.s
            /\ \A k \in DOMAIN committed \ FeeKeys : committed[k] = serial.s[k]

(* Two transactions of a batch that is about to run write no key in common *)
(* but the fee records: what they write is among the keys predicted for    *)
(* them, on the store the batches before have left.                        *)
WriteSetsMeetInFees ==
    Scheduled /\ executed < Len(batches) =>
        \A t, u \in InBatch(executed + 1) :
            t # u => WriteSet(committed, t) \cap WriteSet(committed, u) \subseteq FeeKeys

(* Executing a block in batches gives what executing the batches in order  *)
(* gives: every transaction is in its earliest batch, the write sets of a  *)
(* batch meet in the fee records only, and the flushed store is the serial *)
(* one but for these.                                                      *)
ParallelIsFaithful == EarliestBatch /\ WriteSetsMeetInFees /\ ParallelIsSerial
=============================================================================
