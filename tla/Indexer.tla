------------------------------ MODULE Indexer -------------------------------
(***************************************************************************)
(* The indexer: a loop that polls the node for new blocks and writes what  *)
(* their transactions say into a database.  Every statement is committed   *)
(* by itself, and indexed_height is written after the last statement of a  *)
(* block; a statement or a request that fails ends the tick, and so does a *)
(* crash.  The next tick starts with the block after indexed_height.       *)
(*                                                                         *)
(* A transaction is a record of its hash, its signer and its action.  The  *)
(* indexer does not look at receipts, so what it does for a transaction is *)
(* the same whether the transaction succeeded or not.                      *)
(***************************************************************************)
EXTENDS Integers, FiniteSets, TLC, Sequences

LOCAL INSTANCE SequencesExt
LOCAL INSTANCE FiniteSetsExt

(***************************************************************************)
(* The database of the indexer: one operator for every SQL statement the   *)
(* indexer sends.  A database is a function from the keys of its rows to   *)
(* the rows; a key is a tuple that starts with the name of the table.      *)
(* Columns no statement reads or changes later are left out.               *)
(***************************************************************************)

(* ON CONFLICT DO NOTHING; ON CONFLICT DO UPDATE; and UPDATE ... WHERE.    *)
InsertNew(d, k, row) == IF k \in DOMAIN d THEN d ELSE (k :> row) @@ d
Update(d, k, change(_)) == IF k \in DOMAIN d THEN [d EXCEPT ![k] = change(@)] ELSE d
Upsert(d, k, row, change(_)) ==
    IF k \in DOMAIN d THEN [d EXCEPT ![k] = change(@)] ELSE (k :> row) @@ d

indexed_height == <<"indexer_state">>

GetIndexedHeight(d) == IF indexed_height \in DOMAIN d THEN d[indexed_height] ELSE 0
SetIndexedHeight(d, h) == (indexed_height :> h) @@ d

InsertBlock(d, h) == InsertNew(d, <<"blocks", h>>, TRUE)

(* Fault: the table of transactions has no key.                            *)
InsertTransactionAgain(d, t, h, i) ==
    IF <<"transactions", t.hash>> \in DOMAIN d
    THEN (<<"transactions", t.hash, "again">> :> <<h, i>>) @@ d
    ELSE (<<"transactions", t.hash>> :> <<h, i>>) @@ d

InsertTransaction(d, t, h, i) == InsertNew(d, <<"transactions", t.hash>>, <<h, i>>)

(* Fault: an account that is known is left as it is.                       *)
UpsertAccountOnce(d, a) ==
    InsertNew(d, <<"accounts", a>>, [tx_count |-> 1, balance_at |-> 0])

(* An account: the transactions that name it and the height the chain had  *)
(* when its balance was read.                                              *)
UpsertAccount(d, a) ==
    Upsert(d, <<"accounts", a>>, [tx_count |-> 1, balance_at |-> 0],
           LAMBDA row : [row EXCEPT !.tx_count = @ + 1])
UpdateAccountBalance(d, a, tip) ==
    Update(d, <<"accounts", a>>, LAMBDA row : [row EXCEPT !.balance_at = tip])

InsertAssetClass(d, id) == InsertNew(d, <<"asset_classes", id>>, TRUE)
CreditAssetBalance(d, class, owner, amount) ==
    Upsert(d, <<"asset_balances", class, owner>>, amount, LAMBDA n : n + amount)
DebitAssetBalance(d, class, owner, amount) ==
    Update(d, <<"asset_balances", class, owner>>, LAMBDA n : n - amount)

InsertListing(d, id) == InsertNew(d, <<"listings", id>>, "Active")
MarkListingSold(d, id) == Update(d, <<"listings", id>>, LAMBDA s : "Sold")
MarkListingCancelled(d, id) == Update(d, <<"listings", id>>, LAMBDA s : "Cancelled")

(* The user name of a profile is unique in the table: an insert of another *)
(* address with the name of a profile fails.                               *)
NameTaken(d, a, username) ==
    \E k \in DOMAIN d : k[1] = "player_profiles" /\ k[2] # a /\ d[k].username = username
InsertProfile(d, a, username) ==
    InsertNew(d, <<"player_profiles", a>>,
              [username |-> username, reputation |-> 0, achievement_count |-> 0])
UpdateReputationRow(d, a, delta) ==
    Update(d, <<"player_profiles", a>>, LAMBDA p : [p EXCEPT !.reputation = @ + delta])
InsertAchievement(d, a, id) == InsertNew(d, <<"achievements", a, id>>, TRUE)
BumpAchievementCount(d, a) ==
    Update(d, <<"player_profiles", a>>, LAMBDA p : [p EXCEPT !.achievement_count = @ + 1])

UpsertValidator(d, v, bps) ==
    Upsert(d, <<"validators", v>>, [commission_bps |-> bps, blocks_produced |-> 0],
           LAMBDA row : [row EXCEPT !.commission_bps = bps])
IncrementBlocksProduced(d, v) ==
    Update(d, <<"validators", v>>, LAMBDA row : [row EXCEPT !.blocks_produced = @ + 1])
AddDelegation(d, a, v, amount) ==
    Upsert(d, <<"delegations", a, v>>, amount, LAMBDA n : n + amount)
RemoveDelegation(d, a, v, amount) ==
    Update(d, <<"delegations", a, v>>, LAMBDA n : n - amount)

InsertAttestor(d, a, game) ==
    Upsert(d, <<"attestors", a>>, game, LAMBDA g : game)

(* The rows of reward_distributions have no key: equal rows are counted.   *)
InsertRewardDistribution(d, match, player, amount, h) ==
    Upsert(d, <<"reward_distributions", match, player, amount, h>>, 1, LAMBDA n : n + 1)
UpdateMatchSettled(d, match) == Update(d, <<"match_results", match>>, LAMBDA s : TRUE)
InsertMatchResult(d, match) == InsertNew(d, <<"match_results", match>>, FALSE)

InsertProposal(d, id) ==
    InsertNew(d, <<"proposals", id>>,
              [status |-> "Voting", Yes |-> 0, No |-> 0, Abstain |-> 0])
InsertVote(d, id, voter, option) == (<<"votes", id, voter>> :> option) @@ d
UpdateProposalStatus(d, id, status) ==
    Update(d, <<"proposals", id>>, LAMBDA p : [p EXCEPT !.status = status])

VotesFor(d, id, option) ==
    Cardinality({k \in DOMAIN d : k[1] = "votes" /\ k[2] = id /\ d[k] = option})
RecomputeProposalTallies(d, id) ==
    Update(d, <<"proposals", id>>,
           LAMBDA p : [p EXCEPT !.Yes = VotesFor(d, id, "Yes"),
                                !.No = VotesFor(d, id, "No"),
                                !.Abstain = VotesFor(d, id, "Abstain")])

InsertSession(d, granter, a) ==
    Upsert(d, <<"sessions", granter, a>>, [revoked |-> FALSE],
           LAMBDA s : [s EXCEPT !.revoked = FALSE])
RevokeSession(d, granter, a) ==
    Update(d, <<"sessions", granter, a>>, LAMBDA s : [s EXCEPT !.revoked = TRUE])
-----------------------------------------------------------------------------
(* ChainBlocks[h] are the blocks the chain may have at height h,           *)
(* StartHeights the heights that may be given on the command line.         *)
CONSTANTS ChainBlocks, StartHeights, MaxInterruptions

(* chain[h] is the block of height h; there is no block at height 0.       *)
(* ix_block is the height being indexed (-1 between two ticks), ix_end the *)
(* last height of the tick, ix_step the next statement.  ix_dirty tells    *)
(* that some statements of the block after indexed_height were executed.   *)
VARIABLES start_height, chain, db, ix_block, ix_end, ix_step, ix_dirty, interruptions

indexerVars == <<start_height, chain, db, ix_block, ix_end, ix_step, ix_dirty, interruptions>>

-----------------------------------------------------------------------------
(* The statements of a transaction.  The result of one with ok = TRUE is   *)
(* ignored.                                                                *)
Do(f, args) == [f |-> f, args |-> args, ok |-> FALSE]
TryDo(f, args) == [f |-> f, args |-> args, ok |-> TRUE]

Touch(a) == TryDo("upsert_account", <<a>>)
Refresh(a) == TryDo("update_account_balance", <<a>>)

(* handle_transfer, handle_create_asset_class, ...  Ids of new classes,    *)
(* listings and proposals are made from the signer and the height.         *)
HandleTransfer(a) == <<Touch(a.to), Refresh(a.to)>>
HandleCreateAssetClass(signer, h) == <<Do("insert_asset_class", <<<<signer, h>>>>)>>
HandleMintAsset(a) ==
    <<Do("credit_asset_balance", <<a.class, a.to, a.amount>>), Touch(a.to)>>
HandleTransferAsset(a, signer) ==
    <<Do("debit_asset_balance", <<a.class, signer, a.amount>>),
      Do("credit_asset_balance", <<a.class, a.to, a.amount>>), Touch(a.to)>>
HandleBurnAsset(a, signer) == <<Do("debit_asset_balance", <<a.class, signer, a.amount>>)>>
HandleCreateListing(signer, h) == <<Do("insert_listing", <<<<signer, h>>>>)>>
HandleCancelListing(a) == <<Do("mark_listing_cancelled", <<a.id>>)>>
HandleBuyListing(a) == <<Do("mark_listing_sold", <<a.id>>)>>
HandleCreateProfile(a, signer) == <<Do("insert_profile", <<signer, a.username>>)>>
HandleAddAchievement(a) ==
    <<Do("insert_achievement", <<a.player, a.id>>), Do("bump_achievement_count", <<a.player>>)>>
HandleUpdateReputation(a) == <<Do("update_reputation", <<a.player, a.delta>>)>>
HandleRegisterValidator(a, signer) == <<Do("upsert_validator", <<signer, a.commission_bps>>)>>
HandleDelegateStake(a, signer) == <<Do("add_delegation", <<signer, a.validator, a.amount>>)>>
HandleUndelegateStake(a, signer) == <<Do("remove_delegation", <<signer, a.validator, a.amount>>)>>
HandleSubmitMatchResult(a) == <<Do("insert_match_result", <<a.match>>)>>
HandleRegisterAttestor(a, signer) == <<Do("insert_attestor", <<signer, a.game_id>>)>>
HandleDistributeReward(a, h) ==
    FlattenSeq([i \in DOMAIN a.rewards |->
        <<Do("insert_reward_distribution", <<a.match, a.rewards[i][1], a.rewards[i][2], h>>),
          Touch(a.rewards[i][1])>>])
        \o <<Do("update_match_settled", <<a.match>>)>>
HandleSubmitProposal(signer, h) == <<Do("insert_proposal", <<<<signer, h>>>>)>>
HandleVoteProposal(a, signer) ==
    <<Do("insert_vote", <<a.id, signer, a.option>>), Do("recompute_proposal_tallies", <<a.id>>)>>
HandleExecuteProposal(a) == <<Do("update_proposal_status", <<a.id, "Executed">>)>>
HandleCreateSession(a, signer) == <<Do("insert_session", <<signer, a.address>>)>>
HandleRevokeSession(a, signer) == <<Do("revoke_session", <<signer, a.address>>)>>

(* dispatch_action.  Rentals, guilds and tournaments are not indexed.      *)
HandleAction(a, signer, h) ==
    CASE a.kind = "Transfer" -> HandleTransfer(a)
      [] a.kind = "CreateAssetClass" -> HandleCreateAssetClass(signer, h)
      [] a.kind = "MintAsset" -> HandleMintAsset(a)
      [] a.kind = "TransferAsset" -> HandleTransferAsset(a, signer)
      [] a.kind = "BurnAsset" -> HandleBurnAsset(a, signer)
      [] a.kind = "CreateListing" -> HandleCreateListing(signer, h)
      [] a.kind = "CancelListing" -> HandleCancelListing(a)
      [] a.kind = "BuyListing" -> HandleBuyListing(a)
      [] a.kind = "CreateProfile" -> HandleCreateProfile(a, signer)
      [] a.kind = "AddAchievement" -> HandleAddAchievement(a)
      [] a.kind = "UpdateReputation" -> HandleUpdateReputation(a)
      [] a.kind = "RegisterValidator" -> HandleRegisterValidator(a, signer)
      [] a.kind = "DelegateStake" -> HandleDelegateStake(a, signer)
      [] a.kind = "UndelegateStake" -> HandleUndelegateStake(a, signer)
      [] a.kind = "SubmitMatchResult" -> HandleSubmitMatchResult(a)
      [] a.kind = "RegisterAttestor" -> HandleRegisterAttestor(a, signer)
      [] a.kind = "DistributeReward" -> HandleDistributeReward(a, h)
      [] a.kind = "SubmitProposal" -> HandleSubmitProposal(signer, h)
      [] a.kind = "VoteProposal" -> HandleVoteProposal(a, signer)
      [] a.kind = "ExecuteProposal" -> HandleExecuteProposal(a)
      [] a.kind = "CreateSession" -> HandleCreateSession(a, signer)
      [] a.kind = "RevokeSession" -> HandleRevokeSession(a, signer)
      [] OTHER -> <<>>

(* index_transaction.                                                      *)
IndexTransaction(t, h, i) ==
    <<Do("insert_transaction", <<t, h, i>>), Do("upsert_account", <<t.signer>>),
      Refresh(t.signer)>> \o HandleAction(t.action, t.signer, h)

(* index_block: the statements of a block.                                 *)
IndexBlock(b, h) ==
    <<Do("insert_block", <<h>>), TryDo("increment_blocks_produced", <<b.proposer>>)>>
        \o FlattenSeq([i \in DOMAIN b.txs |-> IndexTransaction(b.txs[i], h, i)])
        \o <<Do("set_indexed_height", <<h>>)>>

(* Whether a statement is refused by the database.                         *)
Refused(d, st) == st.f = "insert_profile" /\ NameTaken(d, st.args[1], st.args[2])

(* The database after a statement; tip is the height of the chain.         *)
Exec(d, st, tip) ==
    LET x == st.args
    IN  CASE st.f = "set_indexed_height" -> SetIndexedHeight(d, x[1])
          [] st.f = "insert_block" -> InsertBlock(d, x[1])
          [] st.f = "insert_transaction" -> InsertTransaction(d, x[1], x[2], x[3])
          [] st.f = "upsert_account" -> UpsertAccount(d, x[1])
          [] st.f = "update_account_balance" -> UpdateAccountBalance(d, x[1], tip)
          [] st.f = "insert_asset_class" -> InsertAssetClass(d, x[1])
          [] st.f = "credit_asset_balance" -> CreditAssetBalance(d, x[1], x[2], x[3])
          [] st.f = "debit_asset_balance" -> DebitAssetBalance(d, x[1], x[2], x[3])
          [] st.f = "insert_listing" -> InsertListing(d, x[1])
          [] st.f = "mark_listing_sold" -> MarkListingSold(d, x[1])
          [] st.f = "mark_listing_cancelled" -> MarkListingCancelled(d, x[1])
          [] st.f = "insert_profile" -> InsertProfile(d, x[1], x[2])
          [] st.f = "update_reputation" -> UpdateReputationRow(d, x[1], x[2])
          [] st.f = "insert_achievement" -> InsertAchievement(d, x[1], x[2])
          [] st.f = "bump_achievement_count" -> BumpAchievementCount(d, x[1])
          [] st.f = "upsert_validator" -> UpsertValidator(d, x[1], x[2])
          [] st.f = "increment_blocks_produced" -> IncrementBlocksProduced(d, x[1])
          [] st.f = "add_delegation" -> AddDelegation(d, x[1], x[2], x[3])
          [] st.f = "remove_delegation" -> RemoveDelegation(d, x[1], x[2], x[3])
          [] st.f = "insert_attestor" -> InsertAttestor(d, x[1], x[2])
          [] st.f = "insert_reward_distribution" ->
                InsertRewardDistribution(d, x[1], x[2], x[3], x[4])
          [] st.f = "update_match_settled" -> UpdateMatchSettled(d, x[1])
          [] st.f = "insert_match_result" -> InsertMatchResult(d, x[1])
          [] st.f = "insert_proposal" -> InsertProposal(d, x[1])
          [] st.f = "insert_vote" -> InsertVote(d, x[1], x[2], x[3])
          [] st.f = "recompute_proposal_tallies" -> RecomputeProposalTallies(d, x[1])
          [] st.f = "update_proposal_status" -> UpdateProposalStatus(d, x[1], x[2])
          [] st.f = "insert_session" -> InsertSession(d, x[1], x[2])
          [] st.f = "revoke_session" -> RevokeSession(d, x[1], x[2])
-----------------------------------------------------------------------------
Between == -1

(* main: a fresh database is seeded with the height before start_height.   *)
Seeded(d) ==
    IF GetIndexedHeight(d) = 0 /\ start_height > 0
    THEN SetIndexedHeight(d, start_height - 1) ELSE d

IndexerInit ==
    /\ start_height \in StartHeights /\ chain = <<>>
    /\ db = Seeded(<<>>)
    /\ ix_block = Between /\ ix_end = 0 /\ ix_step = 1 /\ ix_dirty = FALSE
    /\ interruptions = 0

(* The node commits a block.                                               *)
ChainGrows ==
    /\ Len(chain) < Len(ChainBlocks)
    /\ \E b \in ChainBlocks[Len(chain) + 1] : chain' = Append(chain, b)
    /\ UNCHANGED <<start_height, db, ix_block, ix_end, ix_step, ix_dirty, interruptions>>

(* Fault: the last height of the chain is left out of the range.           *)
TickExclusive ==
    LET done == GetIndexedHeight(db)
        start == IF done = 0 THEN 0 ELSE done + 1
    IN  /\ ix_block = Between
        /\ ~(Len(chain) <= done /\ done > 0) /\ start < Len(chain)
        /\ ix_block' = start /\ ix_end' = Len(chain) - 1 /\ ix_step' = 1
        /\ UNCHANGED <<start_height, chain, db, ix_dirty, interruptions>>

(* tick: nothing to do, or start with the first block not indexed yet.     *)
Tick ==
    LET done == GetIndexedHeight(db)
        start == IF done = 0 THEN 0 ELSE done + 1
    IN  /\ ix_block = Between
        /\ ~(Len(chain) <= done /\ done > 0) /\ start <= Len(chain)
        /\ ix_block' = start /\ ix_end' = Len(chain) /\ ix_step' = 1
        /\ UNCHANGED <<start_height, chain, db, ix_dirty, interruptions>>

(* The statements of every block, and those of the block being indexed.    *)
StatementsOf ==
    [h \in DOMAIN ChainBlocks |-> [b \in ChainBlocks[h] |-> IndexBlock(b, h)]]
Statements == StatementsOf[ix_block][chain[ix_block]]

(* The request for a block the node does not have fails the tick.          *)
BlockNotFound ==
    /\ ix_block # Between /\ ix_block \notin DOMAIN chain
    /\ ix_block' = Between
    /\ UNCHANGED <<start_height, chain, db, ix_end, ix_step, ix_dirty, interruptions>>

(* The next statement; after the last one, the next block of the tick.     *)
Statement ==
    LET st == Statements[ix_step]
        last == ix_step = Len(Statements)
    IN  /\ ix_block \in DOMAIN chain
        /\ ~Refused(db, st)
        /\ db' = Exec(db, st, Len(chain))
        /\ ix_dirty' = ~last
        /\ ix_step' = IF last THEN 1 ELSE ix_step + 1
        /\ ix_block' = IF ~last THEN ix_block ELSE IF ix_block = ix_end THEN Between
                       ELSE ix_block + 1
        /\ UNCHANGED <<start_height, chain, ix_end, interruptions>>

(* The tick fails.  The block is tried again in every later tick, and what *)
(* is counted in it is counted again: the attempts are bounded.            *)
StatementRefused ==
    /\ ix_block \in DOMAIN chain /\ Refused(db, Statements[ix_step])
    /\ interruptions <= MaxInterruptions /\ interruptions' = interruptions + 1
    /\ ix_block' = Between
    /\ UNCHANGED <<start_height, chain, db, ix_end, ix_step, ix_dirty>>

(* The node or the database cannot be reached for this statement: the tick *)
(* fails, or goes on if the result is ignored.                             *)
Interrupt ==
    /\ ix_block \in DOMAIN chain /\ interruptions < MaxInterruptions
    /\ interruptions' = interruptions + 1
    /\ IF Statements[ix_step].ok
       THEN ix_step' = ix_step + 1 /\ UNCHANGED ix_block
       ELSE ix_block' = Between /\ UNCHANGED ix_step
    /\ UNCHANGED <<start_height, chain, db, ix_end, ix_dirty>>

(* The indexer is stopped and started again.                               *)
Restart ==
    /\ ix_block # Between /\ interruptions < MaxInterruptions
    /\ interruptions' = interruptions + 1
    /\ ix_block' = Between
    /\ db' = Seeded(db)
    /\ UNCHANGED <<start_height, chain, ix_end, ix_step, ix_dirty>>

IndexerStep ==
    \/ Tick
    \/ BlockNotFound
    \/ Statement
    \/ StatementRefused
IndexerNext ==
    \/ ChainGrows
    \/ IndexerStep
    \/ Interrupt
    \/ Restart

(* The loop goes on for ever and every request is answered or fails.       *)
IndexerSpec == IndexerInit /\ [][IndexerNext]_indexerVars /\ WF_indexerVars(IndexerStep)
-----------------------------------------------------------------------------
(* The database an indexer without interruptions has after height h.       *)
Derived(h) ==
    LET statements == FlattenSeq([i \in 1..h |->
                          IF i < start_height THEN <<>> ELSE StatementsOf[i][chain[i]]])
    IN  FoldLeft(LAMBDA d, st : Exec(d, st, h), Seeded(<<>>), statements)

(* The tables whose rows a statement adds to, instead of setting them.     *)
Additive == {"asset_balances", "player_profiles", "validators", "delegations",
             "reward_distributions"}

(* However often a block is interrupted and indexed again, when it is done *)
(* the database has exactly the rows of the blocks up to indexed_height,   *)
(* and the rows that are set rather than added to have the values a single *)
(* pass gives them: indexed_height is written last and the tables are      *)
(* written again in the same order.  Accounts are left out, since a failed *)
(* write of a receiver's account is ignored.                               *)
ViewHasEveryRow ==
    ~ix_dirty =>
        LET derived == Derived(GetIndexedHeight(db))
            rows(d) == {k \in DOMAIN d : k[1] # "accounts"}
        IN  /\ rows(db) = rows(derived)
            /\ \A k \in rows(db) : k[1] \in Additive \/ db[k] = derived[k]

MaxBlockTxs == Max({Len(b.txs) : b \in UNION Range(ChainBlocks)})
Indexed == {h \in DOMAIN chain : start_height <= h /\ h <= GetIndexedHeight(db)}
SignedBy(a) ==
    {<<h, i>> \in Indexed \X (1..MaxBlockTxs) :
        i \in DOMAIN chain[h].txs /\ chain[h].txs[i].signer = a}
RewardsPaid(match) ==
    UNION {{<<h, i, j>> : j \in DOMAIN chain[h].txs[i].action.rewards} :
              <<h, i>> \in {x \in Indexed \X (1..MaxBlockTxs) :
                  /\ x[2] \in DOMAIN chain[x[1]].txs
                  /\ chain[x[1]].txs[x[2]].action.kind = "DistributeReward"
                  /\ chain[x[1]].txs[x[2]].action.match = match}}

(* Counters are never too low, whatever is interrupted: an account counts  *)
(* at least the transactions it signed, and a match has a row for every    *)
(* reward paid for it.  An interruption can make both too high.            *)
CountsCoverChain ==
    /\ \A h \in Indexed : \A i \in DOMAIN chain[h].txs :
          LET a == chain[h].txs[i].signer
          IN  <<"accounts", a>> \in DOMAIN db
                  /\ db[<<"accounts", a>>].tx_count >= Cardinality(SignedBy(a))
    /\ \A k \in DOMAIN db : k[1] = "match_results" =>
          MapThenSumSet(LAMBDA r : db[r],
                        {r \in DOMAIN db : r[1] = "reward_distributions" /\ r[2] = k[2]})
              >= Cardinality(RewardsPaid(k[2]))

(* The database has every row and counts every transaction of the blocks   *)
(* up to indexed_height, wherever ticks were cut off.                      *)
IndexIsComplete == ViewHasEveryRow /\ CountsCoverChain

(* An indexer started at a height above 1 indexes every block, however it  *)
(* is interrupted, unless it meets a profile whose user name another       *)
(* account has: that block is tried again for ever.  (Started at 0, the    *)
(* default, or at 1, it asks for block 0 for ever: chains have none.)      *)
IndexerAdvances ==
    \A h \in DOMAIN ChainBlocks :
        start_height > 1 /\ Len(chain) >= h ~>
            \/ GetIndexedHeight(db) >= h
            \/ ix_block \in DOMAIN chain /\ Refused(db, Statements[ix_step])
=============================================================================
