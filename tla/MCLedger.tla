------------------------------ MODULE MCLedger ------------------------------
(***************************************************************************)
(* Workloads for the ledger, one per group of actions.                     *)
(***************************************************************************)
EXTENDS Indexer, P2PChannels, Ledger, ParallelExecution

LOCAL INSTANCE SequencesExt

(* Blocks whose transactions use every handler of the indexer.             *)

Indexed1(hash, signer, action) == [hash |-> hash, signer |-> signer, action |-> action]
Chained(proposer, txs) == [proposer |-> proposer, txs |-> txs]

Founding == Chained("v",
    <<Indexed1("t1", "v", [kind |-> "RegisterValidator", commission_bps |-> 5]),
      Indexed1("t2", "a", [kind |-> "CreateAssetClass"]),
      Indexed1("t3", "a", [kind |-> "MintAsset", class |-> "gold", to |-> "b", amount |-> 3]),
      Indexed1("t4", "a", [kind |-> "CreateProfile", username |-> "ann"]),
      Indexed1("t5", "a", [kind |-> "CreateSession", address |-> "k"])>>)
Trading == Chained("v",
    <<Indexed1("t6", "b", [kind |-> "TransferAsset", class |-> "gold", to |-> "a", amount |-> 2]),
      Indexed1("t7", "a", [kind |-> "BurnAsset", class |-> "gold", amount |-> 1]),
      Indexed1("t8", "a", [kind |-> "CreateListing"]),
      Indexed1("t9", "b", [kind |-> "BuyListing", id |-> <<"id", 1>>]),
      Indexed1("t10", "a", [kind |-> "CancelListing", id |-> <<"id", 1>>]),
      Indexed1("t11", "a", [kind |-> "Transfer", to |-> "c"])>>)
Playing == Chained("v",
    <<Indexed1("t12", "g", [kind |-> "RegisterAttestor", game_id |-> "chess"]),
      Indexed1("t13", "g", [kind |-> "SubmitMatchResult", match |-> "m"]),
      Indexed1("t14", "g", [kind |-> "DistributeReward", match |-> "m",
                           rewards |-> <<<<"a", 1>>, <<"b", 1>>>>]),
      Indexed1("t15", "g", [kind |-> "AddAchievement", player |-> "a", id |-> "first"]),
      Indexed1("t16", "g", [kind |-> "UpdateReputation", player |-> "a", delta |-> -1])>>)
Governing == Chained("w",
    <<Indexed1("t17", "a", [kind |-> "DelegateStake", validator |-> "v", amount |-> 2]),
      Indexed1("t18", "a", [kind |-> "UndelegateStake", validator |-> "v", amount |-> 1]),
      Indexed1("t19", "a", [kind |-> "SubmitProposal"]),
      Indexed1("t20", "a", [kind |-> "VoteProposal", id |-> <<"id", 2>>, option |-> "Yes"]),
      Indexed1("t21", "a", [kind |-> "ExecuteProposal", id |-> <<"id", 2>>]),
      Indexed1("t22", "a", [kind |-> "RevokeSession", address |-> "k"]),
      Indexed1("t23", "a", [kind |-> "JoinGuild"])>>)

Naming == Chained("v",
    <<Indexed1("t24", "b", [kind |-> "CreateProfile", username |-> "ann"])>>)

MCChainBlocks ==
    <<{Chained("v", <<>>)}, {Founding}, {Trading, Playing, Governing, Naming}>>
-----------------------------------------------------------------------------
Tx(signer, action) ==
    [signer |-> signer, action |-> action, max_fee |-> 60, size |-> 1, timestamp |-> 1,
     nonce |-> 0, sponsor |-> NoAddress, session |-> NoAddress, authentic |-> TRUE]

(* The store after some transactions in the first block.                   *)
After(genesis, txs) ==
    FoldLeft(LAMBDA s, tx : ExecuteTransaction(s, tx, 1, Proposer).s, genesis, txs)

Workload(start, h, txs, limit) ==
    [start |-> start, height |-> h, txs |-> txs, limit |-> limit, vetted |-> FALSE,
     calls |-> <<>>]

Common == Genesis([a |-> 600, b |-> 300, c |-> 200], <<<<"p", 100>>>>, {"c"})

-----------------------------------------------------------------------------
(* Assets and the market.                                                  *)
Sword == <<"a", "sword", 1>>
OnSale == <<"a", Sword, 2, 20, 1>>

AssetTxs ==
    <<Tx("a", [kind |-> "MintAsset", class |-> Sword, to |-> "b", amount |-> 2]),
      Tx("b", [kind |-> "TransferAsset", class |-> Sword, to |-> "a", amount |-> 1]),
      Tx("b", [kind |-> "BurnAsset", class |-> Sword, amount |-> 1]),
      Tx("a", [kind |-> "CreateListing", class |-> Sword, amount |-> 2, price |-> 20]),
      Tx("a", [kind |-> "CancelListing", id |-> OnSale]),
      Tx("b", [kind |-> "BuyListing", id |-> OnSale]),
      Tx("b", [kind |-> "Transfer", to |-> "b", amount |-> 40]),
      [Tx("c", [kind |-> "Transfer", to |-> "d", amount |-> 90]) EXCEPT !.sponsor = "b"],
      Tx("d", [kind |-> "Transfer", to |-> "a", amount |-> 50])>>

AssetLoad ==
    Workload(After(Common,
                 <<Tx("a", [kind |-> "CreateAssetClass", name |-> "sword", max_supply |-> 7]),
                   Tx("a", [kind |-> "MintAsset", class |-> Sword, to |-> "a", amount |-> 4]),
                   Tx("a", [kind |-> "CreateListing", class |-> Sword, amount |-> 2,
                            price |-> 20])>>),
             1, AssetTxs, 3)

-----------------------------------------------------------------------------
(* Rentals: the owner may have spent the rent when it must be given back,  *)
(* and may list the same item again.                                       *)
Lease == <<"a", "sword", 1>>
ListLease == Tx("a", [kind |-> "ListForRent", class |-> Sword, name |-> "sword", price |-> 30,
                      deposit |-> 50, min |-> 1, max |-> 3])

RentalLoad ==
    Workload(After(Common,
                 <<Tx("a", [kind |-> "CreateAssetClass", name |-> "sword", max_supply |-> NoHeight]),
                   Tx("a", [kind |-> "MintAsset", class |-> Sword, to |-> "a", amount |-> 1]),
                   ListLease>>),
             1,
             <<ListLease,
               Tx("b", [kind |-> "RentAsset", id |-> Lease, duration |-> 2]),
               Tx("a", [kind |-> "RentAsset", id |-> Lease, duration |-> 3]),
               Tx("b", [kind |-> "ReturnRental", id |-> Lease]),
               Tx("a", [kind |-> "ReturnRental", id |-> Lease]),
               Tx("c", [kind |-> "ClaimExpiredRental", id |-> Lease]),
               Tx("a", [kind |-> "CancelRentalListing", id |-> Lease]),
               Tx("a", [kind |-> "Transfer", to |-> "c", amount |-> 560])>>, 3)

-----------------------------------------------------------------------------
(* Guilds: the leader may demote itself, and officers act for it.          *)
Clan == <<"a", "clan", 1>>

GuildLoad ==
    Workload(After(Common,
                 <<Tx("a", [kind |-> "CreateGuild", name |-> "clan", max |-> 2]),
                   Tx("a", [kind |-> "GuildDeposit", id |-> Clan, amount |-> 30])>>),
             1,
             <<Tx("a", [kind |-> "CreateGuild", name |-> "clan", max |-> 2]),
               Tx("b", [kind |-> "JoinGuild", id |-> Clan]),
               Tx("c", [kind |-> "JoinGuild", id |-> Clan]),
               Tx("b", [kind |-> "LeaveGuild", id |-> Clan]),
               Tx("a", [kind |-> "LeaveGuild", id |-> Clan]),
               Tx("a", [kind |-> "GuildPromote", id |-> Clan, member |-> "a", role |-> "Member"]),
               Tx("a", [kind |-> "GuildPromote", id |-> Clan, member |-> "b", role |-> "Officer"]),
               Tx("b", [kind |-> "GuildWithdraw", id |-> Clan, amount |-> 20]),
               Tx("b", [kind |-> "GuildKick", id |-> Clan, member |-> "a"])>>, 4)

-----------------------------------------------------------------------------
(* Tournaments: joined up to the block before the start, then started.     *)
Cup == <<"a", "cup", 2>>
NewCup == Tx("a", [kind |-> "CreateTournament", name |-> "cup", entry_fee |-> 15, max |-> 3,
                   min |-> 2, start_height |-> 2, shares |-> <<70, 30>>])

TournamentLoad ==
    Workload(After(Common, <<NewCup, Tx("b", [kind |-> "JoinTournament", id |-> Cup]),
                             Tx("c", [kind |-> "JoinTournament", id |-> Cup])>>),
             1,
             <<NewCup,
               Tx("c", [kind |-> "JoinTournament", id |-> Cup]),
               Tx("b", [kind |-> "StartTournament", id |-> Cup]),
               Tx("a", [kind |-> "ReportTournamentResults", id |-> Cup, rankings |-> <<"c", "b">>]),
               Tx("a", [kind |-> "ReportTournamentResults", id |-> Cup, rankings |-> <<>>]),
               Tx("b", [kind |-> "ClaimTournamentPrize", id |-> Cup]),
               Tx("c", [kind |-> "ClaimTournamentPrize", id |-> Cup]),
               Tx("a", [kind |-> "CancelTournament", id |-> Cup])>>, 4)

-----------------------------------------------------------------------------
(* Staking: more validators than the set holds, and undelegations that     *)
(* mature in the same block.                                               *)
Validators == Genesis([a |-> 600, b |-> 300, c |-> 200],
                      <<<<"p", 60>>, <<"q", 80>>, <<"r", 70>>>>, {})
Delegate(d, v, amount) ==
    Tx(d, [kind |-> "DelegateStake", validator |-> v, amount |-> amount])
Undelegate(d, v, amount) ==
    Tx(d, [kind |-> "UndelegateStake", validator |-> v, amount |-> amount])

StakingLoad ==
    Workload(Validators, 1,
             <<Tx("c", [kind |-> "RegisterValidator", commission_bps |-> 500]),
               Delegate("a", "c", 110), Delegate("b", "p", 25), Undelegate("b", "p", 8)>>, 5)

(* The library's slashing, with delegators on the list of the validator.   *)
SlashingLoad ==
    [Workload(After(Validators, <<Delegate("a", "q", 15), Delegate("b", "q", 15)>>), 1,
              <<Undelegate("a", "q", 14), Undelegate("b", "q", 15), Delegate("b", "q", 15)>>, 4)
     EXCEPT !.calls = <<[kind |-> "register", validator |-> "q", delegator |-> "a"],
                        [kind |-> "slash", validator |-> "q", fraction_bps |-> 5000]>>]

-----------------------------------------------------------------------------
(* Governance: votes that change while stakes move.                        *)
Submit(name, proposal) ==
    Tx("a", [kind |-> "SubmitProposal", name |-> name, deposit |-> 25, proposal |-> proposal])
Spend == [kind |-> "TreasurySpend", recipient |-> "b", amount |-> 5]
Slash == [kind |-> "SlashValidator", address |-> "q", fraction_bps |-> 2500]
Vote(voter, name, option) ==
    Tx(voter, [kind |-> "VoteProposal", id |-> <<"a", name, 1>>, option |-> option])

GovernanceLoad ==
    Workload(After(Validators, <<Delegate("b", "q", 100), Submit("spend", Spend),
                                 Submit("slash", Slash)>>), 1,
             <<Vote("b", "spend", "Yes"), Vote("b", "spend", "No"), Vote("p", "slash", "Yes"),
               Vote("b", "slash", "Yes"), Submit("spend", Spend), Undelegate("b", "q", 90),
               Tx("c", [kind |-> "ExecuteProposal", id |-> <<"a", "spend", 1>>]),
               Tx("c", [kind |-> "ExecuteProposal", id |-> <<"a", "slash", 1>>])>>, 4)

-----------------------------------------------------------------------------
(* Attestation: results, rewards, profiles.                                *)
Match(pool, score) ==
    [game_id |-> "g", players |-> <<"a", "b">>, scores |-> <<1, 2>>, winners |-> <<"b">>,
     reward_pool |-> pool, anti_cheat_score |-> score]

Result == Tx("c", [kind |-> "SubmitMatchResult", match |-> "m", result |-> Match(40, NoHeight)])

AttestationLoad ==
    Workload(After(Common, <<Result>>), 1,
             <<Tx("b", [kind |-> "RegisterAttestor", game_id |-> "g"]), Result,
               Tx("b", [kind |-> "SubmitMatchResult", match |-> "n", result |-> Match(40, 30)]),
               Tx("c", [kind |-> "DistributeReward", match |-> "m", rewards |-> <<<<"b", 25>>, <<"a", 15>>>>]),
               Tx("b", [kind |-> "DistributeReward", match |-> "n", rewards |-> <<<<"d", 10>>>>]),
               Tx("a", [kind |-> "CreateProfile", display_name |-> "x"]),
               Tx("c", [kind |-> "UpdateReputation", player |-> "a", delta |-> -600]),
               Tx("c", [kind |-> "AddAchievement", player |-> "a", name |-> "first"])>>, 3)

-----------------------------------------------------------------------------
(* Sessions, with every transaction validated before it executes.          *)
Signed(signer, nonce, session, sponsor, action) ==
    [Tx(signer, action) EXCEPT !.nonce = nonce, !.session = session, !.sponsor = sponsor,
                               !.max_fee = 3]
Granted(n) ==
    [Tx("a", [kind |-> "CreateSession", address |-> "k", permissions |-> {"Transfer"},
              expires_at |-> 2, limit |-> 7])
     EXCEPT !.nonce = n]
Pay(n, session, sponsor) ==
    Signed("a", n, session, sponsor, [kind |-> "Transfer", to |-> "b", amount |-> 194])

SessionLoad ==
    [Workload(Common, 1,
              <<Granted(0), Pay(1, "k", NoAddress), Pay(2, "k", NoAddress), Pay(3, "k", NoAddress),
                Pay(3, NoAddress, NoAddress),
                Pay(2, "k", "b"), Pay(2, NoAddress, "b"),
                [Tx("a", [kind |-> "RevokeSession", address |-> "k"]) EXCEPT !.nonce = 2],
                Granted(3), Pay(4, "k", NoAddress), Pay(4, NoAddress, NoAddress),
                Signed("b", 0, NoAddress, "a", [kind |-> "Transfer", to |-> "a", amount |-> 0]),
                Signed("b", 0, NoAddress, "a", [kind |-> "Transfer", to |-> "c", amount |-> 300])>>, 6)
     EXCEPT !.vetted = TRUE]

MCWorkloads ==
    [assets |-> AssetLoad, rentals |-> RentalLoad, guilds |-> GuildLoad,
     tournaments |-> TournamentLoad, staking |-> StakingLoad, slashing |-> SlashingLoad,
     governance |-> GovernanceLoad, attestation |-> AttestationLoad, sessions |-> SessionLoad]
-----------------------------------------------------------------------------
(* Transactions for the parallel executor.                                 *)
Send(from, to, amount) == Tx(from, [kind |-> "Transfer", to |-> to, amount |-> amount])

MCPool ==
    <<Send("a", "b", 200), Send("b", "c", 280), Send("c", "d", 150),
      Tx("b", [kind |-> "GuildDeposit", id |-> Clan, amount |-> 10]),
      Tx("a", [kind |-> "GuildPromote", id |-> Clan, member |-> "b", role |-> "Officer"]),
      Tx("b", [kind |-> "GuildWithdraw", id |-> Clan, amount |-> 20]),
      [Tx("c", [kind |-> "JoinGuild", id |-> Clan]) EXCEPT !.sponsor = "b"],
      Tx("b", [kind |-> "LeaveGuild", id |-> Clan])>>

MCPoolStart ==
    After(Common, <<Tx("a", [kind |-> "CreateGuild", name |-> "clan", max |-> 3]),
                    Tx("a", [kind |-> "GuildDeposit", id |-> Clan, amount |-> 30]),
                    Tx("b", [kind |-> "JoinGuild", id |-> Clan])>>)

-----------------------------------------------------------------------------
(* One run for the two ways to execute, the indexer of what was executed,  *)
(* and the channels of the loop that executes.  A behaviour is one of the  *)
(* component it starts with; the others rest: the parallel executor with   *)
(* an empty block, the ledger with one of its workloads.                   *)
VARIABLE component

Components == {"ledger", "parallel", "indexer", "channels"}

MCInit ==
    /\ component \in Components
    /\ LedgerInit /\ ParallelInit /\ IndexerInit /\ ChannelsInit
    /\ component # "ledger" => workload = "slashing"
    /\ component # "parallel" => block = <<>>
    /\ component # "indexer" => start_height = 2

MCNext ==
    \/ /\ component = "ledger" /\ LedgerNext
       /\ UNCHANGED <<component, parallelVars, indexerVars, channelVars>>
    \/ /\ component = "parallel" /\ ParallelNext
       /\ UNCHANGED <<component, ledgerVars, indexerVars, channelVars>>
    \/ /\ component = "indexer" /\ IndexerNext
       /\ UNCHANGED <<component, ledgerVars, parallelVars, channelVars>>
    \/ /\ component = "channels" /\ ChannelsNext
       /\ UNCHANGED <<component, ledgerVars, parallelVars, indexerVars>>

(* A component at rest has no step that fairness asks for.                 *)
MCSpec ==
    /\ MCInit /\ [][MCNext]_<<component, ledgerVars, parallelVars, indexerVars, channelVars>>
    /\ WF_indexerVars(IndexerStep) /\ ChannelsFairness
=============================================================================
