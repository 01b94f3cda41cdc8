---------------------------- MODULE Attestation -----------------------------
(***************************************************************************)
(* Attestors, match results and their rewards; and player identity:        *)
(* profiles, achievements and reputation, which attestors also write.      *)
(***************************************************************************)
EXTENDS LedgerState

LOCAL INSTANCE SequencesExt

CONSTANTS quarantine_threshold, MaxI64

(* execute_register_attestor.                                              *)
ExecuteRegisterAttestor(s, signer, game_id) ==
    Attempt(s, ~Has(s, attestor_key(signer)),
            Put(s, attestor_key(signer), [game_id |-> game_id, status |-> "Active"]))

(* MatchResult::is_well_formed.                                            *)
IsWellFormed(m) ==
    /\ Len(m.players) = Len(m.scores) /\ m.players # <<>> /\ m.winners # <<>>
    /\ \A i \in DOMAIN m.winners : Contains(m.players, m.winners[i])

(* An anti-cheat score below the threshold quarantines the match.          *)
Quarantined(m) == m.anti_cheat_score # NoHeight /\ m.anti_cheat_score < quarantine_threshold

(* execute_submit_match_result.  A result of the same match is replaced,   *)
(* and its settlement starts anew.                                         *)
ExecuteSubmitMatchResult(s, signer, id, m) ==
    LET a == attestor_key(signer)
    IN  Attempt(s, /\ Has(s, a) /\ s[a].status = "Active" /\ s[a].game_id = m.game_id
                   /\ IsWellFormed(m),
                Put(Put(s, match_result_key(id), m), match_settlement_key(id),
                    [settled |-> FALSE, quarantined |-> Quarantined(m)]))

(* The sum of the rewards, which wraps in a release build.                 *)
TotalDistributed(rewards) == FoldLeft(LAMBDA acc, r : WrapAdd(acc, r[2]), 0, rewards)

(* Fault: the match is not marked as settled.                              *)
ExecuteDistributeRewardUnsettled(s, signer, id, rewards) ==
    LET a == attestor_key(signer)
        m == match_settlement_key(id)
    IN  Attempt(s, /\ Has(s, m) /\ ~s[m].settled /\ ~s[m].quarantined
                   /\ Has(s, a) /\ Has(s, match_result_key(id))
                   /\ s[a].game_id = s[match_result_key(id)].game_id
                   /\ TotalDistributed(rewards) <= s[match_result_key(id)].reward_pool,
                CreditEach(s, rewards))

(* execute_distribute_reward: any attestor of the game may settle the      *)
(* match, a suspended one included.  The rewards are taken from no account *)
(* and the supply does not follow them.                                    *)
ExecuteDistributeReward(s, signer, id, rewards) ==
    LET a == attestor_key(signer)
        m == match_settlement_key(id)
    IN  Attempt(s, /\ Has(s, m) /\ ~s[m].settled /\ ~s[m].quarantined
                   /\ Has(s, a) /\ Has(s, match_result_key(id))
                   /\ s[a].game_id = s[match_result_key(id)].game_id
                   /\ TotalDistributed(rewards) <= s[match_result_key(id)].reward_pool,
                Put(CreditEach(s, rewards), m, [s[m] EXCEPT !.settled = TRUE]))

(* PlayerProfile::new; a profile written by an attestor is Anonymous.      *)
NewProfile(display_name) == [display_name |-> display_name, reputation |-> 0]

(* execute_create_profile.                                                 *)
ExecuteCreateProfile(s, signer, display_name) ==
    Attempt(s, ~Has(s, profile_key(signer)),
            Put(s, profile_key(signer), NewProfile(display_name)))

(* execute_add_achievement: any attestor may award it, again and to anyone.*)
ExecuteAddAchievement(s, signer, player, id) ==
    Attempt(s, Has(s, attestor_key(signer)),
            Put(s, achievement_key(player, id), [soulbound |-> TRUE]))

(* saturating_add of i64.                                                  *)
SatAddI64(a, b) ==
    IF a + b > MaxI64 THEN MaxI64 ELSE IF a + b < -MaxI64 - 1 THEN -MaxI64 - 1 ELSE a + b

(* execute_update_reputation: creates the profile of a player without one. *)
ExecuteUpdateReputation(s, signer, player, delta) ==
    LET p == Get(s, profile_key(player), NewProfile("Anonymous"))
    IN  Attempt(s, Has(s, attestor_key(signer)),
                Put(s, profile_key(player),
                    [p EXCEPT !.reputation = SatAddI64(@, delta)]))
=============================================================================
