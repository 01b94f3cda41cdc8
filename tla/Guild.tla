-------------------------------- MODULE Guild -------------------------------
(***************************************************************************)
(* Guilds: a treasury, a member count and one membership record per        *)
(* member, with an index from members to guilds.                           *)
(***************************************************************************)
EXTENDS LedgerState

(* set_guild_membership and delete_guild_membership, with the index.       *)
SetGuildMembership(s, id, member, role) ==
    Put(Put(s, guild_member_key(id, member), [role |-> role]),
        member_guilds_key(member, id), TRUE)

DeleteGuildMembership(s, id, member) ==
    Del(Del(s, guild_member_key(id, member)), member_guilds_key(member, id))

(* get_guild_membership.                                                   *)
IsGuildMember(s, id, a) == Has(s, guild_member_key(id, a))
RoleOf(s, id, a) == s[guild_member_key(id, a)].role

(* member_count is a u32 and wraps below zero.                             *)
DecrementMembers(g) == [g EXCEPT !.member_count = (@ - 1) % (MaxU32 + 1)]

(* execute_create_guild.  A guild with this id is replaced, and so is the  *)
(* membership of its leader; the other memberships stay.                   *)
ExecuteCreateGuild(s, signer, name, max_members, timestamp) ==
    LET id == <<signer, name, timestamp>>
    IN  Ok(SetGuildMembership(
              Put(s, guild_key(id),
                  [treasury_balance |-> 0, member_count |-> 1,
                   max_members |-> max_members]),
              id, signer, "Leader"))

(* Fault: joining does not look for a membership.                          *)
ExecuteJoinGuildAgain(s, signer, id) ==
    LET g == s[guild_key(id)]
    IN  Attempt(s, Has(s, guild_key(id)) /\ g.member_count < g.max_members,
                SetGuildMembership(
                    Put(s, guild_key(id), [g EXCEPT !.member_count = @ + 1]),
                    id, signer, "Member"))

(* execute_join_guild.                                                     *)
ExecuteJoinGuild(s, signer, id) ==
    LET g == s[guild_key(id)]
    IN  Attempt(s, /\ Has(s, guild_key(id)) /\ ~IsGuildMember(s, id, signer)
                   /\ g.member_count < g.max_members,
                SetGuildMembership(
                    Put(s, guild_key(id), [g EXCEPT !.member_count = @ + 1]),
                    id, signer, "Member"))

(* execute_leave_guild: the last member to leave deletes the guild.        *)
ExecuteLeaveGuild(s, signer, id) ==
    LET g == DecrementMembers(s[guild_key(id)])
        left == DeleteGuildMembership(s, id, signer)
    IN  Attempt(s, /\ Has(s, guild_key(id)) /\ IsGuildMember(s, id, signer)
                   /\ RoleOf(s, id, signer) # "Leader",
                IF g.member_count = 0 THEN Del(left, guild_key(id))
                ELSE Put(left, guild_key(id), g))

(* execute_guild_deposit.                                                  *)
ExecuteGuildDeposit(s, signer, id, amount) ==
    LET g == s[guild_key(id)]
    IN  Attempt(s, /\ Has(s, guild_key(id)) /\ IsGuildMember(s, id, signer)
                   /\ CanAfford(s, signer, amount),
                Put(Debit(s, signer, amount), guild_key(id),
                    [g EXCEPT !.treasury_balance = WrapAdd(@, amount)]))

(* Fault: the treasury may be overdrawn.                                   *)
ExecuteGuildWithdrawUnchecked(s, signer, id, amount) ==
    LET g == s[guild_key(id)]
    IN  Attempt(s, /\ Has(s, guild_key(id)) /\ IsGuildMember(s, id, signer)
                   /\ RoleOf(s, id, signer) \in {"Leader", "Officer"},
                CreditPlain(Put(s, guild_key(id), [g EXCEPT !.treasury_balance = @ - amount]),
                            signer, amount))

(* execute_guild_withdraw.                                                 *)
ExecuteGuildWithdraw(s, signer, id, amount) ==
    LET g == s[guild_key(id)]
    IN  Attempt(s, /\ Has(s, guild_key(id)) /\ IsGuildMember(s, id, signer)
                   /\ RoleOf(s, id, signer) \in {"Leader", "Officer"}
                   /\ g.treasury_balance >= amount /\ Has(s, account_key(signer)),
                CreditPlain(Put(s, guild_key(id), [g EXCEPT !.treasury_balance = @ - amount]),
                            signer, amount))

(* execute_guild_promote: the leader sets the role of any member, its own  *)
(* included.                                                               *)
ExecuteGuildPromote(s, signer, id, member, role) ==
    Attempt(s, /\ Has(s, guild_key(id)) /\ IsGuildMember(s, id, signer)
               /\ RoleOf(s, id, signer) = "Leader"
               /\ IsGuildMember(s, id, member) /\ role \in {"Officer", "Member"},
            SetGuildMembership(s, id, member, role))

(* execute_guild_kick.                                                     *)
ExecuteGuildKick(s, signer, id, member) ==
    Attempt(s, /\ Has(s, guild_key(id)) /\ IsGuildMember(s, id, signer)
               /\ RoleOf(s, id, signer) \in {"Leader", "Officer"}
               /\ IsGuildMember(s, id, member) /\ RoleOf(s, id, member) # "Leader"
               /\ ~(RoleOf(s, id, signer) = "Officer" /\ RoleOf(s, id, member) = "Officer"),
            Put(DeleteGuildMembership(s, id, member), guild_key(id),
                DecrementMembers(s[guild_key(id)])))
=============================================================================
