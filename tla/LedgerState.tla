---------------------------- MODULE LedgerState ----------------------------
(***************************************************************************)
(* The chain state as the transaction handlers see it: one flat key-value  *)
(* store, read through StateView and written through StateWriter.  A store *)
(* is a function from the keys in use to their values.  A key is a tuple   *)
(* that starts with the name of its prefix.  An id the code gets by        *)
(* hashing some fields is the tuple of these fields.                       *)
(*                                                                         *)
(* Amounts are u64 in the code; MaxU64 stands for u64::MAX and MaxU32 for  *)
(* u32::MAX.  Timestamps of creation, names, URIs and other fields no      *)
(* handler reads back are left out of the values.                          *)
(***************************************************************************)
EXTENDS Integers, FiniteSets, Sequences, TLC

LOCAL INSTANCE FiniteSetsExt
LOCAL INSTANCE SequencesExt

CONSTANTS MaxU64, MaxU32

ASSUME LedgerAssumption == MaxU64 \in Nat /\ MaxU32 \in Nat

(* Option::None for addresses and for heights, and Address::ZERO.          *)
NoAddress == "none"
NoHeight == -1
ZERO == "zero"

(* saturating_add, saturating_sub and saturating_mul of u64, the plain     *)
(* operators, which wrap in a release build, and the floor of a share      *)
(* given in basis points (computed in u128).                               *)
SatAdd(a, b) == IF a + b > MaxU64 THEN MaxU64 ELSE a + b
SatSub(a, b) == IF a < b THEN 0 ELSE a - b
SatMul(a, b) == IF a * b > MaxU64 THEN MaxU64 ELSE a * b
WrapAdd(a, b) == (a + b) % (MaxU64 + 1)
WrapMul(a, b) == (a * b) % (MaxU64 + 1)
Bps(amount, bps) == (amount * bps) \div 10000

(* The keys.                                                               *)
account_key(a) == <<"account", a>>
asset_class_key(id) == <<"asset_class", id>>
asset_balance_key(class, owner) == <<"asset_balance", class, owner>>
validator_key(v) == <<"validator", v>>
delegation_key(d, v) == <<"delegation", d, v>>
unbonding_key(h, d, i) == <<"unbonding", h, d, i>>
listing_key(id) == <<"listing", id>>
profile_key(a) == <<"profile", a>>
achievement_key(a, id) == <<"achievement", a, id>>
attestor_key(a) == <<"attestor", a>>
match_result_key(id) == <<"match_result", id>>
match_settlement_key(id) == <<"match_settlement", id>>
proposal_list_key == <<"proposal_list">>
proposal_key(id) == <<"proposal", id>>
vote_key(id, a) == <<"vote", id, a>>
session_key(g, a) == <<"session", g, a>>
rental_key(id) == <<"rental", id>>
rental_by_owner_key(a, id) == <<"rental_by_owner", a, id>>
rental_by_renter_key(a, id) == <<"rental_by_renter", a, id>>
guild_key(id) == <<"guild", id>>
guild_member_key(id, a) == <<"guild_member", id, a>>
member_guilds_key(a, id) == <<"member_guilds", a, id>>
tournament_key(id) == <<"tournament", id>>
tournament_participant_key(id, a) == <<"tournament_participant", id, a>>
supply_info_key == <<"supply">>
chain_height_key == <<"height">>
active_validator_set_key == <<"active_set">>
epoch_info_key(e) == <<"epoch", e>>
delegation_list_key(v) == <<"delegators", v>>
validator_list_key == <<"validator_list">>

(* StateStore: get_raw, put_raw and delete.                                *)
Has(s, k) == k \in DOMAIN s
Get(s, k, default) == IF k \in DOMAIN s THEN s[k] ELSE default
Put(s, k, v) == (k :> v) @@ s
Del(s, k) == [x \in DOMAIN s \ {k} |-> s[x]]

(* The keys of one prefix.                                                 *)
KeysOf(s, prefix) == {k \in DOMAIN s : k[1] = prefix}

(* The saturating sum of f over the keys in a set, in any order.           *)
SumOver(S, f(_)) == FoldSet(LAMBDA k, acc : SatAdd(acc, f(k)), 0, S)

(* AccountState::new and with_balance.                                     *)
NewAccount(balance) == [balance |-> balance, nonce |-> 0]

(* get_account and get_asset_balance.                                      *)
Balance(s, a) == Get(s, account_key(a), NewAccount(0)).balance
AssetBalance(s, class, a) == Get(s, asset_balance_key(class, a), 0)

(* AccountState::can_afford, of an account that must exist.                *)
CanAfford(s, a, amount) == Has(s, account_key(a)) /\ Balance(s, a) >= amount

(* Read an account or create it, credit or debit it, and write it back.    *)
Credit(s, a, amount) ==
    Put(s, account_key(a),
        [Get(s, account_key(a), NewAccount(0)) EXCEPT !.balance = SatAdd(@, amount)])

CreditPlain(s, a, amount) ==
    Put(s, account_key(a),
        [Get(s, account_key(a), NewAccount(0)) EXCEPT !.balance = WrapAdd(@, amount)])

Debit(s, a, amount) ==
    Put(s, account_key(a),
        [Get(s, account_key(a), NewAccount(0)) EXCEPT !.balance = SatSub(@, amount)])

(* Credit the accounts of a sequence of <<account, amount>> pairs in turn. *)
CreditEach(s, payments) ==
    FoldLeft(LAMBDA t, p : Credit(t, p[1], p[2]), s, payments)

CreditAsset(s, class, a, amount) ==
    Put(s, asset_balance_key(class, a), SatAdd(AssetBalance(s, class, a), amount))

DebitAsset(s, class, a, amount) ==
    Put(s, asset_balance_key(class, a), SatSub(AssetBalance(s, class, a), amount))

(* Change the value under a key that is in use.                            *)
SetStatus(s, k, status) == Put(s, k, [s[k] EXCEPT !.status = status])

(* The result of a handler: Ok with the store it leaves, Err (the handler  *)
(* may have written before it fails), or a panic.                          *)
Ok(s) == [res |-> "ok", s |-> s]
Err(s) == [res |-> "err", s |-> s]
Panic(s) == [res |-> "panic", s |-> s]

(* A handler that returns early, before it writes, unless its checks hold. *)
Attempt(s, checks, after) == IF checks THEN Ok(after) ELSE Err(s)
=============================================================================
