----------------------------- MODULE StoreKeys -----------------------------
(***************************************************************************)
(* The byte strings under which the chain state is kept, and the reads     *)
(* that depend on their layout: scans of a prefix, ids cut out of a key,   *)
(* and the walk over the unbonding index that stops at the first entry of  *)
(* a later height.  Writes go to an overlay above the store until they are *)
(* flushed, and scans see both.                                            *)
(*                                                                         *)
(* A key is a sequence of bytes.  Addresses and hashes have one byte here  *)
(* (32 in the code), a u64 has two (8) and a byte has Radix values (256),  *)
(* prefixes aside.  A value holds the fields that its key is made of.      *)
(***************************************************************************)
EXTENDS Integers, FiniteSets, Sequences, TLC

LOCAL INSTANCE SequencesExt

CONSTANTS Radix, MaxWrites, Tombstone

ASSUME StoreKeysAssumption == Radix \in Nat /\ Radix > 1

VARIABLES kv_base, kv_overlay, kv_rows, kv_writes

storeKeysVars == <<kv_base, kv_overlay, kv_rows, kv_writes>>

Bytes32 == {<<b>> : b \in 0..(Radix - 1)}
Heights == 0..(Radix * Radix - 1)

(* u64::to_be_bytes: the most significant byte comes first.                *)
(* Fault: to_le_bytes.                                                     *)
ToBytesLittleEndian(n) == <<n % Radix, n \div Radix>>
ToBytes(n) == <<n \div Radix, n % Radix>>
FromBytes(b) == b[1] * Radix + b[2]

(* The first byte of the keys of each kind of record.                      *)
PrefixTable ==
    [account |-> 1, balance |-> 2, asset_class |-> 3, asset_balance |-> 4,
     validator |-> 5, delegation |-> 6, listing |-> 7, profile |-> 8,
     achievement |-> 9, attestor |-> 10, match_result |-> 11,
     match_settlement |-> 12, unbonding |-> 13, unbonding_index |-> 14,
     proposal |-> 15, vote |-> 16, proposal_list |-> 17, receipt |-> 18,
     tx_block_index |-> 20, block_events |-> 21, epoch |-> 22,
     active_validator_set |-> 23, session |-> 24, rental |-> 25,
     rental_by_owner |-> 26, rental_by_renter |-> 27, guild |-> 28,
     guild_member |-> 29, member_guilds |-> 30, tournament |-> 31,
     tournament_participant |-> 32, supply |-> 33, equivocation |-> 34,
     chain_meta |-> 240, block |-> 241]

(* What follows the prefix, field by field.                                *)
AccountFields ==
    [account |-> <<"address">>, balance |-> <<"address">>,
     asset_class |-> <<"hash">>, asset_balance |-> <<"hash", "address">>,
     validator |-> <<"address">>, delegation |-> <<"address", "address">>,
     listing |-> <<"hash">>, profile |-> <<"address">>,
     achievement |-> <<"address", "name">>, attestor |-> <<"address">>,
     match_result |-> <<"hash">>, match_settlement |-> <<"hash">>]
QueueFields ==
    [unbonding |-> <<"address", "u64", "u8">>,
     unbonding_index |-> <<"u64", "address", "u8">>,
     proposal |-> <<"hash">>, vote |-> <<"hash", "address">>, proposal_list |-> <<>>]
ChainFields ==
    [chain_meta |-> <<"meta">>, block |-> <<"u64">>, receipt |-> <<"hash">>,
     tx_block_index |-> <<"hash">>, block_events |-> <<"u64">>, epoch |-> <<"u64">>,
     active_validator_set |-> <<>>, session |-> <<"address", "address">>]
GameFields ==
    [rental |-> <<"hash">>, rental_by_owner |-> <<"address", "hash">>,
     rental_by_renter |-> <<"address", "hash">>, guild |-> <<"hash">>,
     guild_member |-> <<"hash", "address">>, member_guilds |-> <<"address", "hash">>,
     tournament |-> <<"hash">>, tournament_participant |-> <<"hash", "address">>,
     supply |-> <<>>, equivocation |-> <<"address", "u64">>]
Fields == AccountFields @@ QueueFields @@ ChainFields @@ GameFields

(* The values of a field; "meta" has the two constants META_HEIGHT and     *)
(* META_LATEST_HASH.                                                       *)
ValuesOf(field) ==
    CASE field \in {"address", "hash"} -> Bytes32
      [] field = "u64" -> Heights
      [] field = "u8" -> 0..(Radix - 1)
      [] field = "name" -> {<<0>>, <<0, 1>>}
      [] field = "meta" -> {<<104>>, <<108, 97>>}

BytesOf(field, value) ==
    CASE field = "u64" -> ToBytes(value)
      [] field = "u8" -> <<value>>
      [] OTHER -> value

Key(kind, row) ==
    <<PrefixTable[kind]>>
        \o FlattenSeq([i \in 1..Len(row) |-> BytesOf(Fields[kind][i], row[i])])

(* The records of a kind, each given by the fields of its key.             *)
RowsOf(kind) ==
    LET fs == Fields[kind]
    IN  CASE Len(fs) = 0 -> {<<>>}
          [] Len(fs) = 1 -> {<<a>> : a \in ValuesOf(fs[1])}
          [] Len(fs) = 2 -> {<<a, b>> : a \in ValuesOf(fs[1]), b \in ValuesOf(fs[2])}
          [] Len(fs) = 3 -> {<<a, b, c>> : a \in ValuesOf(fs[1]),
                                           b \in ValuesOf(fs[2]), c \in ValuesOf(fs[3])}
-----------------------------------------------------------------------------
(* OverlayStore: get_raw, put_raw and delete; a deleted key has a          *)
(* tombstone until the overlay is flushed.                                 *)
GetRaw(k) ==
    IF k \in DOMAIN kv_overlay THEN kv_overlay[k]
    ELSE IF k \in DOMAIN kv_base THEN kv_base[k] ELSE Tombstone

PutAll(ks, v) == kv_overlay' = [k \in ks |-> v] @@ kv_overlay

(* prefix_scan of the base store: the keys that start with the prefix.     *)
BaseScan(p) == {k \in DOMAIN kv_base : IsPrefix(p, k)}

(* The order of keys, byte by byte.                                        *)
KeyLess(a, b) ==
    \/ IsStrictPrefix(a, b)
    \/ \E i \in 1..Len(a) :
        /\ i <= Len(b) /\ a[i] < b[i]
        /\ \A j \in 1..(i - 1) : a[j] = b[j]

(* prefix_scan of the overlay: the keys of the base, those put since, and  *)
(* not those deleted since, in the order of their bytes.                   *)
(* Fault: tombstones do not hide the entries of the base.                  *)
PrefixScanPuts(p) ==
    LET puts == {k \in DOMAIN kv_overlay : IsPrefix(p, k) /\ kv_overlay[k] # Tombstone}
    IN  SetToSortSeq(BaseScan(p) \union puts, KeyLess)
PrefixScan(p) ==
    LET own == {k \in DOMAIN kv_overlay : IsPrefix(p, k)}
        puts == {k \in own : kv_overlay[k] # Tombstone}
    IN  SetToSortSeq((BaseScan(p) \ own) \union puts, KeyLess)

ScanOf(kind, first) == PrefixScan(<<PrefixTable[kind]>> \o first)

(* The values found by a scan, and the ids cut out of the keys it found    *)
(* (from the byte behind the prefix and the address).                      *)
ScannedValues(kind, first) ==
    LET found == ScanOf(kind, first) IN {GetRaw(found[i]) : i \in 1..Len(found)}
ScannedIds(kind, first) ==
    LET found == ScanOf(kind, first)
    IN  {SubSeq(found[i], 3, Len(found[i])) : i \in 1..Len(found)}

(* get_unbonding_entries, get_sessions_for_granter, get_guild_members and  *)
(* get_equivocation_evidence_for_validator decode values; the rentals of   *)
(* an owner or a renter and the guilds of a member come out of keys.       *)
GetUnbondingEntries(delegator) == ScannedValues("unbonding", delegator)
GetSessionsForGranter(granter) == ScannedValues("session", granter)
GetGuildMembers(guild) == ScannedValues("guild_member", guild)
GetEquivocationEvidence(validator) == ScannedValues("equivocation", validator)
GetRentalsByOwner(owner) == ScannedIds("rental_by_owner", owner)
GetRentalsByRenter(renter) == ScannedIds("rental_by_renter", renter)
GetMemberGuilds(member) == ScannedIds("member_guilds", member)

(* The delegations a vote weighs, and the validators whose stakes make up  *)
(* the total that a quorum is measured against.                            *)
DelegationsOf(signer) == ScannedValues("delegation", signer)
StakedValidators == ScannedValues("validator", <<>>)

(* get_mature_unbondings: up to the first entry of a later height.  The    *)
(* height and the u8 index are cut out of the key.                         *)
GetMatureUnbondings(height) ==
    LET found == ScanOf("unbonding_index", <<>>)
        Later(i) == FromBytes(SubSeq(found[i], 2, 3)) > height
    IN  {<<GetRaw(found[i])[1], GetRaw(found[i])[2], found[i][5]>> :
            i \in {j \in 1..Len(found) : \A l \in 1..j : ~Later(l)}}
-----------------------------------------------------------------------------
(* The keys under which StateWriter keeps a record.  A rental is           *)
(* <<id, owner, renter>>, with renter <<>> until it is rented.             *)
KeysOfRental(row) ==
    {Key("rental", <<row[1]>>), Key("rental_by_owner", <<row[2], row[1]>>)}
        \union (IF row[3] = <<>> THEN {} ELSE {Key("rental_by_renter", <<row[3], row[1]>>)})
KeysOfUnbonding(row) ==
    {Key("unbonding", row), Key("unbonding_index", <<row[2], row[1], row[3]>>)}
KeysOfMembership(row) ==
    {Key("guild_member", row), Key("member_guilds", <<row[2], row[1]>>)}

Indexed == {"rental", "unbonding", "guild_member"}
Plain == DOMAIN Fields \ (Indexed \union {"rental_by_owner", "rental_by_renter",
                                          "unbonding_index", "member_guilds"})

KeysOf(kind, row) ==
    CASE kind = "rental" -> KeysOfRental(row)
      [] kind = "unbonding" -> KeysOfUnbonding(row)
      [] kind = "guild_member" -> KeysOfMembership(row)
      [] OTHER -> {Key(kind, row)}

StoreKeysInit ==
    /\ kv_base = <<>> /\ kv_overlay = <<>>
    /\ kv_rows = {} /\ kv_writes = 0

Counted == kv_writes < MaxWrites /\ kv_writes' = kv_writes + 1 /\ UNCHANGED kv_base

(* A new record of a kind, with the keys its setter writes.                *)
Set(kind, row) ==
    /\ Counted
    /\ Cardinality(kv_rows) < 2 /\ <<kind, row>> \notin kv_rows
    /\ kv_rows' = kv_rows \union {<<kind, row>>}
    /\ PutAll(KeysOf(kind, row), row)

(* The setters of one key.                                                 *)
SetRecord(kind, row) == Set(kind, row)

(* set_unbonding_entry, in the list of the delegator and in the index.     *)
SetUnbondingEntry(row) == Set("unbonding", row)

(* set_guild_membership, with the reverse index.                           *)
SetGuildMembership(row) == Set("guild_member", row)

(* set_rental for a new id.                                                *)
SetRental(row) ==
    /\ \A r \in kv_rows : r[1] = "rental" => r[2][1] # row[1]
    /\ Set("rental", row)

(* set_rental again once there is a renter.                                *)
SetRentalRented(row, renter) ==
    LET rented == [row EXCEPT ![3] = renter]
    IN  /\ Counted
        /\ <<"rental", row>> \in kv_rows /\ row[3] = <<>>
        /\ kv_rows' = (kv_rows \ {<<"rental", row>>}) \union {<<"rental", rented>>}
        /\ PutAll(KeysOfRental(rented), rented)

Delete(kind, row) ==
    /\ Counted
    /\ <<kind, row>> \in kv_rows
    /\ kv_rows' = kv_rows \ {<<kind, row>>}
    /\ PutAll(KeysOf(kind, row), Tombstone)

(* delete_unbonding_entry of an entry get_mature_unbondings found.         *)
DeleteUnbondingEntry(row) == row \in GetMatureUnbondings(row[2]) /\ Delete("unbonding", row)

(* delete_guild_membership and delete_guild.                               *)
(* Fault: the reverse index keeps the entry of the member that left.       *)
DeleteGuildMembershipOnly(row) ==
    /\ Counted
    /\ <<"guild_member", row>> \in kv_rows
    /\ kv_rows' = kv_rows \ {<<"guild_member", row>>}
    /\ PutAll({Key("guild_member", row)}, Tombstone)
DeleteGuildMembership(row) == Delete("guild_member", row)
DeleteGuild(row) == Delete("guild", row)

(* OverlayStore::flush.                                                    *)
Flush ==
    LET gone == {k \in DOMAIN kv_overlay : kv_overlay[k] = Tombstone}
    IN  /\ kv_overlay # <<>> /\ kv_overlay' = <<>>
        /\ kv_base' = [k \in (DOMAIN kv_base \union DOMAIN kv_overlay) \ gone |-> GetRaw(k)]
        /\ UNCHANGED <<kv_rows, kv_writes>>

StoreKeysNext ==
    \/ \E kind \in Plain : \E row \in RowsOf(kind) : SetRecord(kind, row)
    \/ \E row \in RowsOf("unbonding") : SetUnbondingEntry(row) \/ DeleteUnbondingEntry(row)
    \/ \E row \in RowsOf("guild_member") :
          SetGuildMembership(row) \/ DeleteGuildMembership(row)
    \/ \E id, owner, renter \in Bytes32 :
          SetRental(<<id, owner, <<>>>>) \/ SetRentalRented(<<id, owner, <<>>>>, renter)
    \/ \E row \in RowsOf("guild") : DeleteGuild(row)
    \/ Flush
-----------------------------------------------------------------------------
Kept(kind) == {r[2] : r \in {x \in kv_rows : x[1] = kind}}

(* Each record that was set and not deleted is read back under its keys    *)
(* (store_get), and nothing else is in the store: no two records, of       *)
(* whatever kinds, share a key, and no deleted one leaves a key behind.    *)
RecordsAreRead ==
    /\ \A r \in kv_rows : \A k \in KeysOf(r[1], r[2]) : GetRaw(k) = r[2]
    /\ \A k \in DOMAIN kv_base \union DOMAIN kv_overlay :
          GetRaw(k) # Tombstone => \E r \in kv_rows : k \in KeysOf(r[1], r[2])

(* The scans of the state view and of governance find the records of the   *)
(* address they are asked for, and only these, through an overlay as well. *)
ScansAreExact ==
    /\ StakedValidators = Kept("validator")
    /\ \A a \in Bytes32 :
        /\ GetUnbondingEntries(a) = {u \in Kept("unbonding") : u[1] = a}
        /\ GetSessionsForGranter(a) = {x \in Kept("session") : x[1] = a}
        /\ GetGuildMembers(a) = {m \in Kept("guild_member") : m[1] = a}
        /\ GetEquivocationEvidence(a) = {e \in Kept("equivocation") : e[1] = a}
        /\ DelegationsOf(a) = {d \in Kept("delegation") : d[1] = a}
        /\ GetRentalsByOwner(a) = {r[1] : r \in {x \in Kept("rental") : x[2] = a}}
        /\ GetRentalsByRenter(a) = {r[1] : r \in {x \in Kept("rental") : x[3] = a}}
        /\ GetMemberGuilds(a) = {m[1] : m \in {x \in Kept("guild_member") : x[2] = a}}

(* get_mature_unbondings finds each entry due at a height and none that is *)
(* due later, although it stops at the first later one.                    *)
MatureAreFound ==
    \A h \in Heights : GetMatureUnbondings(h) = {u \in Kept("unbonding") : u[2] <= h}

(* The byte keys represent the records: what was written and not deleted   *)
(* is read back, scans return it and nothing else, and the scan of mature  *)
(* unbondings, which stops early, misses none.                             *)
KeysAreFaithful == RecordsAreRead /\ ScansAreExact /\ MatureAreFound
=============================================================================
