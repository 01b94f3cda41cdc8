------------------------------ MODULE GameLibs ------------------------------
(***************************************************************************)
(* The arithmetic of the library crates for games: the reward split of a   *)
(* match (polay-attestation) and the fee split of a sale (polay-market).   *)
(* Each call is checked against what the amounts must add up to.           *)
(***************************************************************************)
EXTENDS Naturals, Sequences, FiniteSets, TLC

LOCAL INSTANCE SequencesExt

CONSTANTS Players, MaxPool, MaxPrice, Rates, BPS

(* The last call and its result.                                           *)
VARIABLES call, result

libVars == <<call, result>>

SatMinus(x, y) == IF x > y THEN x - y ELSE 0

(* The players who did not win, in the order of the result.                *)
Losers(m) == SelectSeq(m.players, LAMBDA p : p \notin ToSet(m.winners))

(* Fault: what the losers are due is shared among the winners as well.     *)
ExtraPerWinnerAlways(m, loser_pool) == loser_pool \div Len(m.winners)

(* With no losers their part goes to the winners.                          *)
ExtraPerWinner(m, loser_pool) ==
    IF Losers(m) = <<>> THEN loser_pool \div Len(m.winners) ELSE 0

calculate_reward_distribution(m) ==
    LET winner_pool == (m.reward_pool * 60) \div 100
        loser_pool == SatMinus(m.reward_pool, winner_pool)
        winner_share == winner_pool \div Len(m.winners)
        loser_share == IF Losers(m) = <<>> THEN 0 ELSE loser_pool \div Len(Losers(m))
        Share(p) == IF p \in ToSet(m.winners) THEN winner_share ELSE loser_share
    IN  CASE m.players = <<>> \/ m.reward_pool = 0 -> <<>>
          [] m.winners = <<>> ->
                [i \in DOMAIN m.players |-> m.reward_pool \div Len(m.players)]
          [] OTHER ->
                [i \in DOMAIN m.players |->
                    Share(m.players[i]) + ExtraPerWinner(m, loser_pool)]

(* Fault: a fee is rounded up.                                             *)
FeeRoundedUp(price, bps) == (price * bps + BPS - 1) \div BPS

FeeOf(price, bps) == (price * bps) \div BPS

calculate_fees(price, protocol_fee_bps, royalty_bps) ==
    LET protocol_fee == FeeOf(price, protocol_fee_bps)
        royalty == FeeOf(price, royalty_bps)
    IN  <<SatMinus(SatMinus(price, protocol_fee), royalty), protocol_fee, royalty>>

-----------------------------------------------------------------------------
LibInit == call = [op |-> "none"] /\ result = <<>>

DistributeRewards ==
    \E ps, ws \in SetToAllKPermutations(Players), pool \in 0..MaxPool :
        /\ ToSet(ws) \subseteq ToSet(ps)
        /\ call' = [op |-> "rewards", players |-> ps, winners |-> ws, reward_pool |-> pool]
        /\ result' = calculate_reward_distribution(call')

SplitPrice ==
    \E price \in 0..MaxPrice, fee, royalty \in Rates :
        /\ call' = [op |-> "fees", price |-> price, rates |-> fee + royalty]
        /\ result' = calculate_fees(price, fee, royalty)

LibNext ==
    \/ DistributeRewards
    \/ SplitPrice

-----------------------------------------------------------------------------
(* A match pays out no more than its pool, and of a pool that pays at all  *)
(* only the rounding of the shares is kept: less than one unit for each    *)
(* player, or two for each winner when all players win.                    *)
RewardsMeetPool ==
    call.op = "rewards" =>
        LET paid == FoldLeft(+, 0, result) IN
        /\ paid <= call.reward_pool
        /\ call.players # <<>> => call.reward_pool - paid < 2 * Len(call.players)

(* A sale splits its price exactly: seller, protocol and creator together  *)
(* receive the price, at every rate up to the whole.                       *)
PriceIsSplit ==
    call.op = "fees" /\ call.rates <= BPS =>
        result[1] + result[2] + result[3] = call.price

(* What is shared out adds up: the parts of a price to the price, and the  *)
(* rewards of a match to its pool, less the rounding.                      *)
SharesMeetTotals == RewardsMeetPool /\ PriceIsSplit
=============================================================================
