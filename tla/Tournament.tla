----------------------------- MODULE Tournament -----------------------------
(***************************************************************************)
(* Tournaments: entry fees fill a prize pool that is paid out by shares in *)
(* percent, or given back when the organizer cancels.                      *)
(***************************************************************************)
EXTENDS LedgerState

LOCAL INSTANCE SequencesExt

(* execute_create_tournament.  A tournament with this id is replaced; the  *)
(* markers of its participants stay.                                       *)
ExecuteCreateTournament(s, signer, name, entry_fee, max, min, start_height, shares) ==
    Attempt(s, Len(shares) <= 100,
            Put(s, tournament_key(<<signer, name, start_height>>),
                [organizer |-> signer, entry_fee |-> entry_fee, prize_pool |-> 0,
                 max_participants |-> max, min_participants |-> min,
                 participants |-> <<>>, status |-> "Registration",
                 start_height |-> start_height, prize_distribution |-> shares,
                 rankings |-> <<>>, prizes_claimed |-> <<>>]))

TournamentHasStatus(s, id, status) ==
    Has(s, tournament_key(id)) /\ s[tournament_key(id)].status = status

(* Fault: joining does not look for an earlier registration.               *)
ExecuteJoinTournamentAgain(s, signer, id) ==
    LET t == s[tournament_key(id)]
        paid == IF t.entry_fee > 0 THEN Debit(s, signer, t.entry_fee) ELSE s
        joined == [t EXCEPT !.prize_pool = WrapAdd(@, t.entry_fee),
                            !.participants = Append(@, signer)]
    IN  Attempt(s, /\ TournamentHasStatus(s, id, "Registration")
                   /\ Get(s, chain_height_key, 0) < t.start_height
                   /\ Len(t.participants) < t.max_participants
                   /\ t.entry_fee = 0 \/ CanAfford(s, signer, t.entry_fee),
                Put(Put(paid, tournament_key(id), joined),
                    tournament_participant_key(id, signer), TRUE))

(* execute_join_tournament.  Registration closes by the height of the last *)
(* block applied, one behind the height of the block being executed.       *)
ExecuteJoinTournament(s, signer, id) ==
    LET t == s[tournament_key(id)]
        paid == IF t.entry_fee > 0 THEN Debit(s, signer, t.entry_fee) ELSE s
        joined == [t EXCEPT !.prize_pool = WrapAdd(@, t.entry_fee),
                            !.participants = Append(@, signer)]
    IN  Attempt(s, /\ TournamentHasStatus(s, id, "Registration")
                   /\ Get(s, chain_height_key, 0) < t.start_height
                   /\ ~Has(s, tournament_participant_key(id, signer))
                   /\ Len(t.participants) < t.max_participants
                   /\ t.entry_fee = 0 \/ CanAfford(s, signer, t.entry_fee),
                Put(Put(paid, tournament_key(id), joined),
                    tournament_participant_key(id, signer), TRUE))

(* execute_start_tournament: anyone may start it.                          *)
ExecuteStartTournament(s, id, block_height) ==
    LET t == s[tournament_key(id)]
    IN  Attempt(s, /\ TournamentHasStatus(s, id, "Registration")
                   /\ block_height >= t.start_height
                   /\ Len(t.participants) >= t.min_participants,
                SetStatus(s, tournament_key(id), "Active"))

(* execute_report_tournament_results.  With no rankings the tournament is  *)
(* written as completed and then rankings[0] panics.                       *)
ExecuteReportTournamentResults(s, signer, id, rankings) ==
    LET t == s[tournament_key(id)]
        after == Put(s, tournament_key(id),
                     [t EXCEPT !.rankings = rankings, !.status = "Completed",
                               !.prizes_claimed = [i \in DOMAIN rankings |-> FALSE]])
    IN  IF /\ TournamentHasStatus(s, id, "Active") /\ signer = t.organizer
           /\ \A i \in DOMAIN rankings : Contains(t.participants, rankings[i])
           /\ Len(rankings) <= Len(t.prize_distribution)
        THEN IF rankings = <<>> THEN Panic(after) ELSE Ok(after)
        ELSE Err(s)

(* The prize of a rank: a share of the whole pool, which paying a prize    *)
(* does not reduce.                                                        *)
Prize(t, i) == WrapMul(t.prize_pool, t.prize_distribution[i]) \div 100

(* execute_claim_tournament_prize: the first rank of the signer.           *)
ExecuteClaimTournamentPrize(s, signer, id) ==
    LET t == s[tournament_key(id)]
        i == SelectInSeq(t.rankings, LAMBDA a : a = signer)
    IN  Attempt(s, /\ TournamentHasStatus(s, id, "Completed") /\ i # 0
                   /\ ~t.prizes_claimed[i],
                Put(CreditPlain(s, signer, Prize(t, i)), tournament_key(id),
                    [t EXCEPT !.prizes_claimed[i] = TRUE]))

(* execute_cancel_tournament: every participant gets the entry fee back.   *)
ExecuteCancelTournament(s, signer, id) ==
    LET t == s[tournament_key(id)]
        refunded == FoldLeft(LAMBDA u, a : CreditPlain(u, a, t.entry_fee), s, t.participants)
    IN  Attempt(s, TournamentHasStatus(s, id, "Registration") /\ signer = t.organizer,
                Put(IF t.entry_fee > 0 THEN refunded ELSE s,
                    tournament_key(id),
                    [t EXCEPT !.status = "Cancelled", !.prize_pool = 0]))
=============================================================================
