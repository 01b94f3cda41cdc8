------------------------------- MODULE Assets -------------------------------
(***************************************************************************)
(* Native transfers, the operations on asset classes (create, mint,        *)
(* transfer and burn), the marketplace and rentals.                        *)
(***************************************************************************)
EXTENDS LedgerState

(* execute_transfer.  The receiver is read after the sender was written,   *)
(* so a transfer to oneself changes nothing.                               *)
ExecuteTransfer(s, signer, to, amount) ==
    Attempt(s, CanAfford(s, signer, amount),
            Credit(Debit(s, signer, amount), to, amount))

(* execute_create_asset_class.  max_supply is a number or NoHeight.        *)
ExecuteCreateAssetClass(s, signer, name, max_supply, timestamp) ==
    LET k == asset_class_key(<<signer, name, timestamp>>)
    IN  Attempt(s, ~Has(s, k),
                Put(s, k, [creator |-> signer, total_supply |-> 0,
                           max_supply |-> max_supply]))

(* AssetClass::can_mint.                                                   *)
CanMint(class, amount) ==
    class.max_supply = NoHeight
        \/ SatAdd(class.total_supply, amount) <= class.max_supply

(* execute_mint_asset.                                                     *)
ExecuteMintAsset(s, signer, class, to, amount) ==
    LET k == asset_class_key(class)
    IN  Attempt(s, Has(s, k) /\ s[k].creator = signer /\ CanMint(s[k], amount),
                CreditAsset(Put(s, k, [s[k] EXCEPT !.total_supply = SatAdd(@, amount)]),
                            class, to, amount))

(* execute_transfer_asset.                                                 *)
ExecuteTransferAsset(s, signer, class, to, amount) ==
    Attempt(s, Has(s, asset_class_key(class))
                   /\ AssetBalance(s, class, signer) >= amount,
            CreditAsset(DebitAsset(s, class, signer, amount), class, to, amount))

(* execute_burn_asset.                                                     *)
ExecuteBurnAsset(s, signer, class, amount) ==
    LET k == asset_class_key(class)
    IN  Attempt(s, Has(s, k) /\ AssetBalance(s, class, signer) >= amount,
                Put(DebitAsset(s, class, signer, amount), k,
                    [s[k] EXCEPT !.total_supply = SatSub(@, amount)]))
-----------------------------------------------------------------------------
(***************************************************************************)
(* The marketplace: listings escrow the assets of the seller until they    *)
(* are bought or cancelled.  The royalty of a listing is the protocol fee  *)
(* of the configuration, so both shares use protocol_fee_bps.              *)
(***************************************************************************)

CONSTANTS protocol_fee_bps

(* execute_create_listing.  The id depends on the timestamp the signer     *)
(* chose, and a listing that has this id already is replaced.              *)
ExecuteCreateListing(s, signer, class, amount, price, timestamp) ==
    Attempt(s, Has(s, asset_class_key(class))
                   /\ AssetBalance(s, class, signer) >= amount,
            Put(DebitAsset(s, class, signer, amount),
                listing_key(<<signer, class, amount, price, timestamp>>),
                [seller |-> signer, class |-> class, amount |-> amount,
                 price |-> price, status |-> "Active",
                 royalty_bps |-> protocol_fee_bps]))

IsActiveListing(s, id) ==
    Has(s, listing_key(id)) /\ s[listing_key(id)].status = "Active"

(* Fault: cancelling does not close the listing.                           *)
ExecuteCancelListingOpen(s, signer, id) ==
    LET l == s[listing_key(id)]
    IN  Attempt(s, IsActiveListing(s, id) /\ l.seller = signer,
                CreditAsset(s, l.class, signer, l.amount))

(* execute_cancel_listing.                                                 *)
ExecuteCancelListing(s, signer, id) ==
    LET l == s[listing_key(id)]
    IN  Attempt(s, IsActiveListing(s, id) /\ l.seller = signer,
                SetStatus(CreditAsset(s, l.class, signer, l.amount),
                          listing_key(id), "Cancelled"))

(* Listing::total_price and royalty_amount.                                *)
TotalPrice(l) == SatMul(l.amount, l.price)
RoyaltyAmount(l) == Bps(TotalPrice(l), l.royalty_bps)

(* What the seller gets: the price less protocol fee and royalty.          *)
SellerProceeds(l) ==
    SatSub(SatSub(TotalPrice(l), Bps(TotalPrice(l), protocol_fee_bps)),
           RoyaltyAmount(l))

(* execute_buy_listing.  Every account is read after the previous one was  *)
(* written, so buyer, seller, creator and Address::ZERO may coincide.  An  *)
(* account that would be credited nothing is not created, except the       *)
(* seller's.                                                               *)
ExecuteBuyListing(s, buyer, id) ==
    LET l == s[listing_key(id)]
        fee == Bps(TotalPrice(l), protocol_fee_bps)
        paid == Credit(Debit(s, buyer, TotalPrice(l)), l.seller, SellerProceeds(l))
        charged == IF fee > 0 THEN Credit(paid, ZERO, fee) ELSE paid
        shared == IF RoyaltyAmount(l) > 0
                  THEN Credit(charged, s[asset_class_key(l.class)].creator, RoyaltyAmount(l))
                  ELSE charged
    IN  Attempt(s, /\ IsActiveListing(s, id) /\ l.seller # buyer
                   /\ CanAfford(s, buyer, TotalPrice(l)),
                SetStatus(CreditAsset(shared, l.class, buyer, l.amount),
                          listing_key(id), "Sold"))
-----------------------------------------------------------------------------
(* Rentals: the rent is paid to the owner when the rental starts and the   *)
(* deposit is held by the rental; the rented asset itself never moves.     *)

(* set_rental writes the rental and its entries in the owner and renter    *)
(* indexes.  Entries of these indexes are never removed.                   *)
SetRental(s, id, r) ==
    LET t == Put(Put(s, rental_key(id), r), rental_by_owner_key(r.owner, id), TRUE)
    IN  IF r.renter = NoAddress THEN t
        ELSE Put(t, rental_by_renter_key(r.renter, id), TRUE)

(* execute_list_for_rent.  Any rental with this id is replaced.            *)
ExecuteListForRent(s, signer, class, asset_id, price, deposit, min, max, timestamp) ==
    Attempt(s, Has(s, asset_class_key(class)) /\ AssetBalance(s, class, signer) # 0,
            SetRental(s, <<signer, asset_id, timestamp>>,
                [owner |-> signer, renter |-> NoAddress, price_per_block |-> price,
                 deposit |-> deposit, min_duration |-> min, max_duration |-> max,
                 end_height |-> NoHeight, status |-> "Listed"]))

RentalHasStatus(s, id, status) ==
    Has(s, rental_key(id)) /\ s[rental_key(id)].status = status

(* execute_rent_asset.                                                     *)
ExecuteRentAsset(s, signer, id, duration, block_height) ==
    LET r == s[rental_key(id)]
        rent == SatMul(r.price_per_block, duration)
        cost == SatAdd(rent, r.deposit)
    IN  Attempt(s, /\ RentalHasStatus(s, id, "Listed")
                   /\ duration >= r.min_duration /\ duration <= r.max_duration
                   /\ CanAfford(s, signer, cost),
                SetRental(Credit(Debit(s, signer, cost), r.owner, rent), id,
                    [r EXCEPT !.renter = signer, !.status = "Active",
                              !.end_height = SatAdd(block_height, duration)]))

(* The rent of the blocks that are left when the renter returns early.     *)
RentalRefund(r, block_height) ==
    SatMul(SatSub(r.end_height, block_height), r.price_per_block)

(* Fault: the renter is paid before it is checked who returns the asset.   *)
ExecuteReturnRentalPaidFirst(s, signer, id, block_height) ==
    LET r == s[rental_key(id)]
        refund == RentalRefund(r, block_height)
        refunded == Credit(s, signer, SatAdd(refund, r.deposit))
        charged == IF refund > 0 THEN Debit(refunded, r.owner, refund) ELSE refunded
    IN  IF ~RentalHasStatus(s, id, "Active") THEN Err(s)
        ELSE IF r.renter # signer THEN Err(refunded)
        ELSE Ok(SetRental(charged, id, [r EXCEPT !.status = "Returned"]))

(* execute_return_rental.  The renter is credited first; the owner is then *)
(* debited what the owner still has of the refund.                         *)
ExecuteReturnRental(s, signer, id, block_height) ==
    LET r == s[rental_key(id)]
        refund == RentalRefund(r, block_height)
        refunded == Credit(s, signer, SatAdd(refund, r.deposit))
        charged == IF refund > 0 THEN Debit(refunded, r.owner, refund) ELSE refunded
    IN  Attempt(s, RentalHasStatus(s, id, "Active") /\ r.renter = signer,
                SetRental(charged, id, [r EXCEPT !.status = "Returned"]))

(* execute_claim_expired_rental: anyone may close an expired rental; the   *)
(* deposit goes back to the renter.                                        *)
ExecuteClaimExpiredRental(s, id, block_height) ==
    LET r == s[rental_key(id)]
        refunded == IF r.renter # NoAddress /\ r.deposit > 0
                    THEN Credit(s, r.renter, r.deposit) ELSE s
    IN  Attempt(s, RentalHasStatus(s, id, "Active") /\ block_height >= r.end_height,
                SetRental(refunded, id, [r EXCEPT !.status = "Expired"]))

(* execute_cancel_rental_listing.                                          *)
ExecuteCancelRentalListing(s, signer, id) ==
    Attempt(s, RentalHasStatus(s, id, "Listed") /\ s[rental_key(id)].owner = signer,
            SetRental(s, id, [s[rental_key(id)] EXCEPT !.status = "Cancelled"]))
=============================================================================
