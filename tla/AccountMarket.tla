--------------------------- MODULE AccountMarket ----------------------------
(***************************************************************************)
(* The sale of accounts: offers, the auction that runs until the sale      *)
(* starts, the purchase, the sale of subaccounts, and the recovery of an   *)
(* account, which ends its sale.  A bid is locked in the reserved balance  *)
(* of the bidder until it is outbid, returned or paid to the seller.       *)
(***************************************************************************)
EXTENDS Accounts

CONSTANTS
    SaleFee,            \* account_on_sale_fee and subaccount_on_sale_fee
    SaleDelay,          \* CHAIN_ACCOUNT_ON_SALE_DELAY
    MinStep,            \* CHAIN_ACCOUNT_AUCTION_MIN_STEP, a part of Full
    Extension,          \* CHAIN_ACCOUNT_AUCTION_EXTENSION_TIME
    ClockAhead,         \* how far the wall clock is ahead of the chain, at most
    RecoveryExpiration, \* CHAIN_ACCOUNT_RECOVERY_REQUEST_EXPIRATION_PERIOD
    RecoveryLimit,      \* CHAIN_MASTER_UPDATE_LIMIT
    ChangePeriod        \* CHAIN_MASTER_AUTH_RECOVERY_PERIOD

ASSUME MarketAssumption ==
    {SaleFee, SaleDelay, MinStep, Extension, ClockAhead, RecoveryExpiration,
     RecoveryLimit, ChangePeriod} \subseteq Nat

VARIABLES
    sale,           \* the sale and auction fields of account_object
    recovery        \* recovery account, its change and the request under way

marketVars == <<sale, recovery>>

NoAuction == [account_on_auction |-> FALSE, current_bid |-> 0,
              current_bidder |-> Nobody, last_bid |-> 0]

NoSale == [account_seller |-> Nobody, account_offer_price |-> 0,
           account_on_sale |-> FALSE, account_on_sale_start_time |-> 0,
           target_buyer |-> Nobody, auction |-> NoAuction,
           subaccount_seller |-> Nobody, subaccount_offer_price |-> 0,
           subaccount_on_sale |-> FALSE]

NoChange == [account |-> Nobody, effective_on |-> Never]

MarketInit ==
    /\ sale = [a \in Names |-> NoSale]
    /\ recovery = [a \in Names |->
          [account |-> Nobody, requested |-> FALSE, expires |-> Never,
           last |-> -RecoveryLimit - 1, change |-> NoChange]]

HasBid(a) == sale[a].auction.current_bidder # Nobody

\* The bid on account a goes back to its bidder.
ReturnBid(l, a) ==
    LET bid == sale[a].auction
    IN  IF ~HasBid(a) THEN l
        ELSE [l EXCEPT !.acc[bid.current_bidder].reserved_balance =
                            @ - bid.current_bid,
                       !.acc[bid.current_bidder].balance = @ + bid.current_bid]

\* The fee for a first listing; account_seller shows that it was paid.
ListingFee(a, seller) == IF seller = Nobody THEN SaleFee ELSE 0

Charged(l, a, fee) == PayCommittee(AdjustBalance(l, a, -fee), fee)

----------------------------------------------------------------------------
\* Offers.

StartTime(a) ==
    IF sale[a].account_on_sale THEN sale[a].account_on_sale_start_time
    ELSE now + SaleDelay

Listed(a, seller, price) ==
    [sale[a] EXCEPT !.account_seller = seller,
                    !.account_offer_price = price,
                    !.account_on_sale = TRUE,
                    !.account_on_sale_start_time = StartTime(a)]

\* As if the end of a sale cleared the auction but not the bid.
DelistedKeepsBid(a, seller, price) ==
    [sale[a] EXCEPT !.account_seller = seller,
                    !.account_offer_price = price,
                    !.account_on_sale = FALSE,
                    !.account_on_sale_start_time = 0,
                    !.auction.account_on_auction = FALSE]

Delisted(a, seller, price) ==
    [sale[a] EXCEPT !.account_seller = seller,
                    !.account_offer_price = price,
                    !.account_on_sale = FALSE,
                    !.account_on_sale_start_time = 0,
                    !.auction = NoAuction]

\* set_account_price_evaluator.  A price above the bid sends the bid back.
SetAccountPrice(a, seller, price, on) ==
    LET drop == \/ ~on /\ sale[a].auction.account_on_auction
                \/ /\ on
                   /\ sale[a].account_offer_price < price
                   /\ sale[a].auction.current_bid < price
        listed == Listed(a, seller, price)
        paid == Charged(Current, a, ListingFee(a, sale[a].account_seller))
    IN  /\ acc[a].exists /\ acc[seller].exists
        /\ acc[a].balance >= ListingFee(a, sale[a].account_seller)
        /\ Becomes(IF drop THEN ReturnBid(paid, a) ELSE paid)
        /\ sale' = [sale EXCEPT ![a] =
              IF ~on THEN Delisted(a, seller, price)
              ELSE IF drop /\ HasBid(a)
                   THEN [listed EXCEPT !.auction = NoAuction]
              ELSE listed]
        /\ UNCHANGED recovery

\* A bid is dropped when the sale ends, when the price rises above it or when
\* its bidder is not the target buyer.
TargetDrops(a, buyer, price, on) ==
    IF ~on THEN sale[a].auction.account_on_auction
    ELSE \/ sale[a].account_offer_price < price
               /\ sale[a].auction.current_bid < price
         \/ sale[a].auction.current_bidder # buyer

\* target_account_sale_evaluator
TargetAccountSale(a, seller, buyer, price, on) ==
    LET drop == TargetDrops(a, buyer, price, on)
        listed == [Listed(a, seller, price) EXCEPT !.target_buyer = buyer]
        paid == Charged(Current, a, ListingFee(a, sale[a].account_seller))
    IN  /\ acc[a].exists /\ acc[seller].exists /\ acc[buyer].exists
        /\ acc[a].balance >= ListingFee(a, sale[a].account_seller)
        /\ Becomes(IF drop THEN ReturnBid(paid, a) ELSE paid)
        /\ sale' = [sale EXCEPT ![a] =
              IF ~on
              THEN [Delisted(a, seller, price) EXCEPT !.target_buyer = Nobody]
              ELSE IF drop /\ HasBid(a)
                   THEN [listed EXCEPT !.auction = NoAuction]
              ELSE listed]
        /\ UNCHANGED recovery

SetSubaccountPrice(a, seller, price, on) ==
    LET fee == ListingFee(a, sale[a].subaccount_seller)
    IN  /\ acc[a].exists /\ acc[seller].exists
        /\ acc[a].balance >= fee
        /\ Becomes(Charged(Current, a, fee))
        /\ sale' = [sale EXCEPT ![a].subaccount_seller = seller,
                                ![a].subaccount_offer_price = price,
                                ![a].subaccount_on_sale = on]
        /\ UNCHANGED recovery

----------------------------------------------------------------------------
\* buy_account_evaluator: a bid before the start of the sale, a purchase
\* afterwards, or the purchase of a subaccount.

MayBuy(a, buyer) ==
    /\ acc[a].exists /\ acc[buyer].exists
    /\ sale[a].account_on_sale
    /\ ~recovery[a].requested
    /\ sale[a].target_buyer \in {Nobody, buyer}

LeastBid(a) ==
    LET bid == sale[a].auction
        step == (sale[a].account_offer_price * MinStep) \div Full
    IN  IF bid.current_bid = 0 THEN sale[a].account_offer_price
        ELSE bid.current_bid
             + IF bid.last_bid = 0 THEN step
               ELSE Max({step, bid.current_bid - bid.last_bid})

\* The old bid is returned, the new one reserved; the balance of the bidder is
\* not compared with the offer.
BidAccepted(l, a, buyer, offer) ==
    LET freed == ReturnBid(l, a)
    IN  [freed EXCEPT !.acc[buyer].reserved_balance = @ + offer,
                      !.acc[buyer].balance = @ - offer]

\* The end of the auction moves to the wall clock plus the extension, if that
\* is later.
Bid(a, buyer, offer, clock) ==
    LET old == sale[a].auction
    IN  /\ MayBuy(a, buyer)
        /\ sale[a].account_on_sale_start_time > now
        /\ offer >= LeastBid(a)
        /\ Becomes(BidAccepted(Current, a, buyer, offer))
        /\ sale' = [sale EXCEPT
              ![a].account_on_sale_start_time = Max({@, clock + Extension}),
              ![a].auction = [account_on_auction |-> TRUE,
                              current_bid |-> offer,
                              current_bidder |-> buyer,
                              last_bid |-> IF old.current_bidder \in {Nobody, buyer}
                                           THEN old.last_bid ELSE old.current_bid]]
        /\ UNCHANGED recovery

\* Nobody has bid until the start: the first who pays the price owns the
\* account.  The target buyer is left as it was.
BuyAccount(a, buyer, shares) ==
    LET price == sale[a].account_offer_price
        paid == AdjustBalance(AdjustBalance(Current, buyer, -price),
                              sale[a].account_seller, price)
    IN  /\ MayBuy(a, buyer)
        /\ sale[a].account_on_sale_start_time <= now
        /\ ~HasBid(a)
        /\ shares >= CreationFee
        /\ acc[buyer].balance >= price + shares
        /\ Becomes(CreateVesting(AdjustBalance(paid, buyer, -shares), a, shares))
        /\ sale' = [sale EXCEPT ![a] =
              [NoSale EXCEPT !.target_buyer = sale[a].target_buyer,
                             !.auction = sale[a].auction]]
        /\ recovery' = [recovery EXCEPT ![a].account = buyer]

BuySubaccount(a, new, buyer, shares) ==
    LET price == sale[a].subaccount_offer_price
        paid == AdjustBalance(AdjustBalance(Current, buyer, -price),
                              sale[a].subaccount_seller, price)
    IN  /\ acc[a].exists /\ acc[buyer].exists /\ ~acc[new].exists
        /\ sale[a].subaccount_on_sale
        /\ shares >= CreationFee
        /\ acc[buyer].balance >= price + shares
        /\ Becomes(CreateVesting(
               AdjustBalance(CreateAccount(paid, new), buyer, -shares),
               new, shares))
        /\ recovery' = [recovery EXCEPT ![new].account = buyer]
        /\ UNCHANGED sale

----------------------------------------------------------------------------
\* account_on_auction_expiration, one account at a time.

DueAuctions == {a \in Names : /\ sale[a].auction.account_on_auction
                              /\ sale[a].account_on_sale_start_time <= now}

\* The bidder may have the account: it is on sale to it for at most the bid.
BidWins(a) ==
    /\ HasBid(a)
    /\ sale[a].account_on_sale
    /\ sale[a].auction.current_bid >= sale[a].account_offer_price
    /\ sale[a].target_buyer \in {Nobody, sale[a].auction.current_bidder}

Sold(a) ==
    LET bid == sale[a].auction
    IN  /\ BidWins(a) /\ ~recovery[a].requested
        /\ Becomes([Current EXCEPT
              !.acc[bid.current_bidder].reserved_balance = @ - bid.current_bid,
              !.acc[sale[a].account_seller].balance = @ + bid.current_bid])
        /\ sale' = [sale EXCEPT ![a] = NoSale]
        /\ recovery' = [recovery EXCEPT ![a].account = bid.current_bidder]

\* Otherwise the bid is returned; a recovery under way ends the sale as well.
NotSold(a) ==
    /\ ~BidWins(a) \/ recovery[a].requested
    /\ Becomes(ReturnBid(Current, a))
    /\ sale' = [sale EXCEPT ![a] =
          IF ~BidWins(a) THEN [@ EXCEPT !.auction = NoAuction]
          ELSE [@ EXCEPT !.account_on_sale = FALSE,
                         !.account_offer_price = 0,
                         !.account_on_sale_start_time = 0,
                         !.target_buyer = Nobody,
                         !.auction = NoAuction]]
    /\ UNCHANGED recovery

AuctionExpiration == \E a \in DueAuctions : Sold(a) \/ NotSold(a)

----------------------------------------------------------------------------
\* Recovery: the recovery account files a request, the owner confirms it with
\* an authority the account had before.

\* An account without a recovery account is recovered by the top validator
\* (which of several with equal votes is left open).
MayRecover(a, by) ==
    IF recovery[a].account # Nobody THEN by = recovery[a].account
    ELSE by \in {v \in Validators : \A w \in Validators : val[v].votes >= val[w].votes}

\* The request is new or changed; whether the authority history holds the
\* owner's old authority is an input of RecoverAccount.
RequestAccountRecovery(a, by) ==
    /\ acc[a].exists
    /\ MayRecover(a, by)
    /\ recovery' = [recovery EXCEPT ![a].requested = TRUE,
                                    ![a].expires = now + RecoveryExpiration]
    /\ UNCHANGED <<sale, accountVars>>

CancelAccountRecovery(a, by) ==
    /\ recovery[a].requested
    /\ MayRecover(a, by)
    /\ recovery' = [recovery EXCEPT ![a].requested = FALSE, ![a].expires = Never]
    /\ UNCHANGED <<sale, accountVars>>

\* As if the auction was forgotten with the sale.
RecoverAccountForgetsBid(a) ==
    /\ recovery[a].requested
    /\ now - recovery[a].last > RecoveryLimit
    /\ recovery' = [recovery EXCEPT ![a].requested = FALSE, ![a].expires = Never,
                                    ![a].last = now]
    /\ sale' = [sale EXCEPT ![a] = NoSale]
    /\ UNCHANGED accountVars

\* recover_account_evaluator ends the sale and leaves the auction to the next
\* block, whose time is past the reset start time.
RecoverAccount(a) ==
    /\ recovery[a].requested
    /\ now - recovery[a].last > RecoveryLimit
    /\ recovery' = [recovery EXCEPT ![a].requested = FALSE, ![a].expires = Never,
                                    ![a].last = now]
    /\ sale' = [sale EXCEPT ![a].account_seller = Nobody,
                            ![a].account_offer_price = 0,
                            ![a].account_on_sale = FALSE,
                            ![a].account_on_sale_start_time = 0]
    /\ UNCHANGED accountVars

\* change_recovery_account_evaluator: a change takes effect after a period and
\* is withdrawn by asking for the present account.
ChangeRecoveryAccount(a, new) ==
    /\ acc[a].exists /\ acc[new].exists
    /\ recovery' = [recovery EXCEPT ![a].change =
          IF @ # NoChange /\ recovery[a].account = new THEN NoChange
          ELSE [account |-> new, effective_on |-> now + ChangePeriod]]
    /\ UNCHANGED <<sale, accountVars>>

\* An account created or registered by another one is recovered by that one
\* (account_create_evaluator, invite_registration_evaluator).
FirstRecoveryAccount(new, creator) ==
    /\ recovery' = [recovery EXCEPT ![new].account = creator]
    /\ UNCHANGED sale

RecoveriesDue ==
    \E a \in Names : \/ recovery[a].expires <= now
                     \/ recovery[a].change.effective_on <= now

\* account_recovery_processing: expired requests are removed, changes of the
\* recovery account applied.
RecoveryProcessing ==
    recovery' = [a \in Names |->
        LET r == recovery[a]
            kept == IF r.expires > now THEN r
                    ELSE [r EXCEPT !.requested = FALSE, !.expires = Never]
        IN  IF r.change.effective_on > now THEN kept
            ELSE [kept EXCEPT !.account = r.change.account, !.change = NoChange]]

----------------------------------------------------------------------------
\* Properties.

\* What an account has reserved is exactly the sum of its standing bids: no
\* outbidding, change of price or target, delisting, recovery or end of an
\* auction locks tokens without a bid or releases them twice.
BidsReserved ==
    \A b \in Names :
        acc[b].reserved_balance =
            SumFunction([a \in Names |-> IF sale[a].auction.current_bidder = b
                                        THEN sale[a].auction.current_bid ELSE 0])

\* Every standing bid is on an account that account_on_auction_expiration will
\* visit, and every account on sale has a seller it can be paid to: the loop
\* looks for account_on_auction only, and get_account of an empty name would
\* abort the block.
AuctionsCanEnd ==
    \A a \in Names :
        /\ HasBid(a) => sale[a].auction.account_on_auction
        /\ sale[a].account_on_sale =>
              sale[a].account_seller # Nobody /\ acc[sale[a].account_seller].exists

=============================================================================
