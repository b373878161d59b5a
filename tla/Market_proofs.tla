--------------------------- MODULE Market_proofs ---------------------------
(***************************************************************************)
(* Proofs about the market: MarketInv is inductive, and from it the        *)
(* transactions of Market.tla implement MarketLedger.tla.                  *)
(***************************************************************************)
EXTENDS Market, FiniteSetTheorems, WellFoundedInduction, TLAPS

-----------------------------------------------------------------------------
(* The ledger.                                                             *)

\* A fee is a whole number of coins, no more than the price: MARKET_FEE_BPS
\* is at most 10000.
LEMMA FeeRange ==
  ASSUME NEW price \in Prices
  PROVE  Ledger!Fee(price) \in Nat /\ Ledger!Fee(price) <= price
<1>1. price \in Nat /\ FeeBps \in Nat /\ FeeBps <= 10000
  BY PricesAssumption, FeeAssumption
<1>2. price * FeeBps \in Nat /\ price * FeeBps <= price * 10000
  BY <1>1
<1> DEFINE x == price * FeeBps
<1>3. x \in Nat /\ x <= price * 10000
  BY <1>2
<1> HIDE DEF x
<1>4. x \div 10000 \in Nat /\ x \div 10000 <= price
  BY <1>1, <1>3
<1> QED
  BY <1>4 DEF x, Ledger!Fee

LEMMA OnMarketRow ==
  ASSUME NEW row \in Ledger!ItemRows, NEW on \in BOOLEAN
  PROVE  /\ Ledger!OnMarket(row, on) \in Ledger!ItemRows
         /\ Ledger!OnMarket(row, on).owner = row.owner
         /\ Ledger!OnMarket(row, on).onMarket = on
         /\ Ledger!OnMarket(row, on).equipped = row.equipped
BY DEF Ledger!OnMarket, Ledger!ItemRows

LEMMA EndedRow ==
  ASSUME NEW offer \in Ledger!Offers, NEW status \in {"sold", "cancelled"}
  PROVE  /\ Ledger!Ended(offer, status) \in Ledger!Offers
         /\ Ledger!Ended(offer, status).status # "active"
BY DEF Ledger!Ended, Ledger!Offers

LEMMA ActiveOffer ==
  ASSUME Ledger!TypeOK, NEW l \in Listings, Ledger!Active(l)
  PROVE  /\ listing[l] \in Ledger!Offers
         /\ listing[l].seller \in Players /\ listing[l].item \in Items
         /\ listing[l].price \in Prices /\ listing[l].fee \in Nat
BY DEF Ledger!TypeOK, Ledger!Active, Ledger!ListingRows, Ledger!Offers, Ledger!Unlisted

LEMMA CreateListingKeeps ==
  ASSUME Ledger!TypeOK, Ledger!Escrow, FeeWithinPrice,
         NEW p \in Players, NEW i \in Items, NEW price \in Prices, NEW l \in Listings,
         Ledger!CreateListing(p, i, price, l)
  PROVE  Ledger!TypeOK' /\ Ledger!Escrow' /\ FeeWithinPrice'
<1> DEFINE offer == [status |-> "active", seller |-> p, item |-> i, price |-> price,
                     fee |-> Ledger!Fee(price)]
           marked == Ledger!OnMarket(item[i], TRUE)
<1>1. offer \in Ledger!Offers /\ offer.fee <= price
  BY FeeRange DEF Ledger!Offers
<1>2. /\ offer.status = "active" /\ offer.seller = p /\ offer.item = i /\ offer.price = price
  OBVIOUS
<1>3. /\ listing' = [listing EXCEPT ![l] = offer] /\ gold' = gold
      /\ item' = [item EXCEPT ![i] = marked] /\ Ledger!Listable(p, i)
  BY DEF Ledger!CreateListing
<1>4. item[i] \in Ledger!ItemRows
  BY DEF Ledger!TypeOK
<1>5. /\ marked \in Ledger!ItemRows /\ marked.owner = item[i].owner
      /\ marked.onMarket = TRUE /\ marked.equipped = item[i].equipped
  BY <1>4, OnMarketRow
<1> HIDE DEF offer, marked
<1>6. Ledger!TypeOK'
  BY <1>1, <1>3, <1>5 DEF Ledger!TypeOK, Ledger!ListingRows
<1>7. FeeWithinPrice'
  BY <1>1, <1>2, <1>3 DEF FeeWithinPrice, Ledger!Active, Ledger!TypeOK
<1>8. \A k \in Listings : Ledger!Active(k) => listing[k].item # i /\ listing[k].item \in Items
  BY <1>3, ActiveOffer DEF Ledger!Listable, Ledger!Escrow
<1>9. Ledger!Escrow'
  <2>1. /\ item'[i] = marked /\ \A j \in Items \ {i} : item'[j] = item[j]
        /\ listing'[l] = offer /\ \A k \in Listings \ {l} : listing'[k] = listing[k]
    BY <1>3 DEF Ledger!TypeOK
  <2>2. ~Ledger!Active(l)
    BY DEF Ledger!CreateListing, Ledger!Active, Ledger!Unlisted
  <2>3. ASSUME NEW k \in Listings, Ledger!Active(k)'
        PROVE  /\ item'[listing'[k].item].onMarket
               /\ item'[listing'[k].item].owner = listing'[k].seller
               /\ ~item'[listing'[k].item].equipped
               /\ \A h \in Listings \ {k} : Ledger!Active(h)' => listing'[h].item # listing'[k].item
    BY <1>2, <1>3, <1>5, <1>8, <2>1, <2>3 DEF Ledger!Escrow, Ledger!Active, Ledger!Listable
  <2>4. ASSUME NEW j \in Items, item'[j].onMarket
        PROVE  \E k \in Listings : Ledger!Active(k)' /\ listing'[k].item = j
    <3>1. CASE j = i
      BY <3>1, <1>2, <2>1 DEF Ledger!Active
    <3>2. CASE j # i
      <4>1. PICK k \in Listings : Ledger!Active(k) /\ listing[k].item = j
        BY <3>2, <2>1, <2>4 DEF Ledger!Escrow
      <4> QED
        BY <4>1, <2>1, <2>2 DEF Ledger!Active
    <3> QED
      BY <3>1, <3>2
  <2> QED
    BY <2>3, <2>4 DEF Ledger!Escrow
<1> QED
  BY <1>6, <1>7, <1>9

LEMMA CancelListingKeeps ==
  ASSUME Ledger!TypeOK, Ledger!Escrow, FeeWithinPrice,
         NEW p \in Players, NEW l \in Listings, Ledger!CancelListing(p, l)
  PROVE  Ledger!TypeOK' /\ Ledger!Escrow' /\ FeeWithinPrice'
<1> DEFINE i == listing[l].item
           marked == Ledger!OnMarket(item[i], FALSE)
           ended == Ledger!Ended(listing[l], "cancelled")
<1>1. Ledger!Active(l) /\ listing[l] \in Ledger!Offers /\ i \in Items
  BY ActiveOffer DEF Ledger!CancelListing, Ledger!Cancellable
<1>2. /\ listing' = [listing EXCEPT ![l] = ended] /\ gold' = gold
      /\ item' = [item EXCEPT ![i] = marked]
  BY DEF Ledger!CancelListing
<1>3. item[i] \in Ledger!ItemRows
  BY <1>1 DEF Ledger!TypeOK
<1>4. /\ marked \in Ledger!ItemRows /\ marked.owner = item[i].owner
      /\ marked.onMarket = FALSE /\ marked.equipped = item[i].equipped
  BY <1>3, OnMarketRow
<1>5. ended \in Ledger!Offers /\ ended.status # "active"
  BY <1>1, EndedRow
<1>6. \A k \in Listings \ {l} : Ledger!Active(k) => listing[k].item # i
  BY <1>1 DEF Ledger!Escrow
<1>7. i = listing[l].item
  OBVIOUS
<1> HIDE DEF i, marked, ended
<1>8. Ledger!TypeOK'
  BY <1>1, <1>2, <1>4, <1>5 DEF Ledger!TypeOK, Ledger!ListingRows
<1>9. FeeWithinPrice'
  BY <1>2, <1>5 DEF FeeWithinPrice, Ledger!Active, Ledger!TypeOK
<1>10. \A k \in Listings : Ledger!Active(k) => listing[k].item \in Items
  BY ActiveOffer
<1>11. Ledger!Escrow'
  BY <1>1, <1>2, <1>4, <1>5, <1>6, <1>7, <1>10
     DEF Ledger!Escrow, Ledger!Active, Ledger!TypeOK
<1> QED
  BY <1>8, <1>9, <1>11

LEMMA BuyListingKeeps ==
  ASSUME Ledger!TypeOK, Ledger!Escrow, FeeWithinPrice,
         NEW p \in Players, NEW l \in Listings, Ledger!BuyListing(p, l)
  PROVE  Ledger!TypeOK' /\ Ledger!Escrow' /\ FeeWithinPrice'
<1> DEFINE i == listing[l].item
           seller == listing[l].seller
           ended == Ledger!Ended(listing[l], "sold")
           bought == [owner |-> p, onMarket |-> FALSE, equipped |-> FALSE]
           spent == gold[p] - listing[l].price
           received == gold[seller] + listing[l].price - listing[l].fee
<1>1. /\ Ledger!Active(l) /\ listing[l] \in Ledger!Offers /\ i \in Items /\ seller \in Players
      /\ listing[l].price \in Nat /\ listing[l].fee \in Nat /\ listing[l].fee <= listing[l].price
  BY ActiveOffer, PricesAssumption DEF Ledger!BuyListing, FeeWithinPrice
<1>2. /\ gold[p] \in Nat /\ gold[seller] \in Nat /\ gold[p] >= listing[l].price
  BY <1>1 DEF Ledger!TypeOK, Ledger!BuyListing, Ledger!Affordable
<1>3. spent \in Nat /\ received \in Nat
  BY <1>1, <1>2
<1>4. seller # p
  BY DEF Ledger!BuyListing
<1>5. /\ listing' = [listing EXCEPT ![l] = ended]
      /\ item' = [item EXCEPT ![i] = bought]
  BY DEF Ledger!BuyListing
<1>6. gold' = [gold EXCEPT ![p] = spent, ![seller] = received]
  BY <1>4 DEF Ledger!BuyListing
<1>7. bought \in Ledger!ItemRows /\ bought.onMarket = FALSE
  BY DEF Ledger!ItemRows
<1>8. ended \in Ledger!Offers /\ ended.status # "active"
  BY <1>1, EndedRow
<1>9. \A k \in Listings \ {l} : Ledger!Active(k) => listing[k].item # i
  BY <1>1 DEF Ledger!Escrow
<1>10. \A k \in Listings : Ledger!Active(k) => listing[k].item \in Items
  BY ActiveOffer
<1>11. i = listing[l].item
  OBVIOUS
<1> HIDE DEF i, seller, ended, bought, spent, received
<1>12. Ledger!TypeOK'
  BY <1>1, <1>3, <1>5, <1>6, <1>7, <1>8 DEF Ledger!TypeOK, Ledger!ListingRows
<1>13. FeeWithinPrice'
  BY <1>5, <1>8 DEF FeeWithinPrice, Ledger!Active, Ledger!TypeOK
<1>14. Ledger!Escrow'
  BY <1>1, <1>5, <1>7, <1>8, <1>9, <1>10, <1>11
     DEF Ledger!Escrow, Ledger!Active, Ledger!TypeOK
<1> QED
  BY <1>12, <1>13, <1>14

LEMMA ClaimKeeps ==
  ASSUME Ledger!TypeOK, Ledger!Escrow, FeeWithinPrice,
         NEW p \in Players, NEW haul \in Hauls, Ledger!Claim(p, haul)
  PROVE  Ledger!TypeOK' /\ Ledger!Escrow' /\ FeeWithinPrice'
<1> DEFINE total == IF gold[p] + haul < 0 THEN 0 ELSE gold[p] + haul
<1>1. total \in Nat
  BY HaulsAssumption DEF Ledger!TypeOK
<1>2. gold' = [gold EXCEPT ![p] = total] /\ item' = item /\ listing' = listing
  BY DEF Ledger!Claim
<1> HIDE DEF total
<1> QED
  BY <1>1, <1>2 DEF Ledger!TypeOK, Ledger!Escrow, FeeWithinPrice, Ledger!Active

-----------------------------------------------------------------------------
(* Steps that leave the store alone.                                       *)

LEMMA ArgumentsExist == NoArgument \in Arguments
<1>1. PICK p \in Players, i \in Items, l \in Listings, price \in Prices, haul \in Hauls : TRUE
  BY ArgumentsAssumption
<1>2. [p |-> p, i |-> i, l |-> l, price |-> price, haul |-> haul] \in Arguments
  BY DEF Arguments
<1> QED
  BY <1>2 DEF NoArgument

LEMMA IdleType == Idle \in Transactions /\ Idle.pc = "idle" /\ Idle.held = {}
<1>1. Ledger!Unlisted \in Ledger!ListingRows
  BY DEF Ledger!ListingRows
<1> QED
  BY <1>1, ArgumentsExist DEF Idle, Transactions, Labels

\* What TxOK says of a request depends on the store and on its own transaction.
LEMMA TxOKUnchanged ==
  ASSUME NEW q \in Requests, TxOK(q), tx'[q] = tx[q], UNCHANGED store
  PROVE  TxOK(q)'
BY DEF TxOK, StillListable, StillForSale, StillAffordable, StillCancellable, OtherRows,
       store, At, Arg, Offer, Holds, Ledger!Listable, Ledger!Active, Ledger!Affordable,
       Ledger!Cancellable

LEMMA StoreUnchanged ==
  ASSUME MarketInv, UNCHANGED store
  PROVE  Ledger!TypeOK' /\ Escrow' /\ FeeWithinPrice'
BY DEF MarketInv, TypeOK, Escrow, store, Ledger!TypeOK, Ledger!Escrow, FeeWithinPrice, Ledger!Active

LEMMA IdleTxOK ==
  ASSUME NEW r \in Requests, tx[r].pc \in {"idle", "mark", "select", "selectOwn", "earn"}
  PROVE  TxOK(r)
BY DEF TxOK, StillListable, StillForSale, StillAffordable, StillCancellable, OtherRows, At

\* A request that moves on with the rows it held and perhaps one that nobody
\* else holds.
LEMMA OneMoves ==
  ASSUME MarketInv, NEW r \in Requests, NEW t \in Transactions,
         tx' = [tx EXCEPT ![r] = t], UNCHANGED store,
         \A q \in Requests \ {r} : t.held \intersect tx[q].held = {},
         TxOK(r)', faults' \in Nat, earned' \in Int
  PROVE  MarketInv'
<1>1. \A q \in Requests \ {r} : tx'[q] = tx[q]
  BY DEF MarketInv, TypeOK
<1>2. tx'[r] = t /\ tx' \in [Requests -> Transactions]
  BY DEF MarketInv, TypeOK
<1>3. LockInv'
  BY <1>1, <1>2 DEF MarketInv, LockInv
<1>4. \A q \in Requests : TxOK(q)'
  BY <1>1, TxOKUnchanged DEF MarketInv
<1> QED
  BY <1>2, <1>3, <1>4, StoreUnchanged DEF MarketInv, TypeOK

LEMMA RollbackKeeps ==
  ASSUME MarketInv, NEW r \in Requests, Rollback(r), UNCHANGED store,
         faults' \in Nat, earned' \in Int
  PROVE  MarketInv'
<1>1. tx' = [tx EXCEPT ![r] = Idle]
  BY DEF Rollback
<1>2. tx'[r] = Idle
  BY <1>1 DEF MarketInv, TypeOK
<1>3. (tx[r].pc = "idle")'
  BY <1>2, IdleType
<1>4. TxOK(r)'
  BY <1>3 DEF TxOK, StillListable, StillForSale, StillAffordable, StillCancellable, OtherRows, At
<1> QED
  BY <1>1, <1>4, IdleType, OneMoves

LEMMA BeginKeeps ==
  ASSUME MarketInv, NEW r \in Requests, NEW op, NEW arg \in Arguments,
         NEW label \in {"mark", "select", "selectOwn", "earn"}, Begin(r, op, label, arg)
  PROVE  MarketInv'
<1> DEFINE t == [Idle EXCEPT !.pc = label, !.arg = arg]
<1>1. t \in Transactions /\ t.pc = label /\ t.held = {}
  BY IdleType DEF Transactions, Labels
<1>2. tx' = [tx EXCEPT ![r] = t] /\ UNCHANGED <<store, faults, earned>>
  BY DEF Begin
<1> HIDE DEF t
<1>3. (tx[r].pc = label)'
  BY <1>1, <1>2 DEF MarketInv, TypeOK
<1>4. TxOK(r)'
  BY <1>3 DEF TxOK, StillListable, StillForSale, StillAffordable, StillCancellable, OtherRows, At
<1>5. faults' \in Nat /\ earned' \in Int
  BY <1>2 DEF MarketInv, TypeOK
<1> QED
  BY <1>1, <1>2, <1>4, <1>5, OneMoves

\* A statement that found its row: the lock is added and the rest is as
\* before.
LEMMA LockKeeps ==
  ASSUME MarketInv, NEW r \in Requests, NEW row \in Rows, NEW next \in Labels,
         NEW offer \in Ledger!ListingRows,
         Lock(r, row, next, offer), UNCHANGED <<store, faults, earned>>, TxOK(r)'
  PROVE  MarketInv'
<1> DEFINE t == [pc |-> next, arg |-> Arg(r), offer |-> offer, held |-> tx[r].held \union {row}]
<1>1. tx[r] \in Transactions
  BY DEF MarketInv, TypeOK
<1>2. t \in Transactions /\ t.held = tx[r].held \union {row}
  BY <1>1 DEF Transactions, Arg
<1>3. tx' = [tx EXCEPT ![r] = t] /\ Unlocked(r, row)
  BY DEF Lock
<1> HIDE DEF t
<1>4. \A q \in Requests \ {r} : t.held \intersect tx[q].held = {}
  BY <1>2, <1>3 DEF Unlocked, MarketInv, LockInv
<1>5. faults' \in Nat /\ earned' \in Int
  BY DEF MarketInv, TypeOK
<1> QED
  BY <1>2, <1>3, <1>4, <1>5, OneMoves

\* What Lock makes of the transaction.
LEMMA LockedTx ==
  ASSUME MarketInv, NEW r \in Requests, NEW row, NEW next, NEW offer,
         Lock(r, row, next, offer)
  PROVE  /\ tx'[r].pc = next /\ tx'[r].arg = Arg(r) /\ tx'[r].offer = offer
         /\ tx'[r].held = tx[r].held \union {row}
BY DEF Lock, MarketInv, TypeOK, Arg

LEMMA ArgType ==
  ASSUME MarketInv, NEW r \in Requests
  PROVE  /\ Arg(r).p \in Players /\ Arg(r).i \in Items /\ Arg(r).l \in Listings
         /\ Arg(r).price \in Prices /\ Arg(r).haul \in Hauls
         /\ Offer(r) \in Ledger!ListingRows
BY DEF MarketInv, TypeOK, Transactions, Arguments, Arg, Offer

LEMMA RowTypes ==
  /\ \A p \in Players : PlayerRow(p) \in Rows
  /\ \A i \in Items : ItemRow(i) \in Rows
  /\ \A l \in Listings : ListingRow(l) \in Rows
BY DEF Rows

-----------------------------------------------------------------------------
(* The statements that lock.                                               *)

LEMMA MarkOnMarketKeeps ==
  ASSUME MarketInv, NEW r \in Requests, MarkOnMarket(r)
  PROVE  MarketInv'
<1>1. CASE Ledger!Listable(Arg(r).p, Arg(r).i)
  <2>1. Lock(r, ItemRow(Arg(r).i), "insert", Offer(r)) /\ UNCHANGED <<store, faults, earned>>
    BY <1>1 DEF MarkOnMarket, Statement
  <2>2. /\ tx'[r].pc = "insert" /\ tx'[r].arg = Arg(r)
        /\ ItemRow(Arg(r).i) \in tx'[r].held
    BY <2>1, LockedTx
  <2>3. TxOK(r)'
    BY <1>1, <2>1, <2>2 DEF TxOK, StillListable, StillForSale, StillAffordable, StillCancellable,
       OtherRows, At, Arg, Holds, Ledger!Listable, store
  <2> QED
    BY <2>1, <2>3, ArgType, RowTypes, LockKeeps DEF Labels
<1>2. CASE ~Ledger!Listable(Arg(r).p, Arg(r).i)
  BY <1>2, RollbackKeeps DEF MarkOnMarket, Statement, MarketInv, TypeOK
<1> QED
  BY <1>1, <1>2

LEMMA SelectOwnForUpdateKeeps ==
  ASSUME MarketInv, NEW r \in Requests, SelectOwnForUpdate(r)
  PROVE  MarketInv'
<1>1. CASE Ledger!Cancellable(Arg(r).p, Arg(r).l)
  <2>1. Lock(r, ListingRow(Arg(r).l), "clear", listing[Arg(r).l]) /\ UNCHANGED <<store, faults, earned>>
        /\ tx[r].pc = "selectOwn"
    BY <1>1  DEF SelectOwnForUpdate, Statement, At
  <2>2. TxOK(r)
    BY DEF MarketInv
  <2>3. /\ tx'[r].pc = "clear" /\ tx'[r].arg = tx[r].arg /\ tx'[r].offer = listing[Arg(r).l]
        /\ tx'[r].held = tx[r].held \union {ListingRow(Arg(r).l)}
    BY <2>1, LockedTx DEF Arg
  <2>4. TxOK(r)'
    BY <1>1, <2>1, <2>2, <2>3 DEF TxOK, StillListable, StillForSale, StillAffordable, StillCancellable,
       OtherRows, At, Arg, Offer, Holds, Ledger!Listable, Ledger!Active, Ledger!Affordable,
       Ledger!Cancellable, store
  <2>5. ListingRow(Arg(r).l) \in Rows /\ listing[Arg(r).l] \in Ledger!ListingRows
    BY <1>1, <2>1, <2>2, ArgType, RowTypes, ActiveOffer
       DEF TxOK, StillForSale, StillCancellable, MarketInv, TypeOK, Ledger!TypeOK, Ledger!Cancellable
  <2> QED
    BY <2>1, <2>4, <2>5, LockKeeps DEF Labels
<1>2. CASE ~(Ledger!Cancellable(Arg(r).p, Arg(r).l))
  BY <1>2, RollbackKeeps DEF SelectOwnForUpdate, Statement, MarketInv, TypeOK
<1> QED
  BY <1>1, <1>2

LEMMA ClearOnMarketKeeps ==
  ASSUME MarketInv, NEW r \in Requests, ClearOnMarket(r)
  PROVE  MarketInv'
<1>1. Lock(r, ItemRow(Offer(r).item), "cancelled", Offer(r)) /\ UNCHANGED <<store, faults, earned>>
      /\ tx[r].pc = "clear"
  BY DEF ClearOnMarket, Statement, At
<1>2. TxOK(r)
  BY DEF MarketInv
<1>3. /\ tx'[r].pc = "cancelled" /\ tx'[r].arg = tx[r].arg /\ tx'[r].offer = Offer(r)
      /\ tx'[r].held = tx[r].held \union {ItemRow(Offer(r).item)}
  BY <1>1, LockedTx DEF Arg
<1>4. TxOK(r)'
  BY <1>1, <1>2, <1>3 DEF TxOK, StillListable, StillForSale, StillAffordable, StillCancellable,
     OtherRows, At, Arg, Offer, Holds, Ledger!Listable, Ledger!Active, Ledger!Affordable,
     Ledger!Cancellable, store
<1>5. ItemRow(Offer(r).item) \in Rows /\ Offer(r) \in Ledger!ListingRows
  BY <1>1, <1>2, ArgType, RowTypes, ActiveOffer
     DEF TxOK, StillForSale, StillCancellable, MarketInv, TypeOK, Ledger!TypeOK, Ledger!Cancellable
<1> QED
  BY <1>1, <1>4, <1>5, LockKeeps DEF Labels

LEMMA SelectForUpdateKeeps ==
  ASSUME MarketInv, NEW r \in Requests, SelectForUpdate(r)
  PROVE  MarketInv'
<1>1. CASE Ledger!Active(Arg(r).l) /\ ~SelfPurchase(r)
  <2>1. Lock(r, ListingRow(Arg(r).l), "debit", listing[Arg(r).l]) /\ UNCHANGED <<store, faults, earned>>
        /\ tx[r].pc = "select"
    BY <1>1  DEF SelectForUpdate, Statement, At
  <2>2. TxOK(r)
    BY DEF MarketInv
  <2>3. /\ tx'[r].pc = "debit" /\ tx'[r].arg = tx[r].arg /\ tx'[r].offer = listing[Arg(r).l]
        /\ tx'[r].held = tx[r].held \union {ListingRow(Arg(r).l)}
    BY <2>1, LockedTx DEF Arg
  <2>4. TxOK(r)'
    BY <1>1, <2>1, <2>2, <2>3 DEF SelfPurchase, TxOK, StillListable, StillForSale, StillAffordable, StillCancellable,
       OtherRows, At, Arg, Offer, Holds, Ledger!Listable, Ledger!Active, Ledger!Affordable,
       Ledger!Cancellable, store
  <2>5. ListingRow(Arg(r).l) \in Rows /\ listing[Arg(r).l] \in Ledger!ListingRows
    BY <1>1, <2>1, <2>2, ArgType, RowTypes, ActiveOffer
       DEF TxOK, StillForSale, StillCancellable, MarketInv, TypeOK, Ledger!TypeOK, Ledger!Cancellable
  <2> QED
    BY <2>1, <2>4, <2>5, LockKeeps DEF Labels
<1>2. CASE ~(Ledger!Active(Arg(r).l) /\ ~SelfPurchase(r))
  BY <1>2, RollbackKeeps DEF SelectForUpdate, Statement, MarketInv, TypeOK
<1> QED
  BY <1>1, <1>2

LEMMA DebitBuyerKeeps ==
  ASSUME MarketInv, NEW r \in Requests, DebitBuyer(r)
  PROVE  MarketInv'
<1>1. CASE Ledger!Affordable(Arg(r).p, Offer(r).price)
  <2>1. Lock(r, PlayerRow(Arg(r).p), "credit", Offer(r)) /\ UNCHANGED <<store, faults, earned>>
        /\ tx[r].pc = "debit"
    BY <1>1  DEF DebitBuyer, Statement, At
  <2>2. TxOK(r)
    BY DEF MarketInv
  <2>3. /\ tx'[r].pc = "credit" /\ tx'[r].arg = tx[r].arg /\ tx'[r].offer = Offer(r)
        /\ tx'[r].held = tx[r].held \union {PlayerRow(Arg(r).p)}
    BY <2>1, LockedTx DEF Arg
  <2>4. TxOK(r)'
    BY <1>1, <2>1, <2>2, <2>3 DEF TxOK, StillListable, StillForSale, StillAffordable, StillCancellable,
       OtherRows, At, Arg, Offer, Holds, Ledger!Listable, Ledger!Active, Ledger!Affordable,
       Ledger!Cancellable, store
  <2>5. PlayerRow(Arg(r).p) \in Rows /\ Offer(r) \in Ledger!ListingRows
    BY <1>1, <2>1, <2>2, ArgType, RowTypes, ActiveOffer
       DEF TxOK, StillForSale, StillCancellable, MarketInv, TypeOK, Ledger!TypeOK, Ledger!Cancellable
  <2> QED
    BY <2>1, <2>4, <2>5, LockKeeps DEF Labels
<1>2. CASE ~(Ledger!Affordable(Arg(r).p, Offer(r).price))
  BY <1>2, RollbackKeeps DEF DebitBuyer, Statement, MarketInv, TypeOK
<1> QED
  BY <1>1, <1>2

LEMMA CreditSellerKeeps ==
  ASSUME MarketInv, NEW r \in Requests, CreditSeller(r)
  PROVE  MarketInv'
<1>1. Lock(r, PlayerRow(Offer(r).seller), "transfer", Offer(r)) /\ UNCHANGED <<store, faults, earned>>
      /\ tx[r].pc = "credit"
  BY DEF CreditSeller, Statement, At
<1>2. TxOK(r)
  BY DEF MarketInv
<1>3. /\ tx'[r].pc = "transfer" /\ tx'[r].arg = tx[r].arg /\ tx'[r].offer = Offer(r)
      /\ tx'[r].held = tx[r].held \union {PlayerRow(Offer(r).seller)}
  BY <1>1, LockedTx DEF Arg
<1>4. TxOK(r)'
  BY <1>1, <1>2, <1>3 DEF TxOK, StillListable, StillForSale, StillAffordable, StillCancellable,
     OtherRows, At, Arg, Offer, Holds, Ledger!Listable, Ledger!Active, Ledger!Affordable,
     Ledger!Cancellable, store
<1>5. PlayerRow(Offer(r).seller) \in Rows /\ Offer(r) \in Ledger!ListingRows
  BY <1>1, <1>2, ArgType, RowTypes, ActiveOffer
     DEF TxOK, StillForSale, StillCancellable, MarketInv, TypeOK, Ledger!TypeOK, Ledger!Cancellable
<1> QED
  BY <1>1, <1>4, <1>5, LockKeeps DEF Labels

LEMMA TransferItemKeeps ==
  ASSUME MarketInv, NEW r \in Requests, TransferItem(r)
  PROVE  MarketInv'
<1>1. Lock(r, ItemRow(Offer(r).item), "sold", Offer(r)) /\ UNCHANGED <<store, faults, earned>>
      /\ tx[r].pc = "transfer"
  BY DEF TransferItem, Statement, At
<1>2. TxOK(r)
  BY DEF MarketInv
<1>3. /\ tx'[r].pc = "sold" /\ tx'[r].arg = tx[r].arg /\ tx'[r].offer = Offer(r)
      /\ tx'[r].held = tx[r].held \union {ItemRow(Offer(r).item)}
  BY <1>1, LockedTx DEF Arg
<1>4. TxOK(r)'
  BY <1>1, <1>2, <1>3 DEF TxOK, StillListable, StillForSale, StillAffordable, StillCancellable,
     OtherRows, At, Arg, Offer, Holds, Ledger!Listable, Ledger!Active, Ledger!Affordable,
     Ledger!Cancellable, store
<1>5. ItemRow(Offer(r).item) \in Rows /\ Offer(r) \in Ledger!ListingRows
  BY <1>1, <1>2, ArgType, RowTypes, ActiveOffer
     DEF TxOK, StillForSale, StillCancellable, MarketInv, TypeOK, Ledger!TypeOK, Ledger!Cancellable
<1> QED
  BY <1>1, <1>4, <1>5, LockKeeps DEF Labels

LEMMA EarnGoldKeeps ==
  ASSUME MarketInv, NEW r \in Requests, EarnGold(r)
  PROVE  MarketInv'
<1>1. Lock(r, PlayerRow(Arg(r).p), "earned", Offer(r)) /\ UNCHANGED <<store, faults, earned>>
      /\ tx[r].pc = "earn"
  BY DEF EarnGold, Statement, At
<1>2. TxOK(r)
  BY DEF MarketInv
<1>3. /\ tx'[r].pc = "earned" /\ tx'[r].arg = tx[r].arg /\ tx'[r].offer = Offer(r)
      /\ tx'[r].held = tx[r].held \union {PlayerRow(Arg(r).p)}
  BY <1>1, LockedTx DEF Arg
<1>4. TxOK(r)'
  BY <1>1, <1>2, <1>3 DEF TxOK, StillListable, StillForSale, StillAffordable, StillCancellable,
     OtherRows, At, Arg, Offer, Holds, Ledger!Listable, Ledger!Active, Ledger!Affordable,
     Ledger!Cancellable, store
<1>5. PlayerRow(Arg(r).p) \in Rows /\ Offer(r) \in Ledger!ListingRows
  BY <1>1, <1>2, ArgType, RowTypes, ActiveOffer
     DEF TxOK, StillForSale, StillCancellable, MarketInv, TypeOK, Ledger!TypeOK, Ledger!Cancellable
<1> QED
  BY <1>1, <1>4, <1>5, LockKeeps DEF Labels

-----------------------------------------------------------------------------
(* The commits: each is one operation of the ledger.                       *)

LEMMA CommitKeeps ==
  ASSUME MarketInv, NEW r \in Requests, Commit(r),
         Ledger!TypeOK', Ledger!Escrow', FeeWithinPrice', faults' \in Nat, earned' \in Int,
         \A q \in Requests \ {r} : TxOK(q)'
  PROVE  MarketInv'
<1>1. tx' = [tx EXCEPT ![r] = Idle]
  BY DEF Commit
<1>2. /\ tx' \in [Requests -> Transactions] /\ tx'[r].pc = "idle" /\ tx'[r].held = {}
      /\ \A q \in Requests \ {r} : tx'[q] = tx[q]
  BY <1>1, IdleType DEF MarketInv, TypeOK
<1>3. TxOK(r)'
  BY <1>2 DEF TxOK, StillListable, StillForSale, StillAffordable, StillCancellable, OtherRows, At
<1>4. LockInv'
  BY <1>2 DEF MarketInv, LockInv
<1> QED
  BY <1>2, <1>3, <1>4 DEF MarketInv, TypeOK, Escrow

\* The rows that a transaction holds are not those of another.
LEMMA HeldApart ==
  ASSUME MarketInv, NEW r \in Requests, NEW q \in Requests \ {r}, NEW row, Holds(r, row)
  PROVE  ~Holds(q, row)
BY DEF MarketInv, LockInv, Holds

LEMMA InsertImplements ==
  ASSUME MarketInv, NEW r \in Requests, InsertListing(r)
  PROVE  \E l \in Listings : Ledger!CreateListing(Arg(r).p, Arg(r).i, Arg(r).price, l)
<1>1. Ledger!Listable(Arg(r).p, Arg(r).i)
  BY DEF InsertListing, MarketInv, TxOK, StillListable
<1> QED
  BY <1>1 DEF InsertListing, Ledger!CreateListing

LEMMA CancelImplements ==
  ASSUME MarketInv, NEW r \in Requests, MarkCancelled(r)
  PROVE  Ledger!CancelListing(Arg(r).p, Arg(r).l)
<1>1. Ledger!Cancellable(Arg(r).p, Arg(r).l) /\ Offer(r) = listing[Arg(r).l]
  BY DEF MarkCancelled, MarketInv, TxOK, StillCancellable, At
<1> QED
  BY <1>1 DEF MarkCancelled, Ledger!CancelListing

LEMMA SoldImplements ==
  ASSUME MarketInv, NEW r \in Requests, MarkSold(r)
  PROVE  Ledger!BuyListing(Arg(r).p, Arg(r).l)
<1>1. /\ Ledger!Active(Arg(r).l) /\ Offer(r) = listing[Arg(r).l] /\ Offer(r).seller # Arg(r).p
      /\ Ledger!Affordable(Arg(r).p, Offer(r).price)
  BY DEF MarkSold, MarketInv, TxOK, StillForSale, StillAffordable, At
<1> QED
  BY <1>1 DEF MarkSold, Settled, Ledger!BuyListing

LEMMA AdvanceImplements ==
  ASSUME MarketInv, NEW r \in Requests, AdvanceAnchor(r)
  PROVE  Ledger!Claim(Arg(r).p, Arg(r).haul) \/ UNCHANGED store
BY DEF AdvanceAnchor, Ledger!Claim, store

LEMMA InsertListingKeeps ==
  ASSUME MarketInv, NEW r \in Requests, InsertListing(r)
  PROVE  MarketInv'
<1>1. PICK l \in Listings : Ledger!CreateListing(Arg(r).p, Arg(r).i, Arg(r).price, l)
  BY InsertImplements
<1>2. Ledger!TypeOK' /\ Ledger!Escrow' /\ FeeWithinPrice'
  BY <1>1, ArgType, CreateListingKeeps DEF MarketInv, TypeOK, Escrow
<1>3. Holds(r, ItemRow(Arg(r).i))
  BY DEF InsertListing, MarketInv, TxOK, StillListable
<1>4. /\ \A j \in Items \ {Arg(r).i} : item'[j] = item[j]
      /\ \A k \in Listings : Ledger!Active(k) => listing'[k] = listing[k]
      /\ gold' = gold
  <2> DEFINE offer == [status |-> "active", seller |-> Arg(r).p, item |-> Arg(r).i,
                       price |-> Arg(r).price, fee |-> Ledger!Fee(Arg(r).price)]
             marked == Ledger!OnMarket(item[Arg(r).i], TRUE)
  <2>1. /\ listing' = [listing EXCEPT ![l] = offer] /\ gold' = gold
        /\ item' = [item EXCEPT ![Arg(r).i] = marked] /\ listing[l] = Ledger!Unlisted
    BY <1>1 DEF Ledger!CreateListing
  <2> HIDE DEF offer, marked
  <2>2. ~Ledger!Active(l)
    BY <2>1 DEF Ledger!Active, Ledger!Unlisted
  <2> QED
    BY <2>1, <2>2 DEF MarketInv, TypeOK, Ledger!TypeOK
<1>5. ASSUME NEW q \in Requests \ {r}
      PROVE  TxOK(q)'
  <2>1. TxOK(q) /\ tx'[q] = tx[q]
    BY DEF MarketInv, TypeOK, InsertListing, Commit
  <2>2. At(q, "insert") => Arg(q).i # Arg(r).i
    BY <1>3, <2>1, HeldApart DEF TxOK, StillListable
  <2> QED
    BY <1>4, <2>1, <2>2, ArgType
       DEF TxOK, StillListable, StillForSale, StillAffordable, StillCancellable,
           OtherRows, At, Arg, Offer, Holds, Ledger!Listable, Ledger!Active, Ledger!Affordable,
           Ledger!Cancellable
<1> QED
  BY <1>2, <1>5, CommitKeeps DEF InsertListing, MarketInv, TypeOK

LEMMA MarkCancelledKeeps ==
  ASSUME MarketInv, NEW r \in Requests, MarkCancelled(r)
  PROVE  MarketInv'
<1>1. Ledger!CancelListing(Arg(r).p, Arg(r).l)
  BY CancelImplements
<1>2. Ledger!TypeOK' /\ Ledger!Escrow' /\ FeeWithinPrice'
  BY <1>1, ArgType, CancelListingKeeps DEF MarketInv, TypeOK, Escrow
<1>3. /\ Holds(r, ItemRow(Offer(r).item)) /\ Holds(r, ListingRow(Arg(r).l))
      /\ Offer(r) = listing[Arg(r).l]
  BY DEF MarkCancelled, MarketInv, TxOK, OtherRows, StillCancellable, At
<1>4. /\ \A j \in Items \ {Offer(r).item} : item'[j] = item[j]
      /\ \A k \in Listings \ {Arg(r).l} : listing'[k] = listing[k]
      /\ gold' = gold
  BY <1>1, <1>3 DEF Ledger!CancelListing, MarketInv, TypeOK, Ledger!TypeOK
<1>5. ASSUME NEW q \in Requests \ {r}
      PROVE  TxOK(q)'
  <2>1. TxOK(q) /\ tx'[q] = tx[q]
    BY DEF MarketInv, TypeOK, MarkCancelled, Commit
  <2>2. At(q, "insert") => Arg(q).i # Offer(r).item
    BY <1>3, <2>1, HeldApart DEF TxOK, StillListable
  <2>3. tx[q].pc \in {"debit", "credit", "transfer", "sold", "clear", "cancelled"}
          => Arg(q).l # Arg(r).l
    BY <1>3, <2>1, HeldApart DEF TxOK, StillForSale, StillCancellable
  <2> QED
    BY <1>4, <2>1, <2>2, <2>3, ArgType
       DEF TxOK, StillListable, StillForSale, StillAffordable, StillCancellable,
           OtherRows, At, Arg, Offer, Holds, Ledger!Listable, Ledger!Active, Ledger!Affordable,
           Ledger!Cancellable
<1> QED
  BY <1>2, <1>5, CommitKeeps DEF MarkCancelled, MarketInv, TypeOK

LEMMA MarkSoldKeeps ==
  ASSUME MarketInv, NEW r \in Requests, MarkSold(r)
  PROVE  MarketInv'
<1>1. Ledger!BuyListing(Arg(r).p, Arg(r).l)
  BY SoldImplements
<1>2. Ledger!TypeOK' /\ Ledger!Escrow' /\ FeeWithinPrice'
  BY <1>1, ArgType, BuyListingKeeps DEF MarketInv, TypeOK, Escrow
<1>3. /\ Holds(r, ItemRow(Offer(r).item)) /\ Holds(r, ListingRow(Arg(r).l))
      /\ Holds(r, PlayerRow(Arg(r).p)) /\ Holds(r, PlayerRow(Offer(r).seller))
      /\ Offer(r) = listing[Arg(r).l]
  BY DEF MarkSold, MarketInv, TxOK, OtherRows, StillForSale, StillAffordable, At
<1>4. /\ \A j \in Items \ {Offer(r).item} : item'[j] = item[j]
      /\ \A k \in Listings \ {Arg(r).l} : listing'[k] = listing[k]
  BY <1>1, <1>3 DEF Ledger!BuyListing, MarketInv, TypeOK, Ledger!TypeOK
<1>5. \A p \in Players \ {Arg(r).p, Offer(r).seller} : gold'[p] = gold[p]
  <2> DEFINE spent == gold[Arg(r).p] - Offer(r).price
             received == gold[Offer(r).seller] + Offer(r).price - Offer(r).fee
  <2>1. gold' = [gold EXCEPT ![Arg(r).p] = @ - Offer(r).price,
                             ![Offer(r).seller] = @ + Offer(r).price - Offer(r).fee]
    BY DEF MarkSold, Settled
  <2>2. Arg(r).p # Offer(r).seller
    BY <1>1, <1>3 DEF Ledger!BuyListing
  <2>3. gold' = [gold EXCEPT ![Arg(r).p] = spent, ![Offer(r).seller] = received]
    BY <2>1, <2>2
  <2> HIDE DEF spent, received
  <2> QED
    BY <2>3 DEF MarketInv, TypeOK, Ledger!TypeOK
<1>6. ASSUME NEW q \in Requests \ {r}
      PROVE  TxOK(q)'
  <2>1. TxOK(q) /\ tx'[q] = tx[q]
    BY DEF MarketInv, TypeOK, MarkSold, Commit
  <2>2. At(q, "insert") => Arg(q).i # Offer(r).item
    BY <1>3, <2>1, HeldApart DEF TxOK, StillListable
  <2>3. tx[q].pc \in {"debit", "credit", "transfer", "sold", "clear", "cancelled"}
          => Arg(q).l # Arg(r).l
    BY <1>3, <2>1, HeldApart DEF TxOK, StillForSale, StillCancellable
  <2>4. tx[q].pc \in {"credit", "transfer", "sold"}
          => Arg(q).p # Arg(r).p /\ Arg(q).p # Offer(r).seller
    BY <1>3, <2>1, HeldApart DEF TxOK, StillAffordable
  <2> QED
    BY <1>4, <1>5, <2>1, <2>2, <2>3, <2>4, ArgType
       DEF TxOK, StillListable, StillForSale, StillAffordable, StillCancellable,
           OtherRows, At, Arg, Offer, Holds, Ledger!Listable, Ledger!Active, Ledger!Affordable,
           Ledger!Cancellable
<1> QED
  BY <1>2, <1>6, CommitKeeps DEF MarkSold, MarketInv, TypeOK

LEMMA AdvanceAnchorKeeps ==
  ASSUME MarketInv, NEW r \in Requests, AdvanceAnchor(r)
  PROVE  MarketInv'
<1>1. CASE UNCHANGED <<gold, earned>> /\ Rollback(r)
  BY <1>1, RollbackKeeps DEF AdvanceAnchor, MarketInv, TypeOK, store
<1>2. CASE Commit(r) /\ Ledger!Claim(Arg(r).p, Arg(r).haul)
           /\ earned' = earned + gold'[Arg(r).p] - gold[Arg(r).p]
  <2>1. Ledger!TypeOK' /\ Ledger!Escrow' /\ FeeWithinPrice'
    BY <1>2, ArgType, ClaimKeeps DEF MarketInv, TypeOK, Escrow
  <2>2. earned' \in Int
    BY <1>2, <2>1, ArgType DEF MarketInv, TypeOK, Ledger!TypeOK
  <2>3. Holds(r, PlayerRow(Arg(r).p))
    BY DEF AdvanceAnchor, MarketInv, TxOK, OtherRows
  <2>4. /\ \A p \in Players \ {Arg(r).p} : gold'[p] = gold[p]
        /\ item' = item /\ listing' = listing
    <3> DEFINE total == IF gold[Arg(r).p] + Arg(r).haul < 0 THEN 0
                        ELSE gold[Arg(r).p] + Arg(r).haul
    <3>1. gold' = [gold EXCEPT ![Arg(r).p] = total] /\ item' = item /\ listing' = listing
      BY <1>2 DEF Ledger!Claim
    <3> HIDE DEF total
    <3> QED
      BY <3>1 DEF MarketInv, TypeOK, Ledger!TypeOK
  <2>5. ASSUME NEW q \in Requests \ {r}
        PROVE  TxOK(q)'
    <3>1. TxOK(q) /\ tx'[q] = tx[q]
      BY <1>2 DEF MarketInv, TypeOK, Commit
    <3>2. tx[q].pc \in {"credit", "transfer", "sold"} => Arg(q).p # Arg(r).p
      BY <2>3, <3>1, HeldApart DEF TxOK, StillAffordable
    <3> QED
      BY <2>4, <3>1, <3>2, ArgType
         DEF TxOK, StillListable, StillForSale, StillAffordable, StillCancellable,
           OtherRows, At, Arg, Offer, Holds, Ledger!Listable, Ledger!Active, Ledger!Affordable,
           Ledger!Cancellable
  <2>6. faults' \in Nat
    BY DEF AdvanceAnchor, MarketInv, TypeOK
  <2> QED
    BY <1>2, <2>1, <2>2, <2>5, <2>6, CommitKeeps
<1> QED
  BY <1>1, <1>2 DEF AdvanceAnchor, Ledger!Claim

-----------------------------------------------------------------------------
(* The specification.                                                      *)

LEMMA InitMarketInv ==
  ASSUME Init
  PROVE  MarketInv
<1>1. tx \in [Requests -> Transactions] /\ \A r \in Requests : tx[r] = Idle
  BY IdleType DEF Init
<1>2. Ledger!TypeOK
  BY ItemsAssumption, WealthAssumption
     DEF Init, Ledger!Init, Ledger!TypeOK, Ledger!ItemRows, Ledger!ListingRows
<1>3. Escrow /\ FeeWithinPrice
  BY DEF Init, Ledger!Init, Escrow, Ledger!Escrow, FeeWithinPrice, Ledger!Active, Ledger!Unlisted
<1>4. LockInv
  BY <1>1, IdleType DEF LockInv
<1>5. \A r \in Requests : TxOK(r)
  BY <1>1, IdleType, IdleTxOK
<1> QED
  BY <1>1, <1>2, <1>3, <1>4, <1>5 DEF MarketInv, TypeOK, Init

LEMMA ArrivalKeeps ==
  ASSUME MarketInv, NEW r \in Requests, Arrival(r)
  PROVE  MarketInv'
<1>1. ASSUME NEW a \in Arguments
      PROVE  /\ [NoArgument EXCEPT !.p = a.p, !.i = a.i, !.price = a.price] \in Arguments
             /\ [NoArgument EXCEPT !.p = a.p, !.l = a.l] \in Arguments
             /\ [NoArgument EXCEPT !.p = a.p, !.haul = a.haul] \in Arguments
  BY ArgumentsExist DEF Arguments
<1>2. CASE ListItem(r)
  BY <1>1, <1>2, BeginKeeps DEF ListItem
<1>3. CASE CancelItem(r)
  BY <1>1, <1>3, BeginKeeps DEF CancelItem
<1>4. CASE BuyItem(r)
  BY <1>1, <1>4, BeginKeeps DEF BuyItem
<1>5. CASE ClaimFishing(r)
  BY <1>1, <1>5, BeginKeeps DEF ClaimFishing
<1> QED
  BY <1>2, <1>3, <1>4, <1>5 DEF Arrival

LEMMA NextKeeps ==
  ASSUME MarketInv, [Next]_vars
  PROVE  MarketInv'
<1>1. ASSUME NEW r \in Requests, Running(r)
      PROVE  MarketInv'
  BY <1>1, MarkOnMarketKeeps, InsertListingKeeps, SelectOwnForUpdateKeeps, ClearOnMarketKeeps,
     MarkCancelledKeeps, SelectForUpdateKeeps, DebitBuyerKeeps, CreditSellerKeeps,
     TransferItemKeeps, MarkSoldKeeps, EarnGoldKeeps, AdvanceAnchorKeeps DEF Running
<1>2. ASSUME NEW r \in Requests, Abort(r) \/ DeadlockVictim(r)
      PROVE  MarketInv'
  BY <1>2, RollbackKeeps DEF Abort, DeadlockVictim, MarketInv, TypeOK
<1>3. CASE UNCHANGED vars
  <2>1. UNCHANGED store /\ UNCHANGED <<tx, faults, earned>>
    BY <1>3 DEF vars, store
  <2>2. \A q \in Requests : TxOK(q)'
    BY <2>1, TxOKUnchanged DEF MarketInv
  <2> QED
    BY <2>1, <2>2, StoreUnchanged DEF MarketInv, TypeOK, LockInv
<1> QED
  BY <1>1, <1>2, <1>3, ArrivalKeeps DEF Next

\* MarketInv holds throughout: what a transaction read under a lock stays so
\* until it commits, for any number of players, items and requests.
THEOREM MarketInvCorrect == Spec => []MarketInv
<1>1. Init => MarketInv
  BY InitMarketInv
<1>2. MarketInv /\ [Next]_vars => MarketInv'
  BY NextKeeps
<1> QED
  BY <1>1, <1>2, PTL DEF Spec

\* Type correctness; gold is a natural number, so no two purchases overdraw
\* a buyer.
THEOREM TypeCorrect == Spec => []TypeOK
<1>1. MarketInv => TypeOK
  BY DEF MarketInv
<1> QED
  BY <1>1, MarketInvCorrect, PTL

\* The escrow of market.go:39 and the index of 000042: no item is in two
\* active listings, or on the market without one.
THEOREM EscrowCorrect == Spec => []Escrow
<1>1. MarketInv => Escrow
  BY DEF MarketInv
<1> QED
  BY <1>1, MarketInvCorrect, PTL

\* Every step of the database is one operation of the ledger or changes no row.
LEMMA StepSimulation ==
  ASSUME MarketInv, [Next]_vars
  PROVE  [Ledger!Next]_store
<1>1. ASSUME NEW r \in Requests, Running(r)
      PROVE  Ledger!Next \/ UNCHANGED store
  <2>1. CASE InsertListing(r)
    BY <2>1, InsertImplements, ArgType DEF Ledger!Next
  <2>2. CASE MarkCancelled(r)
    BY <2>2, CancelImplements, ArgType DEF Ledger!Next
  <2>3. CASE MarkSold(r)
    BY <2>3, SoldImplements, ArgType DEF Ledger!Next
  <2>4. CASE AdvanceAnchor(r)
    BY <2>4, AdvanceImplements, ArgType DEF Ledger!Next
  <2> QED
    BY <1>1, <2>1, <2>2, <2>3, <2>4
       DEF Running, MarkOnMarket, SelectOwnForUpdate, ClearOnMarket, SelectForUpdate, DebitBuyer,
           CreditSeller, TransferItem, EarnGold, Statement
<1>2. ASSUME NEW r \in Requests, Arrival(r) \/ Abort(r) \/ DeadlockVictim(r)
      PROVE  UNCHANGED store
  BY <1>2 DEF Arrival, ListItem, CancelItem, BuyItem, ClaimFishing, Begin, Abort, DeadlockVictim
<1>3. UNCHANGED vars => UNCHANGED store
  BY DEF vars, store
<1> QED
  BY <1>1, <1>2, <1>3 DEF Next

\* The transactions of market.go implement the ledger, in which each operation
\* runs alone: they are serialisable.
THEOREM SerialCorrect == Spec => Serial
<1>1. Init => Ledger!Init
  BY DEF Init
<1>2. MarketInv /\ [Next]_vars => [Ledger!Next]_store
  BY StepSimulation
<1>3. [Ledger!Next]_store <=> [Ledger!Next]_(Ledger!vars)
  BY DEF store, Ledger!vars
<1> QED
  BY <1>1, <1>2, <1>3, MarketInvCorrect, PTL DEF Spec, Serial, Ledger!Spec
-----------------------------------------------------------------------------
(* Sums: SumFunction of the library takes one index after the other.       *)

\* What holds of zero, and of each number up to a bound after the one before,
\* holds up to the bound; said of a set, since the provers cannot instantiate
\* an induction over predicates.
LEMMA Induction ==
  ASSUME NEW m \in Nat, NEW T,
         0 \in T,
         \A n \in 0 .. m : n \in T /\ n < m => n + 1 \in T
  PROVE  \A n \in 0 .. m : n \in T
<1> DEFINE Less == {ss \in Nat \X Nat : ss[1] < ss[2]}
           Left == {n \in 0 .. m : n \notin T}
<1>1. IsWellFoundedOn(Less, Nat)
  BY NatLessThanWellFounded, Zenon DEF OpToRel
<1>2. \A g, f \in Nat : g < f => <<g, f>> \in Less
  OBVIOUS
<1>3. Left \subseteq Nat
  OBVIOUS
<1>4. ASSUME Left # {} PROVE FALSE
  <2> HIDE DEF Less
  <2>1. PICK f \in Left : \A g \in Left : ~ (<<g, f>> \in Less)
    BY <1>1, <1>3, <1>4, WFMin
  <2>2. f \in 0 .. m /\ f \notin T /\ f # 0
    BY <2>1
  <2>3. f - 1 \in 0 .. m /\ f - 1 < m /\ f - 1 < f /\ f - 1 \in Nat /\ f \in Nat
    BY <2>2
  <2>4. f - 1 \in T
    BY <1>2, <2>1, <2>3, Zenon
  <2>5. (f - 1) + 1 \in T
    BY <2>3, <2>4
  <2> QED
    BY <2>2, <2>5
<1> QED
  BY <1>4

\* The element that the sum over s takes first.
First(s) == CHOOSE x \in s : TRUE

\* What SumFunction computes: the sums over all sets of indices.
SumStep(f, S, sum) ==
  [s \in SUBSET S |-> IF s = {} THEN 0 ELSE f[First(s)] + sum[s \ {First(s)}]]
Sums(f, S) == CHOOSE sum : sum = SumStep(f, S, sum)

\* SumFunction takes the sum over all indices.
LEMMA SumFunctionIsSums ==
  ASSUME NEW S, NEW f, DOMAIN f = S
  PROVE  SumFunction(f) = Sums(f, S)[S]
BY DEF SumFunction, SumFunctionOnSet, FoldFunctionOnSet, MapThenFoldSet, Sums, SumStep, First

\* A set without its first element is smaller by one.
LEMMA WithoutFirst ==
  ASSUME NEW S, IsFiniteSet(S), NEW s \in SUBSET S, s # {}
  PROVE  /\ First(s) \in s /\ First(s) \in S /\ s \ {First(s)} \in SUBSET S
         /\ Cardinality(s) \in Nat \ {0}
         /\ Cardinality(s \ {First(s)}) = Cardinality(s) - 1
<1>1. First(s) \in s
  BY DEF First
<1>2. IsFiniteSet(s)
  BY FS_Subset
<1> QED
  BY <1>1, <1>2, FS_RemoveElement, FS_EmptySet, FS_CardinalityType

\* The sums exist: of sets of at most k elements they do, for every k.
LEMMA SumsDef ==
  ASSUME NEW S, IsFiniteSet(S), NEW f
  PROVE  Sums(f, S) = SumStep(f, S, Sums(f, S))
<1> DEFINE
      Upto(sum, k) == /\ sum = [s \in SUBSET S |-> sum[s]]
                      /\ \A s \in SUBSET S : Cardinality(s) <= k =>
                           sum[s] = SumStep(f, S, sum)[s]
      T == {k \in Nat : \E sum : Upto(sum, k)}
      m == Cardinality(S)
<1>1. m \in Nat /\ \A s \in SUBSET S : IsFiniteSet(s) /\ Cardinality(s) \in Nat /\ Cardinality(s) <= m
  BY FS_CardinalityType, FS_Subset
<1> HIDE DEF m
<1>2. 0 \in T
  <2> DEFINE zero == [s \in SUBSET S |-> 0]
  <2>1. ASSUME NEW s \in SUBSET S, Cardinality(s) <= 0
        PROVE  zero[s] = SumStep(f, S, zero)[s]
    <3>1. s = {}
      BY <1>1, <2>1, FS_EmptySet
    <3> QED
      BY <3>1 DEF SumStep
  <2> HIDE DEF zero
  <2>2. zero = [s \in SUBSET S |-> zero[s]]
    BY DEF zero
  <2>3. Upto(zero, 0)
    BY <2>1, <2>2
  <2> HIDE DEF Upto
  <2> QED
    BY <2>3
<1>3. ASSUME NEW k \in 0 .. m, k \in T, k < m PROVE k + 1 \in T
  <2>1. PICK sum : Upto(sum, k)
    BY <1>3
  <2> DEFINE next == SumStep(f, S, sum)
  <2>2. next = [s \in SUBSET S |-> next[s]]
    BY DEF SumStep
  <2>3. ASSUME NEW s \in SUBSET S, Cardinality(s) <= k + 1
        PROVE  next[s] = SumStep(f, S, next)[s]
    <3>1. CASE s = {}
      BY <3>1 DEF SumStep
    <3>2. CASE s # {}
      <4> DEFINE rest == s \ {First(s)}
      <4>1. rest \in SUBSET S /\ Cardinality(rest) <= k
        BY <2>3, <3>2, WithoutFirst
      <4>2. sum[rest] = next[rest]
        BY <2>1, <4>1
      <4>3. next[s] = f[First(s)] + sum[rest] /\ SumStep(f, S, next)[s] = f[First(s)] + next[rest]
        BY <3>2 DEF SumStep
      <4> QED
        BY <4>2, <4>3
    <3> QED
      BY <3>1, <3>2
  <2> HIDE DEF next
  <2>4. Upto(next, k + 1)
    BY <2>2, <2>3
  <2> HIDE DEF Upto
  <2> QED
    BY <2>4
<1>4. m \in T
  <2> HIDE DEF T
  <2>1. \A n \in 0 .. m : n \in T
    BY <1>1, <1>2, <1>3, Induction
  <2> QED
    BY <1>1, <2>1
<1>5. PICK sum : Upto(sum, m)
  BY <1>4
<1>6. \A s \in SUBSET S : sum[s] = SumStep(f, S, sum)[s]
  BY <1>1, <1>5
<1>7. sum = SumStep(f, S, sum)
  BY <1>5, <1>6 DEF SumStep
<1> QED
  BY <1>7, Zenon DEF Sums

\* The equation of the sums.
LEMMA SumsOf ==
  ASSUME NEW S, IsFiniteSet(S), NEW f, NEW s \in SUBSET S
  PROVE  Sums(f, S)[s] = IF s = {} THEN 0 ELSE f[First(s)] + Sums(f, S)[s \ {First(s)}]
<1> DEFINE sums == Sums(f, S)
<1>1. sums = SumStep(f, S, sums)
  BY SumsDef
<1> HIDE DEF sums
<1>2. sums[s] = IF s = {} THEN 0 ELSE f[First(s)] + sums[s \ {First(s)}]
  BY <1>1 DEF SumStep
<1> QED
  BY <1>2 DEF sums

\* What holds of the empty set, and of each set if it holds of that set
\* without its first element, holds of every set.
LEMMA SubsetInduction ==
  ASSUME NEW S, IsFiniteSet(S), NEW Good,
         \A s \in SUBSET S : s = {} \/ s \ {First(s)} \in Good => s \in Good
  PROVE  \A s \in SUBSET S : s \in Good
<1> DEFINE T == {k \in Nat : \A s \in SUBSET S : Cardinality(s) <= k => s \in Good}
           m == Cardinality(S)
<1>1. m \in Nat /\ \A s \in SUBSET S : IsFiniteSet(s) /\ Cardinality(s) \in Nat /\ Cardinality(s) <= m
  BY FS_CardinalityType, FS_Subset
<1> HIDE DEF m
<1>2. 0 \in T
  BY <1>1, FS_EmptySet
<1>3. ASSUME NEW k \in 0 .. m, k \in T, k < m PROVE k + 1 \in T
  <2>1. ASSUME NEW s \in SUBSET S, Cardinality(s) <= k + 1, s # {}
        PROVE  s \ {First(s)} \in Good
    BY <1>3, <2>1, WithoutFirst
  <2>2. \A s \in SUBSET S : Cardinality(s) <= k + 1 => s \in Good
    BY <2>1
  <2>3. k + 1 \in Nat
    OBVIOUS
  <2> QED
    BY <2>2, <2>3
<1> HIDE DEF T
<1>4. \A n \in 0 .. m : n \in T
  BY <1>1, <1>2, <1>3, Induction
<1>5. m \in T
  BY <1>1, <1>4
<1> QED
  BY <1>1, <1>5 DEF T

LEMMA SumsType ==
  ASSUME NEW S, IsFiniteSet(S), NEW f \in [S -> Int]
  PROVE  \A s \in SUBSET S : Sums(f, S)[s] \in Int
<1> DEFINE Good == {s \in SUBSET S : Sums(f, S)[s] \in Int}
<1>1. ASSUME NEW s \in SUBSET S, s = {} \/ s \ {First(s)} \in Good PROVE s \in Good
  <2>1. CASE s = {}
    <3>1. Sums(f, S)[s] = 0
      BY <2>1, SumsOf
    <3> QED
      BY <3>1
  <2>2. CASE s # {}
    <3>1. Sums(f, S)[s] = f[First(s)] + Sums(f, S)[s \ {First(s)}]
      BY <2>2, SumsOf
    <3>2. First(s) \in S
      BY <2>2, WithoutFirst
    <3> QED
      BY <1>1, <2>2, <3>1, <3>2
  <2> QED
    BY <2>1, <2>2
<1> HIDE DEF Good
<1>2. \A s \in SUBSET S : s \in Good
  BY <1>1, SubsetInduction
<1> QED
  BY <1>2 DEF Good

\* A sum is changed by what one of its terms is changed by.
LEMMA SumsExcept ==
  ASSUME NEW S, IsFiniteSet(S), NEW f \in [S -> Int], NEW g \in [S -> Int],
         NEW x \in S, \A y \in S \ {x} : g[y] = f[y]
  PROVE  \A s \in SUBSET S :
           Sums(g, S)[s] = Sums(f, S)[s] + IF x \in s THEN g[x] - f[x] ELSE 0
<1> DEFINE Good == {s \in SUBSET S :
           Sums(g, S)[s] = Sums(f, S)[s] + IF x \in s THEN g[x] - f[x] ELSE 0}
<1>2. ASSUME NEW s \in SUBSET S, s = {} \/ s \ {First(s)} \in Good PROVE s \in Good
  <2>1. CASE s = {}
    <3>1. Sums(g, S)[s] = 0 /\ Sums(f, S)[s] = 0 /\ x \notin s
      BY <2>1, SumsOf
    <3> QED
      BY <3>1
  <2>2. CASE s # {}
    <3> DEFINE c == First(s)
               rest == s \ {c}
    <3>1. c \in s /\ c \in S /\ rest \in SUBSET S
      BY <2>2, WithoutFirst
    <3>2. Sums(g, S)[rest] = Sums(f, S)[rest] + IF x \in rest THEN g[x] - f[x] ELSE 0
      BY <1>2, <2>2
    <3>3. Sums(g, S)[s] = g[c] + Sums(g, S)[rest] /\ Sums(f, S)[s] = f[c] + Sums(f, S)[rest]
      BY <2>2, SumsOf
    <3>4. Sums(f, S)[rest] \in Int /\ f[c] \in Int /\ f[x] \in Int /\ g[c] \in Int /\ g[x] \in Int
      BY <3>1, SumsType
    <3> HIDE DEF c
    <3>5. Sums(g, S)[s] = Sums(f, S)[s] + IF x \in s THEN g[x] - f[x] ELSE 0
      <4>1. CASE x = c
        BY <3>1, <3>2, <3>3, <3>4, <4>1
      <4>2. CASE x # c
        BY <3>1, <3>2, <3>3, <3>4, <4>2
      <4> QED
        BY <4>1, <4>2
    <3> QED
      BY <3>5
  <2> QED
    BY <2>1, <2>2
<1> HIDE DEF Good
<1>3. \A s \in SUBSET S : s \in Good
  BY <1>2, SubsetInduction
<1> QED
  BY <1>3 DEF Good

\* The sum of a constant is a product.
LEMMA SumsConstant ==
  ASSUME NEW S, IsFiniteSet(S), NEW v \in Int
  PROVE  \A s \in SUBSET S : Sums([x \in S |-> v], S)[s] = Cardinality(s) * v
<1> DEFINE f == [x \in S |-> v]
           Good == {s \in SUBSET S : Sums(f, S)[s] = Cardinality(s) * v}
<1>1. ASSUME NEW s \in SUBSET S, s = {} \/ s \ {First(s)} \in Good PROVE s \in Good
  <2>1. CASE s = {}
    <3>1. Sums(f, S)[s] = 0
      BY <2>1, SumsOf
    <3>2. Cardinality(s) = 0 /\ 0 * v = 0
      BY <2>1, FS_EmptySet
    <3> QED
      BY <3>1, <3>2
  <2>2. CASE s # {}
    <3> DEFINE n == Cardinality(s)
    <3>1. n \in Nat /\ f[First(s)] = v /\ Cardinality(s \ {First(s)}) = n - 1
      BY <2>2, WithoutFirst
    <3>2. Sums(f, S)[s] = f[First(s)] + Sums(f, S)[s \ {First(s)}]
      BY <2>2, SumsOf
    <3>3. Sums(f, S)[s \ {First(s)}] = Cardinality(s \ {First(s)}) * v
      BY <1>1, <2>2
    <3> HIDE DEF n
    <3>4. v + (n - 1) * v = n * v
      BY <3>1
    <3> QED
      BY <3>1, <3>2, <3>3, <3>4 DEF n
  <2> QED
    BY <2>1, <2>2
<1> HIDE DEF Good
<1>2. \A s \in SUBSET S : s \in Good
  BY <1>1, SubsetInduction
<1> QED
  BY <1>2 DEF Good

\* The same of SumFunction.
LEMMA SumExcept ==
  ASSUME NEW S, IsFiniteSet(S), NEW f \in [S -> Int], NEW g \in [S -> Int],
         NEW x \in S, \A y \in S \ {x} : g[y] = f[y]
  PROVE  SumFunction(g) = SumFunction(f) + g[x] - f[x]
<1>1. \A s \in SUBSET S : Sums(g, S)[s] = Sums(f, S)[s] + IF x \in s THEN g[x] - f[x] ELSE 0
  BY SumsExcept
<1>2. DOMAIN g = S /\ DOMAIN f = S
  OBVIOUS
<1>3. SumFunction(g) = Sums(g, S)[S] /\ SumFunction(f) = Sums(f, S)[S]
  BY <1>2, SumFunctionIsSums
<1>4. Sums(f, S)[S] \in Int /\ f[x] \in Int /\ g[x] \in Int
  BY SumsType
<1> QED
  BY <1>1, <1>3, <1>4

LEMMA SumConstant ==
  ASSUME NEW S, IsFiniteSet(S), NEW v \in Int
  PROVE  SumFunction([x \in S |-> v]) = Cardinality(S) * v
BY SumFunctionIsSums, SumsConstant

LEMMA SumType ==
  ASSUME NEW S, IsFiniteSet(S), NEW f \in [S -> Int]
  PROVE  SumFunction(f) \in Int
BY SumFunctionIsSums, SumsType

-----------------------------------------------------------------------------
(* The gold.                                                               *)

\* The totals are numbers.
LEMMA GoldTypes ==
  ASSUME Ledger!TypeOK
  PROVE  /\ SumFunction(gold) \in Int /\ SumFunction(Burnt) \in Int
         /\ gold \in [Players -> Int] /\ Burnt \in [Listings -> Int]
         /\ Cardinality(Players) * Wealth \in Int
<1>1. gold \in [Players -> Int]
  BY DEF Ledger!TypeOK
<1>2. Burnt \in [Listings -> Int]
  BY DEF Ledger!TypeOK, Ledger!ListingRows, Ledger!Offers, Ledger!Unlisted, Burnt
<1>3. Cardinality(Players) * Wealth \in Int
  BY FiniteAssumption, WealthAssumption, FS_CardinalityType
<1> QED
  BY <1>1, <1>2, <1>3, SumType, FiniteAssumption

\* At the start everyone has the same and nothing was sold.
LEMMA InitGold ==
  ASSUME Init
  PROVE  GoldConserved
<1>1. SumFunction([p \in Players |-> Wealth]) = Cardinality(Players) * Wealth
  <2>1. IsFiniteSet(Players) /\ Wealth \in Int
    BY FiniteAssumption, WealthAssumption
  <2> QED
    BY <2>1, SumConstant, Zenon
<1>2. SumFunction([l \in Listings |-> 0]) = Cardinality(Listings) * 0
  <2>1. IsFiniteSet(Listings) /\ 0 \in Int
    BY FiniteAssumption
  <2> QED
    BY <2>1, SumConstant, Zenon
<1>3. Cardinality(Listings) \in Nat /\ Cardinality(Players) * Wealth \in Int
  BY FS_CardinalityType, FiniteAssumption, WealthAssumption
<1>4. Burnt = [l \in Listings |-> 0] /\ gold = [p \in Players |-> Wealth] /\ earned = 0
  BY DEF Init, Ledger!Init, Burnt, Ledger!Unlisted
<1>5. SumFunction(gold) = Cardinality(Players) * Wealth /\ SumFunction(Burnt) = 0
  BY <1>1, <1>2, <1>3, <1>4
<1> QED
  BY <1>3, <1>4, <1>5 DEF GoldConserved

\* A listing that is put up or taken back burns nothing.
LEMMA ListingsBurnNothing ==
  ASSUME MarketInv, NEW r \in Requests, InsertListing(r) \/ MarkCancelled(r)
  PROVE  gold' = gold /\ earned' = earned /\ Burnt' = Burnt
<1>1. CASE InsertListing(r)
  <2>1. PICK l \in Listings : /\ listing[l] = Ledger!Unlisted
                              /\ Ledger!CreateListing(Arg(r).p, Arg(r).i, Arg(r).price, l)
    BY <1>1, InsertImplements DEF Ledger!CreateListing
  <2> DEFINE offer == [status |-> "active", seller |-> Arg(r).p, item |-> Arg(r).i,
                       price |-> Arg(r).price, fee |-> Ledger!Fee(Arg(r).price)]
  <2>2. listing' = [listing EXCEPT ![l] = offer] /\ offer.status = "active"
    BY <2>1 DEF Ledger!CreateListing
  <2> HIDE DEF offer
  <2>3. \A k \in Listings : Burnt'[k] = Burnt[k]
    BY <2>1, <2>2 DEF MarketInv, TypeOK, Ledger!TypeOK, Burnt, Ledger!Unlisted
  <2>4. Burnt' = Burnt
    BY <2>3 DEF Burnt
  <2> QED
    BY <1>1, <2>4 DEF InsertListing
<1>2. CASE MarkCancelled(r)
  <2>1. Ledger!CancelListing(Arg(r).p, Arg(r).l)
    BY <1>2, CancelImplements
  <2> DEFINE ended == Ledger!Ended(listing[Arg(r).l], "cancelled")
  <2>2. /\ listing' = [listing EXCEPT ![Arg(r).l] = ended]
        /\ listing[Arg(r).l].status = "active" /\ listing[Arg(r).l] \in Ledger!Offers
    BY <2>1, ArgType, ActiveOffer
       DEF Ledger!CancelListing, Ledger!Cancellable, Ledger!Active, MarketInv, TypeOK
  <2>3. ended.status = "cancelled"
    BY <2>2 DEF Ledger!Ended, Ledger!Offers
  <2> HIDE DEF ended
  <2>4. \A k \in Listings : Burnt'[k] = Burnt[k]
    BY <2>2, <2>3 DEF MarketInv, TypeOK, Ledger!TypeOK, Burnt
  <2>5. Burnt' = Burnt
    BY <2>4 DEF Burnt
  <2> QED
    BY <1>2, <2>5 DEF MarkCancelled
<1> QED
  BY <1>1, <1>2

\* A sale takes the price from the buyer, gives it to the seller without the
\* fee, and burns the fee.
LEMMA SaleBurnsFee ==
  ASSUME MarketInv, NEW r \in Requests, MarkSold(r)
  PROVE  /\ SumFunction(gold') = SumFunction(gold) - Offer(r).fee
         /\ SumFunction(Burnt') = SumFunction(Burnt) + Offer(r).fee
         /\ Offer(r).fee \in Int /\ earned' = earned
<1> DEFINE buyer == Arg(r).p
           seller == Offer(r).seller
           l == Arg(r).l
           fee == Offer(r).fee
           price == Offer(r).price
           paid == [gold EXCEPT ![buyer] = gold[buyer] - price]
<1>1. Ledger!BuyListing(buyer, l) /\ Offer(r) = listing[l]
  BY SoldImplements DEF MarkSold, MarketInv, TxOK, StillForSale, At
<1>2. /\ buyer \in Players /\ l \in Listings /\ buyer # seller /\ Ledger!Active(l)
      /\ gold' = [gold EXCEPT ![buyer] = @ - price, ![seller] = @ + price - fee]
      /\ listing' = [listing EXCEPT ![l] = Ledger!Ended(listing[l], "sold")]
  BY <1>1, ArgType DEF Ledger!BuyListing
<1>3. listing[l] \in Ledger!Offers /\ seller \in Players /\ price \in Nat /\ fee \in Nat
  BY <1>1, <1>2, ActiveOffer, PricesAssumption DEF MarketInv, TypeOK
<1>4. Ledger!TypeOK /\ Ledger!TypeOK'
  BY MarkSoldKeeps DEF MarketInv, TypeOK
<1>5. gold \in [Players -> Int] /\ gold' \in [Players -> Int]
  BY <1>4 DEF Ledger!TypeOK
<1>6. Burnt \in [Listings -> Int] /\ Burnt' \in [Listings -> Int]
  <2>1. Burnt \in [Listings -> Int]
    BY <1>4, GoldTypes
  <2>2. Burnt' \in [Listings -> Int]
    BY <1>4 DEF Ledger!TypeOK, Ledger!ListingRows, Ledger!Offers, Ledger!Unlisted, Burnt
  <2> QED
    BY <2>1, <2>2
<1> DEFINE ended == Ledger!Ended(listing[l], "sold")
<1>7. ended.status = "sold" /\ ended.fee = fee
  BY <1>1, <1>3 DEF Ledger!Ended, Ledger!Offers
<1> HIDE DEF buyer, seller, l, fee, price, paid, ended
<1>8. SumFunction(gold') = SumFunction(gold) - fee
  <2>1. paid \in [Players -> Int] /\ paid[buyer] = gold[buyer] - price
        /\ \A p \in Players \ {buyer} : paid[p] = gold[p]
    BY <1>2, <1>3, <1>5 DEF paid
  <2>2. /\ gold'[buyer] = gold[buyer] - price
        /\ gold'[seller] = gold[seller] + price - fee
        /\ \A p \in Players \ {buyer, seller} : gold'[p] = gold[p]
    BY <1>2, <1>3, <1>5
  <2>3. \A p \in Players \ {seller} : gold'[p] = paid[p]
    BY <2>1, <2>2
  <2>4. SumFunction(paid) = SumFunction(gold) + paid[buyer] - gold[buyer]
    BY <1>2, <1>5, <2>1, SumExcept, FiniteAssumption
  <2>5. SumFunction(gold') = SumFunction(paid) + gold'[seller] - paid[seller]
    BY <1>3, <1>5, <2>1, <2>3, SumExcept, FiniteAssumption
  <2>6. SumFunction(gold) \in Int /\ SumFunction(paid) \in Int /\ gold[buyer] \in Int
        /\ gold[seller] \in Int /\ paid[seller] = gold[seller]
    BY <1>2, <1>3, <1>5, <2>1, SumType, FiniteAssumption
  <2> QED
    BY <1>3, <2>1, <2>2, <2>4, <2>5, <2>6
<1>9. SumFunction(Burnt') = SumFunction(Burnt) + fee
  <2>1. Burnt[l] = 0 /\ Burnt'[l] = fee /\ \A k \in Listings \ {l} : Burnt'[k] = Burnt[k]
    BY <1>2, <1>4, <1>7 DEF Burnt, Ledger!Active, Ledger!TypeOK, ended
  <2>2. SumFunction(Burnt') = SumFunction(Burnt) + Burnt'[l] - Burnt[l]
    BY <1>2, <1>6, <2>1, SumExcept, FiniteAssumption
  <2>3. SumFunction(Burnt) \in Int
    BY <1>6, SumType, FiniteAssumption
  <2> QED
    BY <1>3, <2>1, <2>2, <2>3
<1> QED
  BY <1>3, <1>8, <1>9 DEF fee, MarkSold

\* A claim adds to the total what it adds to the player's gold.
LEMMA ClaimEarns ==
  ASSUME MarketInv, NEW r \in Requests, AdvanceAnchor(r)
  PROVE  /\ SumFunction(gold') - SumFunction(gold) = earned' - earned
         /\ earned' \in Int /\ Burnt' = Burnt
<1>1. Burnt' = Burnt
  BY DEF AdvanceAnchor, Burnt
<1>2. gold \in [Players -> Int] /\ gold' \in [Players -> Int] /\ earned \in Int /\ earned' \in Int
  BY AdvanceAnchorKeeps DEF MarketInv, TypeOK, Ledger!TypeOK
<1>3. SumFunction(gold) \in Int
  BY <1>2, SumType, FiniteAssumption
<1>4. CASE UNCHANGED <<gold, earned>>
  BY <1>1, <1>2, <1>3, <1>4
<1>5. CASE earned' = earned + gold'[Arg(r).p] - gold[Arg(r).p] /\ Ledger!Claim(Arg(r).p, Arg(r).haul)
  <2>1. \A p \in Players \ {Arg(r).p} : gold'[p] = gold[p]
    <3> DEFINE total == IF gold[Arg(r).p] + Arg(r).haul < 0 THEN 0
                        ELSE gold[Arg(r).p] + Arg(r).haul
    <3>1. gold' = [gold EXCEPT ![Arg(r).p] = total]
      BY <1>5 DEF Ledger!Claim
    <3> HIDE DEF total
    <3> QED
      BY <3>1, <1>2
  <2>2. SumFunction(gold') = SumFunction(gold) + gold'[Arg(r).p] - gold[Arg(r).p]
    BY <1>2, <2>1, ArgType, SumExcept, FiniteAssumption
  <2> QED
    BY <1>1, <1>2, <1>3, <1>5, <2>2, ArgType
<1> QED
  BY <1>4, <1>5 DEF AdvanceAnchor, Ledger!Claim

\* The total of the gold is kept by every step of the market.
LEMMA GoldKept ==
  ASSUME MarketInv, GoldConserved, [Next]_vars
  PROVE  GoldConserved'
<1>1. /\ SumFunction(gold) \in Int /\ SumFunction(Burnt) \in Int
      /\ Cardinality(Players) * Wealth \in Int /\ earned \in Int
  BY GoldTypes DEF MarketInv, TypeOK
<1>2. CASE UNCHANGED store /\ earned' = earned
  BY <1>2 DEF GoldConserved, Burnt, store
<1>3. ASSUME NEW r \in Requests, InsertListing(r) \/ MarkCancelled(r)
      PROVE  GoldConserved'
  BY <1>3, ListingsBurnNothing DEF GoldConserved
<1>4. ASSUME NEW r \in Requests, MarkSold(r)
      PROVE  GoldConserved'
  BY <1>1, <1>4, SaleBurnsFee DEF GoldConserved
<1>5. ASSUME NEW r \in Requests, AdvanceAnchor(r)
      PROVE  GoldConserved'
  <2>1. SumFunction(gold') - SumFunction(gold) = earned' - earned /\ earned' \in Int
        /\ Burnt' = Burnt
    BY <1>5, ClaimEarns
  <2>2. SumFunction(gold') \in Int
    BY <1>5, AdvanceAnchorKeeps, SumType, FiniteAssumption
       DEF MarketInv, TypeOK, Ledger!TypeOK
  <2> QED
    BY <1>1, <2>1, <2>2 DEF GoldConserved
<1>6. ASSUME NEW r \in Requests,
             ~(InsertListing(r) \/ MarkCancelled(r) \/ MarkSold(r) \/ AdvanceAnchor(r)),
             Arrival(r) \/ Running(r) \/ Abort(r) \/ DeadlockVictim(r)
      PROVE  UNCHANGED store /\ earned' = earned
  BY <1>6 DEF Arrival, ListItem, CancelItem, BuyItem, ClaimFishing, Begin, Abort, DeadlockVictim,
     Running, MarkOnMarket, SelectOwnForUpdate, ClearOnMarket, SelectForUpdate, DebitBuyer,
     CreditSeller, TransferItem, EarnGold, Statement
<1> QED
  BY <1>2, <1>3, <1>4, <1>5, <1>6 DEF Next, vars, store

\* Gold is conserved: what the players have together is what they started with
\* and what they fished, without the fees of all sales (market.go:127-140), for
\* any number of players and listings.
THEOREM GoldConservedCorrect == Spec => []GoldConserved
<1>1. Init => GoldConserved
  BY InitGold
<1>2. MarketInv /\ GoldConserved /\ [Next]_vars => GoldConserved'
  BY GoldKept
<1> QED
  BY <1>1, <1>2, MarketInvCorrect, PTL DEF Spec
=============================================================================
