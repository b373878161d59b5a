----------------------------- MODULE MarketLedger -----------------------------
(***************************************************************************)
(* What the player market promises: gold, items and listings change as if  *)
(* every operation of internal/repo/market.go ran alone, in one step.      *)
(* Market.tla runs the same operations statement by statement, in parallel *)
(* transactions, and implements this module.                               *)
(***************************************************************************)
EXTENDS Integers, FiniteSets

CONSTANTS
  Players,
  Items,     \* trophies and pieces of equipment
  Equipped,  \* the equipment that starts in a slot
  Listings,  \* the identifiers of listings
  Prices,    \* prices a seller asks
  FeeBps,    \* MARKET_FEE_BPS
  Hauls,     \* what a fishing claim earns net of repairs; below zero, it costs
  Wealth,    \* the gold a player starts with
  Owner      \* the owner of each item at the start

VARIABLES
  gold,     \* players.gold
  item,     \* player_trophies and player_equipment
  listing   \* market_listings

vars == <<gold, item, listing>>

ItemRows == [owner : Players, onMarket : BOOLEAN, equipped : BOOLEAN]

\* No row yet: an identifier nobody was given.
Unlisted == [status |-> "none"]

Offers == [status : {"active", "sold", "cancelled"}, seller : Players, item : Items,
           price : Prices, fee : Nat]
ListingRows == Offers \union {Unlisted}

TypeOK ==
  /\ gold \in [Players -> Nat]
  /\ item \in [Items -> ItemRows]
  /\ listing \in [Listings -> ListingRows]

Init ==
  /\ gold = [p \in Players |-> Wealth]
  /\ item = [i \in Items |-> [owner |-> Owner[i], onMarket |-> FALSE, equipped |-> i \in Equipped]]
  /\ listing = [l \in Listings |-> Unlisted]

\* ListItem: the fee is fixed when the item is listed, and rounded down.
Fee(price) == (price * FeeBps) \div 10000

\* The WHERE clauses.
Listable(p, i) == item[i].owner = p /\ ~item[i].onMarket /\ ~item[i].equipped
Active(l) == listing[l].status = "active"
Cancellable(p, l) == Active(l) /\ listing[l].seller = p
Affordable(p, price) == gold[p] >= price

\* The UPDATEs that touch one column.
OnMarket(row, on) == [row EXCEPT !.onMarket = on]
Ended(offer, status) == [offer EXCEPT !.status = status]

CreateListing(p, i, price, l) ==
  /\ Listable(p, i)
  /\ listing[l] = Unlisted
  /\ item' = [item EXCEPT ![i] = OnMarket(@, TRUE)]
  /\ listing' = [listing EXCEPT ![l] = [status |-> "active", seller |-> p, item |-> i,
                                        price |-> price, fee |-> Fee(price)]]
  /\ UNCHANGED gold

CancelListing(p, l) ==
  /\ Cancellable(p, l)
  /\ item' = [item EXCEPT ![listing[l].item] = OnMarket(@, FALSE)]
  /\ listing' = [listing EXCEPT ![l] = Ended(@, "cancelled")]
  /\ UNCHANGED gold

BuyListing(p, l) ==
  /\ Active(l)
  /\ listing[l].seller # p
  /\ Affordable(p, listing[l].price)
  /\ gold' = [gold EXCEPT ![p] = @ - listing[l].price,
                          ![listing[l].seller] = @ + listing[l].price - listing[l].fee]
  /\ item' = [item EXCEPT ![listing[l].item] = [owner |-> p, onMarket |-> FALSE, equipped |-> FALSE]]
  /\ listing' = [listing EXCEPT ![l] = Ended(@, "sold")]

\* GREATEST(0, gold + $2 - $3) of SaveResolve, the other writer of gold.
Claim(p, haul) ==
  /\ gold' = [gold EXCEPT ![p] = IF @ + haul < 0 THEN 0 ELSE @ + haul]
  /\ UNCHANGED <<item, listing>>

Next ==
  \E p \in Players :
    \/ \E i \in Items, price \in Prices, l \in Listings : CreateListing(p, i, price, l)
    \/ \E l \in Listings : CancelListing(p, l) \/ BuyListing(p, l)
    \/ \E haul \in Hauls : Claim(p, haul)

Spec == Init /\ [][Next]_vars

-----------------------------------------------------------------------------
\* The escrow: an item is off the market or in exactly one active listing, of
\* its owner and out of every slot (000042: "Um item só pode ter um anúncio
\* ativo").
Escrow ==
  /\ \A l \in Listings : Active(l) =>
       /\ item[listing[l].item].onMarket
       /\ item[listing[l].item].owner = listing[l].seller
       /\ ~item[listing[l].item].equipped
       /\ \A k \in Listings \ {l} : Active(k) => listing[k].item # listing[l].item
  /\ \A i \in Items : item[i].onMarket => \E l \in Listings : Active(l) /\ listing[l].item = i
=============================================================================
