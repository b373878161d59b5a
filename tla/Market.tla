------------------------------- MODULE Market -------------------------------
(***************************************************************************)
(* The player market as the database runs it: every request of             *)
(* internal/usecase/market.go is one transaction, every statement of it an *)
(* action.  Isolation is READ COMMITTED: a statement sees committed rows;  *)
(* one whose WHERE matches takes the row's lock, waiting for it and        *)
(* matching again on what it then finds; locks last until the transaction  *)
(* ends.  What a transaction wrote is seen by nobody before its commit,    *)
(* so the writes are made there.                                           *)
(***************************************************************************)
EXTENDS Integers, FiniteSets, Functions

CONSTANTS Players, Items, Equipped, Listings, Prices, FeeBps, Hauls, Wealth, Owner,
          Requests,   \* goroutines, each with a connection of the pool
          Endpoints,  \* the operations the clients of an instance call
          MaxGold,    \* bound: a fishing claim arrives only below it
          MaxFaults   \* bound on failed calls

ASSUME ItemsAssumption == Equipped \subseteq Items /\ Owner \in [Items -> Players]
ASSUME PricesAssumption == Prices \subseteq Nat \ {0}
ASSUME FeeAssumption == FeeBps \in 0 .. 10000
ASSUME HaulsAssumption == Hauls \subseteq Int
ASSUME WealthAssumption == Wealth \in Nat
ASSUME ArgumentsAssumption ==
  Players # {} /\ Items # {} /\ Listings # {} /\ Prices # {} /\ Hauls # {}
ASSUME FiniteAssumption == IsFiniteSet(Players) /\ IsFiniteSet(Listings)
ASSUME RequestsAssumption == Requests # {} /\ Endpoints \subseteq {"list", "cancel", "buy", "claim"}
ASSUME BoundsAssumption == MaxGold \in Nat /\ MaxFaults \in Nat

VARIABLES
  gold, item, listing,  \* the committed rows
  tx,                   \* the transaction of each request
  faults,               \* calls that failed so far
  earned                \* history: gold that fishing claims added

\* The refinement mapping: the ledger is what is committed.
Ledger == INSTANCE MarketLedger WITH gold <- gold, item <- item, listing <- listing

store == <<gold, item, listing>>
vars == <<gold, item, listing, tx, faults, earned>>

PlayerRow(p) == <<"player", p>>
ItemRow(i) == <<"item", i>>
ListingRow(l) == <<"listing", l>>
Rows == {PlayerRow(p) : p \in Players} \union {ItemRow(i) : i \in Items}
          \union {ListingRow(l) : l \in Listings}

\* The arguments of a request, the listing its SELECT ... FOR UPDATE returned
\* and the rows it has locked.
Arguments == [p : Players, i : Items, l : Listings, price : Prices, haul : Hauls]
Labels == {"idle", "mark", "insert", "select", "debit", "credit", "transfer", "sold",
           "selectOwn", "clear", "cancelled", "earn", "earned"}
Transactions == [pc : Labels, arg : Arguments, offer : Ledger!ListingRows, held : SUBSET Rows]
NoArgument == CHOOSE a \in Arguments : TRUE
Idle == [pc |-> "idle", arg |-> NoArgument, offer |-> Ledger!Unlisted, held |-> {}]

TypeOK ==
  /\ Ledger!TypeOK
  /\ tx \in [Requests -> Transactions]
  /\ faults \in Nat
  /\ earned \in Int

Init ==
  /\ Ledger!Init
  /\ tx = [r \in Requests |-> Idle]
  /\ faults = 0
  /\ earned = 0

-----------------------------------------------------------------------------
At(r, label) == tx[r].pc = label
Arg(r) == tx[r].arg
Offer(r) == tx[r].offer

Begin(r, op, label, arg) ==
  /\ op \in Endpoints
  /\ At(r, "idle")
  /\ tx' = [tx EXCEPT ![r] = [Idle EXCEPT !.pc = label, !.arg = arg]]
  /\ UNCHANGED <<store, faults, earned>>

\* Seeded fault: no defer tx.Rollback, the locks of a failed request stay.
RollbackForgotten(r) == tx' = [tx EXCEPT ![r] = [Idle EXCEPT !.held = tx[r].held]]

\* defer tx.Rollback(ctx): nothing was written and the locks are released.
Rollback(r) == tx' = [tx EXCEPT ![r] = Idle]

Commit(r) == tx' = [tx EXCEPT ![r] = Idle]

Unlocked(r, row) == \A q \in Requests \ {r} : row \notin tx[q].held

Lock(r, row, next, offer) ==
  /\ Unlocked(r, row)
  /\ tx' = [tx EXCEPT ![r] = [pc |-> next, arg |-> Arg(r), offer |-> offer,
                              held |-> @.held \union {row}]]

\* A statement on one row: no row that matches ends the request.
Statement(r, label, where, row, next, offer) ==
  /\ At(r, label)
  /\ IF where THEN Lock(r, row, next, offer) ELSE Rollback(r)
  /\ UNCHANGED <<store, faults, earned>>

-----------------------------------------------------------------------------
(* CreateListing                                                           *)

\* Bound: a listing arrives only while there is an identifier left for it.
IdsLeft == Cardinality({l \in Listings : listing[l] = Ledger!Unlisted})
             > Cardinality({q \in Requests : At(q, "mark") \/ At(q, "insert")})

ListItem(r) ==
  /\ IdsLeft
  /\ \E a \in Arguments : Begin(r, "list", "mark",
       [NoArgument EXCEPT !.p = a.p, !.i = a.i, !.price = a.price])

\* Seeded fault: no AND on_market = false.
MarkOnMarketTwice(r) ==
  Statement(r, "mark", item[Arg(r).i].owner = Arg(r).p /\ ~item[Arg(r).i].equipped,
            ItemRow(Arg(r).i), "insert", Offer(r))

MarkOnMarket(r) ==
  Statement(r, "mark", Ledger!Listable(Arg(r).p, Arg(r).i), ItemRow(Arg(r).i), "insert", Offer(r))

\* The new row is seen by nobody and locked by nobody before the commit.
InsertListing(r) ==
  /\ At(r, "insert")
  /\ \E l \in Listings :
       /\ listing[l] = Ledger!Unlisted
       /\ listing' = [listing EXCEPT ![l] =
            [status |-> "active", seller |-> Arg(r).p, item |-> Arg(r).i,
             price |-> Arg(r).price, fee |-> Ledger!Fee(Arg(r).price)]]
  /\ item' = [item EXCEPT ![Arg(r).i] = Ledger!OnMarket(@, TRUE)]
  /\ Commit(r)
  /\ UNCHANGED <<gold, faults, earned>>

-----------------------------------------------------------------------------
(* CancelListing                                                           *)

CancelItem(r) ==
  \E a \in Arguments : Begin(r, "cancel", "selectOwn", [NoArgument EXCEPT !.p = a.p, !.l = a.l])

\* Seeded fault: no AND status = 'active'.
SelectOwnAnyStatus(r) ==
  Statement(r, "selectOwn",
            listing[Arg(r).l] # Ledger!Unlisted /\ listing[Arg(r).l].seller = Arg(r).p,
            ListingRow(Arg(r).l), "clear", listing[Arg(r).l])

SelectOwnForUpdate(r) ==
  Statement(r, "selectOwn", Ledger!Cancellable(Arg(r).p, Arg(r).l),
            ListingRow(Arg(r).l), "clear", listing[Arg(r).l])

ClearOnMarket(r) ==
  Statement(r, "clear", TRUE, ItemRow(Offer(r).item), "cancelled", Offer(r))

MarkCancelled(r) ==
  /\ At(r, "cancelled")
  /\ item' = [item EXCEPT ![Offer(r).item] = Ledger!OnMarket(@, FALSE)]
  /\ listing' = [listing EXCEPT ![Arg(r).l] = Ledger!Ended(@, "cancelled")]
  /\ Commit(r)
  /\ UNCHANGED <<gold, faults, earned>>

-----------------------------------------------------------------------------
(* BuyListing                                                              *)

BuyItem(r) ==
  \E a \in Arguments : Begin(r, "buy", "select", [NoArgument EXCEPT !.p = a.p, !.l = a.l])

\* ErrSelfPurchase is found after the lock was waited for.
SelfPurchase(r) == Ledger!Active(Arg(r).l) /\ listing[Arg(r).l].seller = Arg(r).p

\* Seeded fault: a plain SELECT, that locks nothing.
SelectPlain(r) ==
  /\ At(r, "select")
  /\ IF Ledger!Active(Arg(r).l) /\ ~SelfPurchase(r)
     THEN tx' = [tx EXCEPT ![r] = [@ EXCEPT !.pc = "debit", !.offer = listing[Arg(r).l]]]
     ELSE Rollback(r)
  /\ UNCHANGED <<store, faults, earned>>

SelectForUpdate(r) ==
  /\ SelfPurchase(r) => Unlocked(r, ListingRow(Arg(r).l))
  /\ Statement(r, "select", Ledger!Active(Arg(r).l) /\ ~SelfPurchase(r),
               ListingRow(Arg(r).l), "debit", listing[Arg(r).l])

\* Seeded fault: no AND gold >= $2.
DebitUnchecked(r) ==
  Statement(r, "debit", TRUE, PlayerRow(Arg(r).p), "credit", Offer(r))

DebitBuyer(r) ==
  Statement(r, "debit", Ledger!Affordable(Arg(r).p, Offer(r).price),
            PlayerRow(Arg(r).p), "credit", Offer(r))

CreditSeller(r) ==
  Statement(r, "credit", TRUE, PlayerRow(Offer(r).seller), "transfer", Offer(r))

TransferItem(r) ==
  Statement(r, "transfer", TRUE, ItemRow(Offer(r).item), "sold", Offer(r))

\* Seeded fault: the seller is credited the whole price.
SettledWithoutFee(buyer, o) ==
  [gold EXCEPT ![buyer] = @ - o.price, ![o.seller] = @ + o.price]

Settled(buyer, o) ==
  [gold EXCEPT ![buyer] = @ - o.price, ![o.seller] = @ + o.price - o.fee]

MarkSold(r) ==
  /\ At(r, "sold")
  /\ gold' = Settled(Arg(r).p, Offer(r))
  /\ item' = [item EXCEPT ![Offer(r).item] =
                [owner |-> Arg(r).p, onMarket |-> FALSE, equipped |-> FALSE]]
  /\ listing' = [listing EXCEPT ![Arg(r).l] = Ledger!Ended(@, "sold")]
  /\ Commit(r)
  /\ UNCHANGED <<faults, earned>>

-----------------------------------------------------------------------------
(* SaveResolve, the other transaction on players.gold.  It locks the row   *)
(* with its first statement and may still be rolled back as stale.         *)

ClaimFishing(r) ==
  \E a \in Arguments :
    /\ gold[a.p] + a.haul <= MaxGold
    /\ Begin(r, "claim", "earn", [NoArgument EXCEPT !.p = a.p, !.haul = a.haul])

EarnGold(r) ==
  Statement(r, "earn", TRUE, PlayerRow(Arg(r).p), "earned", Offer(r))

AdvanceAnchor(r) ==
  /\ At(r, "earned")
  /\ \/ /\ gold' = [gold EXCEPT ![Arg(r).p] = IF @ + Arg(r).haul < 0 THEN 0 ELSE @ + Arg(r).haul]
        /\ earned' = earned + gold'[Arg(r).p] - gold[Arg(r).p]
        /\ Commit(r)
     \/ UNCHANGED <<gold, earned>> /\ Rollback(r)  \* ErrStaleClaim
  /\ UNCHANGED <<item, listing, faults>>

-----------------------------------------------------------------------------
(* A call that fails at any point, and PostgreSQL's deadlock detector.     *)

Abort(r) ==
  /\ ~At(r, "idle")
  /\ faults < MaxFaults
  /\ faults' = faults + 1
  /\ Rollback(r)
  /\ UNCHANGED <<store, earned>>

\* The row whose lock the next statement of r takes.
Wanted(r) ==
  CASE At(r, "debit") -> PlayerRow(Arg(r).p)
    [] At(r, "credit") -> PlayerRow(Offer(r).seller)
    [] At(r, "transfer") \/ At(r, "clear") -> ItemRow(Offer(r).item)
    [] OTHER -> <<>>

Waits(r, q) == r # q /\ Wanted(r) \in tx[q].held

\* Each request waits for one row, so a cycle is a set that waits for itself.
Deadlocked(r) ==
  \E S \in SUBSET Requests :
    /\ r \in S
    /\ \A p \in S : \E q \in S : Waits(p, q)
    /\ \A q \in S : \E p \in S : Waits(p, q)

DeadlockVictim(r) ==
  /\ Deadlocked(r)
  /\ Rollback(r)
  /\ UNCHANGED <<store, faults, earned>>

-----------------------------------------------------------------------------
Arrival(r) == ListItem(r) \/ CancelItem(r) \/ BuyItem(r) \/ ClaimFishing(r)

Running(r) ==
  \/ MarkOnMarket(r) \/ InsertListing(r)
  \/ SelectOwnForUpdate(r) \/ ClearOnMarket(r) \/ MarkCancelled(r)
  \/ SelectForUpdate(r) \/ DebitBuyer(r) \/ CreditSeller(r) \/ TransferItem(r) \/ MarkSold(r)
  \/ EarnGold(r) \/ AdvanceAnchor(r)

Next == \E r \in Requests : Arrival(r) \/ Running(r) \/ Abort(r) \/ DeadlockVictim(r)

Spec == Init /\ [][Next]_vars

\* The waiters of a row lock are queued, so none is passed over for ever, and
\* a deadlock is found after deadlock_timeout.
Fairness ==
  /\ \A r \in Requests : SF_vars(Running(r))
  /\ WF_vars(\E r \in Requests : DeadlockVictim(r))

FairSpec == Spec /\ Fairness

-----------------------------------------------------------------------------
\* The transactions are serialisable: each commit is one whole operation of
\* the ledger, done on the rows as they are at that moment, and nothing else
\* ever changes a row.  "numa transação" (market.go:33 of internal/usecase).
Serial == Ledger!Spec

Escrow == Ledger!Escrow

\* Purchases move gold between players and burn the fee of each sale; only
\* fishing brings gold into the game.
Burnt == [l \in Listings |-> IF listing[l].status = "sold" THEN listing[l].fee ELSE 0]
GoldConserved ==
  SumFunction(gold) = Cardinality(Players) * Wealth + earned - SumFunction(Burnt)

Holds(r, row) == row \in tx[r].held

\* A row is locked by one transaction at most.
LockInv == \A r, q \in Requests : r # q => tx[r].held \intersect tx[q].held = {}

\* What a transaction has read under a lock is still so.
StillListable(r) ==
  At(r, "insert") =>
    Holds(r, ItemRow(Arg(r).i)) /\ Ledger!Listable(Arg(r).p, Arg(r).i)
StillForSale(r) ==
  tx[r].pc \in {"debit", "credit", "transfer", "sold"} =>
    /\ Holds(r, ListingRow(Arg(r).l))
    /\ Ledger!Active(Arg(r).l)
    /\ Offer(r) = listing[Arg(r).l]
    /\ Offer(r).seller # Arg(r).p
StillAffordable(r) ==
  tx[r].pc \in {"credit", "transfer", "sold"} =>
    Holds(r, PlayerRow(Arg(r).p)) /\ Ledger!Affordable(Arg(r).p, Offer(r).price)
StillCancellable(r) ==
  tx[r].pc \in {"clear", "cancelled"} =>
    /\ Holds(r, ListingRow(Arg(r).l))
    /\ Ledger!Cancellable(Arg(r).p, Arg(r).l)
    /\ Offer(r) = listing[Arg(r).l]
OtherRows(r) ==
  /\ tx[r].pc \in {"transfer", "sold"} => Holds(r, PlayerRow(Offer(r).seller))
  /\ tx[r].pc \in {"sold", "cancelled"} => Holds(r, ItemRow(Offer(r).item))
  /\ At(r, "earned") => Holds(r, PlayerRow(Arg(r).p))
TxOK(r) ==
  StillListable(r) /\ StillForSale(r) /\ StillAffordable(r) /\ StillCancellable(r) /\ OtherRows(r)

FeeWithinPrice == \A l \in Listings : Ledger!Active(l) => listing[l].fee <= listing[l].price

\* The inductive invariant: between two statements of a transaction nothing
\* it decided on has changed, and it holds the rows its commit writes.
MarketInv ==
  /\ TypeOK
  /\ Escrow
  /\ FeeWithinPrice
  /\ LockInv
  /\ \A r \in Requests : TxOK(r)

\* Purchases that wait for each other's buyer and seller, a call that fails
\* half way and a listing sold while a buyer waited: every request ends.
RequestsEnd == \A r \in Requests : ~At(r, "idle") ~> At(r, "idle")
=============================================================================
