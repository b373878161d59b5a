# Fishing Heroes backend: TLA+ models and proofs

TLA+ modules, TLC configurations and TLAPS proofs for the Go backend of Fishing
Heroes. The server is "lazy": nothing runs while a player fishes. A session is a
seed and an anchor (`last_index`, `last_time`); a request resolves the time since
the anchor in memory and a *claim* writes the result and the new anchor in one
transaction. There are no locks between the calls of a request, so what can go
wrong lies between two calls of two requests, between two ways of cutting the same
time into claims, between the transactions of the market, and between the processes
of a deployment.

## 1. The system

| component | state | operations | interacts with | modelled by |
|---|---|---|---|---|
| fishing session (`usecase/fishing.go`, `repo/session.go`) | `fishing_session` row, one per player | start, preview, claim, stop | players row, Redis, resolve engine | `FishingSession`, `AtomicSession` |
| hot cache (`repo/cache.go`) | one Redis key per player: the row and a baseline of the player | get, set, delete; errors ignored; TTL 2 h | filled by start, miss and claim; deleted by stop, stale claim, offline reward, purchase | `FishingSession` |
| offline catch-up (`usecase/account.go`) | `players.last_logout` | reward on login, `TouchLogout` on stop | session row, players row, Redis | `FishingSession` |
| WebSocket stream (`httpapi/ws.go`) | per connection: `lastIdx`, `sinceClaim` | preview on a tick, claim on every tenth, claim on disconnect | the session | `Stream` |
| resolve engine (`domain/resolve.go`) | a `Session` in memory | `Resolve`, `ResolveStream` | called by preview and claim with a session rebuilt from the row | `Resolve` |
| player market (`usecase/market.go`, `repo/market.go`) | `market_listings`, `on_market` and owner of items, `players.gold` | list, cancel, buy, browse | gold also written by claims; deletes two keys after a purchase | `Market`, `MarketLedger` |
| migration runner (`cmd/migrate`) | `schema_migrations` | apply each pending file | PostgreSQL, other runners | `Migrate` |
| API process and catalogue (`cmd/api`, `repo/templates.go`) | the templates in memory, for the life of the process | boot, load, serve, drain, end | the runner of its image, the tables | `Server` |
| accounts and first login (`repo/accounts.go`, `repo/players.go`) | `accounts`, `players` and the starter kit | upsert, lookup, `CreatePlayer`, token | catalogue, tables | `Accounts` |
| HTTP handlers, authentication, configuration | none that changes | decode, verify, call | use cases | section 8 |

What makes each correct, and what is hard about it:

* **Session and cache.** Every event is paid once, on one session; the anchor never
  goes back; level and points follow the XP; the best location never gets worse; the
  cache may lag and never leads. Hard because the guard is optimistic, compares
  `last_index` only, and the baseline of a claim may come from a cache that any other
  request fills late.
* **Offline catch-up.** One logout, one reward. Hard because check, read and update
  are three statements.
* **Stream.** A watched player progresses, whatever the cache was left with; an event is
  sent once; an event passed over has been paid; a closed connection ends. Hard because
  each preview resolves again from an anchor that may be old, and the connection may
  close between any two calls.
* **Resolve engine.** Cutting the time into windows changes nothing ("aditividade"), an
  event that does not fit leaves no trace, the backpack is bounded, and neither a stall
  nor frequent claims starve the session. Hard because a full backpack waits in the
  middle of an event, and because a claim saves some of the session and recomputes the
  rest.
* **Market.** Purchases, cancellations and listings are serialisable, an item on the
  market has one active listing, gold is conserved but for the fee, and every request
  ends. Hard because a purchase takes four row locks, in an order that depends on who
  buys from whom.
* **Migrations.** Each file applied once, in order and without a gap, and of two runners
  that race one goes on. Hard because nothing keeps two runners apart and a runner dies
  anywhere, also after a commit it has not heard of.
* **API process.** What its own image ships is in memory when it serves, and its boot
  fails only on content of another image. Hard because the tables are read one by one
  while the runner of another image commits.
* **First login.** One player per account, with the whole kit; a token names a player
  who is there. Hard because lookup and insert are apart and a commit may go unheard.

The hazards, each at its line with the properties that cover it, are in `PROJECT.json`.

## 2. Modules

| module | models |
|---|---|
| `AtomicSession` | what a fishing session promises: each request alone, in one step |
| `FishingSession` | one player's row, session row and Redis key; any number of requests, one store call per action; `GuardedAtomic` says that it implements `AtomicSession` |
| `MC_FishingSession` | its instances |
| `FishingSession_proofs` | types, ledger, anchor, no double credit |
| `AtomicSession_proofs` | the cache, level and points, best location, the refinement |
| `Stream` | extends `FishingSession`: one of its requests is the goroutine of a stream |
| `Stream_proofs` | what a connection is sent, and the session's theorems next to a stream |
| `MC_Stream` | its instances |
| `Resolve` | the event loop over one seed, and the session saved and rebuilt between claims |
| `Resolve_proofs` | one event, the loop, and the two sessions |
| `MC_Resolve` | its draws |
| `MarketLedger` | what the market promises: each operation alone, in one step |
| `Market` | the same operations as transactions of statements and row locks; `Serial` says that it implements `MarketLedger` |
| `MC_Market` | its instances |
| `Market_proofs` | its theorems, the refinement and the conservation of gold among them |
| `Migrate` | runners of images of different age |
| `Server` | extends `Migrate`: API processes and their catalogues |
| `Accounts` | extends `Server`: first logins on those processes |
| `Deployment` | composes the three, with the faults they share |
| `MC_Deployment` | its instance |
| `Migrate_proofs`, `Server_proofs`, `Deployment_proofs` | the inductive invariant of each layer, and the theorems of the composition |

The definitions marked *Seeded fault* (`AnyAnchor`, `SelectPlain`, `NoWait`, …) are never
used by a specification: each is a plausible bug of the definition after it, and shows
that the property it goes with would notice.

### FishingSession

`player`, `row`, `cache` are the three stores; `req[r]` is the frame of a goroutine: the
label of its next call, the `HotSession` it holds, the number `n` of events it resolved,
and for a stop the instant at which it began. One action is one call: `GetSession`,
`GetPlayerBaseline` and `FillCache` are the three calls of `hotSession`; `Resolve` is the
in-memory part of `runResolve`; `SaveResolve` is the transaction, atomic because its
first statement locks the players row and its last carries the guard; `StaleClaim` is
`ErrStaleClaim`; `DeleteSession`, `CacheDelStop`, `TouchLogout` are the rest of
`StopFishing`; `CheckSession` to `CacheDelReward` are `applyOffline`. `StartFishing` does
its reads (`GetPlayer`) in the arriving action.

The clock counts events: one event takes one unit of time and pays one XP. Gold,
materials and trophies ride in the same transaction and are represented by the history
variable `ledger`: `ledger[q][s][i]` counts how often event `i` of the session with seed
`s` was paid while the row had seed `q`. `payouts` counts rewards per logout.

`unguarded` records that requests overlapped in one of the ways the code has no guard
for: a start overlapping any other request, two logins, or a start that ended between
its upsert and its `CacheSet`. The `Guarded…` properties hold while it is false; without
it they are refuted, and the runs that refute them are findings. What does not depend on
it is said without the prefix: `CreditsTileTheAnchor`, `AnchorNeverBack` and
`CacheNeverLeads`.

`Abort` ends a request anywhere (cancelled context, database error, death of the
process); `RedisFails` skips a Redis write the way the code ignores its error;
`CacheLost` drops the key (TTL, restart, a purchase of the market).

`AtomicSession` has one step per request that changes a row: a start, a claim of events
that are due, a stop, a logout, an offline reward. Its claim pays at the level, points and
best location of the player it meets; that a detailed claim, which writes the level of a
baseline read long before, does the same is the content of the refinement.

### Stream

The goroutine of `streamSession` is the request `Watcher`. `stream` holds its locals and
where it is: in `select`, in a preview, about to write, about to claim, in a claim, in the
last claim. `PreviewResolves` is the preview's answer and the filter by `lastIdx`;
`WriteFrames` sends the fresh events and counts `sinceClaim`; `FinalClaim` is
`case <-ctx.Done()`. A connection closes at any moment (`Disconnect`): a call in flight is
`Cancelled`, a write or a tick that `select` prefers `FailsOnClosed`, a claim that is due
does nothing (`ClaimOnClosed`). `shown`, `seed`, `cut` and `restarted` are history.

Two kinds of events are never sent, and `UnseenIsPaid` says so: those another claim pays
between two previews, and those before the newest `LastN` of one preview. It is said
while no overlap went unguarded and the session was not started again on the connection:
the second is the finding of `stream_restart`, and after the first the anchor of an old
session may be saved on the row of a new one, above events that nobody was paid for.

### Resolve

A seed is the sequence of its draws, since `newEventRNG` derives the generator of an event
from `<<seed, index>>` alone. A draw is what the random numbers of the event come to: the
fish of a clear sky and that of a storm, the bite time, whether luck rescues, whether the
weight makes a trophy, the double catch and the drop. `NextEvent` follows the body of
the loop: trips of the pet that are due, the stall for space, bite, weather at the bite,
power and luck, fight or escape, wear and repair, bait of either family (a consumable that
runs out becomes the basic one, a durable one breaks), destination by category, size and
filter, the double catch, the drop. `CommitOrDefer` is the comparison with the window.
The code compares at each wait; every wait ends before the event does, so comparing the
end is the same. (It also follows that the second call for space, `ensureSpace`, never waits:
the backpack does not grow between the two.)

`kept` is a session resolved in memory again and again; `row` goes through `Saved` and
`Rebuilt` between claims. Time is in whole units: the rounding of `last_time` to
nanoseconds is not modelled. Left out is the stock of baits (`StockCharges`), which the
server never fills.

### MarketLedger and Market

`MarketLedger` has one action per operation, its guards the WHERE clauses. In `Market` a
request is a transaction: `MarkOnMarket`, `InsertListing`; `SelectOwnForUpdate`,
`ClearOnMarket`, `MarkCancelled`; `SelectForUpdate`, `DebitBuyer`, `CreditSeller`,
`TransferItem`, `MarkSold`. PostgreSQL is modelled from how the code uses it (READ
COMMITTED): a statement whose WHERE matches takes the row's exclusive lock, waits for
its holder and evaluates WHERE again; one that does not match ends the request; locks
go at commit or rollback; what was written is invisible before. `held` is the set of
rows a transaction has locked. Writes are therefore made in the action of the commit.
`DeadlockVictim` is the deadlock detector, `Abort` any failing call. `EarnGold` and
`AdvanceAnchor` are `SaveResolve`, the other writer of `gold`, rolled back when stale.
The index `ux_market_active_item` is not needed as an action: `Escrow` shows that no
insert ever meets it.

### Migrate, Server, Accounts, Deployment

`Migrate`: a file is its place in the order. `versions` is `schema_migrations`, `effects`
counts how often the statements of a file were committed. A runner that does not find
`schema_migrations` makes it (`CreateTable`): `IF NOT EXISTS` looks before it creates, so
of two first runners the later one fails and ends. A runner then reads the versions
(`ReadApplied`) and takes each file that is left through `ExecFile`, `RecordVersion`,
`CommitFile`. The statements of a file collide with those of an open transaction that has
run the same file, and wait (`Waits`); after its commit they fail, on a key or a name,
unless the file is repeatable, and then the primary key of `schema_migrations` refuses the
version. `RunnerDies`, `CreateUnanswered`, `CommitUnanswered` and `ReadSomeApplied` (`rows.Err()` is not looked
at) are the faults. Images of different age hold different prefixes of the files (`Ships`).

`Server`: content comes in packs, `Seeds` says which tables a file fills. `Boot` waits for
the runner of its own image (`service_completed_successfully`), then one action reads one
table in the order of `LoadTemplates`; `LoadSpawnTables` fails the boot on an unknown fish.
Worlds and locations are two queries, and a location whose world was not read is in no list
(`Placed`); only the content of another image can meet that, since a world is seeded before
its locations (`WorldsAssumption`, the foreign key of 000003). Serving, `Shutdown` and the drain follow.

`Accounts`: `LoginSteam` from the ticket to the token, `CreatePlayer` statement by
statement. The insert waits for an open transaction with the same account and fails on a
committed player (`UNIQUE (account_id)`); a bait the catalogue does not know is left out
without an error; an equipment it does not know, or a pet the tables do not have, rolls
everything back. `Verify` has the outcome of the ticket only: a bad one is `AbortLogin`.

`Deployment` puts the three side by side under one bound on faults; the end of a server
ends the logins it serves.

## 3. Runs

| run | question | bounds |
|---|---|---|
| `session_core` | do the rows change as if each request ran alone, under start, claim, stop and login? | 2 requests, 2 sessions, 2 locations, fast-forward of 1 event, 1 tick, 3 events, 1 fault; stops where an overlap is unguarded |
| `session_double`, `session_stop`, `session_offline`, `session_level` | four statements of comments and documents, refuted | see findings |
| `stream_live` | does a watched player progress, does the goroutine end, is an event sent once? | stream and 1 other request that starts or claims, 1 session, 2 ticks, 2 events, a claim every 2nd tick, previews of 1 event, 1 fault |
| `stream_restart` | are the events of a new session sent? refuted | the same with 2 sessions, previews of 2 events, no fault |
| `resolve_core` | is resolution additive, bounded and never starved? | 7 draws, 3 events, 26 units, both bait families |
| `resolve_claims` | the same of a session rebuilt between claims, refuted | 3 events, 16 units |
| `market_core` | are the transactions serialisable, the escrow sound, gold conserved? | 2 players, 3 items, 2 listings, 2 requests, 1 fault |
| `market_live` | does every request end? | 3 requests, 2 listings, 1 fault |
| `deploy_core` | is each file applied once, does a server know what its image ships, does an account get one whole player? | 4 files (1 repeatable), runners of 2 images, 1 server, 1 account, 2 logins, 2 faults |

Why the bounds are enough. *Session*: a race needs two requests; the overlap with a third
adds nothing to the code's guards, which compare one row with one snapshot. Two sessions
show what a start does to claims of the one before; three events let a claim resolve
nothing, part or all, twice. One tick and a fast-forward put the anchor behind, at and
ahead of the clock. `MaxPoints` stops claims, not the rest, when the player has gained the
points that matter. `CONSTRAINT Guarded` stops `session_core` at the first overlap that
nothing detects, because the `Guarded…` properties promise nothing beyond it; that the
others hold beyond it is proved (section 5), and the four refuting runs and `stream_live`
go there. Previews are run in the stream, where they fill the cache next to claims.
*Stream*: two ticks make one round of previews and the claim that is due; one fault leaves
the key stale once, which is what `WatchedProgress` must survive. *Resolve*: three events
let the first fill the backpack, the second stall and break, the third run on the basic bait
with broken gear; `Longest` is the longest an event of the instance can take, so that in 26
units `PaceKept` demands at least two events of any schedule of claims. *Market*: the pieces
are an equipped rod (never listable), a trophy of one player and boots of the other, so that
crossing purchases meet; a price equal to the wealth lets a player afford one purchase and
not two; claims may earn or cost one coin; half the price as the fee makes rounding and
burning visible. `market_live` needs three requests for a lock that is passed on.
*Deployment*: two files of the old image, so that a gap and a repetition show, and two that
only the new one holds, with the fish and the world a file before the spawn table and the
locations that name them; two
faults let a runner die and start again twice, or a server end under a login.

`CHECK_DEADLOCK` is on in every run: something always remains possible (the arrival of
requests, windows, a runner that is started again).

Findings. Six runs refute what the code or its documents say:

* `session_double` — the guard of `session.go:171` against double credit passes across a
  start, because `last_index` is 0 on both sides.
* `session_stop` — a stop whose claim was stale deletes events nobody paid.
* `session_offline` — two logins both receive the offline reward.
* `session_level` — a start caches the player it read at its beginning (`fishing.go:107`). A
  claim of the session before commits between that read and the upsert, and the new session
  begins with a baseline that is older than the player. Its first claim passes the guard
  (`last_index` is 0 in the row and in the cache) and writes the level of the old XP. The
  property is said of behaviours in which every claim is saved on its own session
  (`OwnCredits`), so this is not the double credit of `session_double`: that guard could be
  mended and the level would still go wrong. The run stops at the lower level; what follows is
  that the points of the level are added once more when the cached XP passes it.
* `resolve_claims` — trips of the pet that come due during the last fight before a claim
  are counted and never empty the backpack, so claiming is not additive.
* `stream_restart` — `lastIdx` (`ws.go:52`) outlives the session it counts: after a start on
  the same connection the first events of the new session are withheld, against `ws.go:72`
  and `ARCHITECTURE.md:763`.

## 4. Fairness

`StreamSpec` has weak fairness on the steps of the stream: its goroutine is scheduled, its
ticker fires while the connection is open, and its calls return or fail. Nothing is assumed
of the other requests, of the clock, of the expiry of keys, or of the client. Under it
`WatchedProgress` shows that no stale key can make every claim stale for ever (a stale claim
removes it), and `StreamEnds` that a closed connection does not leave a goroutine behind.

`FairSpec` of `Market` has strong fairness on the statements of each request, because
PostgreSQL queues the waiters of a row lock, and weak fairness on the deadlock detector.
Arrivals are not fair.

`Resolve` needs none: `PaceKept` bounds progress by time and is an invariant. It rests on
the saved `last_time` being the end of the last event. The sketch of the claim in
`ARCHITECTURE.md:708` saves `last_time = $now` instead, which is the mutant `SavedAtNow`: a
client that claims more often than an event lasts would then never catch anything. The code
does not do what the sketch says.

## 5. What is proved

All theorems hold for every value of the constants under the ASSUMEs of the modules.

**FishingSession_proofs.** `TypeCorrect`; `CreditsTileCorrect`: on the current row the
events below `last_index` were each paid once and no others, whatever overlaps or fails;
`AnchorNeverBackCorrect`; `NoDoubleCreditCorrect`: with no overlapping start, no event is
paid twice on any row. `CreditsTileTheAnchor` alone is not inductive: a start that has not
upserted yet must own a seed nobody was paid on, every seed ever used must keep its events
paid at most once, and a request about to save must be within the bound. That is
`AnchorInv`. The second half of `SessionInv`, `OneSession`, says that while no start
overlapped anything each copy of the session, in a request or in Redis, is a copy of the
current row's seed; this is what a guard that compares only `last_index` needs.

**AtomicSession_proofs.** `CacheNeverLeadsCorrect` holds whatever overlaps: by `CopyInv` a
copy of a session, wherever it is, is never ahead of the row, and nobody has a copy of a
session that is still to be upserted. `AtomicInv` adds, for guarded runs, `AgreeInv`: a
baseline is as old as the anchor it came with (`UpToDate`). A baseline may be old, but
then its anchor is old too and the guard refuses the claim; with the anchor of now it has
the XP, level and points of now, and a best location that this very session would reach
again. From it follow `LevelFollowsXPCorrect`, `HighestNeverBackCorrect` and
`AtomicCorrect`, the refinement of `AtomicSession`.

Both modules prove their invariants of `Moves`, which is `Next` without the bookkeeping of
faults: a request arrives, takes a step, gives up (`GivesUp`, the part of `Abort` that is not
counted) or meets a failing Redis, or the clock or the cache moves. Whatever else calls the
same operations needs only to show that its steps are `Moves` or leave the session still.

**Stream_proofs.** Each step of a stream is such a move (`StreamMoves`) or leaves the
session alone, so the theorems above hold next to a stream at once:
`StreamCreditsTile`, `StreamAtomic`. For the connection itself there are two invariants.
`ConnectionInv`: `lastIdx` is the highest event that was sent or is about to be, the events
about to be sent are none that were, and what `lastN` cut off lies below the last `LastN` of
them. This is what makes `ShownOnce` hold although a preview may resolve from an older
anchor than the one before. `CopyPaid`: below the anchor of every copy of a session, cached
or in a request, of a stopped session too, each event was paid. `UnseenIsPaid` follows
because the events between two previews lie below the anchor of the second, and payments
are never taken back. A step is one of five to the connection (`ConnectionSteps`): quiet, an
end, a connect, a preview, a write; the proofs split along those.

**Resolve_proofs.** First one event. `NextEvent` takes a session that is between two events
to one that is again: it goes forward in time, ends within `Longest` of where it began,
leaves the backpack within its capacity, and has counted no trip of the pet that was not
due by its end (`NextEventEffect`). Then the loop:
`ResolveStream` only goes forward, not past its window, and stops where the next event does
not fit (`ResolveStreamEffect`), so that a second window goes on exactly where a single one
would have (`ResolveStreamAdds`): `CommitOrDefer` takes the deferred event back whole.
Then `IInv`, the invariant of the two sessions, with `Additive` in it, and that the saved
session is good and less than one event behind the instant it was resolved to.
`AdditiveCorrect`, `BackpackBoundedCorrect`, `NoTripTwiceCorrect`, `PaceKeptCorrect` and
`TypeCorrect` follow. The loop is a recursive function; the library's induction takes a
predicate as an operator, so the induction over the turns is over a *set* of turns
(`Induction`, from the well-foundedness of `<`), and that the function exists is proved by
building it up turn by turn (`AfterDef`).

**Market_proofs.** `MarketInvCorrect`: locks are exclusive, and for each label of a
transaction, what it has read under a lock is still so and it holds that lock (`TxOK`).
This is the strengthening of `Escrow` that a commit needs: that the listing is still
active, the buyer can still pay and the item is still the seller's is known only from the
locks. The proof has one lemma per action. Its commits are first shown to be operations of
the ledger (`InsertImplements`, `CancelImplements`, `SoldImplements`,
`AdvanceImplements`), and the ledger's operations to keep types, escrow and fees
(`CreateListingKeeps` and so on), so the escrow is argued about once, on the abstract
level. From it follow `TypeCorrect` (no negative gold), `EscrowCorrect`, and
`SerialCorrect`, the refinement `Spec => Ledger!Spec`. `GoldConservedCorrect` is inductive
next to `MarketInv`, given sums: `SumFunction` of the library is a recursive function over
sets of indices that picks one after the other; it exists (`SumsDef`, by cardinality), and
changing one term of it changes the sum by the difference (`SumExcept`). A sale changes two
terms of the gold, which are different players because `ErrSelfPurchase` was checked under
the lock, and one of the burnt fees, which was nothing before because the listing is still
active; a claim changes one term by what it adds to `earned`, after the clamp at zero.

**Migrate_proofs, Server_proofs, Deployment_proofs.** One invariant per layer, each proved
to be kept by the actions of its own layer and undisturbed by the others'. `MigrateInv`: a
transaction that has run a file is the only one that has, and what a runner has left
behind it is applied, although the versions it read may be out of date. `ServerInv`: what
a server has read holds what its image ships, because those files were applied before it
read the first table. So a boot can only fail on a fish that its image does not ship
(`BootFailsOnNewFishCorrect`), and a location it ships finds its world (`WorldsShipped`). `AccountsInv`: a transaction that has inserted a player has the
account for itself, and has given the part of the kit that its step says. Together they
are `DeploymentInv`, from which the properties of the deployment follow for any
number of files, images, servers, accounts and logins, and any number of faults.
`RaceHasAWinnerCorrect` needs one more part, `RaceInv`, as long as there was no fault:
`schema_migrations` is not there and nobody has failed yet, or some runner is `Ahead`: it is
reading, or done, or none of the files it has left is applied. Only a runner that finds the
table or its file there fails by itself (`OvertakenIsBehind`); whoever makes the table is
ahead, and so is whoever commits a file (`CommitterIsAhead`), because the applied files are a
prefix of the order.

Assumptions worth knowing: `FeeAssumption` (0 to 10000 basis points) is needed by
`FeeRange` and not enforced by `config.go:62`; `StarterShippedAssumption`, that every image
ships the starter kit, is true of migrations 000027 to 000038 and needed by `KitComplete`,
since the code leaves an unknown bait out silently; prices are positive
(`usecase/market.go:13` and the CHECK of `market_listings`); players and listings are
finitely many, as rows of tables are (`FiniteAssumption`, for the sums); integers are
unbounded. `LongestAssumption` defines `Longest`: of any gear a session can have and any
draw, a stall, a bite and a fight together take no longer. It exists because the draws that
the catalogue allows are bounded; TLC evaluates it on the draws of the instance.
`WatcherAssumption` says that no fast-forward is among the fast-forwards: the stream
previews and claims without one (`ws.go:64`, `:89`).

## 6. Only model-checked

Liveness: `WatchedProgress`, `StreamEnds` and `RequestsEnd`, because fairness and ENABLED
are outside the prover. Everything else that a passing run checks is stated by a theorem of
section 5. The six properties that are refuted are findings.

## 7. Plan

Done: the session with its cache, stream and refinement; the resolve engine; the market
with its ledger; the deployment; the proofs of section 5. Left:

1. The safety part of the liveness properties: a stale claim leaves no key behind, so that
   the claim after it reads the row (what `WatchedProgress` rests on); a cycle of waiting
   purchases consists of requests that hold a listing each (what `RequestsEnd` rests on).
2. Theorems about the operations of `MarketLedger` alone, without the transactions.
3. `AnchorNeverBack` next to a stream.

## 8. Not modelled

* **HTTP handlers and middleware** keep no state of their own: each is a request's arrival
  in the modules above, and decoding and status codes are I/O.
* **Authentication** is a call to the Steam Web API and the signature of a token; the model
  of a login has its outcome only.
* **Configuration**: environment variables and pool sizes. The values that matter appear as
  constants with their assumptions.
* **The SQL migrations** are data and DDL. The constraints the code relies on are in the
  actions that meet them; the rows are packs.
* **Formulas over floats** (stat totals, trophy grades, weather hashing, the generator)
  feed the model only as constants and draws.
* `go` and PostgreSQL internals other than row locks, unique constraints, statement order
  and deadlock detection are outside.
