# Formal models of interledger-rs

TLA+ models of the connector in `src/crates`: the money it keeps for its
accounts, the settlements it sends and receives, the routes it chooses and
exchanges with other connectors, its BTP connections, and the STREAM payments
sent through it. TLC checks the models on small instances; TLAPS proves for
every instance each safety property that a passing run checks.

`PROJECT.json` lists the components, the runs, the source lines behind every
definition, the hazards and the theorems.

## The system and its parts

A node (`ilp-node`) accepts ILP prepare packets over HTTP or BTP, passes them
through a chain of services, and answers each with a fulfill or a reject. State
that survives a restart is in Redis; everything else is in the memory of tokio
tasks.

| Part | State | Operations | Talks to | What is hard about it |
|---|---|---|---|---|
| Redis balance scripts (`interledger-store/src/redis/lua`) | `balance`, `prepaid_amount`, settings per account | prepare, fulfill, reject, settle, refund, incoming settlement | called by the balance service, the settlement endpoint and the account API | several scripts make up one packet; each is atomic, the packet is not |
| Balance service (`balance_service.rs`) | packets in flight, spawned tasks | `send_request`, `settle_or_rollback*` | store, settlement client, delayed settlement task | unawaited tasks post the outcome; store calls fail; requests are dropped; the process stops |
| Delayed settlement task (same file) | bounded channel, `in_queue` map, `DelayQueue` | Set, Clear, expiry | balance service, store | map and queue must agree; a full channel drops commands; commands overtake each other |
| Settlement client (`settlement_client.rs`) | attempt counter | `send_settlement` with retries | settlement engine over HTTP | a timed out request may have been accepted |
| Settlement endpoint (`node_api.rs`, `idempotency.rs`) | idempotency cache, list of uncredited leftovers | `receive_settlement`, `send_outgoing_message` | engine over HTTP, store | check-then-act over several store calls; leftovers in different scales |
| Account API (`routes/accounts.rs`) | none of its own | insert, edit, delete, pay, settings | store, settlement client | prefunding runs a balance script and a settlement |
| Redis store, other parts (`redis/mod.rs`) | accounts, routes, rate limits, idempotency keys | account insertion and deletion, static routes, route polling | everything | several transactions per operation, cached routes |
| CCP route manager (`interledger-ccp`) | forwarding table with its log of epochs, local table, a table per peer, backoff | broadcast, route update, route control, best routes | other connectors, store | lost and reordered updates, restarts, locks released between reading and writing |
| Router (`router.rs`) | none of its own | longest prefix match | store's routes | - |
| STREAM sender (`client.rs`, `congestion.rs`) | amounts sent, delivered and in flight, window | send loop, fulfill and reject handling | router | concurrent answers, rounding, termination |
| STREAM receiver (`server.rs`) | none per packet | decrypt, answer | - | - |
| BTP service (`interledger-btp/src/service.rs`) | connections, pending requests | send, receive, time out | websockets | an answer before the request is registered, late answers, reconnects |
| Packet pipeline (rate limit, validator, expiry, maximum amount, exchange rate, echo) | rate-limit counters, cached rates | one check each | chain of services | refunds of refused packets, timeouts against late fulfills |
| Settlement engine library (`engines_api.rs`, `backends_common`) | idempotency cache, leftovers | the engine's half of the settlement protocol | node over HTTP | leftovers read and deleted in two calls |
| ILDCP, SPSP, HTTP server, packets, crypto, CLI, error types | none | single requests, encodings | - | byte formats |

### What has to be true of each part

* Balances: every packet and settlement counts once, whatever interleaves; no
  peer owes more than its settings allow; failures never credit anyone twice;
  what is settled is paid once; every task ends; accounts with settlement
  settings are settled.
* Delayed settlement: no timeout is removed that is not in the queue; an account
  that has been credited is settled.
* Settlement endpoint: what the engine reports is credited or kept once, in
  full, across scales, retries and overlapping requests; a success answer
  means it was credited.
* CCP: a listener at an epoch has the routes of that epoch; a listener that
  missed something catches up; best routes follow the tables of the peers, and
  what is announced is what packets take.
* STREAM: never more than the source amount is sent; the receipt never claims
  more than was delivered; a payment ends.
* BTP: every request returns once, with its own answer or at its timeout.
* Pipeline: a packet that is refused leaves no trace in the limits.

## Modules

| Module | What it models |
|---|---|
| `BalanceStore` | the Lua scripts as operators on an account's `balance` and `prepaid_amount` (exact numbers: the scripts' doubles are exact below 2^53) |
| `DelayedSettlement` | channel, map and queue of `run_timeouts_and_settle_on_delay` |
| `BalanceService` | extends it: `send_request`, the spawned tasks, prefunding by the account API, the settlement client, the engine at the other end, incoming settlements, crashes |
| `BalanceServiceBooks` | the balances compared with what the outside was told; the refinement to `Ledger` |
| `Ledger` | abstract: a ledger that posts every answer at once |
| `SettlementApi` | `POST /accounts/:id/settlements` with idempotency cache, leftovers and scaling |
| `RoutingTable` | routing tables, `create_route_update`, `filter_routes`, `handle_update_request` as operators |
| `CcpSync` | a speaker and its listeners: broadcasts, control requests, backoff, restarts |
| `RouteStore` | the routes in Redis, the router's copy of them, and the calls of `update_routes` that bring one to the other |
| `BestRoutes` | extends it: `update_best_routes` and `get_best_route_for_prefix`: the tasks that turn the peers' offers into the local table, the forwarding table and the store's routes |
| `BtpService` | the BTP services of two nodes: connections, pending requests, incoming queues, timeouts |
| `StreamPayment` | `send_money` with its packet tasks and congestion controller, a network, and `receive_money` |
| `BalanceServiceProofs`, `BalanceServiceBooksProofs`, `SettlementApiProofs`, `CcpSyncProofs`, `BestRoutesProofs`, `BtpServiceProofs`, `StreamPaymentProofs` | the theorems about the module of that name |
| `SumTheorems` | lemmas the proofs share: sums over finite sets, least and greatest numbers, minimal subsets |
| `MCBalanceService`, `MCSettlementApi`, `MCCcpSync`, `MCBestRoutes`, `MCBtpService`, `MCStreamPayment` | values for TLC |

### BalanceService

A thread is a packet, a slot for a task spawned by an expired timeout, or an
account that the API prefunds. `task[t].pc` is where the thread awaits: the
steps of a thread are the code between two awaits.

| Action | Code |
|---|---|
| `Prepare`, `PrepareRefused`, `PrepareFails` | `send_request` up to the next service; `update_balances_for_prepare` |
| `Fulfilled`, `Rejected` | the answer; the sender gets it before it is posted |
| `DropRequest` | the HTTP server drops the future of a client that went away |
| `PostFulfill`, `Notify` | `settle_or_rollback_now`: the script, then Set or Clear and the settlement |
| `PostReject`, `PostRefund` | rollback of a prepare, refund of a settlement |
| `SpawnDelayed`, `LoadAccount`, `PostDelayed` | an expired timeout and the task it spawns |
| `StartPrefund`, `PostPrefund` | `connect_to_external_services` |
| `SendSettlement`, `HandleReply`, `ClientTimeout`, `AfterError` | settlement client with its retries |
| `TaskStoreFails` | a store call fails, before or after its script ran |
| `EngineAccepts`, `EngineRefuses`, `PaymentReceived` | settlement engine (external) |
| `UpdateBalanceForIncomingSettlement` | `process_incoming_settlement.lua` |
| `Crash` | the process ends; tasks, channel, map and queue are lost, Redis and requests underway are not |

Left out: the exit paths of the delayed settlement task when the timer itself
reports an error; accounts that are deleted while their packets are in flight.

### SettlementApi

A request's program counter names the store call it awaits. A cached answer is
found by `CheckIdempotency` only if the stored hash can be read back: the
constant `TextHashes` says for which inputs the 32 hash bytes are valid UTF-8.
The balance update and the saving of the precision loss run concurrently
(`join_all`), so both orders are there, as is the failure of either. Amounts are
exact; scales use a base of 2 in the runs in place of 10, which keeps numbers
small and splits whole and fractional parts the same way. The engine may use a
key for two quantities, repeat it while its request is being processed, or send
none; `disturbed`, a history variable, records a failed store call, a lost
request, a missing key and an overlap of two requests with one key, after which
`SettledInFull` says nothing and the weaker properties still hold. The cached
answer and the balance script's own record of a key both expire after a day
(`redis/mod.rs`, `process_incoming_settlement.lua`); the model is of retries
within that day.

### CcpSync

`updates` is `forwarding_table_updates`; the epoch is its length; `history`, an
auxiliary variable, keeps the forwarding table of every epoch to compare
listeners with. A route is the set of nodes on its path. `Publish` stands for
`update_best_routes` applying its result. A broadcast picks the accounts that
are not backed off, takes the shared `last_epoch_updates_sent_for`, sends one
update to each account in turn and then books the results. An update is lost, or
its sender stops waiting and it arrives later; a listener that sees a gap
rejects the update and, after it has released the lock, reads its table again
and asks with what it finds there (`server.rs:447-458`). Identical updates to
one listener are one element of `sent`.

`Publish` chooses any result; which results `update_best_routes` can have is the
subject of `BestRoutes`. The two are not composed: a broadcast only sees the log
of updates, and `Publish` allows any sequence of tables. What it leaves out is
that a configured route enters the log under its account's address, which
`AnnouncedIsRouted` of `BestRoutes` has to excuse.

### BestRoutes

One node, the tables of its peers, and the tasks that run `update_best_routes`:
one per route update (spawned, outside the tests) and one for the broadcast. A
task's `pc` is what it is about to do.

| Action | Code |
|---|---|
| `HandleUpdate` | a peer's route update that withdraws prefixes and announces new ones, applied to its table; one task for all of them |
| `Reannounce` | an update with a changed path for a known prefix, which spawns nothing |
| `BroadcastRoutes` | `update_best_routes(None)` of a broadcast interval |
| `SetStatic` | `set_static_route(s)` in the store, which ends in `update_routes` |
| `RefreshRoutes`, `FailRefresh` | a call of `update_routes`: reading the store, installing what was read, or an error |
| `PollRoutes` | a tick of the poll loop |
| `Load` | `get_local_and_configured_routes` |
| `Compute` | the part under read locks, with `BestRoute` and `Better` for `get_best_route_for_prefix` |
| `Apply` | the part under write locks: local table, forwarding table, log |
| `SetRoutes`, `SetNoRoutes` | `set_routes`, outside the locks, which ends in `update_routes` |
| `Fail` | a store error, which ends the task |

A path is its length, which is all the choice depends on. `announced` is the
table of a listener that has applied the whole log, so `forwarding_table_updates`
need not be kept. Prefix matching is the constant `Above`; configured routes are
matched by segments and tables by characters, which differ only where a prefix
ends inside a segment of another. `excuse`, a history variable, names the four
circumstances after which the code leaves an older choice in place: overlapping
tasks, a changed path, a changed static route, a store error. `Apply` goes
through the better routes in any order, because the code iterates over a hash
map.

The router does not read the local table: it has its own copy of what is in
Redis. `update_routes` reads the routes of `set_routes` and the static routes
together, lays the static ones over the others, and replaces the copy in a later
step; every task, the operator's call and the poll loop run it, at the same
time if it so happens (`RouteStore`). A static route therefore reaches the router
at once and the local table with the next broadcast. A call that fails leaves
the router behind, and so may two calls that read and install in different
orders; `behind` records this until a call reads while no other has yet to
install, as the next poll does. `RouterHasTable` says nothing of the router in
between, and without that premise TLC finds the slower call that overwrites the
newer table. The default route is left out, and the store starts empty. A task
counts as ended when its write is done and only its refresh runs, so a broadcast
may start next to the refresh of the one before it; the code would still wait.
Another tick of the poll loop waits for the refresh of the one before.

Two properties have a side condition that is the code's. `AnnouncedIsRouted`
leaves out a prefix that lies between two others: a route found for a prefix is
announced under the prefix it was offered for, which may be shorter, and with
three nested prefixes the node's own route for the middle one may have come from
the shortest and be gone with it, while the announcement stays. `BestInUse`
leaves out prefixes that others contain, where an older choice for the shorter
prefix stays in place until it is looked at again, and addresses of the node's
own accounts, which always get the direct route.

### BtpService

Two nodes that are each other's account. A request (`req`) is one call of
`send_request`; a relayed one is sent from within the task that works off the
node's queue, which awaits the whole call before it takes the next Prepare. The
map `connections` holds a sender; the connection's own tasks hold others, so a
connection that left the map goes on reading. `writing` says at which ends the
write task still runs, `wire` what is under way. `SendRequest` and `Insert` are
two steps, as in the code, with the peer's answer possible in between.
`RacingTimeouts` lets the 30 seconds pass at any moment; without it a timeout
waits until nothing can bring an answer any more.

| Action | Code |
|---|---|
| `AddConnection`, `EndWriting`, `CloseConnection` | `add_connection`, the end of its write task, `close_connection` of an edited or deleted account |
| `SendRequest`, `NoConnection`, `SendError`, `Insert`, `Resolve`, `TimeOut` | `send_request` |
| `HandleMessage` | `handle_message`: queue a Prepare, resolve an answer |
| `Arrive`, `TakeIncoming`, `Answer`, `AnswerRelayed` | the task of `handle_incoming` |
| `Lose` | the network (external) |

### StreamPayment

The loop of `send_money` and its packet tasks share the payment under a lock; a
step is what happens while the lock is held. `tasks` is a bag, because nothing
depends on which of two equal packets is answered. A task that has applied its
reply stays in the bag with its result until the loop reads it, which happens
only in `NextResult` and `Close`.

| Action | Code |
|---|---|
| `Timeout`, `FailFast`, `CloseConnection`, `MaxInFlight`, `SendMoney` | one turn of the loop; the last is `apply_prepare` and the spawn |
| `NextResult`, `Elapse` | `timeout_at(deadline, select_next_some())` |
| `Close` | waiting for all tasks and `try_send_connection_close` |
| `SendPacket` | `send_money_packet` up to its call of the next service |
| `ApplyFulfill`, `ApplyReject` | the rest of it, with `apply_fulfill`, `apply_reject`, `ReadReply` |
| `AmountTooLarge` | `max_packet_amount_service` of a connector on the path |
| `NetworkReject` | other connectors (external): T00 (and T01, which is treated alike), T04, R01, and F02 for every final error |
| `Receive`, `Refuse` | `receive_money` |

Rates are fractions, as in `get_rate`, and all rounding is the code's. Amounts
are cut at `U64Max` where the code saturates. The packets' encryption appears as
`readable`: whether a reply decrypts.

## Runs

| Run | Instance | Shows |
|---|---|---|
| `balances` | 2 accounts, 2 packets, 1 incoming settlement, amounts 1 and 3, `settle_to` below `min_balance`; one retry, one failed store call, one dropped request, one crash | `Conservation` until the first failure, `NeverOverCredits`, `CreditIsLimited`, `ImplementsLedger` (with losses), types |
| `timed` | time-based policy, channel of 1, `settle_to` below 0, prefunding, amounts 0 and 2, one client timeout, fair | `TimersMatch`, `TasksEnd`, `DelayedSettlementHappens` |
| `settlements` | 3 requests, 2 keys, 3 scales; keys repeated, overlapping, missing or used twice; one failed call, one lost connection | `SettledInFull`, `AcknowledgedIsCredited`, `RetryCostsAtMostTheLoss`, types |
| `routes` | speaker and child, 2 epochs, one fault (loss, delay, store error or restart of either side), fair | `NoMissingRoutes`, `NoWithdrawnRoutesInOneTable`, `EventuallyInSync`, types |
| `best_routes` | 2 peers, 4 prefixes of which one contains another, 2 tasks, 2 route updates of several prefixes, one static route, poll or store error, refreshes of the router's table | `ForwardsAsRouted`, `AnnouncedIsRouted`, `BestInUse`, `RouterHasTable`, types |
| `btp` | 2 nodes, 2 connections, 3 requests (2 relayed), 2 ids, one break or edit, timeouts at any time | `PendingMeansWaiting`, `AnswersAreOwn`, types |
| `btp_returns` | the two relayed requests, fair | `EveryRequestReturns` |
| `stream` | amount 7, 6 packets, two path rates, two packet limits, fair | `BooksAgree`, `ReceiptNeverOverstates`, `OkMeansFulfilled`, `NeverWaitsOnNothing`, `RateStaysLearnable`, `StaysInWindow`, `PaymentEnds`, types |
| `retry_pays_twice` | 2 packets, amounts 0 and 2, one client timeout and one retry | violates `SettlesOnce` |
| `timed_clear` | 3 packets, time-based, fair | violates `PeersAreSettled` |
| `stale_routes` | as `routes`, safety only | violates `NoWithdrawnRoutes` |
| `btp_half_open` | one connection, no disruption, no racing timeout | violates `ResponsesAreSent` |

Deadlock is not checked: packets, keys and epochs are bounded, so every instance
comes to rest.

**Why the bounds are enough.** Two packets give every pair of actions of two
tasks on one account, and one packet in each direction between the accounts;
three are needed only where a settlement must be followed by one more credit
(`timed_clear`). The amounts are below, at and above the threshold and the limit
of the accounts; 0, which the code treats apart, is in `timed`,
`retry_pays_twice` and the proofs. One failure of each kind is enough for every
single step that can be interrupted; the proofs cover any number of them. The
settlement client's retries are in `balances` and `retry_pays_twice`; `timed`
has none, which keeps its graph small enough for liveness. A channel of one (128
in the node) is full whenever two commands meet: a Set dropped behind the
account's own command is redundant, as the comment on `drop_error` argues, and
the account is settled. A Set dropped behind the command of another account is
lost, and the property excuses that account (`CrowdedOut`); without the excuse
TLC finds the account that is never settled. It also finds one if the account is
not required to be above 0, where the code sends no Set
(`balance_service.rs:270`). For settlements, the scales are coarser than, next
to and finer than the account's, and three requests let leftovers of two be
combined by a third. For routes, two epochs give announce-then-withdraw,
replace, and merged ranges; with one fault a listener is at most two epochs
behind, backs off, and the control answer crosses the next broadcast. At most
two updates are underway to a listener at once (`MaxUnderway`); with one, the
bound itself would stop the protocol. For best routes, two updates are
announcement and better announcement, or announcement and withdrawal, of one
prefix or several, and two tasks are enough for one to apply what the other has
overtaken; the nested prefixes make `Resolve` find a route that is not the
prefix's own. For BTP, two relayed requests close the circle in which the nodes
wait for each other, the third crosses them, and the second connection is one
that a late timeout can remove by mistake; ids are drawn from two so that a
collision happens. For STREAM, six packets are several windows of an amount of
7: the window doubles, halves and closes to 1, the last packet is dust, and the
limit of one connector rounds the maximum packet to 0. `U64Max` is low enough
for the window to reach it. When the six packets are spent only the answers that
are due and the time since the last fulfill remain.

**Fairness.** Tokio runs tasks that are ready, so every task step is weakly
fair. The engine answers each request it gets (if it does not, the client's
timeout is the same step). The timer fires. `select!` polls its branches in
random order, so commands and expirations do not starve each other. In
`CcpSync`, the broadcast interval ticks for ever, spawned requests run, and a
message that is not lost arrives; broadcasts and control answers are different
tasks, so each of the two kinds of delivery is fair. In `StreamPayment` time
passes, the loop and the tasks run, and every packet is answered, because each
hop gives up when the packet expires. In `BtpService` only the nodes' own tasks
and timers are fair: connections may stay down and messages may stay unread.
Nothing is assumed fair that depends on a peer: packets arriving, answers to
packets, faults, and changes of routes.

## What the code does and its documentation does not say

Shown by a run:

* **Settlement retries are not idempotent.** Each attempt has a new key
  (`settlement_client.rs:142`), so an attempt that timed out at the client and
  its retry are two payments to the engine: it accepts both. If the last attempt
  is one that timed out although the engine accepts it, the amount is also
  refunded.
* **A late Clear cancels a newer timeout.** Set and Clear are sent after the
  store calls they follow from, by different tasks.
* **Routes of a restarted speaker's old table stay**: the new id resets the
  epoch and not the routes.
* **A BTP timeout leaves a connection half open.** `close_connection` removes
  the map's sender; the socket stays open and its Prepares are handled, but the
  responses find no connection. The run needs no failure: an answer that arrives
  between `unbounded_send` and `insert` (`service.rs:333-339`) is dropped, and
  its request times out.

Met while modelling, part of the models, and not run on their own:

* *Balances.* `process_prepare.lua` takes a packet's amount from
  `prepaid_amount`, `process_reject.lua:6` returns it to `balance`, from where it
  may be settled back to the peer who prepaid it
  (`interledger-store/README.md:22-23` says the two are separate to avoid
  this). Nothing relates
  `settle_to` to `min_balance`: an account is settled, or prefunded, below its
  own limit where the settings say so, and `interledger-store`'s fixture does
  (`tests/redis/redis_tests.rs:48,57`, `balances_test.rs:183-190`), although
  `docs/peering.md:77` calls the limit the minimum balance the account may have.
  `CreditIsLimited` takes the lower of the two as the limit for this reason. An
  account with settlement settings and no engine loses what exceeds
  `settle_to` (`balance_service.rs:346`); a prefunding the engine refuses is not
  re-added (`routes/accounts.rs:708`).
* *Settlements.* Overlapping requests with one key both take the leftovers and
  both save their precision loss, because the cache is read before and written
  after (`node_api.rs:44`); two different settlements with one key that overlap
  are both acknowledged and one is credited
  (`process_incoming_settlement.lua:9`). A saved answer is not found when the
  hash of its input is not valid UTF-8 (`redis/mod.rs:1662`). A settlement
  without a key panics after its leftovers were taken out
  (`redis/mod.rs:1730`).
* *Routes.* A route replaced by one that goes through the listener is refused by
  it, and the listener keeps the old one (`NoMissingRoutes` speaks of accepted
  routes for this reason). A changed path for a known prefix is not recalculated
  (`routing_table.rs:176`), although `update_best_routes` speaks of "new or
  modified routes". Tasks that overlap may apply an older choice and write the
  store in the other order; the tests await the task that production spawns
  (`server.rs:412-434`), so they never overlap, and its error is not looked at.
  These cases are in the model and excused in the properties: after them no
  property says when the older choice goes. A removed static route is not
  checked again. A configured route is announced under its account's address,
  not under its own prefix (`server.rs:904`). A table that becomes empty cannot
  be written, because Redis refuses to set no fields.
* *BTP.* A connection whose write task has ended stays in the map, so requests
  get T00 where the documentation promises the next service
  (`service.rs:307-310`). The queue is worked off one request at a time for all
  accounts: two nodes that forward to each other wait for the timeout.
* *STREAM.* A final error is noticed only while the loop waits
  (`client.rs:387`), so a payment whose last packets are still to be sent goes
  on. Tasks go on after `send_money` has returned. A maximum packet of 0 makes
  the loop send packets of nothing until it fails fast or times out.

## What is proved

Each theorem below holds for every value of the constants that satisfies the
named assumptions of its module (all of them evaluated by TLC in the runs): any
sets of accounts, packets, keys, requests, prefixes, connections and listeners,
any amounts, and any number of failures. The theorems name the very definitions
that the runs check.

**Recursion and sums.** The provers cannot apply an induction theorem that takes
a predicate as its parameter. `SumTheorems` goes around this with sets: the
counterexamples form a set, a non-empty set of numbers has a least element, and
a non-empty set of subsets of a finite set has a minimal one (`Least`,
`Greatest`, `MinimalSubset`); the least counterexample then contradicts the
recursive equation. Sums over threads and keys, powers of the base, merged
route transitions and the loop over better routes are all treated this way,
for which they are written as recursive functions.

**BalanceServiceProofs**

* `TypeCorrect`. `TypeOK` is inductive. The part with content is that no script
  takes more than there is: `prepaid_amount` and every settled amount stay
  natural numbers, which the `u64` conversions of the scripts' results need.
* `TimersAgree`: `TimersMatch` is inductive together with `TypeOK`: every
  account in the map has a key whose queue entry is that account, and every
  queue entry is named by the map. This keeps `DelayQueue::remove` from
  panicking.

**BalanceServiceBooksProofs**

* `BooksAreExact` (`Conservation`), `NothingIsCreditedTwice`
  (`NeverOverCredits`), `CreditStaysLimited` (`CreditIsLimited`) and
  `ServiceImplementsLedger` (`ImplementsLedger`). For
  each action there is a lemma on what it does to the position of an account
  (balance, prepaid amount, and the amounts that running tasks and the engine
  hold) and to what the outside was told is due to it. The invariant adds
  that unused keys are unknown to the engine and that a task which waits has one
  request or answer, of its own amount (`Books`); for `NeverOverCredits`, that the
  position together with the requests a stopped process left at the engine stays
  within what is due (`Covered`), since such a request may still be paid or
  refused; and that what a task settles leaves the account at its floor,
  the lowest of 0, `min_balance` and `settle_to`, or above
  (`SettlesAboveFloor`). No assumption is made on the settings. The limit on
  credit follows: what is due to an account is at least what is booked for it,
  and that is at least its position, which stays at the floor or above.
* All four assume `MaxTimeouts = 0`: the settlement client never gives up on a
  request that the engine has. This is necessary, because `retry_pays_twice`
  violates `SettlesOnce` with a single timeout. `BooksAreExact` also assumes
  that every account with settlement settings has an engine; without one the
  code drops the amount (below). Crashes, dropped requests and failed store
  calls are unrestricted in the other three; `Conservation` speaks of the time
  before the first of them.

**SettlementApiProofs**

* `TypeCorrect`; `SuccessMeansCredited` (`AcknowledgedIsCredited`);
  `RetriesNeverDoubleCredit` (`RetryCostsAtMostTheLoss`); `NothingIsLost`
  (`SettledInFull`).
* The invariant has four parts. `StoreOK`: what the key's record in the balance
  script and the cached answer say of the requests with that key. `CalmOK`: as
  long as nothing has disturbed the endpoint, only one request of a key is under
  way and only it has had an effect. `SplitOK`: what a request reported plus the
  leftovers it took is exactly what it credits plus the loss it keeps
  (`scale_with_precision_loss` rounds nothing away). `BalanceOK`: what the store
  holds is at most the sum over the requests, and exactly that if undisturbed.

**CcpSyncProofs**

* `TypeCorrect`; `EpochsHideNoHole` (`NoMissingRoutes`); `WithdrawnRoutesGo`
  (`NoWithdrawnRoutesInOneTable`).
* The invariant: the log of transitions leads from each table of `history` to the
  next (`TablesFollow`); every update that a broadcast or a message carries
  says of each prefix what changed between its two epochs (`Describes`, in
  `BroadcastOK` and `MessagesOK`); a listener's table is that of its epoch, up to
  the routes it refuses and those of an earlier table id (`ListenersOK`).
  `MergedUpdates` is shown to describe the range it merges, and a filtered
  update what the listener may hear of it.

**BestRoutesProofs**

* `TypeCorrect`; `ForwardingFollows` (`ForwardsAsRouted`);
  `AnnouncedRoutesExist` (`AnnouncedIsRouted`); `BestAccountInUse`
  (`BestInUse`); `RouterIsCurrent` (`RouterHasTable`).
* `ForwardsAsRouted` holds under any interleaving, since a task applies its
  findings to both tables under the locks. The other three need to know what
  tasks and refreshes that are under way will do: `RouterOK` that the copy to be
  written is still the local table, `SoundOK` that every offered prefix has a
  route or is about to be looked at, and that what a task found or wants to
  withdraw still agrees with the offers, `BestOK` that the preferred account is
  in use, or is what the task is about to enter, or the prefix is on a task's
  list. `FreshOK` is about the refreshes: unless the router is behind, at most
  one call has read what it has yet to install; if no call has yet to read, it
  has read what the store has now, and if there is no such call the router has
  it.
* `BestRoutesAssumption`: a proper prefix is shorter than what it is a prefix
  of, accounts have different ids and addresses, there are finitely many
  prefixes. The order by ids decides ties, so that the preferred route is
  unique.
* The attempt to prove the properties in the form they first had failed for the
  two reasons given under BestRoutes above; TLC confirmed the first on three
  nested prefixes and four route updates.

**BtpServiceProofs**

* `TypeCorrect`; `TableIsExact` (`PendingMeansWaiting`), inductive with: a
  channel in the table belongs to a request of that node, under the request's own
  id; `AnswersReachTheirRequest` (`AnswersAreOwn`), with an invariant on every
  answer in a queue, on the wire or handed over: it answers a request of the
  node it goes to, with that request's id.

**StreamPaymentProofs**

* `TypeCorrect`; `PaymentBooksAgree` (`BooksAgree`); `ReceiptIsHonest`
  (`ReceiptNeverOverstates`); `OkIsFulfilled` (`OkMeansFulfilled`);
  `WaitsOnlyForTasks` (`NeverWaitsOnNothing`); `RateIsLearnable`
  (`RateStaysLearnable`); `PacketsStayInWindow` (`StaysInWindow`, a property of
  steps).
* The invariant is that both counts of the amount in flight are the sum over
  the bag of tasks not yet answered, and that this sum and what was fulfilled
  stay within the amount to send. That the controller's unchecked subtraction
  never goes below zero is part of it. `delivered_amount` saturates at `U64Max`,
  so it is bounded by what the recipient collected and is not equal to it.

**Only model-checked:** the liveness properties `TasksEnd`,
`DelayedSettlementHappens`, `EventuallyInSync`, `EveryRequestReturns` and
`PaymentEnds`, since fairness is outside the prover; and the four violations.

## Not modelled

* Encodings (ILP packets, OER, BTP, CCP and STREAM packets, crypto), stateless
  forwarding (ILDCP, SPSP, HTTP, message service, router, CLI), error types.
* Exchange rates and their providers: the conversion is floating point.
* The rate limit service: its counters are those of the redis-cell module.
* Validator, expiry shortener and echo: checks of one packet without state. The
  validator's timeout is an answer of the next service in `BalanceService`.
* Account insertion and deletion, the default route, the node's own change of
  address: accounts and addresses are constants. The checks of `filter_routes`
  on schemes and prefixes are checks of a route's text; `RoutingTable` has the
  check on paths.
* The settlement engine library, the engine's half of the protocol.
* BTP authentication, pings and the shutdown of the service.
* Amounts above 2^53, where Lua's doubles round, and above 2^64, where the
  settlement endpoint credits `u64::MAX` and the congestion controller's product
  overflows.

## What is next

Proofs: `NeverOverCredits` with timeouts, bounded by the amounts that the
client gave up on; the composition of `BestRoutes` with `CcpSync`, by showing
that `Apply` implements `Publish`.

Models that could be added: account insertion and deletion in several
transactions; the engine library as a variant of
`SettlementApi`; the packet pipeline in front of an abstract balance service.
