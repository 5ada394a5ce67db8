# A TLA+ model of KindleLaunch

KindleLaunch is a token launchpad: Solidity contracts keep the markets, Go
services index what they emit and serve it to people who trade and talk. The
modules here model the markets, the services whose correctness depends on order,
failure and concurrency, and the browser's end of their realtime stream. TLC
checks them, and TLAPS proves, for every value of the constants, every safety
property that the passing runs check.

    tlc -config MCProcessor.cfg MCProcessor      # any run of PROJECT.json
    tlapm IndexerProofs.tla
    tlapm PnlProofs.tla
    tlapm MarketProofs.tla
    tlapm CandlesProofs.tla
    tlapm BrokerProofs.tla
    tlapm ChatHubProofs.tla
    tlapm DataStreamProofs.tla
    tlapm Sums.tla

## The system

| component | state it keeps | operations | talks to |
|---|---|---|---|
| contracts (`contracts/contracts`) | reserves, fee buckets, strategies, roles | create, swap, collect, claim, govern | emit events |
| indexer (`core/indexer`) | cursor row, backfill job, typed event tables, fingerprints in Redis, dead letters in memory | live batch, backfill, fan-out, retry, drain | chain, Postgres, Redis, webhook targets |
| trading-charts (`core/trading-charts`) | candles, candle cursors, claims of processed swaps, dedup cache | fold a swap, fill gaps | both fan-out paths, Postgres, Redis |
| stats-workers (`core/stats-workers`) | transactions, volume buckets, holders, pool stats | apply a swap, refresh holders | both fan-out paths, Postgres, Redis |
| pnl-tracker (`core/pnl-tracker`) | trades, positions, reconciler cursor, cache | fold a trade, reconcile | fan-out, the indexer's tables, Redis |
| ranking-algo (`core/ranking-algo`) | nothing between cycles | recompute scores | stats tables, Redis |
| api (`core/api`) | routing index, subscriptions, connection slots | subscribe, dispatch, drain, evict | Redis channels, websocket and event-stream clients |
| social (`media/social`) | rooms, wallets, reference counts, client queues; messages, bans | join, leave, post, dispatch, evict | Redis channels, websocket clients, Postgres |
| livestream, user, metadata, gateway (`media/*`) | rows, objects | request handlers, callbacks, proxying | Postgres, object storage |
| web client (`client/apps/web`) | sockets, timers, mounted components, the filter it believes the server has | mount, unmount, reconnect, resync, show | api over its websocket, REST |
| shared (`shared`) | none | shutdown, pools, clients | everything |

The spine runs from the chain to the screen: the indexer persists logs, moves
its cursor, and hands the batch to its publisher, which sends each event to
Redis and each batch to webhook targets. Consumers hear a swap on both paths and
must count it once. What they derive goes out on Redis again, and the api fans
it out to clients; in the browser one socket carries what all components on the
page want, and comes back when it is lost. The chat hub of social has the same
shape with room membership instead of filters. The contracts are alone on their
side of the chain: a transaction runs without interruption, and what can go wrong
there is arithmetic over long sequences of calls.

What is hard in it: commits that are separate (row, cursor, publish), restarts
in another mode, retries of calls that took effect, two delivery paths of one
swap, reads that are written back without a lock, bounded buffers between
goroutines, decisions taken under a mutex but carried out after it, sockets that
outlive their successors, and integer division next to a reserve that does not
exist. The
properties below are about those; `PROJECT.json` lists them under `hazards`, one
by one with the line where each bites, including those no property covers yet.

What each component promises:

* indexer: the cursor never outruns the tables; a consumer never sees what is
  not persisted; nothing above the start is skipped; deliveries end and are
  accounted for; nothing is fanned out twice without an excuse;
* trading-charts: every swap is in its candles once; no gap stays empty; no call
  hangs;
* api: a client sees the events it asked for, all of them in order, or is
  disconnected; of the ticks it sees the newest;
* social: the Redis subscriptions are those of the rooms in use; a client sees
  its rooms without holes, or is disconnected;
* pnl-tracker: a swap is folded once, from the position as it stands, whichever
  of the webhook and the reconciler brings it; the reconciler passes over no row;
  a stale cached answer does not last;
* contracts: balances cover fee buckets, and reserves but for what direct callers
  left unpaid; the product of the reserves does not fall unless a pool that is
  short is synced; a pool that was paid can pay for every token in circulation;
* web client: the server's filter is what the mounted components want, nobody's
  interest narrows another's, and a lost connection comes back or is reported;
* stats-workers: a swap counts once in every bucket (not modelled yet).

## Modules

| module | models | from |
|---|---|---|
| `Processor` | live loop, backfill, their rows, crashes | `indexer/internal/processor`, `store`, `app` |
| `Publisher` | fan-out, retries, dead letters, shutdown | `indexer/internal/publisher`, `app` |
| `IndexerProofs` | theorems about `Processor` and about `Publisher` | |
| `Candles` | swap folds, dedup, gap filler | `trading-charts/internal/engine`, `consumer`, `httpapi` |
| `CandlesProofs` | theorems about `Candles` | |
| `Feed` | what a subscriber is promised (abstract) | |
| `Broker` | routing, buffers, eviction, a connection's goroutines; implements `Feed` | `api/internal/broker`, `ws` |
| `BrokerProofs` | theorems about `Broker`, and its steps as steps of `Feed` | |
| `ChatHub` | rooms, DMs, Redis subscriptions, client queues | `social/internal/fanout` |
| `ChatHubProofs` | theorems about `ChatHub` | |
| `Pnl` | folds under the advisory lock, reconciler, cached positions | `pnl-tracker/internal/store`, `position`, `reconcile`, `pnlmath`, `httpapi` |
| `PnlProofs` | theorems about `Pnl` | |
| `Market` | pools, trades, fees and their strategies | `contracts/core`, `data`, `periphery`, `libraries` |
| `MarketProofs` | theorems about `Market` | |
| `WsManager` | a browser's sockets, reconnection, heartbeat | `client/apps/web/src/core/realtime/ws-manager.ts` |
| `DataStream` | the shared subscription over `WsManager`, and the server's end of it | `data-stream.ts` beside it, `api/internal/ws` |
| `DataStreamProofs` | theorems about `DataStream` over `WsManager` | |
| `Sums` | lemmas the proofs share: induction over numbers, sums over finite sets | |
| `MC*` | constants of the instances TLC checks | |

`PROJECT.json` maps every definition to its lines. The conventions are the same
everywhere: a variable per piece of state the code keeps, variables that only
remember are called history, `pc` says where a goroutine is, each statement or
call that commits or can block is a step, and a lock that the code holds over
several of our steps is a guard (`Unlocked` in `Broker`, `todo` in `ChatHub`
holds what a handler does after it let go).

### Processor

The chain is a sequence of logs with blocks and kinds; `head` only grows, since
the code takes no notice of reorganisations. `Poll` cuts the next batch, which
may end below the head because the node asked may lag. `Collect(i)` is one pass
of `collect`'s loop with the handler of log `i`: a log that does not decode or
has no block time is skipped; otherwise its row is inserted with `ON CONFLICT DO
NOTHING`, a swap with the address of its pool if the pool has a row by then.
`AdvanceCursor` and `Publish` follow; `BatchFails` is an error anywhere, with
the cursor written or not. The backfill runs the same `Collect` under a job row
(`BackfillResume`, `BackfillCreate`, `UpdateBackfillProgress`, ...). `Crash` and
`Exit` keep the database only; the next start may be in either mode. Pools
created and swaps are told apart; every other event is `Other`: its handler
inserts one row and its arguments are data.

One assumption is on the operator: `BackfillFrom <= StartBlock + 1`. A backfill
that starts above the cursor sets it over a hole, in the code as in the model.
Another is on the nodes: a query for the logs of a range returns all of them up to
its end. `source/evm.go` sends each request to the best node of the moment
(`callWithFallback`, `rankedIndices`), so the height may come from one node and
the logs from another; if that one lags, it leaves out the logs above its own
height, the code takes the answer for the whole range, and the cursor moves past
logs that have no row. `CursorCovered` is a property of the code under this
assumption, not without it.

### Publisher

A batch is a set of events and is its own fingerprint (which the code takes
over transaction hash and log index). `PublishBatch` reserves the fingerprint,
finds it taken, or goes on without it when Redis fails, in which case the key may
have been written. Each fan-out holds the events still to go to Redis and per
target the attempts made. An attempt without a good answer may have been accepted.
`Cancel`, then `Disconnect`, is the order of `app.Run`; `Stop` loses all but
what Redis and the targets have. That `AttemptFails` has the backoff inside it
loses nothing: cancellation in a backoff is `Aborted` before the next attempt.

### Candles

`job[w]` is a call of `ProcessSwap` on the Redis consumer's goroutine or a
webhook request; its transaction's writes are in `cands` and `curs` until
`Commit`, and stand for row locks. A candle is the swap whose price opened it and
the swaps folded into it: prices, volumes, counts and market caps are functions
of those. Reads see what is committed (READ COMMITTED). `GetCursor` takes a second
connection of the pool, as the code does. A blocked statement ends by the
server's statement timeout, a wait for a connection by the end of the request;
the Redis consumer's context has no end. The gap filler works from the cursors
it read at the start (`fill.snap`). The periodic and the start-up pass are one
goroutine here. `Put` is a table with one row written and `Over` a table under a
transaction's writes. `crossed` is history: the swaps whose transaction was open
together with another writer's. `Failures` switches failing statements and restarts, so that two
runs can show a loss without any.

### Broker and Feed

`turn` is a `Dispatch` under the read lock: the subscriptions still to deliver
to, and the wakeup or eviction that follows the release of a subscription's own
lock. `reader` is the connection's handler, from `acquire` to `release`; `writer`
is `writePump`, which takes the buffer at `Drain` and writes frame by frame.
Must-deliver frames have an empty coalesce key. `Feed` states what a client is
promised about them: all, once, in order, until the connection ends; the
refinement maps its stream to the history `due`, its view to `got`, and its end to
"closed, evicted or without a writer". `got` and `gotTicks` are what a client has
been sent, must-deliver frames and ticks kept apart, since the two lanes promise
different things and have no order between them. Messages on the control channel
and pings are left out.

### ChatHub

The part of a handler under `h.mu` is one step; what it does after the lock
(SUBSCRIBE, UNSUBSCRIBE, PUBLISH, the acknowledgement) is queued in `todo`, in
order, and done in steps of its own, so the calls of two clients interleave as
they can in the code. `bus` is the Redis connection; it may break and lose what
it carried. Posts of other instances are `Elsewhere`. A closed socket cannot be
written to, so `Closed` empties the queue. Rate limits, bans, validation and
failed inserts are the answer `Refused`.

### Pnl

`tx[w]` is a call of `FoldTrade`, made by a webhook request or by the reconciler:
`want` waits for the advisory lock, `locked` has it, `loaded` has inserted the
trade and read the position, and the commit writes both. The lock is no variable:
it is held by whoever is `locked` or `loaded` for that user (`Locked`), since the
transaction that took it ends with it. A handler then invalidates the user's
cached answers (`bust`). `rec` is a call of `RunOnce`: `todo` is what
`ListUnreconciledSwaps` returned and is not folded yet, `last` the last row
folded, `touched` the users to invalidate. An error in the batch moves the cursor
to `last` before it is returned (`salvage`). Reading the cursor and the rows past
it is one step, as nothing else writes the cursor. `TxCommitLost` is a commit that
takes effect and is reported as failed. Reads that fail change nothing and are
stutters.

Rows come from the indexer: `StoreLive` in chain order, `StoreBackfill` anywhere,
which is what `Processor` shows its two modes do. `late` remembers the rows stored
below what the reconciler has read already; it never sees them, and for them only
the webhook remains. Any stored row may be delivered, at any later time, any number
of times up to the bound, or never.

A cached answer is the position it was computed from: `ReadMiss` computes it,
`ReadStore` stores it later, `Expire` is its time to live. There is one pool, so
that a position is found by its user. Timestamps and the resolved token address,
on which no amount depends, are left out.

### Market

One step is one transaction; a transaction that reverts (slippage, deadline,
pause, an amount that is zero after division) is no step. Amounts and divisions
are exact. `SidioraPool.swap` can be called by anybody and takes `amountIn` on
trust: it does not look whether that much has arrived. `Buy` and `Sell` have what
the caller deposits as a parameter. Through the router, it is the whole input;
a direct caller deposits nothing in the same step, and states any input. That
covers callers who pay first, since `SendToPool` is a transfer to the pool by
anybody, USDL also before the pool exists, callers who use what the pool holds
beyond its reserves, and callers who do not pay. `Hop` is two swaps of the router
in one transaction. `unpaidUsdl` and `unpaidTokens` are history variables: they
add up, per pool, the part of every input that was neither deposited nor held
beyond the reserve (`Missing`). No action reads them but to stay within the bound
`MaxUnpaid`; they are what the properties are relative to, because without them
an unpaid sale makes the token reserve exceed the pool's tokens.

An optical may take a share of the input before the fee is reckoned, which stays
in the pool unaccounted until somebody calls `syncReserves`. One that adds to the
input is a transfer of the input and a direct call with the larger amount. An
optical is modelled by what it does to amounts; what its hooks may call in the
middle of a swap is left out.

`RecordFee` is part of a buy, as in the code. The four strategies and the claims
of holders follow `FeesRouter` into `FeeAccumulator`; the treasury and the burn
address only receive, and are not kept. Holders are one sum per token, `outside`:
a balance is any part of it, so what one holder sells is any amount up to it.
`claimAirdrop` takes any address, so `ClaimAirdrop` is taken for an address
outside, for a pool, whose balance is then its own tokens and which is paid, or
for the accumulator, which pays itself (`PayOut`). Every other payment to a
contract is a payment to a wallet and a transfer: `SendToPool`, or
`SendToAccumulator`, which is why `FeesBacked` says "at least".

### WsManager and DataStream

A browser runs one callback at a time, so a callback is a step. `socket[s]` is the
socket's state; `mine` are the sockets whose handlers the manager still has, and
`ws` the one it refers to. The two differ, since a handler does not ask whether
its socket is the current one: `onclose` of an old socket clears `ws`, stops the
heartbeat and schedules a reconnect. `GoSilent` is a peer that vanishes: nothing
arrives any more, and only the heartbeat finds out. `connect`, `close` and
`OpenSocket` are called by others; `ReshowOpen` and `ReshowClosed` are the tab
being shown again. Sequence numbers and coalescing belong to the manager's other
users or to delivery inside the browser, and are left out.

`DataStream` keeps the mounted components, the filter the client believes it has
applied, and at the server, per connection, the frames not handled yet and the
filter they add up to. `Subscribe` and `Unsubscribe` are a component's mount and
unmount with all they call; `Opened` and `Reshown` are the manager's steps that
resync. When the last component leaves, the manager is thrown away: a stray socket
that it no longer refers to stays open, and is kept in the model until it closes.

## Runs

| run | expects | shows |
|---|---|---|
| `processor` | pass | `CursorCovered`, `FannedPersisted`, `SwapsLinked`, `NothingSkipped`, `EventuallyIndexed` |
| `publisher` | pass | `Accounted`, `DlqKeepsNewest`, `RedisOrdered`, `RefannedOnlyExcused`, `DeliveriesEnd` |
| `candles` | pass | `SeenIsClaimed`, `LostOnlyByOverlap`, `CallsReturn` |
| `candles_lost` | violation | `ClaimedIsFolded` |
| `broker` | pass | `IndexExact`, `WakeupKept`, `NewestTickKept`, `FeedSpec` |
| `chat_hub` | pass | `RefsExact`, `NothingLeaked`, `NoHoles` |
| `chat_hub_rooms` | violation | `OccupiedSubscribed` |
| `pnl` | pass | `NothingSkipped`, `TotalsExact`, `FoldsOne`, `Reconciled`, `CacheSettles` |
| `pnl_order` | violation | `Converges` |
| `data_stream` | pass | `ServerInStep`, `NeverStarved`, `ServedOrTold` |
| `data_stream_one` | violation | `OneConnection` |
| `market` | pass | `PoolBacked`, `FeesBacked`, `FloorNeverBinds`, `ProductKept` |

Every passing run also checks its module's `TypeOK`, which holds the bounds of
the buffers and queues. `chat_hub`, `chat_hub_rooms`, `pnl` and `pnl_order`
switch the deadlock check off: the first two stop when the last connection
allowed has come and gone, the others when every row is folded and the bounds on
deliveries and faults are used up.

### Bounds, and why they are enough

* `processor`: three logs (a pool, a skipped log, its swap), three blocks, live
  batches of two blocks and backfill batches of one, so the two cut the chain
  differently and a pool and its swap can fall in one batch or two; crashes and
  failures are unbounded.
* `publisher`: two batches, two fan-outs per life of the process, unbounded
  lives; one target, two attempts, a queue of one letter, so that a second letter
  pushes the first out. More targets are independent goroutines.
* `candles`: two swaps, two timeframes (apart in one, together in the other),
  two workers and two connections, each swap heard at most once on Redis and
  posted at most twice, one filled gap per pass. Two connections are where the
  pool runs out.
* `candles_lost` bounds what the counterexample needs.
* `broker`: one client, a buffer of two frames, four messages of two kinds, a
  filter that changes freely. Four messages fill the buffer, overflow it and follow
  on after a drain; clients share only the index and the lock.
* `chat_hub`: two clients of one wallet, one room, a second wallet, queue of one
  frame, two posts, two connections: enough for a leaver and a joiner, a full
  queue and an eviction in the middle of a handler.
* `pnl`: a buy and a partial sale of one user, a buy of another, so that two folds
  meet under one lock and under two; one handler beside the reconciler, batches of
  two rows out of three, so that a batch can end in the middle of the rows and fail
  in the middle of itself; two deliveries and two faults, so that a row comes twice
  and a retry fails again. `Wad` is 10, so that the average cost is truncated.
* `pnl_order` needs the rows only, in the wrong order: no fault.
* `data_stream`: three components, one of a single pool, one of all pools and one
  of another pool and a second channel, so that every branch of the difference of
  two unions is taken; two sockets, so that one closes late beside its successor;
  one reconnect attempt and two faults, so that the manager can give up;
  at most `MaxFrames + 2` frames under way. `data_stream_one` has a third socket.
* `market`: two pools of different virtual reserves and supplies, rates in quarters
  and five units of USDL. The numbers are small so that every division truncates
  and every guard is met: amounts that vanish, fees of zero to three, a surplus of
  the optical and a part of an airdrop for each kind of address, hops that leave
  something on either side, and pools that were not paid and meet the floor.
  Direct callers state inputs of one and two; they leave one unit unpaid at most on
  each side of one pool and none at the other, so that a pool that was paid is seen
  beside one that was not. A transfer leaves at most one unit above a reserve of
  the first pool or in the accumulator, none at the second. One airdrop per pool;
  the owner of one pool chooses between airdrops and rewards, of the other between
  claims and burns (`Chosen`). The proofs lift every one of these bounds.

### Fairness

* `Processor`: a step of the loop that can be taken is taken; a request or
  statement repeated for ever succeeds in the end (strong fairness of `Poll`,
  `Collect`, `AdvanceCursor`: the retry loops exist because of it). Nothing is
  assumed of crashes, restarts or the chain.
* `Publisher`: goroutines run; the client's timeout bounds a request and a timer a
  backoff.
* `Candles`: goroutines run, the filler's ticker ticks, and the statement timeout
  and the webhook client's timeout expire.
* `Broker`: goroutines run, the flush ticker ticks, writes have a deadline.
* `Pnl`: the reconciler's ticker fires, a statement or a wait for the lock returns,
  Redis expires keys. Nothing is assumed of the indexer, the webhook or readers;
  faults are bounded.
* `DataStream`: timers fire, handshakes and closing handshakes end, and a server
  that is there answers pings and reads frames. Nothing is assumed of components,
  of the tab or of the network. `ServedOrTold` is claimed for behaviours in which the
  manager has no second socket, not even one that is closing: with one, a late
  `onclose` can take the heartbeat from its successor, and a peer that then goes
  silent is never found out.

`ChatHub` and `Market` state no fairness: what they promise is safety.

## What the violations show

1. `candles_lost`: "exactly once" (`builder.go:96`). Two different swaps of a pool
   folded at the same time read the same candle, and the second write wins.
2. `chat_hub_rooms`: channels are subscribed while they have local subscribers
   (`hub.go:7-9`). An UNSUBSCRIBE decided before a SUBSCRIBE is sent after it.
3. `pnl_order`: "realtime delivery and backfill converge to the same state"
   (`position/consumer.go`, package comment). Folding a sale before the buy it
   sells from clamps the holdings at zero and realizes a profit at no cost, and
   nothing folds them again.
4. `data_stream_one`: "ONE shared connection for the whole app"
   (`data-stream.ts:12`). A socket that closes late takes the reference to its
   successor away, and the next mount or timer opens another beside it.

## Proofs

`IndexerProofs` is about two specifications that share no variable, in two parts;
the names of `Publisher`'s carry the prefix `Pub`. About `Processor` it proves, for
every number of logs, every assignment of blocks,
kinds and pools, every batch size, bound and set of modes that satisfies
`ProcessorAssumption`:

* `TypeCorrect`: `Spec => []TypeOK`;
* `CursorSafe`: `Spec => []CursorCovered`;
* `FanoutAfterPersist`: `Spec => []FannedPersisted`;
* `SwapsAlwaysLinked`: `Spec => []SwapsLinked`;
* `LiveLoopComplete`: `Spec => []NothingSkipped`.

None of them is inductive by itself. `CursorCovered` needs to know, when the
cursor is about to be written, that everything up to `to` is in the tables. That
is `BatchTracked`: of the blocks after `last` up to `to`, each usable log is in
`todo` or already in the tables and in the batch. It also needs the blocks up to
`last`, hence `ClaimsIndexed`: what `last`, the cursor and the job's progress
claim is indexed. `SwapsLinked` needs both, and the order of `Collect`: when a
swap is collected, a pool created before it is below `last` or was looked at in
this batch. The invariant `IInv` is their conjunction with the properties;
`InvStep` has one step per action, `CollectTracked` and `BatchIndexed` being the
two that carry the argument.

About `Publisher` it proves, for every set of batches and targets, number of attempts,
capacity of the dead-letter queue and bound on fan-outs that satisfy
`PublisherAssumption`:

* `PubTypeCorrect`: `PubSpec => []PubTypeOK`;
* `FansOutInOrder`: `PubSpec => []RedisOrdered`;
* `DlqHoldsTheNewest`: `PubSpec => []DlqKeepsNewest`;
* `NoRefanUnexcused`: `PubSpec => RefannedOnlyExcused`;
* `DeliveriesAccounted`: `PubSpec => []Accounted`.

The types need `TriesLeft`, that a delivery under way has attempts left. The order on
the channel needs `ChannelBehind`: what a fan-out has published is before all it has
still to publish, so the next event goes behind it. That the queue is the end of the
letters needs `emptied <= Len(deaths)`, and a lemma on sequences, `NewestStep`: the
newest of the end of a history and one more is the end of the longer history.
`RefannedOnlyExcused` needs `SentTracked`: a batch once fanned out has its
fingerprint in Redis or is excused. `Accounted` counts letters, and counting is not
inductive; `Booked` is: every letter is of a delivery that is dead, no two letters
are of the same delivery, and a dead delivery has one, so the letters of a delivery
are a singleton or nothing. `PubInv` is their conjunction.

`PnlProofs` proves, for every sequence of swaps, scale, set of handlers and batch
size that satisfies `PnlAssumption`:

* `TypeCorrect`: `Spec => []TypeOK`;
* `CursorSkipsNothing`: `Spec => []NothingSkipped`;
* `FoldsOneTrade`: `Spec => FoldsOne`;
* `HoldingsBounded`: `Spec => []HoldingsOK`: holdings are at least what was bought
  less what was sold, and at most what was bought;
* `TotalsAlwaysExact`: `Spec => []TotalsExact`.

`FoldsOne` is a statement about a step, and the step is right only if the position
that the transaction read is still the stored one when it commits: `LockOK` says
so, and that two transactions of one user are never past the lock together.
`NothingSkipped` needs `RunOK`: the reconciler folds its rows in order, and every
row up to `last` is in a position or came late. The step that carries
it is `RecList`, where `ListComplete` shows that a query with a limit returns a
prefix of the rows past the cursor. `IInv` is their conjunction with `TypeOK`.
`TotalsExact` follows from `FoldsOne`: a step that folds a trade adds one element to
one of the two sets that `Tally` sums over and its amounts to the totals, and every
other step leaves a user's trades and position as they are.

`MarketProofs` proves, for every set of pools, virtual reserves, supplies, unit of
rates and sets of rates below it that satisfy `MarketAssumption`:

* `TypeCorrect`: `Spec => []TypeOK`, so that no subtraction the code leaves
  unguarded goes below zero (for the accumulator's balance, `FeesAlwaysBacked` says
  so), and every airdrop that was started has an amount;
* `PoolsAlwaysBacked`: `Spec => []PoolBacked`;
* `ProductsKept`: `Spec => ProductKept`;
* `FloorAlwaysAbove`: `Spec => []FloorNeverBinds`;
* `FeesAlwaysBacked`: `Spec => []FeesBacked`.

`Chosen`, `Inputs`, `MaxUnpaid`, `MaxSpare` and `MaxEpochs` are any, so the theorems hold of
direct callers who leave any amount unpaid.

The invariant says of each pool (`PoolOK`) that a market is `Fine`: each reserve is
at most the balance and what was left unpaid on that side, the tokens inside and
outside are the supply, and as long as nothing was left unpaid the product of the
effective reserves is at least what it was at creation. Before it is a market, a
pool's address holds nothing but USDL. Each conjunct needs the others: that a sale
can be paid follows from the product and the supply, the product survives a sync
because the balances of a pool that was paid cover its reserves, and that the
supply is conserved is what turns a claim about the tokens in circulation into one
about the reserve. The arithmetic is in lemmas about `AmountOut`: the output times
the grown reserve is at most the product, hence the product does not fall, whether
or not the input was there. One lemma each (`FineBuy`, `FineSell`, `FineSync`,
`FineFloor`) says so of the numbers of one pool; the steps are one lemma per action.
`FeesBacked` is inductive over the types and the balance of the pools: a step adds
to the accumulator's balance at least what it adds to the buckets of a pool, or
takes at most what it takes from them, and `SumChange` says what that does to the
sum over all of them. It takes a finite set of pools, which `MarketAssumption` says.

`CandlesProofs` proves, for every list of swaps, timeframes and webhook handlers,
size of the pool and bound that satisfy `CandlesAssumption`:

* `TypeCorrect`: `Spec => []TypeOK`;
* `CacheAfterCommit`: `Spec => []SeenIsClaimed`;
* `LossNeedsOverlap`: `Spec => []LostOnlyByOverlap`;
* `RowLocksNeverDeadlock`: `Spec => []SomeoneGoesOn`: while transactions are open, one
  of them waits for no row lock.

`LossNeedsOverlap` is about candles that are committed, and a commit is right only if
what the transaction wrote is. So `IInv` says of every call that holds its claim (`Claimed`):
what it has written and what it is about to write folds no swap twice, and only
claimed swaps and its own (`Clean`); it has every claimed swap of its candle that met
no other writer (`Full`); and if the call met none, every timeframe it is through with
is written. `Apart` says that two calls never hold the same claim and that calls open
together have met. It carries the commit: the swap that becomes claimed has met every
call that is still open, so nothing is asked of their rows that was not asked before
(`Carried`). The candle the gap filler writes is empty, and whoever is open has met it.
The types need that the filler stays within its limit and before the candle that is
not over, and that it begins a timeframe with nothing filled.

`RowLocksNeverDeadlock` is the safety half of `CallsReturn`, which TLC checks with two
workers. It rests on `LocksOrdered`: a call holds the rows of the timeframes before the
one it is at, and of that one the candle before the cursor, so all calls take their locks
in one order. Whoever holds the lock another waits for is further on in it
(`HoldersAhead`, by `Rank`), and the furthest waits for no row (`LeastNat` of `Sums`). A
circle can therefore only close through the pool, where `GetCursor` asks for a second
connection; there `ClientGivesUp` and the pool's size decide, and that is TLC's. No run
lists `SomeoneGoesOn`: it is defined beside its proof.

`BrokerProofs` proves, for every set of clients, channels and pools, capacity and set
of messages that satisfy `BrokerAssumption`:

* `TypeCorrect`: `Spec => []TypeOK`;
* `IndexIsExact`: `Spec => []IndexExact`;
* `NoWakeupLost`: `Spec => []WakeupKept`;
* `NewestTicks`: `Spec => []NewestTickKept`;
* `FeedImplemented`: `Spec => Promise!Init /\ [][Promise!Next]_(Promise!vars)`.

All but two actions touch one connection, so the invariant is stated of a connection
(`ConnInv`), with one lemma per action for the connection it is about and `Elsewhere`
for all others. What carries the refinement is `Owed`: what was offered to a client is
what it has been sent, what its writer still has in hand, what is in its queue and,
in the middle of a dispatch, the frame under way, in this order. A dispatch is one
`Offer` of `Feed`, at the step that fixes who it is for. `NewestTickKept` needs
`Ascending`: the ticks sent, in the writer's hand and in the buffer grow in this
order, so a tick is only ever replaced by a later one.

`ChatHubProofs` proves, for every set of clients, rooms and wallets and capacity that
satisfy `HubAssumption`:

* `TypeCorrect`: `Spec => []TypeOK`;
* `CountsExact`: `Spec => []RefsExact`;
* `NoSubscriptionLeaks`: `Spec => []NothingLeaked`;
* `LinesWhole`: `Spec => []NoHoles`.

`Counted` is the common form of the two counts: a channel's count is the number of its
holders, which a join or a leave changes by one. `NothingLeaked` needs `Pending`: a
handler that has yet to subscribe still counts, so no subscription comes into being
that nobody wants. `NoHoles` speaks of the room messages of a queue, picked by a
recursive function on the naturals; that it distributes over `Append` and over taking
the head is proved by the induction of `Sums`.

`DataStreamProofs` proves, for every set of components, of what they want and of
sockets, and every bound, that satisfy `WsAssumption` and `StreamAssumption`:

* `TypeCorrect`: `Spec => []TypeOK`;
* `ServerFollows`: `Spec => []ServerInStep`;
* `NobodyStarves`: `Spec => NeverStarved`.

`ServerInStep` speaks of a filter that the server does not have yet: what it will have
when it has handled the frames under way. `Handled` is that filter after each frame, a
recursive function, and the lemmas about it are its equations, which need an induction
over the number of frames (`HandledExists`; the induction is `Sums`' again), that it
depends on the frames only up to the one asked for, that handling the first frame
early changes nothing (`HandledTail`, the server's step), and that frames added at the
end are handled on top of the rest (`HandledAppend`, the client's step). `HandledDeltas` puts
them together: the frames that `resync` sends for the change from one union to another
take a filter that is the first union to the second. The same lemma gives what
`NeverStarved` asks, since the subscriptions go out before the unsubscriptions: the
filter in between covers whatever both unions cover.

`ServerInStep` is about the current socket once it is open, so it is inductive only
with `Fresh`: nothing has been sent on a socket that has not been opened, and the
server has no filter for it; without it a new connection could start with an old
filter. That the stream resyncs against nothing on a new connection is then enough.
`Known` says that the manager's status is open when its socket is: a change of the
mounted components goes out if the status says so, whatever the socket. The steps are classified first (`Moves`): those that leave the
stream alone, a change of the mounted components, a resync of everything, and a frame
read by the server. Each property is then proved for four cases instead of for every
action of both modules.

`Sums` states what the proofs above share. The library's theorems of induction take an
operator and cannot be cited, but those that say that inclusion orders the finite sets
well take none: from them `LeastNat` and `Induction`, for a set of numbers instead of an
operator. From that, `SumsExist`, `SumsAgree` and `SumsAny`: a function with the
equation of `SumFunctionOnSet` exists, is the only one and takes elements in any order;
then what a sum becomes when one element is added (`SumAdd`), removed (`SumRemove`) or
changes its value (`SumChange`).

Only model-checked: liveness under fairness, and with it the fairness part of the
refinement of `Feed`. The provers here do not reason about `WF_`, `SF_` and `ENABLED`.
Every invariant and every action property of a passing run is proved.

## Not modelled, and why

* Decoding, formatting, arithmetic on amounts, images, uploads, proxying, metrics
  and read-only queries: no interleaving or failure of their own.
* Reorganisations: the code ignores them, so there is nothing to check.
* Event streams (`api/internal/sse`): they drive a subscription as a websocket
  does, with a filter that never changes.
* Generated bindings and deployment scripts; in the web client views, hooks, the
  delivery of frames to components, and the chart's datafeed.
* The web client's chat (`core/clients/chat-ws.ts`): it waits for an `auth_ok` before
  it joins rooms, and the hub in this repository knows no `auth` frame
  (`fanout/message.go:12-13`) and reads `pool_address` where the client writes
  `poolAddress`. The two do not compose, so there is no joint behaviour to check.
* Upgrades, roles and configuration of the contracts, the aggregator under
  `meta-ag`, and the timelock.
* That a drain at shutdown cuts deliveries short (`app.go:224-225`), that a
  backfill cut short is fanned out by the live loop, and that a gap the cursor
  has jumped over stays empty (`builder.go:379`): the modules show them, but no run asks.
* pnl-tracker's cards, referrals and portfolio: queries and rendering.
* stats-workers and the other media services: not yet; see the plan.

## Plan

1. `Datafeed`: the chart's stream with its fallback poller, over `WsManager`.
2. In `Pnl`, a row that can never be folded: "so a single poison row doesn't wedge the
   cursor on every restart" (`reconcile.go:77-78`), as a claim of its own. A
   fault there is transient now, and every row folds in the end.
3. `Stats`: the steps behind one swap under redelivery; the debounced refresh.
4. Smaller ones: the hub's rate limiter, the timelock, livestream callbacks.
