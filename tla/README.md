# Specifications of SoroMint

TLA+ models of the parts of SoroMint whose correctness depends on the order of
things: the contracts under `contracts/` that hold money or decide upgrades, the
services under `server/` that follow, submit, relay and record, and the pages under
`client/` that show what overlapping requests answer.  Every definition is
translated from the code; `PROJECT.json` gives the lines of each.

Run a check from this directory, for example

    tlc -workers 2 -config Streaming_safety.cfg MCStreaming.tla
    tlapm StreamingProofs.tla

## 1. Inventory

SoroMint is a token platform on Stellar/Soroban.  Rust contracts run on chain, a
Node server submits transactions, mirrors and indexes what happens, and a web
client drives the server.

### The chain

A Soroban contract call is atomic: it happens entirely or, on a panic, not at
all, sub-calls included.  A contract is therefore a state machine with one action
per entry point; what is hard is the sequence of calls by different accounts,
time, rounding, and keys that two entry points use differently.

| Component | State | Operations | Must hold |
|---|---|---|---|
| `streaming` | stream records, id counter, its token balances | create, withdraw (one, many), cancel, set operator | no stream is paid out of another's deposit; accrual is honoured |
| `timelock` | queued operation ids with their time | queue, execute, cancel | the delay is waited out; an entry acts once |
| `upgradeable` | code, version | upgrade + migrate, by the timelock only | code changes only through the timelock, migrated atomically |
| `factory` | token code hash, created tokens | create, update the hash | the same |
| `multisig` | signers, threshold, items with signatures | propose, approve, execute, for two kinds of items | nothing acts without a quorum of different signers |
| `bridge_receiver` | signals, processed marks, relayers | receive, execute, pause, initialize | one execution per source transaction |
| `vault` | positions with several collaterals, debts, configurations | deposit, mint, repay, withdraw, liquidate, trip the breaker | collateral and debt are backed; only the market endangers a vault |
| `token` | balances, allowances, two supply counters, mint windows | the token interface, minters with limits, fees | supply is accounted for; limits and fees apply |
| `amm_pool` | two reserves, shares, cumulative prices | add, remove, swap, sync | no share loses what is behind it |
| `twap_oracle` | a ring of observations of a pool | register, observe, consult, `has_twap` | an average of prices that were in force, given when promised |
| `lending_pool`, with `flash_loan` | collateral, debts, a pending flash liquidation | deposit, withdraw, borrow, repay, liquidate, set up and execute a flash liquidation | collateral is there; only the market endangers a position; money is lost in flash liquidations alone |
| `amm_factory`, `dividend`, `otc_escrow`, `vesting`, `wrapper`, `backstop`, `quorum_credit`, `compliance`, `oracle` (not modelled) | pools, shares, positions, prices | as their names say | conservation, rounding in favour of the pool, no double claim |
| `access`, `ownership`, `lifecycle`, `merkle_whitelist`, `proof_of_burn`, `lottery`, `zk_*`, `*_validator` (not modelled) | guards, records, proofs | checks | local |

### The server

The server is one or more Node processes.  Between two `await`s a handler runs
alone; across them everything may change: that is where its bugs live.

| Component | State | Operations | Hard behaviour |
|---|---|---|---|
| `bridge-relayer` | command queue, processing lock, poll timer | poll, ingest, flush, start, stop, reset | overlapping polls and requests; failed relays; restarts of the timer |
| `multisig-service`, `vault-service` | mirrored transactions and vaults in MongoDB | propose, approve, execute; create, add, mint, repay, liquidate | read, await the chain, save |
| `event-indexer`, `historical-indexer-worker` | cursor, events in MongoDB | poll, insert, restart, rebuild | pages, partial inserts, crashes, two writers |
| `lock-service`, `batch-routes`, `nft-routes`, `stellar-service` | a Redis lock per account, the account's sequence number, NFT collections | lock, build, submit with failover, record, release | lock expiry, lost answers, crashes, work without the lock |
| `auth-routes`, `sep10-challenge-service`, `passport-config` | accounts, refresh tokens, challenges in memory | register, challenge, login, refresh, OAuth, link | look-ups before creations; a challenge posted twice |
| `api-key-routes`, `api-key-auth` | a key document, windows in memory | use, rotate, revoke, edit | a use with an older copy; edits that overlap |
| `billing-service`, deployment limit | tier, billing record, monthly counts, Stripe | upgrade, subscribe, cancel, Stripe events, count | counts after the response; two records and a remote one |
| `token-routes`, `cache-service` | tokens, cached answers in Redis | read through, create, update, invalidate | a store after an invalidation; a lost connection |
| `wasm-scanner`, scan gate | scans | scan, store, delete, deploy behind the gate | a parser that goes on after errors |
| `backup-service`, `recovery-test-service` | objects in the store, files | dump, encrypt, upload, expire, test | each step may fail or be the last; runs overlap |
| `webhook-service` | subscriptions, retry loops in memory | register, delete, restore, dispatch, retry | partial deliveries, restarts |
| `event-stream` | cursor, open stream, timer | connect, record, error, close | errors racing the close |
| `dao-service` | proposals with tallies, votes | vote, decide, execute | decisions on copies; checks before awaits |

### The client

A page keeps what the last answer said.  Requests overlap, answers come in any
order, components are unmounted while they wait, and a callback is that of the render
in which it was made.

| Component | State | Hard behaviour |
|---|---|---|
| `VotingDashboard` with its modals | list of a tab, power of a session | answers of another tab or session; callbacks of a modal that is gone |
| Multisig, Backstop, ZKAuditLog, Bridge, TokenFactory pages | one load of several endpoints, demo data | overlapping loads, endpoints that are absent beside others that fail |
| `App.jsx` with `store/index.js` | address, tokens, theme | fetches of two wallets, a mint beside a fetch |

The parts meet in five ways: a contract calls another (multisig → timelock →
proxy or factory; every contract → token), the server submits transactions and
reads events, processes share MongoDB and Redis, clients ask the server, and time
passes for all of them.

`PROJECT.json` lists every component, also those that are not modelled and why,
and the hazards of the modelled parts with the line where each bites and the property
that watches it.

## 2. Modules

Contracts:

| Module | State, in the code's terms | Actions |
|---|---|---|
| `Streaming` | `streams`, `nextStreamId` storage keys; `bal` of the token contracts; histories of what each id paid in and out | one per entry point, and the ledger closing |
| `Timelock` | `pending` = the stored operation ids (operation and eta); `impl` of proxies (code, version, schema of the storage), `wasmHash`, `tokens` of factories; logs of queueing and executing | queue, cancel, execute with either operation, create token, time |
| `MultiSig` | `signers`, `threshold`, `txCounter`, `pendingTx`, `upgrades` | propose, approve, execute for both kinds of items |
| `Governance` | MultiSig as the admin of Timelock: both | `ExecuteUpgrade` joins `MarkUpgradeQueued` and `QueueOperation` in one step, as one transaction does |
| `BridgeReceiver` | `signals`, `nextSignalId`, `processed`, roles; history of executions | one per entry point |
| `Vault` | positions, configurations, wallets, the SMT in circulation; prices are external | one per entry point, and price moves |
| `AmmPool` | `reserve`, `totalShares`, `shareBalance`, the accumulator; the accounts' coins and the ledger's clock | add and remove liquidity, swap, sync, a ledger closes |
| `TwapOracle` | AmmPool with the feed of one pool: index, count, ring; history of the prices in force | register, observe, consult, and the pool's actions |
| `LendingPool` | AmmPool with `collateral`, `debt`, the coins of the lending pool, `flash` = PendingFlashLiquidate, the flash-loan provider's funds; oracle prices are external | one per entry point; a flash liquidation is one step, from the loan, if there was one, to the payment, that swaps in AmmPool or sells to a pool of the caller's choice |
| `Token` | balances, allowances, `supply`/`totalSupply`, mint windows, `configFee`/`feeConfig` (the key read and the key written) | one per entry point |

Server:

| Module | State | Actions |
|---|---|---|
| `BridgeRelayer` | `queue`, `processing`, timers, where each poll or request is | the steps between awaits |
| `MultiSigService`, `VaultMirror` | the document, what each request read | a read step and a save step per request; `VaultMirror` saves the changed fields, as mongoose does |
| `EventIndexer` | chain of events, database, cursors | fetch, insert one, finish, fail, crash, of the live worker and of the rebuild |
| `AccountBatch` | Redis key with its time to live, sequence number and pending transactions of the account, where each request is | Redis grants and the request learns of it, build, submit, record, release, their failures, crash; a ledger includes or the network drops; time |
| `Lease` | abstract: how much of its term each client has used | grant, end, time |
| `Nfts` | collection, items, where each batch mint is | find or create, submit, insert, save the total, audit, answer |
| `Sessions` | accounts, challenges, posts, live tokens, claims | the steps of sign-in, OAuth and linking |
| `ApiKeys` | the key, its window, copies of uses and edits | look up, count, record; load, save |
| `Billing` | user, billing record, monthly usage, Stripe customers; copies | check, load, save of a count; the routes and Stripe events |
| `TokenRegistry` | tokens, cache, readers, writers | miss, query, store; change, list keys, delete keys; changes that invalidate nothing; connection, expiry |
| `Scanner` | scans in progress and stored, deployments | a section at a time; report, store, delete, gate |
| `Backups` | store, disk, runs and tests | the steps of both, failures, crash, a day |
| `Webhooks` | subscriptions, a loop per event and webhook | dispatch, attempt with its two deliveries, retry, restart |
| `EventStream` | cursor, stream, timer, what was written | connect, record, error, reconnect, close |
| `Dao` | proposal, votes, requests with their copies | the steps between awaits, the clock |

Client:

| Module | State | Actions |
|---|---|---|
| `VotingPages` | page, badge, both modals, their requests | session and tab changes, requests and answers, callbacks |
| `StatusPages` | five pages, loads, a wallet, forms | load, answer of an endpoint, show, fail, sign, deploy |
| `Dashboard` | address, token store, fetches, mints, theme | connect, fetch, mint, reload, theme changes |

`MC*` modules give the constants small values that a configuration cannot write, and some run several components side by
side: a *scenario* is chosen initially and only its part moves, so that the run explores
the sum of the parts and not their product.  `*Proofs` modules hold the
theorems, `SumTheorems` the lemmas about sums they share.  Two entry points that share a body share an operator (`Pay`, `Dequeue`,
`MoveBalance`).  Variables called history are never read by an action: they record what
happened, so that a property can say it.  Definitions under the heading *faulty
variants* belong to no action: each is what a plausible mistake would make of a
definition below it, and each property is known to notice one.

## 3. Runs

| Run | Properties | What it shows |
|---|---|---|
| `Streaming_safety` | `Solvent`, `NeverAheadOfSchedule`, `PaidOutOfOwnDeposit`, `AccrualIsKept` | Two streams over two ledgers and two tokens, with late initialize calls, operators, batches and cancellations: the escrow stays solvent stream by stream and nothing takes back what had accrued. |
| `Governance_pipeline` | `DelayRespected`, `ExecutedOnce`, `CodeIsGoverned`, `PipelineHolds` | The multisig as the admin of the timelock that owns a proxy, and beside it a timelock with two factories under a single admin: no code changes without an entry that waited, no entry acts twice, and every upgrade of the pipeline stands on a quorum and is one approved proposal. |
| `Deliveries` | `OneExecutionPerFiling`, `ReplaysAreOlderFilings`, `OneDrains`, `EveryReceiptAccounted`, `StreamIsExact`, `PagesAreCurrent`, `ShownIsOneLoad` | What reaches whom, a scenario each: signals filed twice for a transaction, requests, polls, resets and timers around one queue of commands, webhook attempts that fail half way, an event stream that reconnects, and the answers to overlapping requests of the client's pages. |
| `EventIndexer_losses` | `IndexHolds`, `EveryEventIndexed` | A chain of up to six events, a live worker that is killed and restarted at any await, and the historical rebuild, which inserts its pages one document at a time and may be killed too: what the index lacks lies in ledgers a page cut, in what a crash or a failed insert left, or in the page a rebuild is inserting, everything else is stored at last, and a finished rebuild lacks nothing that existed when it ended. |
| `Vault_safety` | `BooksBalance`, `MirrorOffOnlyByOverlap`, `OwnersAreSafe`, `SharesKeepTheirWorth`, `TwapHolds`, `LendingHolds` | The contracts about prices, a scenario each: a vault over two collaterals with different limits, a liquidator, a push price and a TWAP for each, and a circuit breaker anyone may trip; the server's mirror of a vault under three overlapping requests; an AMM pool that two users fill, trade in and empty; its average price through a ring of two observations; the lending pool with loans on two assets, and liquidations that sell collateral in that AMM pool. |
| `Token_ledger` | `EveryTokenAccounted`, `AllowanceConserved`, `TwoWindowCap` | Two users, an allowance and a minter over a mint window and the start of the next, with every entry point that moves balances and amounts of either sign: the two supply counters together are the balances, allowances are conserved, and no window of time holds more than twice the highest limit. |
| `AccountBatch_lock` | `StolenOnlyInTwoWays`, `LockIsLease`, `EverythingEnds` | Two token batches and an NFT batch for one account, with a lock that expires, Redis and RPC calls that fail before or after taking effect, and crashes: the lock implements a lease, a sequence number is taken from a batch under it only after a TTL or by a transaction that was already pending, and in the end every request is answered and the lock is free. |
| `Server_records` | `IdentitiesHold`, `BillingAddsUp`, `StaleOnlyByRace`, `RegisteredWasRead`, `BackupsHold`, `SignaturesStand`, `CollectionIsItsOwners`, `KeyRulesHold`, `ApprovedByItsVotes` | Nine kinds of documents, a scenario each, every one under concurrent requests that are split at their awaits, with calls that fail before or after taking effect: what each document says in spite of it, and which races alone make it wrong. |

Four further runs end in a counterexample: each states what a document says and the
code does not do; `findings` in `PROJECT.json` quotes them.

| Run | Properties | What it shows |
|---|---|---|
| `BridgeReceiver_duplicate` | `NoDuplicateProcessing` | Two signals filed for one source transaction before either is executed are both executed: the mark is set and checked at different steps. |
| `MultiSigService_stuck` | `ApprovedCanBeExecuted` | Approval sets the status to approved, and execution requires it to be pending. |
| `BridgeRelayer_polls` | `EveryLogRelayed` | The poller runs for ever and the node answers, and what the EVM bridge logged of a transfer never reaches the relay endpoint: the polls hand on raw logs, of which no command is made. |
| `BridgeRelayer_ids` | `BridgeIdsTellApart` | Two transfers between the same parties are relayed under one id: the 48 bytes kept of it end before the event id. |

### What the properties say

Each module has a type invariant, `TypeOK` or one named for the module, which the proofs use and which was
checked while the module was written; the runs spend their properties on the rest.

Several properties have parts, each defined and commented on its own in the modules:
`PipelineHolds` (`ExecutedWithQuorum`, `UpgradeNeedsQuorumAndDelay`, `OneProposalOneUpgrade`),
`OneDrains` (`SingleFlight`, `NobodyStranded`), `BooksBalance` (`DebtMatchesSupply`,
`CollateralBacked`), `OwnersAreSafe` (`OnlyMarketEndangers`, `CollateralLeavesSafely`),
`SharesKeepTheirWorth` (`SharesBacked`, `NothingIsDrawnFromShares`), `TwapHolds` (`AverageOfSpots`, `PromiseKept`),
`LendingHolds` (`CollateralKept`, `LossOnlyInFlash`, `SoundStaysSound`), `IndexHolds` (`LossesAreKnown`,
`RebuildIsComplete`), `IdentitiesHold` (`OneAccountPerIdentity`, `OneSessionPerChallenge`), `SignaturesStand` (`NoSignatureLost`, `ApprovedByQuorum`), `BillingAddsUp`
(`CountsEveryDeployment`, `RecordsAgree`), `BackupsHold` (`SuccessIsKept`, `DumpsAreRemoved`, `OnlyOpenedIsClear`),
`KeyRulesHold` (`WindowLimited`, `RevocationStands`), `PagesAreCurrent` (`PageIsCurrent`,
`DashboardIsCurrent`).

Where the code loses something under a race, the property names that race and claims
the rest: `MirrorOffOnlyByOverlap`, `StaleOnlyByRace`, `ApprovedByItsVotes`,
`CollectionIsItsOwners`, `StolenOnlyInTwoWays`, `IndexHolds`, `ReplaysAreOlderFilings`.  The
history variable for the race is set by the very overlap (a save between another
request's read and its save, a write between a query and its store); a mistake elsewhere
still breaks the property, as the mutants show.

### Refinement

`Lease` says what a lock with a time to live promises, without Redis: a client is granted a
term when nobody has one, uses it up with time, and gives it back.  `AccountBatch!LockIsLease` is
that specification under the mapping *used of the term = the time since Redis set the key for
the batch, the whole term when the batch neither has nor may still come to have the lock*.  The
batch itself cannot see its term: it learns of the lock when the OK arrives (`LearnOfLock`), which
may be after the key expired, and then works without a lease beside the next holder; the
mapping shows such a batch with its term used up.  TLC checks it in `AccountBatch_lock`;
`LockImplementsLease` proves it.

### Bounds

Counters that grow without end are bounded by named constants in the guards
(`MaxLedger`, `MaxStreams`, `MaxItems`, `MaxQueued`, `MaxSignals`, `MaxInits`,
`MaxVaults`, `MaxTokens`, `MaxHeld`, `MaxTimers`, `MaxQueue`, `MaxResets`, `MaxCrashes`, `Resends`, `Retries`, `MaxRecords`,
`MaxClock`, `Connections`, `MaxVersion`, `MaxSections`, `MaxArchived`, `Posts`, `Rotations`, `PowerReads`, `ListReads`, `Loads`, `Fetches`), and time by
`MaxTime`, `Months` or `LastDay`.
They are chosen so that each hazard happens: two streams share an escrow and a
reset id meets a live one; a timelock entry is queued three times over more than
two delays, so that a re-queue meets a pending and an executed one; three signals
for two transactions are the least with which a replay, an overwrite and an
unrelated signal coexist; two tokens of a vault have different thresholds; a page
of two events ends within a ledger of two; the token's time spans a mint window and the start
of the next, which may begin at any instant, three tokens exceed twice the lower limit, and
balances and allowances go below zero; a lock of two
ticks expires while a request is at work, and the other takes it.  The vault run has a
single vault so that two collaterals, two limits and two prices for each of them stay
within reach: what one vault could take from another would show as a contract holding
less than the vault records.

The AMM pool of that run starts empty and has four of each coin per account: enough for
reserves at uneven ratios, for shares of both accounts, and for both to leave.  The TWAP
starts from a pool that was filled and may be emptied again, with at most two swaps of one size: with a ring of two slots
every third observation writes over the oldest, and windows of one to three units begin before, on
and between observations within four.  The lending pool has a user with two kinds of
collateral and another with SMT; the price of one asset is halved and doubled and grows old,
its configuration changes to one with a limit for borrowing above that for liquidation; with four SMT
two loans are given after another, the second on top of the first.  Seizing a loan of two at half the price
brings less SMT than the flash loan with its fee costs, so that the loss that `min_swap_output`
accepts happens; a pool of the caller's choice pays nothing, and a direct call of `receive_loan`
adds no fee.

Two requests of the relayer and two polls overlap; the requests bring two transfers that
differ in their ids only, so that two different commands wait for one loop.

For the documents of the server two or three requests are enough for a race (one reads, another
saves, the first saves); three approvals meet a threshold of two; three ballots are the least
the DAO decides on; a deployment limit of one or two is met and passed; a retention of a day
is outlived within three; two sections let an error precede the section it hides.  For
the pages, two requests of a kind cross, a third follows both.  `VotingPages` is
looked at twice, with several reads of the power beside one of the list and the other way round;
their product is left out.

Symmetry is used over interchangeable users, accounts, tokens and requests only in runs without
liveness.  Runs without `CHECK_DEADLOCK FALSE` are checked for deadlock as well.  The others
model systems that come to rest by their bound (all streams settled, all signals
filed, all requests answered).

### Fairness

Three modules have a liveness property, under a specification of its own (`FairRelayerSpec`, `FairIndexerSpec`, `FairSpec`).

- `BridgeRelayer` (`EveryLogRelayed`, which is violated): Node's event loop runs what is ready (weak fairness of ingesting
  and finishing), timers fire, every call is answered or fails (the HTTP client's
  timeout), and an endpoint that is asked for ever answers well sometimes (strong
  fairness).  The property is conditional on a timer running.  None of this helps: the poll makes no command of a raw log.
- `EventIndexer` (`EveryEventIndexed`): the poll loop runs again after every error, a supervisor restarts the
  worker, the node and the database answer sometimes.
- `AccountBatch` (`EverythingEnds`): time passes, so the key expires; each call ends with an answer or
  an error, since retries are bounded.  Nothing is assumed about success.

The documents of the server and the pages have no liveness property: a request that fails is
not retried by anything, and what must happen after it is up to its user.

## 4. Where the code and its documents part

Modelling met more disagreements than the four that have runs.  The models do what the
code does in each of them, and the properties above are stated so that they hold of
the code.

- `contracts/token/src/lib.rs:107`: docs/rust-testing-guide.md:46-54 lists among what the tests of the token cover that minting, transferring and burning zero and minting, approving and burning a negative amount panic. Only minter_mint and set_minter_limit look at the sign of their amount: mint, burn, approve, permit, transfer and transfer_from take any i128, and a balance, an allowance or the supply may be below zero (the tests with those panics, token/src/test.rs, are in no mod declaration).
- `contracts/streaming/src/lib.rs:171`: examples/STREAMING_IMPLEMENTATION.md:105 says "Refund Safety: Cancellation properly distributes all funds". finalize_create_stream stores only total_amount / duration rounded down, and cancel_stream computes the refund from rate * duration: the remainder of the division was paid in and is paid out to nobody. A stream of 3 over 2 ledgers that is cancelled leaves 1 in the contract.
- `contracts/streaming/src/lib.rs:61`: docs/streaming-payments.md:73 says create_stream "Returns unique stream ID". create_stream works before initialize (the counter defaults to 0) and initialize sets the counter back to 0: a stream created after it takes the id of a live one and replaces its record, stranding its deposit.
- `contracts/bridge_receiver/src/bridge_receiver.rs:78`: contracts/bridge_receiver/README.md:14 says "Signal Tracking: Complete history of all bridge operations". initialize (78-99) has no guard against a second call and resets NextSignalId to 0: the next signal overwrites signal 0.
- `server/services/bridge-relayer.js:372`: server/routes/bridge-routes.js:105 says the stop route "Stops all relayer watchers and polling loops". start() assigns this.evmPollTimer without looking whether a timer runs; after two starts stop() clears the last and the first polls on with no handle left.
- `contracts/vault/src/lib.rs:516`: docs/vault-system.md:142 says "Collateral seized and transferred to liquidator". liquidate burns the liquidator's SMT first and then transfers a token only if amount_to_seize <= amount (line 516): below the value at which debt plus penalty fits, the liquidator pays the debt and receives nothing.
- `contracts/vault/src/lib.rs:498`: docs/vault-system.md:195-196 says "Collateral seized proportionally from all collateral types" and "Liquidation bonus applied (e.g., 10% extra collateral)". The loop recomputes total_coll_val from position.collaterals after earlier tokens were reduced in it (lines 498-504), so the shares add up to more than one and a vault with two tokens can lose more than the covered debt and the penalty are worth.
- `contracts/vault/src/lib.rs:762`: docs/vault-system.md:92 says of add_collateral "Increases collateralization ratio, reduces liquidation risk". check_liquidation takes the highest liquidation threshold over all deposited tokens (762-773): adding a little of a stricter token makes a vault liquidatable that was not.
- `contracts/vault/src/lib.rs:666`: The vault asks for a TWAP only when has_twap says there is one, and lets a token without one pass. has_twap looks at the ring before get_price records into it: the observation it went by may be the one written over (contracts/twap_oracle/src/lib.rs:205, 316), and a window in which the pool was empty averages to nothing; in both cases get_price panics and the liquidation or the pause with it.
- `contracts/lending_pool/src/liquidation.rs:383`: Where the flash-loan provider calls back and the AMM pool buys, min_swap_output of setup_flash_liquidation is the only bound on what the sale brings: the loan and its fee are repaid from all SMT the pool has, and the difference is a loss of the lenders. Nothing but its execution takes a pending flash liquidation down (lib.rs:171), also when the borrower has recovered.
- `contracts/lending_pool/src/lib.rs:185`: The comment of receive_loan (contracts/lending_pool/src/lib.rs:182) says it is called by SmtFlashLoanProvider after transferring the amount. The code asks no caller to authenticate, takes the provider from the arguments and never looks whether the amount came in: anybody may call it while a flash liquidation is pending. Nor is params.amm_pool compared with any configured pool: the pool that buys is the choice of whoever set the liquidation up. Both are steps of LendingPool, and LossOnlyInFlash says what remains true.
- `contracts/lending_pool/src/liquidation.rs:359`: The AMM pool pulls the collateral from the lending pool by a transfer within swap (contracts/amm_pool/src/pool.rs:326), where the lending pool approves an allowance and authorises no call of the AMM: the tests of the flash liquidation run with mock_all_auths_allowing_non_root_auth (contracts/lending_pool/src/test.rs:79). The model lets the transfer succeed, as the tests do.
- `server/services/event-indexer.js:67`: docs/event-indexer.md:23 says "Cursor-based pagination for resumable indexing". Every fetch, also the next page of the same run, starts at the ledger after the last event's: the events of that ledger beyond the page of 100 are never fetched.
- `contracts/token/src/lib.rs:209`: The window is called "Rolling 24-hour window state for a minter" (contracts/token/src/lib.rs:70). minter_mint restarts the window at the first mint after it is over (209-211): a minter that waits until its end mints its limit twice within moments.
- `contracts/token/src/lib.rs:227`: contracts/token/src/test.rs:230 asserts that the sum of the balances is supply() ("assert_eq!(client.supply(), sum)", in test_supply_equals_sum_of_balances) and contracts/token/src/test_minting_limits.rs:32 asserts it after minter_mint ("assert_eq!(client.supply(), 500)"). minter_mint adds to DataKey::TotalSupply while supply() and the burns use DataKey::Supply.
- `contracts/token/src/lib.rs:147`: docs/transfer-fees.md:9 says "The fee is hard-capped at 10% (1000 bps)" and :41 "The 10% cap is enforced at the contract level in `set_fee_config`". set_fee_config stores whatever fee_bps it is given.
- `contracts/token/src/lib.rs:113`: contracts/token/src/test.rs:75-87 (test_transfer_with_fee) sets a fee of 500 bps, transfers 1000 and asserts "client.balance(&treasury), 50". set_fee_config writes DataKey::FeeConfig (line 150) and move_balance reads DataKey::Config(ConfigKey::Fee) (line 113), which nothing writes: no transfer ever pays a fee.
- `server/routes/nft-routes.js:97`: server/services/lock-service.js:8 says of the lock "Used to prevent race conditions in concurrent operations". Only the token batch route takes it; the NFT batch route calls submitNftBatchOperations for the same source account without it and uses the sequence number a batch under the lock was built with.
- `server/services/stellar-service.js:241`: server/services/lock-service.js:8 says of the lock "Used to prevent race conditions in concurrent operations". submitBatchOperations returns when sendTransaction is answered PENDING (241-263) and the handler releases the lock (batch-routes.js:137) before a ledger includes the transaction: the next request under the lock reads the same sequence number, within the TTL of both. StolenOnlyInTwoWays names this way; without its last disjunct TLC finds the trace.
- `server/services/lock-service.js:60`: server/services/lock-service.js:8 as above. The OK of client.set is trusted however late it arrives: after the PX of 30 s another request may have the key, and both work. The lease of LockIsLease is counted from when Redis sets the key, which the caller cannot see.
- `server/routes/batch-routes.js:126`: docs/audit-logs.md:14-15 says the status is "Either `SUCCESS` or `FAIL`" and gives FAIL "if the deployment failed". The catch at batch-routes.js:126 writes FAIL for anything thrown after the submission too: an answer lost after the network accepted the transaction, or Referral.insertMany failing at line 118, is recorded as FAIL although the operations took effect.
- `server/services/dao-service.js:76`: docs/dao-voting.md:155-157 says "A proposal executes when" the approval rate reaches the quorum and three votes are cast. castVote saves the totals it computed from the copy it loaded: of two votes that loaded the same copy one is lost from the tally though its Vote is stored, and later votes decide on what is left. A second execution that fails writes REJECTED over the EXECUTED of the first.
- `server/services/voting-service.js:155`: The Proposal and Vote models define none of syncStatus, isVotingOpen, hasVoted and getTallies (server/models/Proposal.js, Vote.js describe the DAO): every operation of the service that reads a proposal throws. Vote requires a `support` and has no choice and no voting power, Proposal has no tally: with the methods added, a vote would be rejected and its increment dropped. The polls are therefore not modelled.
- `server/routes/api-key-routes.js:223`: The route is described as "Invalidate the current secret and issue a new plaintext value" (line 208). It also sets the status to active: rotating a key that was revoked brings it back.
- `server/routes/auth-routes.js:61`: client/src/services/authService.js:313 takes an accessToken from the answer to /auth/register and throws without one. The route registers and returns no token; and verifyRefreshToken wants a JWT of type refresh where refresh tokens are random bytes, so that /auth/rotate always answers 401.
- `server/services/billing-service.js:151`: server/routes/billing-routes.js:114 describes /billing/subscribe as "Subscribe user to a tier". A subscription to a paid tier is created at Stripe and stored, the tier of the user stays what it was; a second one leaves the first running at Stripe with nothing that refers to it. /billing/upgrade changes the tier without a subscription.
- `server/services/webhook-service.js:80`: Each attempt delivers the payload twice, once with and once without the event headers, and an attempt whose second delivery fails is repeated as a whole: four attempts make up to eight deliveries. The schema of a registration is an array of arrays (server/routes/webhook-routes.js), so that only the default event can be registered.
- `server/services/event-stream.js:56`: The comment of start says "Safe to call multiple times (no-op if already running)" (line 53). start connects whenever the stream was not stopped: a second call opens a second connection. The delay of the back-off is reset by every connect, also by one that fails at once, and a stream that has seen nothing reconnects from 'now': what happened in between is lost.
- `server/services/recovery-test-service.js:59`: docs/backup-system.md:55 says "Downloads latest backup from S3". ListObjectsV2 lists in the order of the keys and MaxKeys is 1: the oldest backup is tested, for ever the same one. The decryption keeps no authentication tag and dies of every file (server/utils/backup-encryption.js), having written its clear text to a `.decrypted.gz` (recovery-test-service.js:167) that stays on the disk, the "Clean up test files" of line 359 notwithstanding.
- `server/services/backup-service.js:52`: The log line says "SAVE THIS PASSWORD!" of the password generated when none is set, and does not contain it: the run is reported as a success, and what it stored can be decrypted by nobody. `SuccessIsKept` therefore speaks of the iv and the salt only. A run that fails within mongodump leaves the torn file that "Always clean up local files" (line 267) speaks of.
- `server/services/fee-monitor-service.js:50`: The comment at line 50 keeps an alert "slightly longer than the poll interval". FEE_MONITOR_INTERVAL_MS and the threshold are absent from the validated environment: the interval is undefined, the timer fires at once again and again and the time to live is not a number.
- `client/src/services/factoryService.js:102`: The parameter is documented as "Stellar C-address of the new token". The page makes it from a random number, at most 17 characters, where the validator of the server wants 56; the limits of name and symbol differ as well. The page accepts what the server will refuse.
- `client/src/pages/Multisig/Multisig.jsx:250`: handleSign reports "signed successfully" and sends nothing (its comment says what it would do in production); the demo hint is shown whatever the data are (line 362). In Backstop.jsx:255 demo data are recognised by their values, and an error hides the hint while they stay.
- `client/src/store/index.js:54`: fetchTokens sends no Authorization header where the route requires one, and neither an error nor another wallet empties the list: what a former wallet was shown stays under "My Assets". App.jsx does not parse as it is (one import twice, two branches of a merge): the panels are modelled each as it is written.
- `server/middleware/rate-limiter.js:108`: createGlobalReadRateLimiter and createGlobalWriteRateLimiter are called and defined nowhere; index.js uses BillingService and FraudDetectionMiddleware without requiring them; models/Stream.js compiles its model twice. The server does not start as it is. Each service is modelled as it is written and as its own tests run it.

## 5. Proofs

| Theorem | Module | Establishes |
|---|---|---|
| `EscrowSolvent` (`Solvent`) | `StreamingProofs` | For any users, tokens and ids: of each token the escrow holds at least what all its live streams together still owe. |
| `ScheduleRespected` (`NeverAheadOfSchedule`) | `StreamingProofs` | No recipient ever holds more of a stream than has been released. |
| `OwnDepositSuffices` (`PaidOutOfOwnDeposit`) | `StreamingProofs` | What was paid and refunded under an id and is still owed there never exceeds what was deposited under it. |
| `AccrualNeverLost` (`AccrualIsKept`) | `StreamingProofs` | For every instance no step, of whoever and in whatever order, lowers what a recipient has received and can still ask for under an id, but the re-creation of an id in use after a late initialize. |
| `TypeCorrect` (``) | `StreamingProofs` | Type correctness of the streaming contract for any users, tokens, amounts and ranges. |
| `DelayAlwaysRespected` (`DelayRespected`) | `GovernanceProofs` | Whatever any number of factories and proxies execute was queued at least the delay before. |
| `NeverExecutedTwice` (`ExecutedOnce`) | `GovernanceProofs` | No queued operation is executed more than once. |
| `CodeGoverned` (`CodeIsGoverned`) | `GovernanceProofs` | A factory deploys the code of the last operation executed on it and each token runs the code that was the last when it was deployed; a proxy runs the code of the last upgrade executed on it, migrated to the schema of that code, which no execution ever lowers: for any factories, proxies, hashes and schemas. |
| `PipelineGoverned` (`PipelineHolds`) | `GovernanceProofs` | With the multisig as the admin of the timelock: what acts had a quorum of different signers, an upgrade waited besides, and one approved proposal is one upgrade. |
| `UpgradesAreGoverned` (``) | `GovernanceProofs` | Every executed upgrade was queued by an approved proposal and waited its delay. |
| `ProposalsAreSpent` (``) | `GovernanceProofs` | One approved proposal gives at most one upgrade. |
| `TransactionsHadQuorum` (``) | `GovernanceProofs` | What the multisig executed had enough different signers when it did. |
| `PipelineImplementsTimelock` (``) | `GovernanceProofs` | The composition implements the timelock on its own: with a multisig in front of it, each step is one the timelock allows, or leaves it alone. |
| `TokensAccounted` (`EveryTokenAccounted`) | `TokenProofs` | For any set of users the balances add up to the two supply counters together. |
| `AllowanceAccounts` (`AllowanceConserved`) | `TokenProofs` | For every pair the allowance is what was granted less what was spent, for any set of users and spenders. |
| `MintCap` (`TwoWindowCap`) | `TokenProofs` | No minter mints more than twice its highest limit within any span of a window, however limits change in it. |
| `SharesAreWorth` (`SharesKeepTheirWorth`) | `MarketProofs` | For any amounts and ratios: shares have reserves behind them, and no deposit, withdrawal or swap, with all its roundings, makes the product of the reserves per squared share fall. |
| `LendingIsKept` (`LendingHolds`) | `MarketProofs` | The lending pool holds the collateral its books name, loses SMT only when a pending flash liquidation of a liquidatable borrower is executed, once for each set-up and by no more than min_swap_output left open when the provider lends and the AMM pool buys (a direct receive_loan and a pool of the choice of the caller included as steps), and with limits in order nothing a user does makes a sound position liquidatable. |
| `VaultBooks` (`BooksBalance`) | `MarketProofs` | The debts of all vaults add up to the SMT in circulation, and of each token the contract holds the sum of what the vaults record, through seizures that sell several tokens in a loop. |
| `OwnersKeepVaults` (`OwnersAreSafe`) | `MarketProofs` | An owner whom the market has not put in danger is not put there by others, and keeps the collateral. |
| `MirrorIsTrue` (`MirrorOffOnlyByOverlap`) | `MarketProofs` | The mirrored vault has the debt and the collateral of the requests that succeeded, except where one saved between another's read and its save, for any number of requests. |
| `LockImplementsLease` (`LockIsLease`) | `AccountBatchProofs` | For any number of requests and any TTL the Redis lock implements a lease: initial states map to initial states, and every step to a step of the lease or a stutter. |
| `TheftHasTwoWays` (`StolenOnlyInTwoWays`) | `AccountBatchProofs` | For any number of requests, resends and lost answers: the number a batch built on is used by another batch only when one of the two outlived its lock, or when the other was pending, its lock already released, as the number was read. |
| `LockExcludes` (``) | `AccountBatchProofs` | For any number of requests and any TTL: until the TTL has passed since Redis set its lock, a batch at work has the lock, so no other works under it. |
| `FilingsMintOnce` (`OneExecutionPerFiling`) | `DeliveriesProofs` | A source transaction is executed at most as often as signals were filed for it, also when initialize starts the ids over. |
| `ReplayWindow` (`ReplaysAreOlderFilings`) | `DeliveriesProofs` | Whatever is executed for a transaction again was filed before its first execution: the only replays are those of the finding. |
| `MarkFollowsExecution` (``) | `DeliveriesProofs` | A source transaction is marked processed exactly when a signal of it was executed. |
| `TypeCorrect` (``) | `DeliveriesProofs` | Type correctness of the bridge receiver. |
| `ReceiptsAccounted` (`EveryReceiptAccounted`) | `DeliveriesProofs` | For any webhooks, events and retries: an event reaches only webhooks registered when it was dispatched, at most twice an attempt, and at least twice where the log says it was delivered. |
| `StreamAlwaysExact` (`StreamIsExact`) | `DeliveriesProofs` | Through any reconnections a client is written each record once and in order, at most one connection or timer is there, and none after the close. |
| `PagesShowOneLoad` (`ShownIsOneLoad`) | `DeliveriesProofs` | However the loads overlap, the data a page displays came from one load of that page, demo data only from endpoints of it that are not there. |
| `PagesAlwaysCurrent` (`PagesAreCurrent`) | `DeliveriesProofs` | Through any overlap of requests: the voting power shown is the session's, the list that of the tab, the tokens those of the wallet, except after the crossings the properties name. |
| `OneAlwaysDrains` (`OneDrains`) | `DeliveriesProofs` | For any polls, requests and timers: one loop at most drains the queue, and nobody waits for a loop that is not running. |
| `IdentitiesAlwaysHold` (`IdentitiesHold`) | `ServerProofs` | For any requests: no two accounts have one identity, and a challenge gives one session at most. |
| `CollectionsHaveOneOwner` (`CollectionIsItsOwners`) | `ServerProofs` | A collection is minted for one account alone; its total never exceeds the items the network took, and counts those of every request answered with 200 except where one saved it between another's read and its save. |
| `KeyRulesAlwaysHold` (`KeyRulesHold`) | `ServerProofs` | For any number of uses and edits: no window admits more than its limit, and a revoked key comes back only by a rotation that found it revoked. |
| `SignaturesAlwaysStand` (`SignaturesStand`) | `ServerProofs` | No stored signature is ever lost, and what is approved or executed has a quorum, for thresholds of one to three (the code asks for two). |
| `StaleAlwaysByRace` (`StaleOnlyByRace`) | `ServerProofs` | What the cache serves is what the database holds, except while a write is still to invalidate it or after the race, the lost connection or the silent writer the property names. |
| `ApprovedOnVotes` (`ApprovedByItsVotes`) | `ServerProofs` | A proposal is approved only on three stored votes at least, the quorum's share of them for it, unless some request worked on a stale copy. |
| `RegisteredAlwaysWasRead` (`RegisteredWasRead`) | `ServerProofs` | A token is registered behind the gate only on a scan of its own user whose file was read to its end. |
| `BillingAlwaysAddsUp` (`BillingAddsUp`) | `ServerProofs` | Each deployment is counted once in its month unless counts overlapped or failed, and the two copies of the tier agree with one customer at Stripe unless edits did. |
| `BackupsAlwaysHold` (`BackupsHold`) | `ServerProofs` | For any number of runs, days and retention: a backup reported as done stays in the store, with the iv and salt of its cipher, until the retention is over; a complete dump is on disk only while its run is at work or after the process died in it; and the clear text a recovery test leaves on disk is only what a password of the environment had sealed. |
| `IndexAlwaysHolds` (`IndexHolds`) | `ServerProofs` | For any chain, pages, failures and restarts: the live index lacks only what a cut ledger or an abandoned batch cost it and what a rebuild is just inserting, and a finished rebuild lacks nothing up to where it stopped. |
| `AveragesAreOfSpots` (`TwapHolds`) | `MarketProofs` | For any ring, interval, windows and amounts: an average lies between the lowest and the highest price in force since the observation its window starts from, and what has_twap promised fails only in the two known ways. |

Where a run looks at several components as scenarios, the theorem is about the component's own
specification (its Init and Next, named `WebhooksSpec`, `DaoSpec` and so on in the proof module): a
scenario of the run is that specification with the other components at rest.

Each safety theorem rests on an inductive invariant: it holds initially, every action keeps it (one
lemma per action, which a step lemma joins), and it implies the property.  TLC looked at each of these
invariants on the instances of the runs before it was proved.  The arguments:

- **Sums.** What the library's `SumFunction` computes is a fold, a recursive function chosen by
  `CHOOSE`.  `SumTheorems` shows that the recursion has a solution over a finite set, and what it gives
  when a term changes, a set grows or two sums are subtracted.  Induction theorems take
  an operator as a parameter and cannot be instantiated here; the proofs take instead a minimal set
  among the subsets for which the claim fails, of which a finite set has one, and take an element out
  of it.  The seizure of the vault, a fold over the token order, and the existence of a greatest and a least member go the same
  way.  Everything about ledgers stands on these lemmas.
- **Streaming.** `IInv` is the type invariant, two of the safety invariants and
  `RangesNonEmpty` (a live stream's start is before its stop, without which the elapsed
  ledgers have no bound).  The invariant speaks of one id at a time; lemma
  `IInvByParts` splits it, `KeptPart` disposes of the ids an action leaves alone, and
  each action has a lemma for the id it touches.  The non-linear facts (a rate times
  an elapsed time is at most a rate times the duration) are lemmas of their own.  `Solvent`
  follows from it by the sums: what an entry point takes out of the escrow is owed no more, token by token,
  for a batch by the sum of the differences.
- **Governance.** `PendingWasQueued`: whatever is pending has an entry in the log of
  queueing, with its eta at least the delay later.  `ExecutedIsGone`: what was executed is
  no longer pending and cannot be queued again with the same eta, because time has
  reached it and new entries lie a delay ahead; the delay being positive is the
  assumption this needs.  For the code, each factory and proxy has what the last execution in the log
  that names it brought, a token what the last execution before it brought, and a proxy's version is the
  number of those executions; its schema is no lower than any they brought, or the migration fails.  The
  composition implements the timelock (`PipelineImplementsTimelock`), which hands it the invariants above;
  added to them are what the multisig's items say (different signers, a quorum when they act) and the
  count of one target: approved upgrades of it are as many as entries waiting and executed.
- **Token.** Types and allowance accounting are one invariant; the
  spend of an allowance and the movement of a balance are lemmas used by
  transfer_from and burn_from alike.  The ledger adds that the supply counters are the sum of the balances.  For the
  mint cap, each minter's window, the instant it began and what was minted in it, bounds the sum of
  what was minted since, and a span as long as a window meets at most two windows.
- **Markets.** For the pool, each operation keeps what a share stands for of each coin, or, a swap,
  the product; roundings are lemmas about `\div`, and both coins together are one non-linear lemma.  For the lending
  pool, a position's weighted value is a function of its parts that grows with each; the books follow by
  the sums.  For the vault, the loop of a liquidation is shown to keep, token by token, what the contract holds and
  what the vaults record.  For the mirror, a request that saves without an overlap saves over the document it read.
- **Average price.** `Between` relates two observations: what the cumulative price grew by from one to the other is at least
  the time between them at any lower bound of the prices in force, and at most that at any upper bound.  The relation composes,
  holds trivially at one instant, and is all that the average needs, so that no sum over the intervals is formed.  `Follows`
  says it of every two observations in the ring and of each with the accumulator; a recording keeps it wherever it
  overwrites, a wrapped ring being a set of observations like any other.  `InterpolationBounds` shows that interpolating
  and rounding down the start of a window costs the bounds nothing.  For the promise, `OldestStays`: a ring that is not full
  keeps its oldest observation.
- **AccountBatch.** `HoldsOwnLock`: a batch for which Redis set the key less than the TTL ago
  is the one the key names, and the key's remaining time and the time since add up to the
  TTL.  Without the sum the expiry of the key and the ageing of the holder could come apart.
  The refinement rests on the same invariant: Redis' SET maps to the grant of a term because
  no other batch can be within its own; time maps to the lease's time; a release, a failure
  and a crash map to its end; every other step, the arrival of the OK among them, leaves the mapped variable alone.
  `StolenOnlyInTwoWays` adds that sequence numbers are used in order, each by a request that has begun and used no
  other, and that of two batches that built on one number the second cannot send its own while the first has the
  number unless one of them had outlived its lock, or the first was pending when the second read (`PendingClash`,
  which inclusion turns into `UsersClash`).
- **Deliveries.** For the receiver, `FiledInThePast` and `PendingIsOlder`: a pending signal of a
  processed transaction was filed before that transaction's first execution, and pending
  signals and executions of a transaction are together no more than its filings.  A webhook's loop accounts for its own receipts.  The event
  stream's cursor is the last record written.  For the pages, what is shown is what one load, or the
  last list asked for, has answered; for the dashboard, a request that ran alone is awaited, and nothing else
  was when it began.  The relayer's `OneDrains` is inductive as it stands, with its types.
- **Server documents.** Each module has requests that hold a copy of a document between two awaits, and each
  invariant says what the copy is worth: no less than the document's own beginning (`ReadsAreEarlier`: the
  signatures read are a prefix of those stored), marked as stale by the history variable (`ReadsAreMarked`,
  `CopiesAreFresh`, `CountsAreFresh`), or of the owner it belongs to (`MintsForOwner`).  `OneOpenPost`: a challenge is open
  in one place at a time.  `ReportIsTrue`: a report is clean only of what was read to its end.  For the backups, `RunHolds`: what a
  run has uploaded is in the store or outlived, and whatever any run is about to delete is outlived; and a clear text on disk is
  of a test that ended in a decryption its password opened.
- **Event index.** `IndexHolds` is not inductive: it speaks of the cursor of a live worker, and a restart takes the cursor from the
  highest ledger stored, also by a rebuild.  `PassedIsKnown` says therefore of every event up to a stored one, or up to the cursor of a
  worker that is up, that it is stored, lost in a known way or on its way; `BatchIsNext` and `RebuildIsNext` that the pages on their way are
  what follows the cursors, up to a ledger they may have cut; `RebuiltIsStored` that the pages a rebuild has passed are stored.  Each rests on
  `ChainInOrder` and on what a page is: the events after a position, the page's size of them or all (`PageIs`, `PageCuts`,
  `LedgerDivides`).

What the attempts to prove showed: `CollectionIsItsOwners` needed a mint that has created its collection
to count as one that may still save it, which the history variable of `Nfts` had left out; and
`ApprovedByQuorum` is false for thresholds above three: two approvals of one
account that overlap both push its signature and both count, so that four entries may be of two accounts only.
The code decodes a threshold of two for every contract (`server/services/multisig-service.js:214-216`), for which the
duplicate cannot matter: the proposer's and one other signature are always there.
`SignaturesAlwaysStand` has the hypothesis `Thresholds \subseteq 1 .. 3` for that reason, and no other theorem has one beyond the
assumptions of the modules.

Those assumptions are the `ASSUME`s of the component modules, and TLC evaluates them in every run.  They say that constants
are sets of distinct things and bounds naturals; that a delay, a time to live, an amount is positive; that
what is summed over is finite (users, requests, providers, assets, items, deployments, tokens of a mint); that
a vault's token order is a sequence; and that the value for "none" (`NoVault`, `NoTx`, `NoConfig`, `None`, `NoPrice`) is not a
record, or not a price.

Only model-checked:

- Liveness (`EveryEventIndexed`, `EverythingEnds`), and the fairness it rests on: the prover has neither
  weak fairness over an enabled action nor `ENABLED`.  Every other property of a passing run has its theorem.
- The four findings: that the code does what its documents exclude is a counterexample, which TLC gives.
- The instances themselves: a run bounds some scenarios further (the swaps of the TWAP scenario are of one size, the pages are
  looked at twice), and a theorem is about a component on its own, without the scenarios next to it.
- What the fixed constants of the code hide: the runs and the proofs both take the limits of the tiers, the retries of a
  webhook and the quorum from the modules.

## 6. What is left out

- Integer width: amounts are i128 with overflow checks enabled in the release profile, and
  an overflow panics, which reverts; the models use unbounded integers.
- Token contracts other than SoroMint's are external: a transfer moves a non-negative
  amount that the payer holds, or the call reverts.
- Authentication (`require_auth`, `authenticate`) is the choice of the calling account in the action.
- Storage rent and expiry of ledger entries; events, logs and statistics.
- In Streaming, the milestone schedules and the global limit: the contract reads their
  keys and has no entry point that writes them.
- In Token, snapshots, verification marks and the nonce of permits.
- In Vault, reentrancy: the modelled tokens do not call back.
- MongoDB, Redis, Stripe, S3, Horizon, the RPC node and mongoose are external: a call takes
  effect or not, and its answer comes or not; a unique index refuses the second of two; a save sends
  the changed fields; a transaction is atomic.  A parallel `find` sees some moment of the collection.
- What the multisig and vault services hand to the RPC node is an operation and not a
  transaction, which the SDK would refuse: the models let the node answer or fail.
- In AmmPool, the minimum and maximum the caller sets: they refuse a call and change nothing else.  In
  LendingPool, the reentrancy flag, which no modelled coin calls back to meet; a pool other than the AMM
  pool only pays, what was approved to it counts as gone.
- Layout, wording, animation and the fields of forms that no step depends on.

Not modelled, because the code cannot run: the delegation, sponsorship, notification, stream and
reconciliation services, the mint queue (each with its reason in `PROJECT.json`).  Not modelled, because
there is nothing to interleave: the fee computation, the key vault, search and analytics, hash and
text validation in contracts.  Not modelled yet: the contracts of the plan below, the AMM factory and the push oracle among them, and
`dividend`, whose claim takes the holder's balance as an argument (`contracts/dividend/src/lib.rs:195`).

## 7. Plan

1. *Done*: streaming, governance (timelock, multisig, upgradeable, factory), bridge
   receiver and relayer, vault, token, the multisig mirror, the indexer, account
   batches, the AMM pool with its TWAP, the lending pool; theorems of all of these; the refinement of the lease with its proof, and of the timelock by the composition; the documents of the server
   (accounts, keys, billing, registry, scans, backups, webhooks, collections, proposals, vault mirror), the event
   stream, the client's pages.
2. *Proofs*: the refinements of the abstract specifications below, once they are stated.
3. *Next contracts*: `dividend` (claims against deposits when balances move), `otc_escrow` (accept, cancel and expiry
   exclude each other), `vesting`, `wrapper`, `backstop`, `quorum_credit`,
   `compliance`, `amm_factory`.
4. *Composition*: the contracts that move one token over one shared ledger of balances; the
   bridge receiver with the relayer in front of it.
5. *Abstract specifications*: an escrow (deposits in, at most the same out) that
   streaming, otc_escrow and vesting implement; an at-least-once channel for relayer, indexer and
   webhooks; exactly-once execution for the bridge receiver restricted to one filing per transaction.
