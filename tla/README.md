# ProbX: specifications, model checking and proofs

ProbX is a prediction-market desk for short YES/NO rounds.  Traders buy
*micro-boost* tickets; liquidity providers (LPs) underwrite them from one vault;
an API service opens, resolves and settles rounds and keeps the evidence for
every verdict.  This directory holds TLA+ models of that system, TLC runs that
check them on small instances, and TLAPS proofs of what matters most.

## 1. The system

| Part | Source | State | Operations |
|---|---|---|---|
| Market | `contracts/src/MicroMarket.sol`, `MicroMarketFactory.sol`, `OracleAdapter.sol` | status, schedule, winning outcome, fair mid, drift band, depth, quotes, traded risk | create, open, lock, resolve, cancel, archive, applyTradeImpact |
| Engine | `MicroBoostEngine.sol`, `PositionTicket.sol`, `QuoteMath.sol`, `RiskLimits.sol` | exposure per market (six counters), reserve used per user, tickets, paused | quoteTicket, buyTicket, settleTicket, settleBatch, maxAvailableBoost |
| LP vault | `LiquidityPool.sol` | shares, internal ledger, reserved assets, locked stakes | deposit, withdraw, and the engine's and router's calls |
| Fees | `FeeRouter.sol`, `InsuranceFund.sol` | the split, balances | routeFee, setFeeSplit, withdraw |
| Store | `apps/api/src/services/persistentStore.ts` | key-value maps, leases, quota counters | get/set, acquire/renew/release lock, set-if-absent, quota scripts |
| Market cycle | `marketCycleWorker.ts`, `backgroundWorkers.ts`, `autoResolveWorker.ts`, `marketCreateLock.ts` | `running` flag, lease `market-cycle`, creation leases, settle cursors, hidden rounds | resolve what is over, settle, cancel stranded rounds, create the next (under one lease with the product tour), hide |
| Chain access | `onchainService.ts` | market-list cache, in-flight loads | list, resolve, cancel, settle in chunks, create and open |
| Evidence | `observationSnapshots.ts`, `rawTicks.ts`, `oracleSnapshotWorker.ts` | a snapshot per market, tick buffers | sample, apply boundary, freeze |
| Portfolio, live feed | `onchainService.ts`, `rawTicks.ts` | ticket maps with a scan cursor, caches of readings, histories | scan, refresh; read, record, serve |
| Demo funding | `cctpDemoFundService.ts` | operation records, nonces, quota, leases, treasury nonce and allowance | one burn per idempotency key, retry, recovery |
| Login | `emailOtpService.ts`, `signedSession.ts`, `sessionWalletService.ts`, `circleWalletService.ts` | counters, consumed tokens, the map from emails to wallets, revoked sessions | request, verify, issue, revoke, transfer |
| Trackers | `txTrackerService.ts`, `ticketOpenings.ts` | transaction and opening records | record, reconcile, upsert |
| Demo desk | `db/`, `marketScheduler.ts`, `riskEngine.ts`, `routes/` | in-memory markets and tickets | quote, buy, settle, reset |
| Web wallet | `apps/web/src/lib/wallet.tsx` | session and flag in local storage, address, balance | restore, sign in and out, connect |
| Pages that move money | `FundUsdcPanel.tsx`, `LpShell.tsx`, `MarketDetailShell.tsx`, `lib/appKit.ts` | deposits to be spent and positions in local storage, form state | bridge, deposit, buy |
| Page of a round | `MarketDetailShell.tsx`, `MarketLiveChart.tsx`, `onchainService.ts` | the market and the evidence last answered | poll, show the verdict |
| HTTP, views | `dispatch.ts`, `routes/`, other pages | none of their own, but a cached public list | routing, presentation |

How they meet: a trader's wallet calls the engine, which in one transaction
reads the market's quote, reserves in the vault, moves tokens, has the router
split the fee, mints the ticket, adds exposure and moves the market's book.
The API service holds the owner and oracle keys; its workers create and open a
round, collect ticks, resolve after the observation window, freeze the evidence
and settle the round's tickets.  Workers of one process share memory; processes
share the store.  Browsers call the API, sign with a wallet of their own or with a
custodial one that a session stands for, and keep in local storage what a reload
must not lose.

What is hard here: one vault underwrites all markets, so a slip in any of a
dozen counters surfaces only after other tickets have settled; anyone may settle,
in any order, while LPs come and go; owner and oracle act on the same markets;
all arithmetic truncates; and in the service every lock is a lease, every read
is followed by an await, and chain and store fail independently.  PROJECT.json
lists each hazard at its line.

What makes the parts correct:

* book: never below the seed's fair value, never a negative margin, never
  cheaper by being bought;
* engine and vault: escrow equals what open tickets need, settlement cannot
  fail, LPs lose only what was reserved and are never diluted, one verdict per
  market;
* service, modelled: evidence that proves the verdict and is not lost to another
  writer, no open ticket passed over when a market is settled in chunks, no two
  rounds of a role taking bets at once, every round resolved and settled in the
  end, and always a next one;
* money: no burn without a record or outside the caps, no second burn for a signature,
  a key or a click (but see section 6), no transfer sent twice, nothing bridged that is
  known to be deposited (lost answers excepted);
* login: a code logs in once, guesses are bounded, an email keeps one wallet, a
  revoked session sends nothing;
* what is shown: no ticket passed over, no result that flips, no final status taken
  back, the balance of the address, a history that goes forward in time.

## 2. The modules

| Module | Models |
|---|---|
| `Scales` | the two fixed-point scales, as constants |
| `QuoteMath` | payout, boost limit, fee and share arithmetic, with Solidity's truncating division |
| `MicroMarket` | one market as a record: each method is a guard (its `require`s) and a function to the record afterwards |
| `LiquidityPool` | the vault as a record, in the same style |
| `Totals` | sums over finite sets, without recursion so that they can be proved about |
| `MicroMarketBook` | the state machine of the price book alone: construct, open, trade |
| `MicroBoostEngine` | the protocol: one action per transaction, all contracts composed |
| `TicketPromise` | abstract specification: what holders and LPs are promised |
| `KeepsPromises` | the refinement mapping from `MicroBoostEngine` to `TicketPromise` |
| `ObservationSnapshot` | the evidence of one market: samplers and resolvers over the store, the chain and the feed |
| `SettleCursor` | settling the tickets of one final market in chunks, with the persisted cursor |
| `MarketCycle` | the loop that keeps a role supplied with rounds: the cycle, the product tour, their leases and the lists they see the chain through |
| `RawTicks` | storing, pruning and choosing the weather prints a round is decided from, minute by minute |
| `LiveFeed` | the weather feed of one process: caches, last good reading, history, shared answers, oracle ticks |
| `MarketBoard` | which rounds a process knows: list, hidden and pinned rounds, their file, reset and restart |
| `Portfolio` | finding and refreshing one buyer's tickets by requests that share a map |
| `TicketOpening` | binding the reference price a ticket was bought at |
| `TxTracker` | the tracked record of one transaction |
| `DemoFund` | demo funding: calls of several workers burn from one treasury |
| `EmailLogin` | codes, the wallet behind an email, sessions, transfers |
| `DemoDesk` | markets and tickets of the demo database |
| `WalletSession` | the wallet of the web application |
| `RoundPage` | a round's end as its page shows it: resolver, evidence endpoint, polls, badge |
| `ServerWallet` | the wallets the API keeps: keys in its file, Circle, App Kit transfers |
| `FundFlow`, `VaultForm`, `TicketForm` | the funding panel, the deposit page and the purchase form |
| `MCMicroMarketBook`, `MCMicroBoostEngine`, `MCObservationSnapshot`, `MCSettleCursor`, `MCMarketCycle`, `MCDemoFund` | instances for TLC |
| `MCRequests`, `MCViews`, `MCFunding` | instances of several machines in one run |
| `TotalsProofs` | lemmas on division and on sums |
| `MicroMarketBookProofs`, `MicroBoostEngineProofs`, `ObservationSnapshotProofs`, `SettleCursorProofs`, `FundingProofs`, `RequestsProofs`, `ViewsProofs` | theorems |

Transactions are atomic, so an action is a whole transaction: the guard is the
conjunction of every `require` on its path *and* of every checked subtraction
(Solidity 0.8 reverts on underflow), and the next state composes the record
functions in the order the contract calls them.  `BuyTicket` is `buyTicket` with
`quoteTicket`, `reserveForTicket`, `lockUserRisk`, `routeFee`, `creditFee`,
`mint`, `_addExposure` and `applyTradeImpact`; settlement is split by its three
ends (`RefundTicket`, `PayTicket`, `ForfeitTicket`) over a common `CloseTicket`.
`settleBatch` is a run of settlements, each skipped when it would revert, so it
reaches nothing that single settlements do not.  Guards that say who may call
are absorbed in who is given the action: owner and oracle act at any moment and
in any order, so authorisation is not a property here.

In `ObservationSnapshot` the unit is smaller.  A worker is one asynchronous run
of `captureObservationSnapshots` or `resolveReferenceMarketOnchain` in any
process: the sampling timer, the resolve timer, the cycle, or an administrator's
request, which may come at any time.  A step of it is everything between two
awaits around one call to the store, the feed or the chain, so between reading a
record and writing it back anything may happen.  `pc` names its next call;
`phase` says whether it is sampling, sampling on behalf of a resolution
(`gathering`), or resolving (`deciding`).  `recordObservationSample` and
`applyBoundaryFromRawTicks` are the same update of two optional prints
(`Merged`).  Locks are leases: set if absent, deleted by their holder only, or
run out.  The mempool holds the resolver key's transactions in nonce order; a
receipt may be lost while its transaction is still mined (`Abandoned`).  `Throw`
is any failing call, after which the `finally` blocks release the locks; `Crash`
ends all workers of a process and leaves their leases behind.  The cached market
list appears as `listed`: sampling stops once it shows a final market.

In `SettleCursor` a worker is a pass of one process's cycle over a final market
(`settleAllTicketsChunked`), or a call of `settleMarketTicketsOnchain` by the
auto-resolver or an administrator, which starts at the first ticket and keeps no
place.  The fields of `run` are the code's variables: `at` is `i`, `sent` is
`processed`, `failedAt` is `firstFailedIndex`, `from` the cursor of the chunk,
`saves` what is about to be written.  Passes of several processes overlap, as the
cycle's lease is not renewed; within a process the `running` flag keeps them
apart.  `LoseReceipt` is a receipt that does not come in time while its
transaction stays in the mempool.  `Replace` is what viem returns when another
transaction of the same key took the nonce: the receipt of that one; the
history variable `replaced` records the tickets this happened to.  `Abort` is
any other failing call, or a crash: either way nothing of the walk is kept.  The
engine is reduced to the set of open tickets; that none of them can refuse to be
settled is `SettlementNeverReverts` of `MicroBoostEngine`.  Tickets are numbered
by purchase, as the logs of a final market do not change; the status check at
the start of a chunk is left out, a final market staying final
(`VerdictsStand`).

In `MarketCycle` a worker is the cycle of a process (`runMarketCycleOnce`) or its
product tour (`ensureTourBtcMarket`).  What a process knows of the chain is
`cache`, the market list of `onchainService.ts`: fresh, stale or cold, renewed as
a whole by a `load` that read the chain when it began, and patched one entry at a
time after the process's own writes and by-id lookups (`Remembered`).  `desk` is the
copy of the public list the routes keep for ten seconds, `hidden` the rounds kept
off it.  The cycle takes three lists: one to resolve and settle, one to cancel
what was never opened and to decide whether a round is missing, one to hide what
is finished.  `now` is the clock it read once, at its start.  Who wants to create
takes the lease `market-create` and looks again, the cycle at the list and the
tour at the desk.  An `age` says where a round is between its times; "over" means
that `resolveReferenceMarketOnchain` no longer defers, which `round_ends` shows of
every round.  `Pay` and `Settle` settle all tickets of a round unless something
fails, which `settlement` shows of the passes.  Creating is two transactions, with
a lost receipt or a crash after either.  `Incident` counts what goes wrong or
interferes: failed calls, lost receipts, restarts, lapsed leases, an administrator
who resolves or hides a round.  `calm` is a history variable: no incident so far,
and no list in use lagged behind the chain when a decision rested on it.

`MarketBoard` takes up what `MarketCycle` leaves out: the operator's hidden and
pinned rounds, kept in memory and in a file, the limit of the list, and the reset
that deploys new rounds and pins them.  There a round is only open, ended or
resolved, and what the cycle does with a listed one is a single `Resolve`.  `left`
collects the rounds that a pin, a reset or the limit takes off the list while the
state in memory or in the file says so.

`DemoFund` follows `demoFundViaCctp` call by call: `pc` names a call's next request
to the store or the chain, `op` is its local copy of the record, `rec` the stored
one.  A call is made in a session or signed by the wallet it funds (`SignedKeys`); the
signature (EIP-191) carries a one-time nonce, which `Create` consumes by set-if-absent.
`claimNonce` belongs to the call: nothing binds it to the idempotency key, so a retry of
a key may be signed anew and one signature be sent with two keys.  Reserving and giving back quota are two store calls, the
counters and then the row (`reserveQuota`, `releaseStaleReservation`).  The treasury's transactions take
their place in `chain` by nonce; `Resend` is what a retry does with the signed burn
it finds.  `Raise` is any failing call, `Crash` the death of a process, `Expire` the
end of a lease nobody renews, and `Lapse` that of one whose holder is only slow
(`NoticeLapse` is the renewal that finds out).  `disturbed`, `halfReleased` and
`lapsed` are history variables: a call wrote over a record with a hash, a release
stopped between its two halves, a lease lapsed.

`EmailLogin` has one email.  A call either presents a code, as a signed token or to
the instance's file, and goes on to its wallet (`ReadMap`, `ListWallets`,
`CreateWallet`, `SaveMap`), or uses an earlier session to log out or to send money.
`guesses` is the attempt counter, `compared` what was really compared.  `blind` is set
when a lookup at the custodian fails or two first logins run at once.

`TxTracker` has the two recorders, server and browser, and pollers; each reads the
record, asks the chain and writes it back.  `Portfolio` numbers tickets by block; the
map of a cache entry is shared by the requests that started from it.
`TicketOpening` counts time from the purchase.  The worker stores ticks near the
boundaries of rounds only, so a ticket bought in the middle of one may have none within
`Reach` (five minutes in the source): `prints` are the ticks there happen to be, and for
want of one the route takes the live price and marks it as approximate.  `LiveFeed` and
`RawTicks` count time too: the latter in minutes, with the retention, grace and intervals
of the source.  In `LiveFeed` a provider's reading is up to `Lag` old when it comes, since
providers print on grids of their own; visitors with and without histories (`Full`,
`Lite`) share a load each; and only the worker's `Capture` makes ticks, from the reading
in the short cache or a new one.
`DemoDesk` has only synchronous requests, but identifiers that repeat: a new
market's number is the length of the list, which shrinks when markets are hidden.

`FundFlow` is the bridge of the funding panel (`runFund`) with its fallback.  App Kit
comes as far as `did`, and `told` of it reaches the panel: nothing when the call threw.
`lost` says how its burn was lost sight of, if it was.  The panel's demo funding
(`runDemoFund`, `FundUsdcPanel.tsx:296-442`) is left out with its memo in local storage:
nothing calls it, as the panel has no button for it, so `DemoFund` takes its calls as
requests of any client.  `VaultForm` keeps where the user's USDC is: in the Unified
Balance, on its way, on Arc, in the vault.  A call of App Kit that throws may have moved
the money all the same (`DepositThrows`, `SendsUnheard`), which the page cannot tell from
a failure; `unheard` keeps what moved so.  `Income` is any other USDC that comes to the
user, of which the wait for the arrival, a comparison of balances, knows nothing.
`TicketForm` keeps the quote, the
allowance and the purchase between click and block.  `WalletSession` keeps the
restorations under way with their `cancelled` flag, and a sign-in or connection under way
(`busy`).  Nothing keeps the user from disconnecting meanwhile, and disconnecting cancels
nothing: the answer that comes later signs in.

`RoundPage` follows a verdict from the contract to the badge.  `contract` is the chain,
`record` what the stored prints say, `listed` the API's cached entry; `poll` names what
each of the page's two requests waits for and `saw` what it has read of the contract.
Status and winner are two calls, so a read may see one before and the other after the
resolution (`ReadBack`), and a list entry that has come to say RESOLVED is never read
again, with a winner or without; only a load that began before may replace it, which
counts as a fault.  `Overtaken` is a poll whose answer is older than the
one shown.  The evidence itself is `ObservationSnapshot`'s; here the resolver is reduced
to deciding, resolving, and freezing what it decided from, with an administrator who may
resolve otherwise or cancel.

`ServerWallet` has the provider that `EmailLogin` leaves out.  `file` holds the key of each
email, with whether this instance can decrypt it and whether it has the hash of an
opaque token from before sessions were signed.  A login is one synchronous step from
reading the file to writing it, so it is one action; a request awaits the revocation
list, Circle, App Kit and the node, in this order.  `ConfigureCircle`, `RotateKey` and
`LoseDisk` are what operators and hosts do; they end the requests under way.  `from`,
`sent` and `lost` are history variables: which wallets signed for a request, how often it
was sent, and how many of these answers were lost.

`CycleNext` is the cycle by itself, for the runs with neither tours nor errors of the
store.  Left out of the cycle: the second role (the same code with another lease, run
after the first), statistics, and the throttle of the HTTP trigger.

Left out of the evidence: provenance fields, the file store of local
development (production requires the durable store), other markets sampled in
the same run, and the GET/DEL fallback of `releaseLock`.

Left out of the contracts: wiring setters (deployment calls them once; the
engine's registry can be set only once), events, allowances and minting of the
demo token, counters nothing reads, and two functions nothing calls
(`LiquidityPool.releaseReserve`, `InsuranceFund.coverShortfall`).  uint256 does
not overflow at the limits of `RiskLimits` and of a token supply, so integers
are unbounded; underflow is modelled.

A few definitions named *Mutant of ...* stand next to the definition they
distort.  They are plausible slips, used to show that each checked property can
fail; nothing else refers to them.

## 3. The runs

| Run | Module, cfg | Instance | Shows |
|---|---|---|---|
| `book` | `MCMicroMarketBook`, `MicroMarketBook.cfg` | deployed constants; seeds at both rails, next to them, where a rail cuts the band, where the quote is clipped, and in the middle; empty, floor-depth and deep pools; stakes of 12.50 and 100 USDC up to 400 USDC traded | the band, `NeverBelowSeedFair`, `BuyingNeverLowersItsPrice` |
| `protocol` | `MCMicroBoostEngine`, `MicroBoostEngine.cfg` | 2 markets, 2 LPs, 2 traders, 2 tickets, each pair symmetric; 1 stake, boost, seed and fee split; donations, pausing, time 0..2 | `BooksReconcile`, `EveryTicketIsPayable`, `VerdictsAreFinal`, `SharesAreNeverDiluted`, and the refinement of `TicketPromise` |
| `evidence` | `MCObservationSnapshot`, `ObservationSnapshot.cfg` | BTC (a direct sample after the ticks), 2 workers, 4 prints, one of them near both boundaries, whose choice decides the trend, one fault at any step | `EvidenceIsSound`, `SamplingOnlyImproves` |
| `round_ends` | `RoundEnds.cfg` | 2 workers, one print per boundary, one fault, fairness | `EveryRoundEnds` |
| `settlement` | `MCSettleCursor`, `Settlement.cfg` | 2 cycles, 1 administrator, 2 tickets, chunks of 1, 2 chunks a pass, two faults, fairness | `NoTicketIsForgotten`, `SettlementCompletes` |
| `market_cycle` | `MCMarketCycle`, `MarketCycle.cfg` | 1 process, 2 rounds, one incident at any step, fairness | `EveryRoundSettles`, `RoundsKeepComing` |
| `requests` | `MCRequests`, `Requests.cfg` | seven machines, see below | no overlap of requests logs in twice, signs for another, sends twice, misses a ticket, disorders the history, changes a price or makes two rounds |
| `views` | `MCViews`, `Views.cfg` | five machines, fairness | no stale answer undoes a later decision; every view comes to agree with the chain |
| `funding` | `MCFunding`, `Funding.cfg` | five machines, fairness for one | no burn unrecorded or uncounted, none doubled but after a lost answer; pages say what is true; the demo desk keeps its caps; every lease comes free |
| `cycle_stalls`, `double_burn`, `second_burn` | the cfgs of these names | | violations, see section 6 |

The machines of `requests`, `views` and `funding` share no state.  A run explores
each by itself: `part` says which, and the variables of the others keep their initial
values.  A property of such a run joins what is required of its machines, each under
its part, or is one machine's; the names of the parts' own properties are in the
modules and are what a counterexample names.

Bounds.  The properties relate pairs: two tickets on the same or opposite sides,
of the same or different users, on the same or different markets, with two LPs
around them.  Two tickets reach every such pair, including one settled and one
open, which is where a wrong counter shows.  BPS and PRICE_SCALE are 100 in the
protocol run, so a stake of 5 has fees, reserves and shares that truncate
in every direction, and caps, payout limits and available liquidity all reject
some purchases: a YES ticket needs a reserve of 6, which the 11 of one LP covers and
its cap of 8 allows once per market and user, a NO ticket one of 13, which only
both LPs cover.  With one seed and
one split the second of anything adds no new relation; `book` varies the seeds,
and the theorems all of them.  Time 0..2 separates before lock, between lock and end of
observation, and after it.  In `book` money is counted in units of 0.25 USDC,
which cancels in the impact formula, and 10800/10000 and 700/10000 are written
108/100 and 7/100, which truncate identically, to stay within TLC's 32-bit
integers.  MAX_IMPACT cannot be reached with the deployed limits: the largest
stake, 100 USDC, against the depth floor of 5000 USDC moves the mid by 1% at
most.  MaxTickets, MaxTime and MaxTraded are the only bounds in guards.

In the evidence runs the hazards are pairs of workers: two samplers, sampler and
freeze, two resolvers; two workers in any roles reach them all.  Two prints
near each boundary make a change of evidence a change of verdict.  A window of
two or three ticks separates before the end, the end, a later admissible print,
and past the grace; leads are 0, which only removes idle starts.  MaxTime ends
after the grace, so that cancelling happens.  MaxTime and MaxFaults are the bounds in guards.

In `settlement` two tickets and chunks of one make a full chunk, a rest, and a
cursor strictly inside the list; two chunks end a pass by its limit or by the end
of the list.  Two cycles and an administrator send settlements of the same
ticket, one of which reverts.  Chunks that send more than one settlement, and fail
at several tickets, are left to the theorems.  MaxFaults is the only bound in a
guard.  Workers are never stopped, so deadlock is checked.

In `market_cycle` and `cycle_stalls` there is one process, as `docs/DEPLOYMENT.md:103`
prescribes ("Keep one Railway replica").  Two rounds are what "double" and "next"
need: the first is over, lost or hidden while the second is created.  `RoundsLeft`, the
bound on the rounds, keeps the cycle from creating as an active round would;
MaxIncidents bounds the incidents.  In `requests` the process has its tour too, and no
incident but errors of the store, as `OneRoundAtATime` speaks of calm runs only.

The bounds of the machines in `requests`, `views` and `funding`:

* `DemoFund`: three calls, two at a time, so that a retry follows two calls that overlap:
  all in one session with one key, or all signed, where one may have another key and one
  another nonce, but each has the key or the nonce of the first: a request sent again, a
  new click with its key, a signature that comes with another key; a cap of two, so that reservations left behind refuse a call; one
  fault of any kind.
* `EmailLogin`: two codes, two calls, one guess a window, two requests a window, one
  end of a window, two strategies, two faults: a wrong and a right guess, two calls with
  one code, and a lost map after a lost answer.
* `Portfolio`: two tickets and two requests where nothing fails (`requests`), one
  ticket with a failed read or restart (`views`); a first scan looks back one block, so
  a ticket can be too old.
* `LiveFeed`: two visitors who want the histories (one waits for the other), one who does
  not, and a worker; readings up to 1 old, served for 1, replaced for 3; time 0..2, which
  outlives the short cache, one restart.
* `TicketOpening`: a listing and two routes, so a route can race its own kind and the
  listing; ticks up to 1 before and after the purchase, any set of them, kept for 2; time
  0..3, so that they come late, never, and expire.
* `RawTicks`: the source's proportions (interval 15, slack 5, stale 20), every start on
  one interval and every minute until the grace is over, corrections included.
* `DemoDesk`: one owner, two markets, two tickets, caps that two tickets may or may not
  fit; the seeds of identifiers are the code's.
* `MarketBoard`: two rounds and a list of one; one restart or failed load.
* `TxTracker`: server, browser, two pollers, two periods of grace, one receipt that
  cannot be read.
* `WalletSession`: two sessions and a browser account, three acts: sign in, disconnect,
  sign in or connect.
* `RoundPage`: one fault: a failed call, a reload or an overtaken answer.
* `ServerWallet`: two emails, one with an opaque token; one request, by any token for
  either email; two keys, one logout, one fault: an answer lost, a key rotated, a disk lost.
* `FundFlow` is finite without bounds: a click has at most two burns.  `VaultForm`:
  amounts 1 and 2, two moves, which is a deposit with a lost answer and its bridge, one
  unit of the user's own on Arc, which must not be taken for an arrival, and other income
  of one unit, if nothing came before.  `TicketForm`: two boosts, two
  prices, one purchase.

Each constant named Max..., and Last, Codes and Cap of `DemoFund`, `EmailLogin` and
`ServerWallet`, bounds guards; nothing else does.

That a lease outlives its holder's work (LeasesMayLapse = FALSE) is assumed by
`SamplingOnlyImproves`: a sampler stopped for more than 8 seconds between its
read and its write can still undo another's update.  `EvidenceIsSound` does
not need it: its theorem covers LeasesMayLapse = TRUE, where instances are too
large for a run.

Deadlock is checked in the evidence, protocol, settlement and cycle runs: the owner, or
a timer, can always act.  The book stops when MaxTraded is reached, and the machines of
`requests`, `views` and `funding` stop when their users have done all the bounds allow,
so there it is not; that calls and leases come to an end is `EveryLeaseComesFree`.

Fairness.  None is assumed and no liveness is claimed of the contracts: nothing
on chain acts by itself.  `EveryTicketIsPayable` is the safety half: once a
market is final, settling any open ticket is enabled.  Liveness belongs to the
workers that call it: `SettleCursor` and `MarketCycle`.

`settlement` assumes weak fairness of each cycle's timer, of each pass's own
steps, and of mining for somebody who waits; neither the administrator's calls
nor the transactions nobody waits for are assumed to happen.  A pass that outlived
its lease may overwrite the marker with its cursor; the run shows that this ends,
because a pass over settled tickets never fills a chunk.

`round_ends` assumes weak fairness of each worker's own steps (its awaits return
or throw), of the clock, of mining, of the refresh of the market list (its cache
expires), of the expiry of leases nobody uses (their TTL), and that some worker
starts resolving again and again: `backgroundWorkers.ts` and
`autoResolveWorker.ts` run on intervals and list undecided markets past their
observation end.  Sampling is not assumed fair, nor the feed to answer.

`market_cycle` assumes strong fairness of each worker's steps, because a list it
waits for may become stale again before it is read, though who waits for it is
given it; and weak fairness of the refresh of lists and desk, of the expiry of
leases whose holder died, and of time.  A timer starts a cycle every 10 to 30 seconds
(`backgroundWorkers.ts:70`).  Tours, lookups, incidents and interventions are not
assumed to happen.

`funding` assumes of `DemoFund` that something goes on (weak fairness of `Progress`: a
call's next step, expiry of a lease nobody renews, or a block); that every call ends is
the claim.  The browser's machines are checked for safety only.

`views` assumes, each while its machine runs: of `MarketBoard` that rounds end, loads are
started and return (the list's cache expires), a deployed round is exposed, and strong
fairness of resolving a round, since a cycle resolves from the list it has just read but a
round may leave and rejoin the list between two cycles; of `TxTracker` that time passes
and the background worker goes on asking; of `Portfolio` that it is asked for again and
the market list refreshed; of `WalletSession` that the page renders, answers arrive and
the interval fires; of `RoundPage` that its two polls go on while it is open, each of their
requests being answered or failing.  Users do nothing of necessity, and no read is assumed to succeed
the first time.

## 4. The abstract specification

`TicketPromise` knows verdicts, promises, redeemed tickets, wallets and free
liquidity, no reserves or exposures.  A promise is issued only while the market
is undecided and its reserve comes out of free liquidity; a verdict is given
once; a promise is redeemed once, for what the verdict makes it worth; what was
set aside and not paid becomes free again; nothing else moves a wallet except
its holder.  `KeepsPromises` reads these off the concrete state; TLC checks that
every transaction is a step of the promise or leaves it alone.

## 5. Proofs

`MicroMarketBookProofs` proves, for every scale, rails, overround, drift limit,
depth, seed and stake that satisfy the assumptions, the type invariant, the two
price bounds and the monotonicity of quotes.  The assumptions on constants are
those of the contract's comment: (BPS - drift) * overround >= BPS^2
(`BandWithinMargin`), which the deployed 700 and 10800 satisfy.  The properties
are not inductive alone; `BookInv` adds that the band is the one derived from
the seed and that both quotes are `Quoted` of the mid.  The argument: clamping
keeps the mid in the band (`ClampInBand`); a value lowered by the whole drift
and raised by the overround is at least itself, through two truncations
(`OverroundCoversDrift`); the quote is monotone (`QuotedMonotone`); so both
quotes are at least those at the band's ends, which cover the seed
(`BandAroundSeed`).

`MicroBoostEngineProofs` proves, for all finite sets of LPs, traders and markets,
all stakes, boosts, seeds, deposits, fee splits and clock bounds, all that the
`protocol` run checks, the refinement included.  Assumed are the scales (positive), the
price book's constants, distinct contract addresses, finite user sets, and that
a fee split adds up to BPS, as `setFeeSplit` requires.  Of
the limits of `RiskLimits` only the positive minimum stake is used.

None of the properties is inductive alone.  `EngineInv` joins `TypeOK` (where
"natural number" is the claim that no checked subtraction underflows),
`EscrowReconciles`, `ExposureReconciles` and `EscrowFunded` with three facts
they rest on: a ticket pays its stake and its reserve (`TicketsAddUp`, needed so
that a settlement takes from escrow what it pays out), the shares of LPs add up
(`SharesAddUp`, so that a withdrawal cannot burn more than exist), and every
market has depth (`BooksHaveDepth`, so that the impact division is defined).
`EngineInvariant` proves it with one lemma per action (`DepositStep`,
`WithdrawStep`, `BuyStep`, `SettleStep`, `OwnerStep`, `MarketStep`, `QuietStep`).
Sums over tickets are `Total`, the cardinality of a set of coins, so what a
purchase or a settlement does to a sum (`TotalGrows`, `TotalShrinks` in
`TotalsProofs`) follows from the library's facts on finite sets without
induction; `MintSums`, `CloseSums`, `MintSets` and `CloseSets` lift that to
the sums over all, a market's, a side's and a user's open tickets.

From `EngineInv`, `SettlementAlwaysPossible` follows in one step: a ticket's
amounts are a term of each sum, so every subtraction fits.  That shares are not
diluted is proved of the two actions that mint and burn (`SharesFit` bounds the
truncating division).  `OneVerdictPerMarket` needs `VerdictsStand`: a market's
verdict, once given, is not taken back, and each closed ticket was closed under
it.  `ArchivedMarketsAreSettled` uses `ExposureReconciles` and that stakes are
positive.  `LpEquityReconciles` is proved as the constancy of a sum (`LpWorth`):
each action moves two of its terms against each other, a deposit the ledger and
the purses of LPs, a purchase the ledger and the fees earned, a settlement the
ledger and the reserves of winners or the losses received.  It needs `VerdictsStand`,
since a change of verdict would turn winners into losers after they were paid.
`BooksReconcile` (escrow, exposure, router, LP equity), `EveryTicketIsPayable` (escrow
funded, no revert) and `VerdictsAreFinal` (one verdict, no ticket behind an archive) are
conjunctions; each conjunct has its theorem and the conjunction follows
(`BooksAlwaysReconcile`, `TicketsArePayable`, `VerdictsStayFinal`).
`AdvertisedBoostFits` bounds the truncating division by which the engine finds
the boost: the reserve of the boost it answers fits the free liquidity, whenever that of
the plain bet does.  It says nothing of the exposure caps, which `maxAvailableBoost` does
not look at.  `ProtocolKeepsPromises` is the refinement of `TicketPromise`: the initial
states map to initial states, and every transaction, under `EngineInv`, to a step of
the abstract ticket or to none; `TicketsAddUp` makes the payout of a settlement the
one promised, and `VerdictsStand` makes its verdict the market's.

`ObservationSnapshotProofs` proves, for any set of workers, any finite feed, any
boundaries with the end after the start, any leads, distances and retention, and
any number of faults, the four properties of the evidence runs: types,
`FrozenProvesVerdict` and `StoredPrintsAreAdmissible` without a condition, and
`SamplingOnlyImproves` provided no lease lapses under its holder
(`LeasesMayLapse = FALSE`); with lapses it is false, which is what the leases
are for.  `FrozenProvesVerdict` speaks of the record and the chain only, so
`EvidenceInv` follows the evidence from one to the other.  Every copy and
update near a boundary (`OnlyGoodPrints`), so that what is written back is
admissible whoever read it and when; a writer's copy is not frozen and it has an
update to apply (`UpdatesPending`); past its judgement a resolver's evidence
decides its outcome (`DecidedFromEvidence`); a transaction still waited for
carries that outcome and its sender has no other (`SendersWait`); and whoever
freezes has seen his outcome final (`FreezerAgrees`), which the chain never takes
back (`VerdictStands`).  No lock occurs in it: that is why the argument survives
lapsing leases.  For the samplers, `SnapHeld` adds that only the holder of the
snapshot lease is among reading and writing, and that what it read is still
stored unless frozen meanwhile.  `NearestExists`, that a nonempty finite set
of prints has a nearest one, is the one fact on the choice of boundaries, and
rests on the library's theorem that strict inclusion of finite sets is well
founded.

`SettleCursorProofs` proves, for any number of tickets, processes, callers,
faults and any chunk sizes, the safety properties of `settlement`: `NothingIsForgotten`
joins `MarkerIsTrue` and `CursorSkipsNothing`, as `EvidenceAlwaysSound` joins the two
of the evidence.
`WalkInv` adds to the types that a transaction somebody waits for is the one for
his current ticket, and that the indices of a pass are ordered.
`MarkerIsTrue` needs `DoneInv`: a pass about to write the marker has seen the
engine without open tickets, and tickets are never reopened (`WritesAreSeen`).
It does not look at cursors or receipts, which is why replaced receipts do not
matter to it.  `CursorSkipsNothing` does: `PassedInv` says that nothing open,
unless replaced, lies before the place where a pass would resume nor before the
one it is about to write, so overlapping passes may overwrite each other's cursor
in any order (`OwnStepKeepsPlaces`, `PassingKeepsPlaces`).

`FundingProofs` proves, for any number of calls, keys, requests, faults, amounts,
purchases and tickets, the invariants of the five machines of `funding` and the
action property of the desk.  The instance's bounds are constants of `MCFunding`, so
the theorems speak of all of them; `StepsOfOne` says that a step of the five side by
side is a step of one.

`FundInv`, of the demo funding, has seven parts.  `FundShape` holds come what may:
types, which calls a copy, a record and a reservation may name, and that a burn that is
named was reserved.  `NoncesFit` says that a nonce lets one call in, in all, which is why
a signature has one burn whatever lapses and with whatever key it comes; a key has no such
protection.  The others hold until a
lease lapses, and the proof needs them in a circle: `LeasesHeld` (whoever is inside a
section has its lease) keeps two calls of one key from preparing at once;
`BurnsOnRecord` (the record of an undisturbed key knows its live burn, and whoever
prepares another found none) follows from it, and needs that nobody writes over a
record whose lease he lacks, which is what `disturbed` excludes (section 6, "two burns
for one key"); `NoncesHeld` follows from the treasury's lease, since the nonce a holder
read is still the next one; `ReservesHeld` (nobody gives back the reservation of a
known burn) gives `QuotaKept`, that the counter covers `Counted`, a set of
reservations: what an action does to the quota is what it does to the cardinality of
that set.  `InvIsSafe` derives the five promises of `BurnsAreSafe`.

The panel: whoever comes to the fallback after App Kit had burned has lost sight of that
burn (`FallbackFollowsLoss`), and the build is not strict.  The vault's page: an account
of what moved since the click and of the answers lost (`MovesCounted`: whoever is about to
bridge has moved nothing that was answered), of the Unified Balance (`MoneyFound`,
`Remembered`, both up to what moved unheard) and of the gain on Arc (`GainArrived`, which
bounds what the page may put into the vault by all that ever came to the wallet).  The ticket's form: a
position has the number, boost and price of a minted purchase (`SavedShape`).  The
desk: the sums of the reserves of open tickets, of any owner, market or side, fit the
caps (`CapsHold`); purchases add a term that was checked and closing takes terms away
(`TotalGrows`, `TotalSubset` in `TotalsProofs`).  `DeskTypes` adds
that neither list is longer than it may be and what a market holds.  Hiding a market is
stated as a selection that keeps the order, and not with the recursive `SelectSeq`, so
that `HideFits` can bound what is left by the cardinality of what was there; at least
two markets must be allowed, since two are seeded (`DemoDeskAssumption`).

`RequestsProofs` proves all that `requests` checks, for any number of codes, calls,
sends, blocks, requests, visitors, workers, keys, processes, rounds and faults, and any
lives, windows and intervals.  The instances' bounds are constants of `MCRequests`, to
which `Requests.cfg` gives their values.  Two assumptions came out of the proofs:
the life of a reading is positive (`LiveFeedAssumption`, as every TTL of the source is;
with 0 a tick may be older than the life), and there is a strategy to send by
(`EmailLoginAssumption`).  `StepsOfOne` again takes the machines apart, `RequestsInv`
joins their invariants:

* `LoginInv`.  A code that logged in is used or has left the file (`CodesOnce`), so a
  second call that holds it fails wherever the first one is.  The comparisons of a
  window are counted by the counter that limits them (`GuessesCounted`, an inequality
  between the compared guesses, the resets and the counter).  Whoever looked for a wallet
  before one was made is the one who makes it, unless `blind` (`OneWallet`).  A call
  whose session was over when it began is still before the check that stops it
  (`DeadIsDead`), because a session that is over stays over.  A call that goes on
  sending has had no answer to any of its sends (`SentShape`).
* `KeysInv`.  A request about to sign has the key that its token names, which is the
  key the file holds (`RequestFits`); while the file is not wiped, that is the first one
  made (`KeptFirst`); what was sent and not answered bounds what is sent again
  (`OutFits`).
* `OwnedInv`.  `Covered`: a map has every ticket up to the block its entry claims but those
  a scan has still to read and those a failed read lost.  An entry and every request that
  holds the map carry it, so it survives requests that fill one map in any order and
  install their entries late.  A result that is shown is the market's, which ends once
  (`ResultFits`).
* `FeedInv`.  Readings, series and stored series know nothing of the future and ascend
  (`Ascends`), a cached reading expires at most a lag and a life after its time
  (`CacheFits`), and the load of a kind is that of exactly one visitor of it (`FeedCalls`).
* `OpeningInv`: what may be stored and with which mark, of the stored record and of every
  record a call holds over its await (`OpeningRecord`); and that without a stored tick there
  has been none yet (`OpeningFeed`), so that an approximate price is from before the first
  tick or from when one could have expired.  `PrintsInv` is the types
  only; that at most one print decides a boundary follows from the order of the choice:
  distance, time and value of a print make one number (`Rank`), every set of prints has
  a least one (`FirstPrint`, by the well-foundedness of the natural numbers), and
  `StartStays` shows of each action that the least one goes on or gives way to a nearer.
* `CycleInv`, for any number of processes with a cycle each and any of them with tours.
  Without a condition: types; whatever any list, refresh or worker has once seen of
  a round, the chain still is or has gone past (`Follows`: seen final is final, seen is
  there), which is what makes `settled` true although it is decided from a list; a
  worker that holds a lock is where it may hold it (`LeaseFits`).  While `calm`
  (`CalmFits`): a creator holds the lock of the creation; a created round that is not
  open yet is the one its creator is about to open; every other round is on every list
  as it is; nothing that takes bets is hidden; and while somebody creates, nothing takes
  bets.  So who gets the lock and looks sees an open round that takes bets, if there is
  one (`BetsAreListed`), and there is no other creator with one not yet open.
  `OneRoundAtATime` alone is not inductive, as it forgets who is about to create.
  TLC found `CycleInv` true of two processes with an incident (six million states of
  an unfinished search) before it was proved.  The steps go through `WorkKeeps` (a
  worker's, nothing written to the chain), `WriteKeeps` (a worker's, one round written) and
  `WorldKeeps` (around the workers).

`ViewsProofs` proves the safety properties of `views`, for any number of rounds, blocks,
readers, pollers, sessions and faults; the instances' bounds are constants of `MCViews`.
The invariant of each machine is proved whichever one runs (`OneMoves`: in a step one
moves and the others stand still), and `ViewsInv` joins them:

* `WalletInv`.  `NothingLeft`: while the user is out, nothing is stored that a
  restoration could find, and every restoration still listened to is past its session and
  asks for the accounts of the browser wallet, which the page takes only with the flag set;
  disconnecting clears the flag.  A sign-in or a connection may well be under way; when it
  is answered the user is not out any more.
  A render cancels the restorations before it and starts one from what is stored (`RestoreFits`, `CancelledFits`).  The mark for "nobody" must differ
  from the modes and the ways to be busy (`WalletSessionAssumption`).
* `TrackerInv`.  `TruthSeen`: not only the stored record, also every copy that a
  recorder or a poll holds over an await is true of the transaction, whose fate does
  not change; `PollsSawPending` keeps a poll from judging a record that was final.
  That a final status stays (`FinalKept`) follows, but for the recorder that overwrites
  what was reconciled since it read (`overwrote`) and for the one given up without a
  receipt (`misjudged`).
* `PageInv`.  `SeenOfContract`: whatever was read of the contract, however long ago and by
  whichever poll, has its winner or none, as the contract decides once.  `RecordFits` and
  `EvidenceFits` say the same of a frozen record and of what the endpoint made of it, so
  badge and verdict agree.
* `BoardInv` and `TicketInv` are the types, with what they need: rounds are numbered
  without gaps and every list, set and file names rounds there are (`Numbered`,
  `OfRounds`); only tickets that were bought are in a map, and a request under way has a
  map to read into (`BoughtAreShown`, `RequestsFit`).

Every invariant and every action property of the passing runs is thus a theorem.  Only
model-checked are the liveness properties: `EveryRoundEnds`, `SettlementCompletes`,
`EveryRoundSettles`, `RoundsKeepComing`, `ListedRoundsAreSettled`, `EveryTxEnds`,
`DecisionsAreShown`, `BalanceIsOfTheAddress` and `EveryLeaseComesFree`.  Liveness under
fairness and ENABLED, and what recursive definitions compute for every input, are out
of the prover's reach.

## 6. Findings

Three runs end in a violation.

*A cycle that never runs again* (`cycle_stalls`).  `runMarketCycleOnce` sets `running`
and then asks the store for the cycle's lease, before the `try` whose `finally` clears
the flag (`marketCycleWorker.ts:144`, 152, 432).  `acquireLock` rethrows errors of the
store.  One such error is enough: every later run of the process returns
"already-running", which `backgroundWorkers.ts:90` records as a success, and no
round is created although "continuous markets should not sit empty for a minute"
(`backgroundWorkers.ts:68`).

*Two burns for one key* (`double_burn`).  A call that finds the key's lease taken and no
burn on its record waits, looks again and throws.  Its catch
(`cctpDemoFundService.ts:896-914`) then writes `failed` over the record without holding
the lease, while the holder persists and broadcasts.  The next retry finds no burn and
makes another, against "retries return the same burnTxHash" (line 505) and "no crash
point leaves a burn on the network that we have no record of" (lines 7-8).  The run has
three signed requests of one key and needs no failure, crash or lapsed lease.
`OneBurnPerKey` and `BurnIsOnRecord` are what remains true of keys whose record nobody
wrote over, and `OneBurnPerNonce` of signatures.  A signature does not protect its key:
the retry may be signed anew.

*Two burns for one click* (`second_burn`).  App Kit has burned; the panel means to
resume ("Never start a second burn in that case", `FundUsdcPanel.tsx:490`), but waiting
for the receipt or polling throws inside the `try` of App Kit's bridge, and its catch
(line 550) goes on to the manual fallback.  `SecondMovesNeedALoss` is what remains: a
second burn needs such an exception, or a call of App Kit that reported no burn at all.

Other disagreements between code and documents met while modelling.  No run states
them; properties above are phrased so as not to claim what they refute.

* `InvariantAccounting.t.sol:44-47` demands that with no shares the vault has no equity
  unless a stake is locked.  At a seed where the YES quote is clipped just below the
  scale, a ticket at boost 1x needs no reserve and is sold by an empty vault; when it
  loses, its stake is equity without shares.
* `observationSnapshots.ts:3` says of a snapshot "Frozen after successful on-chain
  resolve; never mutated again".  Freezing takes the lock `obs-freeze`, sampling
  `obs-snap`: a sampler that had read the record writes it back unfrozen.  And when the
  receipt of the resolution is lost or the freeze fails, later resolvers find the market
  final (`onchainService.ts:2042`) and never freeze it.
* `marketCreateLock.ts:3` says that tour and cycle "cannot double-create".  They share
  the lease, but the tour looks for an open round in the routes' copy of the list, up to
  ten seconds old.  `OneRoundAtATime` holds without a lagging list.
* Rounds that a reset unpins, or the list's limit drops, before they were resolved are
  settled by nobody (`left` of `MarketBoard`).
* `appKit.ts:401` says "deposit fails → safe to fall back to a single App Kit bridge (no
  double-move)".  The catch cannot tell a
  failed deposit from one whose answer was lost; the latter is bridged as well
  (`OneMovePerAnswer` of `VaultForm` counts these).  A spend whose answer was lost is
  offered again in the same way.
* The vault's page waits for its arrival by comparing balances
  (`LpShell.tsx:325-342`): any other income of that size is taken for it, and the deposit
  on its way is left to the user when it comes (`VaultTakesWhatArrived`).
* `onchainService.ts` says of an opening price that anchoring it to the purchase block
  "makes the result identical no matter who calls it or when" (line 3451).  A tick near
  the purchase is there only when a round had a boundary near it, so the price is often
  that of the call, marked as approximate.
* Disconnecting cancels no sign-in and no connection under way (`wallet.tsx:512-530`): its
  answer signs the user in again (`DisconnectedStaysOut` excepts it).
* A second deposit that fails its spend replaces the record of the first, whose money
  stays in the Unified Balance unannounced (`given` of `VaultForm`).
* A purchase whose receipt does not come in time is reported as one that minted no
  ticket, and its position is not kept though the ticket may be minted; the price kept
  with a position is the quote's, not the block's (payout, stake and boost are the
  event's).
* The start print of a weather round may precede the start by up to sixteen minutes,
  the slack of the retention is five: it may be pruned before the grace is over
  (`StartPrintStays` speaks of the prints within the slack).
* A poll that finds neither receipt nor transaction when the grace is over marks the
  record failed; should the transaction still be mined, the record stays failed
  (`misjudged` of `TxTracker`).
* Two first logins of one email at once, or a failed lookup, create two custodial
  wallets (`blind` of `EmailLogin`); a transfer whose answer is lost is sent again by
  the next strategy (`lost`).
* `sessionWalletService.ts:343` says "If this email is local-only (created before
  Circle), fall back."  A signed session of a local wallet is refused at Circle with
  another error ("Invalid session provider") and so never falls back: only opaque tokens
  do, and those a failed search at Circle sends back to the file as well
  (`RecoveryFails` of `ServerWallet`).
* A transfer whose App Kit answer is lost, or has no hash, is sent again by the instance
  itself unless APP_KIT_STRICT is set (`OneSendPerRequest` states how often).
* `MarketLiveChart.tsx:32` says "Once resolved, the badge is driven by the on-chain
  winningOutcome."  It is driven by the frozen record first; that both agree is
  `BadgeIsTheVerdict`.  The endpoint's own `integrityError` (`onchainService.ts:933`)
  compares the frozen outcome with itself and cannot be raised; the chart's can, with
  evidence that was never frozen, and for a moment when its answer is older than the
  market's.
* A list entry read while a round was being resolved may say RESOLVED without a winner,
  and is never read again; the page shows the verdict nevertheless, as it reads the
  contract itself (`VerdictIsShown`).

## 7. Not modelled

Not modelled: HTTP routing and authorisation, presentation and the drawing of charts, the
encryption of keys (a key can be decrypted or not), fetching and parsing at price providers, file and
memory fallbacks of local development (production requires the durable store),
aggregate statistics, third-party SDKs beyond the answers the code handles, and
deployment scripts.  These are pure I/O or sequential code that a unit test covers.
Left out as nothing calls it: the panel's `runDemoFund` and the branch of
`getDemoReferenceData` that takes ticks (`onchainService.ts:2549-2586`).  The panel's
plain transfer and the withdrawal from the vault are single calls.
`Portfolio` leaves out archived markets, `WalletSession` the switching of networks.
