# A TLA+ model of the ledger backend

The repository is the backend of a wallet for rupiah and stablecoins: a Go server (Gin,
GORM, PostgreSQL) whose users top up through Midtrans, send each other money, swap assets,
and withdraw to a bank account or to a blockchain address. Everything it promises comes down
to two tables, `wallet_balances` and `transactions`, which several goroutines and several
outside systems change at the same time.

This directory holds a model of the code that changes those tables and the users table, of the
code that reads the history, and of what the server keeps in memory beside them (a watch list, a
price cache, an access token, token buckets), TLC runs that check it on small instances, and proofs
that TLAPS checks for every instance.
`PROJECT.json` lists the runs, the source lines every definition stands for, the hazards the
properties are aimed at, the disagreements found, and the theorems.

1. [The system](#1-the-system)
2. [The modules](#2-the-modules)
3. [From code to model](#3-from-code-to-model)
4. [The runs](#4-the-runs)
5. [Bounds](#5-bounds)
6. [Fairness](#6-fairness)
7. [What is proved](#7-what-is-proved)
8. [Disagreements between code and documents](#8-disagreements-between-code-and-documents)
9. [What is not modelled](#9-what-is-not-modelled)
10. [Plan](#10-plan)

## 1. The system

| component (source) | state it keeps | operations that change it | who runs them |
|---|---|---|---|
| **Ledger store** `repository/transaction_repository.go` | the tables `wallet_balances` (unique per wallet and asset) and `transactions` (unique `tx_hash`) | ten methods, each one database transaction under row locks, and a single INSERT | every goroutine below |
| **Top-up** `usecase/wallet_usecase.go`, `usecase/webhook_usecase.go`, `pkg/midtrans/client.go` | one `topup` row per order | the request (pending row, Snap call, failed row); the Midtrans notification (read, then settle or fail) | HTTP handlers; the customer and Midtrans outside |
| **Fiat withdrawal** `usecase/fiat_usecase.go`, `usecase/webhook_usecase.go`, `pkg/midtrans/iris_client.go` | one `withdraw_fiat` row; the client's access token under a mutex | debit, token, payout call, write of the answer or refund; the Iris callback | HTTP handlers; Iris and the bank outside |
| **Deposits** `usecase/crypto_usecase.go`, `repository/crypto_address_repository.go`, `pkg/blockchain/erc20_listener.go` | `crypto_addresses`; the listener's watch list, subscription and channel of logs | create an address and watch it; load, subscribe, handle a log, wait for confirmations, credit | HTTP handlers, one listener goroutine; the chain outside |
| **Crypto withdrawal** `usecase/crypto_usecase.go` | one `crypto_withdrawal` row | debit; prepare, sign, send, record the hash, or refund | HTTP handler, one goroutine per withdrawal; the node outside |
| **Transfer** `transferUsecase` in `usecase/auth_usecase.go` | none of its own | one call of the ledger store | HTTP handlers |
| **Exchange and price cache** `usecase/exchange_usecase.go`, `pkg/price/price_cache.go` | a rate per pair with the time it was fetched, under a `RWMutex` | look up, fetch, store; compute and execute a swap | HTTP handlers; Binance and Indodax outside |
| **Accounts** `usecase/auth_*.go`, `repository/user_repository.go` | the users table (unique email, username, google id), two-factor secret, flag and recovery codes | register, log in with Google, generate, enable and disable two-factor; log in, answer a challenge | HTTP handlers |
| **Rate limiter** `pkg/middleware/rate_limiter.go` | a token bucket per IP address, in a map under a mutex | a request, a round of the clean-up goroutine | the handlers of transfer, swap and both withdrawals; one goroutine |
| **History** `GetTransactionHistory` in `usecase/wallet_usecase.go`, `GetTransactionsByWalletID` | none of its own | count the rows that match, fetch a page | HTTP handlers, one request per page |
| Dashboard, profile, HTTP layer, JWT and CORS, e-mail, encryption, schema set-up, generated documentation | none that matters here | | |

**Interactions.** The use cases call the ledger store and nothing else shares memory, except
for the listener's watch list (a map under a mutex that HTTP handlers add to), the price cache, the
token of the Iris client and the buckets of the rate limiter. Between the calls of one request no
lock is held: a use case reads a row, decides, and acts in a second database transaction. Midtrans and Iris come back through webhooks, minutes
later, repeatedly, and in any order; the chain comes back through a WebSocket that says
everything once.

**Where it is hard.**

* *Concurrency in the database.* Balances are read, changed in Go and written back
  (`balance.Balance.Add`), so a lost update is one missing `FOR UPDATE` away. Methods lock up
  to two rows; transfers order them, swaps do not.
* *Check, then act.* The webhook handlers look at the status in one transaction and change it
  in another. `SettleTopUpTx` and `UpdateTransactionStatus` do not look at it again;
  the two rejections do.
* *Outside systems.* A payout or a broadcast may have happened although the call returned an
  error; an answer and a callback about the same payout may pass each other.
* *Crashes.* The broadcast goroutine, the watch list, the logs received and the request that
  was about to write an answer are memory. Nothing at startup looks for what was interrupted.
* *Errors thrown away.* Fourteen calls of the store, every refund among them, are made as `_ = ...`.
* *Locks held over the network.* The Iris client asks for a new token while it holds the mutex that
  every other payout needs, with the money of those payouts already debited.
* *Clocks.* A token, a rate and a bucket are valid for a time that the program counts from the moment
  an answer comes in, or from the last refill, rounded down.
* *Reads that do not agree.* The history is counted in one query, fetched in another, and asked for
  page by page while rows come in at the front.
* *Numbers.* Token amounts are cut to six digits on their way to the chain. A top-up keeps its fraction
  in the row, is charged without it, and is credited with what the notification says. Rupiah are rounded to
  units at one end of a swap before, at the other after, the rate is applied; a withdrawal debits a fee that the check has to include.

**What makes each part correct.** Ledger store: balances never negative, never lost, the
history accounts for them, one hash in one row, every transaction ends. Top-up: credited if and
only if paid, once. Fiat withdrawal: refunded at most once, and the row says what became of the
payout. Deposits: only what the chain transferred, only when it is deep enough, and all of it
that the listener could see. Crypto withdrawal: sent at most once, not refunded when sent, never
forgotten. Exchange: recent rates, fair amounts. Accounts: unique identities, a second factor is
demanded only with a secret the user has confirmed, and nobody is locked out. Iris token: good when
it arrives. Rate limiter: no more than the rate, and the rate for everyone. History: every row that
was there is on some page.

## 2. The modules

```
 Outcome            Ledger  <----implements----  LedgerTx
 (abstract)        (abstract)                 (row locks, statements)
                       |
                       |  its operations are used by
                       v
    TopUp   FiatWithdrawal + IrisToken   Deposits   Crypto   Exchange + PriceCache   History + RateLimiter
      \        /                                                                        \       /
        Rupiah                                                                             Api

    TopUp (in Rupiah) and Crypto implement Outcome               Accounts <--- Login
    Rupiah and Deposits implement Ledger
    LedgerTx (callers taking turns), Deposits, Crypto, Exchange and Api implement the
    orderly store (OrderlySpec in LedgerProofs)
```

| module | what it is |
|---|---|
| `Ledger` | The abstract store: the two tables, and every method of `TransactionRepository` as one atomic operation. The properties that relate the tables (`NonNegative`, `Journal`, `HashOnce`) are here. |
| `LedgerTx` | The same methods statement by statement under PostgreSQL's row locks, in any number of goroutines, with failing statements and deadlock victims. Implements `Ledger`. |
| `Outcome` | What a movement through the outside world owes its user: recorded as pending, decided once. |
| `TopUp` | Request, Midtrans, notifications and their handlers. |
| `IrisToken` | The access token all payouts share, its clocks and its mutex. |
| `FiatWithdrawal` | Request, token, Iris and the bank, callbacks. |
| `Rupiah` | `TopUp` and `FiatWithdrawal` in one process over one `Ledger`: a crash ends both. The top-ups implement `Outcome`, all of it implements `Ledger`. |
| `Deposits` | Addresses, chain with reorganisations, listener. Implements `Ledger`. |
| `Crypto` | Broadcast goroutines and the node. Implements `Outcome`. |
| `PriceCache`, `Exchange` | The cache with time, and swaps on top of it. |
| `Accounts`, `Login` | The writes to the users table, and a visitor who logs in meanwhile. |
| `RateLimiter`, `History`, `Api` | The token buckets; the two queries and the pages; and both over one `Ledger`, with transfers that pass the limiter and top-ups that do not. |
| `LedgerProofs`, `LedgerTxProofs`, `RupiahProofs`, `DepositsProofs`, `CryptoProofs`, `ExchangeProofs`, `AccountsProofs`, `ApiProofs` | Theorems. |
| `MC...` | The constants of an instance that a `.cfg` cannot write down (functions, symmetry). |

The split follows one idea: `LedgerTx` shows that a repository method may be taken for one
step, and the modules of the flows then take it for one step. What they keep apart is what the
code keeps apart: two repository calls of one handler are two steps, and whatever else the
server, the providers and the chain do can come in between.

## 3. From code to model

**Ledger / LedgerTx.** `balance` is the column of `wallet_balances`, `txn` the `transactions`
table by primary key. A wallet is its rank in the order of the UUID strings, which is all that
`ExecuteTransferTx` compares. An amount is counted in parts, `OneRupiah` of them to a rupiah, since a
`decimal.Decimal` has a fraction: `Whole` is the `IntPart` with which Midtrans is asked to charge,
`Rounded` the `Round(0)` of a withdrawal and of a swap. A job of `LedgerTx` goes through `Begin` (the caller's conditions,
`MayCall`), `LockFirst`, `LockSecond` (the two `FOR UPDATE`s; a copy of the balance goes into
`seen`), and a `Commit...` that writes what it computes from the copy; `GoesOn` and `Accepted`
are the checks between the locks and before the writes. `Refuse` is the early return,
`DbError` any statement that fails, `DeadlockVictim` what PostgreSQL does to a wait cycle. A
method that updates a single row by its key (`UpdateTransactionStatus`) locks that row, a unique
index entry being inserted is a row too (`Hashes` among the `Keys`). `SettleTopUpTx` credits the amount it
is given, and neither it nor its caller compares that with the row, so `MayCall` does not either.

**TopUp.** `RequestTopUp`, `SnapAnswers`/`SnapFails`, `FailRequest` are `walletUsecase.TopUp`;
`Receive` is the unlocked `GetTransactionByOrderID` with the check for pending, `Settle`/`Fail`
the second database call, `AnswerError` its error (500, so Midtrans posts again). A challenged
capture is answered by `failTransaction`, like a denial. Three amounts are kept apart as in the code:
the row keeps what was asked for (`wallet_usecase.go:60`), `gross` is what `CreateSnapTransaction` asked
Midtrans to charge, its `IntPart` (`client.go:43`), and `Settle` credits `gross`, because that is what the
notification repeats (`webhook_usecase.go:71`); that the row has an order at Midtrans is its `orderID`.

**FiatWithdrawal / IrisToken.** `Withdraw`, `GetToken`/`TokenError`, `PayoutAnswered`/`PayoutError`,
`StoreAnswer`/`RefundRefused` are `WithdrawFiat`, in the order of the code and with the discarded
errors as alternatives. `Withdraw` rounds the amount before it is debited, so row, debit and payout agree.
`Queue`, `UseToken`, `AskToken`, `TokenArrives` and `TokenFails` are
`getAccessToken`: `mu` is only visible while a new token is asked for, as everything else under the
mutex takes no time. Iris counts the life of a token from a moment within the request (`late`), the
client from the answer, so a token has two clocks, `good` and `left`.
`IrisCompleted`/`IrisFailed` are the two branches of `ProcessIrisNotification` that do something.

**Deposits.** `CreateAddress` and `AddToWatchList` are the two halves of
`GetOrCreateDepositAddress`; `RefreshWatchList`, `Subscribe`, `SubscriptionError`, `HandleLog`,
`CreditDeposit`/`CreditFails` are the listener's loop. While the listener is `confirming` it
handles nothing else, as in the code, where `waitForConfirmations` polls inside `handleLog`. A
block has an age instead of a number.

**Crypto.** `Prepare`, `Send`, `RecordHash` are the three stretches of `broadcastWithdrawal`
between which something outside changes; `PrepareFails`, `SendFails`, `SendAnswerLost` stand for
its early returns, `RefundRefused` for the refund that each of them makes. The node keeps nonces:
a pooled transaction may be replaced by another with its nonce, and may revert.
`CreditOnPlatform` is what the listener does with a mined transfer to a deposit address. Amounts are
in parts of the smallest unit of a token, `Scale` of them: `Tokens` is the cut that
`Mul(10^6).BigInt()` makes.

**PriceCache / Exchange.** A caller asks Binance (for USDC), then Indodax, then stores; each
request may take up to `Timeout` ticks, and no lock is held meanwhile. `Net` is the arithmetic of
`Swap` in hundredths: gross amount, fee, rounding of rupiah.

**Accounts.** A request reads a row, keeps the copy in `request[r].row`, and writes later:
`SaveUser` (GORM's `Save`) all of it, `Enable2FA` and `Disable2FA` three columns. The unique
indexes are conditions of the writes.

`Login` adds the two requests of a login: `LogIn` reads the row and lets in or challenges,
`Verify2FALogin` reads the row again and asks for a code of the secret it finds.

**RateLimiter.** A request holds the mutex from the look-up to the new bucket, so it is one step:
`Refilled` is the division that rounds down, and `lastSeen` (here the time since, `idle`) moves only
with a refill. `exact` and `since` are history variables: the bucket that neither rounds nor forgets,
and the time since a request passed. `refillRate` is the 1 that `main.go` passes.

**History.** `newest` is the table in the order of `created_at`. A method that locks the accounts of
its row puts it in front of all rows of those accounts; a pending top-up takes no lock, so its time
stamp may be older than that of rows that are there already (`CreatedUnlocked`). `Count` and `Fetch`
are the two queries of `GetTransactionsByWalletID`. `LIMIT` and `OFFSET` are by rank: a row is on the
page that its `Rank` among the matching rows, counted from the newest, falls on.

**Api.** One limiter stands before transfers, swaps and both kinds of withdrawals; for the limiter
they differ in nothing, and the transfer stands for them.

**Taken to work:** JSON, signatures and codes are right where they are checked; encryption and
key generation succeed; a single SQL statement is atomic.

## 4. The runs

| run | instance | what it shows |
|---|---|---|
| `LedgerTx` | 2 goroutines, all pairs of methods, 2 wallets, 2 assets, a top-up settled with any charge | Locks, copies and balances stay right under every interleaving, with errors and deadlock victims; `LedgerSpec`: each commit is one step of `Ledger`; `CycleNeedsSwap`: goroutines can only wait in a circle if one of them is swapping. |
| `LedgerTxLive` | the same, callers of one row taking turns and settling a top-up with what was charged for it | `Journal`: every balance is its opening and the effects of the rows, a top-up counting for the whole rupiah that was charged, so no update is lost and nothing is credited or refunded twice; every database transaction that begins ends. |
| `Rupiah` | 2 rows, each a top-up or a withdrawal, 2 handlers, 1 wallet | With the notifications of an order handled one after the other, and callbacks that come after the request has ended and carry the row's id: no balance exceeds what it was and what was paid in (`NoFreeMoney`), every balance is its opening and what the rows stand for unless a payout call ended in an error (`AnsweredIsAccounted`), each top-up is decided once (`Outcome`), a refund and a payout exclude each other, what was paid, paid out or bounced is recorded, no payout carries a token that has run out, and no request hangs behind the mutex; although notifications and answers are lost, repeated and reordered, writes fail, and the server dies with both flows in it. |
| `TopUpTwice` | `TopUp` alone, two notifications at a time | *violation*: two handlers read the same pending order and both credit it. |
| `FiatTwice` | `FiatWithdrawal` alone, a callback may overtake its request | *violation*: refunded by the callback, overwritten with pending by the request, refunded again. |
| `FiatUnmatched` | the reference the code sends | *violation*: a bounced payout is never refunded, no callback finds its row. |
| `Deposits` | 1 address, 2 tokens, 2 transactions | What is credited was transferred to that user, in that token and amount, and is deep enough; whatever is mined while the listener can see it is credited. |
| `DepositRestart` | default network name | *violation*: after a restart the watch list is empty. |
| `Crypto` | 2 withdrawals, 2 wallets, an amount that is not a whole number of units | A withdrawal is sent at most once, for what was debited or less than a unit short of it, ends once, a refund means that it was not sent, and no return of the goroutine forgets the row. |
| `Exchange` | 1 swapper, 1 reader | No rate older than its lifetime and two requests; no overdraft although the balance is looked at for the amount before rounding; a swap gives what it takes, less the fee, up to rounding. |
| `Accounts` | 2 requests, 2 users, 1 visitor | Two requests that both find a name free do not both get it; an enabled second factor always has a confirmed secret and recovery codes, whatever overtakes whatever; a visitor gets in, if not with this challenge then with the next. |
| `Api` | 3 rows, 2 wallets, 1 address, pages of one row | The limiter never lets more through than its rate and never shuts anyone out for good, although it rounds and forgets; a client that reads all pages misses no row that was there when it began. |

The largest are `Exchange` (980,221 distinct states), `Accounts` (238,675), `Api` (194,788) and
`LedgerTx` (165,135); each
run ends in at most a few minutes on two workers.

Some properties name exceptions. They are the places where the code has no way to do better, and
they are written into the property: `lost` in `MinedIsCredited` (mined without a subscription,
dropped with a connection, refused by the database), `gaveUp` in `StatusTellsPayout` and
`StatusTellsBroadcast` (refunded because the call returned an error, although the other side had
taken it), `died` and `unrecorded` in `WithdrawalsEnd`, `raced` in `HistoryIsComplete` (a row came in
between the two queries of the last answer, see 8), and `challenge` in `PaidIsCredited` (a
payment held for review fails the order, and the settlement that follows is answered as already
processed).

Each property of a passing run has a mutant: one definition of the model changed the way a bug
in the code would change it (a missing lock, a fee not checked, a status not looked at, an error
answered with 200, one confirmation fewer). Under it the property fails. The mutated definitions
stand next to the ones they change, marked *Mutant*.

## 5. Bounds

* `TxIds`, `Hashes`: the rows the table will hold and the transactions the chain will have. Two
  rows are enough for two methods to meet on one row or on two; `HasKey` in `LedgerTx` and
  `FreshKey`/`FreshHash` elsewhere start nothing that has no key, and take keys in a fixed order
  where their identity makes no difference.
* `MaxBalance` (9, in `HasRoom`): no method starts while an account holds more. Only needed
  because the unrestricted store lets a status be overwritten and a refund repeated.
* `Amounts` and `MCFunds`: a balance that two debits together exceed, so both outcomes of every
  check are reached. `Crypto` withdraws 3 at a `Scale` of 2, one unit and a half; `Amounts` are
  natural numbers of parts, so nothing finer is needed for the cut to matter.
* `TakeTurns`, `OneAtATime`, `CallbackWaits`, `Echoed`: not bounds but questions. Each says
  something about the environment that the code does not ensure; there is a run with it and, where
  its absence matters, a run without (`LedgerTx`, `TopUpTwice`, `FiatTwice`, `FiatUnmatched`).
  `Reviews` is one too: whether Midtrans may hold a payment for review.
* `MinConfirmations` 2 instead of 3: the age is only compared with it, and 2 leaves room for a
  depth that is positive and not enough. `MaxLogs` 1: one transfer per transaction; the second of
  two would be taken for a duplicate (see 8). `Offered`, `Reorgs`, `Registered`, `Orders`,
  `Swappers` pick which addresses are asked for, which blocks disappear, who has an address, which
  rows are withdrawals, and who swaps; the others stay free to vary.
* `TTL` 2 and `Timeout` 1 tick: an entry lives longer than a request, as 30 s and 5 s do. Taking
  the lock and writing the entry take no time.
* `Life` 4, `Margin` 2, `Timeout` 1 in `IrisToken`: the code has 900 s or what Iris says, 60 s and
  15 s. What `TokenHolds` needs is a margin of at least two timeouts (one until the token arrives, one
  until the payout does), which is the assumption; with exactly two the bound is tight. `Calls = TxIds`:
  a withdrawal makes one payout.
* `MaxTokens` 2, `Duration` 2, `IdleLimit` 4: the code has 10, 2 s and an hour. `IdleLimit` is at least
  `MaxTokens * Duration`, as an hour is more than 20 s: an address may be forgotten only when its
  bucket is full. Two of each leave room for a half-filled bucket and a half-filled token.
* `PerPage` 1 and three rows: three pages, so that rows can come in before, between and after the ones
  a reader has seen. `Queries` are the two that differ in what matches, without and with a filter.
  `Visitors`: one of the two users, the other stays free to act.
* `OneRupiah` 2 in the runs with rupiah: an amount of 3 is one rupiah and a half. A top-up of it is charged
  and credited as 2, its row says 3; a withdrawal of it is debited and paid out as 4. In `LedgerTx` the
  amounts are 3 and 4, so that a top-up is also settled with a charge that is not its own. `LedgerTxLive`
  and `Rupiah` have the one amount 3, for their size: what a top-up was charged then follows from there
  being a charge, and that the right one is credited is what the mutant `SettleRowAmount` of `Rupiah` is
  about and what `TxJournal` and `RupiahAccounted` prove for all amounts. It is 100 in `Exchange`:
  0.40 and 10.60, one on each side of the half that `Round(0)` is about; and 1 where nothing is cut.
* `Secrets`, `Requests`: two of each; the races of `Accounts` are between two requests over one row.
* `CHECK_DEADLOCK FALSE` in every configuration: tables fill up and customers stop; the system may
  really come to rest. That nobody rests while holding something is `EveryTransactionEnds`,
  `WithdrawalsEnd` and `MinedIsCredited`.

## 6. Fairness

Fairness is stated per action, and only where something in the code or its platform keeps going:

* `LedgerTx`: a statement that can run runs; PostgreSQL aborts a wait cycle (`deadlock_timeout`);
  it queues the waiters of a row, so a lock that keeps being released reaches everyone (strong
  fairness). Nothing is assumed of errors or of callers.
* `TopUp`: Midtrans repeats a notification until it is answered 200, and not every attempt fails
  (strong fairness of receiving an unacknowledged notification and of its database call). Nobody
  has to pay, and Snap need not answer.
* `FiatWithdrawal`: a request with its answer goes on or dies; Iris repeats its callbacks; an HTTP
  request ends within the client's timeout, with an answer or an error. Go's mutex hands the lock to a
  waiter that has starved for a millisecond, so a payout in the queue gets its turn if the mutex is free
  again and again (strong fairness of `GetToken \/ TokenError`). Nobody has to pay out or bounce.
* `Login`: a challenge runs out after five minutes (weak fairness). A visitor tries again, and shows a
  code if the secret in the row is one whose code has been shown before. That is fairness of a person, not
  of the code: `NobodyIsLockedOut` says what such a person can rely on.
* `Deposits`: blocks keep coming and the listener's goroutine runs. It need not reconnect.
* `Crypto`: every call of the broadcast goroutine returns, with a result or an error. The node need
  not mine anything.

## 7. What is proved

For any number of wallets, goroutines, rows, assets, hashes, users and requests, from the named
assumptions on the constants only (`LedgerAssumption`, `LedgerTxAssumption`,
`TokenAssumption`, `TopUpAssumption`, `FiatAssumption`, `DepositsAssumption`, `CryptoAssumption`,
`PriceAssumption`, `ExchangeAssumption`, `AccountsAssumption`, `LimiterAssumption`, `HistoryAssumption`), each beside its
constants and evaluated by TLC in the run of its module. Where a theorem needs `OneAtATime` or
`CallbackWaits`, it is a hypothesis of that theorem and of no other:

| theorem | states |
|---|---|
| `LedgerSafe`, `LedgerHashOnce` | `Ledger` keeps its tables typed, its balances non-negative, its hashes unique |
| `OrderlyBooksBalance`, `OrderlySafe` | the same and `Journal`, of a store that is used as the flows use it (`OrderlySpec`) |
| `TxInvariant` | the inductive invariant `Inv` of `LedgerTx` |
| `TxTypes`, `TxNonNegative`, `TxLocks`, `TxFreshCopy` | `TypeOK`, `NonNegative`, `LocksMatch`, `FreshCopy` |
| `TxImplementsLedger` | `Spec => LedgerSpec`: statement by statement implements atomic |
| `TxHashOnce` | `HashOnce`, through that implementation |
| `TxOrderly`, `TxJournal` | with `TakeTurns`, callers who also report what was charged: `Spec => OrderlySpec`, hence `Journal` |
| `TxCycleNeedsSwap` | `CycleNeedsSwap`, for any number of goroutines in a circle |
| `RupiahSafe`, `RupiahImplementsLedger` | the invariant of `Rupiah`; `Spec => LedgerSpec` |
| `RupiahTypes`, `RupiahCreditNeedsPayment`, `RupiahTokenHolds` | `TypeOK`, `CreditNeedsPayment`, `TokenHolds` |
| `RupiahReadStillTrue`, `RupiahDecidedOnce` | with `OneAtATime`: what a handler read is still true when it acts (`ReadStillTrue`); `Spec => DecidedOnce`, the top-ups implement `Outcome` |
| `RupiahStatusTellsPayout` | with `CallbackWaits`: `StatusTellsPayout` |
| `RupiahAccounted`, `RupiahNoFreeMoney` | with `OneAtATime` and `CallbackWaits`: `AnsweredIsAccounted`, `NoFreeMoney` |
| `DepositsSafe`, `DepositsImplementsLedger` | the invariant of `Deposits`; `Spec => LedgerSpec` |
| `DepositsTypes`, `DepositsBacked`, `DepositsFinal` | `TypeOK`, `DepositBacked`, `CreditedIsFinal` |
| `DepositsOrderly`, `DepositsJournal` | `Spec => OrderlySpec`, hence `Journal` and `HashOnce` |
| `CryptoSafe`, `CryptoTypes`, `CryptoStatusTellsBroadcast` | the invariant of `Crypto`, `TypeOK`, `StatusTellsBroadcast` |
| `CryptoDecidedOnce` | `Spec => DecidedOnce`: the broadcasts implement `Outcome` |
| `CryptoOrderly`, `CryptoJournal`, `CryptoHashOnce` | `Spec => OrderlySpec`, hence `Journal` and `HashOnce` |
| `ExchangeSafe`, `ExchangeTypes`, `ExchangeNonNegative`, `ExchangeRateIsRecent` | the invariant of `Exchange` with its `PriceCache`, and three of its properties |
| `ExchangeSwapIsFair` | `SwapIsFair`, for any rates, fee and amounts |
| `ExchangeOrderly`, `ExchangeJournal` | `Spec => OrderlySpec`, hence `Journal` |
| `LimiterInvariant`, `LimiterWithinRate`, `LimiterNobodyStarves` | the invariant of `RateLimiter` and its two properties, of `LimiterSpec` |
| `ApiLimited`, `ApiRate` | `Spec => LimiterSpec`: nothing else touches the limiter, so both properties hold of `Api` |
| `ApiOrderly`, `ApiJournal` | `Spec => OrderlySpec`, hence `Journal` |
| `ApiHistoryIsComplete` | `HistoryIsComplete`, for any page size, queries and rows |
| `AccountsInvariant`, `AccountsTypes`, `AccountsUnique`, `AccountsUsable`, `AccountsConfirmed` | the invariant of `Accounts` and its four properties |

**Sums over rows.** `Journal` and `NoFreeMoney` sum over all rows with a fold of the community modules,
and a fold over a set is a recursive function chosen by `CHOOSE`. `LedgerProofs` shows that the function
exists, by induction over the finite sets in the form of a plain set: a family of subsets that holds a set
whenever it holds all that have one element less holds all of them (`SubsetSteps`, whose
hypothesis is a set and no operator, so that the provers can use it). From that come the facts the other
proofs cite: the sum of nothing (`SumEmpty`), taking any element out first (`SumAny`), and what changing
one summand does (`SumChange`). It is why `LedgerAssumption` asks for a finite `TxIds`.

**The orderly store.** `LedgerSpec` lets a caller do what the methods let it do, overwriting a refunded
row included, so `Journal` does not hold of it. `OrderlySpec` says how the flows use the store: a row is
opened for natural amounts, a top-up is decided while it is pending and credited with the whole rupiah of
its row, which is what Midtrans was asked to charge, and a refunded withdrawal is left alone. `Journal`
counts a row that has an order at Midtrans for that (`Received`), not for the fraction it shows. It is
inductive with one more fact, which side of a row is empty (`Sides`): each operation changes one row, and changes a balance by what it changes the effect
of the row (one lemma per operation). Every other module then has to prove only that its steps are orderly:
in `LedgerTx` because callers who take turns find the row as they checked it (`Turns`) and report what was
charged, both of which are `TakeTurns`, in `Crypto` because
an open row stays with its goroutine (`OrderRows`), in `Deposits` and `Api` because they open rows and
decide none, in `Exchange` because what is computed from rates and fee is never negative. `Rupiah` is not
orderly when `CreatePayout` has returned an error and Iris had taken the payout; what holds of it is
under *Rupiah* below.

**LedgerTx.** None of the safety properties is inductive alone. `Inv` adds to them: the locks in the
table are exactly those the program counters say (`LocksMatch`), what was read under a lock is
still so (`FreshCopy`), what the callers checked about the row's existence and type stays true
(`JobsFit`, `RowsFit`), and what was checked between the locks is still true at the write
(`ChecksHold`). From the first two, a balance computed from the copy is the old balance and the
change (`WriteFacts`), so each commit is one operation of `Ledger` (a lemma per method,
`...Implements`), and every other step stutters.

**Wait cycles.** `CyclesHaveSwaps` gives a lockable row a rank: rows of withdrawals, then accounts in
the order of their wallets, then rows of top-ups and hashes. A method other than a swap locks in
ascending rank, so in a circle without a swap the member that wants the highest row waits for one that
holds it and wants a higher one. That a bounded set of naturals has a greatest element is proved
with the pigeonhole theorem of the library (`Greatest`).

**Accounts.** A whole-row save puts back a row that may be old. It does no harm because a copy is a
row that once was in the table, and what makes a row sound (its secret was generated; if it is
enabled, its secret was confirmed and there are recovery codes) never becomes false of it: the sets
of generated and of confirmed secrets only grow. `AccInv` therefore says it of the copies too
(`CopiesSound`), and one lemma for steps that take a copy and one for steps that write a row carry
all thirteen actions.

**Rupiah.** Two flows write one table. Each step of a flow writes rows of its own type and no other
(`Only`), so an invariant about top-up rows survives every step of the withdrawals and the other way
round; each flow is then proved by itself, and a crash twice. For the top-ups, a handler that holds an
order found it pending (`WorkFits`), and with `OneAtATime` no second one does, so it still is. For the
withdrawals, `RequestFits` and `StatusFits` relate where the request is, what it was answered, what
became of the payout, and the status. The token is an arithmetic invariant: `good` trails `left` by at
most `Timeout` (`TokenAge`), so a token that passes the margin is good for more than `Timeout`, and what
a payout has waited and what is left of its token add up to more than that until it arrives (`Outlives`).

The two sums need both assumptions, because without them a credit or a refund comes twice (`TopUpTwice`,
`FiatTwice`). `MoneyMoves` lists what a step may do to the tables if both hold, one row at a time.
`AnsweredIsAccounted` then follows as in the orderly store; that the credit is the whole rupiah of the row
is no assumption here but follows from how the order was opened (`OrderFits`: `gross` is the cut of the
row's amount). `NoFreeMoney` does not, since it has no
exception for `gaveUp`: its invariant bounds a balance by the worth of the rows instead (`Covered`), where
the worth of a row is what was charged for it if it is a successful top-up, and minus what was debited while it is an
undecided withdrawal. No step raises a balance by more than the worth of the row
that it writes, and all worths together are at most what was paid in (`SumMonotone`).

**Deposits.** The history is tied to the chain by the listener's memory: a log that it holds is a log
of the chain, and as old as its transaction unless the block was reorganised away (`Heard`); so the
credit at the end of the wait is of a transfer that exists and is as deep as the log is old.

**Crypto.** Everything is about one withdrawal at a time (`Fits`): how far its goroutine is, which
broadcasts are its own, what its row says. Two withdrawals meet only in the nonces and in the unique
index of the hashes, and neither makes a transaction belong to another row.

**Exchange.** The age of a rate is bounded by where it is: while Binance is asked by the time waited,
while Indodax is asked by one timeout more, in the cache by the age of the entry and two timeouts
(`CallFits`, `EntryFits`). An overwrite by a slow fetch keeps this, because a fetch carries its own age
along. `AmountsFit` shows that neither rounding nor the fee ever makes an amount negative, so the check under
the lock is all that `NonNegative` needs.

`SwapIsFair` needs that the history keeps what a swap was computed from (`UsedFits`), that a leg in rupiah
has the rate one (`Sound`), and arithmetic: the two fees are quotients, one of the tokens and one of the
rupiah, and multiplied by `FeeDen` they differ by what the tokens and the rupiah differ by, less the same
share of it (`FeeGap`). Each product is multiplied out in a step of its own; what is left is linear.

**RateLimiter.** What a bucket could still hand out, its tokens times `Duration` and the time that will
count for the next refill, never exceeds the exact bucket; forgetting an address is harmless because
after `IdleLimit` the exact bucket is full.

**History.** A row that was there when the reader began and has not been seen yet ranks below all
pages that have been fetched (`StillBelow`). A row that comes in raises ranks and never lowers one, so it
stays below; the page with its rank is fetched, or is not the last one. At the last page the total that was
counted bounds every rank, unless a row came in since the count: that is `raced`.

**Api.** The three parts share no variable but the tables, so each step of `Api` is a step of one of them and
leaves the others alone, or opens a row and puts it into the history (`ApiStep`).

**Only model-checked.** Liveness under fairness (`EveryTransactionEnds`, `PaidIsCredited`,
`BouncedIsRefunded`, `PaidIsRecorded`, `WithdrawalReturns`, `MinedIsCredited`, `WithdrawalsEnd`,
`NobodyIsLockedOut`), as fairness is about `ENABLED`, which the provers do not reason about. Every
invariant and every refinement of the passing runs is proved.

## 8. Disagreements between code and documents

With a run (`findings` in `PROJECT.json`):

1. `TopUpTwice`. `ProcessMidtransNotification` reads the status without a lock
   (`webhook_usecase.go:66`) and `SettleTopUpTx` does not look again; `SRS.md:308` asks that an order is
   processed exactly once.
2. `FiatTwice`. `WithdrawFiat` writes the payout's answer over whatever a callback has decided
   (`fiat_usecase.go:99`).
3. `FiatUnmatched`. The reference sent with a payout is the user's notes (`iris_client.go:109`), the
   callback handler expects a transaction UUID; `README.md:23` promises an automatic refund.
4. `DepositRestart`. `main.go` asks for `polygon-amoy`, the rows say `polygon_amoy`.

Seen while modelling, without a run of their own:

* `transaction_repository.go:25` explains the lock order of transfers by deadlock prevention;
  `ExecuteSwapTx` locks *from* before *to*. `CycleNeedsSwap` is the exact statement of what is left.
* A top-up captured under review is marked failed (`webhook_usecase.go:86`); the settlement that
  follows a review that ends well credits nothing.
* `SRS.md:250` lets a crypto withdrawal become a success when it is confirmed; the code writes success
  when the node has taken the transaction, which may still revert or be replaced.
* A withdrawal to a deposit address of the platform and the deposit share one `tx_hash`, and the
  unique index gives it to one of the two rows.
* `SRS.md:233` asks for five confirmations, the listener waits for three.
* Two transfers to deposit addresses in one blockchain transaction count as one deposit.
* `price_cache.go:60` describes a fallback on a stale rate; `fetchRate` never fails for the two pairs,
  so the configured rate is cached instead.
* The code that `Send2FAEmailOTP` stores and mails (`auth_2fa.go:129`) is never compared with anything.
* `LoginWithGoogle` writes back every column of a row it read earlier (`auth_google.go:23`), so a login
  can undo an `Enable2FA` or `Disable2FA` that answered 200 in between. What comes back is sound
  (`EnabledIsConfirmed`), but it is not what the user asked for last.
* `Verify2FALogin` does not ask whether the second factor is still enabled; a challenge of a secret that
  was replaced meanwhile is met with the new one.
* The history is counted and fetched in two queries (`transaction_repository.go:223`): a row that comes in
  between them pushes the oldest row off the last page, and `total_pages` does not say that there is one
  more. `HistoryIsComplete` excludes exactly this case.
* A crypto withdrawal finer than six digits debits the exact amount and sends what is left of it after the
  cut (`crypto_usecase.go:246`); the difference stays with the platform.
* A top-up of 10000.75 rupiah is accepted (`wallet_usecase.go:46` and `dto.go:100` ask only for more than
  zero) and recorded as 10000.75 (`wallet_usecase.go:60`); Midtrans is asked to charge 10000, the `IntPart`
  (`pkg/midtrans/client.go:43`, `:48`), and the wallet gets the 10000 of the notification's `gross_amount`
  (`webhook_usecase.go:71`, `:102`). Nothing compares the two, so the row of a successful top-up, and the
  history with it, shows up to a rupiah more than came in. `SRS.md:169` (FR-FIAT-001) has the amount as an
  `int64`. No money is created, and the customer gets what they paid; `Journal` and `AnsweredIsAccounted`
  count such a row for what was charged, and would be false of the amount it shows.
* A swap of 0.4 rupiah debits 0 and credits what 0.4 is worth (`SwapIsFair` allows for half a rupiah).

## 9. What is not modelled

* *Dashboard and profile.* They change nothing in the database. The dashboard asks the price cache for two
  rates, one after the other, as two calls of `GetExchangeRate`, which `Exchange` has; a third caller
  would add states and no behaviour.
* `Verify2FACode`, JWT, CORS and the second factor's middleware read one row or none and keep no state.
  That the middleware asks for a code at transfers and withdrawals but not at swaps is a fact of the
  route table (`main.go:284`-`300`), with nothing in it to interleave.
* *HTTP layer*: binding, validation, response formats and status codes, except where a webhook's status
  code decides whether it is posted again and where the limiter stands before a route.
* *E-mail and one-time codes*: sent from goroutines nobody waits for; the stored codes are not read.
* *Keys, encryption, signatures*: pure functions.
* *Schema set-up*: its unique indexes are in the models. *Start of the server*: `main.go` wires the parts;
  what it starts that keeps running is the listener (`Deposits`) and the clean-up (`RateLimiter`).
* *Generated API documentation* (`docs/docs.go`, more than a fifth of the lines) and the data transfer
  objects (`domain/dto.go`): no behaviour.

Within the modelled parts: gas and chain ids, more than
one network at a time, removed logs (the code skips them), and PostgreSQL beyond row locks and unique
indexes (READ COMMITTED is what the code uses).

## 10. Plan

Done, in this order, the store first because all else rests on it: `Ledger`, `LedgerTx` with its
proofs; `Outcome`, `TopUp`, `FiatWithdrawal`; `Deposits`, `Crypto`; `PriceCache`, `Exchange`; `Accounts`
with its proofs; `IrisToken` and the composition `Rupiah`; `RateLimiter`, `History` and the composition
`Api`; `Login`; then the proofs of every flow.

Next:

1. *Model.* `Crypto` and `Deposits` over one chain in full, where the listener confirms what a broadcast
   has sent; the watch list under a listener that reconnects to a chain that went on without it; the
   shutdown of the server around both.
2. *Prove.* The safety half of the liveness properties: that a paid order, a mined transfer and an open
   withdrawal are never left where no fair action reaches them any more, which is an invariant each. `NoGain`
   of a single withdrawal without its sum, with `CallbackWaits` alone.
