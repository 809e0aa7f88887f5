# Relayn: a verification project

Relayn (`src/`) is a Next.js application that resells access to language models.
It keeps accounts, API keys, a model catalogue and subscriptions in a SQL
database (Prisma), takes one-time payments over two rails (TriPay QRIS and
ERC-20 transfers on an EVM chain), and forwards OpenAI- and Anthropic-dialect
calls to upstream providers with fallbacks, logging and metering each of them.
There is no queue and no lock: every request is an event-loop task that awaits
the database and the network, and whatever correctness there is under
concurrency comes from conditional updates, unique indexes and transactions. Its
pages are React components whose handlers await in the same way, with several
requests out at once. These modules model both, await by await.

Paths below are relative to `src/src/`; line numbers are in `PROJECT.json`.

## 1. Inventory

| part | state | operations | what is hard about it |
|---|---|---|---|
| payment rules (`lib/payments/rules.ts`, `crypto/rules.ts`) | none | `evaluateCallback`, `evaluateCryptoTransaction`, `isTerminalCryptoReason`, `cryptoMessageForReason` | a verdict is final or not; two tables must agree with the rules |
| fiat rail (`payment-service.ts`, `tripay.ts`, webhook route) | `payments` rows; the provider's charges; callbacks in flight | checkout, reconcile poll, callback, apply | a charge created by a call that timed out; callbacks lost, late, repeated, reordered; poll racing callback |
| crypto rail (`crypto-payment-service.ts`, `crypto/evm.ts`) | `payments` rows keyed by `txHash`; the chain | submit, claim, verify, wait, refuse, activate | two owners for one hash; lagging nodes, nodes of another chain; reorganisations; ageing |
| subscriptions (`accounting.ts`, `admin-service.ts`) | `subscriptions` rows | `ensureSubscription`, `recordUsage`, operator's edit, paid grant | rows read before an await and written after it |
| gateway (`lib/gateway/*`, `app/v1/*`) | `usage_logs`; the locals of a request | authenticate, admit, resolve chain, try links, stream, account | fallback between the attempts and the one row a request may have; streams that break; clients that leave |
| provider registry (`lib/providers/registry.ts`) | snapshot, shared load, proxy pools | resolve, load, invalidate | a load overtaken by a write; loads out of order |
| upstream adapters (`openai-compatible.ts`, `anthropic.ts`) | the read buffer of one call | call, stream, list models | reads that end anywhere; usage that is missing, partial or zero |
| proxy pools (`proxy.ts`) | cursor, cooldowns | next, penalise, fetch, close | all proxies cooling down; close while held |
| accounts, sessions, tokens (`auth-service.ts`, `oauth-service.ts`, `session.ts`) | users, sessions, reset tokens, OAuth links | register, login, change, reset, sign in, link, unlink, administer, delete | read-then-write on tokens and counts; sessions created beside a revocation; a flow that returns to another browser session |
| API keys (`keys-service.ts`, `keys-manager.tsx`) | `api_keys`; the page | create, rename, revoke, list | cap counted before the create; a secret shown once |
| catalogue and sync (`model-sync-service.ts`, `admin-service.ts`, the two admin pages) | `models`, `removed_models`, `provider_configs`; the pages | sync, create, update, delete, restore, probe, register, toggle, credentials, proxies | sync racing an operator, ids listed twice; answers out of order or lost; a registry behind its rows; dialogs that outlive their request |
| support (`support-service.ts`, two pages) | tickets, messages; the pages | create, reply, status, staff reply, queues | cap counted before the create; two statements of a staff reply; drafts |
| profile and integrations (two pages and their services) | one account's row; saved notes | edit, password, connect, disconnect, delete; create, delete | what the page believes and what the row says |
| subscription page (`unlimited-offer.tsx`, `wallet-pay.tsx`, `crypto-payment.tsx`, `wallet.ts`) | poll loop; the wallet's account and network | checkout, poll, connect, switch, pay, verify | overtaking answers; a wallet its owner works on its own |
| tables (`usage-explorer.tsx`, `admin-users.tsx`, `admin-audit.tsx`) | a query, a page of rows, loads | filter, search, turn, act | loads that overtake one another |
| rate limiter (`rate-limit.ts`) | fixed windows in memory, per key and per account | hit, sweep | a burst over the boundary of two windows; two windows a call, counted one after the other |
| dashboard figures (`usage/metrics.ts`) | none; the locals of one request | collect, fold | a scan, a list and a clock read at three moments; days that are not 24 hours long |
| HTTP edge, secrets, formatting | none of their own | stateless | not state machines |

How they meet. Both rails and the operator write the same `subscriptions` row;
the gateway reads it at authentication and debits it at the end; the rails share
the `payments` table and its unique indexes; the gateway resolves every link of
a chain through the registry, whose adapters send through proxy pools;
operators edit the catalogue and the registry's rows under calls in progress;
OAuth sign-in shares users, links and sessions with password sign-in; every
page shares its rows with the other pages, tabs and operators that write them.
The hazards are listed, each at its line, in `PROJECT.json`.

What makes each part correct, in a sentence: a grant needs exactly one genuine
payment and a payment gives exactly one grant; a hash keeps its owner and a
claim is settled by a final state of its transaction; a paid order is eventually applied; a
call is debited exactly when its success is logged, for a model its caller may
use, and every call is answered; the snapshot, the pools and the table agree up
to a bounded delay; what is metered is what was read; a proxy that failed rests;
the last way into an account, and the last administrator, stay; a count that
guards a create is overshot by concurrent creates only; a removed model stays
removed and an operator's row is not rewritten by a sync; a page shows what is
stored once its requests have ended, and its forms lose and invent nothing.

## 2. Modules

| module | models | state |
|---|---|---|
| `PaymentRules` | the two rule engines, the reason tables | operators only |
| `TransactionLife` | the crypto rule engine over every reading of one transaction, by nodes that lag, disagree or serve another chain | `signed`, `final`, `observed`, `now`, `rulings` |
| `Subscriptions` | the subscription row, `ensureSubscription`, the operator's edit, the debit | `subs`, `req` |
| `FiatRail` | checkout, callback, poll, provider | `orders`, `charges`, `callbacks`, `job` |
| `CryptoRail` | submit, verify, the chain | `claims`, `chain`, `proof` |
| `Billing` | composition of the three over one table of accounts | all of the above |
| `Entitlement` | abstract promise: one unspent payment buys one account its access | `entitled`, `spent` |
| `Gateway` | one POST of either dialect, concurrent calls of one account | `account`, `enabled`, `ready`, `logs`, `call` |
| `Registry` | the provider registry of one instance | `snapshot`, `inFlight`, `loads`, `live`, `open`, `history` |
| `ProxyPool` | one provider's proxies and the requests through them | `cursor`, `cooldownUntil`, `fetch` |
| `RateLimit` | the windows of the keys of one account and its own, the calls let through | `buckets`, `now`, `limit` |
| `Wire` | one answer from the upstream's bytes to the caller's stream and the usage row | `coming`, `buffer`, `heard`, `queue`, `route`, `frames`, `row` |
| `Accounts` | registration, login, password change and reset, administration, deletion | `users`, `links`, `tokens`, `live`, `jar`, `req` |
| `SignIn` | Google sign-in, linking and unlinking, over `Accounts` | `sealed`, `flow` |
| `KeyManager` | API keys and the page that manages them, over `Accounts` | `page`, `sent` |
| `ProfilePanel` | the profile page over one account | `account`, `edits`, `panel` |
| `Integrations` | saved integrations and their page in several tabs | `notes`, `posts`, `bench` |
| `Catalogue` | models, suppressions and custom providers: admin routes and sync | `catalogue`, `removed`, `configs`, `routed`, `call` |
| `Console` | the two pages that manage the catalogue | `page` |
| `ProviderBoard` | the board of providers: settings, switch, credential, proxies | `rows`, `snapshot`, `jobs`, `board` |
| `Tables` | the three paged tables as one state machine | `stored`, `list`, `loads`, `tasks` |
| `Metrics` | one request for the dashboard's figures beside the log it scans | `calendar`, `clock`, `usage`, `overview` |
| `Desk` | tickets, replies and status of users and staff | `tickets`, `errand` |
| `DeskPages` | the support centre and the staff queue over `Desk` | `centre`, `queue` |
| `OfferCard` | the QRIS card: checkout and poll loop | `card`, `read`, `checkout` |
| `WalletPanel` | the on-chain card and the wallet beside it | `wallet`, `panel`, `click`, `reading`, `verdict` |
| `Absent` | the constant `Null` of the modules that are composed side by side | |
| `Billing_proofs`, `Registry_proofs`, `Gateway_proofs`, `Path_proofs`, `Accounts_proofs`, `Board_proofs`, `Catalogue_proofs`, `Pages_proofs` | theorems; each EXTENDS the module, or the MC module, whose properties it proves (`Catalogue_proofs` by way of `Board_proofs`) | |
| `BillingMC`, `AnsweringMC`, `GatewayMC`, `AccountsMC`, `CatalogueMC`, `PagesMC` | values for the constants; the properties of the parts they compose | `part` |

`Billing` EXTENDS the rails, which EXTEND `Subscriptions`; `SignIn` and
`KeyManager` EXTEND `Accounts`; `Console` EXTENDS `Catalogue`; `DeskPages`
EXTENDS `Desk`. These are compositions: their parts write the same rows. An MC
module may also hold parts that share nothing. Its variable `part` is chosen
initially and never changes: it says which of them a behaviour is about, the
others stand still (or keep `Null`), and one exploration answers for all.

How code becomes actions. A handler that awaits becomes one action per stretch
between awaits; what it remembers across an await (the row it read, the verdict
it computed) is kept in its request record. A `$transaction` is one action. A
conditional `updateMany` is a test of the row in the state in which it runs; an
update by id is not. On a page, what follows an answer up to the next await,
`finally` included, is one action, and an answer is taken as it was computed,
however late it arrives. An action that a fault replaces carries the name of the
action with a suffix and a comment beginning `Fault:`; no next-state relation
uses it, it exists to show that a property notices the bug.

Some of the correspondences:

* `Gateway`: `Begin` and `Identify` are the two reads of `authenticate`; `Admit`
  is everything that can refuse before the catalogue is read; `ResolvePrimary`
  and `ResolveLinks` are the two reads of `resolveChain`; `Answers`,
  `FailsRetryably`, `FailsForGood` and `RecordAttempt` are one turn of
  `runWithFallback`; `Chunk`, `StreamEnds` and `StreamBreaks` are the body of a
  stream; `Bill` and `Fail` end the request with `recordUsage`, whose
  transaction is refused as a whole when a row with that request id exists.
* `Registry`: `ReadRows` is the instant at which the database executes
  `findMany`, `FinishLoad` the arrival of its reply; a write by an operator of
  this instance is `WriteRow`, then `Invalidate` when its await returns; one by
  another instance is `WriteElsewhere`. Time is only the fact that a snapshot
  has outlived its TTL (`Expire`).
* `Wire`: an event is a head, a tail and two newlines, and a read may end after
  any of them; `Read` is the adapter's buffer loop, `Consume` the route's `for
  await`, `Account` its usage row. Usage is `full`, `total`, `prompt`, `zero` or
  absent, and what is estimated never coincides with what is reported.
* `Accounts`: each await of a handler is a step named for what it does
  (`CreateUser`, `Subscribe`, `OpenSession`, `SetPassword`, `RevokeOthers`,
  `Burn`, `Mint`, `Reset`, `RevokeAll`, `CountAdmins`, `Apply`, `Close`); `Die`
  is the loss of a request between two of them.
* `Catalogue`: `ReadRows` and `ReadGone` are the two reads of a sync, `Refresh`
  and `Import` its writes row by row; `Chain`, `Probe`, `Lift`, `Insert`,
  `Save`, `Referenced`, `Remove`, `Unremove` are the statements of the admin
  routes; a row's `id` tells a row from a later one of the same name. `routed` is
  what the registry's snapshot holds, which `Invalidate` brings up to the rows, or
  (in scenarios with `lag`) leaves as a load begun before the write had it. An
  upstream's listing is an array: `listed` are the ids to come, `again` those that
  come a second time, where the sync would create once more what it has created.
* `ProviderBoard` keeps the `snapshot` beside the rows: a card is the status of what
  is registered, merged with its row; a custom row that is not in the registry is
  shown switched off, with no proxies.
* `Metrics`: `Open` computes the bounds of the scan from the clock, `ReadLogs` and
  `ReadRecent` are the queries of the `Promise.all`, `Answer` reads the clock again
  and builds buckets, windows and cards. A scan is a restriction of the log, so
  that a row read keeps its place; a figure is the number of rows that the loop
  over the logs would have added to it (`Of`, `Home`), and what `foldWindow` adds
  up is added up (`Total`).
* `Tables`: `by` tells a load begun by the effect, which a later change aborts,
  from one begun by hand, which nothing aborts.
* `WalletPanel`: the wallet changes account and network on its own, and queues
  its announcements; each `await` of `pay`, `switchNetwork` and `refresh` is a
  step of a `click` or a `reading`. `Grant` is the wallet's answer to
  `eth_requestAccounts`, `Connected` the handler that hears of it, `Attach` the
  passive effect that listens for the account shown; what the wallet announces
  before that is heard by nobody, or by the listeners of the last account.
* `TransactionLife`: a reading is what `verifyTransaction` returns. It may find the
  chain wrong, the hash unknown or in the mempool, the transaction on a branch with
  too few blocks and any effect, or final, with or without the time of its block.

History variables (fields named `overlapped`, `hasty`, `together`, `crossed`,
`strayed`, `buried`, `raced`, `alone`, `missed`, `behind`, `unheard` and the like) are written and never read
by the actions. They name the race a property excepts, so that a property can
say "only if two requests overlapped" rather than say nothing.

External behaviour is modelled from its use in `src/`: the payment provider's
charges and callbacks, the EVM chain, the payer's wallet, Google's consent
screen, a client's hang-up. The RPC reads of one `verifyTransaction` count as
one observation of the chain.

## 3. Runs

| run | parts | bounds |
|---|---|---|
| `BillingBoth` | `fiat`: the fiat rail alone; `hash`: two accounts claim one hash; `both`: one account on both rails with an operator | 2 requests, 1 order, 1 hash; quotes right and wrong; four effects of a transaction, at any age (`both`: a good and young one, a right quote) |
| `Answering` | `payment`: one account pays over the fiat rail; `call`: one call; `routes`: the registry | 1 order and 2 requests; 3 models; 2 resolutions, 2 writes, 4 loads, one custom provider with and without a proxy list |
| `Gateway` | `call`: two concurrent calls; `wire`; `pool`; `limit` | a fallback list with a paid model, the model itself and a duplicate; every stream of at most two events and the usual longer ones, cut anywhere; 3 proxies, 2 requests, 2 ticks, cooldowns of 2; 2 keys, limits of 1 and 2, windows of 2 ticks, 5 ticks |
| `Accounts` | eight scenarios of accounts; six of the profile page; integrations in two tabs | 2 browsers, 2 accounts, 2 identities, 3 tokens, 3 keys (cap 2); 4 moves; 6 clicks, 4 notes (cap 2, `MaxIntegrations`) |
| `Catalogue` | eight scenarios of the catalogue behind its page; nine of the board; six of the tables; the dashboard | 2 requests at a time, 2 models, a compiled-in and a custom provider, 5 rows ever; 4 and 5 moves |
| `Pages` | nine days at the desk, the QRIS card, the wallet panel, the life of a transaction | 3 tickets (cap 2), 2 requests; 2 orders, 3 polls; 2 payers, 2 clicks, 2 readings, 2 verifications, 2 moves of the wallet; confirmations on both sides of the boundary, 3 ticks |
| `BillingSettled`, `GatewayTrace`, `ProxyTimeout`, `AccountsReset`, `BillingBurnt`, `CatalogueFinal` | one refuted statement each | as small as the race allows |

Why these bounds suffice. Every hazard listed is a race of two: two requests on
a row, two claimants of a hash, a load and a write, a call and one interference,
two answers to one page. Two requests with one object in common exhibit each of
them. Three models make a chain with something to skip and something to try;
four load slots are one more than two writes can make necessary, so `NoStampede`
could fail; a cap of two is passed by a third, and needs two that counted side
by side; three proxies leave a third when two are parked. A scenario, a day or a
panel combines the operations that touch the same rows; the operations it leaves
out are in another one. What the bounds of a part cut off is, where section 5
names a theorem, what its proof quantifies over. `Requested`, `Edited` and `Rekeyed` in `Gateway`
bound which models are asked for and touched; `MaxUsed`, `MaxWrites`, `MaxMoves`,
`MaxClicks`, `MaxNotes`, `MaxRows`, `MaxPolls`, `MaxSent` and `MaxNow` bound
what would go on for ever. The bounds in `BillingMC!WithinBounds` select which
steps a part explores; no action is changed by them.

Symmetry is used in runs without liveness, on requests, handlers, tabs and accounts that
nothing tells apart. Deadlock is checked in `BillingBoth`, `BillingSettled` and
`Answering`; the others are bounded by moves or reach an end (a call that is
over, a page that was left), so their systems really stop.

What the runs show, beyond what the names of the properties say:

* `UnlimitedIffApplied`, `GrantsOncePerPayment`: whatever rollovers, debits and
  edits run between a read and its write, access is exactly an applied payment.
  `FiatGrantIsBacked`, `CryptoGrantIsBacked`: and the payment is real.
* `ClaimClosesOnFinalTruth`: an answer of a lagging node never burns a payment,
  except through `reverted`, which the code tests before it counts confirmations,
  and `rpc_chain_mismatch`, which a node of another chain brings about at any
  stage: `BillingBurnt` shows what these two do.
* `MeteringIsHonest`: deltas are neither lost, doubled nor torn by the reads;
  a usage row carries what the upstream said, else an estimate, and a failed
  call is free. `FramesFollowTheDialect`: what a client reads is a prefix of a
  well-formed stream of its dialect.
* `SessionHasSubscription`, `LastOneIsKept`, `CountsAreOvershotByRacesOnly`:
  every exception names the overlap that makes it.
* `LinkFollowsItsStarter`: a linking flow attaches the identity to the account
  that began it, whoever is signed in when the consent screen returns.
* `DeletionSticks`, `SyncHarmsByRaceOnly`, `ConsistentWhenAlone`: a sync brings
  nothing back and rewrites nothing typed by hand, unless it had read the tables
  before; one request at a time leaves no dangling chain, no orphan. A deleted
  id also returns by the hand of an operator whose create had lifted an earlier
  suppression before the deletion and inserts after it: the attempt to prove
  `DeletionSticks` without that exception brought it to light, and one of the
  eight scenarios has room for it.
* `TicketsAreAccountedFor`: a user has more open tickets than the cap only by
  creates that counted side by side and tickets opened again, and a ticket's
  status says who spoke last, unless it was set by hand or a message came
  between the two statements of a staff reply.
* `JudgedOnce`: two readings of one transaction that settle its claim settle it the
  same way, whatever branches, nodes and clocks they were made by, but for the
  node of another chain, the failed receipt of a branch, and a payment that grew
  too old (which a reading without the time of its block forgives); a reading
  with the confirmations does settle it; and the two reason tables agree with
  the verdicts.
* `RateIsBounded`: a burst can straddle two windows, but the first of them began
  with a call of its own, so no interval as long as a window sees more than
  twice the limit less one; and what a key is refused is not counted against
  the account.
* `DashboardAddsUp`: the trend has one bucket per day of the calendar, and each
  day that was over has all its rows, unless a day was an hour short or long. A
  window's requests, its successes and each model's share count every row read
  of its dates once, whatever the calendar; every shorter window is the tail of
  the longest, and the cards agree with it unless midnight passed.
* `TablesTellTheTruth`, `BoardTellsTheTruth`,
  `OwnerPagesTellTheTruth`, `ShownDetailsAreCurrent`: once its requests have
  ended, a page shows what is stored, up to the overlaps named and to answers that
  were lost or failed after something was written (`missed`), which leave every
  page of the code on its old lists; a row of the board has one request at a time; a refusal the page could have foreseen comes
  only of another writer. The console's half of the first is about a page of
  models whose operator is alone: opening a page afresh, and the two requests
  that sync behind another page's back (`syncOne`, `register`), are left out of it.
  The board shows of a custom provider that is switched off no proxies, by intent,
  and says what the registry had loaded last (`behind`). The wallet panel's excepts
  announcements made before anybody listened (`unheard`).
* `DraftsStayWithTheirThread`, `SecretIsReplacedOnlyInHaste`,
  `DialogsAreClosedByTheirOwn`, `ActivationIsAnnouncedOnce`: what an answer
  that arrives late may do to what the reader is looking at or typing.
* `PanelGuardsTheWallet`: nothing is sent on a network the page had not read.

What the six violations show:

* `GatewayTrace`: after a fallback, the trace row of the failed link owns the
  request's id, and `UsageLog.requestId` is unique. A served stream is then
  neither logged as a success nor debited; a served unstreamed call is answered
  with an error.
* `BillingSettled`: the failure path of a checkout updates its order without
  looking at its status, over a callback that has paid it.
* `ProxyTimeout`: the adapters' timeout raises a `TimeoutError`, which the test
  for `AbortError` misses: a request that is over is sent through a second proxy
  and parks both.
* `AccountsReset`: a login that verified the old password opens its session
  after the reset has dropped them all.
* `BillingBurnt`: one answer of a node of another chain closes the claim of a hash
  for good, whatever its transaction comes to, and so does the failed receipt of a
  branch; `crypto/rules.ts:14` says that no endpoint may burn a payment.
* `CatalogueFinal`: a hand-added row leaves no suppression when it is deleted,
  although adding it had lifted its predecessor's; the next sync recreates it.

Other divergences were read while modelling and are built into the actions, but
have no run of their own:

* `openai-compatible.ts:229` reports a client's abort as retryable, so a chain
  goes on for a client that has left (`fallback.ts:42` says it stops).
* `accounting.ts:54`: a rollover decided before a payment zeroes the lifetime
  total after it. `registry.ts:366`: a load that read before an invalidation
  installs the old rows after it, for at most one TTL.
* The adapters' own timeout is classified as an upstream error (502), not as a
  timeout (504); `healthCheck` speaks of every proxy and tries two; a retry may
  use the same proxy when all the others failed in the same instant.
* Streams: CRLF separators are not recognised, an unterminated last event is
  dropped with its usage, error events in mid-stream pass for success, deltas
  of tool calls are dropped, a total without its parts counts the prompt twice,
  and the Anthropic adapter does not reconcile a zero output.
* Dashboard: `metrics.ts:3` says that buckets follow the local calendar, but they
  are laid out in steps of 86 400 000 ms counted back from a local midnight:
  across a day of 23 hours the trend begins a day early and leaves that day out,
  across one of 25 it misses the first hour of its first day.
* Usage page: `usage-explorer.tsx:165` takes the wrapper `{ record }` of an answer
  (`api/usage/[id]/route.ts:17`) for the record, and throws while it renders.
* Sync: an id that the upstream lists twice is created twice, so the second create
  meets the unique index and the sync ends there, with nothing beside it
  (`model-sync-service.ts:135` is not told of what the loop creates).
* Wallet: an account or a network that changes between the wallet's answer and the
  effect that listens (`wallet-pay.tsx:155`, `122-149`) is not heard of.
* Keys: Enter in the rename field sends a rename while a create is under way, and
  its end frees the page (`keys-manager.tsx:99`), so that the next create's secret
  may replace one that was never copied.
* Tables: the `finally` of an aborted load enables the controls while the next
  is under way; a page beyond the range says "no match" without a way back.
* Board: "Last probe" outlives a rotation; proxies saved beside a removal, or while
  the registry still has what was removed, leave a row that no list shows and that
  blocks its id; the edit form resends `enabled` as it was when the form was opened;
  and the proxy dialog says "Currently stored: Nothing" of a custom provider that
  is switched off with proxies stored (`admin-providers.tsx:703`, for
  `admin-service.ts:842` reports none).
* Profile: the answer to a disconnect refreshes the profile but not the identity
  form, which may then be saved untouched over a rename made elsewhere; counters
  stay stale after a password change. Integrations: what is typed while a save
  is under way is cleared by its answer.

## 4. Fairness

Only `Answering` uses fairness.

* `Billing!Fairness`: a request that gets nowhere ends, because every network
  await has a timeout (weak fairness of `LoseRequest`); the provider repeats a
  callback until it is answered and the order page polls, so an order that stays
  paid is offered again and again, and not every attempt dies (strong fairness of
  the offer and of its application). Nothing is assumed of the payer.
* `Gateway`: weak fairness of each request's own steps. Upstream calls have a
  timeout, the database answers, and nothing suspends a handler. Nothing is
  assumed of operators, payments or clients.
* `Registry!Fairness`: time passes, queries are answered, and a handler runs on
  after its await. Requests may stop coming.

## 5. Proofs

Every theorem is about all values of the constants: any sets of accounts,
orders, models, requests, tabs and tickets, any caps, prices and limits, any
streams, calendars and windows, from the named assumptions of the modules. These
say that `Null` is in no table and no record type, that what is counted is
finite, that prices, caps, limits, windows and cooldowns are positive, and that a
scenario, a day, a panel, a board or an opening begins with rows the program could
have left: ids that were issued and differ, chains that name rows that exist, a
queue within its cap. `OffersAssumption` is the prefix that
`model-sync-service.ts` puts before the ids of each provider; `LineAssumption`
says that an upstream's script is a sequence of kinds of event;
`TableAssumption`, that an opening of a table may act on rows or show their
details, as each of the three pages does, and not both; `MetricsAssumption`, that
midnights follow one another from that at which the log and a month begin.
Where an MC module gives an instance its values by a definition
(`Served <- {m1, m2}`), what a proof needs of them does not depend on their
number. TLC evaluates all assumptions in the runs.

| module | theorem | property, or what it says |
|---|---|---|
| `Billing_proofs` | `TypeCorrect` | `TypeOK` |
|  | `AccessIsPaidFor` | `UnlimitedIffApplied` |
|  | `FiatGrantsAreBacked` | `FiatGrantIsBacked` |
|  | `CryptoGrantsAreBacked` | `CryptoGrantIsBacked` |
|  | `HashOwnership` | `HashKeepsItsOwner` |
|  | `ClosedStaysClosed` | `ClosedPaymentNeverGrants` |
|  | `Refinement` | `GrantsOncePerPayment` |
|  | `ClaimsCloseOnTruth` | `ClaimClosesOnFinalTruth` |
| `Board_proofs` | `BoardInvariance` | The inductive invariant of the board of providers: what the page, its dialog, its requests and their answers know of a row is as old as the version it is stamped with |
|  | `BoardIsTruthful` | `BoardTellsTheTruth` |
|  | `MetricsInvariance` | The inductive invariant of the dashboard: what a scan has kept of the log |
|  | `FiguresAddUp` | `DashboardAddsUp` |
| `Catalogue_proofs` | `CatalogueInvariance` | The inductive invariant of the catalogue: what a request has read and still may rely on whoever writes beside it (row ids are never reused, a sync that read the removed list after a deletion knows of it), and what it may rely on as long as requests come one at a time |
|  | `CatalogueIsConsistent` | `ConsistentWhenAlone` |
|  | `DeletionsStick` | `DeletionSticks` |
|  | `SyncsHarmByRaceOnly` | `SyncHarmsByRaceOnly` |
|  | `TableInvariance` | The inductive invariant of the tables: which query an answer is to, which load is the last effect's, whose request a dialog waits for |
|  | `TablesAnswerTheirControls` | The tables' half of `TablesTellTheTruth` |
|  | `ConsoleInvariance` | The inductive invariant of the console over that of the catalogue: where its requests stand, which of them may close the editor, what a page knows when its operator is alone |
|  | `TablesAreTruthful` | `TablesTellTheTruth` |
|  | `DialogsCloseTheirOwn` | `DialogsAreClosedByTheirOwn` |
| `Path_proofs` | `PoolInvariance` | The inductive invariant of a provider's proxy pool: a request that is out is out through an entry, no cooldown ends later than one that begins now, and rounds are complete as long as nothing has failed |
|  | `RotatesFairly` | `RotationIsFair` |
|  | `RateHolds` | `RateIsBounded` |
|  | `DialectIsFollowed` | `FramesFollowTheDialect` |
|  | `MeterInvariance` | The inductive invariant of metering: what an adapter has heard after any reads is what one reader of the whole body had heard at the same event, and every delta heard was sent or waits in the queue |
|  | `AnswersAreMetered` | `MeteringIsHonest` |
| `Registry_proofs` | `TypeCorrect` | The registry's state is well typed in every reachable state |
|  | `PoolsMatch` | `PoolsMatchTheSnapshot` |
|  | `ReadsAreShared` | `NoStampede` |
| `Gateway_proofs` | `Invariance` | The inductive invariant behind the four theorems below: what each place in the code says of the call's locals, its chain and its rows |
|  | `TypeCorrect` | `TypeOK` |
|  | `ChainsStayInPlan` | `ChainStaysInPlan` |
|  | `StreamsHaveOneVoice` | `OneVoicePerStream` |
|  | `FailuresAreFree` | `FailureIsFree` |
| `Pages_proofs` | `ClaimsAreJudgedOnce` | `JudgedOnce` |
|  | `ActivationsAreAnnouncedOnce` | `ActivationIsAnnouncedOnce` |
|  | `TheWalletIsGuarded` | `PanelGuardsTheWallet` |
|  | `DetailsAreCurrent` | `ShownDetailsAreCurrent` |
|  | `DeskInvariance` | The inductive invariant of the support service and its two pages: what a request knows of its ticket at each stage, who holds a place under the limit, and which answers a page with a draft still waits for |
|  | `TicketsAreCounted` | `TicketsAreAccountedFor` |
|  | `DraftsStay` | `DraftsStayWithTheirThread` |
| `Accounts_proofs` | `AccountsInvariance` | The inductive invariant of accounts, links, sessions, tokens and keys, with what each request has established at each of its awaits |
|  | `NotesInvariance` | The inductive invariant of the integrations and their page |
|  | `SessionsAreSubscribed` | `SessionHasSubscription` |
|  | `RacesBoundTheCounts` | `CountsAreOvershotByRacesOnly` |
|  | `LinksFollowTheirStarter` | `LinkFollowsItsStarter` |
|  | `TheLastOneIsKept` | `LastOneIsKept` |
|  | `SecretsAreReplacedInHaste` | `SecretIsReplacedOnlyInHaste` |
|  | `PanelInvariance` | The inductive invariant of the profile page: what page, forms, requests and answers know of the row is as old as the write it is stamped with |
|  | `OwnerPagesAreTruthful` | `OwnerPagesTellTheTruth` |

None of the properties is inductive alone, and for one reason: a handler
between two awaits carries what it read, and the step that uses it is right only
because of what it had read. Each proof therefore begins with an invariant that
says, location by location, what the locals of a request imply about the tables.
It was checked by TLC before it was proved. The lemmas say that a step keeps
what the other requests know; then there is one lemma per action.

* `Billing`. `ReqShape` says that a slot about to apply a payment holds a genuine
  verdict about a charge, or an observation of a final transfer; `ChargeShape`
  how far a charge must have come for its order; `AppliedShape` that an applied
  payment is settled as paid. Evidence is stable: a charge paid in full, or a
  transfer that is final, never becomes otherwise. `Refinement` follows from the
  same invariant: only the two activations change what `Entitlement` sees, and
  each grants one account for one payment that was unspent. For
  `ClaimsCloseOnTruth` the invariant is strengthened by what a refusal about to
  be written is founded on (`RefusalsAreFounded`).
* `Registry`. A provider's live pool is one of its own two (`PoolsOfTheirOwn`),
  so a closed one is at hand when a list changes; a load has read a version the
  table really had (`ReadsOfThePast`). `NoStampede` needs a budget
  (`ReadBudget`): the reads in flight, the invalidations still to come, and the
  right to begin a read while none is joined together never exceed the versions
  the table has had. A write pays for its own invalidation.
* `Gateway`. `Located` gives each location its knowledge; `Growing` says that the
  chain under construction comes from the candidates looked at, so that
  `MAX_FALLBACKS` and the plan hold when it is complete; `Charged` ties the one
  successful row of a call to the model that answered it, and what was debited
  is the number of such rows.
* `RateLimit`. Windows follow one another without overlap, so an interval as long
  as a window meets at most two. The window before the present one let through
  its first call at its very start, which the interval does not reach, and so at
  most the limit less one after it; the present one at most the limit. The
  account's count is exactly what the keys let through since its window began,
  so what one key is refused costs the others nothing (`LimitInv`).
* `Wire`. Two invariants. The frames sent are always the opening, some deltas and,
  once the handler has ended, one of two ways to end; each dialect's grammar is
  then a fact about such sequences. For the metering a body is made of fours,
  so what the buffer holds is the beginning of one event and every event before it has
  been heard. Hearing goes event by event, and the text, the usage and the meter
  after an event depend on those before it only: so what a read hears is what a
  reader of the whole body hears between the same two events, and at the end of
  the body the counts are that reader's, whatever the reads were. The deltas
  heard and not sent are in the queue, which is empty where a stream ends well.
* `ProxyPool`. No cooldown ends later than one that begins now, so a request that
  comes back to the entry it has just failed through had found all of them
  parked. While nothing has failed, the cursor marks how far the present round
  has come, and the entries before it were used once more than the others.
* `Accounts`. `Referential`: whatever names a user names one with a row.
  `ClosedIsNameless`: a closed account keeps no address, so no sign-in finds it.
  `Fits`: what a request has established about its user. `LinksCounted`,
  `KeysCounted` and `NotesCounted` are budgets again: a request that has burned
  or counted already takes its place. `Calm`: a page that was not hasty waits
  for one request at a time, and shows no secret meanwhile. A page is hasty once it
  has sent a create or a rename while another of its requests was under way.
* `ProfilePanel`. Every write of the row is numbered, and what was read is stamped
  with the number: `Knows` and `Filled` say that a profile or a form with the
  row's number has the row's values. A save under way holds its form to what was
  submitted, but for the fields typed since (`FormIsHeld`); and as long as no
  other request, tab or device writes, the page and the one request under way
  make up the stored row between them (`AloneAgrees`).
* `ProviderBoard`. `Remembers` does the same with the version of a row and an id
  that is never given twice; `Edits` says that an edit is of a row its operator
  was shown, with the switch as it was shown unless he turned it. The rest is one
  conjunct per exception the property names: `NotRaced`, `BoardAlone`,
  `OneSpins`, `OwnDialog` say what is so until that history is written; a snapshot
  that never fell behind is the rows.
* `Metrics`. The invariant is short: what a scan has kept of the log (`HasRead`),
  every row of the window whose day was over when the page was opened, because
  rows are only appended, at the clock's time. The rest is arithmetic of one
  answer. A date of the window has a last bucket, which has all its rows (`Home`);
  so the buckets cut the rows of a window's dates into parts without a row in
  common, and a sum of their sizes, taken bucket by bucket along the recursive
  function `Total`, counts each row once. Where days are 24 hours long, the steps
  of the window are midnights, and its dates the days before.
* `Tables`. Every load says to which query it is the answer, and the last
  effect's is the one not aborted (`LoadsOfQuery`); a page beyond the last is
  reached only after rows went missing or in haste (`PagesReached`).
* `Console`. It rests on the catalogue's invariant: a request of the page stands
  where the service has taken it (`Stands`), a save keeps the editor it was sent
  from (`DraftsWait`), and as long as nothing else writes, a list that was read is
  the one stored, from the last write of its request to its answer (`ShowsStored`). A request that has
  written nothing has left the lists in force; one that has, and ends without an
  answer, leaves its page `missed` until another list arrives.
* `Catalogue`. `Sound` holds of every request: a row id is never given twice, so
  what a request read under an id is that row or is gone (`SameHand`). `BuriedDeep`:
  whoever has read the removed list since a deletion has the id on it (`Warned`).
  `Lonely` and `Settledness` are what stays true while requests come one at a
  time: what was read is what is stored.
* `Desk` and `DeskPages`. `RequestsKnow`: what a request knows of its ticket;
  `PlaceIsKept`: a create that counted alone keeps its place below the cap;
  `CentreDraft`, `QueueDraft`: every answer a page still waits for leaves it on
  the ticket its draft is about, unless the draft was crossed.
* The pages. `TransactionInv`: a ruling that is not provisional was made of the
  final effect, or of the chain the transaction was signed for (`Founded`). `OfferInv`: polls
  under way are about the pending order, so none can announce it twice.
  `WalletInv`: a prompt is up only for the network read (`Asked`), and the stage
  names the one handler that asks (`Locked`). `ShownInv` adds that the account
  announced last is the one the wallet has (`Told`), and that unless readings
  were blurred or an announcement went unheard there is at most one, for the
  account shown, and what it has read is so until the announcement of another
  network is heard (`Fresh`).

Only model-checked, and why: liveness (`PaidOrderIsApplied`, `CallIsAnswered`,
`Converges`), for fairness and ENABLED are beyond the prover. Every safety
property a passing run checks is a theorem. Two of them count over data that
grows (`MeteringIsHonest`, `DashboardAddsUp`): they need an induction over the
events of a body or the buckets of a window, which is carried out as an argument
about the least counterexample, a natural number (`LeastNumber`), in place of the
library's induction theorems.

The proofs assume nothing that the code does not do, but they are about the
models: what section 6 leaves out they do not cover, and the bounds on what goes
on for ever (`MaxMoves` and the like) stand in the guards there too, for any value.

## 6. Not modelled

* Cost arithmetic, prompts and payloads, header parsing, wording and layout;
  signatures and sealed secrets (a callback that does not verify is no event, a
  list that does not open is no list).
* More than one instance of the server, except for the registry's writes
  elsewhere and the rows that any request writes.
* In `Gateway` the windows of `RateLimit` are a call that may be refused at any
  time: nothing else of a call depends on them.
* The quota and the runway of the dashboard, the lists of the usage API; stateless checks of one request (CSRF,
  guards, the edge), cryptographic helpers, formatting of amounts and QR codes,
  wallet discovery and hex codecs, the remaining pages, seeds and scripts other
  than `promote-admin.ts`.
* E-mail verification; the deletion of an account under a payment or a call in
  progress.

Several type records (`Token`, `Ticket`, `Card`, `Bench` and so on) say what a
row or a page consists of and are there for the reader.

## 7. What would come next

1. An abstract specification of the catalogue (a model is offered or removed,
   and only an operator changes which) that `Catalogue` implements where
   requests do not overlap; `CatalogueInv` holds what its refinement needs.
2. `Gateway` with `Registry` composed: a link resolved before its pool closes.
   `PoolsMatch` and `ChainsStayInPlan` are the two halves of what it would rest on.
3. The quota and the runway of the dashboard, over `Metrics`.
