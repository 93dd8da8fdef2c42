# HAKAWI: a verification project

HAKAWI sells, rents and publishes books. Its core is the NestJS backend under
`src/backend/src`; what follows is about that backend. The modules in this
directory model its money path (checkout, webhooks, refunds), what the money buys
(ownership, rentals, extensions), the tagged cache most services read through, the
sessions of a user and the lockout before them, the circuit breaker around
external services, writing contests, and the migration runner.

## 1. The system

### Components and their state

| component | state | operations | talks to |
|---|---|---|---|
| payments (`modules/payments`) | tables `payments`, `refunds`, `payment_transactions_p` | createPayment, registerPaymobCheckout, updateStatus, createRefund, handlePaymobWebhook | Paymob over HTTP; emits `payment.completed`, `refund.completed` |
| books shop (`modules/books`) | none of its own here | purchase, rent, assertReadAccess | payments, library, rentals |
| library (`modules/library`) | table `library` (owned and rented rows) | addToLibrary, removeFromLibrary, removeBookForRefund, listeners | events |
| rentals (`modules/rentals`) | table `rentals` | extendRental, returnRental, listeners | payments, events |
| tagged cache (`modules/shared/cache`) | Valkey: entries, one index set and one generation per tag | getOrSet, invalidateKey, invalidateTags | Valkey, every service that caches |
| events, dead letters (`common/events`) | in-memory emitter; Valkey: parked events | emit, replayDeadLettered | every module |
| resilience (`common/resilience`) | per process: breaker state, mirrored to Valkey | execute (breaker, retry, timeout), request | Paymob, CMS, mail |
| sessions (`modules/auth`) | Valkey: revoked refresh tokens, revoked users, reset tokens | login, refreshTokens, resetPassword | users, Valkey |
| account lockout (`modules/auth`) | Valkey: attempts and locks per user and per address | record, check, clear | sessions |
| migration runner (`db/migrations`) | ledger table, advisory lock, the schema itself | up, down, adoption of legacy rows | PostgreSQL, other processes |
| database router (`db/router.ts`) | replica health | every `db.select` to a replica held healthy, all else to the primary | PostgreSQL; every repository |
| contests (`modules/contests`) | tables of contests, submissions, votes, prizes | start, cancel, update, complete, selectWinner, submitStory, review, vote, prize | events |
| stories, messages, moderation, social, users, admin, upload, search | one or more tables each | mostly CRUD | events |
| throttler, firewall, restrictions, captcha, email verification | Valkey counters with a TTL | one command per request | Valkey |

`PROJECT.json` lists every component with its sources, modelled or not.

### How they interact

A route opens a checkout: a payment row, then a Paymob order. Paymob reports what
became of each attempt to pay in webhooks, repeated until they are answered, in
any order. A completed payment is announced by `payment.completed`; the listeners
of library and rentals each read the payment's metadata and grant what was sold. A
settled refund is announced by `refund.completed`; the same listeners take it
back. `emit` is fire and forget: the emitter does not wait, the event lives in
memory, nothing is stored or retried.

### What is hard

* *No lock but one.* `reserveRefundCapacity` and `reconcileRefundCapacity` lock the
  payment row. Everything else reads a row, decides, and writes by id.
* *The gateway call is outside every transaction.* A refund holds capacity while
  Paymob decides; Paymob may return the money although the call failed.
* *Delivery.* Webhooks are repeated and concurrent; events are lost with the process.
* *By reader and book.* Entitlements are looked up by reader and book, not by
  payment; no unique index stops a second row.
* *Old rows.* The library, rentals, contests and books are read through `db.select`, which
  the router answers from a replica: a check may see rows older than a write that has
  returned, even when nothing overlaps. Only payments and users read the primary.
* *The cache.* Comparing the generation, storing and indexing are three commands, and a
  generation says nothing of the replica a loader reads.
* *Sessions.* The blacklist is looked at, and later written, in separate commands; a
  reset touches the row, the key and the blacklist of the user one after another.
* *Lockout.* Count, lock and delete are three commands, and a success deletes in two.
* *The breaker.* `execute` keeps a JavaScript object across its awaits, `transitionTo`
  writes the one the Map holds by then; late answers and several probes count alike.
* *Contests.* Every route reads the status, then writes by id.
* *Migrations.* Processes of different releases run against one database, and may die
  between any two statements.

What makes each part correct is stated as the properties in section 3.

## 2. The modules

A step is what a handler does between two `await`s (several reads with nothing
between them that another step could disturb count as one). Every handler in
progress has a record of its own: where it is (`pc`) and what it has read. A
definition named like a function of the source stands for it; the exact lines are in
the `map` of `PROJECT.json`. Definitions marked `Mutant` are wrong on purpose:
replacing the definition below them shows that a property can fail.

**`RefundLedger`** is the abstract specification of refunds: a refund holds part of a
payment, and then is settled or released, once.

**`Payments`** is the payments module, with Paymob and the customer as environment.

| code | model |
|---|---|
| `createPayment`, `registerPaymobCheckout`, `failPaymentAfterGatewayError` | `CreatePayment`, `CheckoutRegistered`, `CheckoutFailed` (both updates by id, whatever the status) |
| `handlePaymobWebhook` | `WebhookCheck` (reads and refusals), `WebhookStore` (update), `WebhookRecord` (transaction row, emit), `WebhookRecordRefused` (the row is refused) |
| `updateStatus` | `UpdateStatusCheck`, `UpdateStatusStore`, `UpdateStatusAnnounce` |
| `createRefund`, `reserveRefundCapacity` | `ReserveRefund`, one transaction under the row lock, and the service's checks after it |
| `submitRefundToGateway` | `RefundSettled` + `AnnounceRefund`, `RefundStillPending`, `RefundRejected` |
| `markRefundFailed`, `releaseRefundCapacity` | `MarkRefundFailed`, `ReleaseRefundCapacity` |
| a stop, a rejected await | `Abort`, at any `await` |

Paymob (`Pay`, `SettlePending`, `PaymobReturnsMoney`) is assumed to stop attempts
after a capture (the checkout asks for it) and never to return more than it
captured; it may execute one refund call `MaxAttempts` times. Amounts are whole
cents. `payment_transactions_p` matters only through whether its insert succeeds: the
code leaves `id` and `created_at` to the database, and neither the drizzle schema nor the
migrations give them a default, so the tables of this repository refuse every row
(`WebhookRecordRefused`). `WebhookRecord` is a database that fills them in, by a default
added or a trigger; the properties hold for any mixture of the two. `byHand` records the
payments whose status an operator has written.

**`Entitlements`** is library, rentals and the shop for one reader and one priced
book. `sale` stands for the payments and their metadata: that they become captured
and refunded in that order is what `Payments` is about. `EventRepeated` is there
because `Payments` can announce a payment more than once, also after its refund, and each
partial refund announces itself. `library` and `rentals` are sequences, oldest first;
library rows are marked instead of deleted. Time is one bit per rental: is the end date
over? Handlers occupy `Slots`; the listener of an event that a handler emits last
continues in the slot.

Every look-up of the shelf or of a rental is answered with the latest rows or with older
ones (`ReadShelf`, `ReadRental`, `Reading`): any row that was ever there or none, by any
lag; the count of an extension may be any up to the cap. `saw` records which
of nine circumstances have occurred, so that a property can name exactly those it
excludes: overlapping handlers (`overlap`), a refund handled while a payment is
(`overtaken`), rival checkouts (`rival`), a removal by the reader (`removed`), a repeated
event (`repeat`), `payment.completed` again after the refund (`late`), a lost handler
(`loss`), an answer with older rows (`old`), and one that hid the rental a refund ends
(`missed`). `MaxMishaps` bounds repeated events, lost handlers and old answers together.

**`TaggedCache`** is `getOrSet` against updates that invalidate in the three ways the
services use: `invalidateKey` with its tag (books, users, rentals, stories),
`invalidateKey` without tags and then a sweep (payments), and a sweep alone (search).
Every Valkey command is a step; entries and indexes expire; a call may fail
anywhere. Values are row versions; `Load` reads any former version, as a replica may.
`invalidated` is the version up to which an invalidation of the key has returned. `saw`
records the four circumstances in which an old entry can survive: a comparison before an
unfinished invalidation bumped (`window`), an entry not yet indexed (`unindexed`), a write
without a snapshot (`blind`), and a load from a replica behind an invalidation that has
returned (`lagged`).

**`MigrationChain`** is the abstract specification of the migration runner: migrations
are applied in the order of their numbers and taken back newest first.

**`Migrations`** is the runner. A migration is a number; a release is a directory: which
files it has (`File`), with which content, and how each down script is declared
(`DownScript`). `Init` is an empty database or one that the previous runner brought
some way. `EnsureLedgerTable`, `Acquire`, `AdoptLegacyRow`, `PlanUp` and `PlanDown` (the
refusals of `assertNoDrift` and of the reversibility check among them), `ApplyFile` and
`RollbackMigration` (each one transaction) and `Finish` are the steps of a command;
`Refuse` and `RollbackRefused` are its errors, `CutShort` a rejected statement or the
death of the process. `schema` is what was executed, `ledger` what is recorded.

**`Sessions`** is one user's refresh tokens, codes of a password reset, and the key that
revokes every token of the user.

| code | model |
|---|---|
| `login`, `register` (their tokens) | `Login` |
| `refreshTokens` | `RefreshBegin` (verify), `CheckBurned`, `CheckBlocked`, `CheckBanned`, `Burn`, `RefreshMint` |
| `logout` | `Logout` |
| `forgotPassword` | `ForgotWrite` (row), `ForgotKey` (Valkey) |
| `resetPassword` | `ResetBegin`, `ResetCompare`, `ResetWrite`, `ResetDelete`, `Block` |
| `upgradeAccount` | `UpgradeWrite`, `Block` |
| lifetimes | `TokenExpires`, `BlockExpires`, `KeyExpires` |

Time is the order of expiries. A token is a signed text without an identifier, so two
minted in one second are the same text: a new token may have the text of the former one.
`rivals` and `overtaken` record the overlaps that some properties exclude.

**`Lockout`** is the lockout of one subject, a user or an address; the two kinds of keys
are handled by the same code and share nothing. `CheckStatus`, `Wrong` / `Right` /
`Refused` (the comparison), `AlreadyLocked`, `Count`, `Lock`, `Forget`
(`recordFailedAttempt`), `ClearAttempts`, `ClearLock` (`clearOnSuccess`), the two
expiries and `CutShort`. `tried` counts wrong passwords since a success or an expiry;
`lost` records that a failure was not recorded, or was deleted by a login whose lock a
success had cleared in between.

**`Resilience`** is one circuit name of one process: retries around the breaker around a
fetch with a timeout, and the copy of the breaker's record in Valkey. Objects have an
identity (`heap`, `current`, `req[r].obj`), because `execute` and `transitionTo` may hold
different ones. `lastFailureTime` is none, recent or old. A request loads the copy
(`LoadCopy`, `LoadNothing`, `LoadFails`), is `Admitted` or `Rejected`, is answered
(`Succeed`, `Fail`) and stores (`Closed`, `Saved`, `Opened`, `Failed`); the retry is in
how each of these ends. `TimePasses`, `CopyExpires`, `Reset` and `Restart` are the
surroundings. `probes`, `proven`, `late` and `split` are history.

**`Contests`** is one contest: each route is a check (`StatusCheck`, `UpdateCheck`,
`SelectCheck`, `ReviewCheck`, `SubmitCheck`, `VoteCheckContest`, `VoteCheckEntry`,
`PrizeCheck`, `findWinningSubmission`) and a write by id (`StatusWrite`, `CompleteWrite`,
`SelectWrite`, `ReviewWrite`, `SubmitWrite`, `VoteWrite`, `PrizeWrite`). The clock runs and
PATCH moves the dates either way, so a check of a date may pass or refuse at any time.
Every check is answered by the row as it is or as it once was: `was` keeps the statuses
the contest has had, `approved` whether an entry ever was, `led` who was ahead at any time.
`saw` records the overlaps: two changes of status (`rivals`), a vote being cast while the
winner is looked up (`vote_overlap`), two submissions of one writer (`double_submit`); and
the old answers that matter: a change of status (`old_status`), a vote (`late_vote`), the
choice of the winner (`old_votes`) or a submission (`old_entry`) that was checked against
older rows. `MaxOddities` bounds how many of these kinds one behaviour shows.

The proofs are in **`PaymentsProofs`** (with those of `RefundLedger`, and lemmas on sums of
amounts, written as numbers of (refund, cent) pairs so that they can be proved about
without induction), **`EntitlementsProofs`**, **`TaggedCacheProofs`**, **`ContestsProofs`**,
**`ResilienceProofs`**, **`MigrationsProofs`**, **`SessionsProofs`** and **`LockoutProofs`**;
the instances for TLC in **`MCPayments`**, **`MCEntitlements`**, **`MCTaggedCache`**,
**`MCMigrations`**, **`MCSessions`**, **`MCLockout`**, **`MCResilience`** and **`MCContests`**.

## 3. What the runs check

### Runs that pass

| run | instance | shows |
|---|---|---|
| `payments_safety` | one payment of 2 cents, one attempt to pay, two webhook workers, one operator, two refunds, every report, one abort | `TypeOK`; `ImplementsLedger` and `NeverOverRefunded`: live refunds never exceed the payment; `AnnouncedRefundsReturned`: a refund is announced only after the money went back; `AnnouncedOnlyCaptured`: a webhook announces only what was captured in full; `AnnouncedOncePerOverlap`: a payment no operator writes is announced at most once per overlapping delivery; `SoldStaysSold`: neither the checkout's unconditional updates nor a refund takes a completed payment elsewhere than to refunded and back |
| `payments_live` | one payment of 3 cents, one worker, three refunds, every report, no operator, no abort, `FairSpec` | `RefundIsResolved` (liveness): a refund is announced, left to Paymob, or failed with its capacity given back; `RefundedIffCovered`: the derived status is right when all is quiet |
| `entitlements` | two sales, two slots, one extension, one mishap (a repeated event, a lost handler or an old answer) | `OwnershipWasPaid`, `ExtensionsWithinCap`, `RefundedRentalsEnd`, `RefundedReaderHasNothing`, `NothingPaidInVain` |
| `cache` | two keys, one reader, two writers, two updates | `StaleWriteRefused`: the comparison refuses whatever an invalidation has overtaken; `FreshOutsideTheWindow`: an old entry comes only from one of the four named windows |
| `migrations` | three migrations, three releases (complete; one that lacks 2; one from before 3 with 1 edited), two processes, four commands, cut short anywhere, on an empty or a legacy database | `LedgerTellsSchema`: the ledger is the schema; `ImplementsChain`: in order up, newest first down, whoever runs; `CommandsEnd`: no command waits for ever (liveness) |
| `sessions` | two requests at a time, five begun, three tokens, two codes, everything cut short anywhere | `OneSuccessor`: a token is exchanged once; `RevokedIsFinal`: no refresh begun with a burned or revoked token mints; `CodeWorksOnce`, `LastCodeAccepted` |
| `lockout` | three logins at a time, a limit of three | `TriesAreBounded`: wrong passwords compared are bounded by the limit and the logins already past the check; `LimitLocks`: when no login is in progress, the limit has locked |
| `resilience` | two requests, each sent up to twice, thresholds of two, one mishap (Valkey failure, restart, reset, replaced object) | `OpenCanRecover`, `OpenRecovers` (liveness): an open breaker is not stuck; `ClosedByProbes`: it closes by its threshold of good answers; `ServedOnce`: a request whose good answer was read is not sent again |
| `contests` | two users, two entries, two requests in progress, one kind of oddity | `OutcomeStands`, `WinnerHasMostVotes`, `OneEntryEach`, each outside the overlaps and old answers it names; `VotesAreEarned` without exception |

The properties of entitlements exclude circumstances on purpose, and the model shows
why: with a handler cut short, a refund overtaken by its grant, or `payment.completed`
delivered again after the refund, the code does leave a refunded reader with the book;
with rival checkouts, a reader does pay for nothing. So it is with `rivals` in contests and
sessions, `overtaken` in sessions, `split` in resilience and `lost` in lockout: the code has
nothing against these, and the properties say that nothing else does harm.

*Old answers.* These hold whatever rows the replicas answer with: `OwnershipWasPaid`,
`ExtensionsWithinCap`, `VotesAreEarned`; `RefundedRentalsEnd` for every look-up but that of
the rental a refund ends; `OutcomeStands` for every check but those that change the status;
`FreshOutsideTheWindow` for every load but one behind an invalidation that has returned.
`RefundedReaderHasNothing`, `NothingPaidInVain`, `WinnerHasMostVotes`, `OneEntryEach` and
`StaleWriteRefused` do not hold then, even for requests that come strictly one after the
other, and name the old answer as their exception. *Served*, in resilience, is a good
answer that was read: a call executed but timed out, or answered with a body that
cannot be parsed (`fetch.util.ts:150-155`), has failed and is sent again.

*Bounds.* Two cents allow full and partial refunds, and two refunds that together
reach or exceed the payment; refunds of different payments share nothing. Two workers
give every overlap of two deliveries, and a third could only repeat an outcome. Two
sales cover every pair of kinds, including an extension of a rental, and a slot is
reused, so handlers of old and new events meet. In `cache`, one reader is enough
for its own races with invalidations, since readers meet only in entries and the
index, and it may run any number of times between two writers; two keys are needed
for a sweep that drops another key's index entry. Counters with a bound:
`MaxAttempts`, `MaxAborts`, `MaxExtensions` (2 in the code), `MaxMishaps`,
`MaxUpdates`, `MaxCommands`, `MaxTokens`, `MaxCodes`, `MaxBegun`, `MaxEntries`, `MaxOddities`,
`MaxRetries`. In `payments_live` three refunds of three cents allow one that covers the
payment, and several that only do together, in any order of failure. In `contests` one kind
of oddity is enough to see which properties survive it, since a property names the kinds
it does not survive; in `entitlements` one mishap meets everything else once (the proofs
have no such bound).
Three migrations allow one that is missing between two others, and four commands
an up and a down by each of two processes. In `sessions` a token, its successor and the
successor's or a later login's are enough for an exchange repeated and for a revocation
between two logins; five begun requests allow a forgot and a reset for each of two codes
and a refresh among them. In `lockout` the limit equals the number of logins at a time,
so that all of them may cross it together; the constraint `FewTries` stops counting one
past the bound the properties claim, where a violation would already show. In
`resilience` two requests with two attempts each give four failures, so the breaker can
open twice and be half open with two probes; one mishap is enough for each kind to meet
all the rest. Runs without symmetry are those that check liveness or have nothing to
permute. `CHECK_DEADLOCK FALSE`: every system here may stop when nothing is asked.

*Fairness.* `payments_live`: a refund that has begun goes on, and its call to Paymob ends in
one of its answers, because `PaymobClient` has a timeout. Nobody has to pay, to refund, or to
change a status, and no report has to arrive. `migrations`: a command's next
step is weakly fair, because each migration runs under a lock timeout and a statement
timeout; nobody has to start a command, and being cut short is never required.
Waiting for the lock is not made strongly fair, as the bounded number of commands leaves
nobody who could take it for ever. `resilience`: a request goes on (the fetch has a
timeout), time passes, and somebody asks, whoever that is: an open breaker looks at its
recovery time only when it is asked. The other specifications state no fairness and
have no liveness property.

### Runs in which the code does not do what it says

| run | says | does |
|---|---|---|
| `payments_uncaptured` | a failed, cancelled or pending payment "was never fully refunded and is left alone" (`payments.repository.ts:296-297`) | a full refund asked for such a payment sets it to refunded; the refusal afterwards repairs that to completed |
| `cache_window` | "a write that *started* before an invalidation can never *complete* after it" (`tag-generation.ts:37-38`) | it can between the comparison and the store |
| `sessions_login` | a reset or an upgrade revokes the tokens there are (`auth.service.ts:1077`), and the refused user is told "Please log in again." (`auth.service.ts:783`) | the key refuses every refresh of the user for the lifetime of a refresh token, those of later logins included: such a session ends with its first access token |

Noticed while reading, and modelled or listed as hazards without a run of their own:

* *Payments.* A report of a pending transaction fails the payment, which is final, so
  the capture that follows is never announced (`paymob.schemas.ts:211`;
  `payments/README.md:202-203` calls it not completed yet). `createTransaction`
  (`payments.repository.ts:181-191`) supplies neither `id` nor `created_at`, which
  `payments.schema.ts:86,93` and migration 0035 (lines 217 and 224) declare NOT NULL without
  a default: with the repository's own tables the insert is refused after the payment was
  completed and before `payment.completed` is emitted, the redelivery is answered
  `already_processed`, and nobody gets what was paid for. So that a capture is announced is
  not stated. A refund that timed out is reported as not submitted although Paymob may have
  executed it.
* *Replicas.* `docs/consistency-matrix.md:52,58` classes Commerce and Contests as Strong, and
  ADR 007 says that such data never reads from a lagging replica. But every `db.select` goes
  to a replica (`router.ts:273-283`; `docker-compose.yml:222` configures two), and only
  `payments.repository.ts` and `users.repository.ts`, of the modules here, read `dbPrimary`.
  The bound of `MAX_REPLICA_LAG_MS` (`router.ts:60`, 2 s) is compared with the lag of the
  last probe, made every 5 s by a read that does not wait for it; a replica counts as
  healthy before its first probe (`:126`) and while its lag is unknown (`:214`). The probe
  asks for `pg_last_wal_replay_lag()`, which is not among the functions PostgreSQL
  documents; where it is missing, a probe fails and the reads go to the primary from then
  on, and the replicas answer only until the first probe has ended. The models do not
  depend on which it is: any answer may be old, by any amount.
* *Entitlements.* Two deliveries of `payment.completed` at once create two rentals: the
  "unique index" of `rentals.event-handler.ts:33-36` is a plain one
  (`rentals.repository.ts:34`). With both checkouts opened first, the refund of a
  purchase removes the rental's shelf row, which `library.service.ts:168-171` rules out.
  Partial refunds each emit `refund.completed`, so the first already revokes the book and
  a later one may expire a newer rental. A lapsed rental stays `active`, and its shelf row
  blocks a new checkout. Two paid extensions at once count as one.
* *Cache.* A sweep may drop a tag's index just after a key was added to it.
* *Migrations.* The comment at `migration-runner.ts:189-191` says that a second runner
  fails fast with `pg_try_advisory_lock`; the code waits in `pg_advisory_lock`. The
  ledger table is created before the lock is taken. An empty down script is noticed only
  when its turn comes, with newer migrations taken back already (`RollbackRefused`).
* *Sessions.* Two tokens minted in one second are one text, so burning one burns the
  other, although `auth-overview.md:284` calls each independent. A refresh past its
  checks is not stopped by a revocation. A `jwt.refreshExpiry` that cannot be parsed is not
  refused (`jwt.config.ts:30`); the blacklist then lasts 7 days (`auth.service.ts:950-960`),
  which may be less than the tokens do. The model takes a configuration that can be parsed.
* *Lockout.* The progressive delay is computed and nothing waits for it; `unlockUser`
  and `unlockIp` have no caller. A success between another login's lock and its deletion of
  the counter lets that deletion forget later failures.
* *Resilience.* A transition meant for an object that `reset()` (called by tests only) or
  a second concurrent first load replaced leaves the new record open without a failure
  time: it refuses every call, and the copy in Valkey carries that over a restart. The
  retry recognises the error of `TimeoutService` as not retryable, while the fetch ends
  earlier or at the same time with its own, which is retried.
* *Contests.* The status `voting` is reached only by an update of the contest, and
  `contest.started`, which should tell every entrant (`contests.event-handler.ts:180`), is
  emitted before there can be one. `complete` may choose an entry that was rejected or
  never reviewed, and a prize is not compared with the winner.

## 4. What is proved

The theorems hold for every value of the constants that the module's named
assumption allows: any number of payments, transactions, workers, sales, slots, keys,
readers and writers, any price and any bound; any releases, processes and migrations; any number of requests,
tokens and codes; any limit on attempts.

* **Refunds.** `LedgerNeverOverRefunded` is inductive: `Hold` checks the sum it adds to;
  `Settle` keeps it and `Release` shrinks it. The lemmas on cents turn the sum into
  the size of a finite set.
* **Payments.** `PaymentsTypeCorrect`. `PaymentsImplementLedger`: each step of `Payments`,
  seen through `LedgerView`, is a ledger step or a stutter; it needs that a refund being
  handled is still pending in the table (`RefundFlow`).
  `PaymentsNeverOverRefunded` then follows from the ledger's theorem.
  `RefundsAnnouncedRight` and `OnlyCapturedAnnounced` strengthen what is announced by
  what a handler on its way to announcing has already seen: a report in `notices` was
  the outcome of an attempt (`CaptureFlow`), a settled refund was returned.
  `AnnouncementsBounded`: no delivery can be about a payment whose order is not stored, so
  `registerPaymobCheckout` overwrites nothing a webhook wrote (`Opening`); while the status
  is open every delivery has only read, and from then on announced and busy deliveries
  together are no more than the workers (`Announcing`); an operator sets only the payments
  it writes aside. `SalesStaySold`: from `Opening`, the checkout is over before there is a
  transaction, and reserving, releasing and repairing stay between completed and refunded.
  `StatusFollowsRefunds`: a payment reads refunded while it is covered or a failed refund
  has yet to release it, and is covered while it reads refunded or a refund has yet to be
  undone (`CoverOf`); before a webhook stored a transaction every live refund will be undone.
* **Entitlements.** `EntitlementsInvariant`: the tables only grow, a paid sale stays paid
  and keeps its kind, and what a handler has read stays true of what it will write
  (`Backed`), in particular that an extension was below the cap when it was read. Each
  lemma describes what a step does to one table. `EntitlementsTypeCorrect`,
  `OwnedBooksWerePaid` and `ExtensionsAreCapped` follow.
  `RentalsEndWithTheirRefund`: unless a refund overtook its grant or an event of the
  payment came after it, grants and refunds take turns (`InTurn`), and an active newest
  rental is backed by an unrefunded payment or is about to be ended (`Backing`), whatever the
  other look-ups are answered with. `RefundsTakeTheBookBack` is the same for the shelf, where
  one handler at a time keeps one row at most (`OneOnShelf`). `NobodyPaysInVain`: with one
  checkout at a time there is one sale on its way, nothing it will be checked against
  comes up meanwhile, and each of the things that could get in its way (a rental on the
  shelf, a purchase, a withdrawal in progress) says that nothing else is under way
  (`Delivered`).
* **The cache.** `TaggedCacheInvariant`: an announced version is in the database
  (`NotAhead`), and no snapshot is newer than the generation (`SnapshotsArePast`). So a
  bump separates every earlier snapshot from the generation, and a snapshot that still
  stands was followed by a load after all announced versions, which is as new as they
  are unless a replica was behind them. `StaleWritesAreRefused`.
  `OnlyTheWindowsAreStale` needs what holds in the middle of an invalidation while none of
  the windows has been met (`Undisturbed`): a key dropped stays dropped until the bump,
  and who has compared carries a value as new as what was announced, with no
  invalidation of the key past its drop.
* **Contests.** `ContestsTypeCorrect`. `VotesEarned`: a vote past its checks is for somebody
  else's entry that was reviewed, and no step takes that back, since entries keep their
  author and are never pending again (`EntriesStay`, `Earned`). `OneEntryPerWriter`: without
  two submissions of one writer at a time, and while the look-up knows the writer's entry,
  each in progress is a first one (`FirstEntries`). `TheOutcomeStands`: without overlapping
  changes of status, each checked against the row as it is, the one in progress is of a
  contest that is not over and nothing presupposes an outcome (`Undisputed`).
  `TheMostVotesWin`: unless a vote overlapped the look-up or an old answer let one pass or
  hid one, no vote is in progress from the look-up on, so the writer found is still ahead
  when the outcome is written (`Tally`).
* **Resilience.** `ResilienceInvariant`: until the Map's object is replaced under a request
  (`split`) there is one object, which every request inside `execute` keeps; it and its
  copy know when they failed if they are open, and its successes are counted answers to
  its probes (`OneObject`). A request whose good answer was read is on its way to an answer or to an error that
  is not retried (`Honest`). A new object is always free, by counting the requests
  (`FreshIsFree`). `ResilienceTypeCorrect`, `OpenBreakersCanRecover`; the action
  properties `ProbesClose` (only `Succeed` closes a half-open breaker, with the success
  that completes the count) and `ServedIsNotSentAgain`.

* **Migrations.** `MigrationsInvariant`: besides the types and `LedgerTellsSchema`, what a
  process has planned under the lock stays right while it holds it (`WorkOK`): files
  still to apply are newer than all in effect, migrations still to be taken back are the
  newest ones. Only the holder changes the schema (`Alone`), which is all the lock
  is needed for. `LedgerIsTheSchema`, and `MigrationsImplementChain`: `Migrations` implements
  `MigrationChain`.
* **Sessions.** `SessionsInvariant` has one part per property, since none is inductive:
  `Rotating` (who may mint has burned the token, and a token with a successor is not
  past the blacklist in anybody's hands), `Spending` (a used code is out of the row for
  good), `Revoking` (the block outlasts the tokens it is about, and a refresh begun with a
  revoked token is still before the check that refuses it), `Storing`, and `Referring`
  (requests name what exists). `TokensHaveOneSuccessor`, `CodesWorkOnce`,
  `TheLastCodeIsAccepted`, `RevocationIsFinal` follow.
* **Lockout.** `LockoutInvariant` counts where the logins are (`Counted`): attempts past
  the limit belong to logins that will lock; without a lock, wrong passwords not
  counted yet belong to logins about to count them; those being compared have room
  under the limit. The lemmas say how such a count changes when one login moves
  (`AtMoves`) and that the places are disjoint (`AtDisjoint`). `TriesBounded`, `TheLimitLocks`.

Only model-checked: liveness (`RefundIsResolved`, `CommandsEnd`, `OpenRecovers`) is out of the prover's reach, as is anything with `ENABLED`. Every type
invariant, safety invariant, action property and refinement that a passing run checks is a
theorem. No model uses a recursive definition, so nothing is lost to induction over data.

## 5. The plan

Written so far, in order of importance: money, what it buys, the cache; sessions and
lockout, migrations, resilience, contests. What is left:

1. **Proofs.** The liveness properties stay with TLC; further proofs come with what is
   modelled next, in the modules there are.
2. **Composition** of `Payments` and `Entitlements`: the two events of one as the steps of
   the other, so that what `Entitlements` assumes of a sale (captured, then refunded, in
   that order) is checked.
3. **Dead letters** as the source of `EventRepeated`, and the statuses of moderation and of
   verification requests, where two operators may overlap.
4. **Sessions**: OAuth state and MFA.
5. **Replicas**: which answers a router with several replicas can give one reader in
   sequence (a later answer may be older than an earlier one), for which the models now
   allow everything.

Properties are limited to those a reader will keep in mind; a new one had better
replace a weaker one.

## 6. What is not modelled

* CRUD modules (stories, comments, follows, notifications, messages, moderation, users,
  admin roles, categories, tags) have one row per operation and no protocol.
* The firewall, throttler, captcha and email verification are one atomic command or a
  pure rule per request; account restriction is a cached read.
* Uploads, search, mail and the CMS copy are I/O.
* `CacheInterceptor` repeats the protocol of the tagged cache, but no route carries its
  decorators.
* Of the database router only its effect is modelled: a select of the library, rentals,
  contests or a cached row may be answered with older rows. Its pools, the round robin, the
  probes and their cached result are left out.
* Dead letters are replayed by hand, one request with two commands; only the handlers
  modelled here would see them, as repeated events.
* The fallbacks of `fallback.service.ts` compute an answer and keep no state.
* The frontend, infrastructure, monitoring and scripts are outside: clients,
  deployment, text.

Within the modelled parts: free books (`claimFreeBook`), the access stamp of
`accessItem`, the unused `checkAndExpireOverdue` and `softDelete`, several tags per key,
several books or readers (they share no rows), several contests or users (likewise),
OAuth and MFA, access tokens (nothing revokes them), the splitting of SQL into
statements, the runner's read-only commands, delays between retries and their
statistics, formatting, logging, metrics, pricing and the payment-method choice are left
out.
