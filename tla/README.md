# Join Events: a verification project

TLA+ models of the Join Events platform (a NestJS API over PostgreSQL and Redis, a
Next.js site and an Expo app), checked with TLC and, where marked, proved with TLAPS.
The API's services are where the state is; the clients matter only for how they keep
and renew a session. All paths below without a prefix are under `apps/api/src/`.

How to run: `tlc -config MCBookings_races.cfg MCBookings` (and so on, see *Runs*), and
`tlapm Bookings_seat_proofs.tla` (then `money` and `settle`, `Sums`, and the proofs of
`Cashflow`, `Sessions`, `Social` and `Services`). None takes more than a few minutes.

## 1. Inventory

| component | state it keeps | operations | what makes it correct |
|---|---|---|---|
| Wallet (`wallet/`) | `wallets` (available, pending), `wallet_entries` | getOrCreate, transfer, reads | balanced transfers; rows equal the ledger; no user or business below zero |
| Bookings (`bookings/`) | `bookings`, `stalls.booked` | book, cancel | the last slot is sold once; one booking per vendor and stall; a booking, its slot and its money go together |
| Escrow job (`queue/`) | `bookings.status`, wallets | releaseEscrow, hourly | every due booking paid out, once, and never both refunded and paid out |
| Billing job (`queue/`, `subscriptions/`) | `subscriptions` | subscribe, cancel, billSubscriptions | one charge per month; past_due can be left again |
| Payments (`payments/`) | `payment_events` | initiateTopup, handleWebhook | a paid top-up is credited, once, in any order of reports |
| Withdrawals (`withdrawals/`) | `withdrawal_requests`, pending bucket | request, decide | what is held is listed; what is decided has moved; nothing is spent twice |
| Events (`events/`) | `events`, `stalls` | create, update, submit, remove | no event with bookings disappears; dates and status agree with what bookings assume |
| Cache (`cache/`, `redis/`) | Redis keys, in-flight loads | wrap, invalidatePrefix | no stale value outlives its invalidation |
| Auth (`auth/`) | `users`, `user_sessions`, OTP and token keys in Redis | OTP, email, Google sign-in, refresh, logout, reset, delete, onboard | a refresh token is used once; a revocation leaves no session |
| Web session (`apps/web/src/lib`) | stored tokens, one in-flight refresh per page | call, refresh, hydrate, logout | a user who did nothing wrong is not signed out; a page does not load for ever |
| Mobile session (`apps/mobile/src/lib`) | stored tokens | call | (not modelled: it never refreshes) |
| Featured (`featured/`) | `featured_listings` | boost | caps per event, city and society; paid if and only if listed |
| Applications (`applications/`) | `event_applications` | submit, decide | terminal states are terminal |
| Profiles, onboarding (`business-profiles/`, `auth/`) | `business_profiles`, `users.primary_role` | onboard, create | a role has its profile, a type one profile |
| KYC, admin (`kyc/`, `admin/`) | `verification_requests`, `business_profiles.verified` | submit, approve, reject | an approval is of what was submitted |
| Social (`followers/`, `posts/`, `reviews/`) | rows and the counters kept beside them | follow, like, comment, delete, review | a counter is the number of its rows |
| Buttons (`PostCard.tsx`, `FollowButton.tsx`) | what they show before the server has answered | tap | at rest they show what is stored |
| Enquiries, products (`enquiries/`, `products/`) | rows | create, reply, markRead, hide, remove | markRead does not undo a reply; no enquiry without its product |
| Connection pool (`prisma/`) | connections in use | borrow, return, time out | requests that wait for each other end |
| Societies, notifications | rows | create, read | (not modelled) |
| Uploads, search, recommendations, health, metrics, pages | none of their own | I/O and reads | (not modelled) |

**How they interact.** Every service that moves money calls `WalletService.transfer`.
The call opens a database transaction *of its own*: it takes no transaction from its
caller, although `book` and `cancel` call it from inside one. Payments, withdrawals,
featured listings and subscriptions have no outer transaction at all: they read, call
`transfer`, and write a status row, three separate statements. The hourly jobs run in
every API process that has a worker. Events are read by bookings and by the job (their
status and dates), and edited by their organiser at any time. Listings are read through
the cache, which writers drop by prefix after their commit. Clients talk to the API
only by requests, which may be sent twice and at once.

**What is hard.** Interleavings of requests between two awaits; state read before an
await and used after it; the outer transaction being undone after the inner one has
committed; crashes between a transfer and the write that records it; duplicated,
reordered and late webhook reports; unconditional updates; the same job in two
processes; counters at their limits. `PROJECT.json` lists each hazard at its line, and
the properties that would catch it, or a note on why none can.

## 2. Modules

| module | models | state and actions |
|---|---|---|
| `Wallet` | `WalletService.transfer`, the CHECK constraint of `seed.ts` | `wallets`; `Transfer(legs)` is an operator the other modules build actions from: enabled exactly when the call succeeds |
| `Bookings` | `BookingsService.book`, `.cancel`, `QueueRunner.releaseEscrow`, the parts of `EventsService` they read | the tables, the ledger as counts of transfers by purpose, and per handler a step (`pc`), whether its outer transaction is still open (`open`) and its arguments |
| `BookingPromise` | nothing: what a booking promises, each operation in one step | `rows`, `seats`, `wallets` |
| `BookingsRefine` | the refinement mapping | `Committed`: the wallets with the transfers of unfinished bookings taken back; `PromisedRows` and `PromisedSeats`: the tables with the writes of a cancellation or a release that has moved its money made already |
| `Payments` | `PaymentsService`, and the payment provider (external) | `evt` is `payment_events.status`, `paid` the rows the provider reports as successful, `rpc` and `topup` the handlers; `Webhook` takes any outcome of a row, since the code compares a signature only when there is one |
| `Withdrawals` | `WithdrawalsService` | `request` is the table; requesters `qpc`, deciders `dpc` |
| `Cashflow` | `Payments` and `Withdrawals` over the same wallets | the interleaving of the two |
| `Subscriptions` | `SubscriptionsService`, `QueueRunner.billSubscriptions` | `sub` the rows, with dates in months; clerks (handlers), billers (runs of the job) with the list they read, `batch` and `seen` |
| `Featured` | `FeaturedService.boost` | `listings` counts rows by event, tier and first day; boosters hold a step, an event, a tier |
| `AuthSessions` | `AuthService`: sign-in, refresh, logout, reset, deletion | `session`, `owner` are `user_sessions`; a handler has a step, a user, a token; the n-th token minted is n |
| `WebSession` | `api.ts`, `auth-context.tsx`, `auth-storage.ts`, over `AuthSessions` | `store` is localStorage, shared by the tabs; each tab has a page, calls in lanes (the hydration, and one for each call that may be out at once), one `flight`, one `direct` request of the AuthContext |
| `Accounts` | OTP codes, `onboard`, `BusinessProfilesService.create` | `code` and `rate` in Redis, `role`, `onboarded`, how many `profiles` of each type; a handler has a step, a member, and the code or role it was given, and may fail at every step |
| `EventListings` | `EventsService` create to remove and the cached lists, `CacheService`, `scanAndDelete` | one event's `status` and `version`, `booked` stalls, and `others`, what else a list shows that other services own; `entry` in Redis and `load` per process and key hold all three; `toDrop` the keys a SCAN has yet to pass |
| `Social` | `FollowersService`, `PostsService` | rows and counters of one profile's follows, posts, likes and comments |
| `SocialCards` | `PostCard.tsx`, `FollowButton.tsx`, over `Social` | what one viewer is shown, the calls under way, and what each goes back to |
| `Reviews` | `ReviewsService.create` | `reviews` the rows of all of an organiser's events, `rated` the rows behind the stored average, `standing` the events not removed, `rsnap` the snapshot of an UPDATE |
| `Applications` | `ApplicationsService.submit`, `.decide` | one application and its notices |
| `Verification` | `KycService.submit`, `AdminService.approveKyc`, `.rejectKyc` | one profile's status, as created (pending, or approved outside production) and after, its audit log and its notices |
| `Marketplace` | `ProductsService`, `EnquiriesService` | one product, its enquiries, the owner at two devices |
| `ConnectionPool` | the pool under `book` and `cancel` | each booker's step, from which connections and locks in use follow |
| `MCServices` | eight of the above in one run | `running` names the one at work |
| `MCSessions` | `WebSession` and `Accounts` in one run | the same |
| `MCProgress` | `WebSession`, `EventListings`, `ConnectionPool` with their fairness | the same |
| `MCBookings`, `MCBookingsRefine`, `MCPayments`, `MCCashflow` | instances | sizes, prices, amounts, symmetry |
| `Sums` | nothing: lemmas about sums over finite sets | see *Proofs* |
| `Bookings_seat_proofs`, `..._money_...`, `..._settle_...` | theorems about `Bookings`, each module on the one before: types, seats; wallets against the ledger; statuses, time windows and the refinement of `BookingPromise` | see *Proofs* |
| `Cashflow_proofs`, `Sessions_proofs`, `Social_proofs`, `Services_proofs` | theorems about the rest: top-ups with withdrawals; `AuthSessions`, `WebSession`, `Accounts`; `Social`, `SocialCards`; the other services and their composition `MCServices` | see *Proofs* |

Operators and actions marked "Mutant" are plausible bugs: nothing uses them, and each
property of a passing run is violated when its mutant takes the place of the definition
it is a variant of.

**Composition.** What shares state is composed by interleaving: `Payments` with
`Withdrawals` (wallets), `WebSession` with `AuthSessions` (a tab's request *is* a handler
of the server), `SocialCards` with `Social` in the same way. What shares none is checked side
by side in one run: a variable `running`, chosen at the start, says which service
moves, and the others stay as they began. That adds the state spaces instead of
multiplying them, and loses nothing, since no property of one mentions another.
`Subscriptions` and `Featured` both spend from wallets; each fills the purse itself,
and their properties count their own charges.

**Steps of `Bookings`.** An action boundary is an await after which another request can
change what the handler has read. `book`:
`BookBegin` (the SELECT ... FOR UPDATE with the checks, all read in the snapshot that
statement takes) -> `BookGrant` if the row was locked -> `BookFunds` (the balance) ->
`BookPay` (the transfer, committed) -> `BookCommit` (counter, row, commit). PostgreSQL
under SERIALIZABLE fails a request that waited for a row somebody else then updated:
`CommitOn` ends every blocked request when a transaction on that stall commits; if the
transaction is undone instead the first one waiting gets the lock. `cancel`:
`CancelBegin` (the read and its checks, READ COMMITTED, no lock) -> `CancelRefund` ->
`CancelCommit` (which waits for the stall's lock, and writes whatever the row says by
then). The job: `ReleaseScan` -> `ReleasePay` -> `ReleaseMark`. `Reject` is any failure
before money has moved, `Expire` the five-second limit of an interactive transaction
passing while the handler still works, `RollBack` the outer transaction undone after
the transfer, `WorkerFails` a logged failure of one booking or a dead process.

**Steps of the other services** follow the same rule. A read with its checks is one
action (`RefreshRead`, `BoostRead`, `DecideRead`, `RemoveRead`), each write after it one
more (`Rotate` then `Issue`, `BoostPay` then `BoostList`, `DecideWrite` then
`DecideTell`, `RemoveCommit`), and a transaction one step unless a lock it takes is what
matters: in `Verification` and `Reviews` the row lock from a write to the commit orders the
others. In `EventListings` a load is `LoadBegin` (a miss, or joining the load in flight)
-> `LoadRead` (the query) -> `LoadStore` (SET with its TTL); a writer commits, then passes the
keys one by one (`DropKey`). In `Accounts` a code is counted, stored and sent (`RequestOtp`, `StoreOtp`,
`SendOtp`), then compared, deleted, the counter cleared, and the user signed in (`VerifyOtp`, `ConsumeOtp`,
`ClearRate`, `OtpSignIn`); `CallerFails` may come between any two. In `WebSession` a call carries the token it read from
storage; a 401 joins or begins the page's one flight; hydration and the AuthContext's own
requests do not join it. `ConnectionPool` has a booker begin on one connection, lock its stall's row,
and ask for a second connection up to `MaxInner` times, with a clock on each
wait.

**Abstractions.** Ledger entries are counted, not listed (`charged`, `refunds`,
`releases`, and in the other modules `credited`, `holds`, `paidOut`, `returned`,
`bought`): the properties need how often each thing was paid for, and `WalletsMatchLedger`,
`UserMoneyAccounted`, `PlusAccounted` and `ListedIffPaid` compare the counts with what was
bought. Each owner has its wallet row from the start. A price is that of the stall, which
no code edits after creation. Time is in days, in `Subscriptions` in months. The
row of an event that a list shows is a version number, and what it shows besides (the organiser's
name, verification, a boost, the society) a count of changes; a list's query reads these in one step.
What a review says is who wrote it of which event. History variables
(`overlapped`, `raced`, `tainted`, `crossed`, ...) record that a race the code allows has
happened; no action reads them. The balance in an HTTP answer, notices no property is about,
audit rows but for KYC, and the texts of rows are left out. In `Bookings` a submitted
event goes live at once, as outside production or with PREVIEW_MODE on; `EventListings`
has both, and nothing in the code takes an event out of `pending_verification`.

## 3. Runs

| run | module, configuration | shows | states |
|---|---|---|---|
| `booking_races` | `MCBookings`, `MCBookings_races.cfg` | six invariants of booking, cancel and release under races, one edit of dates or one failure | 201 000 |
| `booking_promise` | `MCBookingsRefine`, `MCBookings_promise.cfg` | refinement of `BookingPromise`, of orderly behaviours | 81 000 |
| `escrow_release` | `MCBookings`, `MCBookings_release.cfg` | liveness of the payout | 43 000 |
| `cashflow` | `MCCashflow`, `MCCashflow_inout.cfg` | six invariants of top-ups and withdrawals | 633 000 |
| `topup_delivered` | `MCPayments`, `MCPayments_delivered.cfg` | liveness of a paid top-up | 810 |
| `sessions` | `MCSessions`, `MCSessions_sessions.cfg` | which sessions may be live, who is signed out, which code signs in, which profiles exist | 1 980 000 |
| `services` | `MCServices`, `MCServices_services.cfg` | months and listings paid for, caches, counters, ratings, decisions and replies against their rows | 574 000 |
| `progress` | `MCProgress`, `MCProgress_progress.cfg` | liveness of a page's hydration, of the cached lists, of bookings that wait for connections | 70 000 |
| `double_refund` | `MCBookings`, `MCBookings_double_refund.cfg` | **violated**: `ExactlyOneRefund` | |
| `booking_charge` | `MCBookings`, `MCBookings_charge.cfg` | **violated**: `ChargedIffBooked` | |
| `webhook` | `MCPayments`, `MCPayments_webhook.cfg` | **violated**: `CreditedOnce` | |
| `past_due` | `Subscriptions`, `Subscriptions_past_due.cfg` | **violated**: `PastDueResumes` | |

**What the properties of the later modules say.**

- `RevocationHolds`: after a reset or a deletion no session obtained before it is live, by
  whatever chain of refreshes. `RotatedOnce`: a token refreshed in turn has one successor,
  however late it is presented again.
- `SignedOutForAReason`: a browser is not signed out by a refused refresh if its answers are never
  lost and its requests overlap only as calls of one page do that meet a 401 together: those
  share one refresh, which is what the single flight is for. `LogoutStays`: logging out leaves no token
  in the browser until a form signs somebody in, under the same condition.
  `HydrationSettles`: a page that mounts does not load for ever.
- `CodeUsedOnce`: a code that has signed in is stored no more, whatever overlaps or fails; of requests
  in turn it signs in once, and the code stored last, sent or not, is accepted until it is used or
  expires, or a sign-in fails after it has deleted the code. `ProfilesMatchRole`: a
  role has a profile behind it whatever fails; a type has one, two after onboarding.
- `PlusAccounted`: each month of a subscription is charged exactly once, whatever the delays
  and cancels, and a user has one open subscription. `CancelledIsFinal`: a cancelled one that
  no run of the job has on its list stays as it is.
- `ListedIffPaid`, `CapsHold`: a charge has its listing; the caps hold of calls in turn.
- `EditsAreListed`: a cached list has the event's row as it is, or leaves it out when it is not live,
  once the writers of the row have passed the key (a load under way then, a failure of Redis and an
  unpublishing submit excepted). It says nothing of the free stalls, the organiser's verification
  and the like, whose writers drop no cache. `ListingsCatchUp`: whatever raced or drops no
  cache, the list shows the event with all of that in the end. `BookedEventStays`: an
  event with a booking is not removed.
- `CreditIsMarked`: a top-up whose money is in the wallet is marked, or about to be, in whatever order
  requests in turn say that it failed or succeeded.
- `CountersMatch`: counters against the rows. `RatingMatches`: of recounts in turn, the stored
  average lacks a review only until its handler has counted it, or for good if that died and no
  other recounts; and it keeps only reviews that went with a removed event.
  `ButtonsShowStored`: what like and follow show at rest is what is stored.
- `DecisionStands`, `ReplyShown`: terminal states and notices against the decisions; no reply
  hidden by a late markRead. `StatusIsAudited`: a profile that somebody has decided bears the last
  outcome in the audit log, and is verified exactly when approved; a profile created approved has no
  audit row until its first decision.
- `EveryBookingEnds`: bookings that hold each other's connections all end, by the clocks.

**Bounds, and why they are enough.** The hazards of this code are between two actors, so
there are two of each kind of handler. In the `Bookings` runs: two handlers that can each
book and cancel, two vendors of three users (the third is the organiser, who tries to book at
his own event), two stall types (one with two slots, one with one), two bookings, funds that pay
for either stall but not both, and one worker (two in `escrow_release`). `booking_promise` has
three stalls of one slot and two workers: two stalls at one price, so that what a
cancellation gives back pays for the other stall before the cancellation has committed, and one
so cheap that its fee rounds to nothing. `MaxTime` = 2 is the first day on which an event
that ended on day 0 is due. `MaxEdits` and `MaxFaults` bound edits and failures; `OneMishap`
allows one of them per behaviour of `booking_races` (`escrow_release` has two failures).
`MaxSettles` bounds how often one booking is refunded or released and is above 1 wherever a
run should see it settled twice. In `cashflow` a top-up pays for exactly one withdrawal with its
fee, so two concurrent requests compete for it, and a double credit pays for both;
`MaxCredits` and `MaxDecisions` = 2 let the double credit and the double decision happen,
`MaxPayFaults` and `MaxCashFaults` one lost handler of each service. `topup_delivered` uses
`MaxCredits` = 3 and two lost handlers; the bound is reached only by a payment already
credited. Requests to the webhook are not bounded: they say "failed" or "success" of any row at any time.

In `sessions`: one user, two requests at the server, two tabs; `MaxTokens` = 3 is a sign-in
and a chain of two rotations, so that a token can be replayed after its successor was used;
`MaxPasswords`, `MaxLapses`, `MaxDeaths` = 1 each let one reset, one expired session and
one dead handler happen, `MaxStale` = 1 one expired access token. `Spare` keeps tokens back for
the refreshes that pages begin by themselves, so the bound never stops a client in the middle of
one; answers are lost in `progress` (`MaxLosses` = 1, and 0 in `sessions`). A page has two calls besides its
hydration, and `MaxCalls` = 2 of all pages are out at once: two that meet a 401 together, in one tab or in
two. `MaxCodes` = 2 is a code asked for again, with `OtpLimit` = 1 for the code's 3 and `MaxAsked` = 2, so
that a request over the limit counts too; `MaxProfiles` = 3 is above what
the property allows. In `services`: `MaxMonths` = 2 with `MaxPlusTopups` = 3 lets a job run late
by a month and one payment fail; `SocietyCap` = 1 for the code's 5, tiers of one and two days
for its one, three and seven, three events of which one has no society, `MaxDays` = 2, money for two listings (`MaxPurse` = 2);
`MaxVersions` = 2 an edit behind a load in flight, and unpublishing another; two processes load the key;
`MaxOthers` = 0 there, where no property reads it, and 1 in `progress`; two authors review two events of the
organiser, either of which may be removed; `MaxComments`,
`MaxListed`, `MaxEdits` (of a product) = 1; `MaxDecisions` = 3, `MaxAudits` = 3 and
`MaxSubmissions` = 2 a decision undone and redone. Each `Max...Faults` is 1: one failure at
any point. The profile to be verified is created pending or approved. In `progress`: `Pool` = 2 connections, three bookers of which two want one stall, so that
the pool can be exhausted both by holders and by waiters; `MaxInner` = 2 wallet calls.

Symmetry is used only in runs without liveness. Deadlock is not checked: the clock, edits,
failures, tokens and rows are bounded, so every instance comes to rest. Whether requests can
wait for each other for ever is asked by `EveryBookingEnds`.

**Conditions in properties.** The code really settles a booking twice, really decides a
request twice and really loses count in a race, so the properties that could not hold then say
so in their hypotheses (`NoOversell`, `EscrowCovered`, `HoldsAccounted`,
`CreditedOnceInTurn`, `RotatedOnce`, `CapsHold`, ...), each for the stall, user, token, key
or payment concerned where the code keeps the others apart. What needs no hypothesis has none: money is
never created or lost whatever happens (`WalletsMatchLedger`, `UserMoneyAccounted`), a
status is never ahead of its money (`StatusIsPaidFor`, `DecisionIsPaid`,
`SuccessIsCredited`), no vendor books a stall twice, no month of Plus is given unpaid, each
charge of a listing is accounted for, no booked event is removed, no decided status of a profile is
without its audit row, no used code is stored again. That no balance of a user or a business goes
below zero is the CHECK constraint, which is assumed of the database (`BalanceCheck` guards every
transfer), not shown.

**Fairness.** `FairSpec` assumes only that a worker that can go on with a run, or begin
one, eventually does: BullMQ repeats the job hourly and again after a failure. Users,
organisers and the clock are under no obligation, and a failed booking is skipped until
the next scan. `PayFairSpec` assumes that a handler that has begun goes on, unless it is
lost, and, strongly, that a report of success the provider repeats is taken at some point although
handlers are often busy with others: the provider repeats it until it is answered, and
an HTTP server serves a queued request. Other requests to the webhook are under no obligation. `PlusFairSpec` assumes the billing job and handlers that
have begun go on; top-ups are free to happen, and in `past_due` one does. `WebFairness`
assumes that the server's handlers and a page's own code go on (an answer arrives or is
lost, which the page sees as a failure); users owe nothing. `ListingFairness` assumes that a load and
a SCAN under way go on and that Redis expires an entry: the TTL is what `ListingsCatchUp`
rests on, since an invalidation may be lost. All of these are weak. `PoolFairness` is weak for each booker and
its clocks, and strong for the lock of a stall's row: the database grants a lock in the order
of its queue, so one that comes free again and again is had in the end.

**Findings.** Four runs show the program doing what its own text says it does not:

- two concurrent cancels refund twice (`bookings.service.ts:244`; the test file
  `booking-cancel.e2e-spec.ts` expects one). The test that races them passes or fails by timing.
- a booking is not atomic with its charge (`bookings.service.ts:129`; the comment at 28
  says "Atomic"). The inner transaction commits before the outer one.
- two concurrent deliveries of a webhook credit twice (`payments.service.ts:152`; the
  comment at 128 says "Idempotent via externalId"). In turn, they credit once, which is
  what `CreditedOnceInTurn` shows and the tests exercise.
- a subscription that is past due stays so (`queue.module.ts:178`; the notice at 199 says
  "Top up to resume your subscription."): the job scans active ones only, and nothing else
  makes one active again.

Divergences met on the way, which no run is about:

- `events.service.ts:640` tells an organiser to cancel the bookings before removing an event, but
  the count it makes includes cancelled ones, so such an event can never be removed.
- A change is promised to be "visible immediately" after an invalidation; a load under way stores
  what it read before it (`EditsAreListed` names this, `ListingsCatchUp` bounds it).
- In production, `submit` of a live event takes it back to `pending_verification`, drops no
  cache, and no endpoint approves it.
- `findBySlug` does not select `sizeText` and `tokenPaise`, which its answer has.
- `api.ts:549` says calls "only hit /auth/refresh once"; hydration and other tabs
  refresh beside that one.
- "One profile of each type per user": two calls at once, or onboarding after `create`,
  make two.
- "Featured events float to the top": of the page that was fetched, by date.
- Removing a product removes its enquiries, answered ones included.
- Lists also show the free stalls, the organiser's name and verification, boosts and the society's
  reputation, and bookings, cancellations, admins and boosts drop no cache: for up to thirty seconds a
  list shows these as they were (`events.service.ts:774`, `BookingInserted`, `OthersChange`).
- The comment at `payments.service.ts:127` says the webhook verifies its HMAC; it compares one only when the
  request has a signature and a key is configured. `Webhook` takes requests as the code does.
- `requestOtp` counts a request before it compares, so refused requests count too, and stores the
  code before it is sent: if sending fails, the code before it is replaced and this one is known to nobody.
  `verifyOtp` deletes a code before it has signed anybody in.
- Removing an event removes its reviews (`schema.prisma:579`) and recomputes nothing: the organiser's
  rating stands for them until the next review of another event.
- Outside production `BusinessProfilesService.create` makes profiles approved and verified, with no
  audit row (`business-profiles.service.ts:76`), and so does the seed.
- `approveKyc` writes an audit diff that always says pending became approved;
  `verification_requests.status` is never written after submit.
- The app's `api.ts` calls itself a mirror of the web's and never refreshes a token.
- `applications.markBooked`, `SearchService.search` and `SocietiesService.invalidate` have no caller.

## 4. Proofs

All theorems hold for arbitrary sets of users, handlers, rows and so on and arbitrary bounds.
They assume of the constants what the modules' `ASSUME`s say, which TLC evaluates in
each run. For `Bookings` these are `OwnersDistinct` (a wallet has one owner) and
`BookingConstants` (the types of the constants; finitely many users, businesses, stalls,
handlers and booking ids; an event created with `Start <= End`, which `EventsService.create`
checks); for the others that a null value is no member, that sets which are counted or summed
over are finite, that bounds are naturals, and that there is room for the version an event is created with
(`MaxVersions` at least 1). Every safety invariant and action property that a passing run
checks is stated by a theorem, and so is the refinement.

| theorem | module | states | inductive invariant |
|---|---|---|---|
| `TypeCorrect` | `Bookings_seat_proofs` | types of every table and handler | `Typed`: the types, what a handler's arguments are at each step, and the CHECK constraint |
| `NeverTwoBookings` | `Bookings_seat_proofs` | `Spec => []OneConfirmedPerVendor` | `Seats` |
| `NeverPastAvailable` | `Bookings_seat_proofs` | the counter is within the slots, always | `Seats` |
| `BalancesAddUp` | `Bookings_money_proofs` | `Spec => []WalletsMatchLedger` | `Ledger`, `Total` |
| `EscrowIsCovered` | `Bookings_money_proofs` | `Spec => []EscrowCovered` | `Backed`, with `Ledger` |
| `NeverOversold` | `Bookings_settle_proofs` | `Spec => []NoOversell` | `Seats` and `Settlement` |
| `StatusNeverAhead` | `Bookings_settle_proofs` | `Spec => []StatusIsPaidFor` | `Settlement` |
| `NeverBoth` | `Bookings_settle_proofs` | `Spec => []RefundedOrReleased` | `Windows`, on `Settlement` |
| `KeepsPromise` | `Bookings_settle_proofs` | `Spec /\ []Orderly => ImplementsPromise` | `Steady`: all of the above and `Sound` |
| `SuccessStandsForMoney`, `CreditsAreMarked`, `InTurnCreditedOnce` | `Cashflow_proofs` | `SuccessIsCredited`, `CreditIsMarked`, `CreditedOnceInTurn` | `PayInv`, part of `CashflowInv` |
| `DecisionsArePaid` | `Cashflow_proofs` | `DecisionIsPaid` | `CashInv`, part of `CashflowInv` |
| `MoneyIsAccounted`, `HoldsAreAccounted`, `TypeCorrect` | `Cashflow_proofs` | `UserMoneyAccounted`, `HoldsAccounted`, `TypeOK` | `MoneyInv`, on `CashflowInv` |
| `RotatesOnce`, `RevocationsHold` | `Sessions_proofs` | `RotatedOnce`, `RevocationHolds` | `AuthInv` |
| `WebIsAuthClient` | `Sessions_proofs` | `WebSpec => AuthSpec` | `WebInv` |
| `RefusalsHaveReasons`, `LogoutsStay` | `Sessions_proofs` | `SignedOutForAReason`, `LogoutStays` | `Calm`, part of `WebInv` |
| `CodesAreUsedOnce`, `RolesHaveProfiles` | `Sessions_proofs` | `CodeUsedOnce`, `ProfilesMatchRole` | `AccountInv` |
| `EveryoneTyped`, `SessionsAreSafe` | `Sessions_proofs` | of `MCSessions`: `TypesOK`, and the six invariants of `sessions` | `Together`: the ones above |
| `CountersAreRows` | `Social_proofs` | `CountersMatch`, of the server | `SocialInv` |
| `ButtonsAreTrue`, `CardsKeepCounters` | `Social_proofs` | `ButtonsShowStored`, and `CountersMatch` with the clients | `CardsInv`, on `SocialInv` |
| `ListsShowEdits`, `BookedEventsStay` | `Services_proofs` | `EditsAreListed`, `BookedEventStays` | `FreshInv` |
| `DecisionsAreAudited` | `Services_proofs` | `StatusIsAudited` | `AuditInv` |
| `DecisionsStand` | `Services_proofs` | the action property `DecisionStands` | `StandingInv` |
| `RatingsMatch` | `Services_proofs` | `RatingMatches` | `RatingInv` |
| `RepliesAreShown` | `Services_proofs` | `ReplyShown` | `ReplyInv` |
| `CancelledStays` | `Services_proofs` | the action property `CancelledIsFinal` | `Charging` |
| `PlusIsAccounted` | `Services_proofs` | `PlusAccounted` | `MonthsInv` and `PlanInv` |
| `ListedAsPaid`, `CapsAreKept` | `Services_proofs` | `ListedIffPaid`, `CapsHold` | `PaidInv`, `CapsInv` |
| `RowsTyped`, `ServicesAreSafe`, `SettledBeside` | `Services_proofs` | of `MCServices`: `TypesOK`, the ten invariants and the two action properties of `services` | `EachInv`: the ones above |

`CashflowInvariant`, `AuthInvariant` and `SocialInvariant` state inductive invariants
themselves. `MCSessions` and `MCServices` are instances only in their `.cfg`: their theorems are
about the composition that the runs check, with the constants left open.

Why strengthenings are needed.

*Seats*: that nobody books twice depends on a handler past its checks still being right
about them. `Locks` says a handler with an open transaction past `BookBegin` has the stall's
row locked and nobody else has; `Checked` says that for such a handler, and for the one that
waits, no confirmed booking of its vendor and a free slot exist *now*, which is kept because a commit
on the stall ends everyone who waited. *Settlement*: `Counted` ties the counter of a stall none
of whose bookings was settled twice to its live bookings; `Refunds` and `Releases` say what a
handler or worker past its transfer has paid; `Charged` that each row, and each handler
about to insert one, has a charge of its own. *Windows*: dates are those of creation; a cancel under way means
the clock is not past the event; a refunded booking is cancelled or its cancel is about to
commit; a booking a worker has picked or paid is past and not refunded. It rests on the
five-second limit of an interactive transaction, against a day between the event's end and its
release.

*PayInv* adds `Received` (a handler past its transfer has credited what it will mark) and
`InTurn`: of a payment that no two handlers ever held at once, the handler that holds it is alone,
and a credit is marked or about to be. That is why a report repeated after a "failed" that came
late is not credited twice. *CashInv* adds `Decided`, the same for deciders. *AuthInv* has
three parts. `Minting`: a token has a row from the time it is minted, and a handler the
user and row its step needs. `Rotation`: a token not refreshed by two at once has at most one
handler refreshing it, and none once it has a successor. `Credentials`: not only live sessions but also
handlers about to issue one go back to the password valid now, unless the user is on
record as disturbed or being revoked; this is what carries `RevocationHolds` through chains of
refreshes. *SocialInv* needs only that what is being deleted was a post: the counters are kept in
the transactions of their rows, and what was not counted or was counted twice is on record.
*FreshInv*: a key no writer has yet to pass holds, *and no load in flight will store*, a row other than
the database shows. *AuditInv*: an admin past the read has chosen, and a profile as created has no audit row. *StandingInv*: a
decision that is alone finds the application open when it writes. *RatingInv* adds
`Recounting`: one handler at most is in the UPDATE, and what its snapshot lacks
is still to be counted or on record as never counted. *ReplyInv* adds `Holding` and `Answered`: what each handler of the
owner has read is no older than the reply, unless two held the enquiry at once.
*Charging*: the row a run has charged is on its list, so `CancelledIsFinal`'s hypothesis speaks of it.

*Sums.* What the wallets add up to is a sum over rows, and an induction over a finite
set is behind every fact about sums. The library's induction theorem cannot be
instantiated here, but the well-foundedness of strict inclusion on the subsets of
a finite set can be cited (`FiniteInduction`), and with a set in place of a predicate that is
enough: `Sums` proves from it that a sum can take any element out first (`SumRemove`), changes by
what one term changes (`SumChange`) and is monotone and additive.
*Ledger* is `WalletsMatchLedger` with each sum over the same set whatever the rows are, so that a
step changes one term. `Total` is that a transfer moves money and makes none.
*Backed* covers the escrow not only of the rows but of the bookings that are paid and have no row
yet: when one commits, its term passes from one sum to the other. *MoneyInv* of
`Cashflow` adds `Unborn` (a request without a row has neither payout nor return) and `Held`, which has
the requests about to be listed in it: without them the bound is lost when one gets its row.
*MonthsInv* compares what was charged not with the due dates, which two runs of the
job may write back to an earlier value, but with the latest due date each row ever had or a run ever
read (`\E top : Covers(top)`); `PlanInv` is that clerks of a user who never overlapped know his rows.
*CapsInv* adds `NoneAhead` (no listing begins after today) and `Unrushed` (a handler alone since it
read the caps finds them as it read them).

*Calm*: while no requests of a browser have overlapped and no reply was lost, either nothing
of it is in the air and the token stored is live, or exactly one tab has one request, which is at a step
where the server will accept what it carries. It needs `Serving`, that no account of the
browser's user is deleted and no session is thirty days old: those are the two things
`WebSession` leaves out, so that `WebIsAuthClient` says the browser is a client like others. *AccountInv*: of
a member whose requests never overlapped (`OneByOne`), a handler past a read is still right about it.
*CardsInv*: `OneTap` says that what a tap goes back to, or is about to show, is what is stored;
`OneFollow` the same of the button that waits.

*The refinement.* `Orderly` is the hypothesis of `KeepsPromise` and the constraint of
`booking_promise`: no date is edited, nothing fails after money has moved, no two cancels of one
booking overlap, nor two runs of the job on one. Each clause is needed, since `double_refund`,
`booking_charge` and `RefundedOrReleased`'s hypothesis show what happens without it; bookings race each other, and
cancels and releases of others, freely. A booking maps to the promise's step when its outer transaction
commits, since until then it may still be undone; its transfer is taken back in the mapping
until then. That leaves every step's balance check as it was: what the transfer credits is escrow or the
house's, which the CHECK constraint exempts, and what it debits can only be more in the mapping. A
cancellation and a release must map earlier, when their money moves: a first mapping that put
them at their commit, too, held only by the prices of its instance. With two stalls at one price a vendor spends
his refund on the second stall before the cancellation has committed, and the promise would
then have him pay with money he does not yet have. `Sound` says that whoever has moved money still finds the row
`confirmed`, that what a booking was charged was a list of legs `transfer` accepts, and that no open
transaction of an orderly handler is lost.

Each inductive invariant also passes TLC on the instance of its run (all but the `\E top` of
*MonthsInv*, which ranges over an infinite set of functions). Each module proves
`Init => Inv`, one lemma or step per action (or group of actions that touch the same state) and
combines them with temporal logic at the end.

**Only model-checked.** Liveness (`EscrowEventuallyReleased`, `PaidIsCredited`,
`HydrationSettles`, `ListingsCatchUp`, `EveryBookingEnds`), which is beyond the prover: it needs
`ENABLED` and fairness. The four violated properties are shown by their runs alone.

## 5. Plan

Done, in this order: `Wallet`, `Bookings` with its promise and its proofs; `Payments`,
`Withdrawals`, `Cashflow`; then sessions and their client, subscriptions and featured listings,
events with the cache, the social counters, applications, verification, reviews, the
marketplace and the connection pool; last the proofs about them.

Left, in the order of what it would add:

1. An abstract specification of a session family (a chain of tokens each used at most once),
   and `AuthSessions` shown to implement it for requests that do not overlap.
2. Promises for the other flows of money: a top-up credited in one step, a withdrawal
   decided in one step, and `Cashflow` shown to implement them where nothing overlaps.
3. Safety halves of the liveness properties: that a due booking stays payable until it is paid, so that
   only fairness is left to TLC.
4. Lazy creation of wallets, with its two house rows, as a step of `Wallet`.

## 6. Not modelled

- Search, discovery, recommendations, health and metrics only read. Uploads and storage are I/O
  with an object store. Notifications are best effort and nothing depends on them. Societies and
  society posts are inserts and reads.
- `WalletService.getOrCreate` creating a row, and 32-bit amounts: see the notes of their hazards. The seed's
  invented rows (ratings without reviews, profiles without documents) are demonstration data.
- `recomputeSocietyReputation`, a number only the ranking reads; verification of a mail address,
  which nothing checks; edits of names, pictures and texts; `markBooked`, without a caller.
- The balance in the answer of `book`, which is read before the transfer: it is shown and used
  for nothing.
- The mobile app keeps two tokens and never renews them; its server side is `AuthSessions`.
- The pages of the website and the screens of the app: some 20 000 of the 32 500 lines of
  implementation are markup, forms that call one endpoint, and types. They have no state that
  outlives a render but the session (`WebSession`) and the two buttons that run ahead of
  the server (`SocialCards`). This is why the lines the map names are a small part of the whole,
  while the API's services that write are nearly all covered.
