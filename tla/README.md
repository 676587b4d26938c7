# Nivra: models and proofs

Nivra (`src/`) is a rental marketplace: people lend things to neighbours by the day, and the
API in `src/apps/api` (NestJS, Postgres, Redis, BullMQ, Razorpay) keeps the bookings and the
money. This directory has TLA+ modules of its core, the TLC configurations that check them
and theorems that TLAPS checks.

Run `tlc -config Deals.cfg MCDeals.tla` and so on (the table in section 3 has each run's
configuration), and `tlapm BookingsProofs.tla` and so on for the seven modules named
`*Proofs`, and `tlapm SumsAndLists.tla`. Paths below are relative to
`src/apps/api/src/modules/` unless they start with `src/`.

## 1. The system

### Components

| Component | State it keeps | Operations | Correct when |
|---|---|---|---|
| Bookings (`bookings/`) | `bookings` rows: status, dates, `expiresAt`; delayed jobs in Redis | request, accept, decline, cancel, documents, expiry job, sweep | no day is held twice; one booking in progress per person; nothing waits for ever; a timer closes only what is overdue; closed is closed |
| Payments (`payments/payments.service.ts`) | `payments`, `webhook_events` | checkout, verify, webhook, settlement, sweep | each payment is captured once and either confirms its booking or comes back |
| Refunds (`payments/refunds.service.ts`) | `refunds` | create, attempt, settle, retryFailed | a refund is sent once, and failures are retried |
| Payouts (`payouts/`) | `transfers`, `payout_accounts` | onConfirmed, onCancelled, release, sendKept, sendWaiting, retries | rent stays on hold until the rental is over; a transfer is made once |
| Ledger (`payments/ledger.ts`) | `ledger_entries` (double entry) | one posting per movement | balances; says what Razorpay did; ends at zero for lender and deposit |
| Credit and referrals (`referrals/`) | `credit_entries`, `referrals` | hold, release, redeem, reward | no credit is spent twice |
| Offers (`chat/offers.service.ts`) | `offers` | propose, counter, accept, decline | an offer becomes one booking; a chat that shows a deal has its booking |
| Rentals (`rentals/`, `bookings/booking-documents.service.ts`, `documents/`) | files in the private bucket and the rows that refer to them, wrong codes in Redis, claims, reviews | hand over, return, add photos, claim, answer, share, purge, review | no file without a row and no row without a file; a claim has one answer; reviews appear |
| One-time codes (`otp/`) | `otp_challenges`, counters in Redis | issue, verify | guesses are bounded, a code signs in once |
| Sessions (`sessions/`, `auth/`, the app, the web proxy) | refresh tokens, what each device stores | create, rotate, revoke, refresh on each device | one token works; nobody is signed out as a thief without a fault |
| Chat and requests (`chat/messages.service.ts`, `requests/`, the app's controller, the web chat room) | messages, previews, events on their way, what each screen shows | send, retry, read, poll, merge; ask, answer, close | each message is there once; what is marked read was shown; numbers stay masked until paid |
| Listings (`listings/listings.service.ts`) | `listings`, `listing_photos`, files in the public bucket | create, edit, publish, pause, review, take down, photos, delete | the first is reviewed before anything is on show; a photo that is shown exists |
| Alerts (`discovery/`) | job ids in Redis, `notifications`, the last push of a saved search | match a listing that went live, tell lenders of a request | each person is told once |
| Prices (`listings/pricing.ts`) | none | rent, discount, amounts of a booking | amounts fit the tables and the ledger |
| The rest | users, search, safety, notifications, mail, uploads, admin | mostly edits of one row, or I/O | see `PROJECT.json`, `components`, for each one and why it is or is not modelled |

### How they interact

* Every change of a booking goes through `BookingStateMachine.transition`: one transaction
  that locks the row, asks `nextStatus` again, writes status and deadline, and credit given
  back if the booking closes unpaid. After the commit, `afterChange` schedules the expiry
  job and calls the listeners (`onBookingChanged` of payments, referrals, notifications).
* The listener of payments owes the lender on PAID, refunds on CANCELLED and settles on
  COMPLETED. It calls refunds and payouts, which call Razorpay and post to the ledger.
* Razorpay answers by webhook as well: captured and failed payments, refunds, transfers,
  accounts. Webhooks are repeated until they get a 2xx.
* An offer that is accepted inserts a booking in its own transaction (`createFromOffer`). An
  answer to a request opens a chat and posts a message before it is recorded.
* A rental's files go to the bucket before the transaction that refers to them and are
  removed again if it fails; copies for the lender are purged by a job after the booking.
* The app refreshes its token in one place; the web server refreshes for every page that
  needs it and shares the result for some seconds. Chat screens merge what the API answers
  with what the socket says (app) or what the next poll brings (web).
* A listing that goes live, or a request that is posted, queues a job under an id of its own;
  one worker tells the people it concerns. A lender can only offer a live listing.
* BullMQ jobs: one delayed job per deadline, a booking sweep, and the payments sweep that
  re-runs what was missed. They all work on the same rows as the requests do.

### What is hard about it

Requests, listeners, webhooks and jobs interleave at every `await`. Nothing ties the
database to Razorpay: a process may stop between a commit and the call that should follow,
or between Razorpay's answer and the commit that records it. Delayed jobs may be stale,
doubled or lost; webhooks are repeated and arrive in any order. Redis counters, bucket files
and database rows change in separate calls. Devices retry what they have not heard an answer
to. `PROJECT.json`, `hazards`,
lists the places that matter most one by one, each with the property that watches it or the
reason why none does yet.

## 2. The modules

| Module | Models | State |
|---|---|---|
| `BookingRules` | `bookings/booking-rules.ts`: who may act when (`nextStatus`), deadlines, late fee, refund tiers | none |
| `Calendar` | what a listing's bookings promise about its days (abstract) | `holder` |
| `Bookings` | the state machine, requests, expiry jobs, sweep, constraints of the schema | `booking`, `asking`, `jobs`, `checks`, `sweep`, `asksDocs`, `clock` |
| `Deals`, extends `Bookings` | `chat/offers.service.ts`: offers and the bookings they become | `offer`, `answering`, `madeFrom` |
| `Rentals`, extends `BookingRules` | `rentals/`, `booking-documents.service.ts`, `documents.service.ts` for one booking | `booking`, `call`, `tries`, `stored`, `report`, `dispute`, `vault`, `shares`, `purge`, `review` |
| `Pricing` | `listings/pricing.ts`, `chat/offer-rules.ts`, the amounts of a new booking | none |
| `Handlers` | asynchronous calls: what each call in progress still has to do | `todo`, `faults` |
| `Ledger` | `payments/ledger.ts`, `ledger.service.ts` | none |
| `RefundPolicy` | `refundFor`, `creditBackFor` | none |
| `Refunds` | `payments/refunds.service.ts` | `payment`, `refund`, `books`, `accepted` |
| `Payouts` | `payouts/payouts.service.ts`, the `transfer.failed` webhook | `transfer`, `account`, `books`, `razorpay` |
| `Payments` | `payments/payments.service.ts`, composing `Refunds` and `Payouts` by INSTANCE over shared variables | theirs, and `status`, `tier`, `kept`, `credit`, `paid`, `journal`, `checkouts`, `webhooks`, `recent` |
| `Credits` | `referrals/credits.ts`, `referrals.service.ts` | `balance`, `referral`, `booking`, `lock`, `call`, `taken` |
| `Otp` | `otp/otp.service.ts` for one number | `challenge`, `issue`, `guess`, `redis` |
| `Sessions` | `sessions/sessions.service.ts` for one account, with its suspension | `account`, `session`, `rotation` |
| `Accounts`, extends both | `auth.service.ts`, the app's `token_manager.dart`, the web's `proxy.ts` | `kind`, `device`, `pages`, `shared`, `waits` |
| `Chat` | `chat/messages.service.ts`, the app's `chat_controller.dart`, the web's `chat-room.tsx` | `stored`, `preview`, `paid`, `send`, `events`, `phone`, `room` |
| `Requests`, extends `Chat` | `requests/requests.service.ts`, an answer to a request | `request`, `closing`, `recorded`, `told` |
| `Listings` | `listings/listings.service.ts` for the listings of one lender, `discovery-queue.ts` | `listing`, `files`, `edit`, `jobs` |
| `Discovery`, extends `Requests` and `Listings` | `discovery/`: the queue's worker, alerts, lenders nearby | `worker`, `lastPushed`, `notices`, `pushes` |
| `BookingsProofs`, `MoneyProofs`, `PaymentsProofs`, `PaymentsOnceProofs`, `AccountsProofs`, `RentalsProofs`, `DiscoveryProofs` | theorems about the modules above (section 5) | |
| `SumsAndLists` | lemmas about sums over finite sets and lists of steps | |
| `MCBookings`, `MCDeals`, `MCRentals`, `MCRefunds`, `MCPayouts`, `MCPayments`, `MCCheckouts`, `MCCredits`, `MCAccounts`, `MCDiscovery` | the instances TLC checks | |

### How they correspond to the code

**Bookings.** A database transaction is one action, with `clock` as the moment it commits.
What the code reads before a transaction is kept until the transaction comes:
`asking[c]` is a request that passed its checks and has not been
inserted; `checks` are expiry checks that read the status without the lock and chose
`complete` or `expire` (`CheckOf`); `sweep` is the list the sweep has read. `Commit` applies
the two constraints (`NoOverlap`, `OneOpen`), writes the row and schedules the job, which
Redis may lose (`QueueUp`). `Transition` is the generic handler; an action of its own stands
for each that also patches the row (`SubmitDocs`, `ReviewDocs`, `MarkReturned`). `Permits`
and `Target` are `nextStatus` split into its guard and its result. A tick is a fraction of a
day; the Indian day starts `IstOffset` ticks before the UTC day, as in the code.

**Money.** `Handlers` gives every request, webhook and worker a stack of steps. A step is
what happens from one `await` to the next: it reads, writes or calls Razorpay, and may push
the function it calls in front of what is left (`Continue`), return or throw (`Throw` drops
the rest up to the `catch` around it). Any two calls interleave at every step; a `Crash`
drops all of them. `Refunds!Attempt`, `Claim`, `Accepted` or `RefusedRefund`, `Tally`, `Save`
are the five awaits of `attempt()`; `Payouts!Send`, `Claim`, `Created` or `RefusedTransfer`,
`Save` those of `send()`, and so on: `PROJECT.json`, `map`, has the lines of each.

Razorpay is the environment: `accepted` and `razorpay` are what it did, which the ledger
(`books`) is compared with. A call can succeed, be refused, or be accepted without the
answer arriving (`LostAnswers`, in `Refunds`). A released or reversed transfer cannot be
released or reversed again.

`journal` holds the one-off ledger transactions the code looks for before posting them
again; `recent` the requests that were in progress when the booking closed, for the minute
that the sweep leaves it alone (`ClosedForAMinute`); `paid` whether its history has the event PAID,
which tells a booking cancelled after its payment from one cancelled before.

**Composition.** `Payments` reuses the actions of `Refunds` and `Payouts` as they are, on
its own variables. The booking is reduced there to the statuses that move money: `CONFIRMED`
stands for all the statuses between payment and closing, as no money moves in between.
`tier` is chosen freely at the cancellation: `BookingRules!RefundTier` says which tier a
date gives, and `MoneyProofs` that it only falls with time.

**Offers.** `Deals` extends `Bookings` and adds the offers to it. `answering[c]` is what a
call on an offer has read (the offers it found open, the answer it is to write); an
acceptance then asks like a request does (`AskFrom`) and inserts in one transaction
(`MakeDeal`), while `WriteAnswer` updates by id and asks nothing, as in the code.

**Rentals.** A call reads the booking (`EnterCode`, `AddPhotos`, `OpenDispute`, `Respond`,
`SubmitDocs`, `UploadDoc`), stores its file, commits what refers to it or is refused, and
then removes the file again: `call[c].step` goes from `CODE` to `STORE`, `COMMIT` and
`REMOVE`. `stored` is the bucket; `report`, `dispute`, `vault` and `shares` are the rows.
The purge deletes files and marks rows in two steps. `unclean` is a ghost: a crash, or the
failure of an audit row after a commit, has happened.

**Credit.** A transaction in progress is `call[c]`: it takes the person's advisory lock,
keeps what it read under it in `seen`, and writes by that. `releaseCredit` takes no lock.

**Signing in.** `Otp` splits `issue` and `verify` at their database and Redis calls,
`Sessions` splits `rotate` into the first read and the transaction. Alone, `Sessions` lets
anybody present any token ever given, which is what its theorem is about; `Accounts` has the
devices instead: the app, with one refresh at a time, and a browser whose pages leave with
the cookie of that moment and share one refresh per token. `faulty` is a ghost for the two
things a device cannot help: an answer that is lost, and a page slower than the proxy's
memory.

**Chat.** A send is looked up, stored and told in three steps; `events` is a bag of what the
socket still has to bring, in any order; it is lost when the socket drops. `phone` is the
app's list with its pending messages, merged by client id or id; `room` is the web page with
its last poll and the read mark on its way. In `Requests`, an answer is a send with a client
id of its own, then the row, then the notification.

**Listings and alerts.** A request that reads a listing and writes later is `edit[e]`, with the
call it awaits as its `step`; `transition()` is one guarded write (`Guarded`, `Publish`,
`Approve`). `update()` and `removeListing()` write by id, so `Update` and `Delete` look at
nothing again. `files` is the public bucket; a photo and its thumbnail are one file. `jobs` has
the job ids the queue knows (BullMQ keeps the last thousand finished ones, so an id stays known
for the behaviours considered). `Discovery` puts the worker, the chat and the desk of the
lender together: the worker takes a job, reads whom to tell (`MatchListing`, `NotifyNearby`),
and then tells them one after another, in up to three calls each (`Mark`, `Notice`, `Push`); a
job whose worker stops is begun again. Which search matches, and who is away or over a limit,
is any choice.

## 3. The runs

| Run (configuration) | Question | Instance | States |
|---|---|---|---|
| `booking_timers` (`BookingTimers`) | stale, doubled and lost jobs with the sweep and a crash: do timers close only what is overdue, and does the sweep alone close everything? | 1 booking, 9 ticks of half a day, jobs that may or may not reach the queue, 1 crash | 687,348 |
| `deals` (`Deals`) | racing requests, offers, counter-offers, answers: is a day ever held twice? is a deal one booking? does the table implement `Calendar`? | 2 bookings, 2 borrowers, 2 calls, 2 offers, 2 days, symmetry, time stands still | 385,560 |
| `rentals` (`Rentals`) | two requests at once in each phase: do files and rows agree, has a claim one answer, do copies go and reviews appear? | 7 pairs of requests, 2 calls, 2 files of a kind, 1 crash | 236,853 |
| `refunds` (`Refunds`) | two callers and the sweep on one payment: sent once, booked right, retried? | 2 refunds, 1 refused call or lost answer, 1 crash | 162,102 |
| `payouts` (`Payouts`) | confirmation, cancellation or completion, activation or removal of the account, late failures, admin's retry, sweep: booked right, held until over? | 2 transfers, 1 refused or failed transfer, 1 crash | 1,652,458 |
| `payments` (`Payments`) | the whole path of the money with a crash anywhere and calls that overlap freely; the booking may expire, be cancelled before or after payment, or complete; two checkouts at once, both paid: does each payment confirm the booking or come back? | 2 orders, 3 refunds, 3 transfers, 3 requests of which one only checks out (`MCCheckouts`), 1 crash, symmetry | 658,522 |
| `payments_credit` (`PaymentsCredit`) | the app and the webhook report one payment at once; credit given back without cash, and the lender's share after it; goodwill | no deposit, half paid with credit, 3 requests, symmetry | 134,403 |
| `payments_settle` (`PaymentsSettle`) | does the money find its owners in the end? | failed attempts to pay, 1 refused call | 41,186 |
| `credits` (`Credits`) | invitations, bookings, rewards and withdrawals at once: is credit spent twice or lost? | 3 people, 2 bookings, 2 transactions, gifts of 1, cap of 1, symmetry | 1,167,384 |
| `accounts` (`Accounts`) | parallel guesses, then refreshes, sign-outs, lost answers and a suspension on an app or a browser: is a code used once, does one token work? | 2 codes, 2 guesses, 1 session with 3 tokens, 2 refreshes, 2 pages, symmetry | 967,975 |
| `discovery` (`Discovery`) | retries, reloads, events in any order, polls, a payment, an answer to a request: once each, read only if shown, masked? Reviews, edits, photos, alerts of a lender's listings: reviewed first, photos there, told once? | 2 messages, or one and a reply, or an answer; or 2 listings, 2 photos, 2 requests at once, 2 saved searches of one person; 1 break or crash, symmetry | 1,235,919 |
| `payments_no_deposit` (`PaymentsNoDeposit`) | is the lender's share sent once? Not without a deposit: section 6 | | violation |

**Why the bounds are enough.** A double booking takes two rows, and the constraints compare
pairs; the second borrower and call give every order of check and insert. `Scenes` of
`MCDeals` lists what one behaviour may contain: two offers in one chat, an offer against
another person's request, or requests for every range. Timers concern one row; nine half-day
ticks pass every deadline, the last chance, the hand-over window, the claim window and the two
days after which a missing item may be disputed (time stops at the end and whatever is due
then is still closed). For money, one booking is complete: the services never combine
bookings, apart from the order of a sweep. One order is the common case (an open payment is
used again), and two are what two checkouts at once make: one may confirm the booking and the other
come late, or both. The second checkout is a request that does nothing else, and to keep the run
short a behaviour with two orders (`BriefWithTwo`) has no crash and ends where a paid booking
completes or is cancelled; an unpaid one closes by its deadline. `PaymentsHavePurposes` (section 5)
has no such limits. Three refunds are
what a booking can have of different kinds, or two late ones and one more; three transfers are
rent, kept share and deposit. One crash and one refused call reach every "stopped in between"
and every retry. Two requests and the worker are the listener, a second caller and the sweep;
`payments` has one more that only checks out, `payments_credit` a third that does everything.

In `rentals` the requests of a behaviour are one of the `Mixes`: each row or file is touched
by the requests of one phase, and two of them are enough for every read that another write
makes stale. Two tries, one photo and one tick for each window reach every limit. Credit needs
three people: one who is invited, the one who invited them and one more to compete for the cap;
two bookings and two transactions for one balance. A session of three tokens has a used one, a
live one and one given while both are on their way. In a chat two messages have an order and
one reply a read mark; `Talks` keeps the breaks and the payment apart. A lender with an
approved and an unapproved listing has every relation between the two that `publish()` asks
about; two requests at once make every read stale, and two photos tell the last one from
another. `Together` pairs the talks and the desks of one behaviour: they meet only where the
lender offers a listing or is told of the request, and a talk without either needs no desk.

All the bounds: `MaxTime`, `MaxCrashes`, `MaxRestarts`, `MaxFailures`, `MaxRefunds`, `MaxTransfers`,
`MaxAttempts`, `Orders`, `Requests`, `Second`, `Calls`, `Scenes`, `Mixes`, `MaxFiles`, `MaxTaken`,
`Codes`, `Issues`, `Guesses`, `Sids`, `Rotations`, `MaxTokens`, `Pages`, `Kinds`, `Talks`,
`Desks`, `Together`, `Edits`, `Photos` and the sets of ids. Some bounds are guards and commented as such: one fault of a device
(`FaultIf`), events of an account that repeat, the removal of the account between calls. The
amounts (rent 14 or 15, so that halves and commissions round) are chosen in the MC modules. In
`payments_credit` and `payments_settle` the booking closes only when no call is
in progress (`CallsOverlap`): for the first to keep the run short, for the second because of what
section 6 says. Attempts to pay fail (`AttemptsFail`) in `payments_settle` and `payments_no_deposit`,
where they matter: a payment that failed must still be captured when it succeeds after all.

Deadlock is not checked: a closed booking whose calls have ended, a chat that is read, a
session that is revoked have nothing left to do.

## 4. Fairness

* `Tick` is weakly fair in `booking_timers`: time passes, up to `MaxTime`.
* The sweeps are weakly fair: BullMQ repeats them every few minutes and the worker restarts
  (`src/docs/DEPLOY.md`: restart always, exactly one replica; the payments worker runs one
  job at a time, the booking worker five, `booking-worker.ts:39`, which is `Concurrency`).
* A call that has started goes on (weak fairness of each handler): a call to Razorpay is
  aborted after 15 seconds (`src/apps/api/src/providers/payments/razorpay.provider.ts:166`).
  This is also why a request in progress when a booking closes has ended a minute later,
  when the sweep first looks at it.
* The purge of shared documents, both of its steps, and the sweep that publishes reviews are
  weakly fair in `rentals`: they are repeated jobs of the same worker, and a purge that
  stopped is started again. Nothing makes time pass there: the properties ask what happens
  once the time has come.
* Webhooks are strongly fair: Razorpay repeats an event until a 2xx, and the handler that
  takes it may be busy in between.

Nobody is assumed to answer, pay, return anything or check out, and no delayed job is
assumed to fire.

## 5. Proofs

Every theorem holds for all values of the constants that satisfy the named ASSUME of its
module: any number of rows, people, calls, retries and failures, any amounts and commission.
TLC evaluates each assumption on the instances of section 3. They say that the sets of
handlers, people, codes and sessions are finite, that the limits are natural numbers, that a
"none" is not one of the things it stands beside, and of `Refunds` that its callers ask for
what `refundFor` and the administrator's form can give: amounts that are not negative, and the
cash that goes with them unless it is goodwill (`RefundsAssumption`). Some theorems about money
assume more, and name it in their ASSUME: `RefundsAreSentOnce` and the four of `PaymentsOnceProofs`
have one worker, which is the one replica with one payments job at a time of section 4; with two,
`SentOnce` is false (section 6). They assume nothing else.

The invariants that are checked are proved, by an inductive invariant that adds what they need (the
end of this section says which are not). What each adds is the reason why the code is right.

**`BookingsProofs`.** `Bookings`: every behaviour keeps the types, `NoDoubleBooking`,
`OneOpenPerBorrower`, `TimedStepsHaveDeadlines` and `DeadlineWithinLastChance`. `IInv` is their
conjunction: they are not inductive one by one, because a transition computes its deadline from
the row it finds, so the deadline rules need the row typed, and the type of a new row needs the
type of what is in flight. A step either leaves the table alone (`UnchangedTable`) or commits
one row (`Commit`); a committed row is well formed (`MovedIsGood`, `PatchedIsGood`,
`InsertedIsGood`), and `CommitKeepsTable` shows once that a well formed row keeps everything,
the two pairwise properties from the two constraints. `TimedInv` adds that no check is ahead of
the clock and that a returned booking is due when the claim window ends: from it follow the
action properties `OnlyOverdueExpire` and `FullClaimWindow`. `CalendarKept` is the refinement of
`Calendar`: a committed row takes days nobody holds, gives its own back, or changes neither.
`Deals`: a behaviour is one of `Bookings` (`DealsAreBookings`), as every step of an offer
commits a booking like a request does or leaves the table alone, so all of this holds with
offers too. `DealInv` adds what is in flight on the offers (`OffersOK`, `AnswersOK`) and that
an offer that made a booking is accepted (`BookedOK`), without which "one booking per offer"
would not survive a second acceptance that had read the offer as pending.

`Payouts`, the money of one booking, is proved in the same module: `HeldUntilOver` and
`BooksFollowRazorpay`, by `PayoutsInv`. A stack of steps may be of any length, so `TodoFits`
says which steps may be first in it and which may wait behind (`ListsOf`): a send has read
`onHold` as the row still has it, unless the rental is over, and only then may a release or a
share of a late return be in progress (`AfterReturn`). `HeldUntilReturn` says of the rows that
all are on hold before the booking closes, and that nothing was paid of one on hold before the
rental is over. `InBalance` says that the ledger is behind Razorpay by the transfers and
reversals that a call is about to save.

**`MoneyProofs`.** The ledger: all postings balance without a negative line, so `post()` never
throws; commission on all and on the kept rent, rounded separately, leaves the lender owed
exactly `LenderShare` of what was kept (`LenderOwedShareOfKeptRent`); the hard step is that
commission is monotone and grows no faster than rent (`CommissionMonotone`). The policy: what
is given back is within what was paid, part by part; cancelling later never gives more, across
both boundaries and with any credit; anyone else's cancellation gives everything back; late fee
and claim together are within the deposit. The prices: any price, discount, dates and credit
give a booking whose amounts fit the columns and constraints and satisfy what the theorems
before assume (`RequestsArePayable`, `OffersArePayable`); a longer rental never costs less on
either side of the weekly discount; when any rent comes back, so does all the credit; the
lender earns something at a commission of up to 90%. `Refunds`: `RefundsInv` says that the
ledger is behind Razorpay by the refunds whose call is about to save them (`InBalance`), and
that a step names a row that is there, with the amounts it was written with (`TodoFits`);
`LedgerFollowsRefunds` is the case where no call is left. `OneCallEach` says that two calls are
never about the same refund (`Apart`), that a refund which a call is about has not been sent
(`Unsent`), and that one which was accepted is saved or about to be (`Once`): the sweep takes
refunds that failed, and those no request is about any more.

**`PaymentsProofs`.** The composition, where every call may refund, transfer and post, and any two
interleave. `PaymentsInv` is its type invariant, with teeth: what each call may still have to do,
as lists of steps (`Lists`: which may be first, which may wait behind, who may make them), that
what they carry fits the rows, and that the books are behind Razorpay by exactly what the calls in
progress owe them (`InBalance`); a call that a restart drops leaves its debt, which is why
`BooksFollow` speaks of undisturbed runs. It holds for all constants, with any number of workers.

**`PaymentsOnceProofs`.** What happens once at most, on top of `PaymentsInv`, with one process that
runs the sweep, as deployed. `OneCloser`: one call at a time is about to refund a cancellation or to
return a deposit, and while it is about to, no refund of that kind is there. The listener that a
closing starts is that call first; the sweep takes over only what was closed more than a minute ago
and has no refund, so it cannot meet it.
`RefundedOncePerReason` follows.

The booking may close in any way: expire, be cancelled before or after payment, or complete. `Off`
are the bookings cancelled before payment, which stay so (`PaidGoesOn`), and of which the next two
theorems say nothing, as both are false there (section 6). They are no
assumption on the constants but part of the properties, and the invariants (`DepositStands`,
`ShareStands`) have them as a case.

`DepositInv` accounts for the deposit: what is held on the books is
what payments brought in time, less what the three ways out have taken (`GivenBack`); a late payment's
refund takes its own deposit back (`LateOnce`), a refund is in one call's hands (`Apart`), and the
deposit is kept only of a completed booking. `DepositNotGivenTwice` follows.

`ShareInv` follows the call that pays the lender of a cancelled booking. The share is a later step
of the call that refunds the cancellation, so a call with a share ahead has the refund's row
behind it, or asks for it next (`AsksSome`); one call at a time has one (`Sharing`), and once a
share is there the row is too and no call has another ahead. For this the cancellation must give
some cash back, or there is no row: `RentShareOnce` is about the bookings for which the policy does
(`CashBack`), with or without a deposit or credit. Where credit alone goes back a posting takes the
row's place; this is checked (`ShareAfterRefund` in `payments_credit`) and not proved. Where
nothing goes back it is false (`payments_no_deposit`).

`Explained` says where a payment is: a captured payment that no refund took from is with the one
call that will confirm the booking by it or ask for its late refund (`HasIt`), or is the one that
confirmed the booking; without a crash there is no other (`Unexplained`). No call asks for less
than all of a late payment (`Wrong`), so the check before its insert lets it pass, unless another
refund already took from it: goodwill, or a cancellation's refund, which takes any captured payment
(`payments.service.ts`, `refundCancelled`). `PaymentsHavePurposes` follows, for any number of
orders and with goodwill. Of a booking with referral credit it says only that the payment of a paid
booking is not refunded as late: its late refunds are refused (section 6).

**`AccountsProofs`.** A session has one token that works, its last, however many rotations
overlap and whichever tokens they bring (`OneTokenAlways`); every step of a device or a sign-in
is a step of `Sessions` or leaves it alone, so the same holds for the devices. `GuessesBounded`
and `OneSessionPerCode` follow from `CodesInv`: the attempts of a code cover the guesses that
were compared and those that may still be (`CountsCover`). `ReuseOnlyAfterFault` follows from
`DeviceInv`: without a fault a token that is on its way to the device, or stored beside an access
token that works, is the last of its session and was presented by nobody (`Fresh`), and what a
page is about to ask with is either that or has its result in the proxy, so that it is not
presented again.

**`RentalsProofs`.** `OneAnswer` (the status is asked again when an answer is written), and
`BucketMatchesRows`: a file that is about to be committed is there, in no row and in no other
call's hands; no file that a report or claim keeps is about to be removed, shared or in the
vault (`NewFiles`, `OldFiles`); and while nothing was cut off, a file without a row is in the
hands of the call that will commit or remove it (`CleanFiles`).

**`DiscoveryProofs`.** For chat and requests `ChatInv`: what the page, the app's list, each event
and each answer on its way have was taken from stored rows, which stay; so a message shows once
(`OnceEach`), a tick means it was shown (`ReadMeansSeen`), nothing was unmasked before a booking
was paid (`MaskedUntilPaid`), and an answer that is counted has its message
(`AnswersAreInChat`). For listings `ListingsInv`: a publication counts approved listings in one
call and writes in another, and what it found still stands (`CountStands`), as no step takes
`approvedAt` back; the key of a file about to be deleted is in no row, nor about to be
(`KeysOK`). For the alerts `WorkerInv`: unless the worker started over, only jobs that were begun
have told anybody, those left on the worker's list have not been told of its job, and a search
is marked before it is pushed (`NoticesOK`, `PushesOK`).

**`SumsAndLists`.** What the library does not have as theorems: `SumFunction` over a finite set
changes by what one value changes (`SumChanged`, `SumMoved`) and is at least each of its values if
none is negative (`SumAtLeast`); and how a list of steps grows, shrinks and is put together. The
first needs an induction on the size of a set, which is here an induction over a set of numbers
(`UpTo`): it needs no operator as a parameter, only that every set of numbers has a least one.

Every invariant and every action property of a passing run is stated by a theorem, but for
`ShareAfterRefund` where credit alone goes back. Only model-checked are that, everything under
fairness (`UnansweredCloses`, `ReturnsSettle`, `FailedRefundsRetried`,
`AccountsClear`, `LateMoneyComesBack`, `CopiesGo`, `ReviewsAppear`), which is out of the prover's
reach, and the counterexample of section 6.

## 6. What does not hold

One run shows where the code does not do what its own comments say: `payments_no_deposit`,
**the share of a booking without deposit**. A cancellation that refunds
nothing leaves no refund row, so every sweep treats it as missed and pays the lender's share again
(`payments.service.ts:433`).

Properties of the passing runs are stated so that they say what the code does keep. Other
statements one would like fail, in these models or by reading the code, and are left out.

*Money*

* a booking cancelled before payment, and paid late, is refunded as late and nothing else: the sweep
  takes it as a missed cancellation (`payments.service.ts:453`, where the comment of line 447 speaks of
  "cancelled paid bookings") and refunds it by the policy. If the refund of the late payment is between
  its check and its insert both are sent, and the deposit is given twice; if it comes later it is
  refused, and the borrower may get less than they paid. This is why `DepositCovered` and
  `ShareAfterRefund` leave such a booking out;
* a late payment comes back when part of the rent was paid with referral credit: its refund asks for
  more than was paid (`payments.service.ts:196`) and `create()` refuses it; nothing asks again. This is
  why the second half of `EveryPaymentHasAPurpose` and `LateMoneyComesBack` are about bookings without
  credit;
* an event that was answered is applied: `webhook()` commits the dedupe row before `apply()`
  (`payments.service.ts:239`); if the process stops in between, the repetition is answered as
  a duplicate;
* a transfer is made once: a claimed transfer still looks unsent while Razorpay is called, so an
  account that becomes active in that moment has it claimed again (`payouts.service.ts:255`), and
  so does the admin's retry, which resets the attempts during the sweep's;
* a refund is sent once: not when an answer is lost, as no idempotency key is passed, and not
  with two sweeps at once (hence `unheard`, and one worker in `SentOnce`);
* refunds stay within the payment: a failed refund does not count as refunded, yet is sent
  again later;
* a transfer that fails after it was accepted is sent again: `transfer.failed`
  (`payments.service.ts:266`) sets FAILED on a row that has its provider id, which no retry
  selects, and the ledger still counts it as paid;
* a lender who leaves gets what was waiting: the payout account goes with the person
  (`users/users.service.ts:156`) and its failed or waiting transfers wait for ever;
* held rent is always released, or taken back: not if a send in flight saves `ON_HOLD` after
  `release()` cleared `onHold` or `reverse()` set `REVERSED`;
* after a crash between a commit and its follow-up: a captured payment whose booking expires
  is not refunded; a refund row that was never sent stays PENDING; a lender whose transfer was
  not created is never paid. This is why `BooksFollowRazorpay`, `EveryPaymentHasAPurpose` and
  `SentOnce` are about undisturbed runs, and `payments_settle` has no crash;
* the sweep reaches its retries: not if a settlement throws first, which goodwill can cause.

*Bookings, offers, rentals*

* a deadline is within the first rental day: the cap is midnight UTC, 5 h 30 after the end of
  that day in India. `DeadlineWithinLastChance` states the cap as it is coded;
* an accepted offer stays accepted: `decline()` (`chat/offers.service.ts:121`) overwrites one;
* a file whose row is saved stays: `create()` of a document removes its files when the audit
  entry fails after the row was written (`documents/documents.service.ts:97`), and a commit whose
  answer is lost would do the same for photos (the latter is not modelled); `respond()` of a
  claim removes nothing when it fails (`rentals/disputes.service.ts:115`);
* photos are only added while they may be: `addPhotos()` does not check status and count again
  when it saves (`rentals/handover.service.ts:139`);
* reviews written by both people at once appear at once: neither sees the other's
  (`rentals/reviews.service.ts:50`), and only the sweep of the seventh day publishes them;
* five wrong codes lock a hand-over ("Wrong codes allowed per booking and stage before a lock-out",
  `rentals/handover.service.ts:28`; `src/docs/ARCHITECTURE.md:422`): codes sent at once all read the
  count before any of them is counted (`:217`), so as many as are sent at once are compared. The lock
  comes, and holds for what is sent after it. `EnterCode` has these steps; no property bounds them;
* a counter in Redis expires: `incr` and `expire` are separate calls, and a crash in between
  leaves a wrong-code lock without an end (`rentals/handover.service.ts:231`,
  `otp/otp.service.ts:221`, `media/uploads.service.ts:90`).

*Accounts, chat, requests*

* a device is never signed out as a thief: if the answer to a refresh is lost, the retry brings
  a used token. `ReuseOnlyAfterFault` says that this takes a fault;
* an open chat is complete: the app ignores events while it loads
  (`chat_controller.dart:253`), and after a reconnect it does not load again, so messages it
  missed are marked as read with the next one (`:301`); a later answer may take a read tick
  back; a mark the web page could not send is not sent again; the preview of the inbox may be of
  an older message (`chat/conversations.service.ts:213`);
* a removed request stays removed: `close()` overwrites it (`requests/requests.service.ts:209`);
  the limit on open requests is counted before the insert (`:80`); after a crash between the
  record of an answer and its notification the borrower is never told (`:288`); a retry with
  another text records a text the chat does not have.

*Listings and alerts*

* every change of a listing's status is guarded (`src/docs/ARCHITECTURE.md:167`): `update()`
  writes DRAFT by id over what it read as REJECTED (`listings/listings.service.ts:111`). If the
  listing was edited and published meanwhile, it is pulled back; if an admin has taken it down,
  or it was deleted, it is a draft again;
* a published listing has a photo: two requests may each delete one of the last two
  (`:166`), and a publication may have counted a photo that goes;
* a listing with an open booking stays: `delete()` counts before it removes (`:283`);
* no file stays without a row: a photo stored for a row that fails, or whose row comes while the
  listing is removed, stays;
* everybody a listing matches is told: not if the queue did not take the job (`listingLive`
  never throws), or the listing was paused when the job ran, as its id stays used up; and people
  told before the worker stopped are told again.

## 7. Not modelled

Database failures and deadlocks (a transaction commits or the process stops); a second worker
replica; previews, lists, the earnings page and the fake checkout (read-only, or for
development); a listing's availability blocks, the order of its photos, categories; the amounts
of claims (typed by people; `BookingRules` and `MoneyProofs` have their bounds); administrators'
sign-in (its failed-login count is read and written back, so parallel attempts count once,
`admin-auth/admin-auth.service.ts:253`); reminders (if the process stops after the borrower's
overdue notice, the SMS and the lender's notice are skipped that day); the request board; picture
messages, presence, rate limits that decide nothing else, screens; people, their blocks and
verification (checks before a request that only make it fail earlier); formatting, audit rows.
`PROJECT.json` gives the reason for each component.

Simplifications of the chat: the order of ids is the order of insertion; a page's actions run one
after the other, as Next.js does, so a poll is one step; whether one person has blocked the other
is fixed from the start; the app's reload of the latest messages is one step. Alerts: everything
happens within the six hours in which a search is pushed once.

## 8. Plan

What is left, in order:

1. The status of a listing in `Bookings`: a request reads it and inserts later, while the lender
   deletes (`Listings!StartDelete`). Property: what is booked is there.
2. The share of the rent kept where credit alone goes back, as a theorem: the posting in the place
   of the refund's row, in `OneCloser` and `ShareInv`.
3. Administrators: sign-in with its counters and TOTP steps, and reminders with their marks.
