# Verification of ilovelawyer-api

This directory models two halves of ilovelawyer-api. In the first a client's case
meets the lawyers and money changes hands: a request goes out to matching lawyers,
several of them quote, the client accepts one quote and pays it, the lawyer's
earning is held, released and withdrawn, refunds and disputes take it back, and
the lawyer's firm is charged for the introduction and for AI top-ups. In the
second the server works on a case by itself: it reads the documents that are
uploaded, analyses the case again when they change, and answers in its chat. TLC
checks the models on small instances. TLAPS proves the results of section 6 for
every value of the constants.

Paths are relative to the repository (`src/` is its source directory).

## 1. Inventory

The API is an Express and Prisma server over PostgreSQL, with SQS and in-memory
queues for the slow work and Stripe for the money. HTTP requests, queue workers, Stripe's webhooks
and cron sweeps run at the same time and in several processes. Three things keep
them apart: one database transaction at a time, conditional updates
(`updateMany ... where status = ...`), and, in the market, the request row taken
first in each transaction (`REQUEST_ROW_FIRST`,
`repositories/client-request-claim.repository.ts`). Everything that needs two
transactions, or one transaction and a call to Stripe, can be interleaved with
everything else, or be cut in half by a stop.

### The market and its money (modelled)

| Component | State it keeps | Operations | How it interacts | What is hard | What makes it correct |
|---|---|---|---|---|---|
| Client requests | `ClientRequest`: status, named lawyer, limited to them, excluded lawyers, window, pick-by date, announcement, brief | create, route, withdraw, close, open to all, expire, announce | owns the row that the claims and the quotations lock first | deadlines that move one another; a row committed before `create()` has finished with it | an end is final; every request ends or is engaged; back in the pool means announced again |
| Claims | `ClientRequestClaim`: outcome, hold, quoted | claim, release, decline, lapse, pass | an end excludes the lawyer and may send the request back to the pool | places counted by lawyers at once; the sweep against a quote being sent | never too many lawyers; nobody loses their place inside their time; who left stays out |
| Quotations | `Quotation`: status, expiry | draft, send, withdraw, accept, expire, engage | a second table in step with the claim; its expiry is copied to the request | three tables written by one transaction each | claim and quotation agree; one lawyer picked; a good quote is not expired |
| Sweep | nothing but `ticking` | nine steps a minute, each logged and skipped if it throws | calls all of the others | users act between its steps, each step may fail | it is what makes anything end |
| Quotation payments | `QuotationPayment` | start, poll, webhook, settle, cancel, orphan refund | Stripe's PaymentIntents; the request and the quotation; the wallet's earning | two clicks, late success, the sweep cancelling as the client pays, a stop after the commit | one payment engages; late money goes back |
| Refunds and disputes | `QuotationRefund`, `refundedMinor`, `Earning.disputed` | ask, settle, open and close a dispute | takes out of the earning in the wallet | reads without a lock; webhooks out of order | never more back than was paid; the lawyer gives back their part |
| Wallets | `WalletEntry` (ledger), `Earning`, `Withdrawal` | create, release, reverse, reserve, pay out, replay, settle | Stripe's transfers and payouts; the sweep | lost answers, replays, webhooks late or early | the ledger agrees with the rows; paid once; ended as the bank has it |
| Card charges | `OrganizationCharge`: status, attempts, provider, paymentIntentId | buy a top-up, retry a fee, start, charge, abandon, settle, webhook, lapse | Stripe's idempotency keys and webhooks; the card on file; the request it engages | an answer lost, a retry, a new card, a webhook of an earlier attempt | taken once; what was taken is recorded |
| Stripe webhooks | `StripeWebhookEvent`, the handled ids | one handler per event | the four above | late, twice, out of order | idempotent handlers |

### The work on a case (modelled)

| Component | State it keeps | Operations | How it interacts | What is hard | What makes it correct |
|---|---|---|---|---|---|
| Chat turns | `Message.replyStatus`, the assistant's rows, `pendingContent`; the queue's message, each instance's `activeGenerations` | ask, take, stream, checkpoint, save, mark DONE, Stop, sweep | an at-least-once queue; Stop may land on another instance | a job twice, a crash between the save and the mark, a Stop in the middle | DONE has an answer; one run answers; nobody waits for ever |
| Document extraction | `Document.ragStatus`, `DocumentChunk` rows, `memoryWait`, `activeDocumentIds` | enqueue, receive, read, replace or fill by rounds, verify, time out, sweep, evict | its READY sets off the analysis | killed between two rounds, hung runs, lost jobs, two runs at once | READY is all of the text, once; every document is read or evicted |
| Case analysis | `Case.readySetFingerprint` | look again later, compare, run, save what was listed | the locks below, the documents above, both buttons of the app | a change that lands while anything else is at work | a change is never forgotten and is analysed in the end |
| AI generation locks | `AiGenerationJob`, one row per subject and kind, with a heartbeat | begin, mark, beat, finish, close a stale row | every AI pane and the analysis | check and mark are two statements; a dead holder | a dead holder does not hold for ever |

### The rest of the API

| Component | What it keeps and does | What is hard | Status |
|---|---|---|---|
| The open request of a case | `create()` looks for an open request of the case, then inserts | two at once both find none | not modelled; section 7 |
| Case briefs | an AI text, rewritten while nobody is on the request | rewritten under a lawyer who joins meanwhile | a flag in `ClientRequest` |
| Engagement access, case copies | a `CaseAccess` grant after the engagement's transaction; find-then-enqueue of a copy | a stop in between, two clicks | planned; section 7 |
| Organisations, invites, members | seats, roles, last owner | two leave at once; accept against archive | planned; section 7 |
| Deletions | scheduled deletions of accounts, firms, consultations | a cancel while the sweep runs | planned |
| Chat credits, top-ups, subscriptions | checkout sessions settled once | as card charges | planned |
| Sign-in and sessions | refresh tokens, one-time codes | two rotations at once | planned last |
| Other queues, cron lock | citations; a 30-minute advisory lock | a run longer than its lock | not modelled |
| Google calendar, cases and panes, legal research | records and calls to outside services | what they compute is text | not modelled: input and output |
| Routes, controllers, validation, API documents, scripts | pass one call to one service | no state | not modelled |

`PROJECT.json` has the same list with the source files, and every hazard with its
line and the property that would catch it.

## 2. The modules

```
Engagement            what the market promises (abstract)
  ^           ^
ClientRequest QuotationPayment     QuotationRefund      Wallet      CardCharge
  ^           ^                     ^                    ^           ^
MCClientRequest MCQuotationPayment  MCQuotationRefund    MCWallet    MCCardCharge

ChatTurn              CaseAnalysis            DocumentExtraction
  ^                     ^                       ^
MCChatTurn            MCCaseAnalysis          MCDocumentExtraction
```

Each detailed module `M` has its theorems in `MProofs`, which extends it; what several
of them need about sums is in `WalletProofs` and again in `QuotationRefundProofs`, so that
each can be read and checked alone.

The market's modules share rows rather than messages, and each has the part of a
shared row that the others do not care about reduced to what it can do:

- `ClientRequest.Engage` is a single step; `QuotationPayment` is what happens
  inside it, from the first click to `settle`. In turn `QuotationPayment` keeps of
  the request only ROUTED, CONFIRMED and ENGAGED, and of a quotation that it is
  sent, falls due and is accepted. Both implement `Engagement`, so the step that
  engages is the same one in both.
- `QuotationRefund` starts where a payment has engaged (`SUCCEEDED`, with an
  earning) and follows that one payment.
- `Wallet.CreateEarning`, `Dispute` and `Reverse` are what `settle`,
  `openDispute`/`closeDispute` and `reverseEarningTx` do to a wallet, at any
  moment and with any amount.
- `CardCharge` has of the request only the status its charges depend on and change.
- `CaseAnalysis` has of a document only its `ragStatus`, which `DocumentExtraction`
  writes: `Upload`, `ExtractionBegins`, `Extracted` and `ExtractionFails` are what a run
  of that module does to the row, and `Schedule` what follows it.

### Engagement (abstract)

`stage` is where the request is (open, picked, engaged, over), `picked` the lawyer
picked, `gone` those who left for good. The promise: one lawyer at a time is
picked, only the one picked is engaged, the one let go of is not picked again, an
end is an end. `KeepsPromise` in `ClientRequest` and in `QuotationPayment` is its
`Spec` under their refinement mappings. In `ClientRequest` a withdrawn request
whose `create()` has not returned still counts as open: `route()` may yet send it
out (section 7).

### ClientRequest

One request, its claims and its quotations. State and code:

| Variable | Code |
|---|---|
| `status`, `requestedLawyer`, `requestedOnly`, `excluded`, `routing`, `pickBy`, `announced` | the columns of `ClientRequest`; a date is the time left until it |
| `creating` | between the insert and `route()` in `ClientRequestSvc.create` |
| `brief` | a brief has been written |
| `claim[l]` | the lawyer's latest `ClientRequestClaim`: outcome, `expiresAt`, `quotedAt` |
| `quotation[l]` | the `Quotation` on it: status, `expiresAt` |
| `passing[l]` | how far `pass()` of `client-request-lawyer.service.ts` has got |
| `sweep` | the step of `tick()` that is running |

Each repository method that is one transaction is one action with the source's
name (`Claim`, `Release`, `Decline`, `Accept`, `Lapse`, `OpenToAll`, `Expire`, ...).
What a service does in several transactions is several actions: `create` (`Init`,
then `Route`), `pass` (`PassBegins`, `PassExcludes`, `PassOpens`) and the sweep
(`SweepStep` from one step to the next, each due item an action of its own).
`EndClaim` with `AfterClaimEnded` is `afterClaimEnded`, which every way of ending
one claim goes through. Time moves only between two runs of the sweep (`Tick`),
because a run reads the clock once.

### QuotationPayment

The quotations of one request and the attempts at paying each. `payment`, `known`
(the row has `paymentIntentId`), `earned` and `refund` are columns; `intent`,
`form` and `refunding` are Stripe's side and the app's; `creating`, `read` and
`expiring` are calls in the middle: a `createIntent` in flight, an intent that was
read and not yet written, the sweep between finding a quotation and expiring it.
`StartNew`/`StartAgain`/`CreateIntent`/`Resume` are `start()` of the service around
`QuotationPaymentRepo.start`; `Read` and `Applies` are the webhook, the poll and
the resumed start, which all go through `applyResult`; `Settle` is
`QuotationPaymentRepo.settle` with its orphan path; `CreateRefund`, `AskRefund` and
`RefundUpdated` give late money back; `FindExpired`, `NothingToCancel`,
`CancelIntent`, `CancelLater` and `ExpireAccepted` are `expireDue`.

### QuotationRefund

One payment that engaged. `Check` is `refund()`'s look before any transaction,
`CreateRefund` the locked second look. `settleRefund` and `closeDispute` read the
payment without a lock and write what they worked out, so each is two actions
(`SettleReads`/`SettleWrites`, `CloseReads`/`CloseWrites`) with another
transaction possible in between: the database runs at READ COMMITTED.

### Wallet

The ledger as the sum of each bucket (`move()` and its single-sided form are `Move`
and `Into`), the earnings, the withdrawals, and where the two callers of Stripe
are: `runPayout` (first run or replay) and the `payout.failed` webhook. Every
Stripe call may be carried out and its answer lost, refused, or never arrive; a
replay within Stripe's 24 hours gets the first answer again, a later one is a new
call. `Account` is the connected account's balance, which decides whether Stripe
makes a payout at all.

### CardCharge

The charges of one request: the top-ups a lawyer may buy and the per-case fee.
`status`, `attempts`, `provider` and `intent` are columns of `OrganizationCharge`
(`intent` is `paymentIntentId`, as the number of the attempt that made the payment).
`at[w]` is where an HTTP call has got in `attempt()`: `ReadsCard`,
`FailsWithoutAttempt`, `Starts` and `ReadsNumber` (the update of `startAttempt`, then
its read), `AsksStripe` or `AsksAgain`, and `Abandons`, `RecordsIntent` or
`SettlesAnswer`. `payment`, `paidWith` and `kept` are Stripe's: a payment per row and
attempt number, because the idempotency key is made of the two, the card it was asked
for, and the answer kept under the key. `Webhook` is `applyStripeIntent` behind
`StripeWebhookSvc.handle`, with the event recorded or, after a stop, not. A call may
stop anywhere (`Stops`). The two history variables, which no code reads, name the two
ways in which a charge can be taken twice.

### ChatTurn

`Goes` moves a run of `processChatGenerationJob` along: received, `Start` (status,
consent, the registry of its instance), `Resolve`, `Chunk`, `StreamEnds` or
`StreamFails`, `LooksAgain` (the tiebreaker before the save), `FindsReply` or
`FindsNoReply`, `CreateRow` for each topic, `MarkDone`, `Ack`. `PersistFails` is the
save's retries given up. `StopReads`, `MarkReplyCancelled`, `StopAborts` and
`StopSaves` are `cancelChatGeneration`, `Poll` what another instance notices.
`SweepReads` and `SweepWrites` are `sweepStalePendingChats`. `Takes` marks a turn as
`together` when a second delivery works on it while the first still does.

### CaseAnalysis

A message is a look at the case (`TakePost`), which counts the pending documents,
compares the READY ones with `print` (`readySetFingerprint`), looks for a pane at
work, begins and marks the lock's row, lists, works and sets the fingerprint to what
it had listed. Every way out either has done the work or schedules another message.
`row`, `stale` and `closing` are the two `AiGenerationJob` rows of the case;
`ClickChecks`, `ClickBegins`, `ClickMarks` and `ClickSends` one press of either
button; `TakeJob` and `PaneEnds` what a worker does with it; `PollReads` and
`PollCloses` the status call that closes a stale row.

Documents are those of one case; `doc[d]` is "none" for one that is in another case or in
none. `MovedIn` and `MovedAway` are `DocumentSvc.update`: the document keeps its
`ragStatus`, so one that is READY joins or leaves the case's READY set at once. Moved in,
it is put in the queue to be read again, and is `due` until that extraction ends and
announces it; one that began before the move announces the case it was in then
(`ExtractedForAnother`, and the message `MovedAway` may leave behind). Moved away, nobody
tells the case it was in (`LeavesQuietly`).

`trouble` is the first thing that happened which the code does not survive;
`ChangeIsAnalysed` names each.

### DocumentExtraction

A document's row, its chunks, the messages and memory that hold its job, and the runs
of `process()`. `Replaces` and `Swaps` are the transaction of a small
document, two steps because its DELETE sees only what was committed before it; `Clears` and `Fills` store a
large one in rounds, each a statement of its own; `Verifies` counts, `MarksReady` and `MarksFailed` end it, `Throws` and
`Cleans` are the `catch`. `Hangs`, `TimesOut` and `Wakes` are a call that does not
answer, the deadline that frees the slot, and the late answer. `ReloadLists` and
`ReloadQueues` are the sweep and the reload at boot, two actions because the list is
read before what is at work is looked at.

## 3. What each run checks

| Run | Instance | What it shows |
|---|---|---|
| `market` | 2 lawyers, 2 places, windows 2/1/1, quotes good for 1 or 2, failing sweep steps, fair server; 771,534 states | the three tables agree and at most one is picked (`TablesAgree`); the pick-by date covers the quotes; an end is final; a good quote is not expired; `Engagement` is implemented; every request is engaged or over in the end |
| `crowd` | 3 lawyers, 2 places, symmetric, no failing step; 2.2 million states | places are never oversold, and a named request is the named lawyer's; the sweep drops nobody inside their time |
| `paying` | 2 quotations one after the other, 1 attempt each, 2 clicks, stops; 116,019 states | one payment engages, and `Engagement` is implemented, with two payments going through, late success and a stop |
| `money_found` | 1 quotation, 2 attempts, 2 clicks each, fair; 49,777 states | one attempt waits at a time; money is found and late money goes back; an accepted quotation is paid or expires |
| `refunds` | 2 refunds, 4 paid of which 3 the lawyer's; 20,127 states | never more back than paid or than the lawyer's part; the lawyer gives back their part; a disputed earning is held |
| `books` | 1 earning, 2 withdrawals, amounts 1 and 2; 3.7 million states | the ledger agrees with the rows, no withdrawal overdraws, paid once, ended as the bank has it |
| `withdrawals_end` | 1 earning, 1 withdrawal, stops anywhere, fair; 3,743 states | a withdrawal is paid or comes back, unless 23 hours pass before the sweep gets through |
| `card_charges` | a fee and a top-up, 2 calls, 2 attempts, 2 cards, stops; 216,530 states | what is recorded was taken, and taken once but for two named exceptions; what was taken is recorded in the end |
| `chat` | 1 turn, 2 deliveries to 2 instances, answers of 1 or 2 topics, looks that fail; 469,146 states | DONE has an answer; one run answers unless two were at work at once; a turn always ends |
| `analysis` | 2 documents that come, go, move and are read again, 2 workers, 2 changes, 1 fault, both buttons once; 1,227,841 states | no change of the READY documents is forgotten; each is analysed in the end, but for the named troubles |
| `extraction` | 1 document of any size, 2 runs that may overlap, 1 reading again, 2 faults; 644,000 states | READY is all of the text, once, unless two runs overlapped; a document is read or evicted in the end |
| `charged_twice` | a fee, 3 attempts, 1 card | a comment the code does not keep: section 7 |

`HolderNotDropped` is only claimed where no step fails. When `quote-expiry` fails in a
minute in which the pick-by date passes, `expire` of the same run ends the request, and
with it the claim of a lawyer who joined late and is still inside their 24 hours; when
it does not fail, the expiring quotes are gone before `expire` looks.

The payment, refund, charge, chat, analysis and extraction runs turn deadlock checking
off, because there the system really stops (every quotation decided, every refund made,
every turn answered, nothing left to read). The request's runs leave
it on: the sweep never stops. The wallet's leave it on too, since a dispute can
always be opened or closed.

### Why the bounds are enough

- **Lawyers.** Two lawyers are enough for every rule between a lawyer and the
  others (picked and not chosen, named and not named, last one leaving). Places
  are the one rule about three, so `crowd` has three lawyers for two places.
- **Windows.** A deadline matters by its order to the others: the hold before, with
  and after the quote's expiry and the window. With windows 2, 1, 1 and quotes of 1
  or 2 all of these orders occur; larger values repeat them.
- **Quotations and attempts.** A second quotation is what late money of the first can
  clash with; a second attempt is what makes "waiting", "failed but payable" and
  "latest" different things. Two clicks are two calls in flight for one attempt, and
  the idempotency key makes a third the same as the second.
- **Amounts.** Two different amounts distinguish part from whole; the ServiceFee of 3
  in an Amount of 4 gives refunds of the lawyer's part, the platform's and both.
- **Withdrawals.** Two share the AVAILABLE balance and the connected account. The
  liveness of one does not depend on another, so `withdrawals_end` has one, with stops.
- **Earnings.** One: an earning interacts with another only through the sums.
- **Charges.** Two calls are a retry beside a retry, or beside a top-up; a third is
  refused as the second is. Two attempts give an earlier one whose webhook is late, and
  two cards a key first used with another card. Three attempts with one call fewer
  (4.0 million states) and two top-ups (8.9 million) were also run, with nothing new.
- **Turns.** Turns of one consultation meet only in the check before a new one, which
  reads the latest row. Two deliveries on two instances are a redelivery after a crash,
  an overlap, and a Stop that lands on the instance that is not at work; two topics are
  a split answer cut short.
- **Documents.** Two make a set that changes and changes back; two changes are what a
  run at work can miss. One document is enough for extraction, where documents meet
  only in the slots; two runs of it are the overlap, and two faults a loss followed by
  a stop.
- **CONSTRAINT Untroubled** cuts `analysis` where a trouble has been met. From there
  `ChangeIsAnalysed` and `ChangeIsRemembered` hold by their own words, and a fair
  behaviour that is never cut has every step it is owed inside the part that is kept,
  so nothing is lost.

## 4. Fairness

| Assumed | Why the code justifies it |
|---|---|
| `ClientRequest`: `WF(Route)` | `create()` returns. The stop in between is a listed hazard, not assumed away silently |
| `SF(Tick)`, `WF(SweepStep \/ SweepStepFails)` | the clock moves; `tick()` goes through its steps in a `try`, every minute (`node-cron`) |
| `SF(SweepEndsOne)` | a step may fail in any minute, but the same work does not fail for ever |
| `QuotationPayment`: `WF(Read ...)` of a success, `WF(ApplySucceeded)` | Stripe repeats a webhook until one is answered with 2xx |
| `WF(Decided)` | Stripe ends what is processing |
| `WF(GivesBack)`, `SF(CancelIntent)`, `WF` of the sweep's steps | calls to Stripe are answered when made often enough; the sweep comes back every minute |
| `Wallet`: `WF(RunPayout)`, `WF(Resume)`, `SF(Ages)` of a fresh one | the server's own steps go on until a stop, and the sweep's `resumeStalledPayouts` finds what stalled five minutes later. Nobody is owed that 23 hours pass, so without the sweep `WithdrawalsEnd` fails |
| `SF(Answered)` of each call, `SF` of the write that records it | the sweep replays every minute: a call made again and again is answered, and the server does not stop in the same place for ever |
| `SF` of the webhooks, `WF(PayoutDecided)` of a pending payout | Stripe's retries; a payout reaches the bank or fails |

| `CardCharge`: `WF(Webhook recorded)` | Stripe repeats a webhook until it is answered with 2xx; nothing is assumed of the calls |
| `ChatTurn`: `WF(SweepReads)`, `WF(Age)`, `WF(SweepWrites)`, `SF` of a sweep's write that succeeds | the sweep runs on every instance by a timer, and a write does not fail for ever; no worker is assumed to get anywhere |
| `CaseAnalysis`: `WF(WorkerSteps)`, `WF(GoesStale)`, `WF(ExtractionBegins)` of a document that is due, `WF(Extracted \/ ExtractionFails)` | a worker goes on until it dies (`Redelivers`: the message of a dead one comes again), clocks move, a queued extraction is taken and ends (`IsReadInTheEnd`; a document that is due is in the queue, or `trouble` was met) |
| `DocumentExtraction`: `WF` of the sweep, of age, of a free slot and of each run's steps and deadline | timers and the queue's own loop; a hung call need not answer |

No client and no lawyer is ever assumed to act. `AcceptedIsDecided` has one
exception in its statement: a client who tries one card after the other for ever
keeps the sweep's cancel from finding the intent open.

## 5. Assumptions and abstractions

- A transaction at READ COMMITTED whose first statement locks the row it decides
  on is one action. `settleRefund` and `closeDispute` do not, and are two.
- One sweep runs at a time (`withCronLock`; a run longer than 30 minutes is a hazard
  without a property).
- The run of one payout has ended before the sweep resumes it: a call to Stripe
  times out long before the five minutes of `STALLED_PAYOUT_AFTER_MS`.
- Stripe keeps an idempotent answer for 24 hours; `STALLED_PAYOUT_MAX_AGE_MS` is 23.
- The payee's account was ready when `withdraw()` looked, before the reserve.
- Notifications, e-mails, audit entries and texts are left out. The reminder
  (`remindDue`) writes a mark nothing else reads.
- The dummy providers, which settle in the same call, are the tests'.
- The lawyers that match a request are fixed: matching only decides to whom it is
  offered.
- **Card charges.** Cards are Stripe's; once there is one on file it is only replaced,
  and each saved card is another payment method. Stripe's keys do not expire between two
  retries. `applyStripeIntent` reads the row, then Stripe, then settles; the conditional
  update decides, so it is one action. The request is only confirmed, engaged or given
  back. Admin refunds of charges and `confirm()`, which nothing calls any more, are left
  out.
- **Chat turns.** The consultation is not deleted mid-turn. What has been streamed or
  checkpointed is one flag (`begun`): whether a Stop finds text to keep.
- **Case analysis.** The branch of a client's own case and the jobs of an unchanged look
  (the intake, the mind map) are left out. A deletion is one step. DONE and FAILED rows
  are both "over". `MaxChanges` also bounds what sweeps put back to PENDING. Extractions
  of one document end one after the other: two at once are `DocumentExtraction`'s. The
  message an archived document sends without a change of the READY set is left out.
- **Extraction.** `Jobs` bounds the runs at once, hung ones included. Eviction by age is
  one flag (`old`). A message may be received whenever it is there, which allows more
  than the 20-second poll does. One instance: a second one at boot is in section 7.

## 6. What is proved

`tlapm` checks every leaf of the eight proof modules. The assumptions are those on the
constants (`LawyersAssumption`: finitely many lawyers, none of them the placeholder;
`WindowsAssumption`: windows and places are positive; `AttemptsAssumption`;
`RefundAssumption` and `AmountsAssumption`: finitely many rows, amounts are whole and
positive; `CallsAssumption` of `CardCharge` and `SetsAssumption` of `DocumentExtraction`:
finitely many calls, documents and runs, with `RowsAssumption`, `RoundsAssumption`,
`HomeAssumption` and `BoundsAssumption` of these two; `HomeAssumption`, `TopicsAssumption`,
`ReadsFailAssumption` and `NoneAssumption` of `ChatTurn`; `BoundsAssumption` of
`CaseAnalysis`), which TLC evaluates in the runs. Every invariant and every action property
of section 3 is proved, and the refinements; what is not is liveness (below).

### ClientRequest, for any lawyers, places and windows, sweep steps failing or not

| Theorem | Statement |
|---|---|
| `TypeCorrect` | `Spec => []TypeOK` |
| `TablesAlwaysAgree`, from `QuotationsFollowClaims`, `NoStakeLeft`, `OnePick` | claims and quotations agree; nothing is left open at an end; exactly one lawyer after the pick |
| `PlacesHold`, `LeftStaysLeft` | places are not oversold and the named lawyer's request is theirs; who left is excluded |
| `QuotesAreCovered` | the pick-by date exists while a quote waits, and covers it |
| `OverIsOver`, `GoodQuotesLive`, `BackMeansAnnounced` | the action properties; the third, that back in the pool means announced again with nobody left on the request, and `LeftStaysLeft` are proved only |
| `HoldersKeepTheirPlace` | `~StepsFail => (Spec => HolderNotDropped)`: only a sweep step that failed takes a place before its time |
| `RequestKeepsThePromise` | ClientRequest implements Engagement |

None of the invariants is inductive alone, and three groups of them are:

- `Agreement` joins `QuoteInStep`, `NothingLeftOpen` and `OneLawyerOncePicked` with
  two facts no property states: until `create()` has routed the request nobody but
  the client has touched it (`NotYetRouted`, or else `Route`'s unconditional update
  could put a decided request back in the pool), and a quoted claim is an open one.
- `Joined` adds to the places that, while the request is limited to the named lawyer,
  nobody else has *ever* held it. Without it a lawyer who had held the request could
  claim it again (`IsFor`) and the limit would not be inductive.
- `PickBy` adds that `pickBy` and `announced` are untouched before the routing.

The action properties follow from a lemma each on what steps may change (`StepStatus`,
`StepWindow`, `StepDrops`) and these invariants. `HoldersKeepTheirPlace` needs besides that
a sweep past its `quotes` step has left no quote that ran out (`ExpiredQuotesSwept`, which a
failed step breaks): then a pick-by date that has passed belongs to nobody, so `expire`
ends a request only when no lawyer is on it. The refinement needs in addition that whoever has
left does not come back (`GoneStayGone`, from `Claim`'s re-check of `excluded`) and that
a pick is taken back only by `ExpireAccepted` (`ChosenStays`); then each way the
status moves is one action of `Engagement`.

### QuotationPayment, for any quotations and attempts

| Theorem | Statement |
|---|---|
| `PaymentsTypeCorrect` | `Spec => []TypeOK` |
| `OneAttempt` | one attempt of a quotation waits: only `StartNew` makes one wait, and it finds none waiting |
| `OneEngagement` | one payment engages, whoever else's money went through and whenever the server stopped |
| `MoneyReal` | what is recorded as paid was paid; what is given back as late engaged nobody |
| `LateMoney` | `~Stops => (Spec => []LateMoneyIsRefunded)`: only a stop forgets late money |
| `PaymentsKeepThePromise` | QuotationPayment implements Engagement |

The inductive invariant is `Inv`: `EngagedByOnePayment` with `OneAccepted` (only a
CONFIRMED request has an accepted quotation, and one: otherwise an engagement could
leave a second one accepted) and `MoneyIsReal` (a success that was read is a success at
Stripe, which stays one; a refund of late money is of a payment that earned nothing, so
that marking it REFUNDED cannot touch the one that engaged). `LateMoney` says that a stop
between the two transactions is the only way to lose late money (section 7).

### QuotationRefund, for any refunds, amount and lawyer's part

| Theorem | Statement |
|---|---|
| `TypeSafety` | `Spec => []TypeOK`: no part of a refund is negative or too large |
| `RefundsFit` | what was given back or is on its way is no more than was paid, nor than the lawyer's part |
| `LawyerPartExact` | the earning is reversed by the lawyer's part of what went through, until a lost dispute takes all |
| `DisputedEarningHeld` | a DISPUTED payment's earning is held |

The four are inductive together with two facts: a refund that is being settled is PENDING
and made at Stripe (`SettlesWhatIsPending`, without which a second settlement of it would
reverse its part again) and a REVERSED earning is reversed in full (`ReversedInFull`,
because `reverseEarningTx` then does nothing). That nothing is cut off when a refund settles
(`RoomForOneMore`) is where `RefundsFit` carries `LawyerPartExact`: the parts that went
through and the one now settling are parts of what is held, which fits.

### Wallet, for any earnings, withdrawals and amounts, stops or none

| Theorem | Statement |
|---|---|
| `TypeSafety` | `Spec => []TypeOK`: no earning is reversed by more than it came to |
| `LedgerAgreesWithRows` | each bucket is what the rows make of it, to the cent |
| `WithdrawalPaidOnce` | one payout of a withdrawal, however often it is replayed |
| `RowsEndAsAtTheBank` | PAID and FAILED only as the bank had it |
| `WithdrawalsNeverOverdraw` | the action property: only a reversal overdraws |

`BooksAgree` needs that an earning that has not come in is whole (`NewIsWhole`), and of each
step that what it moves is what the sums lose and gain (`EarningMoves`, `WithdrawalMoves`).
The other two go by `PayoutsInOrder`: what Stripe said of a payout fits what became of it
(`StripeInOrder`: there is none without a transfer, and one at most); while `runPayout` is at
work the key is still kept, and the step it is at is the one Stripe's answer calls for
(`RunInOrder`); the webhook goes by a payout that failed (`WebhookInOrder`); and the row
ended for a reason that lasts (`EndedInOrder`). That the sweep leaves a withdrawal alone
after 23 hours is what makes `RunInOrder` inductive: a replay is never without its key.

**Sums.** The code asks the database for sums, so both modules sum over a set of rows with
`SumFunctionOnSet`, a fold. That the fold adds one row at a time, whichever, is proved by
the least counterexample: a set for which it is wrong and that has the fewest elements
(`LeastNatural`) is not empty, and without one of its elements it is right. `SumsExist`
(the recursion has a solution), `SumsAgree`, `SumType`, `SumWithout` and `SumGrows` each
take this form; `SumMoves`, what the change of one row does to a sum, is what the steps use.

### CardCharge, for any charges, calls, attempts and cards

| Theorem | Statement |
|---|---|
| `TypeSafety` | `Spec => []TypeOK`: no attempt is counted that was not let in |
| `MoneyTakenOnce` | what is recorded was taken; a charge is taken once, unless `misjudged` or `passedOver` |

The invariant counts: no more calls are at work on a charge than its `attempts`, and the
fee's attempts stay within the bound with the calls about to count theirs (`TriesCounted`,
two cardinalities), a top-up has one
buyer (`TriedByBuyer`), Stripe is only asked for a number that was counted
(`AskedIsCounted`) and keeps, tells and has told how its payments ended (`StripeKeeps`).
`OneRunning` is the heart: of a charge that was neither misjudged nor passed over, one call
at most is at work, for the number the row counts, and no payment with another number can
still take money.

### ChatTurn, for any turns, deliveries, instances and topics

| Theorem | Statement |
|---|---|
| `TypeCorrect` | `Spec => []TypeOK` |
| `DoneHasReplyAlways` | a turn that is DONE has an answer |
| `OneRunRepliesAlways` | one run answers a turn that no two runs worked on at once |

`DoneHasReply` needs that a run about to write DONE has written a row (`RunsInStep`).
`OneRunReplies` needs `OneAtWork`: of a turn that is not `together` one run at most is
at work, and while it writes its rows nobody else's are there, because it looked when it
was already the only one.

### CaseAnalysis, for any documents, workers and bounds

| Theorem | Statement |
|---|---|
| `TypeCorrect` | `Spec => []TypeOK` |
| `ChangeIsRememberedAlways` | while the analysis is behind, something still to come looks again, or a trouble `ChangeIsAnalysed` names was met |

The invariant is `Remembered`: with nothing that looks again, the run at work, or else
the one that was saved last, covers the READY documents but for those being read again
and those moved in that are due to be (the end of either sends a message). It needs that one run at most analyses (`OneRun`, unless
`trouble`) and that `print` is one fingerprint (`PrintOne`).

### DocumentExtraction, for any documents, servers, runs, rounds and faults

| Theorem | Statement |
|---|---|
| `TypeSafety` | `Spec => []TypeOK` |
| `ReadyDocumentsAreWhole` | READY is all of the text, once, unless two runs of the document overlapped |

The invariant says what a run alone on its document has stored so far (`OneRunStores`): at
`swaps` it has seen all there is, at `fills` its own rounds up to the one it is at and
nothing else, at `verifies` and `readies` all of them; and that the row is not READY while
its chunks change. The case that needs it is a large document, stored in statements that
each commit.

### Only model-checked

The liveness properties: `EventuallyDecided`, `WithdrawalsEnd`, the two `PaidIsRecorded`,
`LateMoneyComesBack`, `AcceptedIsDecided`, `TurnEnds`, `ChangeIsAnalysed` and
`IsReadInTheEnd`. They need fairness and ENABLED, which the provers cannot reach; TLC checks
them at the bounds of section 3. `NeverChargedTwice` is refuted (section 7).

## 7. Findings

`charged_twice` has a run in which TLC finds the trace. The others were found by a run
of the same kind that has given way to newer ones, or by hand while modelling; each has
its line.

**`charged_twice`.** `startAttempt` (`src/repositories/organization-charge.repository.ts:117`)
leaves the last attempt's `paymentIntentId` on the row. An attempt is declined and its
`payment_failed` webhook is late. The lawyer retries; while the retry is at Stripe the
webhook finds the row PENDING with that payment and marks it FAILED
(`src/services/organization-charge.service.ts:177`, "a failure only ends the attempt that
made this payment"). The lawyer retries again, under a new key, and both payments go
through, against "Never charges twice" (`src/services/client-request-lawyer.service.ts:504`).
`TakenOnce` leaves out the rows this happened to, by name.

### The market and its money

- **The named lawyer's request waits for nobody.** `expireAccepted`
  (`src/repositories/quotation.repository.ts:253`) puts a request back in the pool without
  `requestedOnly: false`, unlike `afterClaimEnded` and `lapseUnpaid`. The named lawyer's
  accepted quote expires unpaid: the request is ROUTED, limited to the lawyer who was just
  excluded from it, and nobody can take it until `openDirectDue`, a whole window later.
  `src/prisma/schema.prisma:1395` promises every matching lawyer.
- **A withdrawn request is routed.** `route()`
  (`src/repositories/client-request.repository.ts:214`) updates by id. The client withdraws
  between the insert and `route()`: the withdrawn request is sent out to lawyers.
- **Late money is kept after a stop.** The refund of late money is recorded after
  `settle`'s transaction (`src/services/quotation-payment.service.ts:338`). A stop in
  between: the retried webhook finds the payment settled (`:334`), and the client's money
  is kept with no refund and no earning. `src/repositories/quotation-payment.repository.ts:101`:
  "so the caller refunds it".
- **A refund's amount is lost.** `settleRefund`
  (`src/repositories/quotation-payment.repository.ts:214`) reads `refundedMinor` without a
  lock and writes a sum. Two refunds settle at once, one amount is lost, and a payment
  refunded in full stays PARTIALLY_REFUNDED.
- **A failed payout's transfer is not taken back.** `payout.failed`
  (`src/services/wallet.service.ts:299`) reverses the transfer only if the row has its id,
  which is written after `payout()` returns. The webhook comes first: FAILED, AVAILABLE
  whole, the transfer still with the connected account.
- **A quote that ends at the pick-by date revives the request.** Both reach 0 in one
  minute. The sweep's `quote-expiry` runs before `expire`
  (`src/queues/client-request-sweep.queue.ts:69`): the last claim ends, `afterClaimEnded`
  opens a fresh window and clears `pickByAt`, and `expire` finds nothing.
  `src/swagger-client-handoff.ts:565` says "the request expires if the client hasn't
  picked one by then". `EventuallyDecided` holds all the same.
- **An intent whose attempt FAILED can still be paid while the sweep expires the
  quotation** (`src/services/quotation-payment.service.ts:386` asks only about PENDING
  attempts). The money is late and is refunded, but the client who paid loses the lawyer.
- **`charge.dispute.closed` before `charge.dispute.created`.** `closeDispute`
  (`src/repositories/quotation-payment.repository.ts:248`) finds nothing to close; then
  `openDispute` holds the earning, and no event is left to undo it.
- **One open request per case** is checked (`src/services/client-request.service.ts:190`)
  before the insert, with no unique index: two calls at once make two. A stop between the
  insert and `route()` (`:205`) leaves a REQUESTED row no sweep step looks at.
- **Nobody is told.** `announce()` marks the announcement and then looks up the lawyers
  (`src/services/client-request-notify.service.ts:53`): a stop in between tells nobody, and
  the mark keeps anyone from trying again. Access to the case is granted after `settle`'s
  transaction (`src/services/quotation-payment.service.ts:359`), with the same gap.

### Card charges

- **A top-up that is PENDING for ever.** The server stops between `createTopUp` and the
  end of the attempt, or a failure's webhook comes before `setPaymentIntent` has written
  the payment it would match: nothing ends the row, and every later top-up of the request
  is BUSY (`src/repositories/organization-charge.repository.ts:95`). A fee in the same
  place answers "being charged already" for ever, and `lapseUnpaid`, which wants FAILED,
  does not give the request back. Only a *success* has a webhook that finds the row.
- **A call without a card counts past an unanswered attempt.** It read no card; before it
  writes, a card is saved and another call's answer is lost, which leaves the attempt's
  number to be used again. `failWithoutAttempt` (`:124`) then counts that number, and clears
  `provider`, so the webhook of the payment is ignored
  (`src/services/organization-charge.service.ts:170`) and the next retry charges again.
- **A lost decline and a new card.** The number, and so the key, is the same and the card
  is not: Stripe refuses the request as a misuse of the key, which reads as "couldn't
  reach", and the number is taken back again. `src/prisma/schema.prisma:3672`: "a retry
  after a new card is a new payment".
- **A retry that passed its check before `lapseUnpaid`**
  (`src/services/client-request-lawyer.service.ts:514`) charges a fee the request no longer
  owes; and the late success of a lapsed fee engages the request for whoever is CONFIRMED
  by then, because `settle` looks at the request's status only (`:170`).

### The work on a case

- **Stop and a full answer.** A Stop between the last look at the status
  (`src/services/chat.service.ts:1244`) and the insert saves the partial answer beside the
  full one; the comment there calls the status "the tiebreaker, so a cancelled turn never
  also gets a full reply". Two questions at once both find no pending turn
  (`src/repositories/chat.repository.ts:281`).
- **A change back is overlooked.** A document comes while nothing runs, an analysis lists
  it, and it is deleted again: the message that follows compares with the fingerprint of
  *before* the run, finds nothing new (`src/queues/case-post-extraction.ts:81`) and is let
  go; the run then saves what it had listed (`src/services/case-refresh.service.ts:300`).
  The comment at `case-post-extraction.ts:119` promises that "a change that lands
  mid-refresh still gets picked up". The fingerprint is not cleared when a run starts.
- **A document that leaves quietly.** `update` moves a READY document to another case or to
  none (`src/services/document.service.ts:307`) and tells the case it was in nothing: line
  309 queues an extraction only if there is a new case or chat, and that announces the new
  case. One move of an analysed document is the whole trace, and the old case's analysis
  keeps its text until something else changes there. So does the analysis when a document
  whose reading again has begun, PENDING therefore, is deleted, moved or fails: only the
  deletion of a READY one sends a message (`:451`; the comment at `:447` says that deleting
  another "has nothing for the fingerprint check to see change"). Without `LeavesQuietly`
  in `MovedAway`, TLC refutes `ChangeIsRemembered` in one step.
- **A document that comes in unread.** One moved in is READY in the new case at once, and
  only its extraction announces it. If the server stops before the message is out
  (`:309` does not wait for it), no sweep finds the document, because it is not PENDING
  or FAILED (`src/repositories/document.repository.ts:175`), and nothing looks at the case.
- **The lock is checked and then marked** (`src/services/ai-generation-lock.service.ts:111`),
  and the panes are looked at before it (`src/services/case-refresh.service.ts:57`): a pane
  and the analysis overlap. A row queued for more than ten minutes counts as stale, and a
  second run is begun beside the first, against "At most one caseRefresh job for this case
  is ever IN_PROGRESS" (`case-post-extraction.ts:123`).
- **A hung run's message is not due again while it hangs.** Its heartbeat goes on past the
  deadline, against `src/queues/document-extraction.queue.ts:207`; the sweep reads the
  document all the same. Two runs of a small document whose transactions overlap leave both
  sets of chunks. Two servers that boot at once both find every document "unambiguously
  stuck" (`:109`). An upload without text and without a recorded size is tried for ever:
  eviction looks for `fileSize: 0` (`src/repositories/document.repository.ts:304`).

### Parts without a model

- **A firm without an owner.** `assertCanLeave` and `assertNotLastOwner`
  (`src/services/organization.service.ts:599`) count the owners before the transaction: two
  owners who leave, or demote each other, at once leave none. Two last members who leave at
  once each see the other, and the firm is not archived; an invite accepted while the last
  member leaves joins an archived firm.
- **Copies of a case.** `copy()` (`src/services/client-request-lawyer.service.ts:531`) finds
  no copy and enqueues one in a second statement; two clicks make two, against "queued once"
  (`src/repositories/case-copy.repository.ts:98`). A stop between `markDone` and the write of
  the request's `copyCaseId` leaves the request without its copy.

## 8. Plan

Done: the eight detailed modules, `Engagement`, and proofs of all their safety properties.
Next, in this order:

1. **Refinements**: an abstract earning that `QuotationRefund` and `Wallet` both implement,
   and an abstract document for `DocumentExtraction` and `CaseAnalysis`, as `Engagement` is
   for the request and its payment.
2. **`Members`**: leave, remove, change of role, invite and accept over one firm, with its
   archive and deletion; property: a firm with members has an owner.
3. **`CaseCopies`**: find, enqueue, claim, copy, mark, requeue.
4. **`RowLocks`**: the market's transactions as sequences of row locks: no two wait for
   each other, and what `REQUEST_ROW_FIRST` buys.

**Not modelled**, and why: what a language model writes, what Google answers, what a
route validates and how a page is shown have no order to check; sign-in is about
secrets; briefs, the open request of a case and the calendar are single writes whose one
race is in section 7.

## 9. Running it

```
tlc -config MCClientRequest.cfg MCClientRequest.tla      # and so for each cfg
tlc -config MCChargedTwice.cfg MCCardCharge.tla          # finds the trace of section 7
tlapm ClientRequestProofs.tla                            # and so for each proof module
```

The largest runs (`books`, `analysis`, `extraction`) take about two minutes on two cores; the proofs
take one to five minutes each.
