-------------------------- MODULE QuotationPayment --------------------------
(***************************************************************************)
(* The client pays an accepted quotation through Stripe: attempts          *)
(* (QuotationPayment rows), their PaymentIntents, what a payment that took  *)
(* money does (settle), the expiry that cancels what is still open, and     *)
(* the refund of money that came too late.                                 *)
(*                                                                         *)
(* start, end, settle, accept and expireAccepted are one transaction each,  *)
(* so one action each.  Everything that asks Stripe (the form, the app's    *)
(* status poll, a webhook, a resumed start, the sweep's cancel) reads the   *)
(* intent in one step and writes what it read in a later one; between the   *)
(* two the client, Stripe, another reader and the sweep go on.             *)
(***************************************************************************)
EXTENDS Integers, FiniteSets

CONSTANTS
    Quotations,   \* one lawyer's quotation after the other
    MaxAttempts,  \* bound: attempts at paying one quotation
    Stops         \* may the server stop, or Stripe not be reached, as late money
                  \* is given back?

ASSUME AttemptsAssumption ==
    /\ MaxAttempts \in Nat \ {0}
    /\ Stops \in BOOLEAN

VARIABLES
    request,    \* ClientRequest.status
    quotation,  \* Quotation.status
    due,        \* the quotations whose expiresAt has passed
    payment,    \* QuotationPayment.status, or "NONE"
    known,      \* the payments whose paymentIntentId is on the row
    earned,     \* the payments with an Earning
    refund,     \* the refund of money that came too late
    refunding,  \* the payments Stripe is giving back
    creating,   \* the createIntent calls in flight, by payment and click
    intent,     \* the PaymentIntent at Stripe
    form,       \* the payments whose client secret the client's app has
    read,       \* what readers of an intent have read and not yet written
    expiring    \* how far the sweep is with a quotation

requestVars == <<request, quotation, due>>
paymentVars == <<payment, known, earned, refund>>
stripeVars  == <<refunding, intent, form, read>>
vars == <<requestVars, paymentVars, stripeVars, creating, expiring>>

Payments == Quotations \X (1..MaxAttempts)

Of(q) == {p \in Payments : p[1] = q}

Clicks == {"first", "second"}

\* declined: requires_payment_method after an attempt; the client can try
\* another card on it.
Intents == {"none", "open", "declined", "processing", "succeeded", "canceled"}
OpenIntents == {"open", "declined"}

\* owed: settle() has returned orphaned, and its caller has not yet recorded the
\* refund; asked: recorded PENDING, and the provider is being asked.
Refunds == {"none", "owed", "asked", "PENDING", "SUCCEEDED", "FAILED"}

TypeOK ==
    /\ request \in {"ROUTED", "CONFIRMED", "ENGAGED"}
    /\ quotation \in [Quotations -> {"NONE", "SENT", "ACCEPTED", "PAID", "EXPIRED", "NOT_CHOSEN"}]
    /\ due \subseteq Quotations
    /\ payment \in [Payments -> {"NONE", "PENDING", "SUCCEEDED", "FAILED", "CANCELED", "REFUNDED"}]
    /\ known \subseteq Payments
    /\ earned \subseteq Payments
    /\ refund \in [Payments -> Refunds]
    /\ refunding \subseteq Payments
    /\ creating \subseteq Payments \X Clicks
    /\ intent \in [Payments -> Intents]
    /\ form \subseteq Payments
    /\ read \subseteq Payments \X {"SUCCEEDED", "FAILED", "CANCELED"}
    /\ expiring \in [Quotations -> {"no", "cancel", "expire"}]

Init ==
    /\ request = "ROUTED"
    /\ quotation = [q \in Quotations |-> "NONE"]
    /\ due = {}
    /\ payment = [p \in Payments |-> "NONE"]
    /\ known = {}
    /\ earned = {}
    /\ refund = [p \in Payments |-> "none"]
    /\ refunding = {}
    /\ creating = {}
    /\ intent = [p \in Payments |-> "none"]
    /\ form = {}
    /\ read = {}
    /\ expiring = [q \in Quotations |-> "no"]

-----------------------------------------------------------------------------
(* The quotation before it is paid: ClientRequest has the whole of it.     *)

Send(q) ==
    /\ request = "ROUTED"
    /\ quotation[q] = "NONE"
    /\ quotation' = [quotation EXCEPT ![q] = "SENT"]
    /\ UNCHANGED <<request, due, paymentVars, stripeVars, creating, expiring>>

Accept(q) ==
    /\ request = "ROUTED"
    /\ quotation[q] = "SENT"
    /\ q \notin due
    /\ request' = "CONFIRMED"
    /\ quotation' = [c \in Quotations |-> IF c = q THEN "ACCEPTED"
                                          ELSE IF quotation[c] = "SENT" THEN "NOT_CHOSEN"
                                          ELSE quotation[c]]
    /\ UNCHANGED <<due, paymentVars, stripeVars, creating, expiring>>

FallsDue(q) ==
    /\ quotation[q] \in {"SENT", "ACCEPTED"}
    /\ q \notin due
    /\ due' = due \union {q}
    /\ UNCHANGED <<request, quotation, paymentVars, stripeVars, creating, expiring>>

-----------------------------------------------------------------------------
(* Starting a payment.                                                     *)

Payable(q) == request = "CONFIRMED" /\ quotation[q] = "ACCEPTED" /\ q \notin due

\* The attempts still waiting on the client.
Pending(q) == {p \in Of(q) : payment[p] = "PENDING"}

NoneKnown(q) == Pending(q) \intersect known = {}

NonePending(q) == Pending(q) = {}

\* QuotationPaymentRepo.start: a new attempt, numbered after the last; one that
\* is PENDING is returned instead.
StartNew(q) ==
    /\ Payable(q)
    /\ NonePending(q)
    /\ \E n \in 1..MaxAttempts :
         /\ payment[<<q, n>>] = "NONE"
         /\ \A m \in 1..(n - 1) : payment[<<q, m>>] # "NONE"
         /\ payment' = [payment EXCEPT ![<<q, n>>] = "PENDING"]
         /\ creating' = creating \union {<<<<q, n>>, "first">>}
    /\ UNCHANGED <<requestVars, known, earned, refund, stripeVars, expiring>>

\* A second click: the pending attempt, whose intent is not known yet.
StartAgain(p, click) ==
    /\ Payable(p[1])
    /\ payment[p] = "PENDING"
    /\ p \notin known
    /\ <<p, click>> \notin creating
    /\ creating' = creating \union {<<p, click>>}
    /\ UNCHANGED <<requestVars, paymentVars, stripeVars, expiring>>

\* createIntent: the payment's id is the idempotency key, so a second call gets
\* the same intent.
Created(p) == [intent EXCEPT ![p] = IF @ = "none" THEN "open" ELSE @]

\* The answer is written to a payment still PENDING; the app has the secret.
CreateIntent(p, click) ==
    /\ <<p, click>> \in creating
    /\ intent' = Created(p)
    /\ known' = IF payment[p] = "PENDING" THEN known \union {p} ELSE known
    /\ form' = form \union {p}
    /\ creating' = creating \ {<<p, click>>}
    /\ UNCHANGED <<requestVars, payment, earned, refund, refunding, read, expiring>>

End(p, status) == payment' = [payment EXCEPT ![p] = IF @ = "PENDING" THEN status ELSE @]

\* No answer (whether or not Stripe made it): the attempt FAILED.
CreateIntentFails(p, click) ==
    /\ <<p, click>> \in creating
    /\ intent' \in {intent, Created(p)}
    /\ End(p, "FAILED")
    /\ creating' = creating \ {<<p, click>>}
    /\ UNCHANGED <<requestVars, known, earned, refund, refunding, form, read, expiring>>

\* The app comes back for an open intent, and gets its secret again.
Resume(p) ==
    /\ Payable(p[1])
    /\ payment[p] = "PENDING"
    /\ p \in known
    /\ intent[p] \in {"open", "processing"}
    /\ form' = form \union {p}
    /\ UNCHANGED <<requestVars, paymentVars, refunding, intent, read, creating, expiring>>

-----------------------------------------------------------------------------
(* The client and their bank, at Stripe.                                   *)

\* The client confirms in the form; an intent declined before can be tried again.
Confirm(p) ==
    /\ p \in form
    /\ intent[p] \in OpenIntents
    /\ intent' = [intent EXCEPT ![p] = "processing"]
    /\ UNCHANGED <<requestVars, paymentVars, refunding, form, read, creating, expiring>>

Decided(p) ==
    /\ intent[p] = "processing"
    /\ \E to \in {"succeeded", "declined"} : intent' = [intent EXCEPT ![p] = to]
    /\ UNCHANGED <<requestVars, paymentVars, refunding, form, read, creating, expiring>>

-----------------------------------------------------------------------------
(* Reading an intent, and writing what was read.                           *)

\* quotationResultOf, for an intent that is not still waiting or processing.
ResultWhen == [succeeded |-> "SUCCEEDED", canceled |-> "CANCELED", declined |-> "FAILED"]

\* Without applyResult's early return for one that is.
ResultOfPending(p) ==
    {IF intent[p] \in DOMAIN ResultWhen THEN ResultWhen[intent[p]] ELSE "PENDING"}

ResultOf(p) == {ResultWhen[i] : i \in DOMAIN ResultWhen \intersect {intent[p]}}

\* A webhook finds the payment by the intent's metadata, the poll and a resumed
\* start by the id on the row.
Read(p) ==
    /\ payment[p] # "NONE"
    /\ \E r \in ResultOf(p) : read' = read \union {<<p, r>>}
    /\ UNCHANGED <<requestVars, paymentVars, refunding, intent, form, creating, expiring>>

\* applyResult of an attempt that ended without money.
ApplyEnded(p, r) ==
    /\ <<p, r>> \in read
    /\ r \in {"FAILED", "CANCELED"}
    /\ End(p, r)
    /\ read' = read \ {<<p, r>>}
    /\ UNCHANGED <<requestVars, known, earned, refund, refunding, intent, form, creating, expiring>>

EngagesAnyQuote(p) == request = "CONFIRMED"

\* While the request is CONFIRMED on this quotation.
Engages(p) == request = "CONFIRMED" /\ quotation[p[1]] = "ACCEPTED"

SettlesPendingOnly(p) == payment[p] = "PENDING"

\* Even one marked FAILED or CANCELED: the money is real.
Settles(p) == payment[p] \in {"PENDING", "FAILED", "CANCELED"}

OwedWhenExpired(p) == IF quotation[p[1]] = "EXPIRED" THEN "owed" ELSE "none"

\* Orphaned: the caller gives it back.
Owed(p) == "owed"

\* QuotationPaymentRepo.settle, once; settle() then refunds an orphan.
Settle(p) ==
    IF Settles(p)
      THEN /\ payment' = [payment EXCEPT ![p] = "SUCCEEDED"]
           /\ known' = known \union {p}
           /\ IF Engages(p)
                THEN /\ request' = "ENGAGED"
                     /\ quotation' = [quotation EXCEPT ![p[1]] = "PAID"]
                     /\ earned' = earned \union {p}
                     /\ refund' = refund
                ELSE /\ refund' = [refund EXCEPT ![p] = Owed(p)]
                     /\ UNCHANGED <<request, quotation, earned>>
      ELSE UNCHANGED <<request, quotation, payment, known, earned, refund>>

ApplySucceeded(p) ==
    /\ <<p, "SUCCEEDED">> \in read
    /\ Settle(p)
    /\ read' = read \ {<<p, "SUCCEEDED">>}
    /\ UNCHANGED <<due, refunding, intent, form, creating, expiring>>

-----------------------------------------------------------------------------
(* Money that came too late is given straight back.                        *)

CreateRefund(p) ==
    /\ refund[p] = "owed"
    /\ refund' = [refund EXCEPT ![p] = "asked"]
    /\ UNCHANGED <<requestVars, payment, known, earned, stripeVars, creating, expiring>>

\* settleRefund of the whole amount.
Refunded(p, status) ==
    /\ refund' = [refund EXCEPT ![p] = status]
    /\ payment' = IF status = "SUCCEEDED" THEN [payment EXCEPT ![p] = "REFUNDED"] ELSE payment

\* The provider makes the refund or refuses it; an answer that is lost leaves it
\* PENDING, to be settled by refund.updated if Stripe has made it.
AskRefund(p) ==
    /\ refund[p] = "asked"
    /\ \/ refunding' = refunding \union {p} /\ \E status \in {"PENDING", "SUCCEEDED"} : Refunded(p, status)
       \/ refunding' = refunding /\ Refunded(p, "FAILED")
       \/ Stops /\ refunding' = refunding /\ Refunded(p, "PENDING")
    /\ UNCHANGED <<requestVars, known, earned, intent, form, read, creating, expiring>>

RefundUpdated(p) ==
    /\ refund[p] = "PENDING"
    /\ p \in refunding
    /\ \E status \in {"SUCCEEDED", "FAILED"} : Refunded(p, status)
    /\ UNCHANGED <<requestVars, known, earned, stripeVars, creating, expiring>>

\* The server stops, or createRefund throws, after the settle was committed.
Stop(p) ==
    /\ Stops
    /\ refund[p] = "owed"
    /\ refund' = [refund EXCEPT ![p] = "none"]
    /\ UNCHANGED <<requestVars, payment, known, earned, stripeVars, creating, expiring>>

-----------------------------------------------------------------------------
(* The sweep: an accepted quotation not paid in time (expireDue).          *)

FindExpired(q) ==
    /\ expiring[q] = "no"
    /\ q \in due
    /\ quotation[q] = "ACCEPTED"
    /\ request = "CONFIRMED"
    /\ expiring' = [expiring EXCEPT ![q] = "cancel"]
    /\ UNCHANGED <<requestVars, paymentVars, stripeVars, creating>>

\* The open intents cancelOpenPayments knows of.
ToCancel(q) == Pending(q) \intersect known

NothingToCancel(q) ==
    /\ expiring[q] = "cancel"
    /\ ToCancel(q) = {}
    /\ expiring' = [expiring EXCEPT ![q] = "expire"]
    /\ UNCHANGED <<requestVars, paymentVars, stripeVars, creating>>

\* Stripe cancels an intent still open; one that went through is settled.
CancelIntent(p) ==
    /\ expiring[p[1]] = "cancel"
    /\ p \in ToCancel(p[1])
    /\ \/ /\ intent[p] \in OpenIntents \union {"canceled"}
          /\ intent' = [intent EXCEPT ![p] = "canceled"]
          /\ End(p, "CANCELED")
          /\ expiring' = [expiring EXCEPT ![p[1]] = "expire"]
          /\ UNCHANGED <<request, quotation, known, earned, refund>>
       \/ /\ intent[p] = "succeeded"
          /\ Settle(p)
          /\ expiring' = [expiring EXCEPT ![p[1]] = "no"]
          /\ UNCHANGED intent
    /\ UNCHANGED <<due, refunding, form, read, creating>>

\* Still processing at the bank, or no answer: left for the next run.
CancelLater(p) ==
    /\ expiring[p[1]] = "cancel"
    /\ p \in ToCancel(p[1])
    /\ intent' \in {intent, [intent EXCEPT ![p] = IF @ \in OpenIntents THEN "canceled" ELSE @]}
    /\ expiring' = [expiring EXCEPT ![p[1]] = "no"]
    /\ UNCHANGED <<requestVars, paymentVars, refunding, form, read, creating>>

WaitingOrTaken(q) == {p \in Of(q) : payment[p] \notin {"NONE", "FAILED", "CANCELED"}}

\* The attempts that took money.
PaidAttempts(q) == {p \in Of(q) : payment[p] \notin {"NONE", "PENDING", "FAILED", "CANCELED"}}

\* expireAccepted: while it is still unpaid; what waits on the client is over.
ExpireAccepted(q) ==
    /\ expiring[q] = "expire"
    /\ IF request = "CONFIRMED" /\ quotation[q] = "ACCEPTED" /\ PaidAttempts(q) = {}
         THEN /\ request' = "ROUTED"
              /\ quotation' = [quotation EXCEPT ![q] = "EXPIRED"]
              /\ payment' = [p \in Payments |-> IF p \in Pending(q) THEN "CANCELED" ELSE payment[p]]
         ELSE UNCHANGED <<request, quotation, payment>>
    /\ expiring' = [expiring EXCEPT ![q] = "no"]
    /\ UNCHANGED <<due, known, earned, refund, stripeVars, creating>>

-----------------------------------------------------------------------------
ClientActs ==
    \/ \E q \in Quotations : Accept(q) \/ StartNew(q)
    \/ \E p \in Payments : Resume(p) \/ Confirm(p) \/ \E click \in Clicks : StartAgain(p, click)

Applies(p) == ApplySucceeded(p) \/ \E r \in {"FAILED", "CANCELED"} : ApplyEnded(p, r)

GivesBack(p) == CreateRefund(p) \/ AskRefund(p) \/ RefundUpdated(p)

SweepActs ==
    \/ \E q \in Quotations : FindExpired(q) \/ NothingToCancel(q) \/ ExpireAccepted(q)
    \/ \E p \in Payments : CancelIntent(p) \/ CancelLater(p)

Next ==
    \/ \E q \in Quotations : Send(q) \/ FallsDue(q)
    \/ ClientActs
    \/ \E p \in Payments :
         \/ \E click \in Clicks : CreateIntent(p, click) \/ CreateIntentFails(p, click)
         \/ Decided(p)
         \/ Read(p)
         \/ Applies(p)
         \/ GivesBack(p)
         \/ Stop(p)
    \/ SweepActs

Spec == Init /\ [][Next]_vars

(* The sweep comes back every minute, Stripe decides what it has, answers    *)
(* when it is asked often enough and repeats its webhooks until one is taken.*)
Fairness ==
    /\ \A p \in Payments :
         /\ WF_vars(Decided(p))
         /\ WF_vars(<<p, "SUCCEEDED">> \notin read /\ Read(p))
         /\ WF_vars(ApplySucceeded(p))
         /\ WF_vars(GivesBack(p))
         /\ SF_vars(CancelIntent(p))
    /\ \A q \in Quotations :
         /\ WF_vars(FindExpired(q))
         /\ WF_vars(NothingToCancel(q))
         /\ WF_vars(ExpireAccepted(q))

FairSpec == Spec /\ Fairness

-----------------------------------------------------------------------------
(* What must always hold.                                                   *)

\* Two clicks, two tabs or a retry never leave two attempts waiting on the
\* client for one quotation (start, under the request row's lock).
OneAttemptWaits ==
    \A p, o \in Payments : p[1] = o[1] /\ payment[p] = "PENDING" /\ payment[o] = "PENDING" => p = o

\* A request is ENGAGED by exactly one payment, of the quotation the client had
\* accepted and nobody else's, and only that payment is the lawyer's; however many
\* went through, and however late (settle).
EngagedByOnePayment ==
    /\ request = "ENGAGED" => \E p \in Payments :
                                /\ earned = {p}
                                /\ payment[p] = "SUCCEEDED" /\ intent[p] = "succeeded"
                                /\ \A q \in Quotations :
                                     /\ quotation[q] = "PAID" <=> q = p[1]
                                     /\ quotation[q] # "ACCEPTED"
    /\ request # "ENGAGED" => earned = {} /\ \A q \in Quotations : quotation[q] # "PAID"

\* Money that engaged nobody is refunded, or being refunded (the orphan path).
LateMoneyIsRefunded ==
    \A p \in Payments :
        payment[p] \in {"SUCCEEDED", "REFUNDED"} /\ p \notin earned => refund[p] # "none"

(* What it promises, as Engagement states it.                               *)

Stage == IF request = "CONFIRMED" THEN "picked" ELSE IF request = "ENGAGED" THEN "engaged" ELSE "open"

Promise ==
    INSTANCE Engagement WITH
        Lawyers <- Quotations,
        stage   <- Stage,
        picked  <- {q \in Quotations : quotation[q] \in {"ACCEPTED", "PAID"}},
        gone    <- {q \in Quotations : quotation[q] = "EXPIRED"}

\* However late, often and out of order payments, webhooks and expiries come, the
\* payments engage the lawyer the client had picked, or nobody (settle).
KeepsPromise == Promise!Spec

(* What must happen.                                                        *)

\* Money the client paid is found and recorded, even on an attempt that was
\* FAILED or CANCELED by then.
PaidIsRecorded ==
    \A p \in Payments : intent[p] = "succeeded" ~> payment[p] \in {"SUCCEEDED", "REFUNDED"}

\* Late money comes back to the client, or Stripe has refused the refund.
LateMoneyComesBack ==
    \A p \in Payments :
        (payment[p] = "SUCCEEDED" /\ p \notin earned) ~> refund[p] \in {"SUCCEEDED", "FAILED"}

ClientGoesOn == []<><<\E p \in Payments : Confirm(p)>>_vars

\* An accepted quotation whose time is over is paid or expires: a payment that
\* hangs does not keep the other lawyers waiting for ever (expireDue), unless
\* the client goes on trying one card after the other for ever.
AcceptedIsDecided ==
    \/ ClientGoesOn
    \/ \A q \in Quotations : (quotation[q] = "ACCEPTED" /\ q \in due) ~> quotation[q] \in {"PAID", "EXPIRED"}
=============================================================================
