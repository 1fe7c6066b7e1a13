----------------------------- MODULE CardCharge -----------------------------
(* Charges to the card on file of a firm, or of a lawyer alone: AI top-ups,   *)
(* tried once each, and the per-case fee of a request confirmed before         *)
(* quotation payments, retried by its lawyer until it goes through. Stripe     *)
(* answers late or not at all, its webhooks come late and more than once, the  *)
(* card may be replaced between two tries and the server may stop anywhere.    *)
(* Cards are Stripe's; once there is one on file it is only ever replaced.     *)
(*   src/src/services/organization-charge.service.ts                          *)
(*   src/src/repositories/organization-charge.repository.ts                   *)
(*   src/src/payments/organization-card-provider.ts                           *)
EXTENDS Integers, FiniteSets

CONSTANTS
  TopUps,      \* rows a lawyer may buy, in any order
  Fee,         \* the row of the request's per-case fee
  Calls,       \* HTTP calls at work at once
  MaxAttempts, \* how often the fee is tried
  MaxCards     \* how many cards are put on file, one after the other

ASSUME RowsAssumption == Fee \notin TopUps
ASSUME CallsAssumption == IsFiniteSet(Calls)
ASSUME BoundsAssumption == MaxAttempts \in Nat \ {0} /\ MaxCards \in Nat \ {0}

Charges == TopUps \cup {Fee}

Numbers == 1..MaxAttempts

VARIABLES
  request,    \* status of the request the charges are for
  card,       \* how many cards were put on file: each saved is a new paymentMethodId
  status, attempts,
  provider,
  intent,     \* paymentIntentId: the attempt that made the payment, 0 for none
  at, on, with, number, answer,  \* of each call: where it is, its row, card, attempt number and Stripe's answer
  payment,    \* at Stripe: how the payment of each row and number stands,
  paidWith,   \* the card it is made with,
  kept,       \* and the answer kept under its idempotency key
  events,     \* webhooks of ended payments Stripe has not been told are handled
  misjudged,  \* rows whose running attempt an earlier payment's failure ended,
  passedOver  \* and rows counted past a payment whose answer was lost (no code reads these two)

rowVars == <<status, attempts, intent, provider>>
historyVars == <<misjudged, passedOver>>
callVars == <<at, on, with, number, answer>>
stripeVars == <<payment, paidWith, kept, events>>

vars == <<rowVars, callVars, stripeVars, request, card, historyVars>>

Ended == {"succeeded", "failed"}

Paid(c) == {n \in Numbers : payment[c][n] = "succeeded"}

(* The fee of a confirmed request was declined, found no card on file or did   *)
(* not reach Stripe; or the request was engaged through a quotation payment and *)
(* has no fee.                                                                *)
Init ==
  \E start \in {"declined", "cardless", "unreached", "engaged"} :
    LET tried(c) == c = Fee /\ start # "engaged"
        first(c, n) == IF c = Fee /\ n = 1 /\ start = "declined" THEN "failed" ELSE "none"
    IN
    /\ request = IF start = "engaged" THEN "ENGAGED" ELSE "CONFIRMED"
    /\ card = IF start = "cardless" THEN 0 ELSE 1
    /\ status = [c \in Charges |-> IF tried(c) THEN "FAILED" ELSE "none"]
    /\ attempts = [c \in Charges |-> IF tried(c) /\ start # "unreached" THEN 1 ELSE 0]
    /\ intent = [c \in Charges |-> IF first(c, 1) = "failed" THEN 1 ELSE 0]
    /\ provider = [c \in Charges |-> IF tried(c) /\ start # "cardless" THEN "STRIPE" ELSE "none"]
    /\ payment = [c \in Charges |-> [n \in Numbers |-> first(c, n)]]
    /\ kept = payment
    /\ paidWith = [c \in Charges |-> [n \in Numbers |-> IF first(c, n) = "none" THEN 0 ELSE card]]
    /\ events \in SUBSET (IF start = "declined" THEN {<<Fee, 1>>} ELSE {})
    /\ at = [w \in Calls |-> "idle"]
    /\ on = [w \in Calls |-> Fee]
    /\ with = [w \in Calls |-> 0]
    /\ number = [w \in Calls |-> 0]
    /\ answer = [w \in Calls |-> "none"]
    /\ misjudged = {} /\ passedOver = {}

-----------------------------------------------------------------------------
(* The requests of the lawyer.                                               *)

(* Another top-up of the request still being charged: BUSY.                   *)
Busy == \E t \in TopUps : status[t] = "PENDING"

BuyTopUp(w, t) ==
  /\ at[w] = "idle" /\ status[t] = "none"
  /\ card > 0 /\ request = "ENGAGED" /\ ~Busy
  /\ status' = [status EXCEPT ![t] = "PENDING"]
  /\ at' = [at EXCEPT ![w] = "reads"]
  /\ on' = [on EXCEPT ![w] = t]
  /\ UNCHANGED <<attempts, intent, provider, with, number, answer, stripeVars, request, card, historyVars>>

(* Calls on a row whose try is not counted yet.                               *)
Uncounted(c) == {w \in Calls : on[w] = c /\ at[w] \in {"reads", "cardless", "starts"}}

(* Only a failed fee is retried, once it is seen FAILED.                      *)
RetryCharge(w) ==
  /\ at[w] = "idle"
  /\ attempts[Fee] + Cardinality(Uncounted(Fee)) < MaxAttempts
  /\ request = "CONFIRMED" /\ status[Fee] = "FAILED"
  /\ at' = [at EXCEPT ![w] = "reads"]
  /\ on' = [on EXCEPT ![w] = Fee]
  /\ UNCHANGED <<with, number, answer, rowVars, stripeVars, request, card, historyVars>>

-----------------------------------------------------------------------------
(* One attempt at a charge.                                                  *)

Startable(c) ==
  \/ status[c] = "FAILED"
  \/ status[c] = "PENDING" /\ attempts[c] = 0

Idle(w) ==
  /\ at' = [at EXCEPT ![w] = "idle"]
  /\ on' = [on EXCEPT ![w] = Fee]
  /\ with' = [with EXCEPT ![w] = 0]
  /\ number' = [number EXCEPT ![w] = 0]
  /\ answer' = [answer EXCEPT ![w] = "none"]

ReadsCard(w) ==
  /\ at[w] = "reads"
  /\ at' = [at EXCEPT ![w] = IF card = 0 THEN "cardless" ELSE "starts"]
  /\ with' = [with EXCEPT ![w] = card]
  /\ UNCHANGED <<on, number, answer, rowVars, stripeVars, request, card, historyVars>>

FailsWithoutAttempt(w) ==
  LET c == on[w] IN
  /\ at[w] = "cardless"
  /\ Idle(w)
  /\ IF Startable(c)
     THEN /\ status' = [status EXCEPT ![c] = "FAILED"]
          /\ attempts' = [attempts EXCEPT ![c] = @ + 1]
          /\ provider' = [provider EXCEPT ![c] = "none"]
          /\ passedOver' = passedOver \cup {d \in {c} : payment[d][attempts[d] + 1] # "none"}
     ELSE UNCHANGED <<status, attempts, provider, passedOver>>
  /\ UNCHANGED <<intent, stripeVars, request, card, misjudged>>

(* startAttempt's update.                                                     *)
Starts(w) ==
  LET c == on[w] IN
  /\ at[w] = "starts" /\ Startable(c)
  /\ status' = [status EXCEPT ![c] = "PENDING"]
  /\ attempts' = [attempts EXCEPT ![c] = @ + 1]
  /\ provider' = [provider EXCEPT ![c] = "STRIPE"]
  /\ at' = [at EXCEPT ![w] = "numbers"]
  /\ UNCHANGED <<intent, on, with, number, answer, stripeVars, request, card, historyVars>>

(* Another attempt is running, or the charge went through.                    *)
IsRefused(w) ==
  /\ at[w] = "starts" /\ ~Startable(on[w])
  /\ Idle(w)
  /\ UNCHANGED <<rowVars, stripeVars, request, card, historyVars>>

(* startAttempt reads the number back after its update.                       *)
ReadsNumber(w) ==
  /\ at[w] = "numbers"
  /\ number' = [number EXCEPT ![w] = attempts[on[w]]]
  /\ at' = [at EXCEPT ![w] = "asks"]
  /\ UNCHANGED <<on, with, answer, rowVars, stripeVars, request, card, historyVars>>

(* Stripe's answer, if it arrives.                                            *)
Hears(w, result) ==
  \/ /\ at' = [at EXCEPT ![w] = "answered"]
     /\ answer' = [answer EXCEPT ![w] = result]
  \/ /\ at' = [at EXCEPT ![w] = "unheard"]
     /\ UNCHANGED answer

(* A payment under a new idempotency key.                                     *)
AsksStripe(w) ==
  LET c == on[w]
      n == number[w] IN
  /\ at[w] = "asks" /\ payment[c][n] = "none"
  /\ \E result \in Ended \cup {"processing"} :
       /\ payment' = [payment EXCEPT ![c][n] = result]
       /\ kept' = [kept EXCEPT ![c][n] = result]
       /\ paidWith' = [paidWith EXCEPT ![c][n] = with[w]]
       /\ events' = events \cup (IF result \in Ended THEN {<<c, n>>} ELSE {})
       /\ Hears(w, result)
  /\ UNCHANGED <<on, with, number, rowVars, request, card, historyVars>>

(* The key is known: Stripe gives the answer it gave then, or refuses when the *)
(* card is another.                                                           *)
AsksAgain(w) ==
  LET c == on[w]
      n == number[w] IN
  /\ at[w] = "asks" /\ payment[c][n] # "none"
  /\ IF paidWith[c][n] = with[w]
     THEN Hears(w, kept[c][n])
     ELSE at' = [at EXCEPT ![w] = "unheard"] /\ UNCHANGED answer
  /\ UNCHANGED <<on, with, number, rowVars, stripeVars, request, card, historyVars>>

NeverReachesStripe(w) ==
  /\ at[w] = "asks"
  /\ at' = [at EXCEPT ![w] = "unheard"]
  /\ UNCHANGED <<on, with, number, answer, rowVars, stripeVars, request, card, historyVars>>

RunningIs(c, n) == status[c] = "PENDING" /\ attempts[c] = n

\* (mutant) an attempt without an answer stays counted
TakenBackNever(n) == n

(* An attempt without an answer is not counted.                               *)
TakenBack(n) == n - 1

(* No answer: FAILED, and the next try has this one's number.                 *)
Abandons(w) ==
  LET c == on[w] IN
  /\ at[w] = "unheard"
  /\ Idle(w)
  /\ IF RunningIs(c, number[w])
     THEN /\ status' = [status EXCEPT ![c] = "FAILED"]
          /\ attempts' = [attempts EXCEPT ![c] = TakenBack(@)]
     ELSE UNCHANGED <<status, attempts>>
  /\ UNCHANGED <<intent, provider, stripeVars, request, card, historyVars>>

RecordsIntent(w) ==
  LET c == on[w] IN
  /\ at[w] = "answered" /\ answer[w] = "processing"
  /\ Idle(w)
  /\ intent' = IF RunningIs(c, number[w]) THEN [intent EXCEPT ![c] = number[w]] ELSE intent
  /\ UNCHANGED <<status, attempts, provider, stripeVars, request, card, historyVars>>

\* (mutant) Stripe's word for it is written
StatusAsStripeSays(result) == result

StatusOf(result) == IF result = "succeeded" THEN "SUCCEEDED" ELSE "FAILED"

(* settle(): the row and the request in one transaction; nothing when the row  *)
(* has moved on.                                                              *)
Settle(c, n, matches, result) ==
  IF matches
  THEN /\ status' = [status EXCEPT ![c] = StatusOf(result)]
       /\ intent' = [intent EXCEPT ![c] = n]
       /\ request' = IF result = "succeeded" /\ c = Fee /\ request = "CONFIRMED"
                     THEN "ENGAGED" ELSE request
       /\ UNCHANGED <<attempts, provider>>
  ELSE UNCHANGED <<rowVars, request>>

SettlesAnswer(w) ==
  /\ at[w] = "answered" /\ answer[w] \in Ended
  /\ Idle(w)
  /\ Settle(on[w], number[w], RunningIs(on[w], number[w]), answer[w])
  /\ UNCHANGED <<stripeVars, card, historyVars>>

(* The server stops under a call.                                             *)
Stops(w) ==
  /\ at[w] # "idle"
  /\ Idle(w)
  /\ UNCHANGED <<rowVars, stripeVars, request, card, historyVars>>

-----------------------------------------------------------------------------
(* Stripe, the payer's card and the request.                                 *)

(* The bank decides.                                                          *)
Decides(c, n) ==
  /\ payment[c][n] = "processing"
  /\ \E result \in Ended : payment' = [payment EXCEPT ![c][n] = result]
  /\ events' = events \cup {<<c, n>>}
  /\ UNCHANGED <<paidWith, kept, rowVars, callVars, request, card, historyVars>>

\* (mutant) a success, too, settles only the row that waits
WebhookSettlesWaiting(c, n) ==
  /\ provider[c] = "STRIPE" /\ status[c] = "PENDING"
  /\ (payment[c][n] = "succeeded" \/ intent[c] = n)

(* A success settles whatever we had; a failure the row that waits on it.     *)
WebhookSettles(c, n) ==
  /\ provider[c] = "STRIPE"
  /\ IF payment[c][n] = "succeeded"
     THEN status[c] \in {"PENDING", "FAILED"}
     ELSE status[c] = "PENDING" /\ intent[c] = n

(* applyStripeIntent reads the payment from Stripe. The event comes again when *)
(* the server stops, or another service throws, before it is recorded.        *)
Webhook(c, n, recorded) ==
  /\ <<c, n>> \in events
  /\ Settle(c, n, WebhookSettles(c, n), payment[c][n])
  /\ events' = IF recorded THEN events \ {<<c, n>>} ELSE events
  /\ misjudged' = IF WebhookSettles(c, n) /\ payment[c][n] = "failed" /\ attempts[c] # n
                  THEN misjudged \cup {c} ELSE misjudged
  /\ UNCHANGED <<payment, paidWith, kept, callVars, card, passedOver>>

SaveCard ==
  /\ card < MaxCards
  /\ card' = card + 1
  /\ UNCHANGED <<rowVars, callVars, stripeVars, request, historyVars>>

(* The sweep gives the request back, its fee unpaid for 48 hours.             *)
LapseUnpaid ==
  /\ request = "CONFIRMED" /\ status[Fee] = "FAILED"
  /\ request' = "ROUTED"
  /\ UNCHANGED <<rowVars, callVars, stripeVars, card, historyVars>>

Next ==
  \/ \E w \in Calls :
       \/ \E t \in TopUps : BuyTopUp(w, t)
       \/ RetryCharge(w)
       \/ ReadsCard(w) \/ FailsWithoutAttempt(w)
       \/ Starts(w) \/ IsRefused(w) \/ ReadsNumber(w)
       \/ AsksStripe(w) \/ AsksAgain(w) \/ NeverReachesStripe(w)
       \/ Abandons(w) \/ RecordsIntent(w) \/ SettlesAnswer(w)
       \/ Stops(w)
  \/ \E c \in Charges, n \in Numbers :
       \/ Decides(c, n)
       \/ \E recorded \in BOOLEAN : Webhook(c, n, recorded)
  \/ SaveCard
  \/ LapseUnpaid

Spec == Init /\ [][Next]_vars

(* Stripe delivers a webhook until it is recorded.                            *)
Fairness == \A c \in Charges, n \in Numbers : WF_vars(Webhook(c, n, TRUE))

FairSpec == Spec /\ Fairness

-----------------------------------------------------------------------------
(* The rows, the calls and Stripe's payments are well typed; no more attempts *)
(* are counted than calls were let in to make, and one at a top-up.           *)
TypeOK ==
  /\ request \in {"CONFIRMED", "ENGAGED", "ROUTED"}
  /\ card \in 0..MaxCards
  /\ status \in [Charges -> {"none", "PENDING", "SUCCEEDED", "FAILED"}]
  /\ attempts \in [Charges -> 0..MaxAttempts]
  /\ \A t \in TopUps : attempts[t] <= 1
  /\ intent \in [Charges -> 0..MaxAttempts]
  /\ at \in [Calls -> {"idle", "reads", "cardless", "starts", "numbers", "asks", "answered", "unheard"}]
  /\ on \in [Calls -> Charges]
  /\ with \in [Calls -> 0..MaxCards]
  /\ number \in [Calls -> 0..MaxAttempts]
  /\ answer \in [Calls -> Ended \cup {"processing", "none"}]
  /\ payment \in [Charges -> [Numbers -> Ended \cup {"processing", "none"}]]
  /\ kept \in [Charges -> [Numbers -> Ended \cup {"processing", "none"}]]
  /\ paidWith \in [Charges -> [Numbers -> 0..MaxCards]]
  /\ events \subseteq Charges \X Numbers
  /\ provider \in [Charges -> {"none", "STRIPE"}]
  /\ misjudged \subseteq Charges /\ passedOver \subseteq Charges

(* What the table records as paid was taken at Stripe, and taken once, though  *)
(* answers are lost, calls race, the server stops and the card changes         *)
(* (abandonAttempt keeps the number, and so Stripe's key), unless an earlier    *)
(* payment's failure ended the running attempt, or a call that had found no     *)
(* card counted past a payment without an answer.                              *)
TakenOnce ==
  \A c \in Charges :
    /\ status[c] = "SUCCEEDED" => Paid(c) # {}
    /\ c \notin misjudged \cup passedOver => Cardinality(Paid(c)) <= 1

(* Money taken is recorded in the end: by the answer, or by the webhook even   *)
(* on a row marked FAILED (applyStripeIntent), unless a call without a card     *)
(* cleared the row's provider after it.                                       *)
PaidIsRecorded ==
  \A c \in Charges, n \in Numbers :
    payment[c][n] = "succeeded" ~> status[c] = "SUCCEEDED" \/ c \in passedOver

(* retryCharge (client-request-lawyer.service.ts:504): "Never charges twice".  *)
NeverChargedTwice == \A c \in Charges : Cardinality(Paid(c)) <= 1
=============================================================================
