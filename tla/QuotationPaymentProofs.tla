----------------------- MODULE QuotationPaymentProofs -----------------------
(* Theorems about QuotationPayment, for any quotations and attempts. *)
EXTENDS QuotationPayment, TLAPS

(* The attempts of one quotation are payments of it. *)
LEMMA AttemptsTyped ==
    \A q \in Quotations, n \in 1..MaxAttempts : <<q, n>> \in Payments /\ <<q, n>>[1] = q
  BY DEF Payments

(* Every payment is of a quotation. *)
LEMMA PaymentsTyped == \A p \in Payments : p[1] \in Quotations
  BY DEF Payments

Statuses == {"NONE", "PENDING", "SUCCEEDED", "FAILED", "CANCELED", "REFUNDED"}
QuoteStatuses == {"NONE", "SENT", "ACCEPTED", "PAID", "EXPIRED", "NOT_CHOSEN"}

(* What is read of an intent is one of the three ends of an attempt. *)
LEMMA ResultsTyped == \A p : ResultOf(p) \subseteq {"SUCCEEDED", "FAILED", "CANCELED"}
  <1> SUFFICES ASSUME NEW p, NEW i \in DOMAIN ResultWhen
               PROVE  ResultWhen[i] \in {"SUCCEEDED", "FAILED", "CANCELED"}
    BY DEF ResultOf
  <1>1. i \in {"succeeded", "canceled", "declined"}
    BY DEF ResultWhen
  <1> QED
    BY <1>1 DEF ResultWhen

(* settle writes well-typed rows. *)
LEMMA SettleTyped ==
    ASSUME TypeOK, NEW p \in Payments, Settle(p)
    PROVE  /\ request' \in {"ROUTED", "CONFIRMED", "ENGAGED"}
           /\ quotation' \in [Quotations -> QuoteStatuses]
           /\ payment' \in [Payments -> Statuses]
           /\ known' \subseteq Payments
           /\ earned' \subseteq Payments
           /\ refund' \in [Payments -> Refunds]
  BY PaymentsTyped DEF Settle, TypeOK, Owed, Refunds, Statuses, QuoteStatuses

(* end writes well-typed rows. *)
LEMMA EndTyped ==
    ASSUME TypeOK, NEW p \in Payments, NEW status \in {"FAILED", "CANCELED"}, End(p, status)
    PROVE  payment' \in [Payments -> Statuses]
  BY DEF End, TypeOK, Statuses

(* The first attempt is well typed. *)
LEMMA InitTyped == Init => TypeOK
  BY DEF Init, TypeOK, Refunds, Intents

(* No step of the client, Stripe, a reader or the sweep writes an ill-typed row. *)
LEMMA StepTyped == TypeOK /\ [Next]_vars => TypeOK'
  <1> SUFFICES ASSUME TypeOK, [Next]_vars PROVE TypeOK'
    OBVIOUS
  <1> USE DEF requestVars, paymentVars, stripeVars
  <1>1. ASSUME NEW q \in Quotations, Send(q) \/ Accept(q) \/ FallsDue(q) PROVE TypeOK'
    BY <1>1 DEF TypeOK, Send, Accept, FallsDue
  <1>2. ASSUME NEW q \in Quotations, StartNew(q) PROVE TypeOK'
    BY <1>2, AttemptsTyped DEF TypeOK, StartNew, Clicks
  <1>3. ASSUME NEW p \in Payments, NEW click \in Clicks,
               StartAgain(p, click) \/ CreateIntent(p, click)
        PROVE  TypeOK'
    BY <1>3 DEF TypeOK, StartAgain, CreateIntent, Created, Intents
  <1>4. ASSUME NEW p \in Payments, NEW click \in Clicks, CreateIntentFails(p, click) PROVE TypeOK'
    <2>1. payment' \in [Payments -> Statuses]
      BY <1>4, EndTyped DEF CreateIntentFails
    <2>2. intent' \in [Payments -> Intents]
      BY <1>4 DEF TypeOK, CreateIntentFails, Created, Intents
    <2> QED
      BY <1>4, <2>1, <2>2 DEF TypeOK, CreateIntentFails, Statuses
  <1>5. ASSUME NEW p \in Payments, Resume(p) \/ Confirm(p) \/ Decided(p) PROVE TypeOK'
    BY <1>5 DEF TypeOK, Resume, Confirm, Decided, Intents
  <1>6. ASSUME NEW p \in Payments, Read(p) PROVE TypeOK'
    BY <1>6, ResultsTyped DEF TypeOK, Read
  <1>7. ASSUME NEW p \in Payments, Applies(p) PROVE TypeOK'
    <2>1. CASE ApplySucceeded(p)
      BY <2>1, SettleTyped DEF TypeOK, ApplySucceeded, Statuses, QuoteStatuses
    <2>2. ASSUME NEW r \in {"FAILED", "CANCELED"}, ApplyEnded(p, r) PROVE TypeOK'
      <3>1. payment' \in [Payments -> Statuses]
        BY <2>2, EndTyped DEF ApplyEnded
      <3> QED
        BY <2>2, <3>1 DEF TypeOK, ApplyEnded, Statuses
    <2> QED
      BY <1>7, <2>1, <2>2 DEF Applies
  <1>8. ASSUME NEW p \in Payments, GivesBack(p) \/ Stop(p) PROVE TypeOK'
    BY <1>8 DEF TypeOK, GivesBack, Stop, CreateRefund, AskRefund, RefundUpdated, Refunded, Refunds
  <1>9. ASSUME NEW q \in Quotations, FindExpired(q) \/ NothingToCancel(q) PROVE TypeOK'
    BY <1>9 DEF TypeOK, FindExpired, NothingToCancel
  <1>10. ASSUME NEW q \in Quotations, ExpireAccepted(q) PROVE TypeOK'
    BY <1>10 DEF TypeOK, ExpireAccepted
  <1>11. ASSUME NEW p \in Payments, CancelLater(p) PROVE TypeOK'
    BY <1>11, PaymentsTyped DEF TypeOK, CancelLater, Intents
  <1>12. ASSUME NEW p \in Payments, CancelIntent(p) PROVE TypeOK'
    <2>1. expiring' \in [Quotations -> {"no", "cancel", "expire"}] /\ intent' \in [Payments -> Intents]
      BY <1>12, PaymentsTyped DEF TypeOK, CancelIntent, Intents
    <2>2. CASE End(p, "CANCELED") /\ UNCHANGED <<request, quotation, known, earned, refund>>
      <3>1. payment' \in [Payments -> Statuses]
        BY <2>2, EndTyped
      <3> QED
        BY <1>12, <2>1, <2>2, <3>1 DEF TypeOK, CancelIntent, Statuses
    <2>3. CASE Settle(p)
      BY <1>12, <2>1, <2>3, SettleTyped DEF TypeOK, CancelIntent, Statuses, QuoteStatuses
    <2> QED
      BY <1>12, <2>2, <2>3 DEF CancelIntent
  <1>13. CASE UNCHANGED vars
    BY <1>13 DEF TypeOK, vars
  <1> QED
    BY <1>1, <1>2, <1>3, <1>4, <1>5, <1>6, <1>7, <1>8, <1>9, <1>10, <1>11, <1>12, <1>13
    DEF Next, ClientActs, SweepActs

(* Every reachable state of a request's payments is well typed. *)
THEOREM PaymentsTypeCorrect == Spec => []TypeOK
  BY InitTyped, StepTyped, PTL DEF Spec

-----------------------------------------------------------------------------
(* Two attempts never wait on the client.                                   *)

NothingStarts == \A p \in Payments : payment'[p] = "PENDING" => payment[p] = "PENDING"

(* Only start makes an attempt wait on the client. *)
LEMMA OnlyStartStarts ==
    ASSUME TypeOK, [Next]_vars, \A q \in Quotations : ~StartNew(q)
    PROVE  NothingStarts
  <1> USE DEF requestVars, paymentVars, stripeVars, NothingStarts
  <1>1. ASSUME NEW q \in Quotations,
               Send(q) \/ Accept(q) \/ FallsDue(q) \/ FindExpired(q) \/ NothingToCancel(q)
        PROVE  NothingStarts
    BY <1>1 DEF Send, Accept, FallsDue, FindExpired, NothingToCancel
  <1>2. ASSUME NEW p \in Payments, NEW click \in Clicks, StartAgain(p, click) \/ CreateIntent(p, click)
        PROVE  NothingStarts
    BY <1>2 DEF StartAgain, CreateIntent
  <1>3. ASSUME NEW p \in Payments, Resume(p) \/ Confirm(p) \/ Decided(p) \/ Read(p) \/ Stop(p) \/ CancelLater(p)
        PROVE  NothingStarts
    BY <1>3 DEF Resume, Confirm, Decided, Read, Stop, CancelLater
  <1>4. ASSUME NEW p \in Payments, NEW status \in {"FAILED", "CANCELED"}, End(p, status) PROVE NothingStarts
    BY <1>4 DEF TypeOK, End
  <1>5. ASSUME NEW p \in Payments, Settle(p) PROVE NothingStarts
    BY <1>5 DEF TypeOK, Settle
  <1>6. ASSUME NEW p \in Payments, NEW click \in Clicks, CreateIntentFails(p, click) PROVE NothingStarts
    BY <1>4, <1>6 DEF CreateIntentFails
  <1>7. ASSUME NEW p \in Payments, Applies(p) PROVE NothingStarts
    BY <1>4, <1>5, <1>7 DEF Applies, ApplySucceeded, ApplyEnded
  <1>8. ASSUME NEW p \in Payments, GivesBack(p) PROVE NothingStarts
    BY <1>8 DEF TypeOK, GivesBack, CreateRefund, AskRefund, RefundUpdated, Refunded
  <1>9. ASSUME NEW p \in Payments, CancelIntent(p) PROVE NothingStarts
    BY <1>4, <1>5, <1>9 DEF CancelIntent
  <1>10. ASSUME NEW q \in Quotations, ExpireAccepted(q) PROVE NothingStarts
    BY <1>10 DEF TypeOK, ExpireAccepted
  <1>11. CASE UNCHANGED vars
    BY <1>11 DEF vars
  <1> QED
    BY <1>1, <1>2, <1>3, <1>6, <1>7, <1>8, <1>9, <1>10, <1>11 DEF Next, ClientActs, SweepActs

(* The step that starts an attempt finds none waiting; no other step starts one. *)
LEMMA OneAttemptStep == TypeOK /\ OneAttemptWaits /\ [Next]_vars => OneAttemptWaits'
  <1> SUFFICES ASSUME TypeOK, OneAttemptWaits, [Next]_vars PROVE OneAttemptWaits'
    OBVIOUS
  <1>1. ASSUME NEW q \in Quotations, StartNew(q) PROVE OneAttemptWaits'
    <2>1. PICK n \in 1..MaxAttempts : payment' = [payment EXCEPT ![<<q, n>>] = "PENDING"]
      BY <1>1 DEF StartNew
    <2>2. \A p \in Payments : p[1] = q => payment[p] # "PENDING"
      BY <1>1 DEF StartNew, NonePending, Pending, Of
    <2>3. \A p \in Payments : p # <<q, n>> => payment'[p] = payment[p]
      BY <2>1 DEF TypeOK
    <2>4. <<q, n>> \in Payments /\ <<q, n>>[1] = q
      BY AttemptsTyped
    <2> QED
      BY <2>2, <2>3, <2>4 DEF OneAttemptWaits
  <1>2. CASE \A q \in Quotations : ~StartNew(q)
    BY <1>2, OnlyStartStarts DEF OneAttemptWaits, NothingStarts
  <1> QED
    BY <1>1, <1>2

(* However many clicks, tabs and retries: at most one attempt of a quotation    *)
(* waits on the client (QuotationPaymentRepo.start).                             *)
THEOREM OneAttempt == Spec => []OneAttemptWaits
  <1>1. Init => OneAttemptWaits
    BY DEF Init, OneAttemptWaits
  <1> QED
    BY <1>1, PaymentsTypeCorrect, OneAttemptStep, PTL DEF Spec

-----------------------------------------------------------------------------
(* One payment engages.                                                     *)

\* Only a CONFIRMED request has an accepted quotation, and only one.
OneAccepted ==
    /\ request # "CONFIRMED" => \A q \in Quotations : quotation[q] # "ACCEPTED"
    /\ \A q, o \in Quotations : quotation[q] = "ACCEPTED" /\ quotation[o] = "ACCEPTED" => q = o

\* What is recorded as paid was paid, and what is given back engaged nobody.
MoneyIsReal ==
    /\ \A p \in Payments : <<p, "SUCCEEDED">> \in read => intent[p] = "succeeded"
    /\ \A p \in Payments : payment[p] \in {"SUCCEEDED", "REFUNDED"} => intent[p] = "succeeded"
    /\ \A p \in Payments :
         refund[p] # "none" => payment[p] \in {"SUCCEEDED", "REFUNDED"} /\ p \notin earned

Inv == TypeOK /\ OneAccepted /\ MoneyIsReal /\ EngagedByOnePayment

(* Settling money that is there keeps it. *)
LEMMA SettleKeeps ==
    ASSUME Inv, NEW p \in Payments, Settle(p), intent[p] = "succeeded",
           intent' = intent, read' \subseteq read
    PROVE  OneAccepted' /\ MoneyIsReal' /\ EngagedByOnePayment'
  <1>1. p[1] \in Quotations
    BY PaymentsTyped
  <1>2. CASE ~Settles(p)
    BY <1>2 DEF Settle, Inv, OneAccepted, MoneyIsReal, EngagedByOnePayment
  <1>3. CASE Settles(p) /\ ~Engages(p)
    <2>1. /\ payment' = [payment EXCEPT ![p] = "SUCCEEDED"]
          /\ refund' = [refund EXCEPT ![p] = "owed"]
          /\ UNCHANGED <<request, quotation, earned>>
      BY <1>3 DEF Settle, Owed
    <2>2. p \notin earned
      BY <1>3 DEF Inv, EngagedByOnePayment, Settles
    <2>3. OneAccepted'
      BY <2>1 DEF Inv, OneAccepted
    <2>4. MoneyIsReal'
      BY <2>1, <2>2 DEF Inv, TypeOK, MoneyIsReal
    <2>5. EngagedByOnePayment'
      BY <2>1, <2>2 DEF Inv, TypeOK, EngagedByOnePayment
    <2> QED
      BY <2>3, <2>4, <2>5
  <1>4. CASE Settles(p) /\ Engages(p)
    <2>1. /\ payment' = [payment EXCEPT ![p] = "SUCCEEDED"]
          /\ request' = "ENGAGED"
          /\ quotation' = [quotation EXCEPT ![p[1]] = "PAID"]
          /\ earned' = earned \union {p}
          /\ refund' = refund
      BY <1>4 DEF Settle
    <2>2. earned = {} /\ request = "CONFIRMED" /\ quotation[p[1]] = "ACCEPTED"
      BY <1>4 DEF Engages, Inv, EngagedByOnePayment
    <2>3. \A q \in Quotations : (q = p[1] => quotation'[q] = "PAID")
                              /\ (q # p[1] => quotation'[q] \notin {"PAID", "ACCEPTED"})
      BY <1>1, <2>1, <2>2 DEF Inv, TypeOK, OneAccepted, EngagedByOnePayment
    <2>4. OneAccepted'
      BY <2>3 DEF OneAccepted
    <2>5. MoneyIsReal'
      BY <1>4, <2>1, <2>2 DEF Inv, TypeOK, MoneyIsReal, Settles
    <2>6. EngagedByOnePayment'
      <3>1. earned' = {p} /\ payment'[p] = "SUCCEEDED" /\ intent'[p] = "succeeded"
        BY <2>1, <2>2 DEF Inv, TypeOK
      <3> QED
        BY <2>1, <2>3, <3>1 DEF EngagedByOnePayment
    <2> QED
      BY <2>4, <2>5, <2>6
  <1> QED
    BY <1>2, <1>3, <1>4

(* Ending an attempt that still waits takes no money away. *)
LEMMA EndKeeps ==
    ASSUME Inv, NEW p \in Payments, NEW status \in {"FAILED", "CANCELED"}, End(p, status),
           UNCHANGED <<request, quotation, earned, refund>>, read' \subseteq read,
           \A o \in Payments : intent[o] = "succeeded" => intent'[o] = "succeeded"
    PROVE  OneAccepted' /\ MoneyIsReal' /\ EngagedByOnePayment'
  <1>1. \A o \in Payments : payment'[o] = payment[o] \/ (payment[o] = "PENDING" /\ payment'[o] = status)
    BY DEF End, Inv, TypeOK
  <1>2. OneAccepted'
    BY DEF Inv, OneAccepted
  <1>3. MoneyIsReal'
    BY <1>1 DEF Inv, MoneyIsReal
  <1>4. EngagedByOnePayment'
    BY <1>1 DEF Inv, EngagedByOnePayment
  <1> QED
    BY <1>2, <1>3, <1>4

(* A step that writes no row and takes no money back at Stripe. *)
LEMMA QuietKeeps ==
    ASSUME Inv, UNCHANGED <<request, quotation, payment, earned, refund>>, read' \subseteq read,
           \A o \in Payments : intent[o] = "succeeded" => intent'[o] = "succeeded"
    PROVE  OneAccepted' /\ MoneyIsReal' /\ EngagedByOnePayment'
  <1>1. OneAccepted'
    BY DEF Inv, OneAccepted
  <1>2. MoneyIsReal'
    BY DEF Inv, MoneyIsReal
  <1>3. EngagedByOnePayment'
    BY DEF Inv, EngagedByOnePayment
  <1> QED
    BY <1>1, <1>2, <1>3

(* The steps of the quotation before anyone pays. *)
LEMMA QuotationKeeps ==
    ASSUME Inv, NEW q \in Quotations, Send(q) \/ Accept(q) \/ FallsDue(q)
    PROVE  OneAccepted' /\ MoneyIsReal' /\ EngagedByOnePayment'
  <1> USE DEF requestVars, paymentVars, stripeVars
  <1>1. CASE Send(q)
    <2>1. request = "ROUTED" /\ UNCHANGED <<request, payment, earned, refund, intent, read>>
          /\ quotation' = [quotation EXCEPT ![q] = "SENT"]
      BY <1>1 DEF Send
    <2>2. OneAccepted'
      BY <2>1 DEF Inv, TypeOK, OneAccepted
    <2>3. MoneyIsReal'
      BY <2>1 DEF Inv, MoneyIsReal
    <2>4. EngagedByOnePayment'
      BY <2>1 DEF Inv, TypeOK, EngagedByOnePayment
    <2> QED
      BY <2>2, <2>3, <2>4
  <1>2. CASE Accept(q)
    <2>1. /\ request = "ROUTED" /\ request' = "CONFIRMED"
          /\ UNCHANGED <<payment, earned, refund, intent, read>>
          /\ \A o \in Quotations : o # q => quotation'[o] \in {quotation[o], "NOT_CHOSEN"}
          /\ quotation'[q] = "ACCEPTED"
      BY <1>2 DEF Accept
    <2>2. OneAccepted'
      BY <2>1 DEF Inv, TypeOK, OneAccepted
    <2>3. MoneyIsReal'
      BY <2>1 DEF Inv, MoneyIsReal
    <2>4. EngagedByOnePayment'
      BY <2>1 DEF Inv, TypeOK, EngagedByOnePayment
    <2> QED
      BY <2>2, <2>3, <2>4
  <1>3. CASE FallsDue(q)
    BY <1>3, QuietKeeps DEF FallsDue
  <1> QED
    BY <1>1, <1>2, <1>3

(* A refund of late money touches neither the engagement nor what earned it. *)
LEMMA RefundKeeps ==
    ASSUME Inv, NEW p \in Payments, refund[p] # "none", NEW status \in Refunds \ {"none"},
           Refunded(p, status), UNCHANGED <<request, quotation, earned, intent, read>>
    PROVE  OneAccepted' /\ MoneyIsReal' /\ EngagedByOnePayment'
  <1>1. payment[p] \in {"SUCCEEDED", "REFUNDED"} /\ p \notin earned
    BY DEF Inv, MoneyIsReal
  <1>2. /\ payment'[p] \in {"SUCCEEDED", "REFUNDED"}
        /\ \A o \in Payments : o # p => payment'[o] = payment[o] /\ refund'[o] = refund[o]
    BY <1>1 DEF Refunded, Inv, TypeOK
  <1>3. OneAccepted'
    BY DEF Inv, OneAccepted
  <1>4. MoneyIsReal'
    BY <1>1, <1>2 DEF Inv, MoneyIsReal
  <1>5. EngagedByOnePayment'
    BY <1>1, <1>2 DEF Inv, EngagedByOnePayment
  <1> QED
    BY <1>3, <1>4, <1>5

(* A new attempt took no money yet. *)
LEMMA StartKeeps ==
    ASSUME Inv, NEW q \in Quotations, StartNew(q)
    PROVE  OneAccepted' /\ MoneyIsReal' /\ EngagedByOnePayment'
  <1>1. PICK n \in 1..MaxAttempts :
          payment[<<q, n>>] = "NONE" /\ payment' = [payment EXCEPT ![<<q, n>>] = "PENDING"]
    BY DEF StartNew
  <1>2. UNCHANGED <<request, quotation, earned, refund, intent, read>>
    BY DEF StartNew, requestVars, stripeVars
  <1>3. <<q, n>> \in Payments
    BY AttemptsTyped
  <1>4. \A p \in Payments : payment'[p] = payment[p] \/ (payment[p] = "NONE" /\ payment'[p] = "PENDING")
    BY <1>1, <1>3 DEF Inv, TypeOK
  <1>5. OneAccepted'
    BY <1>2 DEF Inv, OneAccepted
  <1>6. MoneyIsReal'
    BY <1>2, <1>4 DEF Inv, MoneyIsReal
  <1>7. EngagedByOnePayment'
    BY <1>2, <1>4 DEF Inv, EngagedByOnePayment
  <1> QED
    BY <1>5, <1>6, <1>7

(* What is read of an intent is what Stripe has. *)
LEMMA ReadKeeps ==
    ASSUME Inv, NEW p \in Payments, Read(p)
    PROVE  OneAccepted' /\ MoneyIsReal' /\ EngagedByOnePayment'
  <1>1. UNCHANGED <<request, quotation, payment, earned, refund, intent>>
    BY DEF Read, requestVars, paymentVars
  <1>2. PICK i \in DOMAIN ResultWhen \intersect {intent[p]} : read' = read \union {<<p, ResultWhen[i]>>}
    BY DEF Read, ResultOf
  <1>3. ResultWhen[i] = "SUCCEEDED" => intent[p] = "succeeded"
    BY <1>2 DEF ResultWhen
  <1>4. OneAccepted'
    BY <1>1 DEF Inv, OneAccepted
  <1>5. MoneyIsReal'
    BY <1>1, <1>2, <1>3 DEF Inv, MoneyIsReal
  <1>6. EngagedByOnePayment'
    BY <1>1 DEF Inv, EngagedByOnePayment
  <1> QED
    BY <1>4, <1>5, <1>6

(* Only a quotation nobody has paid expires. *)
LEMMA ExpireKeeps ==
    ASSUME Inv, NEW q \in Quotations, ExpireAccepted(q)
    PROVE  OneAccepted' /\ MoneyIsReal' /\ EngagedByOnePayment'
  <1>1. UNCHANGED <<earned, refund, intent, read>>
    BY DEF ExpireAccepted, stripeVars
  <1>2. CASE UNCHANGED <<request, quotation, payment>>
    BY <1>1, <1>2, QuietKeeps
  <1>3. CASE /\ request = "CONFIRMED" /\ quotation[q] = "ACCEPTED" /\ request' = "ROUTED"
             /\ quotation' = [quotation EXCEPT ![q] = "EXPIRED"]
             /\ payment' = [p \in Payments |-> IF p \in Pending(q) THEN "CANCELED" ELSE payment[p]]
    <2>1. \A p \in Payments : payment'[p] = payment[p] \/ (payment[p] = "PENDING" /\ payment'[p] = "CANCELED")
      BY <1>3 DEF Pending
    <2>2. \A o \in Quotations : quotation'[o] # "ACCEPTED" /\ (quotation'[o] = "PAID" => quotation[o] = "PAID")
      BY <1>3 DEF Inv, TypeOK, OneAccepted
    <2>3. OneAccepted'
      BY <2>2 DEF OneAccepted
    <2>4. MoneyIsReal'
      BY <1>1, <2>1 DEF Inv, MoneyIsReal
    <2>5. EngagedByOnePayment'
      BY <1>1, <1>3, <2>2 DEF Inv, EngagedByOnePayment
    <2> QED
      BY <2>3, <2>4, <2>5
  <1> QED
    BY <1>2, <1>3 DEF ExpireAccepted

(* No step disturbs the engagement. *)
LEMMA EngagementStep == Inv /\ [Next]_vars => Inv'
  <1> SUFFICES ASSUME Inv, [Next]_vars PROVE OneAccepted' /\ MoneyIsReal' /\ EngagedByOnePayment'
    BY StepTyped DEF Inv
  <1> DEFINE Kept == OneAccepted' /\ MoneyIsReal' /\ EngagedByOnePayment'
  <1> HIDE DEF Kept
  <1> USE DEF requestVars, paymentVars, stripeVars
  <1>1. ASSUME NEW q \in Quotations, Send(q) \/ Accept(q) \/ FallsDue(q) PROVE Kept
    BY <1>1, QuotationKeeps DEF Kept
  <1>2. ASSUME NEW q \in Quotations, StartNew(q) PROVE Kept
    BY <1>2, StartKeeps DEF Kept
  <1>3. ASSUME NEW p \in Payments, NEW click \in Clicks, StartAgain(p, click) PROVE Kept
    BY <1>3, QuietKeeps DEF StartAgain, Kept
  <1>4. ASSUME NEW p \in Payments, NEW click \in Clicks, CreateIntent(p, click) PROVE Kept
    <2>1. \A o \in Payments : intent[o] = "succeeded" => intent'[o] = "succeeded"
      BY <1>4 DEF CreateIntent, Created, Inv, TypeOK
    <2> QED
      BY <1>4, <2>1, QuietKeeps DEF CreateIntent, Kept
  <1>5. ASSUME NEW p \in Payments, NEW click \in Clicks, CreateIntentFails(p, click) PROVE Kept
    <2>1. \A o \in Payments : intent[o] = "succeeded" => intent'[o] = "succeeded"
      BY <1>5 DEF CreateIntentFails, Created, Inv, TypeOK
    <2> QED
      BY <1>5, <2>1, EndKeeps DEF CreateIntentFails, Kept
  <1>6. ASSUME NEW p \in Payments, Resume(p) \/ Confirm(p) \/ Decided(p) \/ CancelLater(p) PROVE Kept
    <2>1. \A o \in Payments : intent[o] = "succeeded" => intent'[o] = "succeeded"
      BY <1>6 DEF Resume, Confirm, Decided, CancelLater, OpenIntents, Inv, TypeOK
    <2> QED
      BY <1>6, <2>1, QuietKeeps DEF Resume, Confirm, Decided, CancelLater, Kept
  <1>7. ASSUME NEW p \in Payments, Read(p) PROVE Kept
    BY <1>7, ReadKeeps DEF Kept
  <1>8. ASSUME NEW p \in Payments, ApplySucceeded(p) PROVE Kept
    BY <1>8, SettleKeeps DEF ApplySucceeded, Inv, MoneyIsReal, Kept
  <1>9. ASSUME NEW p \in Payments, NEW r \in {"FAILED", "CANCELED"}, ApplyEnded(p, r) PROVE Kept
    BY <1>9, EndKeeps DEF ApplyEnded, Kept
  <1>10. ASSUME NEW p \in Payments, GivesBack(p) PROVE Kept
    <2>1. CASE CreateRefund(p)
      <3>1. Refunded(p, "asked")
        BY <2>1 DEF CreateRefund, Refunded
      <3> QED
        BY <2>1, <3>1, RefundKeeps DEF CreateRefund, Refunds, Kept
    <2>2. CASE AskRefund(p)
      <3>1. PICK status \in {"PENDING", "SUCCEEDED", "FAILED"} : Refunded(p, status)
        BY <2>2 DEF AskRefund
      <3> QED
        BY <2>2, <3>1, RefundKeeps DEF AskRefund, Refunds, Kept
    <2>3. CASE RefundUpdated(p)
      <3>1. PICK status \in {"SUCCEEDED", "FAILED"} : Refunded(p, status)
        BY <2>3 DEF RefundUpdated
      <3> QED
        BY <2>3, <3>1, RefundKeeps DEF RefundUpdated, Refunds, Kept
    <2> QED
      BY <1>10, <2>1, <2>2, <2>3 DEF GivesBack
  <1>11. ASSUME NEW p \in Payments, Stop(p) PROVE Kept
    <2>1. \A o \in Payments : refund'[o] = refund[o] \/ refund'[o] = "none"
      BY <1>11 DEF Stop, Inv, TypeOK
    <2>2. UNCHANGED <<request, quotation, payment, earned, intent, read>>
      BY <1>11 DEF Stop
    <2> QED
      BY <2>1, <2>2 DEF Inv, OneAccepted, MoneyIsReal, EngagedByOnePayment, Kept
  <1>12. ASSUME NEW q \in Quotations, FindExpired(q) \/ NothingToCancel(q) PROVE Kept
    BY <1>12, QuietKeeps DEF FindExpired, NothingToCancel, Kept
  <1>13. ASSUME NEW q \in Quotations, ExpireAccepted(q) PROVE Kept
    BY <1>13, ExpireKeeps DEF Kept
  <1>14. ASSUME NEW p \in Payments, CancelIntent(p) PROVE Kept
    <2>1. CASE intent[p] = "succeeded" /\ Settle(p) /\ UNCHANGED <<intent, read>>
      BY <2>1, SettleKeeps DEF Kept
    <2>2. CASE /\ intent[p] \in OpenIntents \union {"canceled"}
               /\ intent' = [intent EXCEPT ![p] = "canceled"]
               /\ End(p, "CANCELED")
               /\ UNCHANGED <<request, quotation, earned, refund, read>>
      <3>1. \A o \in Payments : intent[o] = "succeeded" => intent'[o] = "succeeded"
        BY <2>2 DEF OpenIntents, Inv, TypeOK
      <3> QED
        BY <2>2, <3>1, EndKeeps DEF Kept
    <2> QED
      BY <1>14, <2>1, <2>2 DEF CancelIntent
  <1>15. CASE UNCHANGED vars
    BY <1>15, QuietKeeps DEF vars, Kept
  <1> QED
    BY <1>1, <1>2, <1>3, <1>4, <1>5, <1>6, <1>7, <1>8, <1>9, <1>10, <1>11, <1>12, <1>13, <1>14, <1>15
    DEF Next, ClientActs, SweepActs, Applies, Kept

(* Init satisfies the invariant. *)
LEMMA EngagementInit == Init => Inv
  BY InitTyped DEF Init, Inv, OneAccepted, MoneyIsReal, EngagedByOnePayment

(* Two payments never engage one request, and no engagement is without the       *)
(* payment that earned it, for any quotations, attempts and stops               *)
(* (QuotationPaymentRepo.settle).                                                *)
THEOREM OneEngagement == Spec => []EngagedByOnePayment
  <1>1. Inv => EngagedByOnePayment
    BY DEF Inv
  <1> QED
    BY <1>1, EngagementInit, EngagementStep, PTL DEF Spec

(* What the table says was paid was paid at Stripe, and no refund of late money  *)
(* is of the payment that engaged.                                               *)
THEOREM MoneyReal == Spec => []MoneyIsReal
  <1>1. Inv => MoneyIsReal
    BY DEF Inv
  <1> QED
    BY <1>1, EngagementInit, EngagementStep, PTL DEF Spec

-----------------------------------------------------------------------------
(* Late money, where the server does not stop.                              *)

(* Money that engaged nobody has a refund from the step that settles it, and    *)
(* only a stop forgets one.                                                     *)
LEMMA LateMoneyStep ==
    ASSUME ~Stops, TypeOK, LateMoneyIsRefunded, [Next]_vars
    PROVE  LateMoneyIsRefunded'
  <1> USE DEF requestVars, paymentVars, stripeVars
  <1>1. ASSUME NEW p \in Payments, Settle(p) PROVE LateMoneyIsRefunded'
    BY <1>1 DEF TypeOK, Settle, Owed, LateMoneyIsRefunded
  <1>2. ASSUME NEW p \in Payments, NEW status \in {"FAILED", "CANCELED"}, End(p, status),
               UNCHANGED <<earned, refund>>
        PROVE  LateMoneyIsRefunded'
    BY <1>2 DEF TypeOK, End, LateMoneyIsRefunded
  <1>3. ASSUME UNCHANGED <<payment, earned, refund>> PROVE LateMoneyIsRefunded'
    BY <1>3 DEF LateMoneyIsRefunded
  <1>4. ASSUME NEW p \in Payments, NEW status \in Refunds \ {"none"}, refund[p] # "none",
               Refunded(p, status), UNCHANGED earned
        PROVE  LateMoneyIsRefunded'
    BY <1>4 DEF TypeOK, Refunded, LateMoneyIsRefunded
  <1>5. ASSUME NEW q \in Quotations,
               Send(q) \/ Accept(q) \/ FallsDue(q) \/ FindExpired(q) \/ NothingToCancel(q)
        PROVE  LateMoneyIsRefunded'
    BY <1>3, <1>5 DEF Send, Accept, FallsDue, FindExpired, NothingToCancel
  <1>6. ASSUME NEW q \in Quotations, StartNew(q) PROVE LateMoneyIsRefunded'
    BY <1>6 DEF StartNew, TypeOK, LateMoneyIsRefunded
  <1>7. ASSUME NEW p \in Payments, NEW click \in Clicks, StartAgain(p, click) \/ CreateIntent(p, click)
        PROVE  LateMoneyIsRefunded'
    BY <1>3, <1>7 DEF StartAgain, CreateIntent
  <1>8. ASSUME NEW p \in Payments, NEW click \in Clicks, CreateIntentFails(p, click)
        PROVE  LateMoneyIsRefunded'
    BY <1>2, <1>8 DEF CreateIntentFails
  <1>9. ASSUME NEW p \in Payments, Resume(p) \/ Confirm(p) \/ Decided(p) \/ Read(p) \/ CancelLater(p)
        PROVE  LateMoneyIsRefunded'
    BY <1>3, <1>9 DEF Resume, Confirm, Decided, Read, CancelLater
  <1>10. ASSUME NEW p \in Payments, Applies(p) \/ CancelIntent(p) PROVE LateMoneyIsRefunded'
    BY <1>1, <1>2, <1>10 DEF Applies, ApplySucceeded, ApplyEnded, CancelIntent
  <1>11. ASSUME NEW p \in Payments, GivesBack(p) PROVE LateMoneyIsRefunded'
    <2>1. CASE CreateRefund(p)
      BY <2>1 DEF CreateRefund, TypeOK, LateMoneyIsRefunded
    <2>2. CASE AskRefund(p)
      <3>1. PICK status \in {"PENDING", "SUCCEEDED", "FAILED"} : Refunded(p, status)
        BY <2>2 DEF AskRefund
      <3> QED
        BY <2>2, <3>1, <1>4 DEF AskRefund, Refunds
    <2>3. CASE RefundUpdated(p)
      <3>1. PICK status \in {"SUCCEEDED", "FAILED"} : Refunded(p, status)
        BY <2>3 DEF RefundUpdated
      <3> QED
        BY <2>3, <3>1, <1>4 DEF RefundUpdated, Refunds
    <2> QED
      BY <1>11, <2>1, <2>2, <2>3 DEF GivesBack
  <1>12. ASSUME NEW q \in Quotations, ExpireAccepted(q) PROVE LateMoneyIsRefunded'
    BY <1>12 DEF ExpireAccepted, TypeOK, LateMoneyIsRefunded
  <1>13. ASSUME NEW p \in Payments PROVE ~Stop(p)
    BY DEF Stop
  <1>14. CASE UNCHANGED vars
    BY <1>3, <1>14 DEF vars
  <1> QED
    BY <1>5, <1>6, <1>7, <1>8, <1>9, <1>10, <1>11, <1>12, <1>13, <1>14 DEF Next, ClientActs, SweepActs

(* Money that engaged nobody is never kept, as long as the server does not stop  *)
(* between settling it and recording its refund.                                 *)
THEOREM LateMoney == ~Stops => (Spec => []LateMoneyIsRefunded)
  <1> SUFFICES ASSUME ~Stops PROVE Spec => []LateMoneyIsRefunded
    OBVIOUS
  <1>1. Init => LateMoneyIsRefunded
    BY DEF Init, LateMoneyIsRefunded
  <1>2. TypeOK /\ LateMoneyIsRefunded /\ [Next]_vars => LateMoneyIsRefunded'
    BY LateMoneyStep
  <1> QED
    BY <1>1, <1>2, PaymentsTypeCorrect, PTL DEF Spec

-----------------------------------------------------------------------------
(* The payments keep the market's promise.                                  *)

\* How the request and its quotations move, as far as the promise is about them.
Moves ==
    \/ UNCHANGED <<request, quotation>>
    \/ \E q \in Quotations : Send(q) \/ Accept(q)
    \/ /\ request = "CONFIRMED" /\ request' = "ENGAGED"
       /\ \E q \in Quotations : quotation[q] = "ACCEPTED" /\ quotation' = [quotation EXCEPT ![q] = "PAID"]
    \/ /\ request = "CONFIRMED" /\ request' = "ROUTED"
       /\ \E q \in Quotations : quotation[q] = "ACCEPTED" /\ quotation' = [quotation EXCEPT ![q] = "EXPIRED"]

(* Every step moves them in one of these ways. *)
LEMMA StepMoves == [Next]_vars => Moves
  <1> SUFFICES ASSUME [Next]_vars PROVE Moves
    OBVIOUS
  <1> USE DEF requestVars, Moves
  <1>1. ASSUME NEW q \in Quotations,
               \/ Send(q) \/ Accept(q) \/ FallsDue(q) \/ StartNew(q)
               \/ FindExpired(q) \/ NothingToCancel(q) \/ ExpireAccepted(q)
        PROVE  Moves
    BY <1>1 DEF FallsDue, StartNew, FindExpired, NothingToCancel, ExpireAccepted
  <1>2. ASSUME NEW p \in Payments, Settle(p) PROVE Moves
    BY <1>2, PaymentsTyped DEF Settle, Engages
  <1>3. ASSUME NEW p \in Payments, NEW click \in Clicks,
               StartAgain(p, click) \/ CreateIntent(p, click) \/ CreateIntentFails(p, click)
        PROVE  Moves
    BY <1>3 DEF StartAgain, CreateIntent, CreateIntentFails
  <1>4. ASSUME NEW p \in Payments,
               \/ Resume(p) \/ Confirm(p) \/ Decided(p) \/ Read(p) \/ Stop(p) \/ CancelLater(p)
               \/ GivesBack(p)
        PROVE  Moves
    BY <1>4 DEF Resume, Confirm, Decided, Read, Stop, CancelLater, GivesBack, CreateRefund, AskRefund,
       RefundUpdated
  <1>5. ASSUME NEW p \in Payments, Applies(p) \/ CancelIntent(p) PROVE Moves
    BY <1>2, <1>5 DEF Applies, ApplySucceeded, ApplyEnded, CancelIntent
  <1>6. CASE UNCHANGED vars
    BY <1>6 DEF vars
  <1> QED
    BY <1>1, <1>3, <1>4, <1>5, <1>6 DEF Next, ClientActs, SweepActs

(* Every step of the payments is a step of the promise, or changes nothing it    *)
(* speaks of.                                                                    *)
LEMMA PromiseStep == Inv /\ [Next]_vars => [Promise!Next]_(Promise!vars)
  <1> SUFFICES ASSUME Inv, [Next]_vars PROVE [Promise!Next]_(Promise!vars)
    OBVIOUS
  <1> DEFINE picked == {q \in Quotations : quotation[q] \in {"ACCEPTED", "PAID"}}
             gone   == {q \in Quotations : quotation[q] = "EXPIRED"}
  <1>1. CASE UNCHANGED <<request, quotation>>
    BY <1>1 DEF Promise!vars, Stage
  <1>2. ASSUME NEW q \in Quotations, Send(q) PROVE UNCHANGED <<Stage, picked, gone>>
    BY <1>2 DEF Inv, TypeOK, Send, Stage
  <1>3. ASSUME NEW q \in Quotations, Accept(q) PROVE Promise!Pick(q)
    <2>1. request = "ROUTED" /\ request' = "CONFIRMED" /\ q \notin gone
      BY <1>3 DEF Accept
    <2>2. \A o \in Quotations : quotation[o] \notin {"ACCEPTED", "PAID"}
      BY <2>1 DEF Inv, OneAccepted, EngagedByOnePayment
    <2>3. picked' = {q}
      BY <1>3, <2>2 DEF Accept
    <2>4. gone \subseteq gone'
      BY <1>3 DEF Accept
    <2> QED
      BY <2>1, <2>3, <2>4 DEF Promise!Pick, Promise!OthersLeave, Stage
  <1>4. ASSUME NEW q \in Quotations, request = "CONFIRMED", request' = "ENGAGED",
               quotation[q] = "ACCEPTED", quotation' = [quotation EXCEPT ![q] = "PAID"]
        PROVE  Promise!Engage
    <2>1. picked' = picked /\ gone' = gone
      BY <1>4 DEF Inv, TypeOK
    <2> QED
      BY <1>4, <2>1 DEF Promise!Engage, Promise!OthersLeave, Stage
  <1>5. ASSUME NEW q \in Quotations, request = "CONFIRMED", request' = "ROUTED",
               quotation[q] = "ACCEPTED", quotation' = [quotation EXCEPT ![q] = "EXPIRED"]
        PROVE  Promise!LetGo
    <2>1. picked = {q}
      BY <1>5 DEF Inv, OneAccepted, EngagedByOnePayment
    <2>2. picked' = {} /\ gone' = gone \union {q}
      BY <1>5, <2>1 DEF Inv, TypeOK
    <2> QED
      BY <1>5, <2>1, <2>2 DEF Promise!LetGo, Promise!OthersLeave, Stage
  <1> QED
    BY <1>1, <1>2, <1>3, <1>4, <1>5, StepMoves DEF Moves, Promise!Next, Promise!vars

(* However late, often and out of order the money comes, the payments engage the *)
(* lawyer the client had picked, or nobody.                                       *)
THEOREM PaymentsKeepThePromise == Spec => KeepsPromise
  <1>1. Init => Promise!Init
    BY DEF Init, Promise!Init, Stage
  <1> QED
    BY <1>1, PromiseStep, EngagementInit, EngagementStep, PTL DEF Spec, KeepsPromise, Promise!Spec
=============================================================================
