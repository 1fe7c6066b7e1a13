-------------------------- MODULE QuotationRefund --------------------------
(***************************************************************************)
(* Money given back on one payment that engaged a lawyer: admin refunds in *)
(* part or in full, the client's bank disputing the payment, and what both *)
(* take out of the lawyer's earning.                                       *)
(*                                                                         *)
(* createRefund locks the payment row before it counts, so it is one       *)
(* action.  settleRefund and closeDispute read the payment row without a   *)
(* lock and write what they worked out from it: at READ COMMITTED, which   *)
(* the database runs at, that is two actions, and another transaction may  *)
(* commit between them.  openDispute's updates are conditional: one action.*)
(***************************************************************************)
EXTENDS Integers, FiniteSetsExt, Functions

CONSTANTS
    Refunds,      \* the refunds the admins may ask for
    Amount,       \* what the client paid (amountMinor)
    ServiceFee    \* the lawyer's part of it (serviceFeeMinor); the rest is the platform's

ASSUME RefundAssumption ==
    /\ IsFiniteSet(Refunds)
    /\ Amount \in Nat \ {0}
    /\ ServiceFee \in 1..Amount

VARIABLES
    payment,   \* the QuotationPayment row: status, refundedMinor
    refund,    \* QuotationRefund rows
    earning,   \* the Earning: status, reversed, disputed
    asked,     \* what Stripe has made of each refund
    settling,  \* per refund: what an open settleRefund read
    dispute,   \* the dispute at the client's bank
    event,     \* its two webhook events
    closing    \* what an open closeDispute read

rowVars == <<payment, refund, earning>>
disputeVars == <<dispute, event, closing>>
vars == <<rowVars, asked, settling, disputeVars>>

Paid == {"SUCCEEDED", "PARTIALLY_REFUNDED", "REFUNDED", "DISPUTED"}

\* checked: the service has answered that the amount may be refunded.
RefundStatuses == {"NONE", "checked", "PENDING", "SUCCEEDED", "FAILED"}

Nothing == [open |-> FALSE, refunded |-> 0, disputed |-> FALSE]
Reading == [open : BOOLEAN, refunded : Nat, disputed : BOOLEAN]

TypeOK ==
    /\ payment \in [status : Paid, refunded : Nat]
    /\ refund \in [Refunds -> [status : RefundStatuses, amount : 0..Amount, service : 0..ServiceFee]]
    /\ earning \in [status : {"PENDING", "AVAILABLE", "REVERSED"}, reversed : 0..ServiceFee,
                    disputed : BOOLEAN]
    /\ asked \in [Refunds -> {"no", "made", "succeeded", "failed"}]
    /\ settling \in [Refunds -> Reading]
    /\ dispute \in {"none", "open", "won", "lost"}
    /\ event \in [{"created", "closed"} -> {"none", "sent", "recorded"}]
    /\ closing \in Reading

Init ==
    /\ payment = [status |-> "SUCCEEDED", refunded |-> 0]
    /\ refund = [r \in Refunds |-> [status |-> "NONE", amount |-> 0, service |-> 0]]
    /\ earning = [status |-> "PENDING", reversed |-> 0, disputed |-> FALSE]
    /\ asked = [r \in Refunds |-> "no"]
    /\ settling = [r \in Refunds |-> Nothing]
    /\ dispute = "none"
    /\ event = [e \in {"created", "closed"} |-> "none"]
    /\ closing = Nothing

-----------------------------------------------------------------------------
(* An admin refunds.                                                       *)

HeldSucceeded == {r \in Refunds : refund[r].status = "SUCCEEDED"}

\* What was given back or is on its way.
Held == {r \in Refunds : refund[r].status \in {"PENDING", "SUCCEEDED"}}

AmountOf(refunds) == SumFunctionOnSet([r \in Refunds |-> refund[r].amount], refunds)
ServiceOf(refunds) == SumFunctionOnSet([r \in Refunds |-> refund[r].service], refunds)

Left == Amount - AmountOf(Held)

ServiceLeft == ServiceFee - ServiceOf(Held)

\* All that is left gives back the platform fee too; less comes out of the
\* lawyer's part only.
MayRefund(amount) == amount <= Left /\ (amount = Left \/ amount <= ServiceLeft)

ServicePartWhole(amount) == amount

ServicePart(amount) == IF amount = Left THEN ServiceLeft ELSE amount

\* refund() looks first, outside any transaction.
Check(r, amount) ==
    /\ refund[r].status = "NONE"
    /\ payment.status \in {"SUCCEEDED", "PARTIALLY_REFUNDED"}
    /\ MayRefund(amount)
    /\ refund' = [refund EXCEPT ![r].status = "checked", ![r].amount = amount]
    /\ UNCHANGED <<payment, earning, asked, settling, disputeVars>>

\* createRefund looks again with the payment row locked, and works out the split.
CreateRefund(r) ==
    LET amount == refund[r].amount IN
    /\ refund[r].status = "checked"
    /\ refund' = IF MayRefund(amount)
                   THEN [refund EXCEPT ![r].status = "PENDING", ![r].service = ServicePart(amount)]
                   ELSE [refund EXCEPT ![r].status = "NONE"]
    /\ UNCHANGED <<payment, earning, asked, settling, disputeVars>>

\* The call to Stripe: made, or refused; a lost answer leaves the refund PENDING.
AskStripe(r) ==
    /\ refund[r].status = "PENDING"
    /\ asked[r] = "no"
    /\ \E to \in {"made", "succeeded", "failed"} : asked' = [asked EXCEPT ![r] = to]
    /\ UNCHANGED <<rowVars, settling, disputeVars>>

StripeEnds(r) ==
    /\ asked[r] = "made"
    /\ \E to \in {"succeeded", "failed"} : asked' = [asked EXCEPT ![r] = to]
    /\ UNCHANGED <<rowVars, settling, disputeVars>>

-----------------------------------------------------------------------------
(* The refund ends: settleRefund, called by refund() or by refund.updated. *)

\* Out of the earning, never more than is left of it (reverseEarningTx).
Reversed(amount) ==
    LET taken == Min({amount, ServiceFee - earning.reversed})
    IN  IF earning.status = "REVERSED" THEN earning
        ELSE [earning EXCEPT !.reversed = @ + taken,
                             !.status = IF earning.reversed + taken >= ServiceFee THEN "REVERSED" ELSE @]

SettleFailed(r) ==
    /\ refund[r].status = "PENDING"
    /\ asked[r] = "failed"
    /\ refund' = [refund EXCEPT ![r].status = "FAILED"]
    /\ UNCHANGED <<payment, earning, asked, settling, disputeVars>>

\* The refund row is taken, then the payment is read, with no lock.
SettleReads(r) ==
    /\ refund[r].status = "PENDING"
    /\ asked[r] = "succeeded"
    /\ ~settling[r].open
    /\ settling' = [settling EXCEPT ![r] = [open |-> TRUE, refunded |-> payment.refunded,
                                            disputed |-> payment.status = "DISPUTED"]]
    /\ UNCHANGED <<rowVars, asked, disputeVars>>

ReversedPart(r) == refund[r].amount

\* The lawyer gives back their part of it.
FromTheLawyer(r) == refund[r].service

\* A status read as DISPUTED is left alone, any other is written over.
SettleWrites(r) ==
    LET total == settling[r].refunded + refund[r].amount IN
    /\ settling[r].open
    /\ refund' = [refund EXCEPT ![r].status = "SUCCEEDED"]
    /\ payment' = [status |-> IF settling[r].disputed THEN payment.status
                              ELSE IF total >= Amount THEN "REFUNDED" ELSE "PARTIALLY_REFUNDED",
                   refunded |-> total]
    /\ earning' = IF FromTheLawyer(r) > 0 THEN Reversed(FromTheLawyer(r)) ELSE earning
    /\ settling' = [settling EXCEPT ![r] = Nothing]
    /\ UNCHANGED <<asked, disputeVars>>

-----------------------------------------------------------------------------
(* The client's bank disputes the payment.                                 *)

BankDisputes ==
    /\ dispute = "none"
    /\ dispute' = "open"
    /\ event' = [event EXCEPT !["created"] = "sent"]
    /\ UNCHANGED <<rowVars, asked, settling, closing>>

BankDecides ==
    /\ dispute = "open"
    /\ dispute' \in {"won", "lost"}
    /\ event' = [event EXCEPT !["closed"] = "sent"]
    /\ UNCHANGED <<rowVars, asked, settling, closing>>

\* An event handled is recorded, and not handled again.
Record(e) == event' = [event EXCEPT ![e] = "recorded"]

HoldTaken(status) == earning' = [earning EXCEPT !.disputed = @ \/ status \in {"SUCCEEDED"}]

\* The earning is held whatever the payment is.
Hold(status) == earning' = [earning EXCEPT !.disputed = TRUE]

\* charge.dispute.created
OpenDispute ==
    /\ event["created"] = "sent"
    /\ payment' = [payment EXCEPT !.status =
                     IF @ \in {"SUCCEEDED", "PARTIALLY_REFUNDED"} THEN "DISPUTED" ELSE @]
    /\ Hold(payment.status)
    /\ Record("created")
    /\ UNCHANGED <<refund, asked, settling, dispute, closing>>

\* charge.dispute.closed: not DISPUTED, nothing to do.
CloseNothing ==
    /\ event["closed"] = "sent"
    /\ ~closing.open
    /\ payment.status # "DISPUTED"
    /\ Record("closed")
    /\ UNCHANGED <<rowVars, asked, settling, dispute, closing>>

CloseReads ==
    /\ event["closed"] = "sent"
    /\ ~closing.open
    /\ payment.status = "DISPUTED"
    /\ closing' = [open |-> TRUE, refunded |-> payment.refunded, disputed |-> TRUE]
    /\ UNCHANGED <<rowVars, asked, settling, dispute, event>>

\* Lost: what is left of the earning is reversed.  Won: the payment is what its
\* refunds make it, and the earning is released as normal.
CloseWrites ==
    /\ closing.open
    /\ IF dispute = "lost"
         THEN /\ payment' = [status |-> "REFUNDED", refunded |-> Amount]
              /\ earning' = [Reversed(ServiceFee) EXCEPT !.disputed = FALSE]
         ELSE /\ payment' = [payment EXCEPT !.status =
                               IF closing.refunded >= Amount THEN "REFUNDED"
                               ELSE IF closing.refunded > 0 THEN "PARTIALLY_REFUNDED" ELSE "SUCCEEDED"]
              /\ earning' = [earning EXCEPT !.disputed = FALSE]
    /\ closing' = Nothing
    /\ Record("closed")
    /\ UNCHANGED <<refund, asked, settling, dispute>>

\* The sweep, when the hold is over (WalletRepo.release).
Release ==
    /\ earning.status = "PENDING"
    /\ ~earning.disputed
    /\ earning' = [earning EXCEPT !.status = "AVAILABLE"]
    /\ UNCHANGED <<payment, refund, asked, settling, disputeVars>>

-----------------------------------------------------------------------------
RefundActs(r) ==
    \/ \E amount \in 1..Amount : Check(r, amount)
    \/ CreateRefund(r)
    \/ AskStripe(r)
    \/ StripeEnds(r)
    \/ SettleFailed(r)
    \/ SettleReads(r)
    \/ SettleWrites(r)

DisputeActs ==
    \/ BankDisputes
    \/ BankDecides
    \/ OpenDispute
    \/ CloseNothing
    \/ CloseReads
    \/ CloseWrites

Next ==
    \/ \E r \in Refunds : RefundActs(r)
    \/ DisputeActs
    \/ Release

Spec == Init /\ [][Next]_vars

-----------------------------------------------------------------------------
(* What must always hold.                                                   *)

\* Two admins at once never give back more than was paid, nor more of the
\* lawyer's part than they had, counting what is still on its way (createRefund).
NeverOverRefunded ==
    LET held == {r \in Refunds : refund[r].status \in {"PENDING", "SUCCEEDED"}}
    IN  AmountOf(held) <= Amount /\ ServiceOf(held) <= ServiceFee

LostAndReversed == dispute = "lost" /\ event["closed"] = "recorded"

\* Whatever order refunds settle in, the lawyer gives back their part of what
\* went through, no more and no less, until a lost dispute takes it all.
LawyerGivesBackTheirPart ==
    LET done == {r \in Refunds : refund[r].status = "SUCCEEDED"}
    IN  \/ earning.reversed = ServiceOf(done)
        \/ LostAndReversed /\ earning.reversed = ServiceFee

\* While a payment is DISPUTED its earning is not released (openDispute).
DisputedIsHeld == payment.status = "DISPUTED" => earning.disputed
=============================================================================
