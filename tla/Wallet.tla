------------------------------- MODULE Wallet -------------------------------
(***************************************************************************)
(* A payee's wallet: earnings come in PENDING, the sweep releases them to  *)
(* AVAILABLE when their hold is over, refunds and lost disputes reverse    *)
(* them, and a withdrawal reserves part of what is AVAILABLE and pays it   *)
(* out through Stripe Connect: a transfer to the payee's connected         *)
(* account, then a payout from it to their bank.                           *)
(*                                                                         *)
(* Each repository method is one transaction under the wallet row's lock,  *)
(* so one action.  A payout is not: every call to Stripe and every write   *)
(* of what came back is a step of its own, the server may stop between any *)
(* two, Stripe may do what it was asked and the answer be lost, and its    *)
(* webhooks come late, twice or in the wrong order.                        *)
(*                                                                         *)
(* A bucket of the append-only ledger is kept as the sum of its entries.   *)
(***************************************************************************)
EXTENDS Integers, FiniteSetsExt, Functions

CONSTANTS
    Earnings,      \* the earnings that may come in
    Withdrawals,   \* the withdrawals, one per idempotency key
    Amounts,       \* what an earning, a reversal or a withdrawal may amount to
    MinWithdrawal, \* the tenant's minimum
    Stops          \* may the server stop in the middle of a payout?

ASSUME AmountsAssumption ==
    /\ IsFiniteSet(Earnings)
    /\ IsFiniteSet(Withdrawals)
    /\ Amounts \subseteq Nat \ {0}
    /\ MinWithdrawal \in Nat
    /\ Stops \in BOOLEAN

VARIABLES
    balance,    \* the ledger: the sum of each bucket's entries
    earning,    \* Earning rows
    withdrawal, \* Withdrawal rows
    at,         \* where runPayout and the payout.failed webhook are, per withdrawal
    stripe      \* what Stripe has made of each withdrawal

bookVars == <<balance, earning>>
payoutVars == <<withdrawal, at, stripe>>
vars == <<bookVars, payoutVars>>

Buckets == {"PENDING", "AVAILABLE", "RESERVED", "WITHDRAWN"}

\* held: the tenant's hold is not over (availableAt is in the future).
Earning == [status : {"NONE", "PENDING", "AVAILABLE", "REVERSED"}, net : Nat,
            reversed : Nat, held : BOOLEAN, disputed : BOOLEAN]

\* transferId, payoutId: the row has it.  age: made within STALLED_PAYOUT_AFTER_MS
\* ("fresh"), within STALLED_PAYOUT_MAX_AGE_MS ("stalled"), or before ("old").
Withdrawal == [status : {"NONE", "PROCESSING", "PAID", "FAILED"}, amount : Nat,
               transferId : BOOLEAN, payoutId : BOOLEAN, age : {"fresh", "stalled", "old"}]

Callers == {"runPayout", "webhook"}
Steps == {"idle", "transfer", "payout", "keep", "keepTransfer", "takeBack", "paid", "failed"}

\* transfer, payout: what the call made.  said: what the payout call answered.
\* back: the transfer was reversed.  payouts: how many Stripe has made.
AtStripe == [transfer : {"none", "made", "refused"}, back : BOOLEAN,
             payout : {"none", "pending", "paid", "failed", "returned", "refused"},
             said : {"none", "pending", "paid", "failed", "refused"}, payouts : Nat]

TypeOK ==
    /\ balance \in [Buckets -> Int]
    /\ earning \in [Earnings -> Earning]
    /\ withdrawal \in [Withdrawals -> Withdrawal]
    /\ at \in [Callers -> [Withdrawals -> Steps]]
    /\ stripe \in [Withdrawals -> AtStripe]
    /\ \A e \in Earnings : earning[e].reversed <= earning[e].net

Init ==
    /\ balance = [b \in Buckets |-> 0]
    /\ earning = [e \in Earnings |-> [status |-> "NONE", net |-> 0, reversed |-> 0,
                                      held |-> TRUE, disputed |-> FALSE]]
    /\ withdrawal = [w \in Withdrawals |-> [status |-> "NONE", amount |-> 0, transferId |-> FALSE,
                                            payoutId |-> FALSE, age |-> "fresh"]]
    /\ at = [c \in Callers |-> [w \in Withdrawals |-> "idle"]]
    /\ stripe = [w \in Withdrawals |-> [transfer |-> "none", back |-> FALSE, payout |-> "none",
                                        said |-> "none", payouts |-> 0]]

-----------------------------------------------------------------------------
(* The ledger.                                                             *)

Into(bucket, amount) == balance' = [balance EXCEPT ![bucket] = @ + amount]

Move(from, to, amount) == balance' = [balance EXCEPT ![from] = @ - amount, ![to] = @ + amount]

LeftOf(e) == earning[e].net - earning[e].reversed

\* createEarningTx: a client's payment engaged the payee.
CreateEarning(e, net) ==
    /\ earning[e].status = "NONE"
    /\ earning' = [earning EXCEPT ![e].status = "PENDING", ![e].net = net]
    /\ Into("PENDING", net)
    /\ UNCHANGED payoutVars

HoldEnds(e) ==
    /\ earning[e].status # "NONE"
    /\ earning[e].held
    /\ earning' = [earning EXCEPT ![e].held = FALSE]
    /\ UNCHANGED <<balance, payoutVars>>

\* openDispute and closeDispute on the earning of the payment.
Dispute(e) ==
    /\ earning[e].status # "NONE"
    /\ earning' = [earning EXCEPT ![e].disputed = ~@]
    /\ UNCHANGED <<balance, payoutVars>>

ReleasedAmountAll(e) == earning[e].net

\* What a release moves: what no reversal has taken already.
ReleasedAmount(e) == LeftOf(e)

Release(e) ==
    /\ earning[e].status = "PENDING"
    /\ ~earning[e].disputed
    /\ ~earning[e].held
    /\ earning' = [earning EXCEPT ![e].status = "AVAILABLE"]
    /\ Move("PENDING", "AVAILABLE", ReleasedAmount(e))
    /\ UNCHANGED payoutVars

\* Out of the bucket the money is in, by the status read under the lock.
ReversedBucket(e) == IF earning[e].status = "AVAILABLE" THEN "AVAILABLE" ELSE "PENDING"

TakenWhole(e, amount) == amount

Taken(e, amount) == Min({amount, LeftOf(e)})

\* reverseEarningTx: never more than is left, and below zero if it must.
Reverse(e, amount) ==
    LET taken == Taken(e, amount) IN
    /\ earning[e].status \in {"PENDING", "AVAILABLE"}
    /\ taken > 0
    /\ earning' = [earning EXCEPT ![e].reversed = @ + taken,
                                  ![e].status = IF taken = LeftOf(e) THEN "REVERSED" ELSE @]
    /\ Into(ReversedBucket(e), -taken)
    /\ UNCHANGED payoutVars

EnoughForMinimum(amount) == amount >= MinWithdrawal

\* At least the minimum, at most what is AVAILABLE.
Enough(amount) == amount >= MinWithdrawal /\ amount <= balance["AVAILABLE"]

\* reserveWithdrawal, then withdraw() goes on to runPayout.  The payout account
\* was ready when withdraw() read it; a repeated key finds the row and stops.
Reserve(w, amount) ==
    /\ withdrawal[w].status = "NONE"
    /\ Enough(amount)
    /\ withdrawal' = [withdrawal EXCEPT ![w].status = "PROCESSING", ![w].amount = amount]
    /\ Move("AVAILABLE", "RESERVED", amount)
    /\ at' = [at EXCEPT !["runPayout"][w] = "transfer"]
    /\ UNCHANGED <<earning, stripe>>

\* settleWithdrawal: once, out of the reserve; nothing when it had already ended.
Settle(w, outcome) ==
    IF withdrawal[w].status = "PROCESSING"
      THEN /\ withdrawal' = [withdrawal EXCEPT ![w].status = outcome]
           /\ Move("RESERVED", IF outcome = "PAID" THEN "WITHDRAWN" ELSE "AVAILABLE",
                   withdrawal[w].amount)
      ELSE UNCHANGED <<withdrawal, balance>>

-----------------------------------------------------------------------------
(* Stripe, as payout-provider uses it.                                     *)

\* What the connected account holds: transfers in, less what was taken back and
\* what its payouts took.  Below zero when a transfer is taken from under one.
Account ==
    LET held(w) == (IF stripe[w].transfer = "made" /\ ~stripe[w].back THEN withdrawal[w].amount ELSE 0)
                   - (IF stripe[w].payout \in {"pending", "paid"} THEN withdrawal[w].amount ELSE 0)
    IN MapThenSumSet(held, Withdrawals)

\* Stripe keeps an idempotency key for 24 hours, and answers a replay as before.
KeyKept(w) == withdrawal[w].age # "old"

GoOn(c, w, step) == at' = [at EXCEPT ![c][w] = step]

Answers(c, w, step) == at[c][w] = step

\* transfers.create; a lost answer throws, and runPayout catches it.
CallTransfer(w) ==
    /\ Answers("runPayout", w, "transfer")
    /\ \/ \E t \in {"made", "refused"} :
            /\ KeyKept(w) /\ stripe[w].transfer # "none" => t = stripe[w].transfer
            /\ stripe' = [stripe EXCEPT ![w].transfer = t]
            /\ \/ GoOn("runPayout", w, IF t = "made" THEN "payout" ELSE "failed")
               \/ GoOn("runPayout", w, "idle")
       \/ GoOn("runPayout", w, "idle") /\ UNCHANGED stripe
    /\ UNCHANGED <<bookVars, withdrawal>>

\* payouts.create; Stripe refuses what the account does not hold.
Payout(w, p) ==
    /\ p # "refused" => Account >= withdrawal[w].amount
    /\ stripe' = [stripe EXCEPT ![w].payout = p, ![w].said = p,
                                ![w].payouts = IF p = "refused" THEN @ ELSE @ + 1]

NoAnswerFails == "takeBack"

\* No answer to the payout, but the transfer is real: its id is kept, and the
\* payout is left to the sweep.
NoAnswer == "keepTransfer"

CallPayout(w) ==
    /\ Answers("runPayout", w, "payout")
    /\ \/ \E p \in {"pending", "paid", "failed", "refused"} :
            /\ IF KeyKept(w) /\ stripe[w].said # "none"
                 THEN p = stripe[w].said /\ UNCHANGED stripe
                 ELSE Payout(w, p)
            /\ \/ GoOn("runPayout", w, CASE p = "pending" -> "keep"
                                         [] p = "paid"    -> "paid"
                                         [] OTHER         -> "takeBack")
               \/ GoOn("runPayout", w, NoAnswer)
       \/ GoOn("runPayout", w, NoAnswer) /\ UNCHANGED stripe
    /\ UNCHANGED <<bookVars, withdrawal>>

\* A payout reaches the bank, or fails; a bank may return one days later.
PayoutDecided(w) ==
    /\ \/ stripe[w].payout = "pending" /\ \E p \in {"paid", "failed"} : stripe' = [stripe EXCEPT ![w].payout = p]
       \/ stripe[w].payout = "paid" /\ stripe' = [stripe EXCEPT ![w].payout = "returned"]
    /\ UNCHANGED <<bookVars, withdrawal, at>>

\* Someone takes a transfer back in Stripe's dashboard; transfer.reversed is
\* only logged (applyTransferReversal).
DashboardReversal(w) ==
    /\ stripe[w].transfer = "made"
    /\ ~stripe[w].back
    /\ stripe' = [stripe EXCEPT ![w].back = TRUE]
    /\ UNCHANGED <<bookVars, withdrawal, at>>

-----------------------------------------------------------------------------
(* runPayout and the webhooks record what came back.                       *)

PayoutIdAlways(w) == TRUE

\* Only an answered payout has an id.
PayoutId(w) == withdrawal[w].payoutId \/ at["runPayout"][w] = "keep"

\* setWithdrawalIds
KeepIds(w) ==
    /\ at["runPayout"][w] \in {"keep", "keepTransfer"}
    /\ withdrawal' = IF withdrawal[w].status = "PROCESSING"
                       THEN [withdrawal EXCEPT ![w].transferId = TRUE, ![w].payoutId = PayoutId(w)]
                       ELSE withdrawal
    /\ GoOn("runPayout", w, "idle")
    /\ UNCHANGED <<bookVars, stripe>>

\* reverseTransfer: nothing when it is already back.
TakeBack(c, w) ==
    /\ Answers(c, w, "takeBack")
    /\ stripe' = [stripe EXCEPT ![w].back = TRUE]
    /\ GoOn(c, w, "failed")
    /\ UNCHANGED <<bookVars, withdrawal>>

SettlePaid(w) ==
    /\ Answers("runPayout", w, "paid")
    /\ Settle(w, "PAID")
    /\ GoOn("runPayout", w, "idle")
    /\ UNCHANGED <<earning, stripe>>

SettleFailed(c, w) ==
    /\ Answers(c, w, "failed")
    /\ Settle(w, "FAILED")
    /\ GoOn(c, w, "idle")
    /\ UNCHANGED <<earning, stripe>>

\* payout.paid.  A withdrawal that had FAILED is logged for ops, not moved.
PayoutPaid(w) ==
    /\ stripe[w].payout \in {"paid", "returned"}
    /\ withdrawal[w].status = "PROCESSING"
    /\ Settle(w, "PAID")
    /\ UNCHANGED <<earning, at, stripe>>

\* payout.failed: the row is read first, and says whether there is a transfer
\* to take back.  A PAID one is logged for ops, not moved.
PayoutFailed(w) ==
    /\ stripe[w].payout \in {"failed", "returned"}
    /\ withdrawal[w].status = "PROCESSING"
    /\ at["webhook"][w] = "idle"
    /\ GoOn("webhook", w, IF withdrawal[w].transferId THEN "takeBack" ELSE "failed")
    /\ UNCHANGED <<bookVars, withdrawal, stripe>>

\* The server stops, or a call throws: what was in memory is gone.
Stop(c, w) ==
    /\ Stops
    /\ at[c][w] # "idle"
    /\ GoOn(c, w, "idle")
    /\ UNCHANGED <<bookVars, withdrawal, stripe>>

MayResumeAnyAge(w) == withdrawal[w].status = "PROCESSING" /\ ~withdrawal[w].payoutId

\* findStalledWithdrawals
MayResume(w) ==
    /\ withdrawal[w].status = "PROCESSING"
    /\ ~withdrawal[w].payoutId
    /\ withdrawal[w].age = "stalled"

\* The sweep runs the payout again.  A call to Stripe times out well before the
\* five minutes are over, so the one before has ended.
Resume(w) ==
    /\ MayResume(w)
    /\ at["runPayout"][w] = "idle"
    /\ GoOn("runPayout", w, "transfer")
    /\ UNCHANGED <<bookVars, withdrawal, stripe>>

\* The clock, as a payout sees it.
Ages(w) ==
    /\ withdrawal[w].status = "PROCESSING"
    /\ withdrawal[w].age # "old"
    /\ at["runPayout"][w] = "idle"
    /\ withdrawal' = [withdrawal EXCEPT ![w].age = IF @ = "fresh" THEN "stalled" ELSE "old"]
    /\ UNCHANGED <<bookVars, at, stripe>>

-----------------------------------------------------------------------------
Earns(e) ==
    \/ \E amount \in Amounts : CreateEarning(e, amount) \/ Reverse(e, amount)
    \/ HoldEnds(e)
    \/ Dispute(e)
    \/ Release(e)

RunPayout(w) ==
    \/ CallTransfer(w)
    \/ CallPayout(w)
    \/ KeepIds(w)
    \/ TakeBack("runPayout", w)
    \/ SettlePaid(w)
    \/ SettleFailed("runPayout", w)

Webhook(w) ==
    \/ PayoutPaid(w)
    \/ PayoutFailed(w)
    \/ TakeBack("webhook", w)
    \/ SettleFailed("webhook", w)

Withdraws(w) ==
    \/ \E amount \in Amounts : Reserve(w, amount)
    \/ RunPayout(w)
    \/ Webhook(w)
    \/ \E c \in Callers : Stop(c, w)
    \/ Resume(w)
    \/ Ages(w)
    \/ PayoutDecided(w)
    \/ DashboardReversal(w)

Next ==
    \/ \E e \in Earnings : Earns(e)
    \/ \E w \in Withdrawals : Withdraws(w)

Spec == Init /\ [][Next]_vars

(* Stripe decides what it was asked and retries its webhooks until they are  *)
(* taken. The sweep goes on, a payout is stalled five minutes later, and a   *)
(* call that is made again and again is answered in the end, as its answer   *)
(* is recorded.  That 23 hours pass first is possible and never owed.        *)
Answered(w) ==
    \/ CallTransfer(w) /\ at'["runPayout"][w] # "idle"
    \/ CallPayout(w) /\ at'["runPayout"][w] # NoAnswer

Fairness ==
    \A w \in Withdrawals :
        /\ WF_vars(RunPayout(w))
        /\ SF_vars(at["runPayout"][w] = "transfer" /\ Answered(w))
        /\ SF_vars(at["runPayout"][w] = "payout" /\ Answered(w))
        /\ SF_vars(KeepIds(w))
        /\ SF_vars(TakeBack("runPayout", w))
        /\ SF_vars(SettlePaid(w))
        /\ SF_vars(SettleFailed("runPayout", w))
        /\ WF_vars(Resume(w))
        /\ SF_vars(withdrawal[w].age = "fresh" /\ Ages(w))
        /\ WF_vars(stripe[w].payout = "pending" /\ PayoutDecided(w))
        /\ SF_vars(PayoutPaid(w))
        /\ SF_vars(PayoutFailed(w))
        /\ SF_vars(TakeBack("webhook", w))
        /\ SF_vars(SettleFailed("webhook", w))

FairSpec == Spec /\ Fairness

-----------------------------------------------------------------------------
(* What must always hold.                                                   *)

LeftIn(status) ==
    SumFunctionOnSet([e \in Earnings |-> LeftOf(e)], {e \in Earnings : earning[e].status = status})

AmountIn(statuses) ==
    SumFunctionOnSet([w \in Withdrawals |-> withdrawal[w].amount],
                     {w \in Withdrawals : withdrawal[w].status \in statuses})

\* The ledger and the rows tell the same story: PENDING and AVAILABLE are what
\* is left of the earnings there, less what withdrawals took; RESERVED is what
\* is on its way, WITHDRAWN what was paid (move() beside each guarded update).
BooksAgree ==
    /\ balance["PENDING"] = LeftIn("PENDING")
    /\ balance["AVAILABLE"] = LeftIn("AVAILABLE") - AmountIn({"PROCESSING", "PAID"})
    /\ balance["RESERVED"] = AmountIn({"PROCESSING"})
    /\ balance["WITHDRAWN"] = AmountIn({"PAID"})

\* A withdrawal's money leaves for the bank at most once, however often the
\* payout is replayed (the idempotency keys, and resumeStalledPayouts' 23h).
PaidOnce == \A w \in Withdrawals : stripe[w].payouts <= 1

\* A withdrawal is PAID only when the bank had the money, and FAILED, with its
\* money AVAILABLE again, only when no payout of it is on its way or there.
EndedAsAtTheBank ==
    \A w \in Withdrawals :
        /\ withdrawal[w].status = "PAID" => stripe[w].payout \in {"paid", "returned"}
        /\ withdrawal[w].status = "FAILED" => stripe[w].payout \notin {"pending", "paid"}

\* Only a reversal takes AVAILABLE below zero, never a withdrawal.
OnlyReversalsOverdraw ==
    [][balance'["AVAILABLE"] < 0 /\ balance'["AVAILABLE"] < balance["AVAILABLE"] =>
         \E e \in Earnings : earning'[e].reversed > earning[e].reversed]_vars

(* What must happen.                                                        *)

\* What the sweep leaves for ops: the keys have run out, with no payout known.
LeftForOps(w) == withdrawal[w].age = "old" /\ ~withdrawal[w].payoutId

\* A withdrawal is not left PROCESSING for ever: it is paid or its money is back,
\* unless 23 hours passed before the sweep got through (resumeStalledPayouts and
\* the webhooks).
WithdrawalsEnd ==
    \A w \in Withdrawals :
        withdrawal[w].status = "PROCESSING" ~> (withdrawal[w].status \in {"PAID", "FAILED"} \/ LeftForOps(w))
=============================================================================
