------------------------ MODULE ClientRequestProofs ------------------------
(* Theorems about ClientRequest, for any lawyers, windows and limit. *)
EXTENDS ClientRequest, FiniteSetTheorems, TLAPS

(* Ending claims and closing quotations keep the two tables well typed. *)
LEMMA EndClaimsTyped ==
    ASSUME TypeOK, NEW S, NEW how \in Outcomes
    PROVE  EndClaims(S, how) \in [Lawyers -> Claims]
  BY DEF TypeOK, EndClaims, Claims, Outcomes

LEMMA CloseTyped ==
    ASSUME TypeOK, NEW S, NEW how \in QuoteStatuses
    PROVE  CloseOpenQuotations(S, how) \in [Lawyers -> Quotations]
  BY DEF TypeOK, CloseOpenQuotations, Quotations

(* endClaim leaves every row it touches well typed. *)
LEMMA EndClaimTyped ==
    ASSUME TypeOK, NEW l \in Lawyers, NEW how \in Outcomes, NEW quote \in QuoteStatuses,
           EndClaim(l, how, quote), UNCHANGED callVars
    PROVE  TypeOK'
  <1>1. claim' \in [Lawyers -> Claims]
    BY EndClaimsTyped DEF EndClaim
  <1>2. quotation' \in [Lawyers -> Quotations]
    BY CloseTyped DEF EndClaim
  <1>3. excluded' \subseteq Lawyers
    BY DEF TypeOK, EndClaim, AfterClaimEnded, Exclude
  <1>4. routing' \in Nat /\ announced' \in BOOLEAN /\ requestedOnly' \in BOOLEAN
    BY WindowsAssumption DEF TypeOK, EndClaim, AfterClaimEnded, BackInThePool
  <1>5. pickBy' \in Nat \union {NoDate}
    BY DEF TypeOK, EndClaim, AfterClaimEnded
  <1> QED
    BY <1>1, <1>2, <1>3, <1>4, <1>5 DEF TypeOK, EndClaim, callVars

(* Time left only runs down to zero. *)
LEMMA EarlierTyped == \A left \in Nat : Earlier(left) \in Nat
  BY DEF Earlier

(* The request as create() inserts it is well typed. *)
LEMMA InitTyped == Init => TypeOK
  <1> SUFFICES ASSUME Init PROVE TypeOK
    OBVIOUS
  <1>1. requestedOnly \in BOOLEAN
    BY Zenon DEF Init
  <1>2. claim \in [Lawyers -> Claims]
    BY DEF Init, Claims, Outcomes
  <1>3. quotation \in [Lawyers -> Quotations]
    BY DEF Init, Quotations, NoQuotation, QuoteStatuses
  <1> QED
    BY <1>1, <1>2, <1>3 DEF Init, TypeOK, Statuses, SweepSteps, NoDate

(* No operation of the client, a lawyer or the sweep writes an ill-typed row. *)
LEMMA StepTyped == TypeOK /\ [Next]_vars => TypeOK'
  <1> SUFFICES ASSUME TypeOK, [Next]_vars PROVE TypeOK'
    OBVIOUS
  <1> USE DEF briefVars, callVars, claimVars, requestVars
  <1>1. CASE Route
    BY <1>1, WindowsAssumption DEF TypeOK, Route, Statuses
  <1>2. CASE SaveBrief
    BY <1>2 DEF TypeOK, SaveBrief
  <1>3. CASE AnnounceInBackground
    BY <1>3 DEF TypeOK, AnnounceInBackground, ClaimAnnouncement
  <1>4. CASE Withdraw
    <2>1. claim' \in [Lawyers -> Claims] /\ quotation' \in [Lawyers -> Quotations]
      BY <1>4, EndClaimsTyped, CloseTyped DEF Withdraw, Outcomes, Ended, QuoteStatuses
    <2> QED
      BY <1>4, <2>1 DEF TypeOK, Withdraw, Statuses, Closed
  <1>5. CASE Close
    BY <1>5 DEF TypeOK, Close, Statuses, Closed
  <1>6. ASSUME NEW l \in Lawyers, Decline(l) PROVE TypeOK'
    BY <1>6, EndClaimTyped DEF Decline, Outcomes, Ended, QuoteStatuses
  <1>7. ASSUME NEW l \in Lawyers, Accept(l) PROVE TypeOK'
    <2>1. claim' \in [Lawyers -> Claims]
      BY <1>7, EndClaimsTyped DEF Accept, Outcomes, Ended
    <2>2. CloseOpenQuotations(Lawyers \ {l}, "NOT_CHOSEN") \in [Lawyers -> Quotations]
      BY CloseTyped DEF QuoteStatuses
    <2>3. quotation' \in [Lawyers -> Quotations]
      BY <1>7, <2>2 DEF Accept, Quotations, QuoteStatuses
    <2> QED
      BY <1>7, <2>1, <2>3 DEF TypeOK, Accept, Statuses
  <1>8. ASSUME NEW l \in Lawyers, Engage(l) PROVE TypeOK'
    <2>1. claim' \in [Lawyers -> Claims]
      BY <1>8, EndClaimsTyped DEF Engage, Outcomes
    <2>2. quotation' \in [Lawyers -> Quotations]
      BY <1>8 DEF TypeOK, Engage, Quotations, QuoteStatuses
    <2> QED
      BY <1>8, <2>1, <2>2 DEF TypeOK, Engage, Statuses
  <1>9. ASSUME NEW l \in Lawyers, Claim(l) PROVE TypeOK'
    <2>1. claim' \in [Lawyers -> Claims]
      BY <1>9, WindowsAssumption DEF TypeOK, Claim, Claims, Outcomes
    <2>2. quotation' \in [Lawyers -> Quotations]
      BY <1>9 DEF TypeOK, Claim, Quotations, NoQuotation, QuoteStatuses
    <2> QED
      BY <1>9, <2>1, <2>2 DEF TypeOK, Claim
  <1>10. ASSUME NEW l \in Lawyers, NEW valid \in 1..MaxValidity, SaveDraft(l, valid) PROVE TypeOK'
    <2>1. quotation' \in [Lawyers -> Quotations]
      BY <1>10, WindowsAssumption DEF TypeOK, SaveDraft, Quotations, QuoteStatuses, OpenQuotation
    <2> QED
      BY <1>10, <2>1 DEF TypeOK, SaveDraft
  <1>11. ASSUME NEW l \in Lawyers, NEW valid \in Nat, SendTx(l, valid) PROVE TypeOK'
    <2>1. claim' \in [Lawyers -> Claims]
      BY <1>11 DEF TypeOK, SendTx, Claims
    <2>2. quotation' \in [Lawyers -> Quotations]
      BY <1>11 DEF TypeOK, SendTx, Quotations, QuoteStatuses, OpenQuotation
    <2> QED
      BY <1>11, <2>1, <2>2 DEF TypeOK, SendTx, PickByAfter
  <1>12. ASSUME NEW l \in Lawyers, Send(l) PROVE TypeOK'
    BY <1>11, <1>12 DEF TypeOK, Send, Quotations
  <1>13. ASSUME NEW l \in Lawyers, NEW valid \in 1..MaxValidity, SaveAndSend(l, valid) PROVE TypeOK'
    BY <1>11, <1>13, WindowsAssumption DEF SaveAndSend
  <1>14. ASSUME NEW l \in Lawyers, Release(l) \/ WithdrawQuotation(l) PROVE TypeOK'
    BY <1>14, EndClaimTyped DEF Release, WithdrawQuotation, Outcomes, Ended, QuoteStatuses
  <1>15. ASSUME NEW l \in Lawyers, PassBegins(l) PROVE TypeOK'
    BY <1>15 DEF TypeOK, PassBegins
  <1>16. ASSUME NEW l \in Lawyers, PassExcludes(l) PROVE TypeOK'
    BY <1>16 DEF TypeOK, PassExcludes, Exclude
  <1>17. ASSUME NEW l \in Lawyers, PassOpens(l) PROVE TypeOK'
    BY <1>17, WindowsAssumption DEF TypeOK, PassOpens, OpenToAll, BackInThePool
  <1>18. ASSUME NEW l \in Lawyers, Lapse(l) \/ ExpireSent(l) PROVE TypeOK'
    BY <1>18, EndClaimTyped DEF Lapse, ExpireSent, Outcomes, Ended, QuoteStatuses
  <1>19. ASSUME NEW l \in Lawyers, ExpireAccepted(l) PROVE TypeOK'
    <2>1. claim' \in [Lawyers -> Claims]
      BY <1>19, EndClaimsTyped DEF ExpireAccepted, Outcomes, Ended
    <2>2. quotation' \in [Lawyers -> Quotations]
      BY <1>19 DEF TypeOK, ExpireAccepted, Quotations, QuoteStatuses
    <2> QED
      BY <1>19, <2>1, <2>2, WindowsAssumption
         DEF TypeOK, ExpireAccepted, BackInThePool, Exclude, Statuses
  <1>20. CASE OpenDirect
    BY <1>20, WindowsAssumption DEF TypeOK, OpenDirect, OpenToAll, BackInThePool
  <1>21. CASE Expire
    <2>1. claim' \in [Lawyers -> Claims] /\ quotation' \in [Lawyers -> Quotations]
      BY <1>21, EndClaimsTyped, CloseTyped DEF Expire, Outcomes, Ended, QuoteStatuses
    <2> QED
      BY <1>21, <2>1 DEF TypeOK, Expire, Statuses, Closed
  <1>22. CASE SweepAnnounces
    BY <1>22 DEF TypeOK, SweepAnnounces, ClaimAnnouncement
  <1>23. CASE SweepStep \/ SweepStepFails
    BY <1>23 DEF TypeOK, SweepStep, SweepStepFails, After, SweepSteps
  <1>24. CASE Tick
    <2>1. claim' \in [Lawyers -> Claims] /\ quotation' \in [Lawyers -> Quotations]
      BY <1>24, EarlierTyped DEF TypeOK, Tick, Claims, Quotations
    <2>2. routing' \in Nat /\ pickBy' \in Nat \union {NoDate}
      BY <1>24 DEF TypeOK, Tick, Earlier, NoDate
    <2> QED
      BY <1>24, <2>1, <2>2 DEF TypeOK, Tick
  <1>25. CASE UNCHANGED vars
    BY <1>25 DEF TypeOK, vars
  <1> QED
    BY <1>1, <1>2, <1>3, <1>4, <1>5, <1>6, <1>7, <1>8, <1>9, <1>10, <1>12, <1>13, <1>14, <1>15,
       <1>16, <1>17, <1>18, <1>19, <1>20, <1>21, <1>22, <1>23, <1>24, <1>25
       DEF Next, ClientActs, LawyerActs, SweepActs, SweepEndsOne

(* Every variable keeps its type in every reachable state. *)
THEOREM TypeCorrect == Spec => []TypeOK
  BY InitTyped, StepTyped, PTL DEF Spec

-----------------------------------------------------------------------------
(* The claims and the quotations agree with each other and with the request. *)

\* Until create() has routed it, nobody has touched the request but its client.
NotYetRouted ==
    IF creating
      THEN /\ status \in {"REQUESTED", "WITHDRAWN"}
           /\ \A l \in Lawyers : /\ claim[l].outcome = "NONE" /\ ~claim[l].quoted
                                /\ quotation[l].status = "NONE"
      ELSE status # "REQUESTED"

QuotedIsOpen == \A l \in Lawyers : claim[l].quoted => claim[l].outcome = "OPEN"

Agreement ==
    /\ NotYetRouted
    /\ QuotedIsOpen
    /\ QuoteInStep
    /\ NothingLeftOpen
    /\ OneLawyerOncePicked

ClosedQuote == {"REJECTED", "WITHDRAWN", "EXPIRED", "NOT_CHOSEN"}

(* What ending one open claim does to the request and the two tables. *)
ClaimEnded(l, how, quote) ==
    /\ status = "ROUTED" /\ status' = "ROUTED"
    /\ claim[l].outcome = "OPEN"
    /\ claim'[l].outcome = how /\ claim'[l].quoted = FALSE
    /\ quotation'[l].status =
          IF quotation[l].status \in OpenQuotation THEN quote ELSE quotation[l].status
    /\ \A c \in Lawyers \ {l} : claim'[c] = claim[c] /\ quotation'[c] = quotation[c]

(* What endClaim does, lawyer by lawyer. *)
LEMMA EndClaimEffect ==
    ASSUME TypeOK, NEW l \in Lawyers, NEW how, NEW quote, EndClaim(l, how, quote)
    PROVE  ClaimEnded(l, how, quote)
  BY DEF TypeOK, EndClaim, EndClaims, CloseOpenQuotations, Open, ClaimEnded

(* Ending one claim closes its open quotation with it. *)
LEMMA EndClaimAgrees ==
    ASSUME TypeOK, Agreement, NEW l \in Lawyers, NEW how \in Ended, NEW quote \in ClosedQuote,
           EndClaim(l, how, quote), UNCHANGED callVars
    PROVE  Agreement'
  <1>1. ClaimEnded(l, how, quote) /\ creating' = creating
    BY EndClaimEffect DEF callVars
  <1>2. quotation[l].status \notin {"ACCEPTED", "PAID"}
    BY <1>1 DEF ClaimEnded, Agreement, NothingLeftOpen
  <1>3. NotYetRouted'
    BY <1>1 DEF ClaimEnded, Agreement, NotYetRouted
  <1>4. QuotedIsOpen' /\ QuoteInStep'
    BY <1>1, <1>2 DEF ClaimEnded, Agreement, QuotedIsOpen, QuoteInStep, Ended, OpenQuotation, ClosedQuote
  <1>5. NothingLeftOpen' /\ OneLawyerOncePicked'
    BY <1>1, <1>2 DEF ClaimEnded, Agreement, NothingLeftOpen, OneLawyerOncePicked, Ended, ClosedQuote, Open
  <1> QED
    BY <1>3, <1>4, <1>5 DEF Agreement

(* A new request has nothing to disagree about. *)
LEMMA InitAgrees == Init => Agreement
  BY DEF Init, Agreement, NotYetRouted, QuotedIsOpen, QuoteInStep, NothingLeftOpen,
         OneLawyerOncePicked, NoQuotation, Open

(* Every transaction writes claims, quotations and request together. *)
LEMMA StepAgrees == TypeOK /\ Agreement /\ [Next]_vars => Agreement'
  <1> SUFFICES ASSUME TypeOK, Agreement, [Next]_vars PROVE Agreement'
    OBVIOUS
  <1> USE DEF briefVars, callVars, claimVars, requestVars
  <1>1. ASSUME UNCHANGED <<creating, status, claim, quotation>> PROVE Agreement'
    BY <1>1 DEF Agreement, NotYetRouted, QuotedIsOpen, QuoteInStep, NothingLeftOpen,
                OneLawyerOncePicked, Picked, Open
  <1>2. CASE Route
    BY <1>2 DEF Route, Agreement, NotYetRouted, QuotedIsOpen, QuoteInStep, NothingLeftOpen,
                OneLawyerOncePicked, Open
  <1>3. CASE Withdraw
    <2>1. \A c \in Lawyers :
            /\ claim'[c].outcome = IF c \in Open THEN "WITHDRAWN" ELSE claim[c].outcome
            /\ claim'[c].quoted = IF c \in Open THEN FALSE ELSE claim[c].quoted
            /\ quotation'[c].status = IF quotation[c].status \in OpenQuotation THEN "WITHDRAWN"
                                                                         ELSE quotation[c].status
      BY <1>3 DEF Withdraw, EndClaims, CloseOpenQuotations
    <2>2. creating' = creating /\ status' = "WITHDRAWN" /\ status \in {"REQUESTED", "ROUTED"}
      BY <1>3 DEF Withdraw
    <2>3. NotYetRouted'
      BY <2>1, <2>2 DEF Agreement, NotYetRouted, Open, OpenQuotation
    <2>4. QuotedIsOpen' /\ QuoteInStep'
      BY <2>1, <2>2 DEF Agreement, QuotedIsOpen, QuoteInStep, NothingLeftOpen, OpenQuotation, Open
    <2>5. NothingLeftOpen' /\ OneLawyerOncePicked'
      BY <2>1, <2>2 DEF Agreement, NothingLeftOpen, OneLawyerOncePicked, OpenQuotation, Open
    <2> QED
      BY <2>3, <2>4, <2>5 DEF Agreement
  <1>4. CASE Expire
    <2>1. \A c \in Lawyers :
            /\ claim'[c].outcome = IF c \in Open THEN "NOT_CHOSEN" ELSE claim[c].outcome
            /\ claim'[c].quoted = IF c \in Open THEN FALSE ELSE claim[c].quoted
            /\ quotation'[c].status = IF quotation[c].status \in OpenQuotation THEN "EXPIRED"
                                                                         ELSE quotation[c].status
      BY <1>4 DEF Expire, EndClaims, CloseOpenQuotations
    <2>2. creating' = creating /\ status' = "EXPIRED" /\ status = "ROUTED"
      BY <1>4 DEF Expire, RunOut
    <2>3. NotYetRouted'
      BY <2>1, <2>2 DEF Agreement, NotYetRouted, Open, OpenQuotation
    <2>4. QuotedIsOpen' /\ QuoteInStep'
      BY <2>1, <2>2 DEF Agreement, QuotedIsOpen, QuoteInStep, NothingLeftOpen, OpenQuotation, Open
    <2>5. NothingLeftOpen' /\ OneLawyerOncePicked'
      BY <2>1, <2>2 DEF Agreement, NothingLeftOpen, OneLawyerOncePicked, OpenQuotation, Open
    <2> QED
      BY <2>3, <2>4, <2>5 DEF Agreement
  <1>5. CASE Close
    BY <1>5 DEF Close, Agreement, NotYetRouted, QuotedIsOpen, QuoteInStep, NothingLeftOpen,
                OneLawyerOncePicked, Picked, Open
  <1>6. ASSUME NEW l \in Lawyers, Decline(l) \/ Release(l) \/ WithdrawQuotation(l) \/ Lapse(l) \/ ExpireSent(l)
        PROVE  Agreement'
    BY <1>6, EndClaimAgrees
       DEF Decline, Release, WithdrawQuotation, Lapse, ExpireSent, Ended, ClosedQuote
  <1>7. ASSUME NEW l \in Lawyers, Accept(l) PROVE Agreement'
    <2>1. /\ status = "ROUTED" /\ status' = "CONFIRMED" /\ creating' = creating
          /\ quotation[l].status = "SENT" /\ quotation'[l].status = "ACCEPTED"
          /\ claim[l].outcome = "OPEN" /\ claim'[l] = claim[l]
      BY <1>7 DEF TypeOK, Accept, EndClaims, CloseOpenQuotations, Open, Quotations
    <2>2. \A c \in Lawyers \ {l} :
            /\ claim'[c].outcome = IF c \in Open THEN "NOT_CHOSEN" ELSE claim[c].outcome
            /\ claim'[c].quoted = IF c \in Open THEN FALSE ELSE claim[c].quoted
            /\ quotation'[c].status = IF quotation[c].status \in OpenQuotation THEN "NOT_CHOSEN"
                                                                         ELSE quotation[c].status
      BY <1>7 DEF TypeOK, Accept, EndClaims, CloseOpenQuotations, Quotations
    <2>3. NotYetRouted'
      BY <2>1 DEF Agreement, NotYetRouted
    <2>4. QuotedIsOpen' /\ QuoteInStep'
      <3>1. \A c \in Lawyers \ {l} :
              ~claim'[c].quoted /\ claim'[c].outcome # "OPEN"
              /\ quotation'[c].status \notin {"DRAFT", "SENT", "ACCEPTED"}
        BY <2>1, <2>2 DEF Agreement, QuotedIsOpen, NothingLeftOpen, OpenQuotation, Open
      <3>2. claim[l].quoted <=> TRUE
        BY <2>1 DEF Agreement, QuoteInStep
      <3> QED
        BY <2>1, <3>1, <3>2 DEF QuotedIsOpen, QuoteInStep
    <2>5. NothingLeftOpen' /\ OneLawyerOncePicked'
      BY <2>1, <2>2 DEF Agreement, NothingLeftOpen, OneLawyerOncePicked, Picked, OpenQuotation, Open
    <2> QED
      BY <2>3, <2>4, <2>5 DEF Agreement
  <1>8. ASSUME NEW l \in Lawyers, Engage(l) PROVE Agreement'
    <2>1. /\ status = "CONFIRMED" /\ status' = "ENGAGED" /\ creating' = creating
          /\ quotation[l].status = "ACCEPTED" /\ quotation'[l].status = "PAID"
          /\ \A c \in Lawyers \ {l} : claim'[c] = claim[c] /\ quotation'[c] = quotation[c]
      BY <1>8 DEF TypeOK, Engage, EndClaims
    <2>2. claim[l].outcome = "OPEN" /\ Picked("ACCEPTED", "OPEN")
      BY <2>1 DEF Agreement, QuoteInStep, OneLawyerOncePicked
    <2>3. claim'[l].outcome = "ENGAGED" /\ claim'[l].quoted = FALSE
      BY <1>8, <2>2 DEF TypeOK, Engage, EndClaims, Open
    <2>4. \A c \in Lawyers \ {l} :
            /\ claim[c].outcome \notin {"OPEN", "ENGAGED"}
            /\ quotation[c].status \notin {"DRAFT", "SENT", "ACCEPTED", "PAID"}
      BY <2>1, <2>2 DEF Picked
    <2>5. NotYetRouted'
      BY <2>1 DEF Agreement, NotYetRouted
    <2>6. QuotedIsOpen' /\ QuoteInStep'
      BY <2>1, <2>3 DEF Agreement, QuotedIsOpen, QuoteInStep
    <2>7. NothingLeftOpen' /\ OneLawyerOncePicked'
      BY <2>1, <2>3, <2>4 DEF Agreement, NothingLeftOpen, OneLawyerOncePicked, Picked
    <2> QED
      BY <2>5, <2>6, <2>7 DEF Agreement
  <1>9. ASSUME NEW l \in Lawyers, ExpireAccepted(l) PROVE Agreement'
    <2>1. /\ status = "CONFIRMED" /\ status' = "ROUTED" /\ creating' = creating
          /\ quotation[l].status = "ACCEPTED" /\ quotation'[l].status = "EXPIRED"
          /\ \A c \in Lawyers \ {l} : claim'[c] = claim[c] /\ quotation'[c] = quotation[c]
      BY <1>9 DEF TypeOK, ExpireAccepted, BackInThePool, EndClaims
    <2>2. claim[l].outcome = "OPEN" /\ Picked("ACCEPTED", "OPEN")
      BY <2>1 DEF Agreement, QuoteInStep, OneLawyerOncePicked
    <2>3. claim'[l].outcome = "NOT_CHOSEN" /\ claim'[l].quoted = FALSE
      BY <1>9, <2>2 DEF TypeOK, ExpireAccepted, EndClaims, Open
    <2>4. \A c \in Lawyers \ {l} :
            /\ claim[c].outcome \notin {"OPEN", "ENGAGED"}
            /\ quotation[c].status \notin {"DRAFT", "SENT", "ACCEPTED", "PAID"}
      BY <2>1, <2>2 DEF Picked
    <2>5. NotYetRouted'
      BY <2>1 DEF Agreement, NotYetRouted
    <2>6. QuotedIsOpen' /\ QuoteInStep'
      BY <2>1, <2>3 DEF Agreement, QuotedIsOpen, QuoteInStep
    <2>7. NothingLeftOpen' /\ OneLawyerOncePicked'
      BY <2>1, <2>3, <2>4 DEF NothingLeftOpen, OneLawyerOncePicked, Open
    <2> QED
      BY <2>5, <2>6, <2>7 DEF Agreement
  <1>10. ASSUME NEW l \in Lawyers, Claim(l) PROVE Agreement'
    <2>1. /\ status = "ROUTED" /\ status' = "ROUTED" /\ creating' = creating
          /\ claim'[l].outcome = "OPEN" /\ claim'[l].quoted = FALSE
          /\ quotation'[l].status = "NONE"
          /\ \A c \in Lawyers \ {l} : claim'[c] = claim[c] /\ quotation'[c] = quotation[c]
      BY <1>10 DEF TypeOK, Claim, NoQuotation
    <2> QED
      BY <2>1 DEF Agreement, NotYetRouted, QuotedIsOpen, QuoteInStep, NothingLeftOpen,
                  OneLawyerOncePicked, Open
  <1>11. ASSUME NEW l \in Lawyers, NEW valid \in 1..MaxValidity, SaveDraft(l, valid) PROVE Agreement'
    <2>1. /\ status = "ROUTED" /\ status' = "ROUTED" /\ creating' = creating /\ claim' = claim
          /\ claim[l].outcome = "OPEN" /\ quotation[l].status \in {"NONE", "DRAFT"}
          /\ quotation'[l].status = "DRAFT"
          /\ \A c \in Lawyers \ {l} : quotation'[c] = quotation[c]
      BY <1>11 DEF TypeOK, SaveDraft, MayDraft, Open
    <2> QED
      BY <2>1 DEF Agreement, NotYetRouted, QuotedIsOpen, QuoteInStep, NothingLeftOpen,
                  OneLawyerOncePicked, Open
  <1>12. ASSUME NEW l \in Lawyers, NEW valid, status = "ROUTED", SendTx(l, valid) PROVE Agreement'
    <2>1. /\ status = "ROUTED" /\ status' = "ROUTED" /\ creating' = creating
          /\ claim[l].outcome = "OPEN" /\ claim'[l].outcome = "OPEN" /\ claim'[l].quoted = TRUE
          /\ quotation'[l].status = "SENT"
          /\ \A c \in Lawyers \ {l} : claim'[c] = claim[c] /\ quotation'[c] = quotation[c]
      BY <1>12 DEF TypeOK, SendTx, Open, Claims
    <2> QED
      BY <2>1 DEF Agreement, NotYetRouted, QuotedIsOpen, QuoteInStep, NothingLeftOpen,
                  OneLawyerOncePicked, Open
  <1>13. ASSUME NEW l \in Lawyers, Send(l) PROVE Agreement'
    BY <1>12, <1>13 DEF Send
  <1>14. ASSUME NEW l \in Lawyers, NEW valid, SaveAndSend(l, valid) PROVE Agreement'
    BY <1>12, <1>14 DEF SaveAndSend, MayDraft
  <1>15. CASE Tick
    <2>1. /\ status' = status /\ creating' = creating
          /\ \A c \in Lawyers : /\ claim'[c].outcome = claim[c].outcome
                               /\ claim'[c].quoted = claim[c].quoted
                               /\ quotation'[c].status = quotation[c].status
      BY <1>15 DEF TypeOK, Tick, Claims, Quotations
    <2> QED
      BY <2>1 DEF Agreement, NotYetRouted, QuotedIsOpen, QuoteInStep, NothingLeftOpen,
                  OneLawyerOncePicked, Picked, Open
  <1>16. CASE SaveBrief \/ AnnounceInBackground \/ SweepAnnounces \/ SweepStep \/ SweepStepFails
    BY <1>1, <1>16 DEF SaveBrief, AnnounceInBackground, SweepAnnounces, ClaimAnnouncement,
                       SweepStep, SweepStepFails
  <1>17. CASE OpenDirect
    BY <1>1, <1>17 DEF OpenDirect, OpenToAll, BackInThePool
  <1>18. ASSUME NEW l \in Lawyers, PassBegins(l) \/ PassExcludes(l) \/ PassOpens(l) PROVE Agreement'
    BY <1>1, <1>18 DEF PassBegins, PassExcludes, PassOpens, OpenToAll, BackInThePool
  <1>19. CASE UNCHANGED vars
    BY <1>1, <1>19 DEF vars
  <1> QED
    BY <1>2, <1>3, <1>4, <1>5, <1>6, <1>7, <1>8, <1>9, <1>10, <1>11, <1>13, <1>14, <1>15, <1>16,
       <1>17, <1>18, <1>19 DEF Next, ClientActs, LawyerActs, SweepActs, SweepEndsOne

(* Nobody is left with a stake in a request that moved on without them: the *)
(* quotations agree with the claims, a pick leaves one lawyer, an end none.  *)
THEOREM AgreementHolds == Spec => []Agreement
  BY InitTyped, StepTyped, InitAgrees, StepAgrees, PTL DEF Spec

(* A claim is quoted exactly while its quotation waits, to be answered or to *)
(* be paid, and no quotation outlives its claim (sendTx, endClaim).          *)
THEOREM QuotationsFollowClaims == Spec => []QuoteInStep
  BY AgreementHolds, PTL DEF Agreement

(* After expire or withdraw nobody holds the request; before a pick nothing  *)
(* is accepted or paid.                                                      *)
THEOREM NoStakeLeft == Spec => []NothingLeftOpen
  BY AgreementHolds, PTL DEF Agreement

(* accept and settle leave exactly one lawyer on the request.                *)
THEOREM OnePick == Spec => []OneLawyerOncePicked
  BY AgreementHolds, PTL DEF Agreement

(* The request, its claims and its quotations tell one story of who is on it  *)
(* and who was picked, whatever ran when.                                    *)
THEOREM TablesAlwaysAgree == Spec => []TablesAgree
  BY QuotationsFollowClaims, NoStakeLeft, OnePick, PTL DEF TablesAgree

-----------------------------------------------------------------------------
(* Who may be on the request.                                               *)

\* What every step keeps of the request, and how a claim may change in it.
Frame ==
    /\ requestedLawyer' = requestedLawyer
    /\ requestedOnly' => requestedOnly
    /\ excluded \subseteq excluded'
    /\ \A c \in Lawyers :
         \/ claim'[c].outcome = claim[c].outcome
         \/ /\ claim[c].outcome = "OPEN"
            /\ claim'[c].outcome # "NONE"
            /\ claim'[c].outcome \in {"RELEASED", "LAPSED", "DECLINED"} => c \in excluded'
         \/ Claim(c) /\ claim'[c].outcome = "OPEN"

(* Ending one claim as left excludes that lawyer in the same step. *)
LEMMA EndClaimFrame ==
    ASSUME TypeOK, NEW l \in Lawyers, NEW how \in Ended, NEW quote, EndClaim(l, how, quote)
    PROVE  Frame
  <1>1. ClaimEnded(l, how, quote)
    BY EndClaimEffect
  <1>2. requestedLawyer' = requestedLawyer /\ (requestedOnly' => requestedOnly)
        /\ excluded' = excluded \union {l}
    BY DEF EndClaim, AfterClaimEnded, Exclude
  <1> QED
    BY <1>1, <1>2 DEF Frame, ClaimEnded, Ended

\* Ending many claims at once, none of them as left for good.
LEMMA EndManyFrame ==
    ASSUME TypeOK, NEW S, NEW how \in {"WITHDRAWN", "NOT_CHOSEN", "ENGAGED"},
           claim' = EndClaims(S, how), requestedLawyer' = requestedLawyer,
           requestedOnly' = requestedOnly, excluded \subseteq excluded'
    PROVE  Frame
  BY DEF TypeOK, EndClaims, Open, Frame

(* A step that ends no claim keeps the frame. *)
LEMMA SameOutcomesFrame ==
    ASSUME \A c \in Lawyers : claim'[c].outcome = claim[c].outcome,
           requestedLawyer' = requestedLawyer, requestedOnly' => requestedOnly,
           excluded \subseteq excluded'
    PROVE  Frame
  BY DEF Frame

(* A lawyer joins only by Claim, and leaves for good only excluded. *)
LEMMA StepFrame == TypeOK /\ [Next]_vars => Frame
  <1> SUFFICES ASSUME TypeOK, [Next]_vars PROVE Frame
    OBVIOUS
  <1> USE DEF briefVars, callVars, claimVars, requestVars
  <1>1. CASE Route \/ SaveBrief \/ AnnounceInBackground \/ SweepAnnounces \/ SweepStep \/ SweepStepFails \/ Close
    BY <1>1, SameOutcomesFrame DEF Route, SaveBrief, AnnounceInBackground, SweepAnnounces,
       ClaimAnnouncement, SweepStep, SweepStepFails, Close
  <1>2. CASE OpenDirect
    BY <1>2, SameOutcomesFrame DEF OpenDirect, OpenToAll, BackInThePool
  <1>3. CASE Tick
    <2>1. \A c \in Lawyers : claim'[c].outcome = claim[c].outcome
      BY <1>3 DEF TypeOK, Tick, Claims
    <2> QED
      BY <1>3, <2>1, SameOutcomesFrame DEF Tick
  <1>4. ASSUME NEW l \in Lawyers, PassBegins(l) \/ PassExcludes(l) \/ PassOpens(l) PROVE Frame
    BY <1>4, SameOutcomesFrame
       DEF PassBegins, PassExcludes, PassOpens, OpenToAll, BackInThePool, Exclude
  <1>5. ASSUME NEW l \in Lawyers, NEW valid, SaveDraft(l, valid) PROVE Frame
    BY <1>5, SameOutcomesFrame DEF SaveDraft
  <1>6. ASSUME NEW l \in Lawyers, NEW valid, SendTx(l, valid) PROVE Frame
    <2>1. \A c \in Lawyers : claim'[c].outcome = claim[c].outcome
      BY <1>6 DEF TypeOK, SendTx, Claims
    <2> QED
      BY <1>6, <2>1, SameOutcomesFrame DEF SendTx
  <1>7. ASSUME NEW l \in Lawyers, NEW valid, Send(l) \/ SaveAndSend(l, valid) PROVE Frame
    BY <1>6, <1>7 DEF Send, SaveAndSend
  <1>8. ASSUME NEW l \in Lawyers,
               Decline(l) \/ Release(l) \/ WithdrawQuotation(l) \/ Lapse(l) \/ ExpireSent(l)
        PROVE  Frame
    BY <1>8, EndClaimFrame DEF Decline, Release, WithdrawQuotation, Lapse, ExpireSent, Ended
  <1>9. CASE Withdraw \/ Expire
    BY <1>9, EndManyFrame DEF Withdraw, Expire
  <1>10. ASSUME NEW l \in Lawyers, Accept(l) \/ Engage(l) \/ ExpireAccepted(l) PROVE Frame
    BY <1>10, EndManyFrame DEF Accept, Engage, ExpireAccepted, BackInThePool, Exclude
  <1>11. ASSUME NEW l \in Lawyers, Claim(l) PROVE Frame
    BY <1>11 DEF TypeOK, Claim, Frame
  <1>12. CASE UNCHANGED vars
    BY <1>12, SameOutcomesFrame DEF vars
  <1> QED
    BY <1>1, <1>2, <1>3, <1>4, <1>5, <1>7, <1>8, <1>9, <1>10, <1>11, <1>12
       DEF Next, ClientActs, LawyerActs, SweepActs, SweepEndsOne

\* While the request is limited to the named lawyer, nobody else has ever
\* been on it: this is what makes the limit inductive, as a lawyer who has
\* held a request may see it again.
OnlyNamed ==
    requestedOnly =>
        /\ requestedLawyer \in Lawyers
        /\ \A l \in Lawyers \ {requestedLawyer} : claim[l].outcome = "NONE"

Joined == OnlyNamed /\ LeftForGood /\ Cardinality(Open) <= MaxLawyers

(* Nobody has joined a new request. *)
LEMMA InitJoined == Init => Joined
  <1> SUFFICES ASSUME Init PROVE Joined
    OBVIOUS
  <1>1. Open = {}
    BY DEF Init, Open
  <1>2. Cardinality(Open) <= MaxLawyers
    BY <1>1, FS_EmptySet, WindowsAssumption
  <1>3. OnlyNamed
    BY Zenon DEF Init, OnlyNamed
  <1>4. LeftForGood
    BY DEF Init, LeftForGood
  <1> QED
    BY <1>2, <1>3, <1>4 DEF Joined

(* Claim counts the places before it takes one. *)
LEMMA StepJoined == TypeOK /\ Joined /\ [Next]_vars => Joined'
  <1> SUFFICES ASSUME TypeOK, Joined, [Next]_vars PROVE Joined'
    OBVIOUS
  <1>1. Frame
    BY StepFrame
  <1>2. LeftForGood'
    BY <1>1 DEF Frame, Joined, LeftForGood, TypeOK
  <1>3. OnlyNamed'
    BY <1>1 DEF Frame, Joined, OnlyNamed, Claim, IsFor
  <1>4. IsFiniteSet(Open) /\ Cardinality(Open) \in Nat
    BY LawyersAssumption, FS_Subset, FS_CardinalityType DEF Open
  <1>5. CASE \E l \in Lawyers : Claim(l)
    <2>1. PICK l \in Lawyers : Claim(l)
      BY <1>5
    <2>2. Open' = Open \union {l} /\ l \notin Open /\ Cardinality(Open) < MaxLawyers
      BY <2>1 DEF TypeOK, Claim, PlaceFree, Open
    <2>3. Cardinality(Open') = Cardinality(Open) + 1
      BY <1>4, <2>2, FS_AddElement
    <2> QED
      BY <1>2, <1>3, <1>4, <2>2, <2>3, WindowsAssumption DEF Joined
  <1>6. CASE ~ \E l \in Lawyers : Claim(l)
    <2>1. Open' \subseteq Open
      BY <1>1, <1>6 DEF Frame, Open
    <2>2. Cardinality(Open') <= Cardinality(Open) /\ Cardinality(Open') \in Nat
      BY <1>4, <2>1, FS_Subset, FS_CardinalityType
    <2> QED
      BY <1>2, <1>3, <1>4, <2>2, WindowsAssumption DEF Joined
  <1> QED
    BY <1>5, <1>6

(* Who is on a request, and who may not come back: claim() and exclude().    *)
THEOREM JoinedHolds == Spec => []Joined
  BY InitTyped, StepTyped, InitJoined, StepJoined, PTL DEF Spec

(* However many lawyers claim at once, no more than MaxLawyers are on it,    *)
(* and only the named lawyer while it is limited to them.                    *)
THEOREM PlacesHold == Spec => []PlacesRespected
  <1>1. Joined => PlacesRespected
    BY DEF Joined, OnlyNamed, PlacesRespected, Open
  <1> QED
    BY <1>1, JoinedHolds, PTL

(* Whoever gave it back, lapsed or was declined stays excluded.              *)
THEOREM LeftStaysLeft == Spec => []LeftForGood
  BY JoinedHolds, PTL DEF Joined

-----------------------------------------------------------------------------
(* The pick-by date.                                                        *)

\* Before it is routed the request has no pick-by date and nobody was told.
Untouched == creating => pickBy = NoDate /\ ~announced

PickBy == Untouched /\ PickByCoversQuotes

(* afterClaimEnded drops the date with the last quoted claim, not before. *)
LEMMA EndClaimPickBy ==
    ASSUME TypeOK, Agreement, PickBy, NEW l \in Lawyers, NEW how \in Ended,
           NEW quote \in ClosedQuote, EndClaim(l, how, quote), UNCHANGED callVars
    PROVE  PickBy'
  <1>1. ClaimEnded(l, how, quote) /\ creating' = creating
    BY EndClaimEffect DEF callVars
  <1>2. ~creating
    BY <1>1 DEF ClaimEnded, Agreement, NotYetRouted
  <1>3. pickBy' = IF \A c \in Open \ {l} : ~claim[c].quoted THEN NoDate ELSE pickBy
    BY DEF EndClaim, AfterClaimEnded
  <1>4. Open' = Open \ {l} /\ \A c \in Open' : claim'[c] = claim[c] /\ quotation'[c] = quotation[c]
    BY <1>1 DEF ClaimEnded, Open, Ended
  <1>5. (pickBy' = NoDate) <=> (\A c \in Open' : ~claim'[c].quoted)
    BY <1>1, <1>3, <1>4 DEF ClaimEnded, PickBy, PickByCoversQuotes
  <1>6. ASSUME NEW c \in Open', quotation'[c].status = "SENT" PROVE quotation'[c].left <= pickBy'
    <2>1. c \in Open \ {l} /\ quotation[c].status = "SENT" /\ claim[c].quoted
      BY <1>4, <1>6 DEF Agreement, QuoteInStep, Open
    <2> QED
      BY <1>1, <1>3, <1>4, <2>1 DEF ClaimEnded, PickBy, PickByCoversQuotes
  <1> QED
    BY <1>1, <1>2, <1>5, <1>6 DEF PickBy, Untouched, PickByCoversQuotes

\* Nobody open is quoted, and no date is set: nothing is left to cover.
LEMMA NothingToCover ==
    ASSUME Agreement', ~creating', pickBy' = NoDate, \A c \in Open' : ~claim'[c].quoted
    PROVE  PickBy'
  BY DEF PickBy, Untouched, PickByCoversQuotes, Agreement, QuoteInStep, Open

(* Each operation moves the pick-by date and the quotes it covers together. *)
LEMMA StepPickBy == TypeOK /\ Agreement /\ PickBy /\ [Next]_vars => PickBy'
  <1> SUFFICES ASSUME TypeOK, Agreement, PickBy, [Next]_vars PROVE PickBy'
    OBVIOUS
  <1> USE DEF briefVars, callVars, claimVars, requestVars
  <1>0. Agreement'
    BY StepAgrees
  <1>1. ASSUME UNCHANGED <<creating, status, pickBy, claim, quotation>>, announced' => announced \/ ~creating
        PROVE PickBy'
    BY <1>1 DEF PickBy, Untouched, PickByCoversQuotes, Open
  <1>2. CASE Route
    <2>1. ~creating' /\ pickBy' = NoDate
      BY <1>2 DEF Route, PickBy, Untouched
    <2>2. \A c \in Open' : ~claim'[c].quoted
      BY <1>2 DEF Route, Agreement, NotYetRouted, Open
    <2> QED
      BY <1>0, <2>1, <2>2, NothingToCover
  <1>3. CASE Withdraw \/ Expire
    BY <1>3 DEF Withdraw, Expire, PickBy, Untouched, PickByCoversQuotes
  <1>4. CASE Close
    BY <1>4 DEF Close, PickBy, Untouched, PickByCoversQuotes
  <1>5. ASSUME NEW l \in Lawyers, Accept(l) \/ Engage(l) PROVE PickBy'
    BY <1>5 DEF Accept, Engage, PickBy, Untouched, PickByCoversQuotes
  <1>6. ASSUME NEW l \in Lawyers, Decline(l) \/ Release(l) \/ WithdrawQuotation(l) \/ Lapse(l) \/ ExpireSent(l)
        PROVE  PickBy'
    BY <1>6, EndClaimPickBy
       DEF Decline, Release, WithdrawQuotation, Lapse, ExpireSent, Ended, ClosedQuote
  <1>7. ASSUME NEW l \in Lawyers, Claim(l) PROVE PickBy'
    <2>1. /\ UNCHANGED <<creating, status, announced, pickBy>>
          /\ Open' = Open \union {l} /\ ~claim'[l].quoted /\ quotation'[l].status = "NONE"
          /\ \A c \in Open : claim'[c] = claim[c] /\ quotation'[c] = quotation[c]
      BY <1>7 DEF TypeOK, Claim, Open, NoQuotation
    <2> QED
      BY <2>1 DEF PickBy, Untouched, PickByCoversQuotes
  <1>8. ASSUME NEW l \in Lawyers, NEW valid, SaveDraft(l, valid) PROVE PickBy'
    <2>1. /\ UNCHANGED <<creating, status, announced, pickBy, claim>> /\ quotation'[l].status = "DRAFT"
          /\ \A c \in Lawyers \ {l} : quotation'[c] = quotation[c]
      BY <1>8 DEF TypeOK, SaveDraft
    <2> QED
      BY <2>1 DEF PickBy, Untouched, PickByCoversQuotes, Open
  <1>9. ASSUME NEW l \in Lawyers, NEW valid \in Nat, status = "ROUTED", SendTx(l, valid) PROVE PickBy'
    <2>1. /\ UNCHANGED <<creating, status, announced>> /\ Open' = Open /\ l \in Open
          /\ claim'[l].quoted = TRUE /\ quotation'[l].left = valid
          /\ \A c \in Open \ {l} : claim'[c] = claim[c] /\ quotation'[c] = quotation[c]
      BY <1>9 DEF TypeOK, SendTx, Open, Claims
    <2>2. ~creating
      BY <1>9 DEF Agreement, NotYetRouted
    <2>3. /\ pickBy' \in Nat /\ valid <= pickBy' /\ pickBy <= pickBy'
      BY <1>9 DEF TypeOK, SendTx, PickByAfter, NoDate
    <2>4. \A c \in Open \ {l} : quotation'[c].status = "SENT" => quotation'[c].left <= pickBy'
      BY <1>9, <2>1, <2>3 DEF TypeOK, PickBy, PickByCoversQuotes, Quotations, NoDate, Open
    <2> QED
      BY <1>9, <2>1, <2>2, <2>3, <2>4 DEF PickBy, Untouched, PickByCoversQuotes, NoDate
  <1>10. ASSUME NEW l \in Lawyers, Send(l) PROVE PickBy'
    BY <1>9, <1>10 DEF TypeOK, Send, Quotations
  <1>11. ASSUME NEW l \in Lawyers, NEW valid \in 1..MaxValidity, SaveAndSend(l, valid) PROVE PickBy'
    BY <1>9, <1>11, WindowsAssumption DEF SaveAndSend, MayDraft
  <1>12. ASSUME NEW l \in Lawyers, ExpireAccepted(l) PROVE PickBy'
    <2>1. ~creating' /\ pickBy' = NoDate
      BY <1>12 DEF ExpireAccepted, Agreement, NotYetRouted
    <2>2. \A c \in Lawyers : ~claim'[c].quoted
      <3>1. Picked("ACCEPTED", "OPEN") /\ quotation[l].status = "ACCEPTED" /\ claim[l].outcome = "OPEN"
        BY <1>12 DEF ExpireAccepted, Agreement, OneLawyerOncePicked, QuoteInStep
      <3>2. \A c \in Lawyers \ {l} : claim[c].outcome # "OPEN"
        BY <3>1 DEF Picked
      <3>3. \A c \in Lawyers \ {l} : ~claim[c].quoted
        BY <3>2 DEF Agreement, QuotedIsOpen
      <3> QED
        BY <1>12, <3>1, <3>3 DEF TypeOK, ExpireAccepted, EndClaims, Open
    <2> QED
      BY <1>0, <2>1, <2>2, NothingToCover DEF Open
  <1>13. CASE OpenToAll /\ creating' = creating
    <2>1. ~creating' /\ pickBy' = NoDate /\ Open' = {}
      BY <1>13 DEF OpenToAll, Agreement, NotYetRouted, Open
    <2> QED
      BY <1>0, <2>1, NothingToCover
  <1>14. CASE OpenDirect
    BY <1>13, <1>14 DEF OpenDirect
  <1>15. ASSUME NEW l \in Lawyers, PassBegins(l) \/ PassExcludes(l) \/ PassOpens(l) PROVE PickBy'
    BY <1>1, <1>13, <1>15 DEF PassBegins, PassExcludes, PassOpens
  <1>16. CASE AnnounceInBackground \/ SweepAnnounces
    <2>1. ~creating
      BY <1>16 DEF AnnounceInBackground, SweepAnnounces, ClaimAnnouncement, Agreement, NotYetRouted
    <2> QED
      BY <1>1, <1>16, <2>1 DEF AnnounceInBackground, SweepAnnounces, ClaimAnnouncement
  <1>17. CASE SaveBrief \/ SweepStep \/ SweepStepFails
    BY <1>1, <1>17 DEF SaveBrief, SweepStep, SweepStepFails
  <1>18. CASE Tick
    <2>1. /\ UNCHANGED <<creating, status, announced>>
          /\ \A c \in Lawyers : /\ claim'[c].outcome = claim[c].outcome
                               /\ claim'[c].quoted = claim[c].quoted
                               /\ quotation'[c].status = quotation[c].status
                               /\ quotation'[c].left = Earlier(quotation[c].left)
                               /\ quotation[c].left \in Nat
          /\ pickBy' = Earlier(pickBy)
      BY <1>18 DEF TypeOK, Tick, Claims, Quotations
    <2>2. Open' = Open
      BY <2>1 DEF Open
    <2>3. (pickBy' = NoDate <=> pickBy = NoDate)
          /\ \A left \in Nat : left <= pickBy => Earlier(left) <= pickBy'
      BY <2>1 DEF TypeOK, Earlier, NoDate
    <2> QED
      BY <2>1, <2>2, <2>3 DEF PickBy, Untouched, PickByCoversQuotes, Open
  <1>19. CASE UNCHANGED vars
    BY <1>1, <1>19 DEF vars
  <1> QED
    BY <1>2, <1>3, <1>4, <1>5, <1>6, <1>7, <1>8, <1>10, <1>11, <1>12, <1>14, <1>15, <1>16, <1>17,
       <1>18, <1>19 DEF Next, ClientActs, LawyerActs, SweepActs, SweepEndsOne

(* A new request has no quote and no date. *)
LEMMA InitPickBy == Init => PickBy
  BY DEF Init, PickBy, Untouched, PickByCoversQuotes

(* The pick-by date is kept by sendTx, endClaim, openToAll and expireAccepted. *)
THEOREM PickByHolds == Spec => []PickBy
  BY InitTyped, StepTyped, InitAgrees, StepAgrees, InitPickBy, StepPickBy, PTL DEF Spec

(* A routed request has a pick-by date exactly while a quote waits for the   *)
(* client, and never one before a quote that is still good.                  *)
THEOREM QuotesAreCovered == Spec => []PickByCoversQuotes
  BY PickByHolds, PTL DEF PickBy

-----------------------------------------------------------------------------
(* What a step may never do.                                                *)

\* How the status moves; only Expire makes it EXPIRED.
StatusMoves ==
    \/ status' = status
    \/ creating /\ status' = "ROUTED"
    \/ status \in {"REQUESTED", "ROUTED"} /\ status' = "WITHDRAWN"
    \/ status = "ROUTED" /\ status' = "CONFIRMED"
    \/ status = "CONFIRMED" /\ status' \in {"ENGAGED", "ROUTED"}
    \/ status = "ENGAGED" /\ status' = "CLOSED"
    \/ Expire

(* The status only moves the ways the conditional updates allow. *)
LEMMA StepStatus == [Next]_vars => StatusMoves
  BY DEF vars, requestVars, briefVars, claimVars, callVars, Next, ClientActs, LawyerActs, SweepActs,
         SweepEndsOne, Route, SaveBrief, AnnounceInBackground, ClaimAnnouncement, Withdraw, Close,
         Decline, Accept, Engage, Claim, SaveDraft, SaveAndSend, Send, SendTx, Release,
         WithdrawQuotation, PassBegins, PassExcludes, PassOpens, OpenToAll, BackInThePool, Lapse,
         ExpireSent, ExpireAccepted, OpenDirect, SweepAnnounces, SweepStep, SweepStepFails, Tick,
         EndClaim, AfterClaimEnded, Exclude, StatusMoves

(* Once create() has returned, a request that is over stays over.            *)
THEOREM OverIsOver == Spec => ClosedIsFinal
  <1>1. [Next]_vars => [(status \in Closed) /\ ~creating => UNCHANGED status]_vars
    BY StepStatus DEF StatusMoves, Closed, Expire, RunOut
  <1> QED
    BY <1>1, PTL DEF Spec, ClosedIsFinal

(* A request never expires under a quote the client could still accept.      *)
THEOREM GoodQuotesLive == Spec => GoodQuoteNotExpired
  <1>1. TypeOK /\ PickBy /\ [Next]_vars =>
          [(status' = "EXPIRED" /\ status # "EXPIRED") =>
             \A l \in Open : quotation[l].status = "SENT" => quotation[l].left = 0]_vars
    <2> SUFFICES ASSUME TypeOK, PickBy, [Next]_vars, status' = "EXPIRED", status # "EXPIRED",
                        NEW l \in Open, quotation[l].status = "SENT"
                 PROVE  quotation[l].left = 0
      OBVIOUS
    <2>1. RunOut
      BY StepStatus DEF StatusMoves, Expire
    <2>2. status = "ROUTED" /\ pickBy = 0
      BY <2>1 DEF RunOut
    <2>3. quotation[l].left <= 0
      BY <2>2 DEF PickBy, PickByCoversQuotes
    <2> QED
      BY <2>3 DEF TypeOK, Quotations, Open
  <1> QED
    BY <1>1, TypeCorrect, PickByHolds, PTL DEF Spec, GoodQuoteNotExpired

\* Where a new window comes from.
LEMMA StepWindow ==
    ASSUME TypeOK, [Next]_vars, routing' > routing
    PROVE  \/ Route \/ OpenToAll
           \/ \E l \in Lawyers : \/ ExpireAccepted(l)
                               \/ \E how \in Ended : \E quote : EndClaim(l, how, quote)
  <1>0. routing' # routing
    BY DEF TypeOK
  <1>1. CASE \E l \in Lawyers : Decline(l) \/ Release(l) \/ WithdrawQuotation(l) \/ Lapse(l) \/ ExpireSent(l)
    BY <1>1 DEF Decline, Release, WithdrawQuotation, Lapse, ExpireSent, Ended
  <1>2. CASE Route \/ OpenDirect \/ \E l \in Lawyers : ExpireAccepted(l) \/ PassOpens(l)
    BY <1>0, <1>2 DEF OpenDirect, PassOpens, requestVars
  <1>3. CASE Tick
    BY <1>3, EarlierTyped DEF Tick, TypeOK, Earlier
  <1>4. CASE SaveBrief \/ AnnounceInBackground \/ Withdraw \/ Close \/ Expire \/ SweepAnnounces
             \/ SweepStep \/ SweepStepFails
    BY <1>0, <1>4 DEF SaveBrief, AnnounceInBackground, ClaimAnnouncement, Withdraw, Close, Expire,
       SweepAnnounces, SweepStep, SweepStepFails, requestVars
  <1>5. CASE \E l \in Lawyers : \/ Accept(l) \/ Engage(l) \/ Claim(l) \/ Send(l)
                              \/ PassBegins(l) \/ PassExcludes(l)
                              \/ \E valid \in 1..MaxValidity : SaveDraft(l, valid) \/ SaveAndSend(l, valid)
    BY <1>0, <1>5 DEF Accept, Engage, Claim, Send, SendTx, PassBegins, PassExcludes, SaveDraft,
       SaveAndSend, requestVars
  <1>6. CASE UNCHANGED vars
    BY <1>0, <1>6 DEF vars, requestVars
  <1> QED
    BY <1>1, <1>2, <1>3, <1>4, <1>5, <1>6
       DEF Next, ClientActs, LawyerActs, SweepActs, SweepEndsOne

(* Every way back into the pool is to be announced, with nobody on it.       *)
THEOREM BackMeansAnnounced == Spec => PoolIsAnnouncedAgain
  <1>1. TypeOK /\ Agreement /\ PickBy /\ [Next]_vars =>
          [routing' > routing => ~announced' /\ (\A l \in Lawyers : claim'[l].outcome # "OPEN")]_vars
    <2> SUFFICES ASSUME TypeOK, Agreement, PickBy, [Next]_vars, routing' > routing
                 PROVE  ~announced' /\ (\A l \in Lawyers : claim'[l].outcome # "OPEN")
      OBVIOUS
    <2>1. CASE Route
      BY <2>1 DEF Route, briefVars, claimVars, Agreement, NotYetRouted, PickBy, Untouched
    <2>2. CASE OpenToAll
      BY <2>2 DEF OpenToAll, BackInThePool, claimVars, Open
    <2>3. ASSUME NEW l \in Lawyers, ExpireAccepted(l)
          PROVE  ~announced' /\ (\A c \in Lawyers : claim'[c].outcome # "OPEN")
      <3>1. Picked("ACCEPTED", "OPEN") /\ quotation[l].status = "ACCEPTED" /\ claim[l].outcome = "OPEN"
        BY <2>3 DEF ExpireAccepted, Agreement, OneLawyerOncePicked, QuoteInStep
      <3>2. \A c \in Lawyers \ {l} : claim[c].outcome # "OPEN"
        BY <3>1 DEF Picked
      <3> QED
        BY <2>3, <3>1, <3>2 DEF TypeOK, ExpireAccepted, BackInThePool, EndClaims, Open
    <2>4. ASSUME NEW l \in Lawyers, NEW how \in Ended, NEW quote, EndClaim(l, how, quote)
          PROVE  ~announced' /\ (\A c \in Lawyers : claim'[c].outcome # "OPEN")
      <3>1. ClaimEnded(l, how, quote)
        BY <2>4, EndClaimEffect
      <3>2. Open \ {l} = {} /\ ~announced'
        BY <2>4 DEF TypeOK, EndClaim, AfterClaimEnded, BackInThePool
      <3> QED
        BY <3>1, <3>2 DEF ClaimEnded, Open, Ended
    <2> QED
      BY StepWindow, <2>1, <2>2, <2>3, <2>4
  <1> QED
    BY <1>1, TypeCorrect, AgreementHolds, PickByHolds, PTL DEF Spec, PoolIsAnnouncedAgain

-----------------------------------------------------------------------------
(* Who loses a place.                                                       *)

\* When the sweep comes to the requests, the quotes that had run out are closed.
ExpiredQuotesSwept ==
    sweep \in {"direct", "expire"} =>
        \A l \in Lawyers : quotation[l].status = "SENT" => quotation[l].left > 0

\* A step in which a quote is SENT only if it was, with the time it had, or has time left.
SentFrame ==
    \A l \in Lawyers : quotation'[l].status = "SENT" =>
        \/ quotation[l].status = "SENT" /\ quotation'[l].left = quotation[l].left
        \/ quotation'[l].left > 0

LEMMA ClosedQuotesFrame ==
    ASSUME TypeOK, NEW S, NEW how, how # "SENT", quotation' = CloseOpenQuotations(S, how)
    PROVE  SentFrame
  BY DEF TypeOK, SentFrame, CloseOpenQuotations

LEMMA StepSent == ASSUME TypeOK, [Next]_vars, ~Tick PROVE SentFrame
  <1> USE DEF briefVars, callVars, claimVars, requestVars
  <1>1. ASSUME UNCHANGED quotation PROVE SentFrame
    BY <1>1 DEF SentFrame
  <1>2. ASSUME NEW l \in Lawyers, Decline(l) \/ Release(l) \/ WithdrawQuotation(l) \/ Lapse(l) \/ ExpireSent(l)
        PROVE  SentFrame
    BY <1>2, ClosedQuotesFrame DEF Decline, Release, WithdrawQuotation, Lapse, ExpireSent, EndClaim
  <1>3. CASE Withdraw \/ Expire
    BY <1>3, ClosedQuotesFrame DEF Withdraw, Expire
  <1>4. ASSUME NEW l \in Lawyers, NEW row \in Quotations, quotation' = [quotation EXCEPT ![l] = row],
               row.status = "SENT" => row.left > 0
        PROVE  SentFrame
    BY <1>4 DEF TypeOK, SentFrame
  <1>5. ASSUME NEW l \in Lawyers, Claim(l) \/ Engage(l) \/ ExpireAccepted(l) PROVE SentFrame
    BY <1>5 DEF TypeOK, Claim, Engage, ExpireAccepted, NoQuotation, SentFrame
  <1>6. ASSUME NEW l \in Lawyers, Accept(l) PROVE SentFrame
    BY <1>6 DEF TypeOK, Accept, CloseOpenQuotations, SentFrame
  <1>7. ASSUME NEW l \in Lawyers, NEW valid, SaveDraft(l, valid) \/ SaveAndSend(l, valid) \/ Send(l) PROVE SentFrame
    BY <1>7 DEF TypeOK, SaveDraft, SaveAndSend, Send, SendTx, SentFrame
  <1>8. CASE \/ Route \/ SaveBrief \/ AnnounceInBackground \/ Close \/ OpenDirect \/ SweepAnnounces
             \/ SweepStep \/ SweepStepFails \/ UNCHANGED vars
             \/ \E l \in Lawyers : PassBegins(l) \/ PassExcludes(l) \/ PassOpens(l)
    BY <1>1, <1>8 DEF Route, SaveBrief, AnnounceInBackground, ClaimAnnouncement, Close, OpenDirect, OpenToAll,
       SweepAnnounces, SweepStep, SweepStepFails, PassBegins, PassExcludes, PassOpens, vars
  <1> QED
    BY <1>2, <1>3, <1>5, <1>6, <1>7, <1>8 DEF Next, ClientActs, LawyerActs, SweepActs, SweepEndsOne

LEMMA StepSweep ==
    ASSUME [Next]_vars
    PROVE  sweep' = sweep \/ SweepStep \/ SweepStepFails
  BY DEF vars, callVars, Next, ClientActs, LawyerActs, SweepActs, SweepEndsOne, Route, SaveBrief,
     AnnounceInBackground, Withdraw, Close, Decline, Accept, Engage, Claim, SaveDraft, SaveAndSend,
     Send, SendTx, Release, WithdrawQuotation, PassBegins, PassExcludes, PassOpens, Lapse, ExpireSent,
     ExpireAccepted, OpenDirect, Expire, SweepAnnounces, Tick

\* The sweep leaves `quotes` only with nothing due there, unless the step fails.
LEMMA StepSwept ==
    ASSUME ~StepsFail, TypeOK, Agreement, ExpiredQuotesSwept, [Next]_vars
    PROVE  ExpiredQuotesSwept'
  <1>1. CASE sweep = "quotes" /\ SweepStep
    <2>1. quotation' = quotation /\ ~Due
      BY <1>1 DEF SweepStep, claimVars
    <2>2. ~(status = "ROUTED" /\ \E l \in Open : Expired(l, "SENT"))
      BY <1>1, <2>1 DEF Due
    <2>3. ASSUME NEW l \in Lawyers, quotation[l].status = "SENT" PROVE quotation[l].left > 0
      <3>1. l \in Open
        BY <2>3 DEF Agreement, QuoteInStep, Open
      <3>2. status = "ROUTED"
        BY <2>3, <3>1 DEF TypeOK, Agreement, NothingLeftOpen, OneLawyerOncePicked, Picked, Statuses, Closed
      <3>3. quotation[l].left # 0 /\ quotation[l].left \in Nat
        BY <2>2, <2>3, <3>1, <3>2 DEF Expired, TypeOK, Quotations
      <3> QED
        BY <3>3
    <2> QED
      BY <2>1, <2>3 DEF ExpiredQuotesSwept
  <1>2. CASE sweep # "quotes" /\ SweepStep
    <2>1. quotation' = quotation /\ sweep' = After(sweep)
      BY <1>2 DEF SweepStep, claimVars
    <2>2. sweep' \in {"direct", "expire"} => sweep \in {"direct", "expire"}
      BY <1>2, <2>1 DEF After, TypeOK, SweepSteps
    <2> QED
      BY <2>1, <2>2 DEF ExpiredQuotesSwept
  <1>3. CASE Tick
    BY <1>3 DEF Tick, callVars, ExpiredQuotesSwept
  <1>4. CASE ~Tick /\ sweep' = sweep
    <2>1. SentFrame
      BY <1>4, StepSent
    <2> QED
      BY <1>4, <2>1 DEF SentFrame, ExpiredQuotesSwept
  <1> QED
    BY <1>1, <1>2, <1>3, <1>4, StepSweep DEF SweepStepFails, Tick, callVars

LEMMA SweptAlways == ~StepsFail => (Spec => []ExpiredQuotesSwept)
  <1> SUFFICES ASSUME ~StepsFail PROVE Spec => []ExpiredQuotesSwept
    OBVIOUS
  <1>1. Init => ExpiredQuotesSwept
    BY DEF Init, ExpiredQuotesSwept
  <1>2. (TypeOK /\ Agreement /\ ExpiredQuotesSwept /\ [Next]_vars => ExpiredQuotesSwept')
    BY StepSwept
  <1> QED
    BY <1>1, <1>2, TypeCorrect, AgreementHolds, PTL DEF Spec

\* Where a claim that lapses or is not chosen, with no pick, comes from.
LEMMA StepDrops ==
    ASSUME TypeOK, [Next]_vars, NEW l \in Lawyers, claim[l].outcome = "OPEN",
           claim'[l].outcome \in {"LAPSED", "NOT_CHOSEN"}, status' # "CONFIRMED"
    PROVE  Lapse(l) \/ ExpireSent(l) \/ ExpireAccepted(l) \/ Expire
  <1> DEFINE Goal == Lapse(l) \/ ExpireSent(l) \/ ExpireAccepted(l) \/ Expire
  <1> USE DEF briefVars, callVars, claimVars, requestVars
  <1>1. ASSUME claim'[l].outcome = claim[l].outcome PROVE Goal
    BY <1>1
  <1>2. ASSUME NEW c \in Lawyers, NEW how, NEW quote, EndClaim(c, how, quote)
        PROVE  c = l /\ claim'[l].outcome = how
    BY <1>2, EndClaimEffect DEF ClaimEnded
  <1>3. ASSUME NEW c \in Lawyers, Decline(c) \/ Release(c) \/ WithdrawQuotation(c) \/ Lapse(c) \/ ExpireSent(c)
        PROVE  Goal
    BY <1>2, <1>3 DEF Decline, Release, WithdrawQuotation, Lapse, ExpireSent
  <1>4. ASSUME NEW S, NEW how \in {"WITHDRAWN", "ENGAGED"}, claim' = EndClaims(S, how) PROVE FALSE
    BY <1>4 DEF TypeOK, EndClaims
  <1>5. ASSUME NEW c \in Lawyers, ExpireAccepted(c) PROVE Goal
    BY <1>5 DEF TypeOK, ExpireAccepted, EndClaims
  <1>6. ASSUME NEW c \in Lawyers, NEW valid, Claim(c) \/ SendTx(c, valid) PROVE Goal
    <2>1. CASE Claim(c)
      BY <2>1 DEF TypeOK, Claim
    <2>2. CASE SendTx(c, valid)
      <3>1. claim'[l].outcome = claim[l].outcome
        BY <2>2 DEF TypeOK, Claims, SendTx
      <3> QED
        BY <1>1, <3>1
    <2> QED
      BY <1>6, <2>1, <2>2
  <1>7. CASE Tick
    BY <1>7 DEF TypeOK, Claims, Tick
  <1>8. CASE \/ Route \/ SaveBrief \/ AnnounceInBackground \/ Close \/ OpenDirect \/ SweepAnnounces
             \/ SweepStep \/ SweepStepFails \/ UNCHANGED vars
             \/ \E c \in Lawyers : \/ PassBegins(c) \/ PassExcludes(c) \/ PassOpens(c)
                                  \/ \E valid \in 1..MaxValidity : SaveDraft(c, valid)
    BY <1>1, <1>8 DEF Route, SaveBrief, AnnounceInBackground, ClaimAnnouncement, Close, OpenDirect, OpenToAll,
       SweepAnnounces, SweepStep, SweepStepFails, PassBegins, PassExcludes, PassOpens, SaveDraft, vars
  <1>9. CASE Withdraw \/ \E c \in Lawyers : Accept(c) \/ Engage(c)
    BY <1>4, <1>9 DEF Withdraw, Accept, Engage
  <1>10. ASSUME NEW c \in Lawyers, Send(c) \/ \E valid \in 1..MaxValidity : SaveAndSend(c, valid) PROVE Goal
    BY <1>6, <1>10 DEF Send, SaveAndSend
  <1> QED
    BY <1>3, <1>5, <1>6, <1>7, <1>8, <1>9, <1>10 DEF Next, ClientActs, LawyerActs, SweepActs, SweepEndsOne

(* While the sweep's steps do not fail, a lawyer loses a place they still     *)
(* have time for only by their own doing or the client's: a request expires   *)
(* with nobody on it.                                                         *)
THEOREM HoldersKeepTheirPlace == ~StepsFail => (Spec => HolderNotDropped)
  <1> SUFFICES ASSUME ~StepsFail PROVE Spec => HolderNotDropped
    OBVIOUS
  <1>1. TypeOK /\ Agreement /\ PickBy /\ ExpiredQuotesSwept /\ [Next]_vars =>
          [\A l \in Lawyers :
             /\ claim[l].outcome = "OPEN" /\ claim'[l].outcome \in {"LAPSED", "NOT_CHOSEN"}
             /\ status' # "CONFIRMED"
             => IF claim[l].quoted THEN quotation[l].left = 0 ELSE claim[l].hold = 0]_vars
    <2> SUFFICES ASSUME TypeOK, Agreement, PickBy, ExpiredQuotesSwept, [Next]_vars, NEW l \in Lawyers,
                        claim[l].outcome = "OPEN", claim'[l].outcome \in {"LAPSED", "NOT_CHOSEN"},
                        status' # "CONFIRMED"
                 PROVE  IF claim[l].quoted THEN quotation[l].left = 0 ELSE claim[l].hold = 0
      OBVIOUS
    <2>1. CASE Lapse(l)
      BY <2>1 DEF Lapse
    <2>2. CASE ExpireSent(l) \/ ExpireAccepted(l)
      BY <2>2 DEF ExpireSent, ExpireAccepted, Agreement, QuoteInStep
    <2>3. CASE Expire
      <3>1. status = "ROUTED" /\ sweep = "expire" /\ l \in Open /\ pickBy = 0
        BY <2>3 DEF Expire, RunOut, Open
      <3>2. PICK c \in Open : claim[c].quoted
        BY <3>1 DEF PickBy, PickByCoversQuotes, NoDate
      <3>3. quotation[c].status = "SENT"
        BY <3>1, <3>2 DEF Agreement, QuoteInStep, NothingLeftOpen, Open
      <3>4. quotation[c].left > 0 /\ quotation[c].left <= 0 /\ quotation[c].left \in Nat
        BY <3>1, <3>2, <3>3 DEF ExpiredQuotesSwept, PickBy, PickByCoversQuotes, TypeOK, Quotations, Open
      <3> QED
        BY <3>4
    <2> QED
      BY <2>1, <2>2, <2>3, StepDrops
  <1> QED
    BY <1>1, TypeCorrect, AgreementHolds, PickByHolds, SweptAlways, PTL DEF Spec, HolderNotDropped

-----------------------------------------------------------------------------
(* The request keeps the market's promise.                                  *)

Chosen == {l \in Lawyers : quotation[l].status \in {"ACCEPTED", "PAID"}}
Gone   == excluded \ Open

(* Nobody is chosen but by the pick, and then one lawyer is. *)
LEMMA ChosenByStatus ==
    ASSUME TypeOK, Agreement
    PROVE  IF status \in {"CONFIRMED", "ENGAGED", "CLOSED"} THEN \E l \in Lawyers : Chosen = {l}
           ELSE Chosen = {}
  BY DEF TypeOK, Agreement, NothingLeftOpen, OneLawyerOncePicked, Picked, Chosen, Statuses, Closed

(* Whoever has left does not come back. *)
LEMMA GoneStayGone == ASSUME TypeOK, [Next]_vars PROVE Gone \subseteq Gone'
  BY StepFrame DEF Frame, Gone, Open, Claim

(* Once picked, only the expiry of the accepted quotation takes the pick back. *)
LEMMA ChosenStays ==
    ASSUME TypeOK, [Next]_vars, status \in {"CONFIRMED", "ENGAGED", "CLOSED"},
           NEW l \in Lawyers, quotation[l].status \in {"ACCEPTED", "PAID"}
    PROVE  quotation'[l].status \in {"ACCEPTED", "PAID"} \/ ExpireAccepted(l)
  <1> DEFINE Stays == quotation'[l].status \in {"ACCEPTED", "PAID"} \/ ExpireAccepted(l)
  <1> SUFFICES Stays
    OBVIOUS
  <1> USE DEF claimVars
  <1>1. CASE Route \/ SaveBrief \/ AnnounceInBackground \/ Withdraw \/ Close
    BY <1>1 DEF Route, SaveBrief, AnnounceInBackground, ClaimAnnouncement, Withdraw, Close
  <1>2. CASE \E c \in Lawyers : Decline(c) \/ Release(c) \/ WithdrawQuotation(c) \/ Lapse(c) \/ ExpireSent(c)
    BY <1>2 DEF Decline, Release, WithdrawQuotation, Lapse, ExpireSent, EndClaim
  <1>3. CASE \E c \in Lawyers : Accept(c) \/ Claim(c) \/ Send(c)
                              \/ \E valid \in 1..MaxValidity : SaveDraft(c, valid) \/ SaveAndSend(c, valid)
    BY <1>3 DEF Accept, Claim, Send, SaveDraft, SaveAndSend, MayDraft
  <1>4. ASSUME NEW c \in Lawyers, Engage(c) PROVE Stays
    BY <1>4 DEF TypeOK, Engage
  <1>5. ASSUME NEW c \in Lawyers, ExpireAccepted(c) PROVE Stays
    BY <1>5 DEF TypeOK, ExpireAccepted
  <1>6. CASE \E c \in Lawyers : PassBegins(c) \/ PassExcludes(c) \/ PassOpens(c)
    BY <1>6 DEF PassBegins, PassExcludes, PassOpens, OpenToAll
  <1>7. CASE OpenDirect \/ Expire \/ SweepAnnounces \/ SweepStep \/ SweepStepFails
    BY <1>7 DEF OpenDirect, OpenToAll, Expire, RunOut, SweepAnnounces, ClaimAnnouncement, SweepStep,
       SweepStepFails
  <1>8. CASE Tick
    BY <1>8 DEF Tick, TypeOK, Quotations
  <1>9. CASE UNCHANGED vars
    BY <1>9 DEF vars
  <1> QED
    BY <1>1, <1>2, <1>3, <1>4, <1>5, <1>6, <1>7, <1>8, <1>9
       DEF Next, ClientActs, LawyerActs, SweepActs, SweepEndsOne

(* create() returns only by routing. *)
LEMMA StepCreating == [Next]_vars => creating' = creating \/ (creating /\ status' = "ROUTED")
  BY DEF vars, callVars, Next, ClientActs, LawyerActs, SweepActs, SweepEndsOne, Route, SaveBrief,
     AnnounceInBackground, Withdraw, Close, Decline, Accept, Engage, Claim, SaveDraft, SaveAndSend,
     Send, SendTx, Release, WithdrawQuotation, PassBegins, PassExcludes, PassOpens, Lapse, ExpireSent,
     ExpireAccepted, OpenDirect, Expire, SweepAnnounces, SweepStep, SweepStepFails, Tick

(* Every step of the request is a step of the promise, or changes nothing it     *)
(* speaks of.                                                                    *)
LEMMA PromiseStep ==
    ASSUME TypeOK, TypeOK', Agreement, Agreement', [Next]_vars
    PROVE  [Promise!Next]_(Promise!vars)
  <1>1. Gone \subseteq Gone' /\ Gone' \subseteq Lawyers
    BY GoneStayGone DEF Gone, TypeOK
  <1>2. status \in Statuses /\ status' \in Statuses
    BY DEF TypeOK
  <1>3. CASE Stage' = Stage /\ Chosen' = Chosen
    BY <1>1, <1>3 DEF Promise!Next, Promise!Leave, Promise!OthersLeave, Chosen, Gone
  <1>4. CASE status' = status /\ creating' = creating
    <2>1. Stage' = Stage
      BY <1>4 DEF Stage
    <2>2. Chosen' = Chosen
      <3>1. CASE status \in {"CONFIRMED", "ENGAGED", "CLOSED"}
        <4>1. PICK l \in Lawyers : Chosen = {l}
          BY <3>1, ChosenByStatus
        <4>2. ~ExpireAccepted(l)
          BY <1>4 DEF ExpireAccepted
        <4>3. l \in Chosen'
          BY <3>1, <4>1, <4>2, ChosenStays DEF Chosen
        <4>4. \E c \in Lawyers : Chosen' = {c}
          BY <1>4, <3>1, ChosenByStatus DEF TypeOK, Agreement, NothingLeftOpen, OneLawyerOncePicked, Picked, Chosen
        <4> QED
          BY <4>1, <4>3, <4>4
      <3>2. CASE status \notin {"CONFIRMED", "ENGAGED", "CLOSED"}
        BY <1>2, <1>4, <3>2 DEF Agreement, NothingLeftOpen, Chosen, Statuses, Closed
      <3> QED
        BY <3>1, <3>2
    <2> QED
      BY <1>3, <2>1, <2>2
  <1>5. CASE creating /\ status' = "ROUTED"
    <2>1. Stage = "open" /\ Stage' = "open"
      BY <1>5 DEF Agreement, NotYetRouted, Stage, Closed
    <2>2. Chosen = {} /\ Chosen' = {}
      BY <1>5 DEF Agreement, NotYetRouted, NothingLeftOpen, Chosen
    <2> QED
      BY <1>3, <2>1, <2>2
  <1>6. CASE status \in {"REQUESTED", "ROUTED"} /\ status' \in {"WITHDRAWN", "EXPIRED"}
    <2>1. Stage = "open" /\ Stage' \in {"open", "over"}
      BY <1>6 DEF Stage, Closed
    <2>2. Chosen = {} /\ Chosen' = {}
      BY <1>6 DEF Agreement, NothingLeftOpen, Chosen
    <2> QED
      BY <1>1, <1>3, <2>1, <2>2 DEF Promise!Next, Promise!End, Promise!OthersLeave, Chosen, Gone
  <1>7. CASE status = "ROUTED" /\ status' = "CONFIRMED"
    <2>1. Stage = "open" /\ Stage' = "picked"
      BY <1>7 DEF Agreement, NotYetRouted, Stage, Closed
    <2>2. PICK l \in Lawyers : claim'[l].outcome = "OPEN" /\ Chosen' = {l}
      BY <1>7 DEF Agreement, OneLawyerOncePicked, Picked, Chosen
    <2>3. claim[l].outcome = "OPEN"
      BY <1>7, <2>2, StepFrame DEF Frame, Claim, requestVars
    <2>4. l \notin Gone
      BY <2>3 DEF Gone, Open
    <2> QED
      BY <1>1, <2>1, <2>2, <2>4 DEF Promise!Next, Promise!Pick, Promise!OthersLeave, Chosen, Gone
  <1>8. CASE status = "CONFIRMED" /\ status' = "ENGAGED"
    <2>1. Stage = "picked" /\ Stage' = "engaged"
      BY <1>8 DEF Stage
    <2>2. PICK l \in Lawyers : Chosen = {l}
      BY <1>8, ChosenByStatus
    <2>3. l \in Chosen'
      BY <1>8, <2>2, ChosenStays DEF Chosen, ExpireAccepted
    <2>4. \E c \in Lawyers : Chosen' = {c}
      BY <1>8 DEF Agreement, OneLawyerOncePicked, Picked, Chosen
    <2>5. Chosen' = Chosen
      BY <2>2, <2>3, <2>4
    <2> QED
      BY <1>1, <2>1, <2>5 DEF Promise!Next, Promise!Engage, Promise!OthersLeave, Chosen, Gone
  <1>9. CASE status = "CONFIRMED" /\ status' = "ROUTED"
    <2>1. Stage = "picked" /\ Stage' = "open"
      BY <1>9 DEF Stage, Closed
    <2>2. PICK l \in Lawyers : Chosen = {l}
      BY <1>9, ChosenByStatus
    <2>3. Chosen' = {}
      BY <1>9 DEF Agreement, NothingLeftOpen, Chosen
    <2>4. ExpireAccepted(l)
      BY <1>9, <2>2, <2>3, ChosenStays DEF Chosen
    <2>5. l \in excluded' /\ claim'[l].outcome # "OPEN"
      BY <2>4 DEF TypeOK, ExpireAccepted, Exclude, EndClaims, Open
    <2>6. Chosen \subseteq Gone'
      BY <2>2, <2>5 DEF Gone, Open
    <2> QED
      BY <1>1, <2>1, <2>3, <2>6 DEF Promise!Next, Promise!LetGo, Promise!OthersLeave, Chosen, Gone
  <1>10. CASE status = "ENGAGED" /\ status' = "CLOSED"
    <2>1. Stage = "engaged" /\ Stage' = "over"
      BY <1>10 DEF Agreement, NotYetRouted, Stage, Closed
    <2>2. PICK l \in Lawyers : Chosen = {l}
      BY <1>10, ChosenByStatus
    <2>3. l \in Chosen'
      BY <1>10, <2>2, ChosenStays DEF Chosen, ExpireAccepted
    <2>4. \E c \in Lawyers : Chosen' = {c}
      BY <1>10 DEF Agreement, OneLawyerOncePicked, Picked, Chosen
    <2>5. Chosen' = Chosen
      BY <2>2, <2>3, <2>4
    <2> QED
      BY <1>1, <2>1, <2>5 DEF Promise!Next, Promise!End, Promise!OthersLeave, Chosen, Gone
  <1> QED
    BY <1>4, <1>5, <1>6, <1>7, <1>8, <1>9, <1>10, StepStatus, StepCreating DEF StatusMoves, Expire, RunOut

(* For any number of lawyers, windows and failing sweep steps: one lawyer at a   *)
(* time is picked, only that one is engaged, and one let go of is not picked     *)
(* again.                                                                        *)
THEOREM RequestKeepsThePromise == Spec => KeepsPromise
  <1>1. Init => Promise!Init
    BY DEF Init, Promise!Init, Stage, Closed, NoQuotation, Open
  <1>2. TypeOK /\ TypeOK' /\ Agreement /\ Agreement' /\ [Next]_vars => [Promise!Next]_(Promise!vars)
    BY PromiseStep
  <1> QED
    BY <1>1, <1>2, TypeCorrect, AgreementHolds, PTL DEF Spec, KeepsPromise, Promise!Spec
=============================================================================
