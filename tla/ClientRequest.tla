--------------------------- MODULE ClientRequest ---------------------------
(***************************************************************************)
(* One request of the client-to-lawyer marketplace: the row ClientRequest, *)
(* the claims the lawyers hold on it (ClientRequestClaim), the quotation   *)
(* each of them drafts and sends (Quotation), and the minute sweep that    *)
(* moves all three on when a deadline passes.                              *)
(*                                                                         *)
(* Every repository method that changes the request together with a claim  *)
(* or a quotation is one database transaction that takes the request row   *)
(* first, so each is one action here.  What the services do in several     *)
(* transactions (create then route, exclude then open to all, one sweep    *)
(* step after the other) is several actions, and anything may come between.*)
(*                                                                         *)
(* A deadline is kept as the time left until it: 0 is "passed".  A lawyer  *)
(* has one claim at a time; a later claim of the same lawyer replaces the  *)
(* record of the ended one, and what nothing reads of an ended claim or a  *)
(* closed quotation (its deadline, quotedAt) is forgotten.                 *)
(***************************************************************************)
EXTENDS Integers, FiniteSets

CONSTANTS
    Lawyers,         \* the lawyers who match the request
    NoLawyer,        \* the client named nobody
    MaxLawyers,      \* CLIENT_REQUEST_MAX_LAWYERS
    RoutingWindow,   \* ROUTING_WINDOW_MS, 48h
    DirectWindow,    \* CLIENT_REQUEST_DIRECT_WINDOW_MS, 24h
    HoldWindow,      \* CLAIM_HOLD_MS, 24h
    MaxValidity,     \* the longest a quotation may be valid
    StepsFail        \* may a sweep step fail and leave its work for later?

ASSUME LawyersAssumption ==
    /\ IsFiniteSet(Lawyers)
    /\ NoLawyer \notin Lawyers

ASSUME WindowsAssumption ==
    /\ MaxLawyers \in Nat \ {0}
    /\ RoutingWindow \in Nat \ {0}
    /\ DirectWindow \in Nat \ {0}
    /\ HoldWindow \in Nat \ {0}
    /\ MaxValidity \in Nat \ {0}
    /\ StepsFail \in BOOLEAN

VARIABLES
    creating,         \* create() has inserted the row and not yet routed it
    status,           \* ClientRequest.status
    requestedLawyer,  \* the lawyer the client named, or NoLawyer
    requestedOnly,    \* still limited to that lawyer
    excluded,         \* excludedLawyerIds
    routing,          \* time left until routingExpiresAt
    pickBy,           \* time left until pickByAt, or NoDate
    brief,            \* the anonymised brief has been written
    announced,        \* announcedAt is set
    claim,            \* per lawyer: their latest claim (outcome, hold, quoted)
    quotation,        \* per lawyer: the quotation on it (status, left)
    passing,          \* per lawyer: how far their pass() call has got
    sweep             \* the step the sweep is at

requestVars == <<status, requestedLawyer, requestedOnly, excluded, routing, pickBy>>
briefVars   == <<brief, announced>>
claimVars   == <<claim, quotation>>
callVars    == <<creating, passing, sweep>>
vars == <<requestVars, briefVars, claimVars, callVars>>

NoDate == -1

Closed   == {"CLOSED", "EXPIRED", "WITHDRAWN"}
Statuses == {"REQUESTED", "ROUTED", "CONFIRMED", "ENGAGED"} \union Closed

\* An ended claim, by how it ended; "NONE" is no claim yet, "OPEN" outcome null.
Ended    == {"RELEASED", "LAPSED", "DECLINED", "WITHDRAWN", "NOT_CHOSEN"}
Outcomes == {"NONE", "OPEN", "ENGAGED"} \union Ended

OpenQuotation == {"DRAFT", "SENT"}
QuoteStatuses == {"NONE", "ACCEPTED", "PAID", "REJECTED", "WITHDRAWN", "EXPIRED", "NOT_CHOSEN"}
                 \union OpenQuotation

\* hold: time left until expiresAt; quoted: quotedAt is set.
Claims     == [outcome : Outcomes, hold : Nat, quoted : BOOLEAN]
\* left: time left until the lawyer's expiry.
Quotations == [status : QuoteStatuses, left : Nat]

NoQuotation == [status |-> "NONE", left |-> 0]

SweepSteps == {"idle", "lapse", "quotes", "direct", "expire", "announce"}

TypeOK ==
    /\ creating \in BOOLEAN
    /\ status \in Statuses
    /\ requestedLawyer \in Lawyers \union {NoLawyer}
    /\ requestedOnly \in BOOLEAN
    /\ excluded \subseteq Lawyers
    /\ routing \in Nat
    /\ pickBy \in Nat \union {NoDate}
    /\ brief \in BOOLEAN
    /\ announced \in BOOLEAN
    /\ claim \in [Lawyers -> Claims]
    /\ quotation \in [Lawyers -> Quotations]
    /\ passing \in [Lawyers -> {"no", "exclude", "open"}]
    /\ sweep \in SweepSteps

-----------------------------------------------------------------------------
(* What several operations share.                                          *)

Open == {l \in Lawyers : claim[l].outcome = "OPEN"}

\* Every open claim of the lawyers in S ends with `how`.
EndClaims(S, how) ==
    [l \in Lawyers |-> IF l \in S \intersect Open
                         THEN [outcome |-> how, hold |-> 0, quoted |-> FALSE]
                         ELSE claim[l]]

\* (mutant) Bugs the code could have are defined before what they change: here
\* an accepted quotation outlives its claim.
CloseSentQuotations(S, how) ==
    [l \in Lawyers |-> IF l \in S /\ quotation[l].status = "SENT"
                         THEN [status |-> how, left |-> 0]
                         ELSE quotation[l]]

\* closeOpenQuotations over the quotations of the lawyers in S.
CloseOpenQuotations(S, how) ==
    [l \in Lawyers |-> IF l \in S /\ quotation[l].status \in OpenQuotation
                         THEN [status |-> how, left |-> 0]
                         ELSE quotation[l]]

\* A fresh window for every matching lawyer, to be announced again.
BackInThePool == routing' = RoutingWindow /\ announced' = FALSE

ExcludeNobody(l) == excluded' = excluded

\* The lawyer is not offered the request again.
Exclude(l) == excluded' = excluded \union {l}

AfterClaimEnded(l) ==
    /\ Exclude(l)
    /\ IF Open \ {l} = {}
          THEN BackInThePool /\ requestedOnly' = FALSE
          ELSE UNCHANGED <<routing, announced, requestedOnly>>
    /\ pickBy' = IF \A c \in Open \ {l} : ~claim[c].quoted THEN NoDate ELSE pickBy

EndClaim(l, how, quote) ==
    /\ status = "ROUTED"
    /\ l \in Open
    /\ claim' = EndClaims({l}, how)
    /\ quotation' = CloseOpenQuotations({l}, quote)
    /\ AfterClaimEnded(l)
    /\ UNCHANGED <<status, requestedLawyer, brief>>

-----------------------------------------------------------------------------
(* The client asks for a lawyer, and takes the request back.               *)

Init ==
    /\ creating = TRUE
    /\ status = "REQUESTED"
    /\ requestedLawyer \in Lawyers \union {NoLawyer}
    /\ requestedOnly = (requestedLawyer # NoLawyer)
    /\ excluded = {}
    /\ routing = 0
    /\ pickBy = NoDate
    /\ brief = FALSE
    /\ announced = FALSE
    /\ claim = [l \in Lawyers |-> [outcome |-> "NONE", hold |-> 0, quoted |-> FALSE]]
    /\ quotation = [l \in Lawyers |-> NoQuotation]
    /\ passing = [l \in Lawyers |-> "no"]
    /\ sweep = "idle"

\* The second half of create(): an update by id, whatever the status is now.
Route ==
    /\ creating
    /\ creating' = FALSE
    /\ status' = "ROUTED"
    /\ routing' = IF requestedLawyer # NoLawyer THEN DirectWindow ELSE RoutingWindow
    /\ UNCHANGED <<requestedLawyer, requestedOnly, excluded, pickBy, briefVars,
                   claimVars, passing, sweep>>

Withdraw ==
    /\ status \in {"REQUESTED", "ROUTED"}
    /\ status' = "WITHDRAWN"
    /\ claim' = EndClaims(Lawyers, "WITHDRAWN")
    /\ quotation' = CloseOpenQuotations(Lawyers, "WITHDRAWN")
    /\ UNCHANGED <<requestedLawyer, requestedOnly, excluded, routing, pickBy, briefVars,
                   callVars>>

\* The AI answers; a rewrite of a brief changes nothing that is modelled.
SaveBrief ==
    /\ ~brief
    /\ brief' = TRUE
    /\ UNCHANGED <<requestVars, announced, claimVars, callVars>>

\* One caller takes the right to announce, and only then tells the lawyers.
ClaimAnnouncement ==
    /\ status = "ROUTED"
    /\ ~announced
    /\ brief
    /\ announced' = TRUE
    /\ UNCHANGED <<requestVars, brief, claimVars>>

AnnounceInBackground == ClaimAnnouncement /\ UNCHANGED callVars

-----------------------------------------------------------------------------
(* The lawyers.                                                            *)

\* A lawyer who has held the request, or one it is offered to: while limited
\* to the named lawyer, only them.
IsFor(l) ==
    \/ claim[l].outcome # "NONE"
    \/ l \notin excluded /\ (requestedOnly => l = requestedLawyer)

PlaceFreeOneMore == Cardinality(Open) <= MaxLawyers

PlaceFree == Cardinality(Open) < MaxLawyers

\* The service's isFor() reads the row before the transaction, and stays true:
\* requestedOnly is never set again, and the transaction re-checks `excluded`.
Claim(l) ==
    /\ IsFor(l)
    /\ status = "ROUTED"
    /\ routing > 0
    /\ l \notin excluded
    /\ l \notin Open
    /\ PlaceFree
    /\ claim' = [claim EXCEPT ![l] = [outcome |-> "OPEN", hold |-> HoldWindow, quoted |-> FALSE]]
    /\ quotation' = [quotation EXCEPT ![l] = NoQuotation]
    /\ UNCHANGED <<requestVars, briefVars, callVars>>

\* A draft may be saved while the claim is open, inside its hold, nothing sent.
MayDraft(l) ==
    /\ status = "ROUTED"
    /\ l \in Open
    /\ claim[l].hold > 0
    /\ quotation[l].status \in {"NONE", "DRAFT"}

SaveDraft(l, valid) ==
    /\ MayDraft(l)
    /\ quotation' = [quotation EXCEPT ![l] = [status |-> "DRAFT", left |-> valid]]
    /\ UNCHANGED <<requestVars, briefVars, claim, callVars>>

PickByThisQuote(valid)  == valid
PickByFirstQuote(valid) == IF pickBy = NoDate THEN valid ELSE pickBy

\* The pick-by date moves out to this quotation's expiry if that is later.
PickByAfter(valid) == IF pickBy = NoDate \/ pickBy < valid THEN valid ELSE pickBy

\* sendTx: the quotation is SENT and the claim is quoted.
SendTx(l, valid) ==
    /\ l \in Open
    /\ ~claim[l].quoted
    /\ claim[l].hold > 0
    /\ valid > 0
    /\ quotation' = [quotation EXCEPT ![l] = [status |-> "SENT", left |-> valid]]
    /\ claim' = [claim EXCEPT ![l].quoted = TRUE]
    /\ pickBy' = PickByAfter(valid)
    /\ UNCHANGED <<status, requestedLawyer, requestedOnly, excluded, routing, briefVars,
                   callVars>>

Send(l) ==
    /\ status = "ROUTED"
    /\ quotation[l].status = "DRAFT"
    /\ SendTx(l, quotation[l].left)

SaveAndSend(l, valid) == MayDraft(l) /\ SendTx(l, valid)

Release(l) == EndClaim(l, "RELEASED", "WITHDRAWN") /\ UNCHANGED callVars

WithdrawQuotation(l) ==
    /\ quotation[l].status = "SENT"
    /\ EndClaim(l, "RELEASED", "WITHDRAWN")
    /\ UNCHANGED callVars

\* pass(): reads the claims, then excludes the lawyer, then (named lawyer)
\* opens the request to everyone, each in a transaction of its own.  No lawyer
\* hears of a request before it is routed.
PassBegins(l) ==
    /\ passing[l] = "no"
    /\ ~creating
    /\ IsFor(l)
    /\ l \notin Open
    /\ passing' = [passing EXCEPT ![l] = "exclude"]
    /\ UNCHANGED <<requestVars, briefVars, claimVars, creating, sweep>>

PassExcludes(l) ==
    /\ passing[l] = "exclude"
    /\ Exclude(l)
    /\ passing' = [passing EXCEPT ![l] = IF l = requestedLawyer THEN "open" ELSE "no"]
    /\ UNCHANGED <<status, requestedLawyer, requestedOnly, routing, pickBy, briefVars,
                   claimVars, creating, sweep>>

\* directWhere: still limited to the named lawyer, and nobody is on it.
OpenToAll ==
    /\ status = "ROUTED"
    /\ requestedOnly
    /\ Open = {}
    /\ requestedOnly' = FALSE
    /\ BackInThePool
    /\ pickBy' = NoDate
    /\ UNCHANGED <<status, requestedLawyer, excluded, brief, claimVars>>

PassOpens(l) ==
    /\ passing[l] = "open"
    /\ \/ OpenToAll
       \/ /\ ~(status = "ROUTED" /\ requestedOnly /\ Open = {})
          /\ UNCHANGED <<requestVars, briefVars, claimVars>>
    /\ passing' = [passing EXCEPT ![l] = "no"]
    /\ UNCHANGED <<creating, sweep>>

-----------------------------------------------------------------------------
(* The client answers the quotes, pays, and either side closes.            *)

Decline(l) ==
    /\ claim[l].quoted
    /\ EndClaim(l, "DECLINED", "REJECTED")
    /\ UNCHANGED callVars

Accept(l) ==
    /\ status = "ROUTED"
    /\ quotation[l].status = "SENT"
    /\ quotation[l].left > 0
    /\ l \in Open
    /\ status' = "CONFIRMED"
    /\ claim' = EndClaims(Lawyers \ {l}, "NOT_CHOSEN")
    /\ quotation' = [CloseOpenQuotations(Lawyers \ {l}, "NOT_CHOSEN") EXCEPT ![l].status = "ACCEPTED"]
    /\ UNCHANGED <<requestedLawyer, requestedOnly, excluded, routing, pickBy, briefVars,
                   callVars>>

\* The money is in (settle), or there was none to pay (engageUnpaid).
Engage(l) ==
    /\ status = "CONFIRMED"
    /\ quotation[l].status = "ACCEPTED"
    /\ status' = "ENGAGED"
    /\ quotation' = [quotation EXCEPT ![l] = [status |-> "PAID", left |-> 0]]
    /\ claim' = EndClaims({l}, "ENGAGED")
    /\ UNCHANGED <<requestedLawyer, requestedOnly, excluded, routing, pickBy, briefVars,
                   callVars>>

Close ==
    /\ status = "ENGAGED"
    /\ status' = "CLOSED"
    /\ UNCHANGED <<requestedLawyer, requestedOnly, excluded, routing, pickBy, briefVars,
                   claimVars, callVars>>

-----------------------------------------------------------------------------
(* The sweep: one run is a fixed order of steps, each ending every item    *)
(* due in a transaction of its own.  A run reads the clock once, so time   *)
(* does not move while it runs; the lawyers and the client do.             *)

Lapse(l) ==
    /\ sweep = "lapse"
    /\ ~claim[l].quoted
    /\ claim[l].hold = 0
    /\ EndClaim(l, "LAPSED", "WITHDRAWN")
    /\ UNCHANGED callVars

ExpireSent(l) ==
    /\ sweep = "quotes"
    /\ quotation[l].status = "SENT"
    /\ quotation[l].left = 0
    /\ EndClaim(l, "NOT_CHOSEN", "EXPIRED")
    /\ UNCHANGED callVars

ExpireAccepted(l) ==
    /\ sweep = "quotes"
    /\ status = "CONFIRMED"
    /\ quotation[l].status = "ACCEPTED"
    /\ quotation[l].left = 0
    /\ status' = "ROUTED"
    /\ BackInThePool
    /\ pickBy' = NoDate
    /\ Exclude(l)
    /\ quotation' = [quotation EXCEPT ![l] = [status |-> "EXPIRED", left |-> 0]]
    /\ claim' = EndClaims({l}, "NOT_CHOSEN")
    /\ UNCHANGED <<requestedLawyer, requestedOnly, brief, callVars>>

OpenDirect ==
    /\ sweep = "direct"
    /\ routing = 0
    /\ OpenToAll
    /\ UNCHANGED callVars

RunOutAnyStatus   == ~requestedOnly /\ routing = 0 /\ Open = {}
RunOutUnderLawyers == status = "ROUTED" /\ ((~requestedOnly /\ routing = 0) \/ pickBy = 0)

\* expiredWhere
RunOut ==
    /\ status = "ROUTED"
    /\ \/ ~requestedOnly /\ routing = 0 /\ Open = {}
       \/ pickBy = 0

Expire ==
    /\ sweep = "expire"
    /\ RunOut
    /\ status' = "EXPIRED"
    /\ claim' = EndClaims(Lawyers, "NOT_CHOSEN")
    /\ quotation' = CloseOpenQuotations(Lawyers, "EXPIRED")
    /\ UNCHANGED <<requestedLawyer, requestedOnly, excluded, routing, pickBy, briefVars,
                   callVars>>

SweepAnnounces ==
    /\ sweep = "announce"
    /\ routing > 0
    /\ ClaimAnnouncement
    /\ UNCHANGED callVars

\* findExpired
Expired(l, as) == quotation[l].status = as /\ quotation[l].left = 0

\* What the step the sweep is at would still do.
Due ==
    CASE sweep = "lapse"    -> status = "ROUTED" /\ \E l \in Open : ~claim[l].quoted /\ claim[l].hold = 0
      [] sweep = "quotes"   -> \/ status = "ROUTED" /\ \E l \in Open : Expired(l, "SENT")
                               \/ status = "CONFIRMED" /\ \E l \in Open : Expired(l, "ACCEPTED")
      [] sweep = "direct"   -> status = "ROUTED" /\ requestedOnly /\ routing = 0 /\ Open = {}
      [] sweep = "expire"   -> RunOut
      [] sweep = "announce" -> status = "ROUTED" /\ ~announced /\ brief /\ routing > 0
      [] sweep = "idle"     -> FALSE

After(step) ==
    CASE step = "idle"     -> "lapse"
      [] step = "lapse"    -> "quotes"
      [] step = "quotes"   -> "direct"
      [] step = "direct"   -> "expire"
      [] step = "expire"   -> "announce"
      [] step = "announce" -> "idle"

\* tick(): on to the next step, once this one has nothing left to do.
SweepStep ==
    /\ ~Due
    /\ sweep' = After(sweep)
    /\ UNCHANGED <<requestVars, briefVars, claimVars, creating, passing>>

\* A step that throws is logged and counts as nothing done.
SweepStepFails ==
    /\ StepsFail
    /\ Due
    /\ sweep' = After(sweep)
    /\ UNCHANGED <<requestVars, briefVars, claimVars, creating, passing>>

EarlierUnfloored(left) == left - 1

Earlier(left) == IF left > 0 THEN left - 1 ELSE left

Tick ==
    /\ sweep = "idle"
    /\ routing' = Earlier(routing)
    /\ pickBy' = Earlier(pickBy)
    /\ claim' = [l \in Lawyers |-> [claim[l] EXCEPT !.hold = Earlier(@)]]
    /\ quotation' = [l \in Lawyers |-> [quotation[l] EXCEPT !.left = Earlier(@)]]
    /\ UNCHANGED <<status, requestedLawyer, requestedOnly, excluded, briefVars,
                   callVars>>

-----------------------------------------------------------------------------
ClientActs ==
    \/ Withdraw
    \/ Close
    \/ \E l \in Lawyers : Decline(l) \/ Accept(l) \/ Engage(l)

LawyerActs(l) ==
    \/ Claim(l)
    \/ \E valid \in 1..MaxValidity : SaveDraft(l, valid) \/ SaveAndSend(l, valid)
    \/ Send(l)
    \/ Release(l)
    \/ WithdrawQuotation(l)
    \/ PassBegins(l)
    \/ PassExcludes(l)
    \/ PassOpens(l)

SweepEndsOne ==
    \/ \E l \in Lawyers : Lapse(l) \/ ExpireSent(l) \/ ExpireAccepted(l)
    \/ OpenDirect
    \/ Expire
    \/ SweepAnnounces

SweepActs == SweepEndsOne \/ SweepStep \/ SweepStepFails

Next ==
    \/ Route
    \/ SaveBrief
    \/ AnnounceInBackground
    \/ ClientActs
    \/ \E l \in Lawyers : LawyerActs(l)
    \/ SweepActs
    \/ Tick

Spec == Init /\ [][Next]_vars

(* Nobody has to act but the server: create() returns, the clock moves, the *)
(* sweep runs every minute, and what always fails when due does not exist.   *)
Fairness ==
    /\ WF_vars(Route)
    /\ SF_vars(Tick)
    /\ WF_vars(SweepStep \/ SweepStepFails)
    /\ SF_vars(SweepEndsOne)

FairSpec == Spec /\ Fairness

-----------------------------------------------------------------------------
(* What must always hold.                                                   *)

\* Joins are counted under the request row's lock: never more lawyers on a
\* request than the most, however many claim at once, and nobody but the
\* named lawyer while it is limited to them (ClientRequestClaimRepo.claim).
PlacesRespected ==
    /\ Cardinality(Open) <= MaxLawyers
    /\ requestedOnly => Open \subseteq {requestedLawyer}

\* The claim's quote columns stay in step with the quotation: the lapse and
\* the reminder read quotedAt, the apps read the quotation (sendTx, endClaim).
QuoteInStep ==
    \A l \in Lawyers :
        /\ claim[l].outcome = "OPEN" => (claim[l].quoted <=> quotation[l].status \in {"SENT", "ACCEPTED"})
        /\ quotation[l].status \in {"DRAFT", "SENT", "ACCEPTED"} => claim[l].outcome = "OPEN"

\* Once the client has picked, exactly one lawyer is left: the one whose
\* quotation is ACCEPTED while it waits to be paid, PAID once engaged.
Picked(quote, how) ==
    \E l \in Lawyers :
        /\ claim[l].outcome = how /\ quotation[l].status = quote
        /\ \A c \in Lawyers \ {l} : claim[c].outcome \notin {"OPEN", "ENGAGED"}
                                   /\ quotation[c].status \notin {"DRAFT", "SENT", "ACCEPTED", "PAID"}

OneLawyerOncePicked ==
    /\ status = "CONFIRMED" => Picked("ACCEPTED", "OPEN")
    /\ status \in {"ENGAGED", "CLOSED"} => Picked("PAID", "ENGAGED")

\* Before a pick nothing is accepted or paid; after an end without one,
\* nobody still holds the request and no quote is still open.
NothingLeftOpen ==
    /\ status \in {"REQUESTED", "ROUTED", "EXPIRED", "WITHDRAWN"} =>
         \A l \in Lawyers : claim[l].outcome # "ENGAGED" /\ quotation[l].status \notin {"ACCEPTED", "PAID"}
    /\ status \in {"REQUESTED", "EXPIRED", "WITHDRAWN"} => Open = {}

\* The request, its claims and its quotations are three tables written by one
\* transaction each: however accepting, ending and expiring interleave, they
\* tell one story of who is on the request and who was picked.
TablesAgree == QuoteInStep /\ NothingLeftOpen /\ OneLawyerOncePicked

\* While routed there is a pick-by date exactly when a quote is waiting for
\* the client, and it never comes before a quote that is still good.
PickByCoversQuotes ==
    status = "ROUTED" =>
        /\ (pickBy = NoDate) <=> (\A l \in Open : ~claim[l].quoted)
        /\ \A l \in Open : quotation[l].status = "SENT" => quotation[l].left <= pickBy

\* Giving back, letting lapse or being declined is for good: the lawyer is
\* not offered this request again (afterClaimEnded).
LeftForGood ==
    \A l \in Lawyers : claim[l].outcome \in {"RELEASED", "LAPSED", "DECLINED"} => l \in excluded

(* What no step may do.                                                     *)

\* A request that was closed, expired or withdrawn stays so, once create() has
\* returned (ClientRequestRepo's transitions are all conditional on the status).
ClosedIsFinal == [][(status \in Closed) /\ ~creating => UNCHANGED status]_vars

\* A request is not expired under a quote the client may still accept.
GoodQuoteNotExpired ==
    [][status' = "EXPIRED" /\ status # "EXPIRED" =>
         \A l \in Open : quotation[l].status = "SENT" => quotation[l].left = 0]_vars

\* A lawyer inside their 24h, or with a good quote, loses their place only by
\* giving it back, or by the client: declining, picking or withdrawing.
HolderNotDropped ==
    [][\A l \in Lawyers :
         /\ claim[l].outcome = "OPEN" /\ claim'[l].outcome \in {"LAPSED", "NOT_CHOSEN"}
         /\ status' # "CONFIRMED"
         => IF claim[l].quoted THEN quotation[l].left = 0 ELSE claim[l].hold = 0]_vars

\* Every way back into the pool (a window opened anew) announces it again and
\* leaves no lawyer on it.
PoolIsAnnouncedAgain ==
    [][routing' > routing => ~announced' /\ (\A l \in Lawyers : claim'[l].outcome # "OPEN")]_vars

(* What it promises, as Engagement states it.                               *)

Stage ==
    IF status = "CONFIRMED" THEN "picked"
    ELSE IF status = "ENGAGED" THEN "engaged"
    ELSE IF status \in Closed /\ ~creating THEN "over"
    ELSE "open"

Promise ==
    INSTANCE Engagement WITH
        stage  <- Stage,
        picked <- {l \in Lawyers : quotation[l].status \in {"ACCEPTED", "PAID"}},
        gone   <- excluded \ Open

\* However lawyers come and go and deadlines pass, one lawyer at a time is picked,
\* only that one is engaged, and one who was let go of is never picked again
\* (accept, expireAccepted and engage in quotation.repository.ts).
KeepsPromise == Promise!Spec

(* What must happen.                                                        *)

\* However the lawyers and the client behave, or fail to, the client is not
\* left waiting: every request is engaged or ends, for good (the sweep's tick).
EventuallyDecided == <>[](status \in {"ENGAGED"} \union Closed)
=============================================================================
