----------------------------- MODULE Engagement -----------------------------
(***************************************************************************)
(* What the market promises about who gets a client's case, whatever the   *)
(* lawyers, the deadlines and the payments do: one lawyer at a time is     *)
(* picked, only the one picked is engaged, whoever has left is not picked  *)
(* any more, and an end is an end.  ClientRequest implements this with     *)
(* claims, quotations and the sweep, QuotationPayment with payments.       *)
(***************************************************************************)
EXTENDS FiniteSets

CONSTANT Lawyers

VARIABLES
    stage,    \* "open", "picked", "engaged" or "over"
    picked,   \* the lawyer picked, as a set of at most one
    gone      \* the lawyers who have left for good

vars == <<stage, picked, gone>>

TypeOK ==
    /\ stage \in {"open", "picked", "engaged", "over"}
    /\ picked \subseteq Lawyers
    /\ gone \subseteq Lawyers

Init ==
    /\ stage = "open"
    /\ picked = {}
    /\ gone = {}

\* Lawyers leave at any time.
OthersLeave == gone' \subseteq Lawyers /\ gone \subseteq gone'

Leave ==
    /\ OthersLeave
    /\ UNCHANGED <<stage, picked>>

Pick(l) ==
    /\ stage = "open"
    /\ l \notin gone
    /\ stage' = "picked"
    /\ picked' = {l}
    /\ OthersLeave

\* The one picked was not paid in time, and does not come back.
LetGo ==
    /\ stage = "picked"
    /\ stage' = "open"
    /\ picked' = {}
    /\ picked \subseteq gone'
    /\ OthersLeave

Engage ==
    /\ stage = "picked"
    /\ stage' = "engaged"
    /\ UNCHANGED picked
    /\ OthersLeave

End ==
    /\ stage \in {"open", "engaged"}
    /\ stage' = "over"
    /\ UNCHANGED picked
    /\ OthersLeave

Next ==
    \/ Leave
    \/ \E l \in Lawyers : Pick(l)
    \/ LetGo
    \/ Engage
    \/ End

Spec == Init /\ [][Next]_vars
=============================================================================
