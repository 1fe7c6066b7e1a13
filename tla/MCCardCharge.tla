---------------------------- MODULE MCCardCharge ----------------------------
(* Calls race on a fee that is retried, and on a top-up of the same request.  *)
EXTENDS CardCharge
=============================================================================
