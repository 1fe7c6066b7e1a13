------------------------- MODULE MCQuotationRefund -------------------------
(* QuotationRefund with a few refunds of a small payment, for TLC. *)
EXTENDS QuotationRefund, TLC

Symmetry == Permutations(Refunds)
=============================================================================
