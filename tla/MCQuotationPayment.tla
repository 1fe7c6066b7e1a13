------------------------ MODULE MCQuotationPayment ------------------------
(* QuotationPayment with one or two quotations, for TLC. *)
EXTENDS QuotationPayment, TLC

Symmetry == Permutations(Quotations)
=============================================================================
