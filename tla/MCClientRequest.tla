-------------------------- MODULE MCClientRequest --------------------------
(* ClientRequest on small sets of lawyers, for TLC. *)
EXTENDS ClientRequest, TLC

Symmetry == Permutations(Lawyers)
=============================================================================
