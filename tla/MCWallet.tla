------------------------------ MODULE MCWallet ------------------------------
(* Wallet with a few earnings and withdrawals, for TLC. *)
EXTENDS Wallet, TLC

Symmetry == Permutations(Earnings) \union Permutations(Withdrawals)
=============================================================================
