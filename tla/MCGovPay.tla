------------------------------ MODULE MCGovPay ------------------------------
(* GovPay for TLC: requests of one kind are interchangeable. *)
EXTENDS GovPay, TLC

HandlerSymmetry == Permutations(Presentments) \cup Permutations(Pays)

=============================================================================
