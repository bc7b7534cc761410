--------------------------- MODULE MCPaymentData ----------------------------
(* Texts: nothing, a bill (whose refNo is itself a number), an amount in the *)
(* GO's form and the same number in another.  Blocks are two bytes; texts of *)
(* zero to three bytes leave both pad lengths, and one ends like a pad.      *)
EXTENDS PaymentData

MCBill    == << 7 >>
MCBills   == { MCBill }
MCTexts   == { << >>, MCBill, << 5, 0 >>, << 5, 2, 2 >> }
MCNumber  == << 5, 0 >> :> 5 @@ << 5, 2, 2 >> :> 5 @@ MCBill :> 7
MCAmountText == MCBill :> << 5, 2, 2 >>

=============================================================================
