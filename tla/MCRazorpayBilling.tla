------------------------- MODULE MCRazorpayBilling -------------------------
(* Small instances of RazorpayBilling for TLC.                              *)
EXTENDS RazorpayBilling, TLC

Symmetry == Permutations(Handlers)
=============================================================================
