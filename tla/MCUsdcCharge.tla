---------------------------- MODULE MCUsdcCharge ----------------------------
(* Instances of UsdcCharge for TLC: the payments are interchangeable.      *)
EXTENDS UsdcCharge

PaymentSymmetry == Permutations(Pay)
=============================================================================
