--------------------------- MODULE MCBundleRefund ---------------------------
(* BundleRefund with two operations: one for a minor unit, one for two.    *)
EXTENDS BundleRefund, TLC

CONSTANTS o1, o2

AmountOneAndTwo == (o1 :> 1) @@ (o2 :> 2)
=============================================================================
