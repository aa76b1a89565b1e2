------------------------- MODULE MCBundleSettlement -------------------------
(* BundleSettlement for a bundle of three components, one of them free.     *)
EXTENDS BundleSettlement

MCShare == <<2, 3, 0>>
MCNet == <<1, 3, 0>>
=============================================================================
